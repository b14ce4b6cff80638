SPECIFICATION RoomSpec
CONSTANTS
  ann = ann
  bob = bob
  news = news
  yes = yes
  None = None
  Name <- MCName
  PromptSetId <- MCPromptSetId
  PromptSets <- MCPromptSets
  Prompts <- MCPrompts
  Text <- MCText
  ItemCount <- MCItemCount
  SlideIndex <- MCSlideIndex
  Identity <- MCIdentity
  Viewer = ann
INVARIANT HostCanWipe
