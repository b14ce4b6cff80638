SPECIFICATION GameSpec
CONSTANTS
  ann = ann
  bob = bob
  cyd = cyd
  news = news
  mime = mime
  yes = yes
  no = no
  None = None
  Name <- MCName
  PromptSetId <- MCPromptSetId
  PromptSets <- MCPromptSets
  Prompts <- MCPrompts
  Text <- MCText
  ItemCount <- MCItemCount
  SlideIndex <- MCSlideIndex
INVARIANTS
  GameTypeOK
  EveryonePresentsOnce
  OneRing
  PromptSetsBalanced
  PerformanceComplete
  SlideInRange
  ReaderHandover
PROPERTIES
  RosterLocked
  FinalAnswersFrozen
