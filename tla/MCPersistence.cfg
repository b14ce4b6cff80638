SPECIFICATION Spec
CONSTANTS
  ann = ann
  bob = bob
  news = news
  yes = yes
  None = None
  Name <- MCName
  PromptSetId <- MCPromptSetId
  PromptSets <- MCPromptSets
  Prompts <- MCPrompts
  Text <- MCText
  ItemCount <- MCItemCount
  SlideIndex <- MCSlideIndex
  Identity <- MCIdentity
  Code = {c1, c2}
  MaxRounds = 2
  MaxFaults = 2
VIEW WithoutReaction
INVARIANTS
  PersistenceTypeOK
  ArchivedWhole
  RowsAreOneRound
  RetainedNotReused
  DurableMatchesPhase
  PongMeansDurable
  EachFaultCostsOneRound
PROPERTIES
  ImplementsRoundLife
