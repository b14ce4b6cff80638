SPECIFICATION ClientSpec
CONSTANTS
  MaxRounds = 2
  MaxConnects = 1
  BufferCap = 3
  PromptsIn <- SameEachRound
INVARIANT FetchesTheAssignment
CHECK_DEADLOCK FALSE
