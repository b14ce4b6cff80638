SPECIFICATION ClientSpec
CONSTANTS
  MaxRounds = 2
  MaxConnects = 2
  BufferCap = 3
  PromptsIn <- NoneThenSome
INVARIANTS
  ClientTypeOK
  PageMatchesRoom
  CanAnswer
PROPERTIES
  RequestsShrink
CHECK_DEADLOCK FALSE
