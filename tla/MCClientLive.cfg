SPECIFICATION ClientFairSpec
CONSTANTS
  MaxRounds = 2
  MaxConnects = 1
  BufferCap = 3
  PromptsIn <- NoneThenSome
PROPERTIES
  RequestsEnd
CHECK_DEADLOCK FALSE
