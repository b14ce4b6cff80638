SPECIFICATION FairNetSpec
CHECK_DEADLOCK FALSE
CONSTANTS
  reader = reader
  sleeper = sleeper
  Conn <- MCConn
  Slow <- MCSlow
  QueueCap = 1
  BufferCap = 1
  MaxVersion = 2
  MaxSent = 2
PROPERTIES
  JoinSettles
  ReaderServed
  HandlerEnds
