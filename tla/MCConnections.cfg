SPECIFICATION NetSpec
CHECK_DEADLOCK FALSE
CONSTANTS
  reader = reader
  sleeper = sleeper
  Conn <- MCConn
  Slow <- MCSlow
  QueueCap = 2
  BufferCap = 1
  MaxVersion = 2
  MaxSent = 3
SYMMETRY Clients
INVARIANTS
  NetTypeOK
  SeenLatest
  EveryCommandAnswered
