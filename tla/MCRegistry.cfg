SPECIFICATION RegFairSpec
CONSTANTS
  a = a
  b = b
  k1 = k1
  k2 = k2
  Client <- MCClient
  Code <- MCCode
  MaxRooms = 3
INVARIANTS
  RegistryTypeOK
  CodesLeadHome
  HostHoldsToken
PROPERTY
  LookupAnswered
CHECK_DEADLOCK FALSE
