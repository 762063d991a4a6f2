SPECIFICATION Spec
CONSTANTS
  BufSize = 32
  Requests <- MCTwoGets
  Padding <- MCPadding
  Coalesced = TRUE
  MaxStoreErrors = 0
PROPERTY ErrOnlyForShortRead
CHECK_DEADLOCK FALSE
