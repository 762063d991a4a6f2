SPECIFICATION Spec
CONSTANTS
  BufSize = 32
  Requests <- MCNewline
  Padding <- MCPadding
  Coalesced = FALSE
  MaxStoreErrors = 0
PROPERTY ErrOnlyForShortRead
CHECK_DEADLOCK FALSE
