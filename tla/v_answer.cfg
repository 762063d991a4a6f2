SPECIFICATION Spec
CONSTANTS
  BufSize = 32
  Requests <- MCSet
  Padding <- MCPadding
  Coalesced = FALSE
  MaxStoreErrors = 1
INVARIANTS SetAnsweredIsSaved
CHECK_DEADLOCK FALSE
