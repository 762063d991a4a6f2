SPECIFICATION FairSpec
CONSTANTS
  BufSize = 6
  Requests <- MCRequests
  Padding <- MCPadding
  Coalesced = FALSE
  MaxStoreErrors = 1
INVARIANTS TypeOK ReadsWhatWasSent AnswersMatch
PROPERTIES ErrOnlyForShortRead RequestsAnswered KillEndsConnection EofEndsConnection
CHECK_DEADLOCK FALSE
