SPECIFICATION Spec
CONSTANTS
  Key = {1, 2}
  Data <- MCData
  Tx = {1, 2, 3}
  Operations <- MCDeletes
  Tombstone = Tombstone
  Absent = Absent
  Error = Error
  KeyBytes = 2
  DataBytes = 6
  ReadChunk = 64
  BufCap = 8192
  ClockSteps = {1}
  MaxWriters = 2
  MaxFaults = 1
  MaxIoErrors = 0
  MemtableMaxBytes = 1000000
  Subscribers = FALSE
INVARIANTS NoLostUpdate AllOrNothing ScanReturnsContents OpenIsLoop ReplayIsRestore 
CHECK_DEADLOCK FALSE
