SPECIFICATION Spec
CONSTANTS
  Key = {1, 2}
  Data <- MCData
  Tx = {1, 2}
  Operations <- MCSetDelete
  Tombstone = Tombstone
  Absent = Absent
  Error = Error
  KeyBytes = 1
  DataBytes = 1
  ReadChunk = 64
  BufCap = 8192
  ClockSteps = {1}
  MaxWriters = 2
  MaxFaults = 0
  MaxIoErrors = 0
  MemtableMaxBytes = 1
  Subscribers = TRUE
INVARIANTS GetHidesDeleted
CHECK_DEADLOCK FALSE
