SPECIFICATION Spec
CONSTANTS
  Key = {1}
  Data <- MCData
  Tx = {1, 2}
  Operations <- MCTwoSets
  Tombstone = Tombstone
  Absent = Absent
  Error = Error
  KeyBytes = 1
  DataBytes = 1
  ReadChunk = 64
  BufCap = 8192
  ClockSteps = {1}
  MaxWriters = 2
  MaxFaults = 1
  MaxIoErrors = 0
  MemtableMaxBytes = 1
  Subscribers = TRUE
INVARIANTS RecoverySucceeds
CHECK_DEADLOCK FALSE
