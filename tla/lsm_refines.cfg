SPECIFICATION Spec
CONSTANTS
  Key = {1, 2}
  Data <- MCData
  Tx = {1, 2}
  Operations <- MCSetDeletes
  Tombstone = Tombstone
  Absent = Absent
  Error = Error
  KeyBytes = 1
  DataBytes = 1
  ReadChunk = 64
  BufCap = 8192
  ClockSteps = {0, 1}
  MaxWriters = 1
  MaxFaults = 1
  MaxIoErrors = 0
  MemtableMaxBytes = 1
  Subscribers = TRUE
INVARIANT SerialInv
PROPERTIES ImplementsMemoryStore TablesImmutable
CHECK_DEADLOCK FALSE
