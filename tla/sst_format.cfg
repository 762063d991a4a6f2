SPECIFICATION Spec
CONSTANTS
  Key = {1, 2, 3}
  Data = {"empty", "long", "longer"}
  Tx = {}
  Operations <- MCOperations
  Tombstone = Tombstone
  Absent = Absent
  Error = Error
  KeyLength <- MCKeyLength
  DataLength <- MCDataLength
  MaxRead = 84
INVARIANTS TypeOK FormatInv SearchIsRight ScanIsRight
CHECK_DEADLOCK FALSE
