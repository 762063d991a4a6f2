SPECIFICATION FairSpec
CONSTANTS
  Conn = {c1, c2}
  Peer = {p1}
INVARIANTS TypeOK OrderlyEnd EndInv
PROPERTIES ShutdownSucceeds StopsTogether
CHECK_DEADLOCK FALSE
