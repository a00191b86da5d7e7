CONSTANTS
  U64 = 65536
  File <- McFiles
  Node = {n1, n2}
  NoNode = none
  Silent = {"mute"}
  MaxRecords = 2
CHECK_DEADLOCK FALSE
SPECIFICATION BootSpec
INVARIANTS ListensOn9735
