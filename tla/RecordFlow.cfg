SPECIFICATION Spec
CONSTANTS
  Frags = {512, 1024, 16384}
  Slacks = {0, 1, 7, 240}
  Cuts = {0, 1, 2, 9, 17}
  MaxWire = 2
  MaxSeq = 2
INVARIANTS
  TypeOK
  RecordsFit
  NeverRefused
  PlaintextKept
CHECK_DEADLOCK FALSE
