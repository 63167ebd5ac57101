CONSTANTS
  Procs <- MCTwoReaders
  Beacons <- MCShortBeacons
  BEACON_MAX_SIZE = 3
  Garbage <- MCGarbage
  ReadSize = 4
  SizeW = 4
SPECIFICATION Spec
INVARIANT NoOverRead
