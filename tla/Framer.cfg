SPECIFICATION FairSpec
CONSTANTS
  Frames <- MCFrames
  Junk = {0, 2}
  MaxRead = 32
  MaxFrames = 2
  MaxLosses = 1
INVARIANTS
  TypeOK
  NothingLostOnTheWay
  CutsAreEnds
PROPERTIES
  EveryPduArrives
