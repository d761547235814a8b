CONSTANTS
  Sats <- TwoSats
  Served <- TwoBuilds
  Known <- TwoBuilds
  Overhead <- InTurns
  MaxTracks = 1
  None = None
  MaxBuild = 1
  MaxMoves = 5
SPECIFICATION FairSpec
INVARIANTS TypeOK EveryPositionResolves OrbitsFitTheirDots FocusIsSeen
PROPERTIES RerunsRunOut RerunsSettle
CHECK_DEADLOCK FALSE
