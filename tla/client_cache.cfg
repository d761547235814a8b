CONSTANTS
  p1 = p1
  p2 = p2
  gp = gp
  satcat = satcat
  n1 = n1
  n2 = n2
  n3 = n3
  None = None
  Procs <- OneCommand
  Targets <- BothFeeds
  Contents <- TwoContents
  Names <- ThreeNames
  Ttl <- Windows
  Serves <- EitherFeed
  Budget = 1
  MaxSize = 1
  MaxDay = 1
  MaxDownload = 3
  MaxLapses = 2
SPECIFICATION Spec
SYMMETRY SymmetricNames
INVARIANTS RevalidatesWholePayload NoRequestWhileFresh LatestIsNewest
PROPERTY KeepsTheParts
CHECK_DEADLOCK FALSE
