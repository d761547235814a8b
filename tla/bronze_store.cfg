CONSTANTS
  p1 = p1
  l1 = l1
  l2 = l2
  gp = gp
  c1 = c1
  html = html
  o1 = o1
  o2 = o2
  None = None
  Procs <- OneIngest
  Targets <- OneTarget
  Contents <- TwoContents
  Names <- TwoNames
  Objects <- TwoObjects
  Holds <- AllObjects
  Legible <- OneContent
  Loaders <- TwoLoaders
  MaxKills = 1
SPECIFICATION FairSpec
INVARIANTS SealedIsComplete WholeLandings RetriesHeal
PROPERTIES CommitIsComplete ImplementsLog SealedArrivesOrBlocked
CHECK_DEADLOCK FALSE
