CONSTANTS
  w1 = w1
  w2 = w2
  r1 = r1
  s1 = s1
  s2 = s2
  None = None
  Writers <- TwoWriters
  Readers <- OneReader
  Sats <- TwoSats
  MaxRuns = 3
SPECIFICATION FairSpec
INVARIANT HolderCanFinish
PROPERTIES PublishesWholeBatch ImplementsRegister LockIsReleased
CHECK_DEADLOCK FALSE
