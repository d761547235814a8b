CONSTANTS
  first = first
  second = second
  Slots <- TwoSlots
  Period = 2
  Ttl <- Windows
  MaxAttempts = 3
  MaxClock = 4
  MaxFaults = 3
SPECIFICATION FairSpec
INVARIANT NoRunIsStuck
PROPERTIES SnapshotNeverGoesBack MovesRunOut NoAnswerInsideWindow PublishedIsCurrent EveryBoundaryIsServed
CHECK_DEADLOCK FALSE
