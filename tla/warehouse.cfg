CONSTANTS
  s1 = s1
  s2 = s2
  Sats <- OneSat
  Center <- Docked
  MaxEpoch = 2
  MaxGp = 2
  MaxCat = 2
  MaxFails = 1
SPECIFICATION FairSpec
INVARIANT AsOfIsUnique
PROPERTIES HistoryOnlyGrows ServesNoKnownDecay ServesWhatIsInOrbit Converges
CHECK_DEADLOCK FALSE
