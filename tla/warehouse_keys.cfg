CONSTANTS
  s1 = s1
  s2 = s2
  Sats <- TwoSats
  Center <- HostAndSun
  MaxEpoch = 1
  MaxGp = 1
  MaxCat = 1
  MaxFails = 0
SPECIFICATION Spec
PROPERTY KeysResolve
CHECK_DEADLOCK FALSE
