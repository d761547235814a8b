CONSTANTS
  Samples = 4
  Levels <- SomeLevels
  Minimum = 10
  Declined <- NoAnswer
  TrackSamples = 2
  Longitudes <- SomeLongitudes
  NoFix <- NoLongitude
SPECIFICATION SamplingSpec
INVARIANT GapsAreBreaks
CHECK_DEADLOCK FALSE
