CONSTANTS
  Samples = 6
  Levels <- SomeLevels
  Minimum = 10
  Declined <- NoAnswer
  TrackSamples = 5
  Longitudes <- SomeLongitudes
  NoFix <- NoLongitude
SPECIFICATION SamplingSpec
INVARIANTS FindsEveryPass PeaksAtFirstHighest UncutPassesRiseAndSet JoinsAllButCrossings ContinuesAround
CHECK_DEADLOCK FALSE
