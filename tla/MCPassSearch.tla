---------------------------- MODULE MCPassSearch ----------------------------
\* The two consumers of a sampled satellite for TLC.  PassSearch has one elevation
\* below the threshold, one at it and one above; TrackPaths has longitudes less
\* than, exactly and more than half a turn apart.  A behaviour runs one of them, the other is over.
EXTENDS PassSearch, TrackPaths

SomeLevels == {9, 10, 11}
NoAnswer == -1
SomeLongitudes == {-170, -20, 10, 160}
NoLongitude == 999

NoPasses ==
  /\ sky = [k \in Instants |-> Declined] /\ phase = "done" /\ offset = Samples + 1
  /\ times = <<>> /\ index = 1 /\ run_start = None /\ passes = {}

NoTrack ==
  /\ orbit = [k \in SampleNos |-> NoFix] /\ moves = FALSE /\ globe = FALSE
  /\ stage = "done" /\ sample = 1 /\ points = <<>> /\ place = 2 /\ first = 1
  /\ segments = {} /\ shift = 0 /\ unwrapped = <<>>

SamplingInit == (Init /\ NoTrack) \/ (PathInit /\ NoPasses)

SamplingNext == (Next /\ UNCHANGED pathVars) \/ (PathNext /\ UNCHANGED vars)

SamplingSpec == SamplingInit /\ [][SamplingNext]_<<vars, pathVars>>
=============================================================================
