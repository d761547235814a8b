----------------------------- MODULE TrackPaths -----------------------------
(***************************************************************************)
(* One satellite's orbit from its samples to the lines on the map:         *)
(* orbit_track and orbit_tracks (propagate/tracks.py), then                *)
(* split_at_antimeridian for the flat map or unwrap_longitudes for the     *)
(* globe (app.py).                                                         *)
(*                                                                         *)
(* A sample is its number, its place is its longitude in whole degrees.    *)
(* Latitudes and altitudes are carried along unread and are left out, and  *)
(* a segment is the pair of its first and last point.                      *)
(***************************************************************************)
EXTENDS Integers, Sequences

CONSTANTS
  TrackSamples,  \* `samples`
  Longitudes,    \* the longitudes a sample can have
  NoFix          \* what SGP4 answers for a sample it declines

ASSUME TrackAssumption ==
  /\ TrackSamples \in Nat
  /\ Longitudes \subseteq -180..180
  /\ NoFix \notin Longitudes

VARIABLES
  orbit,      \* the longitude at every sample
  moves,      \* whether the element set has a usable mean motion
  globe,      \* the projection
  stage,      \* which loop runs
  sample,     \* the next sample to convert
  points,     \* the samples converted
  place,      \* the second point of the next pair
  first,      \* the first point of `current`
  segments,   \* `segments`
  shift,      \* `offset` of unwrap_longitudes
  unwrapped   \* `unwrapped`

pathVars == <<orbit, moves, globe, stage, sample, points, place, first, segments, shift, unwrapped>>

SampleNos == 1..TrackSamples

Longitude(i) == orbit[points[i]]

PathTypeOK ==
  /\ orbit \in [SampleNos -> Longitudes \union {NoFix}]
  /\ moves \in BOOLEAN
  /\ globe \in BOOLEAN
  /\ stage \in {"trace", "split", "unwrap", "done"}
  /\ sample \in 1..(TrackSamples + 1)
  /\ points \in Seq(SampleNos)
  /\ \A i \in 1..Len(points) : Longitude(i) \in Longitudes
  /\ place \in 2..(Len(points) + 2)
  /\ first \in 1..(Len(points) + 1)
  /\ segments \subseteq (1..Len(points)) \X (1..Len(points))
  /\ shift \in Int
  /\ unwrapped \in Seq(Int)

PathInit ==
  /\ orbit \in [SampleNos -> Longitudes \union {NoFix}]
  /\ moves \in BOOLEAN
  /\ globe \in BOOLEAN
  /\ stage = "trace"
  /\ sample = 1
  /\ points = <<>>
  /\ place = 2
  /\ first = 1
  /\ segments = {}
  /\ shift = 0
  /\ unwrapped = <<>>

-----------------------------------------------------------------------------
\* A mean motion of zero or less raises ValueError, and the satellite is skipped.
NoPeriod ==
  /\ stage = "trace" /\ ~moves
  /\ stage' = "done"
  /\ UNCHANGED <<orbit, moves, globe, sample, points, place, first, segments, shift, unwrapped>>

\* A sample SGP4 declines is left out.
Trace ==
  /\ stage = "trace" /\ moves /\ sample <= TrackSamples
  /\ sample' = sample + 1
  /\ points' = IF orbit[sample] = NoFix THEN points ELSE Append(points, sample)
  /\ UNCHANGED <<orbit, moves, globe, stage, place, first, segments, shift, unwrapped>>

\* Fewer than two points are no track; the globe continues it, the flat map cuts it.
EndTrace ==
  /\ stage = "trace" /\ moves /\ sample > TrackSamples
  /\ stage' = IF Len(points) < 2 THEN "done" ELSE IF globe THEN "unwrap" ELSE "split"
  /\ unwrapped' = IF Len(points) < 2 \/ ~globe THEN <<>> ELSE <<Longitude(1)>>
  /\ UNCHANGED <<orbit, moves, globe, sample, points, place, first, segments, shift>>

\* Longitude gained from the point before i to point i, as the numbers say it.
Jump(i) == Longitude(i) - Longitude(i - 1)

\* More than half a turn between neighbours can only be the wrap at 180 degrees.
Crosses(i) == Jump(i) > 180 \/ Jump(i) < -180

\* The path is cut between the two points.
Cut ==
  /\ stage = "split" /\ place <= Len(points) /\ Crosses(place)
  /\ segments' = segments \union {<<first, place - 1>>}
  /\ first' = place
  /\ place' = place + 1
  /\ UNCHANGED <<orbit, moves, globe, stage, sample, points, shift, unwrapped>>

\* It goes on.
Extend ==
  /\ stage = "split" /\ place <= Len(points) /\ ~Crosses(place)
  /\ place' = place + 1
  /\ UNCHANGED <<orbit, moves, globe, stage, sample, points, first, segments, shift, unwrapped>>

\* Slip: the segment still open at the end is lost.
EndSplitForgets ==
  /\ stage = "split" /\ place > Len(points)
  /\ segments' = {s \in segments : s[1] < s[2]}
  /\ stage' = "done"
  /\ UNCHANGED <<orbit, moves, globe, sample, points, place, first, shift, unwrapped>>

\* The last segment is closed, and those of a single point are dropped.
EndSplit ==
  /\ stage = "split" /\ place > Len(points)
  /\ segments' = {s \in segments \union {<<first, Len(points)>>} : s[1] < s[2]}
  /\ stage' = "done"
  /\ UNCHANGED <<orbit, moves, globe, sample, points, place, first, shift, unwrapped>>

\* Slip: the offset is not carried from one crossing to the next.
ShiftForgets(i) == IF Jump(i) > 180 THEN -360 ELSE IF Jump(i) < -180 THEN 360 ELSE shift

\* The offset after point i: a turn back or forth at every crossing.
ShiftAt(i) == IF Jump(i) > 180 THEN shift - 360 ELSE IF Jump(i) < -180 THEN shift + 360 ELSE shift

Unwrap ==
  /\ stage = "unwrap" /\ place <= Len(points)
  /\ shift' = ShiftAt(place)
  /\ unwrapped' = Append(unwrapped, Longitude(place) + ShiftAt(place))
  /\ place' = place + 1
  /\ UNCHANGED <<orbit, moves, globe, stage, sample, points, first, segments>>

EndUnwrap ==
  /\ stage = "unwrap" /\ place > Len(points)
  /\ stage' = "done"
  /\ UNCHANGED <<orbit, moves, globe, sample, points, place, first, segments, shift, unwrapped>>

PathNext ==
  \/ NoPeriod \/ Trace \/ EndTrace
  \/ Cut \/ Extend \/ EndSplit
  \/ Unwrap \/ EndUnwrap

PathSpec == PathInit /\ [][PathNext]_pathVars

-----------------------------------------------------------------------------
\* On the flat map two neighbouring points are joined by a line exactly when the line is
\* no longer than half the map: no line runs across it and no stretch of the orbit is
\* lost, at the first and the last point and between two crossings in a row (app.py:789-801, 812-823; tests/test_app.py:411-452).
JoinsAllButCrossings ==
  stage = "done" /\ ~globe /\ moves =>
    \A i \in 2..Len(points) :
      (\E s \in segments : s[1] <= i - 1 /\ i <= s[2]) <=> Jump(i) \in -180..180

\* On the globe every point stays where it is, up to whole turns, and no step to the
\* next one is longer than half a turn, however often and in whichever direction the
\* orbit has crossed before (app.py:834-850, 861-872; tests/test_app.py:754-800).
ContinuesAround ==
  stage = "done" /\ globe /\ moves /\ Len(points) >= 2 =>
    /\ Len(unwrapped) = Len(points)
    /\ \A i \in 1..Len(points) :
         \E k \in -TrackSamples..TrackSamples : unwrapped[i] = Longitude(i) + 360 * k
    /\ \A i \in 2..Len(points) :
         unwrapped[i] - unwrapped[i - 1] \in -180..180
=============================================================================
