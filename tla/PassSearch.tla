----------------------------- MODULE PassSearch -----------------------------
(***************************************************************************)
(* The pass search (propagate/passes.py): look_angle_series samples one    *)
(* satellite's elevation over a window, find_passes walks the series and   *)
(* cuts it into runs above a threshold, _build_pass summarises each.       *)
(*                                                                         *)
(* An instant is the number of its sample in the window.  Elevations are   *)
(* any integers; SGP4 and the frames that compute them are outside.        *)
(***************************************************************************)
EXTENDS Integers, Sequences

CONSTANTS
  Samples,    \* samples in the window
  Levels,     \* the elevations a sample can have
  Minimum,    \* minimum_elevation
  Declined    \* what SGP4 answers for an instant it has no position for

ASSUME SearchAssumption ==
  /\ Samples \in Nat
  /\ Levels \subseteq Int
  /\ Minimum \in Int
  /\ Declined \notin Levels

VARIABLES
  sky,        \* the elevation at every instant
  phase,      \* which loop runs
  offset,     \* the next instant to sample
  times,      \* the instants sampled
  index,      \* where the scan is
  run_start,  \* the sample the open run began with, or None
  passes      \* the passes so far

vars == <<sky, phase, offset, times, index, run_start, passes>>

Instants == 1..Samples
None == 0

Elevation(k) == sky[times[k]]
Above(k) == Elevation(k) >= Minimum

Summaries == [start : Instants, peak : Instants, peak_elevation : Levels,
              end : Instants, truncated : BOOLEAN]

TypeOK ==
  /\ sky \in [Instants -> Levels \union {Declined}]
  /\ phase \in {"sample", "scan", "close", "done"}
  /\ offset \in 1..(Samples + 1)
  /\ times \in Seq(Instants)
  /\ index \in 1..(Len(times) + 1)
  /\ run_start \in 0..Len(times)
  /\ passes \subseteq Summaries

Init ==
  /\ sky \in [Instants -> Levels \union {Declined}]
  /\ phase = "sample"
  /\ offset = 1
  /\ times = <<>>
  /\ index = 1
  /\ run_start = None
  /\ passes = {}

-----------------------------------------------------------------------------
\* An instant SGP4 declines is left out of the series.
Sample ==
  /\ phase = "sample" /\ offset <= Samples
  /\ offset' = offset + 1
  /\ times' = IF sky[offset] = Declined THEN times ELSE Append(times, offset)
  /\ UNCHANGED <<sky, phase, index, run_start, passes>>

\* A series of fewer than two samples has no passes.
EndSampling ==
  /\ phase = "sample" /\ offset > Samples
  /\ phase' = IF Len(times) < 2 THEN "done" ELSE "scan"
  /\ UNCHANGED <<sky, offset, times, index, run_start, passes>>

\* np.argmax: the first of the highest samples.
Highest(first, last) ==
  CHOOSE k \in first..last : \A j \in first..last :
    Elevation(j) < Elevation(k) \/ (Elevation(j) = Elevation(k) /\ k <= j)

\* Slip: only a pass cut off by the end of the window is marked.
PassOfUncutStart(first, last) ==
  LET peak == Highest(first, last) IN
  [start |-> times[first], peak |-> times[peak], peak_elevation |-> Elevation(peak),
   end |-> times[last], truncated |-> last = Len(times)]

\* Slip: the peak is looked up by its place within the run.
PassOfLocalPeak(first, last) ==
  LET peak == Highest(first, last) - first + 1 IN
  [start |-> times[first], peak |-> times[peak], peak_elevation |-> Elevation(peak),
   end |-> times[last], truncated |-> first = 1 \/ last = Len(times)]

\* _build_pass
PassOf(first, last) ==
  LET peak == Highest(first, last) IN
  [start |-> times[first], peak |-> times[peak], peak_elevation |-> Elevation(peak),
   end |-> times[last], truncated |-> first = 1 \/ last = Len(times)]

\* A sample rises above the threshold: a run begins.
Rise ==
  /\ phase = "scan" /\ index <= Len(times)
  /\ Above(index) /\ run_start = None
  /\ run_start' = index
  /\ index' = index + 1
  /\ UNCHANGED <<sky, phase, offset, times, passes>>

\* One falls below it: the run ends with the sample before.
Fall ==
  /\ phase = "scan" /\ index <= Len(times)
  /\ ~Above(index) /\ run_start # None
  /\ passes' = passes \union {PassOf(run_start, index - 1)}
  /\ run_start' = None
  /\ index' = index + 1
  /\ UNCHANGED <<sky, phase, offset, times>>

\* The sample changes nothing.
Stay ==
  /\ phase = "scan" /\ index <= Len(times)
  /\ Above(index) <=> run_start # None
  /\ index' = index + 1
  /\ UNCHANGED <<sky, phase, offset, times, run_start, passes>>

\* Slip: a run that is open at the end of the series is forgotten.
EndScanForgets ==
  /\ phase = "scan" /\ index > Len(times)
  /\ phase' = "close"
  /\ UNCHANGED <<sky, offset, times, index, run_start, passes>>

\* A run still open was cut off by the window.
EndScan ==
  /\ phase = "scan" /\ index > Len(times)
  /\ phase' = "close"
  /\ passes' = IF run_start = None THEN passes
               ELSE passes \union {PassOf(run_start, Len(times))}
  /\ UNCHANGED <<sky, offset, times, index, run_start>>

\* A pass of one sample has no duration.
DropInstantaneous ==
  /\ phase = "close"
  /\ phase' = "done"
  /\ passes' = {p \in passes : p.end - p.start > 0}
  /\ UNCHANGED <<sky, offset, times, index, run_start>>

Next ==
  \/ Sample \/ EndSampling
  \/ Rise \/ Fall \/ Stay \/ EndScan
  \/ DropInstantaneous

Spec == Init /\ [][Next]_vars

-----------------------------------------------------------------------------
\* The samples from a to b are above the threshold, and no further one beside them is.
IsRun(a, b) ==
  /\ a \in 1..Len(times) /\ b \in a..Len(times)
  /\ \A k \in a..b : Above(k)
  /\ a > 1 => ~Above(a - 1)
  /\ b < Len(times) => ~Above(b + 1)

\* The runs of at least two samples.
Runs == {r \in (1..Len(times)) \X (1..Len(times)) : r[1] < r[2] /\ IsRun(r[1], r[2])}

\* "One Pass per contiguous run above the threshold ...  A pass needs at least two
\* samples" (passes.py:231-233): the result has exactly one pass for each such run of the
\* series as it was sampled, instants SGP4 declined left out, with the run's own first and
\* last instant.
FindsEveryPass ==
  phase = "done" =>
    /\ {<<p.start, p.end>> : p \in passes} = {<<times[r[1]], times[r[2]]>> : r \in Runs}
    /\ \A p, q \in passes : p.start = q.start => p = q

\* A pass peaks inside itself, at the first of its highest samples, and never below the
\* threshold, whatever lies outside the pass (passes.py:303-313; Pass.peak_elevation_deg).
PeaksAtFirstHighest ==
  phase = "done" =>
    \A p \in passes :
      /\ p.start <= p.peak /\ p.peak <= p.end
      /\ p.peak_elevation = sky[p.peak] /\ p.peak_elevation >= Minimum
      /\ \A t \in p.start..p.end :
           sky[t] # Declined /\ t # p.peak =>
             IF t < p.peak THEN sky[t] < sky[p.peak] ELSE sky[t] <= sky[p.peak]

\* A pass that is not marked truncated was seen to rise and to set: a sample below the
\* threshold lies on either side of it (Pass.truncated, passes.py:92-95, 315-317).
UncutPassesRiseAndSet ==
  phase = "done" =>
    \A p \in passes :
      ~p.truncated <=>
        /\ \E t \in 1..(p.start - 1) : sky[t] # Declined /\ sky[t] < Minimum
        /\ \E t \in (p.end + 1)..Samples : sky[t] # Declined /\ sky[t] < Minimum

\* "Instants SGP4 declined are omitted, so the series ... may have gaps, which the pass search
\* treats as breaks rather than pretending continuity across them" (passes.py:133-136): no
\* pass reaches over an instant without a position.
GapsAreBreaks ==
  phase = "done" => \A p \in passes : \A t \in p.start..p.end : sky[t] # Declined

\* Passes are found in time order and never overlap (tests/test_passes.py:130-146).
FoundInTimeOrder ==
  [][\A p \in passes' \ passes, q \in passes : q.end < p.start]_vars
=============================================================================
