--------------------------- MODULE SamplingProofs ---------------------------
(***************************************************************************)
(* The two consumers of a sampled satellite.                               *)
(*                                                                         *)
(* The pass search for every window, every threshold and every sky: the    *)
(* scan reports exactly the runs of the series, each once, in time order,  *)
(* with its own peak and its own truncation mark.                          *)
(*                                                                         *)
(* Orbits on the map for any number of samples and any longitudes: the     *)
(* flat map joins exactly the neighbours that are at most half a turn      *)
(* apart, the globe's path is continuous and every point of it in place.   *)
(***************************************************************************)
EXTENDS PassSearch, TrackPaths, TLAPS, WellFoundedInduction

\* Every non-empty set of naturals has a least element.
LEMMA LeastExists ==
  ASSUME NEW S, S \subseteq Nat, S # {}
  PROVE  \E e \in S : \A d \in S : e <= d
<1> DEFINE Below == {xy \in Nat \X Nat : xy[1] < xy[2]}
<1>1. IsWellFoundedOn(Below, Nat)
  BY NatLessThanWellFounded DEF OpToRel
<1>2. \A c, d \in Nat : c < d => <<c, d>> \in Below
  OBVIOUS
<1> HIDE DEF Below
<1>3. PICK e \in S : \A d \in S : ~ (<<d, e>> \in Below)
  BY <1>1, WFMin
<1>4. \A d \in S : ~ (d < e)
  BY <1>2, <1>3
<1>5. QED
  BY <1>4

-----------------------------------------------------------------------------
\* The series holds exactly the instants that SGP4 answered, in time order.
Sampled ==
  /\ \A j, k \in 1..Len(times) : j < k => times[j] < times[k]
  /\ \A k \in 1..Len(times) : times[k] < offset /\ sky[times[k]] # Declined
  /\ \A t \in 1..(offset - 1) :
       sky[t] # Declined => \E k \in 1..Len(times) : times[k] = t
  /\ phase = "sample" => index = 1 /\ run_start = None /\ passes = {}
  /\ phase # "sample" => offset = Samples + 1

\* The scan's local variable is the start of the run that is open before index.
OpenRun ==
  phase = "scan" =>
    IF run_start = None
      THEN index > 1 => ~Above(index - 1)
      ELSE /\ run_start < index
           /\ \A k \in run_start..(index - 1) : Above(k)
           /\ run_start > 1 => ~Above(run_start - 1)

FirstHighest(k, a, b) ==
  /\ k \in a..b
  /\ \A j \in a..b : Elevation(j) < Elevation(k) \/ (Elevation(j) = Elevation(k) /\ k <= j)

\* What _build_pass says of the samples from a to b.
Summarises(p, a, b) ==
  /\ p.start = times[a] /\ p.end = times[b]
  /\ p.truncated <=> a = 1 \/ b = Len(times)
  /\ \E k \in a..b : /\ FirstHighest(k, a, b)
                     /\ p.peak = times[k]
                     /\ p.peak_elevation = Elevation(k)

\* The runs that have a pass by now.
Reported(a, b) ==
  /\ IsRun(a, b)
  /\ phase # "sample"
  /\ phase = "scan" => b + 1 < index
  /\ phase = "done" => a < b

Found ==
  /\ \A p \in passes : \E a, b \in 1..Len(times) : Reported(a, b) /\ Summarises(p, a, b)
  /\ \A a, b \in 1..Len(times) :
       Reported(a, b) => \E p \in passes : Summarises(p, a, b)
  /\ \A p, q \in passes : p.start = q.start => p = q

SearchInv == TypeOK /\ Sampled /\ OpenRun /\ Found

-----------------------------------------------------------------------------
\* Every sample has an elevation.
LEMMA SampleTyped ==
  ASSUME TypeOK, Sampled, NEW k \in 1..Len(times)
  PROVE  times[k] \in Instants /\ Elevation(k) \in Levels /\ Elevation(k) \in Int
<1>1. times[k] \in Instants
  BY DEF TypeOK
<1>2. sky[times[k]] \in Levels \union {Declined} /\ sky[times[k]] # Declined
  BY <1>1 DEF TypeOK, Sampled
<1>3. QED
  BY <1>1, <1>2, SearchAssumption DEF Elevation

\* Any stretch of samples has a highest one, and a first among those.
LEMMA HighestExists ==
  ASSUME TypeOK, Sampled, NEW a \in 1..Len(times), NEW b \in a..Len(times)
  PROVE  \E k \in a..b : FirstHighest(k, a, b)
<1> DEFINE Bad == {m \in a..b : ~ \E k \in a..m : FirstHighest(k, a, m)}
<1>0. Len(times) \in Nat
  BY DEF TypeOK
<1>1. ASSUME Bad # {} PROVE FALSE
  <2>1. PICK m \in Bad : \A d \in Bad : m <= d
    <3>1. Bad \subseteq Nat
      BY <1>0
    <3> HIDE DEF Bad
    <3>2. QED
      BY <1>1, <3>1, LeastExists
  <2>2. m \in a..b /\ ~ \E k \in a..m : FirstHighest(k, a, m)
    OBVIOUS
  <2>3. CASE m = a
    <3>1. Elevation(a) \in Int
      BY SampleTyped
    <3>2. FirstHighest(a, a, m)
      BY <1>0, <2>3, <3>1 DEF FirstHighest
    <3>3. QED
      BY <1>0, <2>2, <2>3, <3>2
  <2>4. CASE m # a
    <3>1. m - 1 \in a..b /\ m - 1 \notin Bad
      BY <1>0, <2>1, <2>2, <2>4
    <3>2. PICK k \in a..(m - 1) : FirstHighest(k, a, m - 1)
      BY <3>1
    <3>3. \A j \in a..m : Elevation(j) \in Int
      BY <1>0, <2>2, SampleTyped
    <3>4. k \in a..m /\ m \in a..m /\ \A j \in a..m : j \in a..(m - 1) \/ j = m
      BY <1>0, <2>2, <3>2
    <3>5. CASE Elevation(m) <= Elevation(k)
      <4>1. ASSUME NEW j \in a..m
            PROVE  Elevation(j) < Elevation(k) \/ (Elevation(j) = Elevation(k) /\ k <= j)
        <5>1. CASE j \in a..(m - 1)
          BY <3>2, <5>1 DEF FirstHighest
        <5>2. CASE j = m
          BY <1>0, <2>2, <3>3, <3>4, <3>5, <5>2
        <5>3. QED
          BY <3>4, <5>1, <5>2
      <4>2. QED
        BY <2>2, <3>4, <4>1 DEF FirstHighest
    <3>6. CASE ~ (Elevation(m) <= Elevation(k))
      <4>1. ASSUME NEW j \in a..m
            PROVE  Elevation(j) < Elevation(m) \/ (Elevation(j) = Elevation(m) /\ m <= j)
        <5>1. CASE j \in a..(m - 1)
          <6>1. Elevation(j) \in Int /\ Elevation(k) \in Int /\ Elevation(m) \in Int
            BY <3>3, <3>4
          <6>2. Elevation(j) < Elevation(k) \/ Elevation(j) = Elevation(k)
            BY <3>2, <5>1 DEF FirstHighest
          <6>3. QED
            BY <3>6, <6>1, <6>2
        <5>2. CASE j = m
          BY <1>0, <2>2, <5>2
        <5>3. QED
          BY <3>4, <5>1, <5>2
      <4>2. QED
        BY <2>2, <3>4, <4>1 DEF FirstHighest
    <3>7. QED
      BY <3>5, <3>6
  <2>5. QED
    BY <2>3, <2>4
<1>2. b \in a..b
  BY <1>0
<1>3. ~ (b \in Bad)
  BY <1>1, Zenon
<1>4. QED
  BY <1>2, <1>3

\* _build_pass returns a well-typed summary of its samples.
LEMMA PassBuilt ==
  ASSUME TypeOK, Sampled, NEW a \in 1..Len(times), NEW b \in a..Len(times)
  PROVE  PassOf(a, b) \in Summaries /\ Summarises(PassOf(a, b), a, b)
<1> DEFINE h == Highest(a, b)
           cut == a = 1 \/ b = Len(times)
<1>1. h \in a..b /\ FirstHighest(h, a, b)
  <2>1. PICK k \in a..b : FirstHighest(k, a, b)
    BY HighestExists
  <2>2. QED
    BY <2>1, Zenon DEF Highest, FirstHighest
<1>2. Len(times) \in Nat /\ h \in 1..Len(times) /\ b \in 1..Len(times)
  BY <1>1 DEF TypeOK
<1>3. PassOf(a, b) = [start |-> times[a], peak |-> times[h],
                      peak_elevation |-> Elevation(h), end |-> times[b],
                      truncated |-> cut]
  BY DEF PassOf
<1>4. Elevation(h) \in Levels /\ times[a] \in Instants /\ times[b] \in Instants
      /\ times[h] \in Instants
  BY <1>2, SampleTyped
<1>c. cut \in BOOLEAN
  OBVIOUS
<1> HIDE DEF h, cut
<1>5. PassOf(a, b) \in Summaries
  BY <1>3, <1>4, <1>c DEF Summaries
<1>6. /\ PassOf(a, b).start = times[a] /\ PassOf(a, b).end = times[b]
      /\ PassOf(a, b).peak = times[h] /\ PassOf(a, b).peak_elevation = Elevation(h)
  BY <1>3
<1>7. PassOf(a, b).truncated = cut
  BY <1>3
<1>8. QED
  BY <1>1, <1>5, <1>6, <1>7, <1>c DEF Summarises, cut

-----------------------------------------------------------------------------
\* While the series is scanned, its runs and what can be said of them stay.
LEMMA SeriesFixed ==
  ASSUME sky' = sky, times' = times, NEW p, NEW a, NEW b
  PROVE  /\ Above(a)' <=> Above(a)
         /\ IsRun(a, b)' <=> IsRun(a, b)
         /\ Summarises(p, a, b)' <=> Summarises(p, a, b)
  BY DEF Above, Elevation, IsRun, Summarises, FirstHighest

\* A run of the series lies before the open run, begins with it, or is still to come.
LEMMA RunsAroundOpen ==
  ASSUME TypeOK, OpenRun, phase = "scan", run_start # None,
         NEW a \in 1..Len(times), NEW b \in 1..Len(times), IsRun(a, b)
  PROVE  b < run_start \/ a = run_start \/ index <= a
<1> USE DEF None
<1>1. /\ run_start \in 1..Len(times) /\ index \in 1..(Len(times) + 1) /\ Len(times) \in Nat
      /\ a \in Int /\ b \in Int /\ a <= b
  BY DEF TypeOK, IsRun
<1>2. ASSUME a < run_start, run_start <= b PROVE FALSE
  <2>1. run_start - 1 \in a..b /\ run_start > 1
    BY <1>1, <1>2
  <2>2. QED
    BY <2>1 DEF OpenRun, IsRun
<1>3. ASSUME run_start < a, a < index PROVE FALSE
  <2>1. a - 1 \in run_start..(index - 1) /\ a > 1
    BY <1>1, <1>3
  <2>2. QED
    BY <2>1 DEF OpenRun, IsRun
<1>4. QED
  BY <1>1, <1>2, <1>3

\* With no run open, no run reaches the sample before index.
LEMMA NoRunAtIndex ==
  ASSUME TypeOK, OpenRun, phase = "scan", run_start = None,
         NEW a \in 1..Len(times), NEW b \in 1..Len(times), IsRun(a, b)
  PROVE  b + 1 # index
<1>1. b \in a..b /\ (b + 1 = index => index > 1 /\ b = index - 1)
  BY DEF TypeOK, IsRun
<1>2. QED
  BY <1>1 DEF OpenRun, IsRun

\* Steps that report no pass and make no run due keep what was found.
LEMMA NothingNewFound ==
  ASSUME Found, sky' = sky, times' = times, passes' = passes,
         \A a, b \in 1..Len(times) : Reported(a, b)' <=> Reported(a, b)
  PROVE  Found'
<1>1. \A p, a, b : Summarises(p, a, b)' <=> Summarises(p, a, b)
  BY SeriesFixed
<1>2. \A p \in passes : \E a, b \in 1..Len(times) : Reported(a, b)' /\ Summarises(p, a, b)'
  BY <1>1 DEF Found
<1>3. \A a, b \in 1..Len(times) : Reported(a, b)' => \E p \in passes : Summarises(p, a, b)'
  BY <1>1 DEF Found
<1>4. QED
  BY <1>2, <1>3 DEF Found

\* A step that reports the one run that has become due, after all earlier ones.
LEMMA OneMoreFound ==
  ASSUME TypeOK, Sampled, Found, sky' = sky, times' = times,
         NEW s \in 1..Len(times), NEW e \in s..Len(times),
         passes' = passes \union {PassOf(s, e)},
         \A a, b \in 1..Len(times) :
           Reported(a, b)' <=> Reported(a, b) \/ (a = s /\ b = e),
         \A a, b \in 1..Len(times) : Reported(a, b) => b < s
  PROVE  /\ Found'
         /\ \A p \in passes' \ passes, q \in passes : q.end < p.start
<1>1. PICK new : new = PassOf(s, e)
  OBVIOUS
<1>2. Summarises(new, s, e) /\ e \in 1..Len(times)
  BY <1>1, PassBuilt DEF TypeOK
<1>3. new.start = times[s] /\ times[s] \in Int
  BY <1>2, SampleTyped DEF Summarises, Instants
<1>4. passes' = passes \union {new}
  BY <1>1
<1>5. \A p, a, b : Summarises(p, a, b)' <=> Summarises(p, a, b)
  BY SeriesFixed
<1>6. ASSUME NEW q \in passes
      PROVE  q.end < new.start /\ q.start < new.start
  <2>1. PICK a, b \in 1..Len(times) : Reported(a, b) /\ Summarises(q, a, b)
    BY DEF Found
  <2>2. a < s /\ b < s
    BY <2>1 DEF Reported, IsRun, TypeOK
  <2>3. QED
    BY <1>3, <2>1, <2>2 DEF Sampled, Summarises
<1>7. \A p \in passes' \ passes, q \in passes : q.end < p.start
  BY <1>4, <1>6
<1>8. ASSUME NEW p \in passes'
      PROVE  \E a, b \in 1..Len(times) : Reported(a, b)' /\ Summarises(p, a, b)'
  <2>1. CASE p \in passes
    BY <1>5, <2>1 DEF Found
  <2>2. CASE p = new
    BY <1>2, <1>5, <2>2
  <2>3. QED
    BY <1>4, <2>1, <2>2
<1>9. ASSUME NEW a \in 1..Len(times), NEW b \in 1..Len(times), Reported(a, b)'
      PROVE  \E p \in passes' : Summarises(p, a, b)'
  <2>1. CASE Reported(a, b)
    BY <1>4, <1>5, <2>1 DEF Found
  <2>2. CASE a = s /\ b = e
    BY <1>2, <1>4, <1>5, <2>2
  <2>3. QED
    BY <1>9, <2>1, <2>2
<1>10. ASSUME NEW p \in passes', NEW q \in passes', p.start = q.start PROVE p = q
  <2>1. \A r \in passes : r.start # new.start
    <3>1. \A r \in passes : r.start \in Int
      BY DEF TypeOK, Summaries, Instants
    <3>2. QED
      BY <1>3, <1>6, <3>1
  <2>2. QED
    BY <1>4, <1>10, <2>1 DEF Found
<1>11. Found'
  BY <1>8, <1>9, <1>10 DEF Found
<1>12. QED
  BY <1>7, <1>11

-----------------------------------------------------------------------------
LEMMA SearchInvInit == Init => SearchInv
<1> SUFFICES ASSUME Init PROVE SearchInv
  OBVIOUS
<1>1. Len(times) = 0 /\ times \in Seq(Instants)
  BY DEF Init
<1>2. TypeOK
  BY <1>1, SearchAssumption DEF Init, TypeOK, None
<1>3. Sampled /\ OpenRun /\ Found
  BY <1>1 DEF Init, Sampled, OpenRun, Found
<1>4. QED
  BY <1>2, <1>3 DEF SearchInv

LEMMA TypeStep == SearchInv /\ [Next]_vars => TypeOK'
<1> SUFFICES ASSUME SearchInv, [Next]_vars PROVE TypeOK'
  OBVIOUS
<1> USE SearchAssumption DEF SearchInv, None
<1>0. Len(times) \in Nat
  BY DEF TypeOK
<1>1. CASE UNCHANGED vars
  BY <1>1 DEF vars, TypeOK, Summaries
<1>2. CASE Sample
  <2>1. CASE sky[offset] = Declined
    BY <1>2, <2>1 DEF Sample, TypeOK
  <2>2. CASE sky[offset] # Declined
    <3>1. times' = Append(times, offset) /\ offset \in Instants
      BY <1>2, <2>2 DEF Sample, TypeOK, Instants
    <3>2. times' \in Seq(Instants) /\ Len(times') = Len(times) + 1
      BY <3>1 DEF TypeOK
    <3>3. QED
      BY <1>0, <1>2, <3>2 DEF Sample, TypeOK
  <2>3. QED
    BY <2>1, <2>2
<1>3. CASE EndSampling
  BY <1>3 DEF EndSampling, TypeOK
<1>4. CASE Rise
  BY <1>0, <1>4 DEF Rise, TypeOK
<1>5. CASE Fall
  <2>1. run_start \in 1..Len(times) /\ index - 1 \in run_start..Len(times)
    BY <1>0, <1>5 DEF Fall, TypeOK, OpenRun
  <2>2. PassOf(run_start, index - 1) \in Summaries
    BY <2>1, PassBuilt
  <2>3. QED
    BY <1>0, <1>5, <2>2 DEF Fall, TypeOK
<1>6. CASE Stay
  BY <1>0, <1>6 DEF Stay, TypeOK
<1>7. CASE EndScan
  <2>1. CASE run_start = None
    BY <1>7, <2>1 DEF EndScan, TypeOK
  <2>2. CASE run_start # None
    <3>1. run_start \in 1..Len(times) /\ Len(times) \in run_start..Len(times)
      BY <1>0, <2>2 DEF TypeOK
    <3>2. PassOf(run_start, Len(times)) \in Summaries
      BY <3>1, PassBuilt
    <3>3. QED
      BY <1>7, <2>2, <3>2 DEF EndScan, TypeOK
  <2>3. QED
    BY <2>1, <2>2
<1>8. CASE DropInstantaneous
  BY <1>8 DEF DropInstantaneous, TypeOK
<1>9. QED
  BY <1>1, <1>2, <1>3, <1>4, <1>5, <1>6, <1>7, <1>8 DEF Next

LEMMA SampledStep == SearchInv /\ [Next]_vars => Sampled'
<1> SUFFICES ASSUME SearchInv, [Next]_vars PROVE Sampled'
  OBVIOUS
<1> USE DEF SearchInv
<1>0. Len(times) \in Nat /\ offset \in Nat /\ \A k \in 1..Len(times) : times[k] \in Int
  BY SearchAssumption DEF TypeOK, Instants
<1>1. CASE UNCHANGED <<sky, offset, times>> /\ phase' # "sample" /\ offset = Samples + 1
  BY <1>1 DEF Sampled
<1>2. CASE UNCHANGED vars
  BY <1>2 DEF vars, Sampled
<1>3. CASE Sample
  <2>1. /\ \A k \in 1..Len(times) : times[k] < offset /\ sky[times[k]] # Declined
        /\ index' = 1 /\ run_start' = None /\ passes' = {} /\ phase' = "sample"
        /\ offset' = offset + 1 /\ sky' = sky
    BY <1>3 DEF Sample, Sampled
  <2>2. CASE sky[offset] = Declined
    <3>1. times' = times
      BY <1>3, <2>2 DEF Sample
    <3>2. \A t \in 1..offset : t \in 1..(offset - 1) \/ t = offset
      BY <1>0
    <3>3. QED
      BY <1>0, <2>1, <2>2, <3>1, <3>2 DEF Sampled
  <2>3. CASE sky[offset] # Declined
    <3>1. /\ times' = Append(times, offset) /\ Len(times') = Len(times) + 1
          /\ \A k \in 1..Len(times) : times'[k] = times[k]
          /\ times'[Len(times) + 1] = offset
      BY <1>3, <2>3 DEF Sample, TypeOK
    <3>2. \A k \in 1..Len(times') : k \in 1..Len(times) \/ k = Len(times) + 1
      BY <1>0, <3>1
    <3>3. \A t \in 1..(offset' - 1) : t \in 1..(offset - 1) \/ t = offset
      BY <1>0, <2>1
    <3>4. \A k \in 1..Len(times') : times'[k] < offset' /\ sky'[times'[k]] # Declined
      BY <1>0, <2>1, <2>3, <3>1, <3>2
    <3>5. \A j, k \in 1..Len(times') : j < k => times'[j] < times'[k]
      BY <1>0, <2>1, <3>1, <3>2 DEF Sampled
    <3>6. ASSUME NEW t \in 1..(offset' - 1), sky'[t] # Declined
          PROVE  \E k \in 1..Len(times') : times'[k] = t
      <4>1. CASE t = offset
        BY <1>0, <3>1, <4>1
      <4>2. CASE t \in 1..(offset - 1)
        <5>1. PICK k \in 1..Len(times) : times[k] = t
          BY <2>1, <3>6, <4>2 DEF Sampled
        <5>2. QED
          BY <1>0, <3>1, <5>1
      <4>3. QED
        BY <3>3, <4>1, <4>2
    <3>7. QED
      BY <2>1, <3>4, <3>5, <3>6 DEF Sampled
  <2>4. QED
    BY <2>2, <2>3
<1>4. CASE EndSampling
  <2>1. offset = Samples + 1
    BY <1>4, SearchAssumption DEF EndSampling, TypeOK
  <2>2. QED
    BY <1>1, <1>4, <2>1 DEF EndSampling
<1>5. CASE Rise \/ Fall \/ Stay \/ EndScan \/ DropInstantaneous
  <2>1. UNCHANGED <<sky, offset, times>> /\ phase # "sample" /\ phase' # "sample"
    BY <1>5 DEF Rise, Fall, Stay, EndScan, DropInstantaneous
  <2>2. QED
    BY <1>1, <2>1 DEF Sampled
<1>6. QED
  BY <1>2, <1>3, <1>4, <1>5 DEF Next

LEMMA OpenStep == SearchInv /\ [Next]_vars => OpenRun'
<1> SUFFICES ASSUME SearchInv, [Next]_vars PROVE OpenRun'
  OBVIOUS
<1> USE DEF SearchInv, OpenRun, None
<1>0. Len(times) \in Nat /\ index \in 1..(Len(times) + 1) /\ run_start \in 0..Len(times)
  BY DEF TypeOK
<1>1. \A k : sky' = sky /\ times' = times => (Above(k)' <=> Above(k))
  BY DEF Above, Elevation
<1>2. CASE UNCHANGED vars
  BY <1>1, <1>2 DEF vars
<1>3. CASE Sample \/ EndScan \/ DropInstantaneous
  BY <1>3 DEF Sample, EndScan, DropInstantaneous
<1>4. CASE EndSampling
  BY <1>4 DEF EndSampling, Sampled
<1>5. CASE Rise
  <2>1. /\ run_start' = index /\ index' = index + 1 /\ Above(index)
        /\ index > 1 => ~Above(index - 1)
        /\ sky' = sky /\ times' = times
    BY <1>5 DEF Rise
  <2>2. \A k \in index..((index + 1) - 1) : k = index
    BY <1>0
  <2>3. QED
    BY <1>0, <1>1, <2>1, <2>2
<1>6. CASE Fall
  <2>1. /\ run_start' = 0 /\ index' = index + 1 /\ ~Above(index)
        /\ sky' = sky /\ times' = times /\ (index + 1) - 1 = index
    BY <1>0, <1>6 DEF Fall
  <2>2. QED
    BY <1>1, <2>1
<1>7. CASE Stay
  <2>1. /\ run_start' = run_start /\ index' = index + 1 /\ (index + 1) - 1 = index
        /\ Above(index) <=> run_start # 0
        /\ sky' = sky /\ times' = times /\ phase = "scan"
    BY <1>0, <1>7 DEF Stay
  <2>2. CASE run_start = 0
    BY <1>1, <2>1, <2>2
  <2>3. CASE run_start # 0
    <3>1. \A k \in run_start..index : k \in run_start..(index - 1) \/ k = index
      BY <1>0
    <3>2. QED
      BY <1>0, <1>1, <2>1, <2>3, <3>1
  <2>4. QED
    BY <2>2, <2>3
<1>8. QED
  BY <1>2, <1>3, <1>4, <1>5, <1>6, <1>7 DEF Next

\* What a step of the scan reports, and that it reports in time order.
InOrder == \A p \in passes' \ passes, q \in passes : q.end < p.start

LEMMA FoundStep == SearchInv /\ [Next]_vars => Found' /\ InOrder
<1> SUFFICES ASSUME SearchInv, [Next]_vars PROVE Found' /\ InOrder
  OBVIOUS
<1> USE DEF SearchInv, None
<1>0. Len(times) \in Nat /\ index \in 1..(Len(times) + 1) /\ run_start \in 0..Len(times)
  BY DEF TypeOK
<1>1. ASSUME sky' = sky, times' = times, passes' = passes,
             \A a, b \in 1..Len(times) : IsRun(a, b) => (Reported(a, b)' <=> Reported(a, b))
      PROVE  Found' /\ InOrder
  <2>1. \A a, b : IsRun(a, b)' <=> IsRun(a, b)
    BY <1>1, SeriesFixed
  <2>2. \A a, b \in 1..Len(times) : Reported(a, b)' <=> Reported(a, b)
    BY <1>1, <2>1 DEF Reported
  <2>3. Found'
    BY <1>1, <2>2, NothingNewFound
  <2>4. QED
    BY <1>1, <2>3 DEF InOrder
<1>2. ASSUME sky' = sky, times' = times, NEW a, NEW b PROVE IsRun(a, b)' <=> IsRun(a, b)
  BY <1>2, SeriesFixed
<1>3. CASE UNCHANGED vars
  <2>1. sky' = sky /\ times' = times /\ passes' = passes /\ phase' = phase /\ index' = index
    BY <1>3 DEF vars
  <2>2. QED
    BY <1>1, <1>2, <2>1 DEF Reported
<1>4. CASE Sample
  <2>1. passes' = {} /\ passes = {} /\ phase' = "sample"
    BY <1>4 DEF Sample, Sampled
  <2>2. QED
    BY <2>1 DEF Found, InOrder, Reported
<1>5. CASE EndSampling
  <2>1. /\ passes' = {} /\ passes = {} /\ times' = times /\ index' = 1
        /\ phase' = "scan" \/ (phase' = "done" /\ Len(times) < 2)
    BY <1>5 DEF EndSampling, Sampled
  <2>2. ASSUME NEW a \in 1..Len(times), NEW b \in 1..Len(times), Reported(a, b)' PROVE FALSE
    BY <1>0, <2>1, <2>2 DEF Reported
  <2>3. QED
    BY <2>1, <2>2 DEF Found, InOrder
<1>6. CASE Rise
  <2>1. /\ sky' = sky /\ times' = times /\ passes' = passes /\ phase = "scan"
        /\ phase' = "scan" /\ index' = index + 1 /\ run_start = None
    BY <1>6 DEF Rise
  <2>2. ASSUME NEW a \in 1..Len(times), NEW b \in 1..Len(times), IsRun(a, b)
        PROVE  Reported(a, b)' <=> Reported(a, b)
    <3>1. b + 1 # index
      BY <2>1, <2>2, NoRunAtIndex
    <3>2. b + 1 < index + 1 <=> b + 1 < index
      BY <1>0, <3>1
    <3>3. QED
      BY <1>2, <2>1, <2>2, <3>2 DEF Reported
  <2>3. QED
    BY <1>1, <2>1, <2>2
<1>7. CASE Stay
  <2>1. /\ sky' = sky /\ times' = times /\ passes' = passes /\ phase = "scan"
        /\ phase' = "scan" /\ index' = index + 1 /\ index <= Len(times)
        /\ Above(index) <=> run_start # None
    BY <1>7 DEF Stay
  <2>2. ASSUME NEW a \in 1..Len(times), NEW b \in 1..Len(times), IsRun(a, b)
        PROVE  Reported(a, b)' <=> Reported(a, b)
    <3>1. b + 1 # index
      <4>1. CASE run_start = None
        BY <2>1, <2>2, <4>1, NoRunAtIndex
      <4>2. CASE run_start # None
        <5>1. b + 1 = index => b < Len(times) /\ ~Above(index)
          BY <1>0, <2>1, <2>2 DEF IsRun
        <5>2. QED
          BY <2>1, <4>2, <5>1
      <4>3. QED
        BY <4>1, <4>2
    <3>2. b + 1 < index + 1 <=> b + 1 < index
      BY <1>0, <3>1
    <3>3. QED
      BY <1>2, <2>1, <2>2, <3>2 DEF Reported
  <2>3. QED
    BY <1>1, <2>1, <2>2
<1>8. ASSUME NEW last \in 1..Len(times), phase = "scan", run_start # None,
             last = index - 1, last < Len(times) => ~Above(last + 1)
      PROVE  /\ run_start \in 1..Len(times) /\ last \in run_start..Len(times)
             /\ IsRun(run_start, last)
             /\ \A a, b \in 1..Len(times) :
                  IsRun(a, b) /\ b + 1 < index => b < run_start
             /\ \A a, b \in 1..Len(times) :
                  IsRun(a, b) /\ b <= last => b + 1 < index \/ (a = run_start /\ b = last)
  <2>1. /\ run_start \in 1..Len(times) /\ last \in run_start..Len(times)
        /\ \A k \in run_start..last : Above(k)
        /\ run_start > 1 => ~Above(run_start - 1)
    BY <1>0, <1>8 DEF OpenRun
  <2>2. IsRun(run_start, last)
    BY <1>8, <2>1 DEF IsRun
  <2>3. ASSUME NEW a \in 1..Len(times), NEW b \in 1..Len(times), IsRun(a, b), b <= last
        PROVE  b < run_start \/ (a = run_start /\ b = last)
    <3>1. b < run_start \/ a = run_start \/ index <= a
      BY <1>8, <2>3, RunsAroundOpen
    <3>2. a <= b
      BY <1>0, <2>3 DEF IsRun
    <3>3. a = run_start /\ b # last => FALSE
      <4>1. a = run_start /\ b # last => b + 1 \in run_start..last /\ b < Len(times)
        BY <1>0, <1>8, <2>1, <2>3, <3>2
      <4>2. QED
        BY <2>1, <2>3, <4>1 DEF IsRun
    <3>4. QED
      BY <1>0, <1>8, <2>3, <3>1, <3>2, <3>3
  <2>4. QED
    BY <1>0, <1>8, <2>1, <2>2, <2>3
<1>9. CASE Fall
  <2>1. /\ sky' = sky /\ times' = times /\ phase = "scan" /\ phase' = "scan"
        /\ index' = index + 1 /\ index <= Len(times) /\ run_start # None
        /\ passes' = passes \union {PassOf(run_start, index - 1)} /\ ~Above(index)
    BY <1>9 DEF Fall
  <2>2. /\ index - 1 \in 1..Len(times) /\ (index - 1) + 1 = index
    BY <1>0, <2>1 DEF OpenRun
  <2>3. /\ run_start \in 1..Len(times) /\ index - 1 \in run_start..Len(times)
        /\ IsRun(run_start, index - 1)
        /\ \A a, b \in 1..Len(times) : IsRun(a, b) /\ b + 1 < index => b < run_start
        /\ \A a, b \in 1..Len(times) :
             IsRun(a, b) /\ b <= index - 1 => b + 1 < index \/ (a = run_start /\ b = index - 1)
    BY <1>8, <2>1, <2>2
  <2>4. ASSUME NEW a \in 1..Len(times), NEW b \in 1..Len(times)
        PROVE  Reported(a, b)' <=> Reported(a, b) \/ (a = run_start /\ b = index - 1)
    <3>1. Reported(a, b)' <=> IsRun(a, b) /\ b + 1 < index + 1
      BY <1>2, <2>1 DEF Reported
    <3>2. Reported(a, b) <=> IsRun(a, b) /\ b + 1 < index
      BY <2>1 DEF Reported
    <3>3. b + 1 < index + 1 <=> b <= index - 1
      BY <1>0
    <3>4. QED
      BY <1>0, <2>3, <3>1, <3>2, <3>3
  <2>5. \A a, b \in 1..Len(times) : Reported(a, b) => b < run_start
    BY <2>1, <2>3 DEF Reported
  <2>6. QED
    BY <2>1, <2>3, <2>4, <2>5, OneMoreFound DEF InOrder
<1>10. CASE EndScan
  <2>1. /\ sky' = sky /\ times' = times /\ phase = "scan" /\ phase' = "close"
        /\ index = Len(times) + 1
    BY <1>0, <1>10 DEF EndScan
  <2>2. CASE run_start = None
    <3>1. passes' = passes
      BY <1>10, <2>2 DEF EndScan
    <3>2. ASSUME NEW a \in 1..Len(times), NEW b \in 1..Len(times), IsRun(a, b)
          PROVE  Reported(a, b)' <=> Reported(a, b)
      <4>1. b + 1 # index
        BY <2>1, <2>2, <3>2, NoRunAtIndex
      <4>2. b + 1 < index
        BY <1>0, <2>1, <4>1
      <4>3. QED
        BY <1>2, <2>1, <3>2, <4>2 DEF Reported
    <3>3. QED
      BY <1>1, <2>1, <3>1, <3>2
  <2>3. CASE run_start # None
    <3>1. /\ passes' = passes \union {PassOf(run_start, Len(times))}
          /\ Len(times) \in 1..Len(times) /\ Len(times) = index - 1
      BY <1>0, <1>10, <2>1, <2>3 DEF EndScan
    <3> DEFINE n == Len(times)
    <3>0. n \in 1..Len(times) /\ n = index - 1 /\ (n < Len(times) => ~Above(n + 1))
      BY <1>0, <3>1
    <3> HIDE DEF n
    <3>2. /\ run_start \in 1..Len(times) /\ n \in run_start..Len(times)
          /\ IsRun(run_start, n)
          /\ \A a, b \in 1..Len(times) : IsRun(a, b) /\ b + 1 < index => b < run_start
          /\ \A a, b \in 1..Len(times) :
               IsRun(a, b) /\ b <= n => b + 1 < index \/ (a = run_start /\ b = n)
      BY <1>8, <2>1, <2>3, <3>0
    <3> USE DEF n
    <3>3. ASSUME NEW a \in 1..Len(times), NEW b \in 1..Len(times)
          PROVE  Reported(a, b)' <=> Reported(a, b) \/ (a = run_start /\ b = Len(times))
      <4>1. Reported(a, b)' <=> IsRun(a, b)
        BY <1>2, <2>1 DEF Reported
      <4>2. Reported(a, b) <=> IsRun(a, b) /\ b + 1 < index
        BY <2>1 DEF Reported
      <4>3. QED
        BY <1>0, <3>2, <4>1, <4>2
    <3>4. \A a, b \in 1..Len(times) : Reported(a, b) => b < run_start
      BY <2>1, <3>2 DEF Reported
    <3>5. QED
      BY <2>1, <3>1, <3>2, <3>3, <3>4, OneMoreFound DEF InOrder
  <2>4. QED
    BY <2>2, <2>3
<1>11. CASE DropInstantaneous
  <2>1. /\ sky' = sky /\ times' = times /\ phase = "close" /\ phase' = "done"
        /\ passes' = {p \in passes : p.end - p.start > 0}
    BY <1>11 DEF DropInstantaneous
  <2>2. \A p, a, b : Summarises(p, a, b)' <=> Summarises(p, a, b)
    BY <2>1, SeriesFixed
  <2>3. \A a, b \in 1..Len(times) : Reported(a, b)' <=> Reported(a, b) /\ a < b
    BY <1>2, <2>1 DEF Reported
  <2>4. ASSUME NEW a \in 1..Len(times), NEW b \in 1..Len(times), NEW p,
               Reported(a, b), Summarises(p, a, b)
        PROVE  p.end - p.start > 0 <=> a < b
    <3>1. a <= b /\ p.start = times[a] /\ p.end = times[b]
      BY <1>0, <2>4 DEF Reported, IsRun, Summarises
    <3>2. times[a] \in Int /\ times[b] \in Int
      BY SampleTyped DEF Instants
    <3>3. QED
      BY <1>0, <3>1, <3>2 DEF Sampled
  <2>5. ASSUME NEW p \in passes'
        PROVE  \E a, b \in 1..Len(times) : Reported(a, b)' /\ Summarises(p, a, b)'
    <3>1. PICK a, b \in 1..Len(times) : Reported(a, b) /\ Summarises(p, a, b)
      BY <2>1 DEF Found
    <3>2. a < b
      BY <2>1, <2>4, <3>1
    <3>3. QED
      BY <2>2, <2>3, <3>1, <3>2
  <2>6. ASSUME NEW a \in 1..Len(times), NEW b \in 1..Len(times), Reported(a, b)'
        PROVE  \E p \in passes' : Summarises(p, a, b)'
    <3>1. Reported(a, b) /\ a < b
      BY <2>3, <2>6
    <3>2. PICK p \in passes : Summarises(p, a, b)
      BY <3>1 DEF Found
    <3>3. QED
      BY <2>1, <2>2, <2>4, <3>1, <3>2
  <2>7. passes' \subseteq passes
    BY <2>1
  <2>8. Found'
    BY <2>1, <2>5, <2>6, <2>7 DEF Found
  <2>9. QED
    BY <2>7, <2>8 DEF InOrder
<1>12. QED
  BY <1>3, <1>4, <1>5, <1>6, <1>7, <1>9, <1>10, <1>11 DEF Next

\* The inductive invariant of the search holds in every reachable state.
THEOREM SearchInvariant == Spec => []SearchInv
<1>1. SearchInv /\ [Next]_vars => SearchInv'
  BY TypeStep, SampledStep, OpenStep, FoundStep DEF SearchInv
<1>2. QED
  BY <1>1, SearchInvInit, PTL DEF Spec

\* The series, the scan's locals and the passes are well typed.
THEOREM TypeCorrect == Spec => []TypeOK
<1>1. SearchInv => TypeOK
  BY DEF SearchInv
<1>2. QED
  BY <1>1, SearchInvariant, PTL

\* Passes are found in time order and never overlap, in windows of any length.
THEOREM TimeOrder == Spec => FoundInTimeOrder
<1>1. SearchInv /\ [Next]_vars => [\A p \in passes' \ passes, q \in passes : q.end < p.start]_vars
  BY FoundStep DEF InOrder
<1>2. QED
  BY <1>1, SearchInvariant, PTL DEF Spec, FoundInTimeOrder

\* For every sky and threshold the result is exactly the runs of the series.
THEOREM EveryPassFound == Spec => []FindsEveryPass
<1>1. SearchInv => FindsEveryPass
  <2> SUFFICES ASSUME SearchInv, phase = "done" PROVE
        /\ {<<p.start, p.end>> : p \in passes} = {<<times[r[1]], times[r[2]]>> : r \in Runs}
        /\ \A p, q \in passes : p.start = q.start => p = q
    BY DEF FindsEveryPass
  <2> USE DEF SearchInv
  <2>1. ASSUME NEW p \in passes
        PROVE  \E r \in Runs : <<p.start, p.end>> = <<times[r[1]], times[r[2]]>>
    <3>1. PICK a, b \in 1..Len(times) : Reported(a, b) /\ Summarises(p, a, b)
      BY DEF Found
    <3>2. <<a, b>> \in Runs
      BY <3>1 DEF Runs, Reported
    <3>3. QED
      BY <3>1, <3>2 DEF Summarises
  <2>2. ASSUME NEW r \in Runs
        PROVE  \E p \in passes : <<p.start, p.end>> = <<times[r[1]], times[r[2]]>>
    <3>1. r[1] \in 1..Len(times) /\ r[2] \in 1..Len(times) /\ Reported(r[1], r[2])
      BY DEF Runs, Reported
    <3>2. PICK p \in passes : Summarises(p, r[1], r[2])
      BY <3>1 DEF Found
    <3>3. QED
      BY <3>2 DEF Summarises
  <2>3. {<<p.start, p.end>> : p \in passes} = {<<times[r[1]], times[r[2]]>> : r \in Runs}
    <3> DEFINE Ends == {<<p.start, p.end>> : p \in passes}
               Edges == {<<times[r[1]], times[r[2]]>> : r \in Runs}
    <3>1. Ends \subseteq Edges
      BY <2>1
    <3>2. \A x \in Edges : x \in Ends
      BY <2>2
    <3> HIDE DEF Ends, Edges
    <3>3. Ends = Edges
      BY <3>1, <3>2
    <3>4. QED
      BY <3>3 DEF Ends, Edges
  <2>4. QED
    BY <2>3 DEF Found
<1>2. QED
  BY <1>1, SearchInvariant, PTL

\* For every sky a pass peaks at the first of its own highest samples.
THEOREM PeakIsTheRuns == Spec => []PeaksAtFirstHighest
<1>1. SearchInv => PeaksAtFirstHighest
  <2> SUFFICES ASSUME SearchInv, NEW p \in passes PROVE
        /\ p.start <= p.peak /\ p.peak <= p.end
        /\ p.peak_elevation = sky[p.peak] /\ p.peak_elevation >= Minimum
        /\ \A t \in p.start..p.end :
             sky[t] # Declined /\ t # p.peak =>
               IF t < p.peak THEN sky[t] < sky[p.peak] ELSE sky[t] <= sky[p.peak]
    BY DEF PeaksAtFirstHighest
  <2> USE DEF SearchInv
  <2>1. PICK a, b \in 1..Len(times) : Reported(a, b) /\ Summarises(p, a, b)
    BY DEF Found
  <2>2. PICK k \in a..b : /\ FirstHighest(k, a, b)
                          /\ p.peak = times[k] /\ p.peak_elevation = Elevation(k)
    BY <2>1 DEF Summarises
  <2>3. p.start = times[a] /\ p.end = times[b] /\ a <= b /\ Len(times) \in Nat
    BY <2>1 DEF Summarises, Reported, IsRun, TypeOK
  <2>4. k \in 1..Len(times) /\ \A j \in 1..Len(times) : times[j] \in 1..Samples
    BY <2>2, <2>3, SampleTyped DEF Instants
  <2>5. times[a] <= times[k] /\ times[k] <= times[b]
    BY <2>2, <2>3, <2>4, SearchAssumption DEF Sampled
  <2>6. Above(k)
    BY <2>1, <2>2 DEF Reported, IsRun
  <2>7. ASSUME NEW t \in times[a]..times[b], sky[t] # Declined, t # times[k]
        PROVE  IF t < times[k] THEN sky[t] < sky[times[k]] ELSE sky[t] <= sky[times[k]]
    <3>1. t \in 1..(offset - 1)
      BY <2>3, <2>4, <2>7, SearchAssumption DEF Sampled, TypeOK
    <3>2. PICK j \in 1..Len(times) : times[j] = t
      BY <2>7, <3>1 DEF Sampled
    <3>3. j \in a..b /\ (t < times[k] => j < k)
      BY <2>3, <2>4, <2>7, <3>2, SearchAssumption DEF Sampled
    <3>4. Elevation(j) \in Int /\ Elevation(k) \in Int
      BY <2>4, SampleTyped
    <3>5. Elevation(j) < Elevation(k) \/ (Elevation(j) = Elevation(k) /\ k <= j)
      BY <2>2, <3>3 DEF FirstHighest
    <3>6. QED
      BY <2>4, <3>2, <3>3, <3>4, <3>5 DEF Elevation
  <2>8. QED
    BY <2>2, <2>3, <2>5, <2>6, <2>7 DEF Above, Elevation
<1>2. QED
  BY <1>1, SearchInvariant, PTL

\* For every sky a pass is unmarked exactly when it was seen to rise and to set.
THEOREM CutsAreMarked == Spec => []UncutPassesRiseAndSet
<1>1. SearchInv => UncutPassesRiseAndSet
  <2> SUFFICES ASSUME SearchInv, NEW p \in passes, phase = "done" PROVE
        ~p.truncated <=>
          /\ \E t \in 1..(p.start - 1) : sky[t] # Declined /\ sky[t] < Minimum
          /\ \E t \in (p.end + 1)..Samples : sky[t] # Declined /\ sky[t] < Minimum
    BY DEF UncutPassesRiseAndSet
  <2> USE DEF SearchInv
  <2>1. PICK a, b \in 1..Len(times) : Reported(a, b) /\ Summarises(p, a, b)
    BY DEF Found
  <2>2. /\ p.start = times[a] /\ p.end = times[b] /\ Len(times) \in Nat
        /\ p.truncated <=> a = 1 \/ b = Len(times)
    BY <2>1 DEF Summarises, TypeOK
  <2>3. \A j \in 1..Len(times) : times[j] \in 1..Samples /\ Elevation(j) \in Int
    BY SampleTyped DEF Instants
  <2>4. /\ \A t \in 1..Samples : sky[t] # Declined => \E j \in 1..Len(times) : times[j] = t
        /\ \A j \in 1..Len(times) : sky[times[j]] # Declined
    BY SearchAssumption DEF Sampled
  <2>5. (\E t \in 1..(times[a] - 1) : sky[t] # Declined /\ sky[t] < Minimum) <=> a # 1
    <3>1. ASSUME NEW t \in 1..(times[a] - 1), sky[t] # Declined PROVE a # 1
      <4>1. t \in 1..Samples /\ t < times[a]
        BY <2>3, <3>1, SearchAssumption
      <4>2. PICK j \in 1..Len(times) : times[j] = t
        BY <2>4, <3>1, <4>1
      <4>3. QED
        BY <2>2, <2>3, <4>1, <4>2 DEF Sampled
    <3>2. ASSUME a # 1
          PROVE  \E t \in 1..(times[a] - 1) : sky[t] # Declined /\ sky[t] < Minimum
      <4>1. a - 1 \in 1..Len(times) /\ a - 1 < a /\ a > 1
        BY <2>2, <3>2
      <4>2. times[a - 1] \in 1..(times[a] - 1)
        BY <2>3, <4>1 DEF Sampled
      <4>3. ~Above(a - 1)
        BY <2>1, <4>1 DEF Reported, IsRun
      <4>4. sky[times[a - 1]] < Minimum /\ sky[times[a - 1]] # Declined
        BY <2>3, <2>4, <4>1, <4>3, SearchAssumption DEF Above, Elevation
      <4>5. QED
        BY <4>2, <4>4
    <3>3. QED
      BY <3>1, <3>2
  <2>6. (\E t \in (times[b] + 1)..Samples : sky[t] # Declined /\ sky[t] < Minimum)
          <=> b # Len(times)
    <3>1. ASSUME NEW t \in (times[b] + 1)..Samples, sky[t] # Declined PROVE b # Len(times)
      <4>1. t \in 1..Samples /\ times[b] < t
        BY <2>3, <3>1, SearchAssumption
      <4>2. PICK j \in 1..Len(times) : times[j] = t
        BY <2>4, <3>1, <4>1
      <4>3. QED
        BY <2>2, <2>3, <4>1, <4>2 DEF Sampled
    <3>2. ASSUME b # Len(times)
          PROVE  \E t \in (times[b] + 1)..Samples : sky[t] # Declined /\ sky[t] < Minimum
      <4>1. b + 1 \in 1..Len(times) /\ b < b + 1 /\ b < Len(times)
        BY <2>2, <3>2
      <4>2. times[b + 1] \in (times[b] + 1)..Samples
        BY <2>3, <4>1, SearchAssumption DEF Sampled
      <4>3. ~Above(b + 1)
        BY <2>1, <4>1 DEF Reported, IsRun
      <4>4. sky[times[b + 1]] < Minimum /\ sky[times[b + 1]] # Declined
        BY <2>3, <2>4, <4>1, <4>3, SearchAssumption DEF Above, Elevation
      <4>5. QED
        BY <4>2, <4>4
    <3>3. QED
      BY <3>1, <3>2
  <2>7. QED
    BY <2>2, <2>5, <2>6
<1>2. QED
  BY <1>1, SearchInvariant, PTL

-----------------------------------------------------------------------------
\* A segment has both ends of the step from point i - 1 to point i.
Joined(i, s) == s[1] <= i - 1 /\ i <= s[2]

\* The step to point i is drawn when it is short, by a closed segment or by the open one.
StepDrawn(i) ==
  ((\E s \in segments : Joined(i, s)) \/ Joined(i, <<first, place - 1>>))
    <=> Jump(i) \in -180..180

\* Before the paths are built nothing of them is there.
Untouched ==
  stage = "trace" => /\ place = 2 /\ first = 1 /\ segments = {}
                     /\ shift = 0 /\ unwrapped = <<>>

Splitting ==
  stage = "split" =>
    /\ ~globe /\ Len(points) >= 2
    /\ first < place /\ place <= Len(points) + 1
    /\ \A s \in segments : s[2] < place
    /\ \A i \in 2..(place - 1) : StepDrawn(i)

\* A longitude is in place when it is off by whole turns only.
InPlace(i) == \E k \in -TrackSamples..TrackSamples : unwrapped[i] = Longitude(i) + 360 * k

SmallStep(i) == unwrapped[i] - unwrapped[i - 1] \in -180..180

Unwrapping ==
  stage = "unwrap" =>
    /\ globe /\ Len(points) >= 2
    /\ place <= Len(points) + 1
    /\ Len(unwrapped) = place - 1
    /\ \E k \in -(place - 2)..(place - 2) : shift = 360 * k
    /\ unwrapped[place - 1] = Longitude(place - 1) + shift
    /\ \A i \in 1..(place - 1) : InPlace(i)
    /\ \A i \in 2..(place - 1) : SmallStep(i)

Traced == Len(points) < sample

PathInv ==
  /\ PathTypeOK /\ Traced
  /\ Untouched /\ Splitting /\ Unwrapping
  /\ JoinsAllButCrossings /\ ContinuesAround

-----------------------------------------------------------------------------
\* A point has a longitude.
LEMMA LongitudeTyped ==
  ASSUME PathTypeOK
  PROVE  \A i \in 1..Len(points) :
           /\ Longitude(i) \in -180..180
           /\ Longitude(i) \in Int /\ -180 <= Longitude(i) /\ Longitude(i) <= 180
<1> SUFFICES ASSUME NEW i \in 1..Len(points)
             PROVE  /\ Longitude(i) \in -180..180
                    /\ Longitude(i) \in Int /\ -180 <= Longitude(i) /\ Longitude(i) <= 180
  OBVIOUS
<1>1. Longitude(i) \in Longitudes
  BY DEF PathTypeOK
<1>2. Longitude(i) \in -180..180
  BY <1>1, TrackAssumption
<1>3. \A x \in -180..180 : x \in Int /\ -180 <= x /\ x <= 180
  OBVIOUS
<1>4. QED
  BY <1>2, <1>3, Zenon

\* Two of them are less than a turn and a bit apart.
LEMMA JumpTyped ==
  ASSUME PathTypeOK, NEW i \in 2..Len(points)
  PROVE  Jump(i) \in Int /\ -360 <= Jump(i) /\ Jump(i) <= 360
<1>1. Len(points) \in Nat
  BY DEF PathTypeOK
<1>2. i \in 1..Len(points) /\ i - 1 \in 1..Len(points)
  BY <1>1
<1>3. /\ Longitude(i) \in Int /\ -180 <= Longitude(i) /\ Longitude(i) <= 180
      /\ Longitude(i - 1) \in Int /\ -180 <= Longitude(i - 1) /\ Longitude(i - 1) <= 180
  BY <1>2, LongitudeTyped
<1>4. QED
  BY <1>3 DEF Jump

LEMMA CrossingIsLong ==
  ASSUME NEW i, Crosses(i)
  PROVE  Jump(i) \notin -180..180
BY DEF Crosses

LEMMA ShortOtherwise ==
  ASSUME NEW i, Jump(i) \in Int, ~Crosses(i)
  PROVE  Jump(i) \in -180..180
BY DEF Crosses

\* The step on the globe is the jump less the turn that the offset takes back.
LEMMA ShortWayRound ==
  ASSUME NEW i, NEW j \in -360..360, j = Jump(i), shift \in Int
  PROVE  /\ ShiftAt(i) \in Int
         /\ ShiftAt(i) - shift \in {-360, 0, 360}
         /\ j + (ShiftAt(i) - shift) \in -180..180
<1>1. CASE j > 180
  BY <1>1 DEF ShiftAt
<1>2. CASE j < -180
  BY <1>2 DEF ShiftAt
<1>3. CASE ~(j > 180) /\ ~(j < -180)
  BY <1>3 DEF ShiftAt
<1>4. QED
  BY <1>1, <1>2, <1>3

LEMMA PathInitial == PathInit => PathInv
BY TrackAssumption
   DEF PathInit, PathInv, PathTypeOK, Traced, Untouched, Splitting, Unwrapping,
       JoinsAllButCrossings, ContinuesAround, SampleNos, Longitude

-----------------------------------------------------------------------------
\* While the points stay, so do their longitudes.
LEMMA PointsStay ==
  ASSUME UNCHANGED <<orbit, points>>
  PROVE  \A i : Longitude(i)' = Longitude(i) /\ Jump(i)' = Jump(i)
BY DEF Longitude, Jump

LEMMA NoPeriodKeeps == PathInv /\ NoPeriod => PathInv'
BY DEF PathInv, NoPeriod, PathTypeOK, Traced, Untouched, Splitting, Unwrapping,
       JoinsAllButCrossings, ContinuesAround, SampleNos, Longitude

LEMMA TraceKeeps ==
  ASSUME PathInv, Trace
  PROVE  PathInv'
<1>1. sample \in SampleNos
  BY TrackAssumption DEF PathInv, PathTypeOK, Trace, SampleNos
<1>2. points' \in Seq(SampleNos) /\ Len(points') < sample'
  BY <1>1 DEF PathInv, PathTypeOK, Trace, Traced
<1>3. \A i \in 1..Len(points') : Longitude(i)' \in Longitudes
  BY <1>1 DEF PathInv, PathTypeOK, Trace, Longitude
<1>4. QED
  BY <1>1, <1>2, <1>3, TrackAssumption
     DEF PathInv, Trace, PathTypeOK, Traced, Untouched, Splitting, Unwrapping,
         JoinsAllButCrossings, ContinuesAround

LEMMA EndTraceKeeps ==
  ASSUME PathInv, EndTrace
  PROVE  PathInv'
<1> USE DEF PathInv, EndTrace
<1>1. \A i : Longitude(i)' = Longitude(i) /\ Jump(i)' = Jump(i)
  BY PointsStay
<1>2. Len(points) \in Nat /\ place = 2 /\ first = 1 /\ segments = {} /\ shift = 0
  BY DEF PathTypeOK, Untouched
<1>3. Len(points) >= 2 => Longitude(1) \in Int
  <2>1. Len(points) >= 2 => 1 \in 1..Len(points)
    BY <1>2
  <2>2. PathTypeOK
    OBVIOUS
  <2>3. QED
    BY <2>1, <2>2, LongitudeTyped
<1>4. PathTypeOK' /\ Traced' /\ Untouched' /\ Splitting'
  BY <1>1, <1>2, <1>3 DEF PathTypeOK, Traced, Untouched, Splitting
<1>5. Unwrapping'
  <2> SUFFICES ASSUME stage' = "unwrap" PROVE Unwrapping'
    BY DEF Unwrapping
  <2>1. globe' /\ Len(points) >= 2 /\ unwrapped' = <<Longitude(1)>>
    OBVIOUS
  <2>2. 0 \in -(place' - 2)..(place' - 2) /\ shift' = 360 * 0
    BY <1>2
  <2>3. Len(unwrapped') = 1 /\ unwrapped'[1] = Longitude(1)' + 360 * 0
    BY <1>1, <1>3, <2>1
  <2>4. InPlace(1)'
    BY <2>3, TrackAssumption DEF InPlace
  <2>5. unwrapped'[1] = Longitude(1)' + shift'
    BY <1>2, <2>3
  <2>6. QED
    BY <1>2, <2>1, <2>2, <2>3, <2>4, <2>5 DEF Unwrapping
<1>6. JoinsAllButCrossings' /\ ContinuesAround'
  BY <1>1, <1>2 DEF JoinsAllButCrossings, ContinuesAround
<1>7. QED
  BY <1>4, <1>5, <1>6

\* The segment that is closed covers what the open one did, and nothing behind it.
LEMMA CutKeeps ==
  ASSUME PathInv, Cut
  PROVE  PathInv'
<1> USE DEF PathInv, Cut
<1>1. \A i : Longitude(i)' = Longitude(i) /\ Jump(i)' = Jump(i)
  BY PointsStay
<1>2. /\ Len(points) \in Nat /\ place \in Nat /\ first \in Nat
      /\ 1 <= first /\ first < place /\ place <= Len(points)
      /\ segments \subseteq (1..Len(points)) \X (1..Len(points))
      /\ \A s \in segments : s[2] < place
  BY DEF PathTypeOK, Splitting
<1>3. <<first, place - 1>> \in (1..Len(points)) \X (1..Len(points))
  BY <1>2
<1>4. PathTypeOK' /\ Traced' /\ Untouched'
  BY <1>1, <1>2, <1>3 DEF PathTypeOK, Traced, Untouched
<1>5. \A s \in segments' : s[2] < place'
  BY <1>2, <1>3
<1>6. ASSUME NEW i \in 2..(place' - 1) PROVE StepDrawn(i)'
  <2>1. CASE i = place
    <3>1. Jump(i) \notin -180..180
      BY <2>1, CrossingIsLong
    <3>2. \A s \in segments' : ~Joined(i, s)
      BY <1>2, <1>3, <2>1 DEF Joined
    <3>3. ~Joined(i, <<first', place' - 1>>)
      BY <1>2, <2>1 DEF Joined
    <3>4. QED
      BY <1>1, <3>1, <3>2, <3>3 DEF StepDrawn, Joined
  <2>2. CASE i # place
    <3>1. i \in 2..(place - 1)
      BY <1>2, <2>2
    <3>2. StepDrawn(i)
      BY <3>1 DEF Splitting
    <3>3. ~Joined(i, <<first', place' - 1>>)
      BY <1>2, <3>1 DEF Joined
    <3>4. QED
      BY <1>1, <3>2, <3>3 DEF StepDrawn, Joined
  <2>3. QED
    BY <2>1, <2>2
<1>7. Splitting'
  BY <1>2, <1>5, <1>6 DEF Splitting
<1>8. QED
  BY <1>4, <1>7 DEF Unwrapping, JoinsAllButCrossings, ContinuesAround

LEMMA ExtendKeeps ==
  ASSUME PathInv, Extend
  PROVE  PathInv'
<1> USE DEF PathInv, Extend
<1>1. \A i : Longitude(i)' = Longitude(i) /\ Jump(i)' = Jump(i)
  BY PointsStay
<1>2. /\ Len(points) \in Nat /\ place \in Nat /\ first \in Nat
      /\ 2 <= place /\ 1 <= first /\ first < place /\ place <= Len(points)
      /\ segments \subseteq (1..Len(points)) \X (1..Len(points))
      /\ \A s \in segments : s[2] < place
  BY DEF PathTypeOK, Splitting
<1>3. PathTypeOK' /\ Traced' /\ Untouched'
  BY <1>1, <1>2 DEF PathTypeOK, Traced, Untouched
<1>4. ASSUME NEW i \in 2..(place' - 1) PROVE StepDrawn(i)'
  <2>1. CASE i = place
    <3>1. place \in 2..Len(points)
      BY <1>2
    <3>5. Jump(i) \in Int /\ ~Crosses(i)
      BY <2>1, <3>1, JumpTyped
    <3>2. Jump(i) \in -180..180
      BY <3>5, ShortOtherwise
    <3>3. Joined(i, <<first', place' - 1>>)
      BY <1>2, <2>1 DEF Joined
    <3>4. QED
      BY <1>1, <3>2, <3>3 DEF StepDrawn, Joined
  <2>2. CASE i # place
    <3>1. i \in 2..(place - 1)
      BY <1>2, <2>2
    <3>2. StepDrawn(i)
      BY <3>1 DEF Splitting
    <3>3. Joined(i, <<first', place' - 1>>) <=> Joined(i, <<first, place - 1>>)
      BY <1>2, <3>1 DEF Joined
    <3>4. QED
      BY <1>1, <3>2, <3>3 DEF StepDrawn, Joined
  <2>3. QED
    BY <2>1, <2>2
<1>5. Splitting'
  BY <1>2, <1>4 DEF Splitting
<1>6. QED
  BY <1>3, <1>5 DEF Unwrapping, JoinsAllButCrossings, ContinuesAround

\* Segments of a single point join nothing.
LEMMA EndSplitKeeps ==
  ASSUME PathInv, EndSplit
  PROVE  PathInv'
<1> USE DEF PathInv, EndSplit
<1>1. \A i : Longitude(i)' = Longitude(i) /\ Jump(i)' = Jump(i)
  BY PointsStay
<1>2. /\ Len(points) \in Nat /\ place = Len(points) + 1 /\ first \in Nat
      /\ 1 <= first /\ first < place /\ ~globe /\ Len(points) >= 2
      /\ segments \subseteq (1..Len(points)) \X (1..Len(points))
  BY DEF PathTypeOK, Splitting
<1>3. <<first, Len(points)>> \in (1..Len(points)) \X (1..Len(points))
  BY <1>2
<1>4. PathTypeOK' /\ Traced' /\ Untouched' /\ Splitting' /\ Unwrapping'
  BY <1>1, <1>2, <1>3 DEF PathTypeOK, Traced, Untouched, Splitting, Unwrapping
<1>5. ASSUME NEW i \in 2..Len(points)
      PROVE  (\E s \in segments' : Joined(i, s)) <=> Jump(i) \in -180..180
  <2>1. StepDrawn(i)
    BY <1>2 DEF Splitting
  <2>2. \A s \in segments \union {<<first, Len(points)>>} : Joined(i, s) => s[1] < s[2]
    BY <1>2, <1>3 DEF Joined
  <2>3. (\E s \in segments' : Joined(i, s)) <=>
          (\E s \in segments \union {<<first, Len(points)>>} : Joined(i, s))
    BY <2>2
  <2>4. place - 1 = Len(points)
    BY <1>2
  <2>5. QED
    BY <2>1, <2>3, <2>4 DEF StepDrawn
<1>6. JoinsAllButCrossings'
  BY <1>1, <1>5 DEF JoinsAllButCrossings, Joined
<1>7. ContinuesAround'
  BY <1>2 DEF ContinuesAround
<1>8. QED
  BY <1>4, <1>6, <1>7

\* What the loop has when it comes to point `place`.
LEMMA UnwrapHas ==
  ASSUME PathInv, Unwrap
  PROVE  /\ Len(points) \in Nat /\ place \in Nat /\ 2 <= place /\ place <= Len(points)
         /\ globe /\ shift \in Int /\ Len(unwrapped) = place - 1 /\ unwrapped \in Seq(Int)
         /\ Longitude(place) \in Int /\ Longitude(place - 1) \in Int
         /\ Jump(place) \in -360..360
         /\ unwrapped[place - 1] = Longitude(place - 1) + shift
         /\ Len(points) <= TrackSamples
<1>1. /\ Len(points) \in Nat /\ place \in Nat /\ 2 <= place /\ place <= Len(points)
      /\ globe /\ shift \in Int /\ Len(unwrapped) = place - 1 /\ unwrapped \in Seq(Int)
      /\ unwrapped[place - 1] = Longitude(place - 1) + shift
  BY DEF PathInv, Unwrap, PathTypeOK, Unwrapping
<1>2. place \in 2..Len(points) /\ place \in 1..Len(points) /\ place - 1 \in 1..Len(points)
  BY <1>1
<1>3. PathTypeOK
  BY DEF PathInv
<1>4. Longitude(place) \in Int /\ Longitude(place - 1) \in Int
  BY <1>2, <1>3, LongitudeTyped
<1>5. Jump(place) \in Int /\ -360 <= Jump(place) /\ Jump(place) <= 360
  BY <1>2, <1>3, JumpTyped
<1>6. Jump(place) \in -360..360
  BY <1>5
<1>7. Len(points) <= TrackSamples
  BY <1>1, TrackAssumption DEF PathInv, PathTypeOK, Traced
<1>8. QED
  BY <1>1, <1>4, <1>6, <1>7

\* The offset absorbs the turn, so the step is the short way round.
LEMMA UnwrapKeeps ==
  ASSUME PathInv, Unwrap
  PROVE  PathInv'
<1> DEFINE value == Longitude(place) + ShiftAt(place)
<1>1. \A i : Longitude(i)' = Longitude(i) /\ Jump(i)' = Jump(i)
  BY PointsStay DEF Unwrap
<1>2. /\ Len(points) \in Nat /\ place \in Nat /\ 2 <= place /\ place <= Len(points)
      /\ globe /\ shift \in Int /\ Len(unwrapped) = place - 1 /\ unwrapped \in Seq(Int)
      /\ Longitude(place) \in Int /\ Longitude(place - 1) \in Int
      /\ Jump(place) \in -360..360
      /\ unwrapped[place - 1] = Longitude(place - 1) + shift
      /\ Len(points) <= TrackSamples
  BY UnwrapHas
<1>3. /\ ShiftAt(place) \in Int
      /\ ShiftAt(place) - shift \in {-360, 0, 360}
      /\ Jump(place) + (ShiftAt(place) - shift) \in -180..180
  BY <1>2, ShortWayRound
<1>4. Jump(place) = Longitude(place) - Longitude(place - 1)
  BY DEF Jump
<1>5. PICK k \in -(place - 2)..(place - 2) : shift = 360 * k
  BY DEF PathInv, Unwrap, Unwrapping
<1>6. PICK m \in -(place - 1)..(place - 1) : ShiftAt(place) = 360 * m
  <2> DEFINE d == ShiftAt(place) - shift
  <2>1. d \in {-360, 0, 360} /\ ShiftAt(place) = shift + d
    BY <1>2, <1>3
  <2> HIDE DEF d
  <2>2. CASE d = -360
    <3>1. k - 1 \in -(place - 1)..(place - 1) /\ ShiftAt(place) = 360 * (k - 1)
      BY <1>2, <1>5, <2>1, <2>2
    <3>2. QED
      BY <3>1
  <2>3. CASE d = 0
    <3>1. k \in -(place - 1)..(place - 1) /\ ShiftAt(place) = 360 * k
      BY <1>2, <1>5, <2>1, <2>3
    <3>2. QED
      BY <3>1
  <2>4. CASE d = 360
    <3>1. k + 1 \in -(place - 1)..(place - 1) /\ ShiftAt(place) = 360 * (k + 1)
      BY <1>2, <1>5, <2>1, <2>4
    <3>2. QED
      BY <3>1
  <2>5. QED
    BY <2>1, <2>2, <2>3, <2>4
<1>7. /\ place' = place + 1 /\ shift' = ShiftAt(place) /\ unwrapped' = Append(unwrapped, value)
      /\ stage' = stage /\ stage = "unwrap"
      /\ UNCHANGED <<orbit, moves, globe, sample, points, first, segments>>
  BY DEF Unwrap
<1>8. value \in Int
  BY <1>2, <1>3
<1> HIDE DEF value
<1>9. /\ unwrapped' \in Seq(Int) /\ Len(unwrapped') = place
      /\ unwrapped'[place] = value
      /\ \A i \in 1..(place - 1) : unwrapped'[i] = unwrapped[i]
  BY <1>2, <1>7, <1>8
<1>10. PathTypeOK' /\ Traced' /\ Untouched' /\ Splitting'
  <2>1. PathTypeOK /\ Traced
    BY DEF PathInv
  <2>2. shift' \in Int /\ place' \in 2..(Len(points) + 2)
    BY <1>1, <1>2, <1>3, <1>7, <2>1 DEF PathTypeOK
  <2>3. PathTypeOK'
    BY <1>7, <1>9, <2>1, <2>2 DEF PathTypeOK, SampleNos, Longitude
  <2>4. Traced' /\ Untouched' /\ Splitting'
    BY <1>7, <2>1 DEF Traced, Untouched, Splitting
  <2>5. QED
    BY <2>3, <2>4
<1>11. place' - 2 = place - 1 /\ place' - 1 = place /\ place' <= Len(points) + 1
  BY <1>2, <1>7
<1>12. m \in -TrackSamples..TrackSamples
  BY <1>2, TrackAssumption
<1>13. ASSUME NEW i \in 1..place PROVE InPlace(i)'
  <2>1. CASE i = place
    BY <1>1, <1>6, <1>9, <1>12, <2>1 DEF InPlace, value
  <2>2. CASE i # place
    <3>1. i \in 1..(place - 1)
      BY <1>2, <2>2
    <3>2. InPlace(i)
      BY <1>7, <3>1 DEF PathInv, Unwrapping
    <3>3. QED
      BY <1>1, <1>9, <3>1, <3>2 DEF InPlace
  <2>3. QED
    BY <2>1, <2>2
<1>14. ASSUME NEW i \in 2..place PROVE SmallStep(i)'
  <2>1. CASE i = place
    <3>1. unwrapped'[place - 1] = Longitude(place - 1) + shift
      BY <1>2, <1>9
    <3>2. unwrapped'[place] - unwrapped'[place - 1]
            = (Longitude(place) - Longitude(place - 1)) + (ShiftAt(place) - shift)
      BY <1>2, <1>3, <1>9, <3>1 DEF value
    <3>3. unwrapped'[place] - unwrapped'[place - 1] \in -180..180
      BY <1>3, <1>4, <3>2
    <3>4. QED
      BY <2>1, <3>3 DEF SmallStep
  <2>2. CASE i # place
    <3>1. i \in 2..(place - 1) /\ i \in 1..(place - 1) /\ i - 1 \in 1..(place - 1)
      BY <1>2, <2>2
    <3>2. SmallStep(i)
      BY <1>7, <3>1 DEF PathInv, Unwrapping
    <3>3. QED
      BY <1>9, <3>1, <3>2 DEF SmallStep
  <2>3. QED
    BY <2>1, <2>2
<1>15. Unwrapping'
  <2>1. \E j \in -(place' - 2)..(place' - 2) : shift' = 360 * j
    BY <1>6, <1>7, <1>11
  <2>2. (unwrapped[place - 1] = Longitude(place - 1) + shift)'
    <3>1. (Longitude(place - 1))' = Longitude(place)
      BY <1>7, <1>11 DEF Longitude
    <3>2. QED
      BY <1>7, <1>9, <1>11, <3>1 DEF value
  <2>3. globe' /\ Len(points') >= 2 /\ place' <= Len(points') + 1 /\ Len(unwrapped') = place' - 1
    BY <1>2, <1>7, <1>9, <1>11
  <2>4. (\A i \in 1..(place' - 1) : InPlace(i)') /\ (\A i \in 2..(place' - 1) : SmallStep(i)')
    BY <1>11, <1>13, <1>14
  <2>5. QED
    BY <2>1, <2>2, <2>3, <2>4 DEF Unwrapping
<1>16. QED
  BY <1>7, <1>10, <1>15 DEF PathInv, JoinsAllButCrossings, ContinuesAround

LEMMA EndUnwrapKeeps ==
  ASSUME PathInv, EndUnwrap
  PROVE  PathInv'
<1> USE DEF PathInv, EndUnwrap
<1>1. \A i : Longitude(i)' = Longitude(i) /\ Jump(i)' = Jump(i)
  BY PointsStay
<1>2. Len(points) \in Nat /\ place = Len(points) + 1 /\ globe
  BY DEF PathTypeOK, Unwrapping
<1>3. PathTypeOK' /\ Traced' /\ Untouched' /\ Splitting' /\ Unwrapping'
  BY <1>1 DEF PathTypeOK, Traced, Untouched, Splitting, Unwrapping
<1>4. ContinuesAround'
  <2>1. Len(unwrapped) = Len(points)
    BY <1>2 DEF Unwrapping
  <2>2. \A i \in 1..Len(points) : InPlace(i)
    BY <1>2 DEF Unwrapping
  <2>3. \A i \in 2..Len(points) : SmallStep(i)
    BY <1>2 DEF Unwrapping
  <2>4. QED
    BY <1>1, <2>1, <2>2, <2>3 DEF ContinuesAround, InPlace, SmallStep
<1>5. QED
  BY <1>2, <1>3, <1>4 DEF JoinsAllButCrossings

LEMMA PathStays == PathInv /\ UNCHANGED pathVars => PathInv'
<1> SUFFICES ASSUME PathInv, UNCHANGED pathVars PROVE PathInv'
  OBVIOUS
<1>1. \A i : Longitude(i)' = Longitude(i) /\ Jump(i)' = Jump(i)
  BY PointsStay DEF pathVars
<1>2. PathTypeOK' /\ Traced' /\ Untouched'
  BY DEF PathInv, pathVars, PathTypeOK, Traced, Untouched, Longitude, SampleNos
<1>3. Splitting'
  BY <1>1 DEF PathInv, pathVars, Splitting, StepDrawn, Joined
<1>4. Unwrapping'
  BY <1>1 DEF PathInv, pathVars, Unwrapping, InPlace, SmallStep
<1>5. /\ stage' = stage /\ globe' = globe /\ moves' = moves /\ points' = points
      /\ orbit' = orbit /\ segments' = segments /\ unwrapped' = unwrapped
  BY DEF pathVars
<1>6. JoinsAllButCrossings' /\ ContinuesAround'
  <2>1. JoinsAllButCrossings /\ ContinuesAround
    BY DEF PathInv
  <2>2. JoinsAllButCrossings'
    BY <1>1, <1>5, <2>1 DEF JoinsAllButCrossings
  <2>3. ContinuesAround'
    <3>1. CASE ~(stage = "done" /\ globe /\ moves /\ Len(points) >= 2)
      BY <1>5, <3>1 DEF ContinuesAround
    <3>2. CASE stage = "done" /\ globe /\ moves /\ Len(points) >= 2
      <4>1. Len(unwrapped') = Len(points')
        BY <1>5, <2>1, <3>2 DEF ContinuesAround
      <4>2. ASSUME NEW i \in 1..Len(points')
            PROVE  \E k \in -TrackSamples..TrackSamples :
                     unwrapped'[i] = Longitude(i)' + 360 * k
        <5>1. PICK k \in -TrackSamples..TrackSamples : unwrapped[i] = Longitude(i) + 360 * k
          BY <1>5, <2>1, <3>2 DEF ContinuesAround
        <5>2. QED
          BY <1>1, <1>5, <5>1
      <4>3. \A i \in 2..Len(points') : unwrapped'[i] - unwrapped'[i - 1] \in -180..180
        BY <1>5, <2>1, <3>2 DEF ContinuesAround
      <4>4. QED
        BY <4>1, <4>2, <4>3 DEF ContinuesAround
    <3>3. QED
      BY <3>1, <3>2
  <2>4. QED
    BY <2>2, <2>3
<1>7. QED
  BY <1>2, <1>3, <1>4, <1>6 DEF PathInv

LEMMA PathKeeps == PathInv /\ [PathNext]_pathVars => PathInv'
BY NoPeriodKeeps, TraceKeeps, EndTraceKeeps, CutKeeps, ExtendKeeps, EndSplitKeeps,
   UnwrapKeeps, EndUnwrapKeeps, PathStays
   DEF PathNext

LEMMA PathInvariant == PathSpec => []PathInv
BY PathInitial, PathKeeps, PTL DEF PathSpec

-----------------------------------------------------------------------------
\* Samples, segments and offsets keep their types (tracks.py:99-210; app.py:812-823, 861-872).
THEOREM PathsTyped == PathSpec => []PathTypeOK
BY PathInvariant, PTL DEF PathInv

\* The flat map's segments join two neighbouring points exactly when they are at most half
\* a turn apart (app.py:812-823).
THEOREM CutExactly == PathSpec => []JoinsAllButCrossings
BY PathInvariant, PTL DEF PathInv

\* The globe's longitudes are the orbit's up to whole turns, and no step is longer than
\* half a turn (app.py:861-872).
THEOREM Continuous == PathSpec => []ContinuesAround
BY PathInvariant, PTL DEF PathInv
=============================================================================
