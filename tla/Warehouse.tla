------------------------------ MODULE Warehouse ------------------------------
(***************************************************************************)
(* The dbt project (transform/): staging views over bronze, silver.elset,  *)
(* silver.space_object, gold.dim_object and the serving view               *)
(* gold.fact_propagatable_elset, built node by node by `dbt build` while   *)
(* landings go on being loaded, in any order.                              *)
(*                                                                         *)
(* A landing is a number; ingest_ts and source_file grow with it.  Bronze  *)
(* takes a landing whole (BronzeStore).  A satellite is represented by     *)
(* what its rows are selected by: epoch, decay and the body it orbits.     *)
(***************************************************************************)
EXTENDS Naturals

CONSTANTS
  Sats,      \* the values of norad_cat_id
  Center,    \* each one's orbit_center: "EA", "HOST" (a NORAD ID) or "SUN"
  MaxEpoch,  \* bound: element sets published of one satellite
  MaxGp,     \* bound: GP landings
  MaxCat,    \* bound: SATCAT landings
  MaxFails   \* bound: nodes that fail and dbt processes that are killed

ASSUME WarehouseAssumption ==
  /\ Center \in [Sats -> {"EA", "HOST", "SUN"}]
  /\ MaxEpoch \in Nat /\ MaxGp \in Nat /\ MaxCat \in Nat /\ MaxFails \in Nat

VARIABLES
  world,    \* what CelesTrak knows of each satellite: its stage and newest epoch
  gp, cat,  \* the landings of each feed: their rows, none while not landed
  rawGp,    \* the landings in bronze.raw_gp
  rawCat,   \* the landings in bronze.raw_satcat
  elset, space_object, dim_object,  \* the tables
  built,    \* the relations that exist
  pending,  \* the nodes dbt has still to build
  broken,   \* the nodes that failed or were skipped in this run
  seen,     \* history: rawCat when a whole build began
  fails     \* history: failures so far

landings == <<world, gp, cat>>
tables == <<elset, space_object, dim_object, built>>
dbt == <<pending, broken, seen, fails>>
vars == <<world, gp, cat, rawGp, rawCat, elset, space_object, dim_object, built,
          pending, broken, seen, fails>>

Epochs == 1..MaxEpoch
GpFiles == 1..MaxGp
CatFiles == 1..MaxCat
Null == 0
Nodes == {"elset", "space_object", "dim_object", "fact"}

\* What `sat-tracker-transform` is told to build, as the runbook has it.
Selections == {Nodes, {"elset"}, {"dim_object"}, {"space_object", "dim_object", "fact"}}

TypeOK ==
  /\ world \in [Sats -> [stage : {"unknown", "orbit", "decayed"}, epoch : 0..MaxEpoch]]
  /\ gp \in [GpFiles -> SUBSET (Sats \X Epochs)]
  /\ cat \in [CatFiles -> SUBSET (Sats \X {"orbit", "decayed"})]
  /\ rawGp \subseteq GpFiles
  /\ rawCat \subseteq CatFiles
  /\ elset \subseteq [sat : Sats, epoch : Epochs, valid_to : Epochs \union {Null}, file : GpFiles]
  /\ space_object \subseteq [sat : Sats, stage : {"orbit", "decayed"}, file : CatFiles]
  /\ dim_object \subseteq
       [sat : Sats, is_decayed : BOOLEAN, is_earth_orbiting : BOOLEAN, file : CatFiles]
  /\ built \subseteq Nodes
  /\ pending \subseteq Nodes
  /\ broken \subseteq Nodes
  /\ seen \subseteq CatFiles
  /\ fails \in 0..MaxFails

Init ==
  /\ world = [s \in Sats |-> [stage |-> "unknown", epoch |-> 0]]
  /\ gp = [f \in GpFiles |-> {}]
  /\ cat = [f \in CatFiles |-> {}]
  /\ rawGp = {}
  /\ rawCat = {}
  /\ elset = {}
  /\ space_object = {}
  /\ dim_object = {}
  /\ built = {}
  /\ pending = {}
  /\ broken = {}
  /\ seen = {}
  /\ fails = 0

-----------------------------------------------------------------------------
\* The models, as queries.

\* staging.stg_celestrak_gp and stg_celestrak_satcat
StgGp == {[sat |-> k[2][1], epoch |-> k[2][2], file |-> k[1]] :
            k \in {x \in rawGp \X (Sats \X Epochs) : x[2] \in gp[x[1]]}}
StgCat == {[sat |-> k[2][1], stage |-> k[2][2], file |-> k[1]] :
             k \in {x \in rawCat \X (Sats \X {"orbit", "decayed"}) : x[2] \in cat[x[1]]}}

\* Slip: every observation of an element set is kept.
EveryObservation == StgGp

\* Slip: the latest observation of an element set is kept.
LatestObservation ==
  {r \in StgGp : \A q \in StgGp : q.sat = r.sat /\ q.epoch = r.epoch => q.file <= r.file}

\* observation_rank = 1
Deduplicated ==
  {r \in StgGp : \A q \in StgGp : q.sat = r.sat /\ q.epoch = r.epoch => r.file <= q.file}

\* The epochs of r's satellite after its own.
Later(r, S) == {q.epoch : q \in {x \in S : x.sat = r.sat /\ x.epoch > r.epoch}}

\* lead(epoch) over (partition by norad_cat_id order by epoch)
Lead(r, S) ==
  IF Later(r, S) = {} THEN Null
  ELSE CHOOSE e \in Later(r, S) : \A d \in Later(r, S) : e <= d

\* silver.elset
Historised ==
  {[sat |-> r.sat, epoch |-> r.epoch, valid_to |-> Lead(r, Deduplicated), file |-> r.file] :
     r \in Deduplicated}

\* silver.space_object: recency_rank = 1
Newest == {r \in StgCat : \A q \in StgCat : q.sat = r.sat => q.file <= r.file}

\* Slip: a satellite docked to a host is not in Earth orbit.
EarthOnly(s) == Center[s] = "EA"

\* orbit_center = 'EA' or orbit_center ~ '^[0-9]+$'
EarthOrbiting(s) == Center[s] \in {"EA", "HOST"}

\* gold.dim_object
Interpreted ==
  {[sat |-> r.sat, is_decayed |-> r.stage = "decayed",
    is_earth_orbiting |-> EarthOrbiting(r.sat), file |-> r.file] : r \in space_object}

\* gold.fact_propagatable_elset: the rows a query of the view returns.
Propagatable ==
  {e \in elset : /\ e.valid_to = Null
                 /\ \E d \in dim_object : /\ d.sat = e.sat
                                          /\ ~d.is_decayed
                                          /\ d.is_earth_orbiting}

-----------------------------------------------------------------------------
\* CelesTrak: a satellite is launched, observed again, re-enters.
Launch(s) ==
  /\ world[s].stage = "unknown" /\ MaxEpoch > 0
  /\ world' = [world EXCEPT ![s] = [stage |-> "orbit", epoch |-> 1]]
  /\ UNCHANGED <<gp, cat, rawGp, rawCat, tables, dbt>>

Publish(s) ==
  /\ world[s].stage = "orbit" /\ world[s].epoch < MaxEpoch
  /\ world' = [world EXCEPT ![s].epoch = @ + 1]
  /\ UNCHANGED <<gp, cat, rawGp, rawCat, tables, dbt>>

Reenter(s) ==
  /\ world[s].stage = "orbit"
  /\ world' = [world EXCEPT ![s].stage = "decayed"]
  /\ UNCHANGED <<gp, cat, rawGp, rawCat, tables, dbt>>

\* An ingest lands the active satellites; a payload without rows is refused.
LandGp ==
  LET active == {s \in Sats : world[s].stage = "orbit"} IN
  /\ active # {}
  /\ \E f \in GpFiles :
       /\ gp[f] = {} /\ \A g \in GpFiles : g < f => gp[g] # {}
       /\ gp' = [gp EXCEPT ![f] = {<<s, world[s].epoch>> : s \in active}]
  /\ UNCHANGED <<world, cat, rawGp, rawCat, tables, dbt>>

\* The whole catalogue, with what has re-entered.
LandCat ==
  LET known == {s \in Sats : world[s].stage # "unknown"} IN
  /\ known # {}
  /\ \E f \in CatFiles :
       /\ cat[f] = {} /\ \A g \in CatFiles : g < f => cat[g] # {}
       /\ cat' = [cat EXCEPT ![f] = {<<s, world[s].stage>> : s \in known}]
  /\ UNCHANGED <<world, gp, rawGp, rawCat, tables, dbt>>

\* The loader commits a landing; nothing says that they come in order.
LoadGp(f) ==
  /\ gp[f] # {} /\ f \notin rawGp
  /\ rawGp' = rawGp \union {f}
  /\ UNCHANGED <<landings, rawCat, tables, dbt>>

LoadCat(f) ==
  /\ cat[f] # {} /\ f \notin rawCat
  /\ rawCat' = rawCat \union {f}
  /\ UNCHANGED <<landings, rawGp, tables, dbt>>

-----------------------------------------------------------------------------
\* dbt build

StartRun(selected) ==
  /\ pending = {}
  /\ pending' = selected
  /\ broken' = {}
  /\ seen' = IF selected = Nodes THEN rawCat ELSE {}
  /\ UNCHANGED <<landings, rawGp, rawCat, tables, fails>>

\* Slip: dim_object names its source table instead of ref('space_object').
NoRef(n) == IF n = "fact" THEN {"elset", "dim_object"} ELSE {}

\* The ref()s of a node.
Refs(n) == CASE n = "dim_object" -> {"space_object"}
             [] n = "fact" -> {"elset", "dim_object"}
             [] OTHER -> {}

\* Its selected parents are done and none of them is broken.
Ready(n) == n \in pending /\ Refs(n) \intersect (pending \union broken) = {}

\* The node is built; ok is the result of its tests.
Done(n, ok) ==
  /\ pending' = pending \ {n}
  /\ IF ok THEN UNCHANGED <<broken, fails>>
           ELSE /\ fails < MaxFails
                /\ fails' = fails + 1
                /\ broken' = broken \union {n}
  /\ UNCHANGED <<landings, rawGp, rawCat, seen>>

\* A table is built beside the old one and takes its name; then the old one is
\* dropped, and with it the view that was made over it.
BuildElset(ok) ==
  /\ Ready("elset")
  /\ elset' = Historised
  /\ built' = (built \ {"fact"}) \union {"elset"}
  /\ Done("elset", ok)
  /\ UNCHANGED <<space_object, dim_object>>

BuildObject(ok) ==
  /\ Ready("space_object")
  /\ space_object' = Newest
  /\ built' = built \union {"space_object"}
  /\ Done("space_object", ok)
  /\ UNCHANGED <<elset, dim_object>>

BuildDim(ok) ==
  /\ Ready("dim_object") /\ "space_object" \in built
  /\ dim_object' = Interpreted
  /\ built' = (built \ {"fact"}) \union {"dim_object"}
  /\ Done("dim_object", ok)
  /\ UNCHANGED <<elset, space_object>>

BuildFact(ok) ==
  /\ Ready("fact") /\ {"elset", "dim_object"} \subseteq built
  /\ built' = built \union {"fact"}
  /\ Done("fact", ok)
  /\ UNCHANGED <<elset, space_object, dim_object>>

Build(n, ok) ==
  \/ n = "elset" /\ BuildElset(ok)
  \/ n = "space_object" /\ BuildObject(ok)
  \/ n = "dim_object" /\ BuildDim(ok)
  \/ n = "fact" /\ BuildFact(ok)

\* A hard cast fails, the database is away: the relation stays as it was.
Error(n) ==
  /\ Ready(n)
  /\ Done(n, FALSE)
  /\ UNCHANGED tables

\* A relation it reads does not exist.
Unbuildable(n) ==
  /\ Ready(n) /\ ~(Refs(n) \subseteq built)
  /\ pending' = pending \ {n}
  /\ broken' = broken \union {n}
  /\ UNCHANGED <<landings, rawGp, rawCat, tables, seen, fails>>

\* A parent failed or was skipped.
Skip(n) ==
  /\ n \in pending /\ Refs(n) \intersect broken # {}
  /\ pending' = pending \ {n}
  /\ broken' = broken \union {n}
  /\ UNCHANGED <<landings, rawGp, rawCat, tables, seen, fails>>

Kill ==
  /\ pending # {} /\ fails < MaxFails
  /\ fails' = fails + 1
  /\ pending' = {}
  /\ UNCHANGED <<landings, rawGp, rawCat, tables, broken, seen>>

Progress == \E n \in Nodes : Build(n, TRUE) \/ Unbuildable(n) \/ Skip(n)

Next ==
  \/ \E s \in Sats : Launch(s) \/ Publish(s) \/ Reenter(s)
  \/ LandGp \/ LandCat
  \/ \E f \in GpFiles : LoadGp(f)
  \/ \E f \in CatFiles : LoadCat(f)
  \/ \E selected \in Selections : StartRun(selected)
  \/ Progress
  \/ \E n \in Nodes : Build(n, FALSE) \/ Error(n)
  \/ Kill

Spec == Init /\ [][Next]_vars

-----------------------------------------------------------------------------
\* Landings are loaded in the end, a build that is not killed goes on, and the
\* scheduler starts whole builds whatever else is built in between.
Fairness ==
  /\ \A f \in GpFiles : WF_vars(LoadGp(f))
  /\ \A f \in CatFiles : WF_vars(LoadCat(f))
  /\ WF_vars(Progress)
  /\ SF_vars(StartRun(Nodes))

FairSpec == Spec /\ Fairness

\* r is the element set in force at epoch t.
InForce(r, t) == r.epoch <= t /\ (r.valid_to = Null \/ t < r.valid_to)

\* "An orbit as of time T" is one element set from a satellite's first epoch on, and
\* none before: in whatever order landings were loaded and however often a landing
\* repeats an epoch, intervals neither overlap nor leave a gap (elset.sql:40-82,
\* tests/assert_validity_intervals_are_contiguous.sql).
AsOfIsUnique ==
  \A first \in elset :
    (\A q \in elset : q.sat = first.sat => first.epoch <= q.epoch) =>
      \A t \in Epochs : t >= first.epoch =>
        \E r \in elset : /\ r.sat = first.sat /\ InForce(r, t)
                         /\ \A q \in elset : q.sat = first.sat /\ InForce(q, t) => q = r

\* A rebuild never loses an element set, never makes one valid for longer and never
\* moves its first sighting to a later landing, though it starts again from bronze
\* and a late landing may change any row (elset.sql:10-28, 33-44).
HistoryOnlyGrows ==
  [][\A r \in elset : \E q \in elset' :
       /\ q.sat = r.sat /\ q.epoch = r.epoch
       /\ q.file <= r.file
       /\ r.valid_to # Null => q.valid_to # Null /\ q.valid_to <= r.valid_to]_vars

\* When a whole build makes the view, it serves nothing that a catalogue landing loaded
\* before the build began calls re-entered: the gate is not built from an older
\* catalogue, whatever failed before and whatever is loaded meanwhile
\* (fact_propagatable_elset.sql:9-21, 70-75; sat_tracker_pipeline.py:24-29).
ServesNoKnownDecay ==
  [][("fact" \in built' \ built) =>
       \A e \in Propagatable', f \in seen : <<e.sat, "decayed">> \notin cat[f]]_vars

\* Nor does it leave anything out: what a catalogue landing loaded before the whole build
\* began has in Earth orbit, docked to a host or free, and no landing loaded since calls
\* re-entered, is served with its newest element set (fact_propagatable_elset.sql:69-75;
\* dim_object.sql:48-55).
ServesWhatIsInOrbit ==
  [][("fact" \in built' \ built) =>
       \A e \in elset, f \in seen :
         /\ e.valid_to = Null /\ Center[e.sat] # "SUN"
         /\ <<e.sat, "orbit">> \in cat[f]
         /\ \A g \in rawCat : <<e.sat, "decayed">> \notin cat[g]
         => e \in Propagatable']_vars

\* What the landings, loaded or not, say can be propagated: the newest epoch of what
\* the newest catalogue has in Earth orbit.
Answer ==
  {k \in UNION {gp[f] : f \in GpFiles} :
     /\ \A f \in GpFiles : \A j \in gp[f] : j[1] = k[1] => j[2] <= k[2]
     /\ Center[k[1]] # "SUN"
     /\ \E f \in CatFiles : /\ <<k[1], "orbit">> \in cat[f]
                            /\ \A g \in CatFiles : g > f => cat[g] = {}}

\* "Fully rebuildable from bronze at any time and always converges to the same answer"
\* (elset.sql:18-19): the view is back after every failed, partial or killed build, and
\* serves what the landings say, independent of the order they were loaded in.
Converges ==
  []<>("fact" \in built /\ {<<e.sat, e.epoch>> : e \in Propagatable} = Answer)

\* "Taking the FULL SATCAT dump ... makes an unresolvable key structurally impossible"
\* (_gold_models.yml:23-27): a whole build with a catalogue to build from leaves no element
\* set whose satellite the dimension does not know.
KeysResolve ==
  [][("fact" \in built' \ built /\ broken' = {} /\ seen # {}) =>
       \A e \in elset' : \E d \in dim_object' : d.sat = e.sat]_vars
=============================================================================
