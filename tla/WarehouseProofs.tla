--------------------------- MODULE WarehouseProofs ---------------------------
(***************************************************************************)
(* The warehouse for any satellites and any number of epochs, landings and *)
(* failures: intervals tile the timeline, history only grows, and a whole  *)
(* build never serves what the catalogue it began with calls re-entered.   *)
(***************************************************************************)
EXTENDS Warehouse, TLAPS, WellFoundedInduction

\* Every non-empty set of naturals has a least element.
LEMMA LeastExists ==
  ASSUME NEW S, S \subseteq Nat, S # {}
  PROVE  \E e \in S : \A d \in S : e <= d
<1> DEFINE Less == {p \in Nat \X Nat : p[1] < p[2]}
<1>1. IsWellFoundedOn(Less, Nat)
  BY NatLessThanWellFounded DEF OpToRel
<1>2. \A x, y \in Nat : x < y => <<x, y>> \in Less
  OBVIOUS
<1> HIDE DEF Less
<1>3. PICK e \in S : \A d \in S : ~ (<<d, e>> \in Less)
  BY <1>1, WFMin
<1>4. \A d \in S : ~ (d < e)
  BY <1>2, <1>3
<1>5. QED
  BY <1>4

LEMMA Bounds ==
  /\ \A e \in Epochs : e \in Nat /\ e # Null
  /\ \A f \in GpFiles \union CatFiles : f \in Nat
  BY WarehouseAssumption DEF Epochs, GpFiles, CatFiles, Null

-----------------------------------------------------------------------------
\* No two rows describe the same element set.
OneRowPerEpoch(H) ==
  \A q, r \in H : q.sat = r.sat /\ q.epoch = r.epoch => q = r

\* An interval ends at the next epoch of its satellite; the newest does not end.
EndsAtNext(r, H) ==
  IF r.valid_to = Null
    THEN \A q \in H : q.sat = r.sat => q.epoch <= r.epoch
    ELSE /\ r.epoch < r.valid_to
         /\ \E q \in H : q.sat = r.sat /\ q.epoch = r.valid_to
         /\ \A q \in H : q.sat = r.sat /\ r.epoch < q.epoch => r.valid_to <= q.epoch

\* Every row names a loaded landing that holds its element set.
TracedTo(H) == \A r \in H : r.file \in rawGp /\ <<r.sat, r.epoch>> \in gp[r.file]

IsHistory(H) ==
  /\ H \subseteq [sat : Sats, epoch : Epochs, valid_to : Epochs \union {Null}, file : GpFiles]
  /\ OneRowPerEpoch(H)
  /\ \A r \in H : EndsAtNext(r, H)
  /\ TracedTo(H)

\* What the staging view returns: the rows of loaded landings, and nothing else.
LEMMA StgGpTyped ==
  ASSUME TypeOK, NEW r \in StgGp
  PROVE  /\ r.sat \in Sats /\ r.epoch \in Epochs /\ r.file \in GpFiles
         /\ r.file \in rawGp /\ <<r.sat, r.epoch>> \in gp[r.file]
         /\ r = [sat |-> r.sat, epoch |-> r.epoch, file |-> r.file]
<1>1. PICK k \in rawGp \X (Sats \X Epochs) :
        /\ k[2] \in gp[k[1]]
        /\ r = [sat |-> k[2][1], epoch |-> k[2][2], file |-> k[1]]
  BY DEF StgGp
<1>2. k[2] = <<r.sat, r.epoch>> /\ k[1] = r.file
  BY <1>1
<1>3. QED
  BY <1>1, <1>2 DEF TypeOK

LEMMA StgGpHasLoaded ==
  ASSUME NEW f \in rawGp, NEW s \in Sats, NEW e \in Epochs, <<s, e>> \in gp[f]
  PROVE  [sat |-> s, epoch |-> e, file |-> f] \in StgGp
<1>1. <<f, <<s, e>>>> \in {x \in rawGp \X (Sats \X Epochs) : x[2] \in gp[x[1]]}
  OBVIOUS
<1>2. QED
  BY <1>1 DEF StgGp

LEMMA DeduplicatedTyped ==
  ASSUME TypeOK
  PROVE  /\ Deduplicated \subseteq StgGp
         /\ \A d \in Deduplicated :
              /\ d.sat \in Sats /\ d.epoch \in Epochs /\ d.file \in GpFiles
              /\ d.file \in rawGp /\ <<d.sat, d.epoch>> \in gp[d.file]
<1>1. Deduplicated \subseteq StgGp
  BY DEF Deduplicated
<1>2. QED
  BY <1>1, StgGpTyped

\* One row per element set is left.
LEMMA DeduplicatedUnique ==
  ASSUME TypeOK, NEW c \in Deduplicated, NEW d \in Deduplicated,
         c.sat = d.sat, c.epoch = d.epoch
  PROVE  c = d
<1>1. c \in StgGp /\ d \in StgGp /\ c.file <= d.file /\ d.file <= c.file
  BY DEF Deduplicated
<1>2. c.file \in Nat /\ d.file \in Nat
  BY <1>1, StgGpTyped, Bounds
<1>3. c.file = d.file
  BY <1>1, <1>2
<1>4. /\ c = [sat |-> c.sat, epoch |-> c.epoch, file |-> c.file]
      /\ d = [sat |-> d.sat, epoch |-> d.epoch, file |-> d.file]
  BY <1>1, StgGpTyped
<1>5. QED
  BY <1>3, <1>4

\* Deduplication keeps one observation of every element set, and the first.
LEMMA DeduplicatedKeepsFirst ==
  ASSUME TypeOK, NEW k \in StgGp
  PROVE  \E d \in Deduplicated : d.sat = k.sat /\ d.epoch = k.epoch /\ d.file <= k.file
<1> DEFINE Same == {q \in StgGp : q.sat = k.sat /\ q.epoch = k.epoch}
           Files == {q.file : q \in Same}
<1>1. Files \subseteq Nat /\ Files # {}
  <2>1. k.file \in Files
    OBVIOUS
  <2>2. \A q \in Same : q.file \in Nat
    BY StgGpTyped, Bounds
  <2>3. QED
    BY <2>1, <2>2
<1>2. PICK least \in Files : \A f \in Files : least <= f
  BY <1>1, LeastExists
<1>3. PICK d \in Same : d.file = least
  BY <1>2
<1>4. \A q \in StgGp : q.sat = d.sat /\ q.epoch = d.epoch => d.file <= q.file
  BY <1>2, <1>3
<1>5. d \in Deduplicated
  BY <1>3, <1>4 DEF Deduplicated
<1>6. QED
  BY <1>2, <1>3, <1>5

\* What lead() returns.
LEMMA LeadIsNext ==
  ASSUME TypeOK, NEW r \in Deduplicated
  PROVE  IF Lead(r, Deduplicated) = Null
           THEN \A q \in Deduplicated : q.sat = r.sat => q.epoch <= r.epoch
           ELSE /\ Lead(r, Deduplicated) \in Epochs
                /\ r.epoch < Lead(r, Deduplicated)
                /\ \E q \in Deduplicated : q.sat = r.sat /\ q.epoch = Lead(r, Deduplicated)
                /\ \A q \in Deduplicated :
                     q.sat = r.sat /\ r.epoch < q.epoch => Lead(r, Deduplicated) <= q.epoch
<1> DEFINE D == Deduplicated
           L == Later(r, D)
<1>1. \A q \in D : q.epoch \in Epochs
  BY DeduplicatedTyped
<1>2. L \subseteq Epochs /\ \A e \in L : r.epoch < e /\ \E q \in D : q.sat = r.sat /\ q.epoch = e
  BY <1>1 DEF Later
<1>3. \A q \in D : q.sat = r.sat /\ r.epoch < q.epoch => q.epoch \in L
  BY DEF Later
<1> HIDE DEF D, L
<1>4. CASE L = {}
  <2>1. Lead(r, D) = Null
    BY <1>4 DEF Lead, L
  <2>2. \A q \in D : q.sat = r.sat => q.epoch <= r.epoch
    BY <1>1, <1>3, <1>4, Bounds DEF D
  <2>3. QED
    BY <2>1, <2>2 DEF D
<1>5. CASE L # {}
  <2>1. L \subseteq Nat
    BY <1>2, Bounds
  <2> \E e \in L : \A d \in L : e <= d
    BY <2>1, <1>5, LeastExists
  <2>2. Lead(r, D) = CHOOSE e \in L : \A d \in L : e <= d
    BY <1>5 DEF Lead, L
  <2>3. Lead(r, D) \in L /\ \A d \in L : Lead(r, D) <= d
    BY <2>2
  <2>4. Lead(r, D) # Null
    BY <1>2, <2>3, Bounds
  <2>5. QED
    BY <1>2, <1>3, <2>3, <2>4 DEF D
<1>6. QED
  BY <1>4, <1>5

\* silver.elset, as its model computes it, is a history of the loaded landings.
LEMMA HistorisedIsHistory == TypeOK => IsHistory(Historised)
<1> SUFFICES ASSUME TypeOK PROVE IsHistory(Historised)
  OBVIOUS
<1> DEFINE End(d) == Lead(d, Deduplicated)
<1>1. \A r \in Historised : \E d \in Deduplicated :
        r = [sat |-> d.sat, epoch |-> d.epoch, valid_to |-> End(d), file |-> d.file]
  BY DEF Historised
<1>2. \A d \in Deduplicated :
        [sat |-> d.sat, epoch |-> d.epoch, valid_to |-> End(d), file |-> d.file] \in Historised
  BY DEF Historised
<1>3. \A d \in Deduplicated : End(d) \in Epochs \union {Null}
  BY LeadIsNext
<1> HIDE DEF End
<1>4. ASSUME NEW r \in Historised
      PROVE  /\ r \in [sat : Sats, epoch : Epochs, valid_to : Epochs \union {Null}, file : GpFiles]
             /\ r.file \in rawGp /\ <<r.sat, r.epoch>> \in gp[r.file]
  <2>1. PICK d \in Deduplicated :
          r = [sat |-> d.sat, epoch |-> d.epoch, valid_to |-> End(d), file |-> d.file]
    BY <1>1
  <2>2. /\ d.sat \in Sats /\ d.epoch \in Epochs /\ d.file \in GpFiles
        /\ d.file \in rawGp /\ <<d.sat, d.epoch>> \in gp[d.file]
    BY DeduplicatedTyped
  <2>3. QED
    BY <1>3, <2>1, <2>2
<1>5. ASSUME NEW q \in Historised, NEW r \in Historised, q.sat = r.sat, q.epoch = r.epoch
      PROVE  q = r
  <2>1. PICK c \in Deduplicated :
          q = [sat |-> c.sat, epoch |-> c.epoch, valid_to |-> End(c), file |-> c.file]
    BY <1>1
  <2>2. PICK d \in Deduplicated :
          r = [sat |-> d.sat, epoch |-> d.epoch, valid_to |-> End(d), file |-> d.file]
    BY <1>1
  <2>3. c = d
    BY <1>5, <2>1, <2>2, DeduplicatedUnique
  <2>4. QED
    BY <2>1, <2>2, <2>3
<1>6. ASSUME NEW r \in Historised PROVE EndsAtNext(r, Historised)
  <2>1. PICK d \in Deduplicated :
          r = [sat |-> d.sat, epoch |-> d.epoch, valid_to |-> End(d), file |-> d.file]
    BY <1>1
  <2>2. r.sat = d.sat /\ r.epoch = d.epoch /\ r.valid_to = End(d)
    BY <2>1
  <2>3. \A q \in Historised : \E c \in Deduplicated : q.sat = c.sat /\ q.epoch = c.epoch
    BY <1>1
  <2>4. \A c \in Deduplicated : \E q \in Historised : q.sat = c.sat /\ q.epoch = c.epoch
    BY <1>2
  <2>5. CASE End(d) = Null
    <3>1. \A c \in Deduplicated : c.sat = d.sat => c.epoch <= d.epoch
      BY <2>5, LeadIsNext DEF End
    <3>2. QED
      BY <2>2, <2>3, <2>5, <3>1 DEF EndsAtNext
  <2>6. CASE End(d) # Null
    <3>1. /\ d.epoch < End(d)
          /\ \E c \in Deduplicated : c.sat = d.sat /\ c.epoch = End(d)
          /\ \A c \in Deduplicated : c.sat = d.sat /\ d.epoch < c.epoch => End(d) <= c.epoch
      BY <2>6, LeadIsNext DEF End
    <3>2. QED
      BY <2>2, <2>3, <2>4, <2>6, <3>1 DEF EndsAtNext
  <2>7. QED
    BY <2>5, <2>6
<1>7. QED
  BY <1>4, <1>5, <1>6 DEF IsHistory, OneRowPerEpoch, TracedTo

-----------------------------------------------------------------------------
\* The steps of one node, as the step lemmas take them apart.
LEMMA NodeSteps ==
  ASSUME NEW n \in Nodes, NEW ok \in BOOLEAN, Build(n, ok)
  PROVE  BuildElset(ok) \/ BuildObject(ok) \/ BuildDim(ok) \/ BuildFact(ok)
  BY DEF Build

LEMMA TypeInit == Init => TypeOK
  BY WarehouseAssumption
     DEF Init, TypeOK, Epochs, GpFiles, CatFiles, Nodes

\* The rows of the other models have their types too.
LEMMA NewestTyped ==
  ASSUME TypeOK
  PROVE  /\ Newest \subseteq [sat : Sats, stage : {"orbit", "decayed"}, file : CatFiles]
         /\ \A r \in Newest : r.file \in rawCat /\ <<r.sat, r.stage>> \in cat[r.file]
<1>1. ASSUME NEW r \in Newest
      PROVE  /\ r \in [sat : Sats, stage : {"orbit", "decayed"}, file : CatFiles]
             /\ r.file \in rawCat /\ <<r.sat, r.stage>> \in cat[r.file]
  <2>1. r \in StgCat
    BY DEF Newest
  <2>2. PICK k \in rawCat \X (Sats \X {"orbit", "decayed"}) :
          /\ k[2] \in cat[k[1]]
          /\ r = [sat |-> k[2][1], stage |-> k[2][2], file |-> k[1]]
    BY <2>1 DEF StgCat
  <2>3. k[2] = <<r.sat, r.stage>> /\ k[1] = r.file
    BY <2>2
  <2>4. QED
    BY <2>2, <2>3 DEF TypeOK
<1>2. QED
  BY <1>1

LEMMA InterpretedTyped ==
  ASSUME TypeOK
  PROVE  Interpreted \subseteq
           [sat : Sats, is_decayed : BOOLEAN, is_earth_orbiting : BOOLEAN, file : CatFiles]
<1>1. \A r \in space_object : r.sat \in Sats /\ r.file \in CatFiles
  BY DEF TypeOK
<1>2. \A s \in Sats : EarthOrbiting(s) \in BOOLEAN
  BY DEF EarthOrbiting
<1>3. ASSUME NEW d \in Interpreted
      PROVE  d \in [sat : Sats, is_decayed : BOOLEAN, is_earth_orbiting : BOOLEAN, file : CatFiles]
  <2>1. PICK r \in space_object :
          d = [sat |-> r.sat, is_decayed |-> r.stage = "decayed",
               is_earth_orbiting |-> EarthOrbiting(r.sat), file |-> r.file]
    BY DEF Interpreted
  <2>2. (r.stage = "decayed") \in BOOLEAN
    OBVIOUS
  <2>3. QED
    BY <1>1, <1>2, <2>1, <2>2, Zenon
<1>4. QED
  BY <1>3

\* A satellite that CelesTrak knows has been observed.
KnownHaveEpochs == \A s \in Sats : world[s].stage # "unknown" => world[s].epoch \in Epochs

LEMMA KnownStep == TypeOK /\ KnownHaveEpochs /\ [Next]_vars => KnownHaveEpochs'
<1> SUFFICES ASSUME TypeOK, KnownHaveEpochs, [Next]_vars PROVE KnownHaveEpochs'
  OBVIOUS
<1> USE DEF TypeOK, KnownHaveEpochs
<1>1. ASSUME NEW s \in Sats, Launch(s) PROVE KnownHaveEpochs'
  BY <1>1, WarehouseAssumption DEF Launch, Epochs
<1>2. ASSUME NEW s \in Sats, Publish(s) PROVE KnownHaveEpochs'
  <2>1. world[s].epoch \in Nat /\ world[s].epoch + 1 \in Epochs
    BY <1>2, WarehouseAssumption DEF Publish, Epochs
  <2>2. world'[s].epoch = world[s].epoch + 1
    BY <1>2, Zenon DEF Publish
  <2>3. QED
    BY <1>2, <2>1, <2>2 DEF Publish
<1>3. ASSUME NEW s \in Sats, Reenter(s) PROVE KnownHaveEpochs'
  BY <1>3 DEF Reenter
<1>4. CASE world' = world
  BY <1>4 DEF Epochs
<1>5. (\E s \in Sats : Launch(s) \/ Publish(s) \/ Reenter(s)) \/ world' = world
  BY DEF Next, vars, LandGp, LandCat, LoadGp, LoadCat, StartRun, Progress, Build, BuildElset,
         BuildObject, BuildDim, BuildFact, Done, Error, Unbuildable, Skip, Kill, landings
<1>6. QED
  BY <1>1, <1>2, <1>3, <1>4, <1>5

LEMMA TypeStep == TypeOK /\ KnownHaveEpochs /\ [Next]_vars => TypeOK'
<1> SUFFICES ASSUME TypeOK, KnownHaveEpochs, [Next]_vars PROVE TypeOK'
  OBVIOUS
<1> USE DEF TypeOK
<1>1. CASE UNCHANGED vars
  BY <1>1 DEF vars
<1>2. ASSUME NEW s \in Sats, Launch(s) \/ Publish(s) \/ Reenter(s) PROVE TypeOK'
  <2>1. world[s].epoch \in 0..MaxEpoch
    OBVIOUS
  <2>2. world' \in [Sats -> [stage : {"unknown", "orbit", "decayed"}, epoch : 0..MaxEpoch]]
    BY <1>2, <2>1, WarehouseAssumption DEF Launch, Publish, Reenter
  <2>3. QED
    BY <1>2, <2>2 DEF Launch, Publish, Reenter, tables, dbt
<1>3. CASE LandGp
  <2>1. PICK f \in GpFiles :
          gp' = [gp EXCEPT ![f] = {<<s, world[s].epoch>> : s \in {s \in Sats : world[s].stage = "orbit"}}]
    BY <1>3 DEF LandGp
  <2>2. gp' \in [GpFiles -> SUBSET (Sats \X Epochs)]
    BY <2>1 DEF KnownHaveEpochs
  <2>3. QED
    BY <1>3, <2>2 DEF LandGp, tables, dbt
<1>4. CASE LandCat
  <2>1. PICK f \in CatFiles :
          cat' = [cat EXCEPT ![f] = {<<s, world[s].stage>> : s \in {s \in Sats : world[s].stage # "unknown"}}]
    BY <1>4 DEF LandCat
  <2>2. {<<s, world[s].stage>> : s \in {s \in Sats : world[s].stage # "unknown"}}
          \subseteq Sats \X {"orbit", "decayed"}
    OBVIOUS
  <2>3. QED
    BY <1>4, <2>1, <2>2 DEF LandCat, tables, dbt
<1>5. ASSUME NEW f \in GpFiles, LoadGp(f) PROVE TypeOK'
  BY <1>5 DEF LoadGp, landings, tables, dbt
<1>6. ASSUME NEW f \in CatFiles, LoadCat(f) PROVE TypeOK'
  BY <1>6 DEF LoadCat, landings, tables, dbt
<1>7. ASSUME NEW selected \in Selections, StartRun(selected) PROVE TypeOK'
  BY <1>7 DEF StartRun, Selections, Nodes, landings, tables
<1>8. ASSUME NEW n \in Nodes, NEW ok \in BOOLEAN, Done(n, ok)
      PROVE  /\ UNCHANGED <<landings, rawGp, rawCat, seen>>
             /\ pending' \subseteq Nodes /\ broken' \subseteq Nodes /\ fails' \in 0..MaxFails
  BY <1>8, WarehouseAssumption DEF Done
<1>9. ASSUME NEW n \in Nodes, NEW ok \in BOOLEAN, Build(n, ok) PROVE TypeOK'
  <2> USE DEF Nodes
  <2>1. CASE BuildElset(ok)
    <3>1. elset' \subseteq [sat : Sats, epoch : Epochs, valid_to : Epochs \union {Null}, file : GpFiles]
      BY <2>1, HistorisedIsHistory DEF BuildElset, IsHistory
    <3>2. QED
      BY <2>1, <3>1, <1>8 DEF BuildElset, landings
  <2>2. CASE BuildObject(ok)
    <3>1. space_object' \subseteq [sat : Sats, stage : {"orbit", "decayed"}, file : CatFiles]
      BY <2>2, NewestTyped DEF BuildObject
    <3>2. QED
      BY <2>2, <3>1, <1>8 DEF BuildObject, landings
  <2>3. CASE BuildDim(ok)
    <3>1. dim_object' \subseteq
            [sat : Sats, is_decayed : BOOLEAN, is_earth_orbiting : BOOLEAN, file : CatFiles]
      BY <2>3, InterpretedTyped DEF BuildDim
    <3>2. QED
      BY <2>3, <3>1, <1>8 DEF BuildDim, landings
  <2>4. CASE BuildFact(ok)
    BY <2>4, <1>8 DEF BuildFact, landings
  <2>5. QED
    BY <1>9, <2>1, <2>2, <2>3, <2>4, NodeSteps
<1>10. ASSUME NEW n \in Nodes, Error(n) \/ Unbuildable(n) \/ Skip(n) PROVE TypeOK'
  <2>1. CASE Error(n)
    BY <2>1, <1>8 DEF Error, tables, landings
  <2>2. CASE Unbuildable(n) \/ Skip(n)
    BY <2>2 DEF Unbuildable, Skip, landings, tables
  <2>3. QED
    BY <1>10, <2>1, <2>2
<1>11. CASE Kill
  BY <1>11, WarehouseAssumption DEF Kill, landings, tables
<1>12. QED
  BY <1>1, <1>2, <1>3, <1>4, <1>5, <1>6, <1>7, <1>9, <1>10, <1>11 DEF Next, Progress
-----------------------------------------------------------------------------
\* elset changes in BuildElset only, and landings that have rows never change.
LEMMA HistoryFrame ==
  ASSUME TypeOK, [Next]_vars
  PROVE  /\ elset' = Historised \/ UNCHANGED elset
         /\ rawGp \subseteq rawGp'
         /\ elset' # elset => UNCHANGED <<gp, rawGp>>
         /\ \A f \in GpFiles : gp[f] # {} => gp'[f] = gp[f]
<1> USE DEF TypeOK
<1>1. CASE LandGp
  BY <1>1 DEF LandGp, tables
<1>2. ASSUME NEW f \in GpFiles, LoadGp(f) PROVE elset' = elset /\ gp' = gp /\ rawGp \subseteq rawGp'
  BY <1>2 DEF LoadGp, landings, tables
<1>3. ASSUME NEW n \in Nodes, NEW ok \in BOOLEAN, Build(n, ok)
      PROVE  (elset' = Historised \/ UNCHANGED elset) /\ UNCHANGED <<gp, rawGp>>
  BY <1>3 DEF Build, BuildElset, BuildObject, BuildDim, BuildFact, Done, landings
<1>4. \/ LandGp \/ \E f \in GpFiles : LoadGp(f)
      \/ \E n \in Nodes, ok \in BOOLEAN : Build(n, ok)
      \/ UNCHANGED <<elset, gp, rawGp>>
  BY DEF Next, vars, Launch, Publish, Reenter, LandCat, LoadCat, StartRun, Progress, Error,
         Unbuildable, Skip, Kill, Done, landings, tables
<1>5. QED
  BY <1>1, <1>2, <1>3, <1>4

LEMMA HistoryStep == TypeOK /\ IsHistory(elset) /\ [Next]_vars => IsHistory(elset)'
<1> SUFFICES ASSUME TypeOK, IsHistory(elset), [Next]_vars PROVE IsHistory(elset)'
  OBVIOUS
<1>1. CASE elset' = Historised /\ UNCHANGED <<gp, rawGp>>
  BY <1>1, HistorisedIsHistory
     DEF IsHistory, OneRowPerEpoch, EndsAtNext, TracedTo
<1>2. CASE UNCHANGED elset
  <2>1. \A r \in elset : r.file \in GpFiles /\ gp'[r.file] = gp[r.file] /\ r.file \in rawGp'
    BY HistoryFrame DEF IsHistory, TracedTo
  <2>2. TracedTo(elset)'
    BY <1>2, <2>1 DEF IsHistory, TracedTo
  <2>3. OneRowPerEpoch(elset)' /\ \A r \in elset' : EndsAtNext(r, elset)'
    BY <1>2 DEF IsHistory, OneRowPerEpoch, EndsAtNext
  <2>4. QED
    BY <1>2, <2>2, <2>3 DEF IsHistory
<1>3. QED
  BY <1>1, <1>2, HistoryFrame

\* A history answers every "as of" once.
LEMMA HistoryTiles == TypeOK /\ IsHistory(elset) => AsOfIsUnique
<1> SUFFICES ASSUME TypeOK, IsHistory(elset),
                    NEW first \in elset, NEW t \in Epochs, first.epoch <= t
             PROVE  \E r \in elset :
                      /\ r.sat = first.sat /\ InForce(r, t)
                      /\ \A q \in elset : q.sat = first.sat /\ InForce(q, t) => q = r
  BY DEF AsOfIsUnique
<1> DEFINE Begun == {q \in elset : q.sat = first.sat /\ q.epoch <= t}
           Ages == {t - q.epoch : q \in Begun}
<1>1. \A q \in elset : /\ q.epoch \in Nat /\ q.valid_to \in Nat /\ EndsAtNext(q, elset)
  BY Bounds DEF IsHistory, Null
<1>2. t \in Nat
  BY Bounds
<1>3. Ages \subseteq Nat /\ Ages # {}
  <2>1. first \in Begun
    OBVIOUS
  <2>2. \A q \in Begun : t - q.epoch \in Nat
    BY <1>1, <1>2
  <2>3. QED
    BY <2>1, <2>2
<1>4. PICK r \in Begun : \A q \in Begun : t - r.epoch <= t - q.epoch
  <2>1. PICK least \in Ages : \A age \in Ages : least <= age
    BY <1>3, LeastExists
  <2>2. PICK r \in Begun : least = t - r.epoch
    BY <2>1
  <2>3. \A q \in Begun : t - q.epoch \in Ages
    OBVIOUS
  <2>4. \A q \in Begun : t - r.epoch <= t - q.epoch
    BY <2>1, <2>2, <2>3
  <2>5. QED
    BY <2>4
<1>5. \A q \in Begun : q.epoch <= r.epoch
  BY <1>1, <1>2, <1>4
<1>6. InForce(r, t)
  <2>1. SUFFICES ASSUME r.valid_to # Null, r.valid_to <= t PROVE FALSE
    BY <1>1, <1>2 DEF InForce
  <2>2. PICK q \in elset : q.sat = r.sat /\ q.epoch = r.valid_to
    BY <1>1, <2>1 DEF EndsAtNext
  <2>3. q \in Begun
    BY <2>1, <2>2
  <2>4. r.epoch < r.valid_to
    BY <1>1, <2>1 DEF EndsAtNext
  <2>5. QED
    BY <1>1, <1>5, <2>2, <2>3, <2>4
<1>7. ASSUME NEW q \in elset, q.sat = first.sat, InForce(q, t) PROVE q = r
  <2>1. q \in Begun
    BY <1>7 DEF InForce
  <2>2. SUFFICES q.epoch = r.epoch
    BY <2>1 DEF IsHistory, OneRowPerEpoch
  <2>3. SUFFICES ASSUME q.epoch < r.epoch PROVE FALSE
    BY <1>1, <1>5, <2>1
  <2>4. q.valid_to # Null /\ q.valid_to <= r.epoch
    BY <1>1, <2>1, <2>3 DEF EndsAtNext
  <2>5. QED
    BY <1>1, <1>2, <1>7, <2>4 DEF InForce
<1>8. QED
  BY <1>6, <1>7

\* A rebuild keeps every element set, no later sighted and not valid for longer.
LEMMA RebuildGrows ==
  ASSUME TypeOK, IsHistory(elset), NEW r \in elset
  PROVE  \E q \in Historised :
           /\ q.sat = r.sat /\ q.epoch = r.epoch
           /\ q.file <= r.file
           /\ r.valid_to # Null => q.valid_to # Null /\ q.valid_to <= r.valid_to
<1>1. \A e \in elset : \E q \in Historised :
        q.sat = e.sat /\ q.epoch = e.epoch /\ q.file <= e.file
  <2> SUFFICES ASSUME NEW e \in elset
               PROVE  \E q \in Historised : q.sat = e.sat /\ q.epoch = e.epoch /\ q.file <= e.file
    OBVIOUS
  <2>1. /\ e.sat \in Sats /\ e.epoch \in Epochs /\ e.file \in rawGp
        /\ <<e.sat, e.epoch>> \in gp[e.file]
    BY DEF IsHistory, TracedTo
  <2>2. [sat |-> e.sat, epoch |-> e.epoch, file |-> e.file] \in StgGp
    BY <2>1, StgGpHasLoaded
  <2>3. PICK d \in Deduplicated : d.sat = e.sat /\ d.epoch = e.epoch /\ d.file <= e.file
    BY <2>2, DeduplicatedKeepsFirst
  <2>4. [sat |-> d.sat, epoch |-> d.epoch, valid_to |-> Lead(d, Deduplicated), file |-> d.file]
          \in Historised
    BY DEF Historised
  <2>5. QED
    BY <2>3, <2>4
<1>2. PICK q \in Historised : q.sat = r.sat /\ q.epoch = r.epoch /\ q.file <= r.file
  BY <1>1
<1>3. ASSUME r.valid_to # Null PROVE q.valid_to # Null /\ q.valid_to <= r.valid_to
  <2>1. PICK e \in elset : e.sat = r.sat /\ e.epoch = r.valid_to
    BY <1>3 DEF IsHistory, EndsAtNext
  <2>2. PICK n \in Historised : n.sat = r.sat /\ n.epoch = r.valid_to
    BY <1>1, <2>1
  <2>3. q.epoch < n.epoch
    BY <1>2, <1>3, <2>2 DEF IsHistory, EndsAtNext
  <2>4. EndsAtNext(q, Historised) /\ q.epoch \in Nat /\ n.epoch \in Nat
    BY HistorisedIsHistory, Bounds DEF IsHistory
  <2>5. QED
    BY <1>2, <2>2, <2>3, <2>4 DEF EndsAtNext
<1>4. QED
  BY <1>2, <1>3

-----------------------------------------------------------------------------
\* Catalogue landings follow each other and what has re-entered stays so.
CatalogueInv ==
  /\ \A f, g \in CatFiles : f < g /\ cat[f] = {} => cat[g] = {}
  /\ \A f \in CatFiles, s \in Sats : <<s, "decayed">> \in cat[f] => world[s].stage = "decayed"
  /\ \A f, g \in CatFiles, s \in Sats :
       f <= g /\ <<s, "decayed">> \in cat[f] => <<s, "orbit">> \notin cat[g]
  /\ \A f \in rawCat : cat[f] # {}
  /\ seen \subseteq rawCat

\* s had re-entered when the whole build began.
KnownDecayed(s) == \E f \in seen : <<s, "decayed">> \in cat[f]

\* While the view is still to be made, the tables before it that are done know it.
GateInv ==
  "fact" \in pending =>
    /\ "space_object" \notin pending \union broken =>
         \A r \in space_object : KnownDecayed(r.sat) => r.stage = "decayed"
    /\ "dim_object" \notin pending \union broken =>
         \A d \in dim_object : KnownDecayed(d.sat) => d.is_decayed

LEMMA CatalogueStep == TypeOK /\ CatalogueInv /\ [Next]_vars => CatalogueInv'
<1> SUFFICES ASSUME TypeOK, CatalogueInv, [Next]_vars PROVE CatalogueInv'
  OBVIOUS
<1> USE DEF TypeOK, CatalogueInv
<1>1. CASE LandCat
  <2> DEFINE known == {s \in Sats : world[s].stage # "unknown"}
             picture == {<<s, world[s].stage>> : s \in known}
  <2>1. PICK f \in CatFiles :
          /\ cat[f] = {} /\ \A g \in CatFiles : g < f => cat[g] # {}
          /\ cat' = [cat EXCEPT ![f] = picture]
    BY <1>1 DEF LandCat
  <2>2. picture # {} /\ \A s \in Sats, x \in {"orbit", "decayed"} :
                        <<s, x>> \in picture => world[s].stage = x
    <3>1. known # {}
      BY <1>1 DEF LandCat
    <3>2. \A s \in known : <<s, world[s].stage>> \in picture
      OBVIOUS
    <3>3. ASSUME NEW s \in Sats, NEW x \in {"orbit", "decayed"}, <<s, x>> \in picture
          PROVE  world[s].stage = x
      BY <3>3
    <3>4. QED
      BY <3>1, <3>2, <3>3
  <2> HIDE DEF picture
  <2>3. cat'[f] = picture /\ \A g \in CatFiles : g # f => cat'[g] = cat[g]
    BY <2>1
  <2>4. \A g \in CatFiles : f < g => cat[g] = {}
    BY <2>1
  <2>5. \A g, h \in CatFiles : g < h /\ cat'[g] = {} => cat'[h] = {}
    BY <2>1, <2>2, <2>3, Bounds
  <2>6. \A g \in CatFiles, s \in Sats :
          <<s, "decayed">> \in cat'[g] => world[s].stage = "decayed"
    BY <2>2, <2>3
  <2>7. \A g, h \in CatFiles, s \in Sats :
          g <= h /\ <<s, "decayed">> \in cat'[g] => <<s, "orbit">> \notin cat'[h]
    <3> SUFFICES ASSUME NEW g \in CatFiles, NEW h \in CatFiles, NEW s \in Sats, g <= h,
                        <<s, "decayed">> \in cat'[g], <<s, "orbit">> \in cat'[h]
                 PROVE  FALSE
      OBVIOUS
    <3>1. world[s].stage = "decayed"
      BY <2>6
    <3>2. h # f
      BY <2>2, <2>3, <3>1
    <3>3. g = f
      BY <2>3, <3>2
    <3>4. cat[h] = {}
      BY <2>4, <3>2, <3>3, Bounds DEF CatFiles
    <3>5. QED
      BY <2>3, <3>2, <3>4
  <2>8. UNCHANGED <<world, rawCat, seen>>
    BY <1>1 DEF LandCat, dbt
  <2>9. QED
    BY <2>1, <2>2, <2>3, <2>5, <2>6, <2>7, <2>8
<1>2. ASSUME NEW s \in Sats, Launch(s) \/ Publish(s) \/ Reenter(s) PROVE CatalogueInv'
  <2>1. \A x \in Sats : world[x].stage = "decayed" => world'[x].stage = "decayed"
    <3>1. \A x \in Sats : x # s => world'[x] = world[x]
      BY <1>2, Zenon DEF Launch, Publish, Reenter
    <3>2. world[s].stage # "decayed"
      BY <1>2 DEF Launch, Publish, Reenter
    <3>3. QED
      BY <3>1, <3>2
  <2>2. UNCHANGED <<cat, rawCat, seen>>
    BY <1>2 DEF Launch, Publish, Reenter, dbt
  <2>3. QED
    BY <2>1, <2>2
<1>3. ASSUME NEW f \in CatFiles, LoadCat(f) PROVE CatalogueInv'
  BY <1>3 DEF LoadCat, landings, dbt
<1>4. ASSUME NEW selected \in Selections, StartRun(selected) PROVE CatalogueInv'
  BY <1>4 DEF StartRun, landings
<1>5. CASE UNCHANGED <<world, cat, rawCat, seen>>
  BY <1>5
<1>6. \/ LandCat \/ \E s \in Sats : Launch(s) \/ Publish(s) \/ Reenter(s)
      \/ \E f \in CatFiles : LoadCat(f)
      \/ \E selected \in Selections : StartRun(selected)
      \/ UNCHANGED <<world, cat, rawCat, seen>>
  BY DEF Next, vars, LandGp, LoadGp, Progress, Build, BuildElset, BuildObject, BuildDim, BuildFact,
         Done, Error, Unbuildable, Skip, Kill, landings, dbt
<1>7. QED
  BY <1>1, <1>2, <1>3, <1>4, <1>5, <1>6

\* The newest row of a satellite is at least as new as any landing seen.
LEMMA NewestKnowsDecay ==
  ASSUME TypeOK, CatalogueInv, NEW r \in Newest, KnownDecayed(r.sat)
  PROVE  r.stage = "decayed"
<1>1. PICK f \in seen : <<r.sat, "decayed">> \in cat[f]
  BY DEF KnownDecayed
<1>2. r.sat \in Sats /\ r.file \in CatFiles /\ <<r.sat, r.stage>> \in cat[r.file]
      /\ r.stage \in {"orbit", "decayed"} /\ f \in rawCat /\ f \in CatFiles
  BY <1>1, NewestTyped DEF CatalogueInv, TypeOK
<1>3. [sat |-> r.sat, stage |-> "decayed", file |-> f] \in StgCat
  <2>1. <<f, <<r.sat, "decayed">>>> \in
          {x \in rawCat \X (Sats \X {"orbit", "decayed"}) : x[2] \in cat[x[1]]}
    BY <1>1, <1>2
  <2>2. QED
    BY <2>1 DEF StgCat
<1>4. f <= r.file
  BY <1>3 DEF Newest
<1>5. QED
  BY <1>1, <1>2, <1>4 DEF CatalogueInv

\* A catalogue landing is not written again, and what is loaded stays loaded.
LEMMA LandedStays ==
  ASSUME TypeOK, CatalogueInv, [Next]_vars
  PROVE  /\ \A f \in CatFiles : cat[f] # {} => cat'[f] = cat[f]
         /\ \A f \in rawCat : f \in rawCat' /\ cat'[f] = cat[f]
<1>1. \A f \in CatFiles : cat[f] # {} => cat'[f] = cat[f]
  <2>1. CASE LandCat
    BY <2>1 DEF LandCat, TypeOK
  <2>2. LandCat \/ UNCHANGED cat
    BY DEF Next, vars, Launch, Publish, Reenter, LandGp, LoadGp, LoadCat, StartRun, Progress, Build,
           BuildElset, BuildObject, BuildDim, BuildFact, Done, Error, Unbuildable, Skip, Kill, landings
  <2>3. QED
    BY <2>1, <2>2
<1>2. rawCat \subseteq rawCat'
  BY DEF Next, vars, Launch, Publish, Reenter, LandGp, LandCat, LoadGp, LoadCat, StartRun, Progress,
         Build, BuildElset, BuildObject, BuildDim, BuildFact, Done, Error, Unbuildable, Skip, Kill
<1>3. QED
  BY <1>1, <1>2 DEF CatalogueInv, TypeOK

\* s was in orbit as some landing has it that was loaded when the whole build began.
KnownAloft(s) == \E f \in seen : <<s, "orbit">> \in cat[f]

\* What was known when the build began is known of the same satellites ever after.
LEMMA KnownFrame ==
  ASSUME TypeOK, CatalogueInv, [Next]_vars, UNCHANGED seen, NEW s
  PROVE  /\ KnownDecayed(s)' <=> KnownDecayed(s)
         /\ KnownAloft(s)' <=> KnownAloft(s)
<1>1. \A f \in seen : cat'[f] = cat[f]
  BY LandedStays DEF CatalogueInv, TypeOK
<1>2. QED
  BY <1>1 DEF KnownDecayed, KnownAloft

LEMMA GateStep == TypeOK /\ CatalogueInv /\ GateInv /\ [Next]_vars => GateInv'
<1> SUFFICES ASSUME TypeOK, CatalogueInv, GateInv, [Next]_vars PROVE GateInv'
  OBVIOUS
<1>1. CASE UNCHANGED <<space_object, dim_object, seen>> /\ pending' \subseteq pending
           /\ pending \union broken \subseteq pending' \union broken'
  BY <1>1, KnownFrame DEF GateInv
<1>2. CASE "fact" \notin pending'
  BY <1>2 DEF GateInv
<1>3. ASSUME NEW selected \in Selections, StartRun(selected) PROVE GateInv'
  BY <1>3 DEF StartRun, Selections, Nodes, GateInv
<1>4. ASSUME NEW n \in Nodes, NEW ok \in BOOLEAN, Build(n, ok) PROVE GateInv'
  <2>1. ASSUME NEW k \in Nodes, Done(k, ok)
        PROVE  pending' = pending \ {k} /\ broken \subseteq broken' /\ UNCHANGED <<seen, cat>>
    BY <2>1 DEF Done, landings
  <2>2. CASE BuildElset(ok)
    BY <2>1, <2>2, KnownFrame DEF BuildElset, GateInv, Nodes
  <2>3. CASE BuildObject(ok)
    <3>1. \A r \in space_object' : KnownDecayed(r.sat) => r.stage = "decayed"
      BY <2>3, NewestKnowsDecay DEF BuildObject
    <3>2. pending' = pending \ {"space_object"} /\ broken \subseteq broken'
          /\ UNCHANGED <<seen, dim_object>>
      BY <2>1, <2>3 DEF BuildObject, Nodes
    <3>3. QED
      BY <3>1, <3>2, KnownFrame DEF GateInv
  <2>4. CASE BuildDim(ok)
    <3>1. pending' = pending \ {"dim_object"} /\ broken \subseteq broken'
          /\ UNCHANGED <<seen, space_object>> /\ dim_object' = Interpreted
      BY <2>1, <2>4 DEF BuildDim, Nodes
    <3>2. "space_object" \notin pending \union broken
      BY <2>4 DEF BuildDim, Ready, Refs
    <3>3. ASSUME "fact" \in pending, NEW d \in Interpreted, KnownDecayed(d.sat)
          PROVE  d.is_decayed
      <4>1. PICK r \in space_object :
              d = [sat |-> r.sat, is_decayed |-> r.stage = "decayed",
                   is_earth_orbiting |-> EarthOrbiting(r.sat), file |-> r.file]
        BY DEF Interpreted
      <4>2. d.sat = r.sat /\ d.is_decayed = (r.stage = "decayed")
        BY <4>1, Zenon
      <4>3. r.stage = "decayed"
        BY <3>2, <3>3, <4>2 DEF GateInv
      <4>4. QED
        BY <4>2, <4>3
    <3>4. QED
      BY <3>1, <3>2, <3>3, KnownFrame DEF GateInv
  <2>5. CASE BuildFact(ok)
    BY <2>1, <2>5 DEF BuildFact, Nodes, GateInv
  <2>6. QED
    BY <1>4, <2>2, <2>3, <2>4, <2>5, NodeSteps
<1>5. ASSUME NEW n \in Nodes, Error(n) \/ Unbuildable(n) \/ Skip(n) PROVE GateInv'
  BY <1>5, <1>1 DEF Error, Unbuildable, Skip, Done, tables
<1>6. CASE Kill
  BY <1>6 DEF Kill, GateInv
<1>7. \/ \E selected \in Selections : StartRun(selected)
      \/ \E n \in Nodes, ok \in BOOLEAN : Build(n, ok)
      \/ \E n \in Nodes : Error(n) \/ Unbuildable(n) \/ Skip(n)
      \/ Kill
      \/ UNCHANGED <<space_object, dim_object, seen, pending, broken>>
  BY DEF Next, vars, Launch, Publish, Reenter, LandGp, LandCat, LoadGp, LoadCat, Progress, tables, dbt
<1>8. QED
  BY <1>1, <1>3, <1>4, <1>5, <1>6, <1>7

-----------------------------------------------------------------------------
\* A loaded landing calls s re-entered.
CalledDecayed(s) == \E g \in rawCat : <<s, "decayed">> \in cat[g]

\* No table makes a re-entry up, or an orbit.
SourcedInv ==
  /\ \A r \in space_object : r.stage = "decayed" => CalledDecayed(r.sat)
  /\ \A d \in dim_object : /\ d.is_decayed => CalledDecayed(d.sat)
                           /\ d.is_earth_orbiting = EarthOrbiting(d.sat)

\* While the view is still to be made, the tables before it that are done have every
\* satellite that was known.
CoverInv ==
  "fact" \in pending =>
    /\ "space_object" \notin pending \union broken =>
         \A s \in Sats : KnownAloft(s) => \E r \in space_object : r.sat = s
    /\ "dim_object" \notin pending \union broken =>
         \A s \in Sats : KnownAloft(s) => \E d \in dim_object : d.sat = s

LEMMA CalledStays ==
  ASSUME TypeOK, CatalogueInv, [Next]_vars, NEW s, CalledDecayed(s)
  PROVE  CalledDecayed(s)'
BY LandedStays DEF CalledDecayed

\* A dimension row is its object's.
LEMMA InterpretedFrom ==
  ASSUME NEW d \in Interpreted
  PROVE  \E r \in space_object : /\ d.sat = r.sat /\ d.is_decayed = (r.stage = "decayed")
                                 /\ d.is_earth_orbiting = EarthOrbiting(d.sat)
<1>1. PICK r \in space_object :
        d = [sat |-> r.sat, is_decayed |-> r.stage = "decayed",
             is_earth_orbiting |-> EarthOrbiting(r.sat), file |-> r.file]
  BY DEF Interpreted
<1>2. d.sat = r.sat /\ d.is_decayed = (r.stage = "decayed")
      /\ d.is_earth_orbiting = EarthOrbiting(r.sat)
  BY <1>1, Zenon
<1>3. QED
  BY <1>2

LEMMA InterpretedHasAll ==
  ASSUME NEW r \in space_object
  PROVE  \E d \in Interpreted : d.sat = r.sat
<1> DEFINE d == [sat |-> r.sat, is_decayed |-> r.stage = "decayed",
                 is_earth_orbiting |-> EarthOrbiting(r.sat), file |-> r.file]
<1>1. d \in Interpreted
  BY DEF Interpreted
<1>2. d.sat = r.sat
  OBVIOUS
<1>3. QED
  BY <1>1, <1>2

\* A satellite that some loaded landing has is in the newest picture.
LEMMA NewestHasAll ==
  ASSUME TypeOK, NEW s \in Sats, NEW f \in rawCat, <<s, "orbit">> \in cat[f]
  PROVE  \E r \in Newest : r.sat = s
<1> DEFINE S == {r \in StgCat : r.sat = s}
           Ages == {MaxCat - r.file : r \in S}
<1>1. S # {}
  <2>1. <<f, <<s, "orbit">>>> \in {x \in rawCat \X (Sats \X {"orbit", "decayed"}) : x[2] \in cat[x[1]]}
    OBVIOUS
  <2>2. [sat |-> s, stage |-> "orbit", file |-> f] \in StgCat
    BY <2>1 DEF StgCat
  <2>3. QED
    BY <2>2
<1>2. \A r \in S : r.file \in CatFiles
  <2> SUFFICES ASSUME NEW r \in StgCat PROVE r.file \in CatFiles
    OBVIOUS
  <2>1. PICK k \in rawCat \X (Sats \X {"orbit", "decayed"}) :
          r = [sat |-> k[2][1], stage |-> k[2][2], file |-> k[1]]
    BY DEF StgCat
  <2>2. QED
    BY <2>1 DEF TypeOK
<1> HIDE DEF S
<1>3. Ages \subseteq Nat /\ Ages # {}
  BY <1>1, <1>2, WarehouseAssumption DEF CatFiles
<1>4. PICK a \in Ages : \A b \in Ages : a <= b
  <2> HIDE DEF Ages
  <2>1. QED
    BY <1>3, LeastExists
<1>5. PICK r \in S : a = MaxCat - r.file
  BY <1>4
<1>6. \A q \in S : q.file <= r.file
  <2> SUFFICES ASSUME NEW q \in S PROVE q.file <= r.file
    OBVIOUS
  <2>1. MaxCat - r.file <= MaxCat - q.file
    BY <1>4, <1>5
  <2>2. QED
    BY <1>2, <2>1, WarehouseAssumption DEF CatFiles
<1>7. r \in Newest /\ r.sat = s
  BY <1>6 DEF S, Newest
<1>8. QED
  BY <1>7

LEMMA SourcedStep == TypeOK /\ CatalogueInv /\ SourcedInv /\ [Next]_vars => SourcedInv'
<1> SUFFICES ASSUME TypeOK, CatalogueInv, SourcedInv, [Next]_vars PROVE SourcedInv'
  OBVIOUS
<1>1. \A r \in space_object : r.stage = "decayed" => CalledDecayed(r.sat)'
  BY CalledStays DEF SourcedInv
<1>2. \A d \in dim_object : /\ d.is_decayed => CalledDecayed(d.sat)'
                            /\ d.is_earth_orbiting = EarthOrbiting(d.sat)
  BY CalledStays DEF SourcedInv
<1>3. \A r \in Newest : r.stage = "decayed" => CalledDecayed(r.sat)'
  <2>1. \A r \in Newest : r.stage = "decayed" => CalledDecayed(r.sat)
    BY NewestTyped DEF CalledDecayed
  <2>2. QED
    BY <2>1, CalledStays
<1>4. \A d \in Interpreted : /\ d.is_decayed => CalledDecayed(d.sat)'
                             /\ d.is_earth_orbiting = EarthOrbiting(d.sat)
  BY <1>1, InterpretedFrom
<1>5. space_object' \in {space_object, Newest} /\ dim_object' \in {dim_object, Interpreted}
  BY DEF Next, vars, Launch, Publish, Reenter, LandGp, LandCat, LoadGp, LoadCat, StartRun, Progress,
         Build, BuildElset, BuildObject, BuildDim, BuildFact, Error, Unbuildable, Skip, Kill, tables
<1>6. \A r \in space_object' : r.stage = "decayed" => CalledDecayed(r.sat)'
  BY <1>1, <1>3, <1>5
<1>7. \A d \in dim_object' : /\ d.is_decayed => CalledDecayed(d.sat)'
                             /\ d.is_earth_orbiting = EarthOrbiting(d.sat)
  BY <1>2, <1>4, <1>5
<1>8. QED
  BY <1>6, <1>7 DEF SourcedInv, EarthOrbiting

LEMMA CoverStep == TypeOK /\ CatalogueInv /\ CoverInv /\ [Next]_vars => CoverInv'
<1> SUFFICES ASSUME TypeOK, CatalogueInv, CoverInv, [Next]_vars PROVE CoverInv'
  OBVIOUS
<1>1. CASE UNCHANGED <<space_object, dim_object, seen>> /\ pending' \subseteq pending
           /\ pending \union broken \subseteq pending' \union broken'
  BY <1>1, KnownFrame DEF CoverInv
<1>2. ASSUME NEW selected \in Selections, StartRun(selected) PROVE CoverInv'
  <2>1. CASE selected = Nodes
    BY <1>2, <2>1 DEF StartRun, Nodes, CoverInv
  <2>2. CASE selected # Nodes
    BY <1>2, <2>2 DEF StartRun, CoverInv, KnownAloft
  <2>3. QED
    BY <2>1, <2>2
<1>3. ASSUME NEW n \in Nodes, NEW ok \in BOOLEAN, Build(n, ok) PROVE CoverInv'
  <2>1. ASSUME NEW k \in Nodes, Done(k, ok)
        PROVE  pending' = pending \ {k} /\ broken \subseteq broken' /\ UNCHANGED seen
    BY <2>1 DEF Done
  <2>2. CASE BuildElset(ok)
    BY <2>1, <2>2, KnownFrame DEF BuildElset, CoverInv, Nodes
  <2>3. CASE BuildObject(ok)
    <3>1. \A s \in Sats : KnownAloft(s) => \E r \in space_object' : r.sat = s
      BY <2>3, NewestHasAll DEF BuildObject, KnownAloft, CatalogueInv
    <3>2. pending' = pending \ {"space_object"} /\ broken \subseteq broken'
          /\ UNCHANGED <<seen, dim_object>>
      BY <2>1, <2>3 DEF BuildObject, Nodes
    <3>3. QED
      BY <3>1, <3>2, KnownFrame DEF CoverInv
  <2>4. CASE BuildDim(ok)
    <3>1. pending' = pending \ {"dim_object"} /\ broken \subseteq broken'
          /\ UNCHANGED <<seen, space_object>> /\ dim_object' = Interpreted
      BY <2>1, <2>4 DEF BuildDim, Nodes
    <3>2. "space_object" \notin pending \union broken
      BY <2>4 DEF BuildDim, Ready, Refs
    <3>3. "fact" \in pending =>
            \A s \in Sats : KnownAloft(s) => \E d \in Interpreted : d.sat = s
      BY <3>2, InterpretedHasAll DEF CoverInv
    <3>4. QED
      BY <3>1, <3>3, KnownFrame DEF CoverInv
  <2>5. CASE BuildFact(ok)
    BY <2>1, <2>5 DEF BuildFact, Nodes, CoverInv
  <2>6. QED
    BY <1>3, <2>2, <2>3, <2>4, <2>5, NodeSteps
<1>4. ASSUME NEW n \in Nodes, Error(n) \/ Unbuildable(n) \/ Skip(n) PROVE CoverInv'
  BY <1>4, <1>1 DEF Error, Unbuildable, Skip, Done, tables
<1>5. CASE Kill
  BY <1>5 DEF Kill, CoverInv
<1>6. \/ \E selected \in Selections : StartRun(selected)
      \/ \E n \in Nodes, ok \in BOOLEAN : Build(n, ok)
      \/ \E n \in Nodes : Error(n) \/ Unbuildable(n) \/ Skip(n)
      \/ Kill
      \/ UNCHANGED <<space_object, dim_object, seen, pending, broken>>
  BY DEF Next, vars, Launch, Publish, Reenter, LandGp, LandCat, LoadGp, LoadCat, Progress, tables, dbt
<1>7. QED
  BY <1>1, <1>2, <1>3, <1>4, <1>5, <1>6

-----------------------------------------------------------------------------
WarehouseInv ==
  /\ TypeOK /\ KnownHaveEpochs /\ IsHistory(elset)
  /\ CatalogueInv /\ GateInv /\ SourcedInv /\ CoverInv

LEMMA WarehouseInvInit == Init => WarehouseInv
<1> SUFFICES ASSUME Init PROVE WarehouseInv
  OBVIOUS
<1>1. IsHistory(elset) /\ KnownHaveEpochs /\ CatalogueInv /\ GateInv /\ SourcedInv /\ CoverInv
  BY DEF Init, IsHistory, OneRowPerEpoch, TracedTo, KnownHaveEpochs, CatalogueInv, GateInv,
         SourcedInv, CoverInv
<1>2. QED
  BY <1>1, TypeInit DEF WarehouseInv

LEMMA WarehouseInvStep == WarehouseInv /\ [Next]_vars => WarehouseInv'
  BY TypeStep, KnownStep, HistoryStep, CatalogueStep, GateStep,
     SourcedStep, CoverStep DEF WarehouseInv

\* The inductive invariant holds in every reachable state.
THEOREM WarehouseInvariant == Spec => []WarehouseInv
<1>1. Init => WarehouseInv
  BY WarehouseInvInit
<1>2. WarehouseInv /\ [Next]_vars => WarehouseInv'
  BY WarehouseInvStep
<1>3. QED
  BY <1>1, <1>2, PTL DEF Spec

\* The tables are well typed.
THEOREM TypeCorrect == Spec => []TypeOK
<1>1. WarehouseInv => TypeOK
  BY DEF WarehouseInv
<1>2. QED
  BY <1>1, WarehouseInvariant, PTL

\* Whatever is loaded in whatever order, intervals tile every satellite's timeline.
THEOREM IntervalsTile == Spec => []AsOfIsUnique
<1>1. WarehouseInv => AsOfIsUnique
  BY HistoryTiles DEF WarehouseInv
<1>2. QED
  BY <1>1, WarehouseInvariant, PTL

\* No rebuild loses or lengthens history or moves a first sighting later.
THEOREM RebuildsOnlyGrow == Spec => HistoryOnlyGrows
<1> DEFINE Grows == \A r \in elset : \E q \in elset' :
                      /\ q.sat = r.sat /\ q.epoch = r.epoch
                      /\ q.file <= r.file
                      /\ r.valid_to # Null => q.valid_to # Null /\ q.valid_to <= r.valid_to
<1>1. WarehouseInv /\ [Next]_vars => Grows
  <2> SUFFICES ASSUME WarehouseInv, [Next]_vars PROVE Grows
    OBVIOUS
  <2>1. CASE elset' = Historised
    BY <2>1, RebuildGrows DEF WarehouseInv
  <2>2. CASE UNCHANGED elset
    <3>1. \A r \in elset : r.file \in Nat /\ r.valid_to \in Nat
      BY Bounds DEF WarehouseInv, IsHistory, Null
    <3>2. QED
      BY <2>2, <3>1
  <2>3. QED
    BY <2>1, <2>2, HistoryFrame DEF WarehouseInv
<1>2. QED
  BY <1>1, WarehouseInvariant, PTL DEF Spec, HistoryOnlyGrows

\* The step that makes the view is its node's.
LEMMA FactIsBuilt ==
  ASSUME [Next]_vars, "fact" \in built' \ built
  PROVE  \E ok \in BOOLEAN : BuildFact(ok)
<1>1. (\E n \in Nodes, ok \in BOOLEAN : Build(n, ok)) \/ UNCHANGED built
  BY DEF Next, vars, Launch, Publish, Reenter, LandGp, LandCat, LoadGp, LoadCat, StartRun,
         Progress, Error, Unbuildable, Skip, Kill, tables
<1>2. PICK n \in Nodes, ok \in BOOLEAN : Build(n, ok)
  BY <1>1
<1>3. ~BuildElset(ok) /\ ~BuildObject(ok) /\ ~BuildDim(ok)
  BY DEF BuildElset, BuildObject, BuildDim
<1>4. QED
  BY <1>2, <1>3, NodeSteps

\* A whole build never serves what its catalogue calls re-entered, for any number of
\* landings loaded meanwhile and nodes failed before.
THEOREM GateHolds == Spec => ServesNoKnownDecay
<1> DEFINE Holds == ("fact" \in built' \ built) =>
             \A e \in Propagatable', f \in seen : <<e.sat, "decayed">> \notin cat[f]
<1>1. WarehouseInv /\ [Next]_vars => Holds
  <2> SUFFICES ASSUME WarehouseInv, [Next]_vars, "fact" \in built' \ built,
                      NEW e \in Propagatable', NEW f \in seen, <<e.sat, "decayed">> \in cat[f]
               PROVE  FALSE
    OBVIOUS
  <2>1. PICK ok \in BOOLEAN : BuildFact(ok)
    BY FactIsBuilt
  <2>2. \A d \in dim_object : KnownDecayed(d.sat) => d.is_decayed
    BY <2>1 DEF BuildFact, Ready, Refs, WarehouseInv, GateInv
  <2>3. PICK d \in dim_object : d.sat = e.sat /\ ~d.is_decayed
    BY <2>1 DEF BuildFact, Propagatable
  <2>4. QED
    BY <2>2, <2>3 DEF KnownDecayed
<1>2. QED
  BY <1>1, WarehouseInvariant, PTL DEF Spec, ServesNoKnownDecay

\* A whole build leaves out nothing that was known to be in Earth orbit when it began and that
\* no loaded landing calls re-entered (fact_propagatable_elset.sql:69-75): by the time the view
\* is made, the tables it joins were built from that landing or a newer one.
THEOREM GateLetsThrough == Spec => ServesWhatIsInOrbit
<1> DEFINE Open(e, f) == /\ e.valid_to = Null /\ Center[e.sat] # "SUN"
                         /\ <<e.sat, "orbit">> \in cat[f]
                         /\ \A g \in rawCat : <<e.sat, "decayed">> \notin cat[g]
           Serves == ("fact" \in built' \ built) =>
                       \A e \in elset, f \in seen : Open(e, f) => e \in Propagatable'
<1>1. WarehouseInv /\ [Next]_vars => Serves
  <2> SUFFICES ASSUME WarehouseInv, [Next]_vars, "fact" \in built' \ built,
                      NEW e \in elset, NEW f \in seen, Open(e, f)
               PROVE  e \in Propagatable'
    OBVIOUS
  <2>1. PICK ok \in BOOLEAN : BuildFact(ok)
    BY FactIsBuilt
  <2>2. e.sat \in Sats
    BY DEF WarehouseInv, TypeOK
  <2>3. PICK d \in dim_object : d.sat = e.sat
    BY <2>1, <2>2 DEF BuildFact, Ready, Refs, WarehouseInv, CoverInv, KnownAloft
  <2>4. ~d.is_decayed
    BY <2>3 DEF WarehouseInv, SourcedInv, CalledDecayed
  <2>5. d.is_earth_orbiting
    <3>1. Center[e.sat] \in {"EA", "HOST"}
      BY <2>2, WarehouseAssumption
    <3>2. EarthOrbiting(e.sat)
      BY <3>1 DEF EarthOrbiting
    <3>3. d.is_earth_orbiting = EarthOrbiting(e.sat)
      BY <2>3 DEF WarehouseInv, SourcedInv
    <3>4. QED
      BY <3>2, <3>3
  <2>6. UNCHANGED <<elset, dim_object>>
    BY <2>1 DEF BuildFact
  <2>7. QED
    BY <2>3, <2>4, <2>5, <2>6 DEF Propagatable
<1>2. QED
  BY <1>1, WarehouseInvariant, PTL DEF Spec, ServesWhatIsInOrbit
=============================================================================
