------------------------ MODULE CelestrakClientProofs ------------------------
(***************************************************************************)
(* The cache of the CelesTrak client, with the ledger and the landing zone *)
(* it is composed of, for any number of commands, targets and landings.    *)
(* What a conditional request may revalidate holds whoever runs beside it; *)
(* that a window is kept and that the newest file holds the newest content *)
(* is proved for commands that fetch different targets.                    *)
(***************************************************************************)
EXTENDS CelestrakClient, TLAPS

\* The stage of a writer fixes what its own files look like, and no two writers
\* share a name.
WritersOwnTheirFiles ==
  /\ \A p \in Procs :
       /\ stage[p] # "idle" => held[p] \in Names
       /\ stage[p] = "payload" => payload[held[p]] = "partial" /\ sidecar[held[p]] = "absent"
       /\ stage[p] = "sidecar" => payload[held[p]] = "complete" /\ sidecar[held[p]] = "absent"
       /\ stage[p] = "seal" => payload[held[p]] = "complete" /\ sidecar[held[p]] = "partial"
  /\ \A p, q \in Procs :
       p # q /\ stage[p] # "idle" /\ stage[q] # "idle" => held[p] # held[q]

ZoneInv == Zone!ZoneTypeOK /\ WritersOwnTheirFiles /\ Zone!SealedIsComplete

\* A landing is of a target, has a content, and a tag that names no other.
LandingsFit ==
  \A n \in Zone!Landed :
    /\ target[n] \in Targets
    /\ content[n] \in Contents
    /\ tag[n] \in {content[n], None}

\* n has the greatest mtime of the landings of t.
IsLatest(t, n) == n \in LandingsOf(t) /\ LandingsOf(t) \ {n} \subseteq older[n]

\* The landings of a target have a newest one, and only one.
MtimesOrdered ==
  /\ \A m, n \in Names : m \in older[n] => n \notin older[m]
  /\ \A t \in Targets : LandingsOf(t) # {} => \E n \in Names : IsLatest(t, n)

\* No landing of a target is younger than its newest.
AgesFit ==
  \A t \in Targets : \A m, n \in Names :
    IsLatest(t, m) /\ n \in LandingsOf(t) => age[m] <= age[n]

\* What a command holds in its locals.
Locals(p) ==
  /\ step[p] = "idle" => etag[p] = None
  /\ step[p] # "idle" => want[p] \in Targets /\ want[p] \in Serves[p]
  /\ stage[p] # "idle" <=> step[p] = "landing"
  /\ step[p] = "landing" => target[held[p]] = want[p]
  /\ cached[p] # None => cached[p] \in LandingsOf(want[p])
  /\ etag[p] # None => /\ cached[p] # None
                       /\ payload[cached[p]] = "complete"
                       /\ content[cached[p]] = etag[p]
  /\ step[p] = "touching" => etag[p] # None
  /\ step[p] \in {"idle", "looked", "asking", "touching"} => answer[p] = NoAnswer
  /\ answer[p].tag \in {answer[p].content, None}

ClientInv ==
  /\ TypeOK
  /\ ZoneInv
  /\ LandingsFit
  /\ MtimesOrdered
  /\ AgesFit
  /\ \A p \in Procs : Locals(p)

-----------------------------------------------------------------------------
LEMMA LongestIsNat == Longest \in Nat
<1>1. PICK t \in Targets : \A u \in Targets : Ttl[u] <= Ttl[t]
  BY ClientAssumption
<1>2. \E h \in {Ttl[u] : u \in Targets} : \A u \in Targets : Ttl[u] <= h
  BY <1>1
<1>3. Longest \in {Ttl[u] : u \in Targets}
  BY <1>2 DEF Longest
<1>4. QED
  BY <1>3, ClientAssumption

LEMMA ClientInvInit == Init => ClientInv
<1> SUFFICES ASSUME Init PROVE ClientInv
  OBVIOUS
<1>1. ZoneInv
  BY DEF Init, Zone!ZoneInit, ZoneInv, Zone!ZoneTypeOK, WritersOwnTheirFiles,
         Zone!SealedIsComplete, Zone!FileStates, Zone!Stages
<1>2. Ledger!TypeOK
  BY ClientAssumption DEF Init, Ledger!Init, Ledger!TypeOK, Ledger!Phases, Ledger!Texts
<1>3. TypeOK
  BY <1>1, <1>2, LongestIsNat, ClientAssumption DEF Init, ZoneInv, TypeOK, Steps, NoAnswer
<1>4. \A t : LandingsOf(t) = {}
  BY DEF Init, Zone!ZoneInit, LandingsOf, Zone!Landed
<1>5. LandingsFit /\ MtimesOrdered /\ AgesFit
  BY <1>4 DEF Init, Zone!ZoneInit, LandingsFit, MtimesOrdered, AgesFit, IsLatest, Zone!Landed
<1>6. \A p \in Procs : Locals(p)
  BY DEF Init, Zone!ZoneInit, Locals, NoAnswer
<1>7. QED
  BY <1>1, <1>3, <1>5, <1>6 DEF ClientInv

\* What is proved of the ledger alone.
LedgerFacts == INSTANCE VolumeLedgerProofs

\* Every step of the client is a step of its ledger, or leaves it alone.
LEMMA LedgerSimulation == [Next]_vars => [Ledger!Next]_ledgerVars
<1> SUFFICES ASSUME [Next]_vars PROVE [Ledger!Next]_ledgerVars
  OBVIOUS
<1>1. ASSUME NewDay PROVE Ledger!Next
  BY <1>1 DEF NewDay, Ledger!Next
<1>2. ASSUME NEW p \in Procs, Ask(p) \/ AnswerUnchanged(p) \/ Record(p) PROVE Ledger!Step(p)
  BY <1>2 DEF Ask, AnswerUnchanged, Record, Ledger!Step
<1>3. ASSUME NEW p \in Procs, NEW n \in 0..MaxSize,
             AnswerData(p, n) \/ AnswerNoData(p, n) \/ AnswerFails(p, n)
      PROVE  Ledger!Step(p)
  BY <1>3 DEF AnswerData, AnswerNoData, AnswerFails, Ledger!Step
<1>4. ASSUME NEW p \in Procs, Kill(p) PROVE Ledger!Step(p) \/ UNCHANGED ledgerVars
  BY <1>4 DEF Kill, Ledger!Step
<1>5. ASSUME NEW p \in Procs,
             \/ Halt(p) \/ RejectNoData(p) \/ FinishPayload(p) \/ StartSidecar(p)
             \/ FinishSidecar(p) \/ Touch(p)
             \/ (\E t \in Targets : Miss(p, t)) \/ (\E n \in Names : Land(p, n))
      PROVE  UNCHANGED ledgerVars
  BY <1>5 DEF Halt, RejectNoData, FinishPayload, StartSidecar, FinishSidecar, Touch, Miss, Land
<1>6. ASSUME Tick \/ (\E t \in Targets : Publish(t)) \/ UNCHANGED vars
      PROVE  UNCHANGED ledgerVars
  BY <1>6 DEF Tick, Publish, vars
<1>7. QED
  BY <1>1, <1>2, <1>3, <1>4, <1>5, <1>6 DEF Next, ClientStep, Ledger!Next

\* The ledger of the facts is the client's.
LEMMA SameLedger ==
  /\ Ledger!Init <=> LedgerFacts!Init
  /\ [Ledger!Next]_ledgerVars <=> [LedgerFacts!Next]_(LedgerFacts!vars)
  /\ LedgerFacts!LedgerAssumption
<1>1. Ledger!Init <=> LedgerFacts!Init
  BY DEF Ledger!Init, LedgerFacts!Init
<1>2. \A p : Ledger!Step(p) <=> LedgerFacts!Step(p)
  BY Zenon DEF Ledger!Step, LedgerFacts!Step, Ledger!Check, LedgerFacts!Check,
         Ledger!NotModified, LedgerFacts!NotModified, Ledger!ReadBack, LedgerFacts!ReadBack,
         Ledger!Truncate, LedgerFacts!Truncate, Ledger!Write, LedgerFacts!Write,
         Ledger!Crash, LedgerFacts!Crash, Ledger!Receive, LedgerFacts!Receive,
         Ledger!LoseAnswer, LedgerFacts!LoseAnswer, Ledger!Leave, LedgerFacts!Leave,
         Ledger!BudgetSpent, LedgerFacts!BudgetSpent, Ledger!UsedToday, LedgerFacts!UsedToday
<1>3. Ledger!Midnight <=> LedgerFacts!Midnight
  BY DEF Ledger!Midnight, LedgerFacts!Midnight
<1>4. LedgerFacts!LedgerAssumption
  BY ClientAssumption DEF LedgerFacts!LedgerAssumption
<1>5. QED
  BY <1>1, <1>2, <1>3, <1>4 DEF Ledger!Next, LedgerFacts!Next, ledgerVars, LedgerFacts!vars

\* The ledger keeps its types whatever the client does with it.
LEMMA LedgerTypes == Ledger!TypeOK /\ [Next]_vars => Ledger!TypeOK'
<1>1. Ledger!TypeOK <=> LedgerFacts!TypeOK
  BY DEF Ledger!TypeOK, LedgerFacts!TypeOK, Ledger!Phases, LedgerFacts!Phases,
         Ledger!Texts, LedgerFacts!Texts
<1>2. Ledger!TypeOK' <=> LedgerFacts!TypeOK'
  BY DEF Ledger!TypeOK, LedgerFacts!TypeOK, Ledger!Phases, LedgerFacts!Phases,
         Ledger!Texts, LedgerFacts!Texts
<1>3. QED
  BY <1>1, <1>2, SameLedger, LedgerSimulation, LedgerFacts!TypeStep

\* Every step of the client is a step of its landing zone, or leaves it alone.
LEMMA ZoneSimulation == ClientInv /\ [Next]_vars => [Zone!ZoneNext]_zoneVars
<1> SUFFICES ASSUME ClientInv, [Next]_vars PROVE [Zone!ZoneNext]_zoneVars
  OBVIOUS
<1>1. ASSUME NEW p \in Procs, NEW n \in Names, Land(p, n) PROVE Zone!ZoneStep(p)
  <2>1. /\ want[p] \in Targets /\ answer[p].content \in Contents
        /\ answer[p].tag \in Contents \union {None}
        /\ answer[p].tag \in {answer[p].content, None}
    BY <1>1 DEF Land, ClientInv, TypeOK, Locals
  <2>2. Zone!OpenPayload(p, n, want[p], answer[p].content, answer[p].tag)
    BY <1>1 DEF Land
  <2>3. QED
    BY <2>1, <2>2 DEF Zone!ZoneStep
<1>2. ASSUME NEW p \in Procs,
             FinishPayload(p) \/ StartSidecar(p) \/ FinishSidecar(p) \/ Kill(p)
      PROVE  Zone!ZoneStep(p) \/ UNCHANGED zoneVars
  BY <1>2 DEF FinishPayload, StartSidecar, FinishSidecar, Kill, Zone!ZoneStep
<1>3. ASSUME NEW p \in Procs,
             \/ Halt(p) \/ Ask(p) \/ AnswerUnchanged(p) \/ Record(p) \/ RejectNoData(p)
             \/ Touch(p) \/ (\E t \in Targets : Miss(p, t))
             \/ \E n \in 0..MaxSize : AnswerData(p, n) \/ AnswerNoData(p, n) \/ AnswerFails(p, n)
      PROVE  UNCHANGED zoneVars
  BY <1>3 DEF Halt, Ask, AnswerUnchanged, Record, RejectNoData, Touch, Miss, AnswerData,
              AnswerNoData, AnswerFails
<1>4. ASSUME Tick \/ NewDay \/ (\E t \in Targets : Publish(t)) \/ UNCHANGED vars
      PROVE  UNCHANGED zoneVars
  BY <1>4 DEF Tick, NewDay, Publish, vars
<1>5. QED
  BY <1>1, <1>2, <1>3, <1>4 DEF Next, ClientStep, Zone!ZoneNext

LEMMA ZoneInvStep == ZoneInv /\ [Zone!ZoneNext]_zoneVars => ZoneInv'
<1> SUFFICES ASSUME ZoneInv, [Zone!ZoneNext]_zoneVars PROVE ZoneInv'
  OBVIOUS
<1> USE DEF ZoneInv, Zone!ZoneTypeOK, Zone!FileStates, Zone!Stages, WritersOwnTheirFiles,
            Zone!SealedIsComplete
<1>1. CASE UNCHANGED zoneVars
  BY <1>1 DEF zoneVars
<1>2. ASSUME NEW p \in Procs, Zone!ZoneStep(p) PROVE ZoneInv'
  <2>1. ASSUME NEW n \in Names, NEW t \in Targets, NEW c \in Contents,
               NEW e \in Contents \union {None}, Zone!OpenPayload(p, n, t, c, e)
        PROVE  ZoneInv'
    <3>1. Zone!ZoneTypeOK'
      BY <2>1 DEF Zone!OpenPayload, Zone!Landed
    <3>2. Zone!SealedIsComplete'
      BY <2>1 DEF Zone!OpenPayload, Zone!Landed
    <3>3. WritersOwnTheirFiles'
      BY <2>1 DEF Zone!OpenPayload, Zone!Landed
    <3>4. QED
      BY <3>1, <3>2, <3>3
  <2>2. CASE Zone!ClosePayload(p)
    BY <2>2 DEF Zone!ClosePayload
  <2>3. CASE Zone!OpenSidecar(p)
    BY <2>3 DEF Zone!OpenSidecar
  <2>4. CASE Zone!CloseSidecar(p)
    BY <2>4 DEF Zone!CloseSidecar
  <2>5. CASE Zone!Abandon(p)
    BY <2>5 DEF Zone!Abandon
  <2>6. QED
    BY <1>2, <2>1, <2>2, <2>3, <2>4, <2>5 DEF Zone!ZoneStep
<1>3. QED
  BY <1>1, <1>2 DEF Zone!ZoneNext

\* What a landing is stays as it is.
Kept(n) ==
  /\ n \in Zone!Landed'
  /\ target'[n] = target[n] /\ content'[n] = content[n] /\ tag'[n] = tag[n]
  /\ payload[n] = "complete" => payload'[n] = "complete"

LEMMA ZoneKeeps ==
  ASSUME ZoneInv, [Zone!ZoneNext]_zoneVars, NEW n \in Zone!Landed
  PROVE  Kept(n)
<1> USE DEF ZoneInv, Zone!ZoneTypeOK, Zone!FileStates, Zone!Stages, WritersOwnTheirFiles,
            Zone!Landed, Kept
<1>1. CASE UNCHANGED zoneVars
  BY <1>1 DEF zoneVars
<1>2. ASSUME NEW p \in Procs, Zone!ZoneStep(p) PROVE Kept(n)
  <2>1. ASSUME NEW m \in Names, NEW t \in Targets, NEW c \in Contents,
               NEW e \in Contents \union {None}, Zone!OpenPayload(p, m, t, c, e)
        PROVE  Kept(n)
    BY <2>1 DEF Zone!OpenPayload
  <2>2. CASE Zone!ClosePayload(p)
    BY <2>2 DEF Zone!ClosePayload
  <2>3. CASE Zone!OpenSidecar(p)
    BY <2>3 DEF Zone!OpenSidecar
  <2>4. CASE Zone!CloseSidecar(p)
    BY <2>4 DEF Zone!CloseSidecar
  <2>5. CASE Zone!Abandon(p)
    BY <2>5 DEF Zone!Abandon
  <2>6. QED
    BY <1>2, <2>1, <2>2, <2>3, <2>4, <2>5 DEF Zone!ZoneStep
<1>3. QED
  BY <1>1, <1>2 DEF Zone!ZoneNext

LEMMA SealsStay ==
  ASSUME ZoneInv, [Zone!ZoneNext]_zoneVars, NEW n \in Zone!Sealed
  PROVE  sidecar'[n] = "complete"
<1> USE DEF ZoneInv, Zone!ZoneTypeOK, Zone!Stages, WritersOwnTheirFiles, Zone!Sealed
<1>1. ASSUME NEW p \in Procs, Zone!ZoneStep(p) PROVE sidecar'[n] = "complete"
  BY <1>1 DEF Zone!ZoneStep, Zone!OpenPayload, Zone!ClosePayload, Zone!OpenSidecar,
              Zone!CloseSidecar, Zone!Abandon
<1>2. QED
  BY <1>1 DEF Zone!ZoneNext, zoneVars

LEMMA LandingsStay ==
  ASSUME ZoneInv, [Zone!ZoneNext]_zoneVars, NEW t, NEW n \in LandingsOf(t)
  PROVE  n \in LandingsOf(t)' /\ n \in Names /\ Kept(n)
<1>1. n \in Zone!Landed /\ target[n] = t /\ n \in Names
  BY DEF LandingsOf, Zone!Landed
<1>2. Kept(n)
  BY <1>1, ZoneKeeps
<1>3. QED
  BY <1>1, <1>2 DEF Kept, LandingsOf

-----------------------------------------------------------------------------
\* The newest landing is the one that Latest finds.
LEMMA LatestIsFound ==
  ASSUME MtimesOrdered, NEW t \in Targets, NEW n \in Names
  PROVE  IsLatest(t, n) <=> LandingsOf(t) # {} /\ Latest(t) = n
<1>1. ASSUME NEW m \in Names, NEW k \in Names, IsLatest(t, m), IsLatest(t, k) PROVE m = k
  BY <1>1 DEF IsLatest, MtimesOrdered
<1>2. ASSUME LandingsOf(t) # {} PROVE Latest(t) \in Names /\ IsLatest(t, Latest(t))
  <2>1. \E k \in LandingsOf(t) : LandingsOf(t) \ {k} \subseteq older[k]
    BY <1>2 DEF MtimesOrdered, IsLatest
  <2>2. /\ Latest(t) \in LandingsOf(t)
        /\ LandingsOf(t) \ {Latest(t)} \subseteq older[Latest(t)]
    BY <1>2, <2>1 DEF Latest
  <2>3. QED
    BY <2>2 DEF IsLatest, LandingsOf, Zone!Landed
<1>3. ASSUME IsLatest(t, n) PROVE LandingsOf(t) # {}
  BY <1>3 DEF IsLatest
<1>4. QED
  BY <1>1, <1>2, <1>3

LEMMA NoneLatest ==
  ASSUME NEW t \in Targets, MtimesOrdered
  PROVE  Latest(t) = None <=> LandingsOf(t) = {}
<1>1. LandingsOf(t) = {} => Latest(t) = None
  BY DEF Latest
<1>2. ASSUME LandingsOf(t) # {} PROVE Latest(t) # None
  <2>1. PICK n \in Names : IsLatest(t, n)
    BY <1>2 DEF MtimesOrdered
  <2>2. Latest(t) = n
    BY <2>1, LatestIsFound
  <2>3. QED
    BY <2>2, ClientAssumption
<1>3. QED
  BY <1>1, <1>2

\* What Latest depends on.
Newest(S, earlier) == IF S = {} THEN None ELSE CHOOSE n \in S : S \ {n} \subseteq earlier[n]

\* A step that writes no landing and touches none leaves every target's newest.
Quiet == UNCHANGED <<payload, target, content, tag, older, age>>

LEMMA QuietKeeps ==
  ASSUME ClientInv, Quiet
  PROVE  /\ LandingsFit' /\ MtimesOrdered' /\ AgesFit'
         /\ Zone!Landed' = Zone!Landed
         /\ \A t : LandingsOf(t)' = LandingsOf(t) /\ Latest(t)' = Latest(t)
         /\ \A t, n : IsLatest(t, n)' <=> IsLatest(t, n)
<1>1. Zone!Landed' = Zone!Landed
  BY DEF Quiet, Zone!Landed
<1>2. \A t : LandingsOf(t)' = LandingsOf(t)
  BY <1>1 DEF Quiet, LandingsOf
<1>3. older' = older /\ age' = age /\ target' = target /\ content' = content /\ tag' = tag
  BY DEF Quiet
<1>4. \A t : Latest(t)' = Latest(t)
  <2>1. \A t : Latest(t) = Newest(LandingsOf(t), older)
    BY DEF Latest, Newest
  <2>2. \A t : Latest(t)' = Newest(LandingsOf(t)', older')
    BY DEF Latest, Newest
  <2>3. QED
    BY <1>2, <1>3, <2>1, <2>2
<1>5. \A t, n : IsLatest(t, n)' <=> IsLatest(t, n)
  BY <1>2, <1>3 DEF IsLatest
<1>6. LandingsFit'
  BY <1>1, <1>3 DEF ClientInv, LandingsFit
<1>7. MtimesOrdered' /\ AgesFit'
  BY <1>2, <1>3, <1>5 DEF ClientInv, MtimesOrdered, AgesFit
<1>8. QED
  BY <1>1, <1>2, <1>4, <1>5, <1>6, <1>7

-----------------------------------------------------------------------------
\* The types of what the client adds to its parts.
ClientTypes ==
  /\ upstream \in [Targets -> Contents]
  /\ older \in [Names -> SUBSET Names]
  /\ age \in [Names -> 0..Longest]
  /\ step \in [Procs -> Steps]
  /\ want \in [Procs -> Targets \union {None}]
  /\ cached \in [Procs -> Names \union {None}]
  /\ etag \in [Procs -> Contents \union {None}]
  /\ answer \in [Procs -> [content : Contents \union {None}, tag : Contents \union {None}]]

LEMMA PartsOfTypes ==
  ASSUME ClientInv
  PROVE  ClientTypes /\ Ledger!TypeOK /\ ZoneInv /\ Zone!ZoneTypeOK
BY DEF ClientInv, TypeOK, ClientTypes, ZoneInv

\* The ledger and the zone keep their own invariants.
LEMMA PartsKeep ==
  ASSUME ClientInv, [Next]_vars
  PROVE  [Zone!ZoneNext]_zoneVars /\ ZoneInv' /\ (ClientTypes' => TypeOK')
<1>1. [Zone!ZoneNext]_zoneVars /\ ZoneInv'
  BY ZoneSimulation, ZoneInvStep, PartsOfTypes
<1>2. Ledger!TypeOK'
  BY LedgerTypes, PartsOfTypes
<1>3. QED
  BY <1>1, <1>2 DEF TypeOK, ClientTypes, ZoneInv

\* The locals of a command other than p are left alone.
OthersStay(p) ==
  \A q \in Procs \ {p} :
    /\ step'[q] = step[q] /\ want'[q] = want[q] /\ cached'[q] = cached[q]
    /\ etag'[q] = etag[q] /\ answer'[q] = answer[q]
    /\ stage'[q] = stage[q] /\ held'[q] = held[q]

\* They then still describe landings, whatever is landed meanwhile.
LEMMA LocalsStay ==
  ASSUME ClientInv, [Zone!ZoneNext]_zoneVars, NEW q \in Procs,
         step'[q] = step[q], want'[q] = want[q], cached'[q] = cached[q],
         etag'[q] = etag[q], answer'[q] = answer[q],
         stage'[q] = "idle" <=> stage[q] = "idle", held'[q] = held[q]
  PROVE  Locals(q)'
<1>1. Locals(q) /\ ZoneInv
  BY DEF ClientInv
<1>2. ASSUME step[q] = "landing" PROVE target'[held[q]] = want[q]
  <2>1. held[q] \in Zone!Landed
    BY <1>1, <1>2
       DEF Locals, ZoneInv, WritersOwnTheirFiles, Zone!Landed, Zone!ZoneTypeOK, Zone!Stages
  <2>2. QED
    BY <1>1, <1>2, <2>1, ZoneKeeps DEF Locals, Kept
<1>3. ASSUME cached[q] # None
      PROVE  /\ cached[q] \in LandingsOf(want[q])' /\ content'[cached[q]] = content[cached[q]]
             /\ payload[cached[q]] = "complete" => payload'[cached[q]] = "complete"
  BY <1>1, <1>3, LandingsStay DEF Locals, Kept
<1>4. LandingsOf(want[q])' = {n \in Zone!Landed' : target'[n] = want[q]}
  BY DEF LandingsOf
<1>5. ASSUME cached[q] # None PROVE cached'[q] \in LandingsOf(want[q])'
  BY <1>3, <1>5
<1>6. QED
  BY <1>1, <1>2, <1>3, <1>5 DEF Locals, NoAnswer

LEMMA ReturnEnds ==
  ASSUME ClientTypes, NEW p \in Procs, Return(p), stage'[p] = "idle"
  PROVE  /\ Locals(p)'
         /\ \A q \in Procs \ {p} :
              /\ step'[q] = step[q] /\ want'[q] = want[q] /\ cached'[q] = cached[q]
              /\ etag'[q] = etag[q] /\ answer'[q] = answer[q]
         /\ step' \in [Procs -> Steps]
         /\ want' \in [Procs -> Targets \union {None}]
         /\ cached' \in [Procs -> Names \union {None}]
         /\ etag' \in [Procs -> Contents \union {None}]
         /\ answer' \in [Procs -> [content : Contents \union {None}, tag : Contents \union {None}]]
<1>1. /\ step'[p] = "idle" /\ want'[p] = None /\ cached'[p] = None /\ etag'[p] = None
      /\ answer'[p] = NoAnswer
  BY DEF ClientTypes, Return
<1>2. Locals(p)'
  BY <1>1 DEF Locals, NoAnswer
<1>3. \A q \in Procs \ {p} :
        /\ step'[q] = step[q] /\ want'[q] = want[q] /\ cached'[q] = cached[q]
        /\ etag'[q] = etag[q] /\ answer'[q] = answer[q]
  BY DEF ClientTypes, Return
<1>4. /\ step' \in [Procs -> Steps]
      /\ want' \in [Procs -> Targets \union {None}]
      /\ cached' \in [Procs -> Names \union {None}]
      /\ etag' \in [Procs -> Contents \union {None}]
      /\ answer' \in [Procs -> [content : Contents \union {None}, tag : Contents \union {None}]]
  BY DEF ClientTypes, Return, Steps, NoAnswer
<1>5. QED
  BY <1>2, <1>3, <1>4

\* A quiet step keeps the invariant when it fits the command that takes it.
LEMMA QuietStep ==
  ASSUME ClientInv, [Next]_vars, Quiet, ClientTypes', NEW p \in Procs,
         Locals(p)', OthersStay(p)
  PROVE  ClientInv'
<1>1. ZoneInv' /\ TypeOK' /\ [Zone!ZoneNext]_zoneVars
  BY PartsKeep
<1>2. LandingsFit' /\ MtimesOrdered' /\ AgesFit'
  BY QuietKeeps
<1>3. ASSUME NEW q \in Procs \ {p} PROVE Locals(q)'
  BY <1>1, LocalsStay DEF OthersStay
<1>4. QED
  BY <1>1, <1>2, <1>3 DEF ClientInv

\* A step in which nothing of the client changes but the ledger, the feeds and the ages.
LEMMA IdleStep ==
  ASSUME ClientInv, [Next]_vars, UNCHANGED <<zoneVars, older, step, want, cached, etag, answer>>,
         ClientTypes', AgesFit'
  PROVE  ClientInv'
<1>1. ZoneInv' /\ TypeOK' /\ [Zone!ZoneNext]_zoneVars
  BY PartsKeep
<1>2. Zone!Landed' = Zone!Landed /\ (\A t : LandingsOf(t)' = LandingsOf(t))
  BY DEF zoneVars, Zone!Landed, LandingsOf
<1>3. LandingsFit'
  BY <1>2 DEF ClientInv, LandingsFit, zoneVars
<1>4. MtimesOrdered'
  BY <1>2 DEF ClientInv, MtimesOrdered, IsLatest
<1>5. ASSUME NEW q \in Procs PROVE Locals(q)'
  BY <1>1, LocalsStay DEF zoneVars
<1>6. QED
  BY <1>1, <1>3, <1>4, <1>5 DEF ClientInv

\* The commands' steps that only look, ask and return.
LEMMA MissKeeps ==
  ASSUME ClientInv, NEW p \in Procs, NEW t \in Targets, Miss(p, t), [Next]_vars
  PROVE  ClientInv'
<1>1. ClientTypes /\ ZoneInv /\ Zone!ZoneTypeOK /\ Locals(p)
  BY PartsOfTypes DEF ClientInv
<1>2. /\ step[p] = "idle" /\ t \in Serves[p]
      /\ step' = [step EXCEPT ![p] = "looked"]
      /\ want' = [want EXCEPT ![p] = t]
      /\ cached' = [cached EXCEPT ![p] = Latest(t)]
      /\ etag' = [etag EXCEPT ![p] = IF Latest(t) = None THEN None ELSE Zone!TagOf(Latest(t))]
      /\ UNCHANGED <<ledgerVars, zoneVars, upstream, older, age, answer>>
  BY DEF Miss
<1>3. Quiet /\ OthersStay(p)
  BY <1>1, <1>2 DEF Quiet, OthersStay, zoneVars, ClientTypes
<1>4. ASSUME Latest(t) # None
      PROVE  /\ Latest(t) \in Names /\ Latest(t) \in LandingsOf(t)
             /\ Zone!TagOf(Latest(t)) \in Contents \union {None}
             /\ Zone!TagOf(Latest(t)) # None =>
                  /\ payload[Latest(t)] = "complete"
                  /\ content[Latest(t)] = Zone!TagOf(Latest(t))
  <2>1. PICK n \in Names : IsLatest(t, n)
    BY <1>4, NoneLatest DEF ClientInv, MtimesOrdered
  <2>2. Latest(t) = n /\ n \in LandingsOf(t) /\ n \in Zone!Landed
    BY <2>1, LatestIsFound DEF ClientInv, IsLatest, LandingsOf
  <2>3. tag[n] \in {content[n], None} /\ tag[n] \in Contents \union {None}
    BY <1>1, <2>2 DEF ClientInv, LandingsFit, Zone!ZoneTypeOK
  <2>4. n \in Zone!Sealed => payload[n] = "complete"
    BY <1>1 DEF ZoneInv, Zone!SealedIsComplete, Zone!Sealed
  <2>5. QED
    BY <2>1, <2>2, <2>3, <2>4 DEF Zone!TagOf
<1>5. ClientTypes'
  <2>1. Latest(t) \in Names \union {None}
    BY <1>4
  <2>2. (IF Latest(t) = None THEN None ELSE Zone!TagOf(Latest(t))) \in Contents \union {None}
    BY <1>4
  <2>3. QED
    BY <1>1, <1>2, <2>1, <2>2 DEF ClientTypes, Steps
<1>6. Locals(p)'
  <2>1. /\ step'[p] = "looked" /\ want'[p] = t /\ cached'[p] = Latest(t)
        /\ etag'[p] = IF Latest(t) = None THEN None ELSE Zone!TagOf(Latest(t))
        /\ answer'[p] = NoAnswer /\ stage'[p] = "idle"
    BY <1>1, <1>2 DEF ClientTypes, Locals, zoneVars, Zone!ZoneTypeOK
  <2>2. LandingsOf(want[p])' = LandingsOf(t)
    BY <1>2, <2>1 DEF LandingsOf, Zone!Landed, zoneVars
  <2>3. payload' = payload /\ content' = content
    BY <1>2 DEF zoneVars
  <2>4. QED
    BY <1>2, <1>4, <2>1, <2>2, <2>3 DEF Locals, NoAnswer
<1>7. QED
  BY <1>3, <1>5, <1>6, QuietStep

\* A command that returns or dies with no landing of its own open any more.
LEMMA EndKeeps ==
  ASSUME ClientInv, [Next]_vars, NEW p \in Procs, Return(p), Quiet,
         upstream' = upstream, stage'[p] = "idle",
         \A q \in Procs \ {p} : stage'[q] = stage[q] /\ held'[q] = held[q]
  PROVE  ClientInv'
<1>1. ClientTypes
  BY PartsOfTypes
<1>2. Locals(p)' /\ OthersStay(p)
  BY <1>1, ReturnEnds DEF OthersStay
<1>3. ClientTypes'
  BY <1>1, ReturnEnds DEF ClientTypes, Quiet
<1>4. QED
  BY <1>2, <1>3, QuietStep

LEMMA ReturnsKeep ==
  ASSUME ClientInv, [Next]_vars, NEW p \in Procs,
         \/ Halt(p) \/ RejectNoData(p) \/ FinishSidecar(p) \/ Kill(p)
         \/ \E n \in 0..MaxSize : AnswerFails(p, n)
  PROVE  ClientInv'
<1>1. Locals(p) /\ Zone!ZoneTypeOK
  BY PartsOfTypes DEF ClientInv
<1>2. ASSUME \/ Halt(p) \/ RejectNoData(p) \/ \E n \in 0..MaxSize : AnswerFails(p, n)
      PROVE  /\ Return(p) /\ step[p] \in {"looked", "answered", "asking"}
             /\ UNCHANGED <<zoneVars, upstream, older, age>>
  BY <1>2 DEF Halt, RejectNoData, AnswerFails
<1>3. CASE \/ Halt(p) \/ RejectNoData(p) \/ \E n \in 0..MaxSize : AnswerFails(p, n)
  <2>1. stage[p] = "idle"
    BY <1>1, <1>2, <1>3 DEF Locals
  <2>2. QED
    BY <1>2, <1>3, <2>1, EndKeeps DEF Quiet, zoneVars
<1>4. CASE FinishSidecar(p)
  <2>1. /\ Return(p) /\ Zone!CloseSidecar(p) /\ UNCHANGED <<upstream, older, age>>
    BY <1>4 DEF FinishSidecar
  <2>2. /\ Quiet /\ stage'[p] = "idle"
        /\ \A q \in Procs \ {p} : stage'[q] = stage[q] /\ held'[q] = held[q]
    BY <1>1, <2>1 DEF Zone!CloseSidecar, Zone!ZoneTypeOK, Quiet
  <2>3. QED
    BY <2>1, <2>2, EndKeeps
<1>5. CASE Kill(p)
  <2>1. /\ Return(p) /\ UNCHANGED <<upstream, older, age>>
        /\ IF stage[p] # "idle" THEN Zone!Abandon(p) ELSE UNCHANGED zoneVars
    BY <1>5 DEF Kill
  <2>2. /\ Quiet /\ stage'[p] = "idle"
        /\ \A q \in Procs \ {p} : stage'[q] = stage[q] /\ held'[q] = held[q]
    BY <1>1, <2>1 DEF Zone!Abandon, Zone!ZoneTypeOK, Quiet, zoneVars
  <2>3. QED
    BY <2>1, <2>2, EndKeeps
<1>6. QED
  BY <1>3, <1>4, <1>5

LEMMA AsksKeep ==
  ASSUME ClientInv, [Next]_vars, NEW p \in Procs,
         Ask(p) \/ Record(p) \/ StartSidecar(p) \/ AnswerUnchanged(p)
  PROVE  ClientInv'
<1>1. ClientTypes /\ Zone!ZoneTypeOK /\ Locals(p)
  BY PartsOfTypes DEF ClientInv
<1>2. CASE Ask(p)
  <2>1. /\ step[p] = "looked" /\ step' = [step EXCEPT ![p] = "asking"]
        /\ UNCHANGED <<zoneVars, upstream, older, age, want, cached, etag, answer>>
    BY <1>2 DEF Ask
  <2>2. Quiet /\ OthersStay(p) /\ ClientTypes'
    BY <1>1, <2>1 DEF Quiet, OthersStay, ClientTypes, Steps, zoneVars
  <2>3. Locals(p)'
    <3>1. step'[p] = "asking"
      BY <1>1, <2>1 DEF ClientTypes
    <3>2. LandingsOf(want[p])' = LandingsOf(want[p])
      BY <2>1 DEF LandingsOf, Zone!Landed, zoneVars
    <3>3. QED
      BY <1>1, <2>1, <3>1, <3>2 DEF Locals, zoneVars, NoAnswer
  <2>4. QED
    BY <2>2, <2>3, QuietStep
<1>3. CASE Record(p)
  <2>1. UNCHANGED <<zoneVars, clientVars>>
    BY <1>3 DEF Record
  <2>2. Quiet /\ OthersStay(p) /\ ClientTypes'
    BY <1>1, <2>1 DEF Quiet, OthersStay, ClientTypes, zoneVars, clientVars
  <2>3. Locals(p)'
    BY <2>1, PartsKeep, LocalsStay DEF zoneVars, clientVars
  <2>4. QED
    BY <2>2, <2>3, QuietStep
<1>4. CASE StartSidecar(p)
  <2>1. step[p] = "landing" /\ Zone!OpenSidecar(p) /\ UNCHANGED clientVars
    BY <1>4 DEF StartSidecar
  <2>2. Quiet /\ OthersStay(p) /\ ClientTypes'
    BY <1>1, <2>1 DEF Zone!OpenSidecar, Zone!ZoneTypeOK, Quiet, OthersStay, ClientTypes,
                      clientVars
  <2>3. stage[p] # "idle" /\ stage'[p] # "idle" /\ held'[p] = held[p]
    BY <1>1, <2>1 DEF Zone!OpenSidecar, Zone!ZoneTypeOK
  <2>4. Locals(p)'
    BY <2>1, <2>3, PartsKeep, LocalsStay DEF clientVars
  <2>5. QED
    BY <2>2, <2>4, QuietStep
<1>5. CASE AnswerUnchanged(p)
  <2>1. /\ step[p] = "asking" /\ etag[p] # None /\ step' = [step EXCEPT ![p] = "touching"]
        /\ UNCHANGED <<zoneVars, upstream, older, age, want, cached, etag, answer>>
    BY <1>5 DEF AnswerUnchanged
  <2>2. Quiet /\ OthersStay(p) /\ ClientTypes'
    BY <1>1, <2>1 DEF Quiet, OthersStay, ClientTypes, Steps, zoneVars
  <2>3. Locals(p)'
    <3>1. step'[p] = "touching"
      BY <1>1, <2>1 DEF ClientTypes
    <3>2. LandingsOf(want[p])' = LandingsOf(want[p])
      BY <2>1 DEF LandingsOf, Zone!Landed, zoneVars
    <3>3. QED
      BY <1>1, <2>1, <3>1, <3>2 DEF Locals, zoneVars, NoAnswer
  <2>4. QED
    BY <2>2, <2>3, QuietStep
<1>6. QED
  BY <1>2, <1>3, <1>4, <1>5

LEMMA AnswersKeep ==
  ASSUME ClientInv, [Next]_vars, NEW p \in Procs, NEW n \in 0..MaxSize,
         AnswerData(p, n) \/ AnswerNoData(p, n)
  PROVE  ClientInv'
<1>1. ClientTypes /\ Zone!ZoneTypeOK /\ Locals(p)
  BY PartsOfTypes DEF ClientInv
<1>2. want[p] \in Targets /\ upstream[want[p]] \in Contents /\ stage[p] = "idle"
  BY <1>1 DEF AnswerData, AnswerNoData, Locals, ClientTypes
<1>3. PICK a \in [content : Contents \union {None}, tag : Contents \union {None}] :
        a.tag \in {a.content, None} /\ answer' = [answer EXCEPT ![p] = a]
  <2>1. CASE AnswerData(p, n)
    <3>1. PICK e \in {upstream[want[p]], None} :
            answer' = [answer EXCEPT ![p] = [content |-> upstream[want[p]], tag |-> e]]
      BY <2>1 DEF AnswerData
    <3>2. QED
      BY <1>2, <3>1
  <2>2. CASE AnswerNoData(p, n)
    <3>1. answer' = [answer EXCEPT ![p] = answer[p]]
      BY <1>1, <2>2 DEF AnswerNoData, ClientTypes
    <3>2. answer[p].tag \in {answer[p].content, None}
      BY <1>1 DEF Locals
    <3>3. QED
      BY <1>1, <3>1, <3>2 DEF ClientTypes
  <2>3. QED
    BY <2>1, <2>2
<1>4. /\ step[p] = "asking" /\ step' = [step EXCEPT ![p] = "answered"]
      /\ UNCHANGED <<zoneVars, upstream, older, age, want, cached, etag>>
  BY DEF AnswerData, AnswerNoData
<1>5. Quiet /\ OthersStay(p)
  BY <1>1, <1>3, <1>4 DEF Quiet, OthersStay, ClientTypes, zoneVars
<1>6. ClientTypes'
  BY <1>1, <1>3, <1>4 DEF ClientTypes, Steps
<1>7. Locals(p)'
  <2>1. step'[p] = "answered" /\ answer'[p] = a
    BY <1>1, <1>3, <1>4 DEF ClientTypes
  <2>2. LandingsOf(want[p])' = LandingsOf(want[p])
    BY <1>4 DEF LandingsOf, Zone!Landed, zoneVars
  <2>3. QED
    BY <1>1, <1>2, <1>3, <1>4, <2>1, <2>2 DEF Locals, zoneVars
<1>8. QED
  BY <1>5, <1>6, <1>7, QuietStep

\* Whoever writes or touches a landing makes it the newest of its target, and moves no
\* other target's landings.
Renewed(t, n) ==
  /\ Renew(t, n)
  /\ LandingsOf(t)' = LandingsOf(t) \union {n}
  /\ \A u \in Targets \ {t} : LandingsOf(u)' = LandingsOf(u) /\ n \notin LandingsOf(u)

LEMMA RenewKeeps ==
  ASSUME ClientInv, NEW t \in Targets, NEW n \in Names, Renewed(t, n)
  PROVE  /\ IsLatest(t, n)'
         /\ \A u \in Targets \ {t} : \A m \in Names : IsLatest(u, m)' <=> IsLatest(u, m)
         /\ MtimesOrdered' /\ AgesFit'
         /\ older' \in [Names -> SUBSET Names]
         /\ age' \in [Names -> 0..Longest]
         /\ age'[n] = 0 /\ \A m \in Names \ {n} : age'[m] = age[m]
<1>1. ClientTypes /\ MtimesOrdered /\ AgesFit
  BY PartsOfTypes DEF ClientInv
<1>2. LandingsOf(t) \subseteq Names
  BY DEF LandingsOf, Zone!Landed
<1>3. /\ older' \in [Names -> SUBSET Names]
      /\ older'[n] = LandingsOf(t) \ {n}
      /\ \A m \in Names \ {n} : older'[m] = older[m] \ {n}
  BY <1>1, <1>2 DEF Renewed, Renew, ClientTypes
<1>4. /\ age' \in [Names -> 0..Longest]
      /\ age'[n] = 0 /\ \A m \in Names \ {n} : age'[m] = age[m]
  BY <1>1, LongestIsNat DEF Renewed, Renew, ClientTypes
<1>5. IsLatest(t, n)'
  <2>1. n \in LandingsOf(t)' /\ LandingsOf(t)' \ {n} \subseteq older'[n]
    BY <1>3 DEF Renewed
  <2>2. QED
    BY <2>1 DEF IsLatest
<1>6. ASSUME NEW u \in Targets \ {t}, NEW m \in Names PROVE IsLatest(u, m)' <=> IsLatest(u, m)
  <2>1. LandingsOf(u)' = LandingsOf(u) /\ n \notin LandingsOf(u)
    BY DEF Renewed
  <2>2. IsLatest(u, m)' <=> m \in LandingsOf(u) /\ LandingsOf(u) \ {m} \subseteq older'[m]
    BY <2>1 DEF IsLatest
  <2>3. QED
    BY <1>3, <2>1, <2>2 DEF IsLatest
<1>7. MtimesOrdered'
  <2>1. \A m, k \in Names : m \in older'[k] => k \notin older'[m]
    BY <1>1, <1>3 DEF MtimesOrdered
  <2>2. ASSUME NEW u \in Targets, LandingsOf(u)' # {} PROVE \E m \in Names : IsLatest(u, m)'
    BY <1>1, <1>5, <1>6, <2>2 DEF Renewed, MtimesOrdered
  <2>3. QED
    BY <2>1, <2>2 DEF MtimesOrdered
<1>8. AgesFit'
  <2> SUFFICES ASSUME NEW u \in Targets, NEW m \in Names, NEW k \in Names,
                      IsLatest(u, m)', k \in LandingsOf(u)'
               PROVE  age'[m] <= age'[k]
    BY DEF AgesFit
  <2>1. age'[m] \in Nat /\ age'[k] \in Nat
    BY <1>4, LongestIsNat
  <2>2. CASE u = t
    <3>1. m = n
      <4>1. m \in LandingsOf(t)' /\ LandingsOf(t)' \ {m} \subseteq older'[m]
        BY <2>2 DEF IsLatest
      <4>2. n \in LandingsOf(t)' /\ n \notin older'[m]
        BY <1>3 DEF Renewed
      <4>3. QED
        BY <4>1, <4>2
    <3>2. QED
      BY <1>4, <2>1, <3>1
  <2>3. CASE u # t
    <3>1. IsLatest(u, m) /\ k \in LandingsOf(u) /\ m # n /\ k # n
      BY <1>6, <2>3 DEF Renewed, IsLatest
    <3>2. QED
      BY <1>1, <1>4, <3>1 DEF AgesFit
  <2>4. QED
    BY <2>2, <2>3
<1>9. QED
  BY <1>3, <1>4, <1>5, <1>6, <1>7, <1>8

\* The three steps that renew a landing n, of the target t that their command fetches.
LEMMA LandRenews ==
  ASSUME ClientInv, NEW p \in Procs, NEW n \in Names, Land(p, n), NEW t, t = want[p]
  PROVE  /\ t \in Targets /\ Renewed(t, n) /\ n \notin Zone!Landed
         /\ Zone!Landed' = Zone!Landed \union {n}
         /\ target' = [target EXCEPT ![n] = t]
         /\ content' = [content EXCEPT ![n] = answer[p].content]
         /\ tag' = [tag EXCEPT ![n] = answer[p].tag]
         /\ stage' = [stage EXCEPT ![p] = "payload"] /\ held' = [held EXCEPT ![p] = n]
<1>1. Zone!ZoneTypeOK /\ t \in Targets
  BY PartsOfTypes DEF ClientInv, Locals, Land
<1>2. Zone!OpenPayload(p, n, want[p], answer[p].content, answer[p].tag) /\ Renew(want[p], n)
  BY DEF Land
<1>3. /\ n \notin Zone!Landed
      /\ payload' = [payload EXCEPT ![n] = "partial"]
      /\ target' = [target EXCEPT ![n] = t]
      /\ content' = [content EXCEPT ![n] = answer[p].content]
      /\ tag' = [tag EXCEPT ![n] = answer[p].tag]
      /\ stage' = [stage EXCEPT ![p] = "payload"] /\ held' = [held EXCEPT ![p] = n]
  BY <1>2 DEF Zone!OpenPayload
<1>4. Zone!Landed' = Zone!Landed \union {n}
  BY <1>1, <1>3 DEF Zone!Landed, Zone!ZoneTypeOK
<1>5. \A u : LandingsOf(u)' = {m \in Zone!Landed \union {n} : target'[m] = u}
  BY <1>4 DEF LandingsOf
<1>6. \A m \in Zone!Landed : target'[m] = target[m]
  BY <1>1, <1>3 DEF Zone!ZoneTypeOK, Zone!Landed
<1>7. target'[n] = t
  BY <1>1, <1>3 DEF Zone!ZoneTypeOK
<1>8. LandingsOf(t)' = LandingsOf(t) \union {n}
  BY <1>5, <1>6, <1>7 DEF LandingsOf
<1>9. ASSUME NEW u \in Targets \ {t}
      PROVE  LandingsOf(u)' = LandingsOf(u) /\ n \notin LandingsOf(u)
  BY <1>3, <1>5, <1>6, <1>7 DEF LandingsOf
<1>10. Renew(t, n)
  BY <1>2
<1>11. QED
  BY <1>1, <1>3, <1>4, <1>8, <1>9, <1>10 DEF Renewed

LEMMA OldLandingRenews ==
  ASSUME NEW t \in Targets, NEW n \in LandingsOf(t), Renew(t, n),
         Zone!Landed' = Zone!Landed, target' = target
  PROVE  n \in Names /\ Renewed(t, n) /\ (\A u : LandingsOf(u)' = LandingsOf(u))
<1>1. \A u : LandingsOf(u)' = LandingsOf(u)
  BY DEF LandingsOf
<1>2. n \in Names /\ \A u \in Targets \ {t} : n \notin LandingsOf(u)
  BY DEF LandingsOf, Zone!Landed
<1>3. LandingsOf(t)' = LandingsOf(t) \union {n}
  BY <1>1
<1>4. QED
  BY <1>1, <1>2, <1>3 DEF Renewed

LEMMA FinishRenews ==
  ASSUME ClientInv, NEW p \in Procs, FinishPayload(p), NEW t, t = want[p], NEW n, n = held[p]
  PROVE  /\ t \in Targets /\ n \in Names /\ Renewed(t, n) /\ n \in LandingsOf(t)
         /\ Zone!Landed' = Zone!Landed /\ (\A u : LandingsOf(u)' = LandingsOf(u))
         /\ UNCHANGED <<target, content, tag, held>>
         /\ stage' = [stage EXCEPT ![p] = "sidecar"] /\ stage[p] = "payload"
<1>1. ZoneInv /\ Zone!ZoneTypeOK /\ Locals(p) /\ step[p] = "landing"
  BY PartsOfTypes DEF ClientInv, FinishPayload
<1>2. /\ stage[p] = "payload" /\ payload' = [payload EXCEPT ![n] = "complete"]
      /\ stage' = [stage EXCEPT ![p] = "sidecar"]
      /\ UNCHANGED <<target, content, tag, held>>
  BY DEF FinishPayload, Zone!ClosePayload
<1>3. Renew(t, n)
  BY DEF FinishPayload
<1>4. n \in Names /\ payload[n] = "partial"
  BY <1>1, <1>2 DEF ZoneInv, WritersOwnTheirFiles
<1>5. Zone!Landed' = Zone!Landed
  BY <1>1, <1>2, <1>4 DEF Zone!Landed, Zone!ZoneTypeOK
<1>6. n \in LandingsOf(t) /\ t \in Targets
  BY <1>1, <1>4 DEF Locals, LandingsOf, Zone!Landed
<1>7. QED
  BY <1>2, <1>3, <1>4, <1>5, <1>6, OldLandingRenews

LEMMA TouchRenews ==
  ASSUME ClientInv, NEW p \in Procs, Touch(p), NEW t, t = want[p], NEW n, n = cached[p]
  PROVE  /\ t \in Targets /\ n \in Names /\ Renewed(t, n) /\ n \in LandingsOf(t)
         /\ (\A u : LandingsOf(u)' = LandingsOf(u)) /\ UNCHANGED zoneVars
<1>1. Locals(p) /\ step[p] = "touching" /\ UNCHANGED zoneVars
  BY DEF ClientInv, Touch
<1>2. Renew(t, n)
  BY DEF Touch
<1>3. t \in Targets /\ n \in LandingsOf(t)
  BY <1>1 DEF Locals
<1>4. Zone!Landed' = Zone!Landed /\ target' = target
  BY <1>1 DEF zoneVars, Zone!Landed
<1>5. QED
  BY <1>1, <1>2, <1>3, <1>4, OldLandingRenews

LEMMA LandKeeps ==
  ASSUME ClientInv, [Next]_vars, NEW p \in Procs, NEW n \in Names, Land(p, n)
  PROVE  ClientInv'
<1>1. ClientTypes /\ ZoneInv /\ Zone!ZoneTypeOK /\ Locals(p) /\ LandingsFit
  BY PartsOfTypes DEF ClientInv
<1>2. PICK t \in Targets : t = want[p]
  BY <1>1 DEF Locals, Land
<1>3. /\ Renewed(t, n) /\ n \notin Zone!Landed
      /\ Zone!Landed' = Zone!Landed \union {n}
      /\ target' = [target EXCEPT ![n] = t]
      /\ content' = [content EXCEPT ![n] = answer[p].content]
      /\ tag' = [tag EXCEPT ![n] = answer[p].tag]
      /\ stage' = [stage EXCEPT ![p] = "payload"] /\ held' = [held EXCEPT ![p] = n]
  BY <1>2, LandRenews
<1>4. /\ step[p] = "answered" /\ answer[p].content # None
      /\ step' = [step EXCEPT ![p] = "landing"]
      /\ UNCHANGED <<upstream, want, cached, etag, answer>>
  BY DEF Land
<1>5. ClientTypes'
  BY <1>1, <1>2, <1>3, <1>4, RenewKeeps DEF ClientTypes, Steps
<1>6. ZoneInv' /\ TypeOK' /\ [Zone!ZoneNext]_zoneVars
  BY <1>5, PartsKeep
<1>7. LandingsFit'
  <2>1. ASSUME NEW m \in Zone!Landed
        PROVE  /\ target'[m] \in Targets /\ content'[m] \in Contents
               /\ tag'[m] \in {content'[m], None}
    BY <1>1, <1>6, ZoneKeeps DEF LandingsFit, Kept
  <2>2. target'[n] = t /\ content'[n] = answer[p].content /\ tag'[n] = answer[p].tag
    BY <1>1, <1>3 DEF Zone!ZoneTypeOK
  <2>3. answer[p].content \in Contents /\ answer[p].tag \in {answer[p].content, None}
    BY <1>1, <1>4 DEF ClientTypes, Locals
  <2>4. QED
    BY <1>2, <1>3, <2>1, <2>2, <2>3 DEF LandingsFit
<1>8. MtimesOrdered' /\ AgesFit'
  BY <1>2, <1>3, RenewKeeps
<1>9. Locals(p)'
  <2>1. step'[p] = "landing" /\ stage'[p] = "payload" /\ held'[p] = n
    BY <1>1, <1>3, <1>4 DEF ClientTypes, Zone!ZoneTypeOK
  <2>2. target'[n] = want[p]
    BY <1>1, <1>2, <1>3 DEF Zone!ZoneTypeOK
  <2>3. ASSUME cached[p] # None
        PROVE  /\ cached[p] \in Zone!Landed' /\ target'[cached[p]] = want[p]
               /\ content'[cached[p]] = content[cached[p]]
               /\ payload[cached[p]] = "complete" => payload'[cached[p]] = "complete"
    BY <1>1, <1>6, <2>3, LandingsStay DEF Locals, Kept, LandingsOf
  <2>4. cached[p] # None => cached[p] \in LandingsOf(want[p])'
    BY <1>4, <2>3 DEF LandingsOf
  <2>5. QED
    BY <1>1, <1>4, <2>1, <2>2, <2>3, <2>4 DEF Locals
<1>10. ASSUME NEW q \in Procs \ {p} PROVE Locals(q)'
  <2>1. /\ step'[q] = step[q] /\ stage'[q] = stage[q] /\ held'[q] = held[q]
        /\ want'[q] = want[q] /\ cached'[q] = cached[q]
        /\ etag'[q] = etag[q] /\ answer'[q] = answer[q]
    BY <1>1, <1>3, <1>4 DEF ClientTypes, Zone!ZoneTypeOK
  <2>2. QED
    BY <1>6, <2>1, LocalsStay
<1>11. QED
  BY <1>6, <1>7, <1>8, <1>9, <1>10 DEF ClientInv

\* The steps that renew a landing that exists.
LEMMA FinishKeeps ==
  ASSUME ClientInv, [Next]_vars, NEW p \in Procs, FinishPayload(p)
  PROVE  ClientInv'
<1>1. ClientTypes /\ Zone!ZoneTypeOK /\ Locals(p) /\ LandingsFit
  BY PartsOfTypes DEF ClientInv
<1>2. PICK t : t = want[p]
  OBVIOUS
<1>3. PICK n : n = held[p]
  OBVIOUS
<1>4. /\ t \in Targets /\ n \in Names /\ Renewed(t, n)
      /\ Zone!Landed' = Zone!Landed
      /\ UNCHANGED <<target, content, tag, held>>
      /\ stage' = [stage EXCEPT ![p] = "sidecar"] /\ stage[p] = "payload"
  BY <1>2, <1>3, FinishRenews
<1>5. UNCHANGED <<upstream, step, want, cached, etag, answer>>
  BY DEF FinishPayload
<1>6. ClientTypes'
  BY <1>1, <1>4, <1>5, RenewKeeps DEF ClientTypes
<1>7. ZoneInv' /\ TypeOK' /\ [Zone!ZoneNext]_zoneVars
  BY <1>6, PartsKeep
<1>8. LandingsFit'
  BY <1>1, <1>4 DEF LandingsFit
<1>9. MtimesOrdered' /\ AgesFit'
  BY <1>4, RenewKeeps
<1>10. ASSUME NEW q \in Procs PROVE Locals(q)'
  <2>1. stage'[q] = "idle" <=> stage[q] = "idle"
    BY <1>1, <1>4 DEF Zone!ZoneTypeOK
  <2>2. QED
    BY <1>4, <1>5, <1>7, <2>1, LocalsStay
<1>11. QED
  BY <1>7, <1>8, <1>9, <1>10 DEF ClientInv

LEMMA TouchKeeps ==
  ASSUME ClientInv, [Next]_vars, NEW p \in Procs, Touch(p)
  PROVE  ClientInv'
<1>1. ClientTypes /\ Zone!ZoneTypeOK /\ Locals(p) /\ LandingsFit
  BY PartsOfTypes DEF ClientInv
<1>2. PICK t : t = want[p]
  OBVIOUS
<1>3. PICK n : n = cached[p]
  OBVIOUS
<1>4. t \in Targets /\ n \in Names /\ Renewed(t, n) /\ UNCHANGED zoneVars
  BY <1>2, <1>3, TouchRenews
<1>5. step[p] = "touching" /\ Return(p) /\ upstream' = upstream
  BY DEF Touch
<1>6. stage'[p] = "idle"
  BY <1>1, <1>4, <1>5 DEF Locals, zoneVars
<1>7. ClientTypes'
  BY <1>1, <1>4, <1>5, <1>6, RenewKeeps, ReturnEnds DEF ClientTypes
<1>8. ZoneInv' /\ TypeOK' /\ [Zone!ZoneNext]_zoneVars
  BY <1>7, PartsKeep
<1>9. LandingsFit'
  BY <1>1, <1>4 DEF LandingsFit, Zone!Landed, zoneVars
<1>10. MtimesOrdered' /\ AgesFit'
  BY <1>4, RenewKeeps
<1>11. Locals(p)'
  BY <1>1, <1>5, <1>6, ReturnEnds
<1>12. ASSUME NEW q \in Procs \ {p} PROVE Locals(q)'
  <2>1. /\ step'[q] = step[q] /\ want'[q] = want[q] /\ cached'[q] = cached[q]
        /\ etag'[q] = etag[q] /\ answer'[q] = answer[q]
    BY <1>1, <1>5, <1>6, ReturnEnds
  <2>2. QED
    BY <1>4, <1>8, <2>1, LocalsStay DEF zoneVars
<1>13. QED
  BY <1>8, <1>9, <1>10, <1>11, <1>12 DEF ClientInv

\* Time passes and CelesTrak publishes.
LEMMA WorldKeeps ==
  ASSUME ClientInv, [Next]_vars,
         Tick \/ NewDay \/ (\E t \in Targets : Publish(t)) \/ UNCHANGED vars
  PROVE  ClientInv'
<1>1. ClientTypes /\ AgesFit
  BY PartsOfTypes DEF ClientInv
<1>2. UNCHANGED <<zoneVars, older, step, want, cached, etag, answer>>
  BY DEF Tick, NewDay, Publish, vars, clientVars
<1>3. \A t, n : LandingsOf(t)' = LandingsOf(t) /\ (IsLatest(t, n)' <=> IsLatest(t, n))
  BY <1>2 DEF LandingsOf, Zone!Landed, IsLatest, zoneVars
<1>4. CASE Tick
  <2>1. \A n \in Names :
          /\ age'[n] \in 0..Longest
          /\ n \in Zone!Landed => age'[n] = IF age[n] < Longest THEN age[n] + 1 ELSE age[n]
    BY <1>1, <1>4, LongestIsNat DEF Tick, ClientTypes
  <2>2. ClientTypes'
    BY <1>1, <1>2, <1>4, <2>1 DEF Tick, ClientTypes
  <2>3. AgesFit'
    <3> SUFFICES ASSUME NEW t \in Targets, NEW m \in Names, NEW n \in Names,
                        IsLatest(t, m), n \in LandingsOf(t)
                 PROVE  age'[m] <= age'[n]
      BY <1>3 DEF AgesFit
    <3>1. age[m] <= age[n] /\ m \in Zone!Landed /\ n \in Zone!Landed
      BY <1>1 DEF AgesFit, IsLatest, LandingsOf
    <3>2. age[m] \in Nat /\ age[n] \in Nat /\ age[n] <= Longest
      BY <1>1, LongestIsNat DEF ClientTypes
    <3>3. QED
      BY <2>1, <3>1, <3>2, LongestIsNat
  <2>4. QED
    BY <1>2, <2>2, <2>3, IdleStep
<1>5. CASE NewDay \/ (\E t \in Targets : Publish(t)) \/ UNCHANGED vars
  <2>1. age' = age
    BY <1>5 DEF NewDay, Publish, vars, clientVars
  <2>2. AgesFit'
    BY <1>1, <1>3, <2>1 DEF AgesFit
  <2>3. upstream' \in [Targets -> Contents]
    BY <1>1, <1>5 DEF NewDay, Publish, vars, clientVars, ClientTypes
  <2>4. ClientTypes'
    BY <1>1, <1>2, <2>1, <2>3 DEF ClientTypes
  <2>5. QED
    BY <1>2, <2>2, <2>4, IdleStep
<1>6. QED
  BY <1>4, <1>5

LEMMA ClientInvStep == ClientInv /\ [Next]_vars => ClientInv'
<1> SUFFICES ASSUME ClientInv, [Next]_vars PROVE ClientInv'
  OBVIOUS
<1>1. ASSUME NEW p \in Procs, ClientStep(p) PROVE ClientInv'
  BY <1>1, MissKeeps, ReturnsKeep, AsksKeep, AnswersKeep, LandKeeps, FinishKeeps, TouchKeeps
     DEF ClientStep
<1>2. QED
  BY <1>1, WorldKeeps DEF Next

\* Ledger, zone and client keep their types together.
THEOREM ClientTypeCorrect == Spec => []TypeOK
<1>1. ClientInv => TypeOK
  BY DEF ClientInv
<1>2. QED
  BY <1>1, ClientInvInit, ClientInvStep, PTL DEF Spec

\* Whatever a fetch goes through, its ledger and its landing zone only take steps that they
\* take alone, so what is proved of either holds of the whole client.
THEOREM PartsAreKept == Spec => KeepsTheParts
<1>1. Init => Ledger!Init /\ Zone!ZoneInit
  BY DEF Init
<1>2. [Next]_vars => [Ledger!Next]_(Ledger!vars)
  BY LedgerSimulation DEF ledgerVars, Ledger!vars
<1>3. ClientInv /\ [Next]_vars => [Zone!ZoneNext]_(Zone!zoneVars)
  BY ZoneSimulation DEF zoneVars, Zone!zoneVars
<1>4. QED
  BY <1>1, <1>2, <1>3, ClientInvInit, ClientInvStep, PTL DEF Spec, KeepsTheParts, Ledger!Spec, Zone!ZoneSpec

LEMMA ClientKeepsLedger == Spec => LedgerFacts!Spec
<1>1. Ledger!Init => LedgerFacts!Init
  BY SameLedger
<1>2. [Ledger!Next]_(Ledger!vars) => [LedgerFacts!Next]_(LedgerFacts!vars)
  BY SameLedger DEF ledgerVars, Ledger!vars
<1>3. QED
  BY <1>1, <1>2, PartsAreKept, PTL DEF KeepsTheParts, Ledger!Spec, LedgerFacts!Spec

\* However many commands fetch, reject, touch and are killed, the ledger never claims more
\* than was recorded today, so no fetch is halted early.
THEOREM NoFetchIsHaltedEarly == Spec => []Ledger!NeverOvercounts
<1>1. LedgerFacts!NeverOvercounts => Ledger!NeverOvercounts
  BY DEF LedgerFacts!NeverOvercounts, Ledger!NeverOvercounts, LedgerFacts!UsedToday, Ledger!UsedToday
<1>2. QED
  BY <1>1, SameLedger, ClientKeepsLedger, LedgerFacts!LedgerNeverOvercounts, PTL

\* One command at a time, the whole of _fetch_and_cache keeps to the budget: each day's
\* downloads stay within one ceiling per lapse, and with nothing lost no request goes out
\* once the budget is spent.
THEOREM FetchesKeepTheBudget ==
  ASSUME NEW P, Procs = {P}
  PROVE  Spec => []Ledger!OvershootBounded /\ Ledger!HaltsOnceSpent
<1>1. LedgerFacts!OvershootBounded => Ledger!OvershootBounded
  BY DEF LedgerFacts!OvershootBounded, Ledger!OvershootBounded, LedgerFacts!Ceiling, Ledger!Ceiling
<1>2. LedgerFacts!HaltsOnceSpent => Ledger!HaltsOnceSpent
  BY DEF LedgerFacts!HaltsOnceSpent, Ledger!HaltsOnceSpent, LedgerFacts!vars, Ledger!vars
<1>3. LedgerFacts!Spec => []LedgerFacts!OvershootBounded
  BY SameLedger, LedgerFacts!SingleOvershootBounded
<1>4. LedgerFacts!Spec => LedgerFacts!HaltsOnceSpent
  BY SameLedger, LedgerFacts!SingleHaltsOnceSpent
<1>5. QED
  BY <1>1, <1>2, <1>3, <1>4, ClientKeepsLedger, PTL

\* However many commands land and are killed, a sidecar stands beside a whole payload only,
\* and what has landed never changes.
THEOREM FetchedLandingsAreSound == Spec => []Zone!SealedIsComplete /\ Zone!NeverOverwritten
<1>1. ClientInv => Zone!SealedIsComplete
  BY DEF ClientInv, ZoneInv
<1>2. ClientInv /\ [Next]_vars =>
        [\A n \in Zone!Landed :
           /\ <<target[n], content[n], tag[n]>>' = <<target[n], content[n], tag[n]>>
           /\ payload[n] = "complete" => payload'[n] = "complete"
           /\ payload'[n] # "absent"
           /\ n \in Zone!Sealed => sidecar'[n] = "complete"]_(Zone!zoneVars)
  <2> SUFFICES ASSUME ClientInv, [Next]_vars, NEW n \in Zone!Landed
               PROVE  /\ <<target[n], content[n], tag[n]>>' = <<target[n], content[n], tag[n]>>
                      /\ payload[n] = "complete" => payload'[n] = "complete"
                      /\ payload'[n] # "absent"
                      /\ n \in Zone!Sealed => sidecar'[n] = "complete"
    OBVIOUS
  <2>1. ZoneInv /\ [Zone!ZoneNext]_zoneVars
    BY ZoneSimulation DEF ClientInv
  <2>2. Kept(n)
    BY <2>1, ZoneKeeps
  <2>3. n \in Zone!Sealed => sidecar'[n] = "complete"
    BY <2>1, SealsStay
  <2>4. QED
    BY <2>2, <2>3 DEF Kept, Zone!Landed
<1>3. QED
  BY <1>1, <1>2, ClientInvInit, ClientInvStep, PTL DEF Spec, Zone!NeverOverwritten

\* However many commands fetch, the same target or not, an ETag is only ever replayed for
\* a whole landing of that target with the very content the ETag stands for.
THEOREM EtagsNameWholePayloads == Spec => []RevalidatesWholePayload
<1>1. ClientInv => RevalidatesWholePayload
  <2> SUFFICES ASSUME ClientInv, NEW p \in Procs, etag[p] # None
               PROVE  /\ cached[p] \in Zone!Landed
                      /\ payload[cached[p]] = "complete"
                      /\ content[cached[p]] = etag[p]
                      /\ target[cached[p]] = want[p]
    BY DEF RevalidatesWholePayload
  <2>1. QED
    BY DEF ClientInv, Locals, LandingsOf
<1>2. QED
  BY <1>1, ClientInvInit, ClientInvStep, PTL DEF Spec

-----------------------------------------------------------------------------
\* Each target has one command that fetches it, as the schedule has it.
OneFetcherEach == \A p, q \in Procs : p # q => Serves[p] \intersect Serves[q] = {}

\* While a command is between its look and its landing, no window of its target has
\* opened, the landing it looked at is still the newest, and what it was answered is as
\* new as any landing; what it then writes is the newest file.
Window(p) ==
  /\ step[p] \in {"looked", "asking", "answered", "touching"} =>
       \A n \in LandingsOf(want[p]) : age[n] >= Ttl[want[p]]
  /\ step[p] \in {"looked", "asking", "touching"} /\ cached[p] # None =>
       IsLatest(want[p], cached[p])
  /\ step[p] = "answered" /\ answer[p].content # None =>
       /\ answer[p].content <= upstream[want[p]]
       /\ \A n \in LandingsOf(want[p]) : content[n] <= answer[p].content
  /\ step[p] = "landing" => IsLatest(want[p], held[p])

\* The newest file has the newest content, and CelesTrak serves none that is older.
ContentsGrow ==
  \A t \in Targets : \A n \in LandingsOf(t) :
    /\ content[n] <= upstream[t]
    /\ \A m \in Names : IsLatest(t, m) => content[n] <= content[m]

SoleInv ==
  /\ ContentsGrow
  /\ \A p \in Procs : Window(p)

LEMMA SoleInvInit == Init => SoleInv
<1> SUFFICES ASSUME Init PROVE SoleInv
  OBVIOUS
<1>1. \A t : LandingsOf(t) = {}
  BY DEF Init, Zone!ZoneInit, LandingsOf, Zone!Landed
<1>2. \A p \in Procs : step[p] = "idle"
  BY DEF Init
<1>3. QED
  BY <1>1, <1>2 DEF SoleInv, ContentsGrow, Window

\* Ages and contents are numbers.
LEMMA NatTypes ==
  ASSUME ClientTypes
  PROVE  upstream \in [Targets -> Nat] /\ age \in [Names -> Nat]
<1>1. Contents \subseteq Nat /\ 0..Longest \subseteq Nat
  BY ClientAssumption, LongestIsNat
<1>2. upstream \in [Targets -> Contents] /\ age \in [Names -> 0..Longest]
  BY DEF ClientTypes
<1>3. QED
  BY <1>1, <1>2

\* A command keeps its window while nobody renews a landing of its target.
LEMMA WindowStays ==
  ASSUME ClientInv, SoleInv, NEW q \in Procs, NEW w, w = want[q],
         step'[q] = step[q], want'[q] = want[q], cached'[q] = cached[q],
         answer'[q] = answer[q], held'[q] = held[q],
         upstream' \in [Targets -> Nat], age' \in [Names -> Nat],
         \A t \in Targets : upstream'[t] >= upstream[t],
         step[q] # "idle" =>
           /\ LandingsOf(w)' = LandingsOf(w)
           /\ \A m \in Names : IsLatest(w, m)' <=> IsLatest(w, m)
           /\ \A n \in LandingsOf(w) : age'[n] >= age[n] /\ content'[n] = content[n]
  PROVE  Window(q)'
<1>1. Window(q) /\ Locals(q) /\ ClientTypes /\ ZoneInv
  BY PartsOfTypes DEF SoleInv, ClientInv
<1>2. CASE step[q] = "idle"
  BY <1>2 DEF Window
<1>3. CASE step[q] # "idle"
  <2>1. w \in Targets
    BY <1>1, <1>3 DEF Locals
  <2>2. LandingsOf(want[q])' = LandingsOf(w)
    BY <1>3 DEF LandingsOf
  <2>3. ASSUME NEW m \in Names, IsLatest(w, m)
        PROVE  m \in LandingsOf(w)' /\ LandingsOf(w)' \ {m} \subseteq older'[m]
    BY <1>3, <2>3 DEF IsLatest
  <2>4. ASSUME NEW n \in LandingsOf(w), step[q] \in {"looked", "asking", "answered", "touching"}
        PROVE  age'[n] >= Ttl[w]
    <3>1. age[n] >= Ttl[w] /\ age'[n] >= age[n] /\ n \in Names
      BY <1>1, <1>3, <2>4 DEF Window, LandingsOf, Zone!Landed
    <3>2. age[n] \in Nat /\ age'[n] \in Nat /\ Ttl[w] \in Nat
      BY <1>1, <2>1, <3>1, ClientAssumption, LongestIsNat DEF ClientTypes
    <3>3. QED
      BY <3>1, <3>2
  <2>5. ASSUME step[q] \in {"looked", "asking", "touching"}, cached[q] # None
        PROVE  IsLatest(want[q], cached[q])'
    <3>1. IsLatest(w, cached[q]) /\ cached[q] \in Names
      BY <1>1, <2>5 DEF Window, ClientTypes
    <3>2. cached'[q] \in LandingsOf(w)' /\ LandingsOf(w)' \ {cached'[q]} \subseteq older'[cached'[q]]
      BY <2>3, <3>1
    <3>3. QED
      BY <1>3, <2>2, <3>2 DEF IsLatest
  <2>6. ASSUME step[q] = "landing" PROVE IsLatest(want[q], held[q])'
    <3>1. IsLatest(w, held[q]) /\ held[q] \in Names
      BY <1>1, <2>6 DEF Window, Locals, ZoneInv, WritersOwnTheirFiles
    <3>2. held'[q] \in LandingsOf(w)' /\ LandingsOf(w)' \ {held'[q]} \subseteq older'[held'[q]]
      BY <2>3, <3>1
    <3>3. QED
      BY <1>3, <2>2, <3>2 DEF IsLatest
  <2>7. ASSUME step[q] = "answered", answer[q].content # None
        PROVE  /\ answer[q].content <= upstream'[w]
               /\ \A n \in LandingsOf(w) : content'[n] <= answer[q].content
    <3>1. /\ answer[q].content <= upstream[w]
          /\ \A n \in LandingsOf(w) : content[n] <= answer[q].content
      BY <1>1, <2>7 DEF Window
    <3>2. answer[q].content \in Nat /\ upstream[w] \in Nat /\ upstream'[w] \in Nat
      BY <1>1, <2>1, <2>7, ClientAssumption DEF ClientTypes
    <3>3. QED
      BY <1>3, <2>1, <3>1, <3>2
  <2>8. QED
    BY <1>3, <2>2, <2>4, <2>5, <2>6, <2>7 DEF Window
<1>4. QED
  BY <1>2, <1>3

\* Contents stay in order while nothing is renewed and the feeds only advance.
LEMMA ContentsStay ==
  ASSUME ClientInv, SoleInv, upstream' \in [Targets -> Nat], content' = content,
         \A t \in Targets : upstream'[t] >= upstream[t],
         \A t : LandingsOf(t)' = LandingsOf(t),
         \A t \in Targets, m \in Names : IsLatest(t, m)' => IsLatest(t, m)
  PROVE  ContentsGrow'
<1> SUFFICES ASSUME NEW t \in Targets, NEW n \in LandingsOf(t)
             PROVE  /\ content[n] <= upstream'[t]
                    /\ \A m \in Names : IsLatest(t, m)' => content[n] <= content[m]
  BY DEF ContentsGrow
<1>1. n \in Zone!Landed
  BY DEF LandingsOf
<1>2. content[n] \in Nat /\ upstream[t] \in Nat /\ upstream'[t] \in Nat
  BY <1>1, PartsOfTypes, ClientAssumption DEF ClientInv, LandingsFit, ClientTypes
<1>3. content[n] <= upstream[t] /\ \A m \in Names : IsLatest(t, m) => content[n] <= content[m]
  BY DEF SoleInv, ContentsGrow
<1>4. QED
  BY <1>2, <1>3

LEMMA QuietSole ==
  ASSUME ClientInv, SoleInv, Quiet, upstream' = upstream, NEW p \in Procs, Window(p)',
         OthersStay(p)
  PROVE  SoleInv'
<1>1. ClientTypes
  BY PartsOfTypes
<1>2. /\ \A t : LandingsOf(t)' = LandingsOf(t)
      /\ \A t, m : IsLatest(t, m)' <=> IsLatest(t, m)
  BY QuietKeeps
<1>3. /\ age' = age /\ content' = content
      /\ upstream' \in [Targets -> Nat] /\ age' \in [Names -> Nat]
      /\ \A t \in Targets : upstream'[t] >= upstream[t]
      /\ \A n \in Names : age'[n] >= age[n]
  <2>1. age' = age /\ content' = content
    BY DEF Quiet
  <2>2. upstream \in [Targets -> Nat] /\ age \in [Names -> Nat]
    BY <1>1, NatTypes
  <2>3. QED
    BY <2>1, <2>2
<1>4. \A t : LandingsOf(t) \subseteq Names
  BY DEF LandingsOf, Zone!Landed
<1>5. ContentsGrow'
  BY <1>2, <1>3, ContentsStay
<1>6. ASSUME NEW q \in Procs \ {p} PROVE Window(q)'
  BY <1>2, <1>3, <1>4, WindowStays DEF OthersStay
<1>7. QED
  BY <1>5, <1>6 DEF SoleInv

\* The steps that renew nothing.
LEMMA MissSole ==
  ASSUME ClientInv, SoleInv, NEW p \in Procs, NEW t \in Targets, Miss(p, t)
  PROVE  SoleInv'
<1>1. ClientTypes /\ Locals(p) /\ MtimesOrdered /\ AgesFit
  BY PartsOfTypes DEF ClientInv
<1>2. Quiet /\ OthersStay(p) /\ upstream' = upstream
  BY <1>1 DEF Miss, Quiet, OthersStay, zoneVars, ClientTypes
<1>3. step'[p] = "looked" /\ want'[p] = t /\ cached'[p] = Latest(t)
  BY <1>1 DEF Miss, ClientTypes
<1>4. ASSUME NEW n \in LandingsOf(t) PROVE age[n] >= Ttl[t]
  <2>1. n \in Names
    BY DEF LandingsOf, Zone!Landed
  <2>2. PICK m \in Names : IsLatest(t, m)
    BY <1>1 DEF MtimesOrdered
  <2>3. Latest(t) = m /\ Latest(t) # None /\ age[m] <= age[n]
    BY <1>1, <2>1, <2>2, LatestIsFound, ClientAssumption DEF AgesFit
  <2>4. ~ (age[m] < Ttl[t])
    BY <2>3 DEF Miss, HasFresh
  <2>5. age[m] \in Nat /\ age[n] \in Nat /\ Ttl[t] \in Nat
    BY <1>1, <2>1, <2>2, LongestIsNat, ClientAssumption DEF ClientTypes
  <2>6. QED
    BY <2>3, <2>4, <2>5
<1>5. ASSUME Latest(t) # None
      PROVE  Latest(t) \in LandingsOf(t) /\ LandingsOf(t) \ {Latest(t)} \subseteq older[Latest(t)]
  <2>1. PICK m \in Names : IsLatest(t, m)
    BY <1>1, <1>5, NoneLatest DEF MtimesOrdered
  <2>2. QED
    BY <1>1, <2>1, LatestIsFound DEF IsLatest
<1>6. LandingsOf(want[p])' = LandingsOf(t) /\ older' = older /\ age' = age
  BY <1>2, <1>3 DEF LandingsOf, Quiet, Zone!Landed
<1>7. Window(p)'
  BY <1>3, <1>4, <1>5, <1>6 DEF Window, IsLatest
<1>8. QED
  BY <1>2, <1>7, QuietSole

LEMMA AsksSole ==
  ASSUME ClientInv, SoleInv, NEW p \in Procs,
         Ask(p) \/ Record(p) \/ StartSidecar(p) \/ AnswerUnchanged(p)
  PROVE  SoleInv'
<1>1. ClientTypes /\ Zone!ZoneTypeOK /\ Locals(p) /\ Window(p)
  BY PartsOfTypes DEF ClientInv, SoleInv
<1>2. Quiet /\ OthersStay(p) /\ upstream' = upstream
  <2>1. CASE Ask(p) \/ AnswerUnchanged(p)
    BY <1>1, <2>1 DEF Ask, AnswerUnchanged, Quiet, OthersStay, ClientTypes, zoneVars
  <2>2. CASE Record(p)
    BY <2>2 DEF Record, Quiet, OthersStay, zoneVars, clientVars
  <2>3. CASE StartSidecar(p)
    BY <1>1, <2>3 DEF StartSidecar, Zone!OpenSidecar, Zone!ZoneTypeOK, Quiet, OthersStay,
                      clientVars
  <2>4. QED
    BY <2>1, <2>2, <2>3
<1>3. want'[p] = want[p] /\ cached'[p] = cached[p] /\ answer'[p] = answer[p] /\ held'[p] = held[p]
  BY <1>1 DEF Ask, Record, StartSidecar, AnswerUnchanged, Zone!OpenSidecar, zoneVars, clientVars
<1>4. \/ step'[p] = step[p]
      \/ step[p] = "looked" /\ step'[p] = "asking"
      \/ step[p] = "asking" /\ step'[p] = "touching"
  BY <1>1 DEF Ask, Record, StartSidecar, AnswerUnchanged, ClientTypes, clientVars
<1>5. /\ LandingsOf(want[p])' = LandingsOf(want[p])
      /\ older' = older /\ age' = age /\ content' = content
  BY <1>2, <1>3 DEF LandingsOf, Quiet, Zone!Landed
<1>6. Window(p)'
  BY <1>1, <1>2, <1>3, <1>4, <1>5 DEF Window, IsLatest
<1>7. QED
  BY <1>2, <1>6, QuietSole

LEMMA AnswersSole ==
  ASSUME ClientInv, SoleInv, NEW p \in Procs, NEW n \in 0..MaxSize,
         AnswerData(p, n) \/ AnswerNoData(p, n)
  PROVE  SoleInv'
<1>1. ClientTypes /\ Locals(p) /\ Window(p) /\ ContentsGrow
  BY PartsOfTypes DEF ClientInv, SoleInv
<1>2. Quiet /\ OthersStay(p) /\ upstream' = upstream
  BY <1>1 DEF AnswerData, AnswerNoData, Quiet, OthersStay, ClientTypes, zoneVars
<1>3. /\ step[p] = "asking" /\ step'[p] = "answered" /\ want'[p] = want[p]
      /\ want[p] \in Targets
  BY <1>1 DEF AnswerData, AnswerNoData, ClientTypes, Locals
<1>4. answer'[p].content \in {upstream[want[p]], None}
  <2>1. CASE AnswerData(p, n)
    <3>1. PICK e \in {upstream[want[p]], None} :
            answer' = [answer EXCEPT ![p] = [content |-> upstream[want[p]], tag |-> e]]
      BY <2>1 DEF AnswerData
    <3>2. QED
      BY <1>1, <3>1 DEF ClientTypes
  <2>2. CASE AnswerNoData(p, n)
    BY <1>1, <1>3, <2>2 DEF AnswerNoData, Locals, NoAnswer
  <2>3. QED
    BY <2>1, <2>2
<1>5. /\ LandingsOf(want[p])' = LandingsOf(want[p])
      /\ older' = older /\ age' = age /\ content' = content
  BY <1>2, <1>3 DEF LandingsOf, Quiet, Zone!Landed
<1>6. upstream[want[p]] \in Nat /\ \A m \in LandingsOf(want[p]) : content[m] <= upstream[want[p]]
  BY <1>1, <1>3, ClientAssumption DEF ContentsGrow, ClientTypes
<1>7. Window(p)'
  BY <1>1, <1>2, <1>3, <1>4, <1>5, <1>6 DEF Window
<1>8. QED
  BY <1>2, <1>7, QuietSole

LEMMA ReturnsSole ==
  ASSUME ClientInv, SoleInv, NEW p \in Procs,
         \/ Halt(p) \/ RejectNoData(p) \/ FinishSidecar(p) \/ Kill(p)
         \/ \E n \in 0..MaxSize : AnswerFails(p, n)
  PROVE  SoleInv'
<1>1. ClientTypes /\ Zone!ZoneTypeOK /\ Locals(p)
  BY PartsOfTypes DEF ClientInv
<1>2. Return(p) /\ upstream' = upstream
  BY DEF Halt, RejectNoData, FinishSidecar, Kill, AnswerFails
<1>3. Quiet /\ \A q \in Procs \ {p} : stage'[q] = stage[q] /\ held'[q] = held[q]
  BY <1>1 DEF Halt, RejectNoData, FinishSidecar, Kill, AnswerFails, Zone!CloseSidecar,
              Zone!Abandon, Zone!ZoneTypeOK, Quiet, zoneVars
<1>4. step'[p] = "idle" /\ OthersStay(p)
  BY <1>1, <1>2, <1>3 DEF Return, ClientTypes, OthersStay
<1>5. Window(p)'
  BY <1>4 DEF Window
<1>6. QED
  BY <1>2, <1>3, <1>4, <1>5, QuietSole

\* What one command renews is no business of the others.
LEMMA OthersKeepWindows ==
  ASSUME OneFetcherEach, ClientInv, SoleInv, NEW p \in Procs, NEW t \in Targets, t = want[p],
         step[p] # "idle", NEW n \in Names, Renewed(t, n), upstream' = upstream,
         \A m \in Zone!Landed : content'[m] = content[m],
         NEW q \in Procs \ {p},
         step'[q] = step[q], want'[q] = want[q], cached'[q] = cached[q],
         answer'[q] = answer[q], held'[q] = held[q]
  PROVE  Window(q)'
<1>1. ClientTypes /\ Locals(p) /\ Locals(q)
  BY PartsOfTypes DEF ClientInv
<1>2. PICK w : w = want[q]
  OBVIOUS
<1>3. upstream' \in [Targets -> Nat] /\ \A u \in Targets : upstream'[u] >= upstream[u]
  BY <1>1, NatTypes
<1>4. age' \in [Names -> Nat]
  <2>1. age' \in [Names -> 0..Longest]
    BY RenewKeeps
  <2>2. QED
    BY <2>1, LongestIsNat
<1>5. ASSUME step[q] # "idle"
      PROVE  /\ LandingsOf(w)' = LandingsOf(w)
             /\ \A m \in Names : IsLatest(w, m)' <=> IsLatest(w, m)
             /\ \A m \in LandingsOf(w) : age'[m] >= age[m] /\ content'[m] = content[m]
  <2>1. w \in Targets \ {t}
    BY <1>1, <1>2, <1>5 DEF Locals, OneFetcherEach
  <2>2. LandingsOf(w)' = LandingsOf(w) /\ n \notin LandingsOf(w)
    BY <2>1 DEF Renewed
  <2>3. \A m \in Names : IsLatest(w, m)' <=> IsLatest(w, m)
    BY <2>1, RenewKeeps
  <2>4. \A m \in LandingsOf(w) : m \in Names \ {n} /\ m \in Zone!Landed
    BY <2>2 DEF LandingsOf, Zone!Landed
  <2>5. \A m \in Names \ {n} : age'[m] = age[m] /\ age[m] \in Nat
    BY <1>1, RenewKeeps, NatTypes
  <2>6. QED
    BY <2>2, <2>3, <2>4, <2>5
<1>6. QED
  BY <1>2, <1>3, <1>4, <1>5, WindowStays

\* A target has one newest landing after the step as before it.
LEMMA OneNewest ==
  ASSUME MtimesOrdered', NEW t \in Targets, NEW m \in Names, NEW n \in Names,
         IsLatest(t, m)', IsLatest(t, n)'
  PROVE  m = n
<1>1. /\ m \in LandingsOf(t)' /\ LandingsOf(t)' \ {m} \subseteq older'[m]
      /\ n \in LandingsOf(t)' /\ LandingsOf(t)' \ {n} \subseteq older'[n]
  BY DEF IsLatest
<1>2. \A j, k \in Names : j \in older'[k] => k \notin older'[j]
  BY DEF MtimesOrdered
<1>3. QED
  BY <1>1, <1>2

LEMMA LandSole ==
  ASSUME OneFetcherEach, ClientInv, SoleInv, NEW p \in Procs, NEW n \in Names, Land(p, n)
  PROVE  SoleInv'
<1>1. ClientTypes /\ Zone!ZoneTypeOK /\ Locals(p) /\ Window(p) /\ ContentsGrow /\ LandingsFit
  BY PartsOfTypes DEF ClientInv, SoleInv
<1>2. PICK t \in Targets : t = want[p]
  BY <1>1 DEF Locals, Land
<1>3. /\ Renewed(t, n) /\ n \notin Zone!Landed
      /\ Zone!Landed' = Zone!Landed \union {n}
      /\ content' = [content EXCEPT ![n] = answer[p].content]
      /\ held' = [held EXCEPT ![p] = n]
  BY <1>2, LandRenews
<1>4. /\ step[p] = "answered" /\ answer[p].content # None
      /\ step' = [step EXCEPT ![p] = "landing"]
      /\ UNCHANGED <<upstream, want, cached, etag, answer>>
  BY DEF Land
<1>5. \A m \in Zone!Landed : content'[m] = content[m]
  BY <1>1, <1>3 DEF Zone!ZoneTypeOK, Zone!Landed
<1>6. content'[n] = answer[p].content
  BY <1>1, <1>3 DEF Zone!ZoneTypeOK
<1>7. MtimesOrdered' /\ IsLatest(t, n)'
  BY <1>3, RenewKeeps
<1>8. answer[p].content \in Nat /\ upstream[t] \in Nat
  BY <1>1, <1>4, NatTypes, ClientAssumption DEF ClientTypes
<1>9. /\ answer[p].content <= upstream[t]
      /\ \A m \in LandingsOf(t) : content[m] <= answer[p].content
  BY <1>1, <1>2, <1>4 DEF Window
<1>10. ContentsGrow'
  <2> SUFFICES ASSUME NEW u \in Targets, NEW k \in LandingsOf(u)'
               PROVE  /\ content'[k] <= upstream[u]
                      /\ \A m \in Names : IsLatest(u, m)' => content'[k] <= content'[m]
    BY <1>4 DEF ContentsGrow
  <2>1. CASE u = t
    <3>1. content'[k] <= answer[p].content /\ content'[k] \in Nat
      <4>1. CASE k = n
        BY <1>6, <1>8, <4>1
      <4>2. CASE k # n
        <5>1. k \in LandingsOf(t) /\ k \in Zone!Landed
          BY <1>3, <2>1, <4>2 DEF Renewed, LandingsOf
        <5>2. content[k] \in Nat
          BY <1>1, <5>1, ClientAssumption DEF LandingsFit
        <5>3. QED
          BY <1>5, <1>9, <5>1, <5>2
      <4>3. QED
        BY <4>1, <4>2
    <3>2. content'[k] <= upstream[u]
      BY <1>8, <1>9, <2>1, <3>1
    <3>3. \A m \in Names : IsLatest(u, m)' => m = n
      BY <1>7, <2>1, OneNewest
    <3>4. QED
      BY <1>6, <3>1, <3>2, <3>3
  <2>2. CASE u # t
    <3>1. /\ LandingsOf(u)' = LandingsOf(u)
          /\ \A m \in Names : IsLatest(u, m)' <=> IsLatest(u, m)
      BY <1>3, <2>2, RenewKeeps DEF Renewed
    <3>2. \A m \in Names : IsLatest(u, m) => m \in LandingsOf(u)
      BY DEF IsLatest
    <3>3. \A m \in LandingsOf(u) : content'[m] = content[m]
      BY <1>5 DEF LandingsOf
    <3>4. /\ content[k] <= upstream[u]
          /\ \A m \in Names : IsLatest(u, m) => content[k] <= content[m]
      BY <1>1, <3>1 DEF ContentsGrow
    <3>5. QED
      BY <3>1, <3>2, <3>3, <3>4
  <2>3. QED
    BY <2>1, <2>2
<1>11. Window(p)'
  <2>1. step'[p] = "landing" /\ want'[p] = t /\ held'[p] = n
    BY <1>1, <1>2, <1>3, <1>4 DEF ClientTypes, Zone!ZoneTypeOK
  <2>2. n \in LandingsOf(t)' /\ LandingsOf(t)' \ {n} \subseteq older'[n]
    BY <1>7 DEF IsLatest
  <2>3. LandingsOf(want[p])' = LandingsOf(t)'
    BY <2>1 DEF LandingsOf
  <2>4. QED
    BY <2>1, <2>2, <2>3 DEF Window, IsLatest
<1>12. ASSUME NEW q \in Procs \ {p} PROVE Window(q)'
  <2>1. /\ step'[q] = step[q] /\ held'[q] = held[q] /\ want'[q] = want[q]
        /\ cached'[q] = cached[q] /\ answer'[q] = answer[q]
    BY <1>1, <1>3, <1>4 DEF ClientTypes, Zone!ZoneTypeOK
  <2>2. QED
    BY <1>2, <1>3, <1>4, <1>5, <2>1, OthersKeepWindows
<1>13. QED
  BY <1>10, <1>11, <1>12 DEF SoleInv

\* Renewing the landing that is the newest already changes no order of contents.
LEMMA SameNewest ==
  ASSUME ClientInv, SoleInv, NEW t \in Targets, NEW n \in Names, Renewed(t, n), IsLatest(t, n),
         content' = content, upstream' = upstream, \A u : LandingsOf(u)' = LandingsOf(u)
  PROVE  ContentsGrow'
<1>1. ClientTypes
  BY PartsOfTypes
<1>2. MtimesOrdered' /\ IsLatest(t, n)'
  BY RenewKeeps
<1>3. ASSUME NEW u \in Targets, NEW m \in Names, IsLatest(u, m)' PROVE IsLatest(u, m)
  <2>1. CASE u = t
    <3>1. m = n
      BY <1>2, <1>3, <2>1, OneNewest
    <3>2. QED
      BY <2>1, <3>1
  <2>2. CASE u # t
    BY <1>3, <2>2, RenewKeeps
  <2>3. QED
    BY <2>1, <2>2
<1>4. upstream' \in [Targets -> Nat] /\ \A u \in Targets : upstream'[u] >= upstream[u]
  BY <1>1, NatTypes
<1>5. QED
  BY <1>3, <1>4, ContentsStay

LEMMA FinishSole ==
  ASSUME OneFetcherEach, ClientInv, SoleInv, NEW p \in Procs, FinishPayload(p)
  PROVE  SoleInv'
<1>1. ClientTypes /\ Locals(p) /\ Window(p)
  BY PartsOfTypes DEF ClientInv, SoleInv
<1>2. PICK t : t = want[p]
  OBVIOUS
<1>3. PICK n : n = held[p]
  OBVIOUS
<1>4. /\ t \in Targets /\ n \in Names /\ Renewed(t, n)
      /\ (\A u : LandingsOf(u)' = LandingsOf(u)) /\ content' = content /\ held' = held
  BY <1>2, <1>3, FinishRenews
<1>5. step[p] = "landing" /\ UNCHANGED <<upstream, step, want, cached, etag, answer>>
  BY DEF FinishPayload
<1>6. ContentsGrow'
  BY <1>1, <1>2, <1>3, <1>4, <1>5, SameNewest DEF Window
<1>7. Window(p)'
  <2>1. n \in LandingsOf(t)' /\ LandingsOf(t)' \ {n} \subseteq older'[n]
    BY <1>4, RenewKeeps DEF IsLatest
  <2>2. LandingsOf(want[p])' = LandingsOf(t)'
    BY <1>2, <1>5 DEF LandingsOf
  <2>3. QED
    BY <1>2, <1>3, <1>4, <1>5, <2>1, <2>2 DEF Window, IsLatest
<1>8. ASSUME NEW q \in Procs \ {p} PROVE Window(q)'
  BY <1>2, <1>4, <1>5, OthersKeepWindows
<1>9. QED
  BY <1>6, <1>7, <1>8 DEF SoleInv

LEMMA TouchSole ==
  ASSUME OneFetcherEach, ClientInv, SoleInv, NEW p \in Procs, Touch(p)
  PROVE  SoleInv'
<1>1. ClientTypes /\ Locals(p) /\ Window(p)
  BY PartsOfTypes DEF ClientInv, SoleInv
<1>2. PICK t : t = want[p]
  OBVIOUS
<1>3. PICK n : n = cached[p]
  OBVIOUS
<1>4. /\ t \in Targets /\ n \in Names /\ Renewed(t, n)
      /\ (\A u : LandingsOf(u)' = LandingsOf(u)) /\ UNCHANGED zoneVars
  BY <1>2, <1>3, TouchRenews
<1>5. step[p] = "touching" /\ Return(p) /\ upstream' = upstream
  BY DEF Touch
<1>6. content' = content /\ held' = held
  BY <1>4 DEF zoneVars
<1>7. IsLatest(t, n)
  BY <1>1, <1>2, <1>3, <1>5 DEF Window, Locals
<1>8. ContentsGrow'
  BY <1>4, <1>5, <1>6, <1>7, SameNewest
<1>9. step'[p] = "idle"
  BY <1>1, <1>5 DEF Return, ClientTypes
<1>10. Window(p)'
  BY <1>9 DEF Window
<1>11. ASSUME NEW q \in Procs \ {p} PROVE Window(q)'
  <2>1. /\ step'[q] = step[q] /\ want'[q] = want[q] /\ cached'[q] = cached[q]
        /\ answer'[q] = answer[q]
    BY <1>1, <1>5 DEF Return, ClientTypes
  <2>2. QED
    BY <1>2, <1>4, <1>5, <1>6, <2>1, OthersKeepWindows
<1>12. QED
  BY <1>8, <1>10, <1>11 DEF SoleInv

LEMMA WorldSole ==
  ASSUME ClientInv, SoleInv,
         Tick \/ NewDay \/ (\E t \in Targets : Publish(t)) \/ UNCHANGED vars
  PROVE  SoleInv'
<1>1. ClientTypes
  BY PartsOfTypes
<1>2. UNCHANGED <<zoneVars, older, step, want, cached, etag, answer>>
  BY DEF Tick, NewDay, Publish, vars, clientVars
<1>3. \A t, n : LandingsOf(t)' = LandingsOf(t) /\ (IsLatest(t, n)' <=> IsLatest(t, n))
  BY <1>2 DEF LandingsOf, Zone!Landed, IsLatest, zoneVars
<1>4. age' \in [Names -> Nat] /\ \A n \in Names : age'[n] >= age[n]
  <2>1. CASE Tick
    BY <1>1, <2>1, NatTypes DEF Tick
  <2>2. CASE age' = age
    BY <1>1, <2>2, NatTypes
  <2>3. QED
    BY <2>1, <2>2 DEF NewDay, Publish, vars, clientVars
<1>5. upstream' \in [Targets -> Nat] /\ \A t \in Targets : upstream'[t] >= upstream[t]
  <2>1. CASE \E t \in Targets : Publish(t)
    BY <1>1, <2>1, NatTypes DEF Publish
  <2>2. CASE upstream' = upstream
    BY <1>1, <2>2, NatTypes
  <2>3. QED
    BY <2>1, <2>2 DEF Tick, NewDay, vars, clientVars
<1>6. ContentsGrow'
  BY <1>2, <1>3, <1>5, ContentsStay DEF zoneVars
<1>7. ASSUME NEW q \in Procs PROVE Window(q)'
  <2>1. \A t : LandingsOf(t) \subseteq Names
    BY DEF LandingsOf, Zone!Landed
  <2>2. QED
    BY <1>2, <1>3, <1>4, <1>5, <2>1, WindowStays DEF zoneVars
<1>8. QED
  BY <1>6, <1>7 DEF SoleInv

LEMMA SoleInvStep == OneFetcherEach /\ ClientInv /\ SoleInv /\ [Next]_vars => SoleInv'
<1> SUFFICES ASSUME OneFetcherEach, ClientInv, SoleInv, [Next]_vars PROVE SoleInv'
  OBVIOUS
<1>1. ASSUME NEW p \in Procs, ClientStep(p) PROVE SoleInv'
  BY <1>1, MissSole, ReturnsSole, AsksSole, AnswersSole, LandSole, FinishSole, TouchSole
     DEF ClientStep
<1>2. QED
  BY <1>1, WorldSole DEF Next

\* As long as no target has two commands, none of them asks, or is about to, while a
\* landing of its target is inside its window.
THEOREM WindowsAreKept ==
  ASSUME OneFetcherEach
  PROVE  Spec => []NoRequestWhileFresh
<1>1. SoleInv => NoRequestWhileFresh
  BY DEF SoleInv, Window, NoRequestWhileFresh, LandingsOf
<1>2. QED
  BY <1>1, ClientInvInit, ClientInvStep, SoleInvInit, SoleInvStep, PTL DEF Spec

\* As long as no target has two commands, the file that the next look finds has the
\* newest content that was ever landed.
THEOREM NewestFileHasNewestContent ==
  ASSUME OneFetcherEach
  PROVE  Spec => []LatestIsNewest
<1>1. ClientInv /\ SoleInv => LatestIsNewest
  <2> SUFFICES ASSUME ClientInv, SoleInv, NEW t \in Targets, NEW n \in Zone!Landed,
                      target[n] = t
               PROVE  content[n] <= content[Latest(t)]
    BY DEF LatestIsNewest
  <2>1. n \in LandingsOf(t)
    BY DEF LandingsOf
  <2>2. PICK m \in Names : IsLatest(t, m)
    BY <2>1 DEF ClientInv, MtimesOrdered
  <2>3. Latest(t) = m
    BY <2>2, LatestIsFound DEF ClientInv
  <2>4. QED
    BY <2>1, <2>2, <2>3 DEF SoleInv, ContentsGrow
<1>2. QED
  BY <1>1, ClientInvInit, ClientInvStep, SoleInvInit, SoleInvStep, PTL DEF Spec
=============================================================================
