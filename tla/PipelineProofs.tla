--------------------------- MODULE PipelineProofs ---------------------------
(***************************************************************************)
(* The schedule for any period, windows, number of retries and number of   *)
(* failures: the map never moves back and only ever receives what was      *)
(* current when the run began, and an answer that lands keeps its window.  *)
(***************************************************************************)
EXTENDS Pipeline, TLAPS

\* A landing that was inside its window when the run in slot s began, or is newer.
Current(s, f, x) == x # Never /\ x > started[s] - Ttl[f]

Single == \A r, s \in active : r = s

Idle == \A s \in Slots : s \notin active => \A t \in Tasks : state[s][t] = "none"

\* A task that has been tried had its upstreams' success.
Order ==
  \A s \in Slots : \A t \in Tasks :
    state[s][t] \notin {"none", "upstream_failed"} =>
      \A u \in Upstream(t) : state[s][u] = "success"

\* An attempt is left for a task that has not been tried and for one up for retry.
Attempts ==
  \A s \in Slots : \A t \in Tasks :
    /\ tries[s][t] \in 0..MaxAttempts
    /\ state[s][t] \in {"none", "up_for_retry"} => tries[s][t] < MaxAttempts

Past ==
  /\ \A s \in Slots : started[s] <= clock /\ instant[s] <= clock
  /\ snapshot.at <= clock

\* A running ingest has asked because nothing was fresh, or will return what is.
Asked ==
  \A s \in active : \A t \in Ingests :
    state[s][t] = "running" =>
      IF asks[s][FeedOf(t)]
        THEN landing[FeedOf(t)] = Never \/ clock - landing[FeedOf(t)] >= Ttl[FeedOf(t)]
        ELSE Current(s, FeedOf(t), landing[FeedOf(t)])

\* What each task that is done has handed on, and each that runs has read.
IngestsFed ==
  \A s \in active : \A t \in Ingests :
    state[s][t] = "success" => Current(s, FeedOf(t), landing[FeedOf(t)])

LoadFed ==
  \A s \in active : \A f \in Feeds :
    /\ state[s]["load"] = "running" => Current(s, f, batch[s][f])
    /\ state[s]["load"] = "success" => Current(s, f, bronze[f])

TransformFed ==
  \A s \in active : \A f \in Feeds :
    /\ state[s]["transform"] = "running" => Current(s, f, batch[s][f])
    /\ state[s]["transform"] = "success" => Current(s, f, gold[f])

PropagateFed ==
  \A s \in active :
    state[s]["propagate"] = "running" =>
      /\ started[s] <= instant[s] /\ snapshot.at <= instant[s]
      /\ \A f \in Feeds : Current(s, f, batch[s][f])

Flow ==
  /\ Single /\ Idle /\ Order /\ Attempts /\ Past /\ Asked
  /\ IngestsFed /\ LoadFed /\ TransformFed /\ PropagateFed

PipelineInv == TypeOK /\ Flow

-----------------------------------------------------------------------------
LEMMA StateStep ==
  ASSUME TypeOK, NEW s \in Slots, NEW t \in Tasks, NEW v,
         state' = [state EXCEPT ![s][t] = v]
  PROVE  /\ state'[s][t] = v
         /\ \A u \in Tasks : u # t => state'[s][u] = state[s][u]
         /\ \A r \in Slots : r # s => state'[r] = state[r]
BY DEF TypeOK

LEMMA RunningStep ==
  ASSUME TypeOK, NEW s \in Slots, NEW t \in Tasks, Begin(s, t)
  PROVE  /\ state'[s][t] = "running"
         /\ \A u \in Tasks : u # t => state'[s][u] = state[s][u]
<1>1. state' = [state EXCEPT ![s][t] = "running"]
  BY DEF Begin
<1>2. state \in [Slots -> [Tasks -> Over \union {"none", "running", "up_for_retry"}]]
  BY DEF TypeOK
<1>3. QED
  BY <1>1, <1>2

LEMMA TypeInitial == Init => TypeOK
BY PipelineAssumption DEF Init, TypeOK, Times, Stamps, Never, Nothing, Over

LEMMA FlowInitial == Init => Flow
BY PipelineAssumption
   DEF Init, Flow, Single, Idle, Order, Attempts, Past, Asked, IngestsFed, LoadFed, TransformFed,
       PropagateFed, Never, Nothing

-----------------------------------------------------------------------------
\* Types, action by action.
LEMMA TypeTick == TypeOK /\ Tick => TypeOK'
BY PipelineAssumption
   DEF TypeOK, Tick, Times, runVars, workVars, dataVars, pastVars

LEMMA TypeStart == ASSUME NEW s \in Slots PROVE TypeOK /\ StartRun(s) => TypeOK'
BY DEF TypeOK, StartRun, BeginRun, workVars, dataVars, pastVars

LEMMA TypeEnd == ASSUME NEW s \in Slots PROVE TypeOK /\ EndRun(s) => TypeOK'
BY PipelineAssumption DEF TypeOK, EndRun, Times, workVars, dataVars, Over

LEMMA TypeGiveUp ==
  ASSUME NEW s \in Slots, NEW t \in Tasks PROVE TypeOK /\ GiveUp(s, t) => TypeOK'
BY DEF TypeOK, GiveUp, workVars, dataVars, pastVars, Over

\* What a task's first step and its last do to the run.
LEMMA TypeBegin ==
  ASSUME TypeOK, Attempts, NEW s \in Slots, NEW t \in Tasks, Begin(s, t)
  PROVE  /\ state' \in [Slots -> [Tasks -> Over \union {"none", "running", "up_for_retry"}]]
         /\ tries' \in [Slots -> [Tasks -> 0..MaxAttempts]]
<1>1. tries[s][t] \in 0..MaxAttempts /\ tries[s][t] < MaxAttempts
  BY DEF Attempts, Begin, Ready, Waiting
<1>2. tries[s][t] + 1 \in 0..MaxAttempts
  BY <1>1, PipelineAssumption
<1>3. QED
  BY <1>2 DEF TypeOK, Begin

LEMMA TypeFinish ==
  ASSUME TypeOK, NEW s \in Slots, NEW t \in Tasks, Succeed(s, t) \/ Fail(s, t)
  PROVE  /\ state' \in [Slots -> [Tasks -> Over \union {"none", "running", "up_for_retry"}]]
         /\ tries' \in [Slots -> [Tasks -> 0..MaxAttempts]]
         /\ asks' \in [Slots -> [Feeds -> BOOLEAN]]
         /\ batch' \in [Slots -> [Feeds -> Stamps]]
         /\ instant' \in [Slots -> Times]
         /\ faults' \in 0..MaxFaults
         /\ UNCHANGED <<clock, due, active, started>>
<1>1. state' \in [Slots -> [Tasks -> Over \union {"none", "running", "up_for_retry"}]]
  <2>1. PICK v \in {"success", "up_for_retry", "failed"} :
          state' = [state EXCEPT ![s][t] = v]
    BY DEF Succeed, Fail
  <2>2. v \in Over \union {"none", "running", "up_for_retry"}
    BY DEF Over
  <2>3. QED
    BY <2>1, <2>2 DEF TypeOK
<1>2. FeedOf(t) \in Feeds
  BY DEF FeedOf, Feeds
<1>3. 0 \in Times /\ Nothing \in [Feeds -> Stamps]
  BY PipelineAssumption DEF Times, Stamps, Nothing
<1>4. /\ asks' \in [Slots -> [Feeds -> BOOLEAN]]
      /\ batch' \in [Slots -> [Feeds -> Stamps]]
      /\ instant' \in [Slots -> Times]
  <2>1. Forget(s, t)
    BY DEF Succeed, Fail
  <2>2. CASE t \in Ingests
    <3>1. asks' = [asks EXCEPT ![s][FeedOf(t)] = FALSE] /\ UNCHANGED <<batch, instant>>
      BY <2>1, <2>2 DEF Forget
    <3>2. QED
      BY <1>2, <3>1 DEF TypeOK
  <2>3. CASE t \notin Ingests
    <3>1. /\ UNCHANGED asks
          /\ batch' = [batch EXCEPT ![s] = Nothing]
          /\ instant' = [instant EXCEPT ![s] = 0]
      BY <2>1, <2>3 DEF Forget
    <3>2. QED
      BY <1>3, <3>1 DEF TypeOK
  <2>4. QED
    BY <2>2, <2>3
<1>5. faults' \in 0..MaxFaults
  BY PipelineAssumption DEF TypeOK, Succeed, Fail
<1>6. QED
  BY <1>1, <1>4, <1>5 DEF TypeOK, Succeed, Fail

LEMMA TypeBeginIngest ==
  ASSUME TypeOK, Attempts, NEW s \in Slots, NEW t \in Tasks, BeginIngest(s, t)
  PROVE  TypeOK'
<1>1. FeedOf(t) \in Feeds /\ (~Fresh(FeedOf(t))) \in BOOLEAN
  BY DEF FeedOf, Feeds, Fresh
<1>2. asks' \in [Slots -> [Feeds -> BOOLEAN]]
  BY <1>1 DEF TypeOK, BeginIngest
<1>3. QED
  BY <1>2, TypeBegin DEF TypeOK, BeginIngest, dataVars, pastVars

LEMMA TypeBeginStage ==
  ASSUME TypeOK, Attempts, NEW s \in Slots, NEW t \in Tasks, BeginStage(s, t)
  PROVE  TypeOK'
<1>1. batch' \in [Slots -> [Feeds -> Stamps]]
  BY DEF TypeOK, BeginStage
<1>2. QED
  BY <1>1, TypeBegin DEF TypeOK, BeginStage, dataVars, pastVars

LEMMA TypeBeginPropagate ==
  ASSUME TypeOK, Attempts, NEW s \in Slots, BeginPropagate(s)
  PROVE  TypeOK'
<1>1. batch' \in [Slots -> [Feeds -> Stamps]] /\ instant' \in [Slots -> Times]
  BY DEF TypeOK, BeginPropagate
<1>2. "propagate" \in Tasks
  BY DEF Tasks
<1>3. QED
  BY <1>1, <1>2, TypeBegin DEF TypeOK, BeginPropagate, dataVars, pastVars

LEMMA TypeIngest ==
  ASSUME TypeOK, NEW s \in Slots, NEW t \in Tasks, EndIngest(s, t) \/ FailIngest(s, t)
  PROVE  TypeOK'
<1>1. Succeed(s, t) \/ Fail(s, t)
  BY DEF EndIngest, FailIngest
<1>2. FeedOf(t) \in Feeds
  BY DEF FeedOf, Feeds
<1>3. landing' \in [Feeds -> Stamps]
  BY DEF TypeOK, EndIngest, FailIngest, Answered, Stamps
<1>4. bronze' \in [Feeds -> Stamps]
  BY <1>2, <1>3 DEF TypeOK, EndIngest, FailIngest
<1>5. UNCHANGED <<gold, snapshot>>
  BY DEF EndIngest, FailIngest
<1>6. heard' \in [Slots -> [Feeds -> Nat]]
  <2>1. UNCHANGED heard \/ heard' = [heard EXCEPT ![s][FeedOf(t)] = @ + 1]
    BY DEF EndIngest, FailIngest, Answered, Hear
  <2>2. heard \in [Slots -> [Feeds -> Nat]] /\ heard[s][FeedOf(t)] + 1 \in Nat
    BY <1>2 DEF TypeOK
  <2>3. QED
    BY <1>2, <2>1, <2>2
<1>7. QED
  BY <1>1, <1>3, <1>4, <1>5, <1>6, TypeFinish DEF TypeOK

LEMMA TypeStage ==
  ASSUME TypeOK, NEW s \in Slots,
         EndLoad(s) \/ FailLoad(s) \/ EndTransform(s) \/ FailTransform(s)
  PROVE  TypeOK'
<1>1. \E t \in Tasks : Succeed(s, t) \/ Fail(s, t)
  BY DEF EndLoad, FailLoad, EndTransform, FailTransform, Tasks
<1>2. \A done \in SUBSET Feeds :
        /\ Filled(bronze, s, done) \in [Feeds -> Stamps]
        /\ Filled(gold, s, done) \in [Feeds -> Stamps]
  BY DEF TypeOK, Filled
<1>3. bronze' \in [Feeds -> Stamps] /\ gold' \in [Feeds -> Stamps]
  BY <1>2 DEF TypeOK, EndLoad, FailLoad, EndTransform, FailTransform
<1>4. UNCHANGED <<landing, snapshot, heard>>
  BY DEF EndLoad, FailLoad, EndTransform, FailTransform
<1>5. QED
  BY <1>1, <1>3, <1>4, TypeFinish DEF TypeOK

LEMMA TypePropagate ==
  ASSUME TypeOK, NEW s \in Slots, EndPropagate(s) \/ FailPropagate(s)
  PROVE  TypeOK'
<1>1. "propagate" \in Tasks /\ (Succeed(s, "propagate") \/ Fail(s, "propagate"))
  BY DEF EndPropagate, FailPropagate, Tasks
<1>2. snapshot' \in [at : Stamps, data : [Feeds -> Stamps]]
  BY DEF TypeOK, EndPropagate, FailPropagate, Publish, Stamps
<1>3. UNCHANGED <<landing, bronze, gold, heard>>
  BY DEF EndPropagate, FailPropagate
<1>4. QED
  BY <1>1, <1>2, <1>3, TypeFinish DEF TypeOK

LEMMA TypeKeeps == PipelineInv /\ [Next]_vars => TypeOK'
<1> SUFFICES ASSUME TypeOK, Attempts, [Next]_vars PROVE TypeOK'
  BY DEF PipelineInv, Flow
<1>1. CASE Tick
  BY <1>1, TypeTick
<1>2. ASSUME NEW s \in Slots, RunStep(s) PROVE TypeOK'
  BY <1>2, TypeStart, TypeEnd, TypeGiveUp, TypeBeginIngest, TypeBeginStage,
     TypeBeginPropagate, TypeIngest, TypeStage, TypePropagate
     DEF RunStep, BeginTask, EndTask
<1>3. ASSUME NEW s \in Slots, FailTask(s) PROVE TypeOK'
  BY <1>3, TypeIngest, TypeStage, TypePropagate DEF FailTask
<1>4. CASE UNCHANGED vars
  BY <1>4 DEF vars, runVars, workVars, dataVars, pastVars, TypeOK
<1>5. QED
  BY <1>1, <1>2, <1>3, <1>4 DEF Next

-----------------------------------------------------------------------------
\* The slot of a task that is under way is the one that is active.
LEMMA OneActive ==
  ASSUME TypeOK, Flow, NEW s \in Slots, NEW t \in Tasks,
         Begin(s, t) \/ Succeed(s, t) \/ Fail(s, t)
  PROVE  s \in active /\ (\A r \in active : r = s)
BY DEF TypeOK, Flow, Single, Idle, Begin, Ready, Waiting, Succeed, Fail

LEMMA UpstreamTasks == \A t \in Tasks : Upstream(t) \subseteq Tasks /\ t \notin Upstream(t)
BY DEF Upstream, Tasks, Ingests

\* What every first step of a task keeps.
LEMMA BeginKeeps ==
  ASSUME TypeOK, Flow, NEW s \in Slots, NEW t \in Tasks, Begin(s, t),
         UNCHANGED <<clock, active, started>>
  PROVE  Single' /\ Idle' /\ Order' /\ Attempts'
<1>1. /\ state'[s][t] = "running"
      /\ \A u \in Tasks : u # t => state'[s][u] = state[s][u]
      /\ \A r \in Slots : r # s => state'[r] = state[r]
  BY StateStep DEF Begin
<1>2. s \in active
  BY OneActive
<1>3. Single' /\ Idle'
  BY <1>1, <1>2 DEF Flow, Single, Idle
<1>4. \A u \in Upstream(t) : state[s][u] = "success"
  BY DEF Begin, Ready, Waiting
<1>5. state[s][t] \in {"none", "up_for_retry"}
  BY DEF Begin, Ready, Waiting
<1>6. Order'
  <2> SUFFICES ASSUME NEW r \in Slots, NEW d \in Tasks,
                      state'[r][d] \notin {"none", "upstream_failed"},
                      NEW u \in Upstream(d)
               PROVE  state'[r][u] = "success"
    BY DEF Order
  <2>1. u \in Tasks /\ u # d
    BY UpstreamTasks
  <2>2. CASE r = s /\ d = t
    BY <1>1, <1>4, <2>1, <2>2
  <2>3. CASE ~(r = s /\ d = t)
    <3>1. state[r][d] \notin {"none", "upstream_failed"}
      BY <1>1, <2>3
    <3>2. state[r][u] = "success"
      BY <3>1 DEF Flow, Order
    <3>3. ~(r = s /\ u = t)
      BY <1>5, <3>2
    <3>4. QED
      BY <1>1, <2>1, <3>2, <3>3
  <2>4. QED
    BY <2>2, <2>3
<1>7. Attempts'
  <2> SUFFICES ASSUME NEW r \in Slots, NEW d \in Tasks
               PROVE  /\ tries'[r][d] \in 0..MaxAttempts
                      /\ state'[r][d] \in {"none", "up_for_retry"} => tries'[r][d] < MaxAttempts
    BY DEF Attempts
  <2>1. tries' \in [Slots -> [Tasks -> 0..MaxAttempts]]
    BY TypeBegin DEF Flow
  <2>2. CASE r = s /\ d = t
    BY <1>1, <2>1, <2>2
  <2>3. CASE ~(r = s /\ d = t)
    <3>1. tries'[r][d] = tries[r][d]
      BY <2>3 DEF TypeOK, Begin
    <3>2. QED
      BY <1>1, <2>3, <3>1 DEF Flow, Attempts
  <2>4. QED
    BY <2>2, <2>3
<1>8. QED
  BY <1>3, <1>6, <1>7

\* What every last step of a task keeps: nothing that waits for it had begun.
LEMMA FinishKeeps ==
  ASSUME TypeOK, Flow, NEW s \in Slots, NEW t \in Tasks, Succeed(s, t) \/ Fail(s, t)
  PROVE  /\ Single' /\ Idle' /\ Order' /\ Attempts'
         /\ s \in active /\ (\A r \in active : r = s)
         /\ UNCHANGED <<clock, active, started>>
         /\ state[s][t] = "running" /\ state'[s][t] # "running"
         /\ Fail(s, t) => state'[s][t] # "success"
         /\ \A u \in Tasks : u # t => state'[s][u] = state[s][u]
<1>1. PICK v \in {"success", "up_for_retry", "failed"} :
        /\ state' = [state EXCEPT ![s][t] = v]
        /\ v = "up_for_retry" => tries[s][t] < MaxAttempts
        /\ Fail(s, t) => v # "success"
  BY DEF Succeed, Fail
<1>2. /\ state'[s][t] = v
      /\ \A u \in Tasks : u # t => state'[s][u] = state[s][u]
      /\ \A r \in Slots : r # s => state'[r] = state[r]
  BY <1>1, StateStep
<1>3. s \in active /\ (\A r \in active : r = s)
  BY OneActive
<1>4. state[s][t] = "running" /\ UNCHANGED <<clock, active, started, tries>>
  BY DEF Succeed, Fail
<1>5. Single' /\ Idle'
  BY <1>2, <1>3, <1>4 DEF Flow, Single, Idle
<1>6. Order'
  <2> SUFFICES ASSUME NEW r \in Slots, NEW d \in Tasks,
                      state'[r][d] \notin {"none", "upstream_failed"},
                      NEW u \in Upstream(d)
               PROVE  state'[r][u] = "success"
    BY DEF Order
  <2>1. u \in Tasks /\ u # d
    BY UpstreamTasks
  <2>2. state[r][d] \notin {"none", "upstream_failed"}
    BY <1>2, <1>4
  <2>3. state[r][u] = "success"
    BY <2>2 DEF Flow, Order
  <2>4. ~(r = s /\ u = t)
    BY <1>4, <2>3
  <2>5. QED
    BY <1>2, <2>1, <2>3, <2>4
<1>7. Attempts'
  BY <1>1, <1>2, <1>4 DEF Flow, Attempts
<1>8. QED
  BY <1>1, <1>2, <1>3, <1>4, <1>5, <1>6, <1>7

\* [ingest_gp, ingest_satcat] >> load >> transform >> propagate, seen from the end.
LEMMA Chain ==
  ASSUME Order, NEW s \in Slots
  PROVE  /\ state[s]["load"] \notin {"none", "upstream_failed"} =>
              \A t \in Ingests : state[s][t] = "success"
         /\ state[s]["transform"] \notin {"none", "upstream_failed"} => state[s]["load"] = "success"
         /\ state[s]["propagate"] \notin {"none", "upstream_failed"} =>
              state[s]["transform"] = "success"
BY DEF Order, Upstream, Tasks, Ingests

\* The clock, the start of a run and the landings it may compare are numbers.
LEMMA ClockFacts ==
  ASSUME TypeOK, Flow, NEW s \in Slots, NEW f \in Feeds
  PROVE  /\ clock \in Nat /\ started[s] \in Nat /\ started[s] <= clock /\ Ttl[f] \in Nat
         /\ Ttl[f] > 0 /\ Current(s, f, clock)
<1>1. /\ clock \in Nat /\ started[s] \in Nat /\ started[s] <= clock /\ Ttl[f] \in Nat
      /\ Ttl[f] > 0
  BY PipelineAssumption DEF TypeOK, Times, Flow, Past
<1>2. QED
  BY <1>1 DEF Current, Never

LEMMA FlowTick ==
  ASSUME TypeOK, Flow, Tick
  PROVE  Flow'
<1>1. Past'
  <2>1. /\ clock' = clock + 1 /\ started' = started /\ instant' = instant
        /\ snapshot' = snapshot
    BY DEF Tick, runVars, workVars, dataVars
  <2>2. /\ clock \in Int /\ snapshot.at \in Int
        /\ \A s \in Slots : started[s] \in Int /\ instant[s] \in Int
    BY PipelineAssumption DEF TypeOK, Times, Stamps, Never
  <2>3. Past
    BY DEF Flow
  <2>4. QED
    BY <2>1, <2>2, <2>3 DEF Past
<1>2. Asked'
  <2> SUFFICES ASSUME NEW s \in active, NEW t \in Ingests, state[s][t] = "running",
                      asks[s][FeedOf(t)], landing[FeedOf(t)] # Never
               PROVE  clock' - landing[FeedOf(t)] >= Ttl[FeedOf(t)]
    BY DEF Flow, Asked, Current, Tick, runVars, workVars, dataVars
  <2>1. FeedOf(t) \in Feeds /\ clock - landing[FeedOf(t)] >= Ttl[FeedOf(t)]
    BY DEF Flow, Asked, FeedOf, Feeds
  <2>2. landing[FeedOf(t)] \in Nat /\ clock \in Nat /\ Ttl[FeedOf(t)] \in Nat
    BY <2>1, PipelineAssumption DEF TypeOK, Stamps, Times
  <2>3. clock' = clock + 1
    BY DEF Tick
  <2>4. QED
    BY <2>1, <2>2, <2>3
<1>3. QED
  BY <1>1, <1>2
     DEF Flow, Tick, runVars, workVars, dataVars, Single, Idle, Order, Attempts, IngestsFed,
         LoadFed, TransformFed, PropagateFed, Current

LEMMA FlowStart ==
  ASSUME TypeOK, Flow, NEW s \in Slots, StartRun(s)
  PROVE  Flow'
<1>1. active' = {s} /\ UNCHANGED <<clock, state, tries, workVars, dataVars>>
  BY DEF StartRun, BeginRun
<1>2. \A t \in Tasks : state'[s][t] = "none"
  BY <1>1 DEF Flow, Idle, StartRun
<1>3. Single' /\ Idle' /\ Order' /\ Attempts'
  BY <1>1 DEF Flow, Single, Idle, Order, Attempts, StartRun
<1>4. Past'
  BY <1>1 DEF TypeOK, Flow, Past, StartRun, BeginRun, Times, workVars, dataVars
<1>5. Asked' /\ IngestsFed' /\ LoadFed' /\ TransformFed' /\ PropagateFed'
  BY <1>1, <1>2 DEF Asked, IngestsFed, LoadFed, TransformFed, PropagateFed, Tasks
<1>6. QED
  BY <1>3, <1>4, <1>5 DEF Flow

LEMMA FlowEnd ==
  ASSUME TypeOK, Flow, NEW s \in Slots, EndRun(s)
  PROVE  Flow'
<1>1. active' = {} /\ UNCHANGED <<clock, workVars, dataVars>>
  BY DEF Flow, Single, EndRun
<1>2. /\ \A r \in Slots \ {s} : state'[r] = state[r] /\ tries'[r] = tries[r]
      /\ \A t \in Tasks : state'[s][t] = "none" /\ tries'[s][t] = 0
  BY DEF TypeOK, EndRun
<1>3. s \in active /\ (\A r \in active : r = s)
  BY DEF Flow, Single, EndRun
<1>4. Single' /\ Idle'
  BY <1>1, <1>2, <1>3 DEF Flow, Single, Idle
<1>5. Order'
  BY <1>2 DEF Flow, Order
<1>6. Attempts'
  BY <1>2, PipelineAssumption DEF Flow, Attempts
<1>7. Past'
  BY <1>1 DEF TypeOK, Flow, Past, EndRun, Times, workVars, dataVars
<1>8. Asked' /\ IngestsFed' /\ LoadFed' /\ TransformFed' /\ PropagateFed'
  BY <1>1 DEF Asked, IngestsFed, LoadFed, TransformFed, PropagateFed
<1>9. QED
  BY <1>4, <1>5, <1>6, <1>7, <1>8 DEF Flow

LEMMA FlowGiveUp ==
  ASSUME TypeOK, Flow, NEW s \in Slots, NEW t \in Tasks, GiveUp(s, t)
  PROVE  Flow'
<1>1. /\ state'[s][t] = "upstream_failed" /\ state[s][t] = "none" /\ s \in active
      /\ \A u \in Tasks : u # t => state'[s][u] = state[s][u]
      /\ \A r \in Slots : r # s => state'[r] = state[r]
      /\ UNCHANGED <<clock, active, started, tries, workVars, dataVars>>
  <2>1. /\ state' = [state EXCEPT ![s][t] = "upstream_failed"]
        /\ state[s][t] = "none" /\ s \in active
        /\ UNCHANGED <<clock, active, started, tries, workVars, dataVars>>
    BY DEF GiveUp, Doomed
  <2>2. state \in [Slots -> [Tasks -> Over \union {"none", "running", "up_for_retry"}]]
    BY DEF TypeOK
  <2>3. QED
    BY <2>1, <2>2
<1>2. \A r \in Slots : \A u \in Tasks :
        /\ state[r][u] # "none" => state'[r][u] = state[r][u]
        /\ state'[r][u] \in {state[r][u], "upstream_failed"}
  BY <1>1
<1>3. Single' /\ Idle' /\ Attempts' /\ Past'
  BY <1>1, <1>2 DEF Flow, Single, Idle, Attempts, Past, workVars, dataVars
<1>4. Order'
  BY <1>2, UpstreamTasks DEF Flow, Order
<1>5. active \subseteq Slots /\ Ingests \subseteq Tasks /\ {"load", "transform", "propagate"} \subseteq Tasks
  BY DEF TypeOK, Tasks
<1>6. Asked' /\ IngestsFed'
  BY <1>1, <1>2, <1>5 DEF Flow, Asked, IngestsFed, Current, workVars, dataVars
<1>7. LoadFed' /\ TransformFed'
  BY <1>1, <1>2, <1>5 DEF Flow, LoadFed, TransformFed, Current, workVars, dataVars
<1>8. PropagateFed'
  BY <1>1, <1>2, <1>5 DEF Flow, PropagateFed, Current, workVars, dataVars
<1>9. QED
  BY <1>3, <1>4, <1>6, <1>7, <1>8 DEF Flow

-----------------------------------------------------------------------------
LEMMA FeedsApart ==
  /\ \A t \in Ingests : FeedOf(t) \in Feeds /\ t \in Tasks
  /\ \A t, u \in Ingests : t # u => FeedOf(t) # FeedOf(u)
  /\ \A f \in Feeds : \E t \in Ingests : FeedOf(t) = f
BY DEF FeedOf, Feeds, Ingests, Tasks

LEMMA StageTasks == {"load", "transform", "propagate"} \subseteq Tasks \ Ingests
BY DEF Tasks, Ingests

\* An ingest that finds a fresh landing finds a current one; one that does not may ask.
LEMMA LooksFirst ==
  ASSUME TypeOK, Flow, NEW s \in Slots, NEW f \in Feeds
  PROVE  IF Fresh(f) THEN Current(s, f, landing[f])
                     ELSE landing[f] = Never \/ clock - landing[f] >= Ttl[f]
<1>1. landing[f] \in Stamps
  BY DEF TypeOK
<1>2. CASE landing[f] = Never
  BY <1>2 DEF Fresh
<1>3. CASE landing[f] # Never
  <2>1. landing[f] \in Nat
    BY <1>1, <1>3 DEF Stamps, Times
  <2>2. /\ clock \in Nat /\ started[s] \in Nat /\ started[s] <= clock /\ Ttl[f] \in Nat
    BY ClockFacts
  <2>3. QED
    BY <1>3, <2>1, <2>2 DEF Fresh, Current
<1>4. QED
  BY <1>2, <1>3

LEMMA FlowBeginIngest ==
  ASSUME TypeOK, Flow, NEW s \in Slots, NEW t \in Tasks, BeginIngest(s, t)
  PROVE  Flow'
<1>1. /\ Begin(s, t) /\ t \in Ingests
      /\ UNCHANGED <<clock, active, started, batch, instant, landing, bronze, gold, snapshot>>
      /\ asks' = [asks EXCEPT ![s][FeedOf(t)] = ~Fresh(FeedOf(t))]
  BY DEF BeginIngest, dataVars
<1>2. Single' /\ Idle' /\ Order' /\ Attempts'
  BY <1>1, BeginKeeps
<1>3. /\ state'[s][t] = "running"
      /\ \A u \in Tasks : u # t => state'[s][u] = state[s][u]
  BY <1>1, RunningStep
<1>4. s \in active /\ (\A r \in active : r = s)
  BY <1>1, OneActive
<1>5. Past'
  BY <1>1 DEF Flow, Past
<1>6. Asked'
  <2> SUFFICES ASSUME NEW d \in Ingests, state'[s][d] = "running"
               PROVE  IF asks'[s][FeedOf(d)]
                        THEN \/ landing[FeedOf(d)] = Never
                             \/ clock - landing[FeedOf(d)] >= Ttl[FeedOf(d)]
                        ELSE Current(s, FeedOf(d), landing[FeedOf(d)])
    BY <1>1, <1>4 DEF Asked, Current
  <2>1. CASE d = t
    <3>1. asks'[s][FeedOf(t)] = ~Fresh(FeedOf(t))
      BY <1>1, FeedsApart DEF TypeOK
    <3>2. QED
      BY <2>1, <3>1, <1>1, FeedsApart, LooksFirst
  <2>2. CASE d # t
    <3>1. asks'[s][FeedOf(d)] = asks[s][FeedOf(d)]
      BY <1>1, <2>2, FeedsApart DEF TypeOK
    <3>2. state[s][d] = "running"
      BY <1>3, <2>2, FeedsApart
    <3>3. QED
      BY <3>1, <3>2, <1>4 DEF Flow, Asked
  <2>3. QED
    BY <2>1, <2>2
<1>7. IngestsFed'
  BY <1>1, <1>3, <1>4, FeedsApart DEF Flow, IngestsFed, Current
<1>8. LoadFed' /\ TransformFed'
  BY <1>1, <1>3, <1>4, StageTasks DEF Flow, LoadFed, TransformFed, Current
<1>9. PropagateFed'
  BY <1>1, <1>3, <1>4, StageTasks DEF Flow, PropagateFed, Current
<1>10. QED
  BY <1>2, <1>5, <1>6, <1>7, <1>8, <1>9 DEF Flow

LEMMA FlowIngest ==
  ASSUME TypeOK, Flow, NEW s \in Slots, NEW t \in Tasks, EndIngest(s, t) \/ FailIngest(s, t)
  PROVE  Flow'
<1>1. /\ t \in Ingests /\ UNCHANGED <<gold, snapshot>>
      /\ UNCHANGED landing \/ Answered(s, FeedOf(t))
      /\ Succeed(s, t) \/ Fail(s, t)
  BY DEF EndIngest, FailIngest
<1>2. /\ Single' /\ Idle' /\ Order' /\ Attempts'
      /\ s \in active /\ (\A r \in active : r = s)
      /\ UNCHANGED <<clock, active, started>>
      /\ state[s][t] = "running" /\ state'[s][t] # "running"
      /\ Fail(s, t) => state'[s][t] # "success"
      /\ \A u \in Tasks : u # t => state'[s][u] = state[s][u]
  BY <1>1, FinishKeeps
<1>3. /\ asks' = [asks EXCEPT ![s][FeedOf(t)] = FALSE]
      /\ UNCHANGED <<batch, instant>>
  BY <1>1 DEF Succeed, Fail, Forget
<1>4. Past'
  BY <1>1, <1>2, <1>3 DEF Flow, Past
<1>5. \A d \in {"load", "transform", "propagate"} : state'[s][d] \in {"none", "upstream_failed"}
  <2>1. \A d \in {"load", "transform", "propagate"} : state[s][d] \in {"none", "upstream_failed"}
    BY <1>1, <1>2, Chain DEF Flow
  <2>2. QED
    BY <2>1, <1>1, <1>2, StageTasks
<1>6. \A d \in Ingests : d # t => /\ landing'[FeedOf(d)] = landing[FeedOf(d)]
                                  /\ asks'[s][FeedOf(d)] = asks[s][FeedOf(d)]
  BY <1>1, <1>3, FeedsApart DEF TypeOK, Answered
<1>7. Asked'
  BY <1>1, <1>2, <1>6, FeedsApart DEF Flow, Asked, Current
<1>8. IngestsFed'
  <2>1. \A d \in Ingests : d # t /\ state'[s][d] = "success" =>
          Current(s, FeedOf(d), landing'[FeedOf(d)])
    BY <1>2, <1>6, FeedsApart DEF Flow, IngestsFed
  <2>2. ASSUME state'[s][t] = "success" PROVE Current(s, FeedOf(t), landing'[FeedOf(t)])
    <3>1. Answered(s, FeedOf(t))
      BY <1>2, <2>2 DEF EndIngest, FailIngest
    <3>2. CASE asks[s][FeedOf(t)]
      <4>1. landing'[FeedOf(t)] = clock
        BY <3>1, <3>2, <1>1, FeedsApart DEF TypeOK, Answered
      <4>2. QED
        BY <4>1, <1>1, FeedsApart, ClockFacts
    <3>3. CASE ~asks[s][FeedOf(t)]
      <4>1. landing' = landing
        BY <3>1, <3>3 DEF Answered
      <4>2. QED
        BY <4>1, <3>3, <1>1, <1>2 DEF Flow, Asked
    <3>4. QED
      BY <3>2, <3>3
  <2>3. QED
    BY <2>1, <2>2, <1>2 DEF IngestsFed, Current
<1>9. LoadFed' /\ TransformFed' /\ PropagateFed'
  BY <1>2, <1>5 DEF LoadFed, TransformFed, PropagateFed
<1>10. QED
  BY <1>2, <1>4, <1>7, <1>8, <1>9 DEF Flow

LEMMA FlowBeginStage ==
  ASSUME TypeOK, Flow, NEW s \in Slots, NEW t \in Tasks, BeginStage(s, t)
  PROVE  Flow'
<1>1. /\ Begin(s, t) /\ t \in {"load", "transform"}
      /\ UNCHANGED <<clock, active, started, asks, instant, landing, bronze, gold, snapshot>>
      /\ batch' = [batch EXCEPT ![s] = IF t = "load" THEN landing ELSE bronze]
  BY DEF BeginStage, dataVars
<1>2. Single' /\ Idle' /\ Order' /\ Attempts'
  BY <1>1, BeginKeeps
<1>3. /\ state'[s][t] = "running"
      /\ \A u \in Tasks : u # t => state'[s][u] = state[s][u]
  BY <1>1, RunningStep
<1>4. s \in active /\ (\A r \in active : r = s)
  BY <1>1, OneActive
<1>5. Past'
  BY <1>1 DEF Flow, Past
<1>6. Asked' /\ IngestsFed'
  <2>1. t \notin Ingests
    BY <1>1, StageTasks
  <2>2. \A u \in Ingests : u \in Tasks /\ state'[s][u] = state[s][u]
    BY <1>3, <2>1, FeedsApart
  <2>3. active' = active /\ \A r \in active : r = s
    BY <1>1, <1>4
  <2>4. Asked'
    <3>1. Asked
      BY DEF Flow
    <3>2. QED
      BY <1>1, <2>2, <2>3, <3>1 DEF Asked, Current
  <2>5. IngestsFed'
    <3>1. IngestsFed
      BY DEF Flow
    <3>2. QED
      BY <1>1, <2>2, <2>3, <3>1 DEF IngestsFed, Current
  <2>6. QED
    BY <2>4, <2>5
<1>7. \A u \in Upstream(t) : state[s][u] = "success"
  BY <1>1 DEF Begin, Ready, Waiting
<1>8. state[s][t] # "success"
  BY <1>1 DEF Begin, Ready, Waiting
<1>9. CASE t = "load"
  <2>1. state[s]["transform"] \in {"none", "upstream_failed"}
    BY <1>8, <1>9, Chain DEF Flow
  <2>2. state[s]["propagate"] \in {"none", "upstream_failed"}
    BY <2>1, Chain DEF Flow
  <2>3. \A f \in Feeds : Current(s, f, landing[f])
    BY <1>4, <1>7, <1>9, FeedsApart DEF Flow, IngestsFed, Upstream
  <2>4. batch'[s] = landing
    BY <1>1, <1>9 DEF TypeOK
  <2>5. LoadFed'
    BY <1>1, <1>3, <1>4, <1>9, <2>3, <2>4 DEF LoadFed, Current
  <2>6. TransformFed' /\ PropagateFed'
    BY <1>1, <1>3, <1>4, <1>9, <2>1, <2>2, StageTasks DEF TransformFed, PropagateFed
  <2>7. QED
    BY <1>2, <1>5, <1>6, <2>5, <2>6 DEF Flow
<1>10. CASE t = "transform"
  <2>1. state[s]["propagate"] \in {"none", "upstream_failed"}
    BY <1>8, <1>10, Chain DEF Flow
  <2>2. state[s]["load"] = "success"
    BY <1>7, <1>10 DEF Upstream
  <2>3. \A f \in Feeds : Current(s, f, bronze[f])
    BY <1>4, <2>2 DEF Flow, LoadFed
  <2>4. batch'[s] = bronze
    BY <1>1, <1>10 DEF TypeOK
  <2>5. LoadFed'
    BY <1>1, <1>3, <1>4, <1>10, <2>2, <2>3, StageTasks DEF LoadFed, Current
  <2>6. TransformFed'
    BY <1>1, <1>3, <1>4, <1>10, <2>3, <2>4 DEF TransformFed, Current
  <2>7. PropagateFed'
    BY <1>1, <1>3, <1>4, <1>10, <2>1, StageTasks DEF PropagateFed
  <2>8. QED
    BY <1>2, <1>5, <1>6, <2>5, <2>6, <2>7 DEF Flow
<1>11. QED
  BY <1>1, <1>9, <1>10

LEMMA FlowLoad ==
  ASSUME TypeOK, Flow, NEW s \in Slots, EndLoad(s) \/ FailLoad(s)
  PROVE  Flow'
<1>1. /\ UNCHANGED <<landing, gold, snapshot>>
      /\ Succeed(s, "load") \/ Fail(s, "load")
      /\ "load" \in Tasks /\ "load" \notin Ingests
  BY StageTasks DEF EndLoad, FailLoad
<1>2. /\ Single' /\ Idle' /\ Order' /\ Attempts'
      /\ s \in active /\ (\A r \in active : r = s)
      /\ UNCHANGED <<clock, active, started>>
      /\ state[s]["load"] = "running" /\ state'[s]["load"] # "running"
      /\ Fail(s, "load") => state'[s]["load"] # "success"
      /\ \A u \in Tasks : u # "load" => state'[s][u] = state[s][u]
  BY <1>1, FinishKeeps
<1>3. UNCHANGED asks /\ instant' = [instant EXCEPT ![s] = 0]
  BY <1>1 DEF Succeed, Fail, Forget
<1>4. Past'
  BY <1>1, <1>2, <1>3 DEF TypeOK, Times, Flow, Past
<1>5. state'[s]["transform"] \in {"none", "upstream_failed"}
  BY <1>2, Chain, StageTasks DEF Flow
<1>6. state'[s]["propagate"] \in {"none", "upstream_failed"}
  <2>1. state[s]["transform"] \in {"none", "upstream_failed"}
    BY <1>2, Chain DEF Flow
  <2>2. QED
    BY <1>2, <2>1, Chain, StageTasks DEF Flow
<1>7. Asked' /\ IngestsFed'
  BY <1>1, <1>2, <1>3, FeedsApart DEF Flow, Asked, IngestsFed, Current
<1>8. LoadFed'
  <2>1. ASSUME state'[s]["load"] = "success", NEW f \in Feeds PROVE Current(s, f, bronze'[f])
    <3>1. bronze'[f] = batch[s][f]
      BY <1>2, <2>1 DEF EndLoad, FailLoad, Filled
    <3>2. QED
      BY <1>2, <3>1 DEF Flow, LoadFed
  <2>2. QED
    BY <1>2, <2>1 DEF LoadFed, Current
<1>9. TransformFed' /\ PropagateFed'
  BY <1>2, <1>5, <1>6 DEF TransformFed, PropagateFed
<1>10. QED
  BY <1>2, <1>4, <1>7, <1>8, <1>9 DEF Flow

LEMMA FlowTransform ==
  ASSUME TypeOK, Flow, NEW s \in Slots, EndTransform(s) \/ FailTransform(s)
  PROVE  Flow'
<1>1. /\ UNCHANGED <<landing, bronze, snapshot>>
      /\ Succeed(s, "transform") \/ Fail(s, "transform")
      /\ "transform" \in Tasks /\ "transform" \notin Ingests
  BY StageTasks DEF EndTransform, FailTransform
<1>2. /\ Single' /\ Idle' /\ Order' /\ Attempts'
      /\ s \in active /\ (\A r \in active : r = s)
      /\ UNCHANGED <<clock, active, started>>
      /\ state[s]["transform"] = "running" /\ state'[s]["transform"] # "running"
      /\ Fail(s, "transform") => state'[s]["transform"] # "success"
      /\ \A u \in Tasks : u # "transform" => state'[s][u] = state[s][u]
  BY <1>1, FinishKeeps
<1>3. UNCHANGED asks /\ instant' = [instant EXCEPT ![s] = 0]
  BY <1>1 DEF Succeed, Fail, Forget
<1>4. Past'
  BY <1>1, <1>2, <1>3 DEF TypeOK, Times, Flow, Past
<1>5. state'[s]["load"] = "success"
  BY <1>2, Chain, StageTasks DEF Flow
<1>6. state'[s]["propagate"] \in {"none", "upstream_failed"}
  BY <1>2, Chain, StageTasks DEF Flow
<1>7. Asked' /\ IngestsFed'
  BY <1>1, <1>2, <1>3, FeedsApart DEF Flow, Asked, IngestsFed, Current
<1>8. LoadFed'
  BY <1>1, <1>2, <1>5, StageTasks DEF Flow, LoadFed, Current
<1>9. TransformFed'
  <2>1. ASSUME state'[s]["transform"] = "success", NEW f \in Feeds PROVE Current(s, f, gold'[f])
    <3>1. gold'[f] = batch[s][f]
      BY <1>2, <2>1 DEF EndTransform, FailTransform, Filled
    <3>2. QED
      BY <1>2, <3>1 DEF Flow, TransformFed
  <2>2. QED
    BY <1>2, <2>1 DEF TransformFed, Current
<1>10. PropagateFed'
  BY <1>2, <1>6 DEF PropagateFed
<1>11. QED
  BY <1>2, <1>4, <1>7, <1>8, <1>9, <1>10 DEF Flow

LEMMA FlowBeginPropagate ==
  ASSUME TypeOK, Flow, NEW s \in Slots, BeginPropagate(s)
  PROVE  Flow'
<1>1. /\ Begin(s, "propagate") /\ "propagate" \in Tasks /\ "propagate" \notin Ingests
      /\ UNCHANGED <<clock, active, started, asks, landing, bronze, gold, snapshot>>
      /\ batch' = [batch EXCEPT ![s] = gold]
      /\ instant' = [instant EXCEPT ![s] = clock]
  BY StageTasks DEF BeginPropagate, dataVars
<1>2. Single' /\ Idle' /\ Order' /\ Attempts'
  BY <1>1, BeginKeeps
<1>3. /\ state'[s]["propagate"] = "running"
      /\ \A u \in Tasks : u # "propagate" => state'[s][u] = state[s][u]
  BY <1>1, RunningStep
<1>4. s \in active /\ (\A r \in active : r = s)
  BY <1>1, OneActive
<1>5. Past'
  BY <1>1 DEF TypeOK, Times, Flow, Past
<1>6. Asked' /\ IngestsFed'
  BY <1>1, <1>3, <1>4, FeedsApart DEF Flow, Asked, IngestsFed, Current
<1>7. state[s]["transform"] = "success"
  BY <1>1 DEF Begin, Ready, Waiting, Upstream, Ingests
<1>8. state[s]["load"] = "success"
  BY <1>7, Chain DEF Flow
<1>9. LoadFed' /\ TransformFed'
  BY <1>1, <1>3, <1>4, <1>7, <1>8, StageTasks DEF Flow, LoadFed, TransformFed, Current
<1>10. batch'[s] = gold /\ instant'[s] = clock
  BY <1>1 DEF TypeOK
<1>11. \A f \in Feeds : Current(s, f, gold[f])
  BY <1>4, <1>7 DEF Flow, TransformFed
<1>12. PropagateFed'
  BY <1>1, <1>3, <1>4, <1>10, <1>11 DEF Flow, Past, PropagateFed, Current
<1>13. QED
  BY <1>2, <1>5, <1>6, <1>9, <1>12 DEF Flow

\* The instant of a commit is not older than the one it replaces.
LEMMA FlowPropagate ==
  ASSUME TypeOK, Flow, NEW s \in Slots, EndPropagate(s) \/ FailPropagate(s)
  PROVE  Flow' /\ snapshot.at <= snapshot'.at
<1>1. /\ UNCHANGED <<landing, bronze, gold>>
      /\ Succeed(s, "propagate") \/ Fail(s, "propagate")
      /\ "propagate" \in Tasks /\ "propagate" \notin Ingests
  BY StageTasks DEF EndPropagate, FailPropagate
<1>2. /\ Single' /\ Idle' /\ Order' /\ Attempts'
      /\ s \in active /\ (\A r \in active : r = s)
      /\ UNCHANGED <<clock, active, started>>
      /\ state[s]["propagate"] = "running" /\ state'[s]["propagate"] # "running"
      /\ Fail(s, "propagate") => state'[s]["propagate"] # "success"
      /\ \A u \in Tasks : u # "propagate" => state'[s][u] = state[s][u]
  BY <1>1, FinishKeeps
<1>3. UNCHANGED asks /\ instant' = [instant EXCEPT ![s] = 0]
  BY <1>1 DEF Succeed, Fail, Forget
<1>4. /\ started[s] <= instant[s] /\ snapshot.at <= instant[s]
      /\ \A f \in Feeds : Current(s, f, batch[s][f])
  BY <1>2 DEF Flow, PropagateFed
<1>5. UNCHANGED snapshot \/ Publish(s)
  BY DEF EndPropagate, FailPropagate
<1>6. snapshot.at <= snapshot'.at /\ snapshot'.at <= clock
  <2>1. snapshot.at \in Int
    BY DEF TypeOK, Stamps, Times, Never
  <2>2. CASE UNCHANGED snapshot
    BY <2>1, <2>2 DEF Flow, Past
  <2>3. CASE Publish(s)
    BY <1>4, <2>3 DEF Flow, Past, Publish
  <2>4. QED
    BY <1>5, <2>2, <2>3
<1>7. Past'
  BY <1>2, <1>3, <1>6 DEF TypeOK, Times, Flow, Past
<1>8. state[s]["transform"] = "success" /\ state[s]["load"] = "success"
  BY <1>2, Chain DEF Flow
<1>9. Asked' /\ IngestsFed'
  BY <1>1, <1>2, <1>3, FeedsApart DEF Flow, Asked, IngestsFed, Current
<1>10. LoadFed' /\ TransformFed'
  BY <1>1, <1>2, <1>8, StageTasks DEF Flow, LoadFed, TransformFed, Current
<1>11. PropagateFed'
  BY <1>2 DEF PropagateFed
<1>12. QED
  BY <1>2, <1>6, <1>7, <1>9, <1>10, <1>11 DEF Flow

-----------------------------------------------------------------------------
\* What every step keeps.
LEMMA FlowKeeps == TypeOK /\ Flow /\ [Next]_vars => Flow'
<1> SUFFICES ASSUME TypeOK, Flow, [Next]_vars PROVE Flow'
  OBVIOUS
<1>1. CASE Tick
  BY <1>1, FlowTick
<1>2. ASSUME NEW s \in Slots, RunStep(s) PROVE Flow'
  BY <1>2, FlowStart, FlowEnd, FlowGiveUp, FlowBeginIngest, FlowBeginStage,
     FlowBeginPropagate, FlowIngest, FlowLoad, FlowTransform, FlowPropagate
     DEF RunStep, BeginTask, EndTask
<1>3. ASSUME NEW s \in Slots, FailTask(s) PROVE Flow'
  BY <1>3, FlowIngest, FlowLoad, FlowTransform, FlowPropagate DEF FailTask
<1>4. CASE UNCHANGED vars
  BY <1>4 DEF vars, runVars, workVars, dataVars, Flow, Single, Idle, Order, Attempts, Past, Asked,
     IngestsFed, LoadFed, TransformFed, PropagateFed, Current
<1>5. QED
  BY <1>1, <1>2, <1>3, <1>4 DEF Next

LEMMA PipelineInvariant == Spec => []PipelineInv
<1>1. Init => PipelineInv
  BY TypeInitial, FlowInitial DEF PipelineInv
<1>2. PipelineInv /\ [Next]_vars => PipelineInv'
  BY TypeKeeps, FlowKeeps DEF PipelineInv
<1>3. QED
  BY <1>1, <1>2, PTL DEF Spec

\* TypeOK of every reachable state: no task is tried more often than its retries allow,
\* and no landing, build or map is newer than the clock (sat_tracker_pipeline.py:44-51).
THEOREM TypeCorrect == Spec => []TypeOK
<1>1. PipelineInv => TypeOK
  BY DEF PipelineInv
<1>2. QED
  BY <1>1, PipelineInvariant, PTL

\* PublishedIsCurrent: what reaches the map was computed after the run began, from landings
\* that were fresh then or are newer, also when the command is killed after its commit.
THEOREM OnlyCurrentMaps == Spec => PublishedIsCurrent
<1>1. PipelineInv /\ [Next]_vars =>
        (snapshot' # snapshot =>
           \E s \in active :
             /\ snapshot'.at >= started[s]
             /\ \A f \in Feeds :
                  snapshot'.data[f] # Never /\ snapshot'.data[f] > started[s] - Ttl[f])
  <2> SUFFICES ASSUME TypeOK, Flow, [Next]_vars, snapshot' # snapshot
               PROVE  \E s \in active :
                        /\ snapshot'.at >= started[s]
                        /\ \A f \in Feeds : Current(s, f, snapshot'.data[f])
    BY DEF PipelineInv, Current
  <2>1. PICK s \in Slots : EndPropagate(s) \/ FailPropagate(s)
    BY DEF Next, RunStep, FailTask, BeginTask, EndTask, Tick, StartRun, BeginRun, EndRun, GiveUp,
       BeginIngest, BeginStage, BeginPropagate, EndIngest, FailIngest, EndLoad, FailLoad,
       EndTransform, FailTransform, vars, dataVars
  <2>2. Publish(s)
    BY <2>1 DEF EndPropagate, FailPropagate
  <2>3. s \in active /\ state[s]["propagate"] = "running"
    BY <2>1, FinishKeeps, StageTasks DEF EndPropagate, FailPropagate
  <2>4. /\ started[s] <= instant[s]
        /\ \A f \in Feeds : Current(s, f, batch[s][f])
    BY <2>3 DEF Flow, PropagateFed
  <2>5. started[s] \in Int /\ instant[s] \in Int
    BY DEF TypeOK, Times
  <2>6. QED
    BY <2>2, <2>3, <2>4, <2>5 DEF Publish
<1>2. QED
  BY <1>1, PipelineInvariant, PTL DEF PublishedIsCurrent, Spec

\* SnapshotNeverGoesBack: one run at a time, the instants of the map follow the clock.
THEOREM MapOnlyAdvances == Spec => SnapshotNeverGoesBack
<1>1. PipelineInv /\ [Next]_vars => snapshot.at <= snapshot'.at
  <2> SUFFICES ASSUME TypeOK, Flow, [Next]_vars PROVE snapshot.at <= snapshot'.at
    BY DEF PipelineInv
  <2>1. snapshot.at \in Int
    BY DEF TypeOK, Stamps, Times, Never
  <2>2. CASE UNCHANGED snapshot
    BY <2>1, <2>2
  <2>3. CASE \E s \in Slots : EndPropagate(s) \/ FailPropagate(s)
    BY <2>3, FlowPropagate
  <2>4. UNCHANGED snapshot \/ \E s \in Slots : EndPropagate(s) \/ FailPropagate(s)
    BY DEF Next, RunStep, FailTask, BeginTask, EndTask, Tick, StartRun, BeginRun, EndRun, GiveUp,
       BeginIngest, BeginStage, BeginPropagate, EndIngest, FailIngest, EndLoad, FailLoad,
       EndTransform, FailTransform, vars, dataVars
  <2>5. QED
    BY <2>2, <2>3, <2>4
<1>2. QED
  BY <1>1, PipelineInvariant, PTL DEF SnapshotNeverGoesBack, Spec

\* NoAnswerInsideWindow: once an answer has landed, the next one of any kind for its feed is a
\* whole window later, retries and failures or not.
THEOREM WindowsAreKept == Spec => NoAnswerInsideWindow
<1>1. PipelineInv /\ [Next]_vars =>
        \A s \in Slots : \A f \in Feeds :
          heard'[s][f] > heard[s][f] /\ landing[f] # Never => clock - landing[f] >= Ttl[f]
  <2> SUFFICES ASSUME TypeOK, Flow, [Next]_vars, NEW r \in Slots, NEW f \in Feeds,
                      heard'[r][f] > heard[r][f], landing[f] # Never
               PROVE  clock - landing[f] >= Ttl[f]
    BY DEF PipelineInv
  <2>1. heard[r][f] \in Nat
    BY DEF TypeOK
  <2>2. heard' # heard
    BY <2>1
  <2>3. ASSUME NEW s \in Slots, EndRun(s) PROVE FALSE
    <3>1. heard'[r][f] \in {0, heard[r][f]}
      BY <2>3 DEF TypeOK, EndRun
    <3>2. QED
      BY <2>1, <3>1
  <2>4. \E s \in Slots : \E t \in Tasks : EndIngest(s, t) \/ FailIngest(s, t)
    BY <2>2, <2>3 DEF Next, RunStep, FailTask, BeginTask, EndTask, Tick, StartRun, BeginRun, GiveUp,
       BeginIngest, BeginStage, BeginPropagate, EndPropagate, FailPropagate, EndLoad, FailLoad,
       EndTransform, FailTransform, vars, pastVars
  <2>5. PICK s \in Slots, t \in Tasks : EndIngest(s, t) \/ FailIngest(s, t)
    BY <2>4
  <2>6. /\ t \in Ingests /\ Hear(s, FeedOf(t))
        /\ Succeed(s, t) \/ Fail(s, t)
    BY <2>2, <2>5 DEF EndIngest, FailIngest, Answered
  <2>7. asks[s][FeedOf(t)] /\ f = FeedOf(t)
    BY <2>1, <2>2, <2>6, FeedsApart DEF TypeOK, Hear
  <2>8. state[s][t] = "running" /\ s \in active
    BY <2>6, FinishKeeps
  <2>9. QED
    BY <2>6, <2>7, <2>8 DEF Flow, Asked
<1>2. QED
  BY <1>1, PipelineInvariant, PTL DEF NoAnswerInsideWindow, Spec

\* Until all tasks of a run are over, one of them runs, may begin or is given up
\* (sat_tracker_pipeline.py:44-51, 111-115): the first in the order of the task graph that is
\* not over has upstreams that are, so it has what it waits for or waits in vain.
THEOREM RunsAreNeverStuck == Spec => []NoRunIsStuck
<1>1. PipelineInv => NoRunIsStuck
  <2> SUFFICES ASSUME TypeOK, Order, NEW s \in active,
                      \A t \in Tasks : ~CanMove(s, t), NEW t \in Tasks
               PROVE  state[s][t] \in Over
    BY DEF NoRunIsStuck, PipelineInv, Flow
  <2>1. \A u \in Tasks : state[s][u] \in Over \union {"none", "up_for_retry"}
    BY DEF TypeOK, CanMove
  <2>2. ASSUME NEW u \in Tasks, \A v \in Upstream(u) : state[s][v] \in Over
        PROVE  state[s][u] \in Over
    <3>1. CASE \A v \in Upstream(u) : state[s][v] = "success"
      BY <2>1, <3>1 DEF CanMove, Ready, Waiting
    <3>2. CASE \E v \in Upstream(u) : state[s][v] # "success"
      <4>1. state[s][u] # "up_for_retry"
        BY <3>2, UpstreamTasks DEF TypeOK, Order
      <4>2. state[s][u] # "none"
        BY <2>2, <3>2 DEF CanMove, Doomed, Over
      <4>3. QED
        BY <2>1, <4>1, <4>2
    <3>3. QED
      BY <3>1, <3>2
  <2>3. \A u \in Ingests : state[s][u] \in Over
    <3> SUFFICES ASSUME NEW u \in Ingests PROVE state[s][u] \in Over
      OBVIOUS
    <3>1. u \in Tasks
      BY DEF Tasks
    <3>2. Upstream(u) = {}
      BY DEF Upstream, Ingests
    <3>3. QED
      BY <2>2, <3>1, <3>2
  <2>4. state[s]["load"] \in Over
    <3>1. "load" \in Tasks /\ Upstream("load") = Ingests
      BY DEF Upstream, Tasks, Ingests
    <3>2. QED
      BY <2>2, <2>3, <3>1
  <2>5. state[s]["transform"] \in Over
    <3>1. "transform" \in Tasks /\ Upstream("transform") = {"load"}
      BY DEF Upstream, Tasks, Ingests
    <3>2. QED
      BY <2>2, <2>4, <3>1
  <2>6. state[s]["propagate"] \in Over
    <3>1. "propagate" \in Tasks /\ Upstream("propagate") = {"transform"}
      BY DEF Upstream, Tasks, Ingests
    <3>2. QED
      BY <2>2, <2>5, <3>1
  <2>7. QED
    BY <2>3, <2>4, <2>5, <2>6 DEF Tasks
<1>2. QED
  BY <1>1, PipelineInvariant, PTL

\* A step that changes one task of a run leaves the others the moves they had.
LEMMA OneTaskMoves ==
  ASSUME TypeOK, NEW s \in Slots, NEW t \in Tasks, NEW v, NEW k,
         state' = [state EXCEPT ![s][t] = v], tries' = [tries EXCEPT ![s][t] = k]
  PROVE  /\ state'[s][t] = v /\ tries'[s][t] = k
         /\ \A u \in Tasks \ {t} : MovesLeft(s, u)' = MovesLeft(s, u)
         /\ \A r \in Slots \ {s} : state'[r] = state[r]
<1>1. \A u \in Tasks \ {t} : state'[s][u] = state[s][u] /\ tries'[s][u] = tries[s][u]
  BY DEF TypeOK
<1>2. QED
  BY <1>1 DEF TypeOK, MovesLeft

\* The moves of a task, in each of its states.
LEMMA MovesAre ==
  ASSUME TypeOK, NEW s \in Slots, NEW t \in Tasks
  PROVE  \E k \in 0..MaxAttempts :
           /\ k = MaxAttempts - tries[s][t]
           /\ state[s][t] = "running" => MovesLeft(s, t) = 2 * k + 2
           /\ state[s][t] \in Waiting => MovesLeft(s, t) = 2 * k + 1
           /\ state[s][t] \in Over => MovesLeft(s, t) = 2 * k
<1>1. tries[s][t] \in 0..MaxAttempts
  BY DEF TypeOK
<1>2. MaxAttempts - tries[s][t] \in 0..MaxAttempts
  BY <1>1, PipelineAssumption
<1>3. QED
  BY <1>2 DEF MovesLeft, Waiting, Over

LEMMA MovesNow ==
  ASSUME TypeOK', NEW s \in Slots, NEW t \in Tasks
  PROVE  \E k \in 0..MaxAttempts :
           /\ k = MaxAttempts - tries'[s][t]
           /\ state'[s][t] = "running" => MovesLeft(s, t)' = 2 * k + 2
           /\ state'[s][t] \in Waiting => MovesLeft(s, t)' = 2 * k + 1
           /\ state'[s][t] \in Over => MovesLeft(s, t)' = 2 * k
<1>1. tries'[s][t] \in 0..MaxAttempts
  BY DEF TypeOK
<1>2. MaxAttempts - tries'[s][t] \in 0..MaxAttempts
  BY <1>1, PipelineAssumption
<1>3. QED
  BY <1>2 DEF MovesLeft, Waiting, Over

\* Every step of a run takes one of finitely many moves from one task and none from the others
\* (sat_tracker_pipeline.py:46): beginning uses up an attempt, which is worth more than the
\* wait it ends; succeeding, failing or giving up ends what the task was doing.
THEOREM RunsEnd == Spec => MovesRunOut
<1>1. PipelineInv /\ TypeOK' /\ [Next]_vars =>
        \A s \in active : s \in active' /\ state'[s] # state[s] =>
          \E t \in Tasks : /\ MovesLeft(s, t)' \in 0..(MovesLeft(s, t) - 1)
                          /\ \A u \in Tasks \ {t} : MovesLeft(s, u)' = MovesLeft(s, u)
  <2> SUFFICES ASSUME TypeOK, Flow, TypeOK', [Next]_vars, NEW s \in active, s \in active',
                      state'[s] # state[s]
               PROVE  \E t \in Tasks :
                        /\ MovesLeft(s, t)' \in 0..(MovesLeft(s, t) - 1)
                        /\ \A u \in Tasks \ {t} : MovesLeft(s, u)' = MovesLeft(s, u)
    BY DEF PipelineInv
  <2> USE PipelineAssumption
  <2>1. ASSUME NEW r \in Slots, NEW t \in Tasks,
               Begin(r, t) \/ Succeed(r, t) \/ Fail(r, t) \/ GiveUp(r, t)
        PROVE  /\ r = s
               /\ MovesLeft(s, t)' \in 0..(MovesLeft(s, t) - 1)
               /\ \A u \in Tasks \ {t} : MovesLeft(s, u)' = MovesLeft(s, u)
    <3>1. PICK v, k : /\ state' = [state EXCEPT ![r][t] = v]
                      /\ tries' = [tries EXCEPT ![r][t] = k]
                      /\ \/ /\ state[r][t] \in Waiting /\ tries[r][t] < MaxAttempts
                            /\ v = "running" /\ k = tries[r][t] + 1
                         \/ /\ state[r][t] = "running" /\ v \in Over \union {"up_for_retry"}
                            /\ k = tries[r][t]
                         \/ /\ state[r][t] = "none" /\ v \in Over
                            /\ k = tries[r][t]
      <4>1. CASE Begin(r, t)
        BY <4>1 DEF Begin, Ready, Waiting, Flow, Attempts
      <4>2. tries = [tries EXCEPT ![r][t] = tries[r][t]]
        BY DEF TypeOK
      <4>3. CASE Succeed(r, t) \/ Fail(r, t)
        BY <4>2, <4>3 DEF Succeed, Fail, Over
      <4>4. CASE GiveUp(r, t)
        BY <4>2, <4>4 DEF GiveUp, Doomed, Over
      <4>5. QED
        BY <2>1, <4>1, <4>3, <4>4
    <3>2. /\ state'[r][t] = v /\ tries'[r][t] = k
          /\ \A u \in Tasks \ {t} : MovesLeft(r, u)' = MovesLeft(r, u)
          /\ r = s
      <4>1. /\ state' = [state EXCEPT ![r][t] = v]
            /\ tries' = [tries EXCEPT ![r][t] = k]
        BY <3>1
      <4>2. /\ state'[r][t] = v /\ tries'[r][t] = k
            /\ \A u \in Tasks \ {t} : MovesLeft(r, u)' = MovesLeft(r, u)
            /\ \A q \in Slots \ {r} : state'[q] = state[q]
        BY <4>1, OneTaskMoves
      <4>3. s \in Slots
        BY DEF TypeOK
      <4>4. QED
        BY <4>2, <4>3
    <3>3. PICK m \in 0..MaxAttempts :
            /\ m = MaxAttempts - tries[s][t]
            /\ state[s][t] = "running" => MovesLeft(s, t) = 2 * m + 2
            /\ state[s][t] \in Waiting => MovesLeft(s, t) = 2 * m + 1
      BY <3>2, MovesAre
    <3>4. PICK n \in 0..MaxAttempts :
            /\ n = MaxAttempts - tries'[s][t]
            /\ state'[s][t] = "running" => MovesLeft(s, t)' = 2 * n + 2
            /\ state'[s][t] \in Waiting => MovesLeft(s, t)' = 2 * n + 1
            /\ state'[s][t] \in Over => MovesLeft(s, t)' = 2 * n
      BY <3>2, MovesNow
    <3>5. tries[s][t] \in Nat
      BY DEF TypeOK
    <3>6. MovesLeft(s, t)' \in 0..(MovesLeft(s, t) - 1)
      BY <3>1, <3>2, <3>3, <3>4, <3>5 DEF Waiting, Over
    <3>7. QED
      BY <3>2, <3>6
  <2>2. \E r \in Slots : \E t \in Tasks :
          Begin(r, t) \/ Succeed(r, t) \/ Fail(r, t) \/ GiveUp(r, t)
    <3>1. ~(Tick \/ UNCHANGED vars)
      BY DEF Tick, vars, runVars
    <3>2. \A r \in Slots : ~StartRun(r)
      BY DEF StartRun
    <3>3. \A r \in Slots : ~EndRun(r)
      BY DEF EndRun, Flow, Single
    <3>4. QED
      BY <3>1, <3>2, <3>3 DEF Next, RunStep, FailTask, BeginTask, EndTask, BeginIngest,
         BeginStage, BeginPropagate, EndIngest, FailIngest, EndLoad, FailLoad, EndTransform,
         FailTransform, EndPropagate, FailPropagate, Tasks
  <2>3. QED
    BY <2>1, <2>2
<1>2. QED
  BY <1>1, PipelineInvariant, TypeCorrect, PTL DEF MovesRunOut, Spec
=============================================================================
