------------------------------ MODULE Pipeline ------------------------------
(***************************************************************************)
(* The scheduled pipeline (airflow/dags/sat_tracker_pipeline.py): a run    *)
(* every two hours over five commands, with retries.  The other modules    *)
(* have the commands' insides; here a command reads when it begins and     *)
(* writes when it ends.                                                    *)
(*                                                                         *)
(* Data is the time of the landing it comes from.  The scheduler is        *)
(* modelled by what the DAG asks of it: a task follows its upstreams'      *)
(* success, is tried again when its command fails, and takes its           *)
(* downstreams with it when it fails for good.                             *)
(***************************************************************************)
EXTENDS Integers

CONSTANTS
  Slots,        \* places for a run; max_active_runs keeps all but one free
  Period,       \* SCHEDULE
  Ttl,          \* each feed's cache window
  MaxAttempts,  \* the first attempt and `retries`
  MaxClock,     \* bound: hours
  MaxFaults     \* bound: attempts that fail

Feeds == {"gp", "satcat"}
Ingests == {"ingest_gp", "ingest_satcat"}
Tasks == Ingests \union {"load", "transform", "propagate"}

ASSUME PipelineAssumption ==
  /\ Period \in Nat \ {0}
  /\ Ttl \in [Feeds -> Nat \ {0}]
  /\ MaxAttempts \in Nat \ {0}
  /\ MaxClock \in Nat /\ MaxFaults \in Nat

VARIABLES
  clock,     \* the hour
  due,       \* a boundary of the schedule has passed since the last run began
  active,    \* the slots whose run is not over
  started,   \* the hour a slot's run began
  state,     \* the state of each task instance
  tries,     \* its attempts so far
  asks,      \* whether a running ingest found nothing fresh and asked CelesTrak
  batch,     \* what the slot's running load, transform or propagate has read
  instant,   \* the instant its running propagate computes
  landing,   \* per feed: when the newest landing was fetched or confirmed
  bronze,    \* the newest landing loaded
  gold,      \* the landing the warehouse was last built from
  snapshot,  \* gold.position_snapshot: its instant and its data
  heard,     \* history: the answers a slot's run has had from CelesTrak, per feed
  faults     \* history: attempts that have failed

runVars == <<active, started, state, tries>>
workVars == <<asks, batch, instant>>
dataVars == <<landing, bronze, gold, snapshot>>
pastVars == <<heard, faults>>
vars == <<clock, due, runVars, workVars, dataVars, pastVars>>

Never == -1
Times == 0..MaxClock
Stamps == Times \union {Never}

FeedOf(t) == IF t = "ingest_gp" THEN "gp" ELSE "satcat"

\* Slip: the catalogue is refreshed on the side.
UpstreamGpOnly(t) ==
  CASE t \in Ingests -> {}
    [] t = "load" -> {"ingest_gp"}
    [] t = "transform" -> {"load"}
    [] t = "propagate" -> {"transform"}

\* [ingest_gp, ingest_satcat] >> load >> transform >> propagate
Upstream(t) ==
  CASE t \in Ingests -> {}
    [] t = "load" -> Ingests
    [] t = "transform" -> {"load"}
    [] t = "propagate" -> {"transform"}

Over == {"success", "failed", "upstream_failed"}

TypeOK ==
  /\ clock \in Times
  /\ due \in BOOLEAN
  /\ active \subseteq Slots
  /\ started \in [Slots -> Times]
  /\ state \in [Slots -> [Tasks -> Over \union {"none", "running", "up_for_retry"}]]
  /\ tries \in [Slots -> [Tasks -> 0..MaxAttempts]]
  /\ asks \in [Slots -> [Feeds -> BOOLEAN]]
  /\ batch \in [Slots -> [Feeds -> Stamps]]
  /\ instant \in [Slots -> Times]
  /\ landing \in [Feeds -> Stamps]
  /\ bronze \in [Feeds -> Stamps]
  /\ gold \in [Feeds -> Stamps]
  /\ snapshot \in [at : Stamps, data : [Feeds -> Stamps]]
  /\ heard \in [Slots -> [Feeds -> Nat]]
  /\ faults \in 0..MaxFaults

Nothing == [f \in Feeds |-> Never]

Init ==
  /\ clock = 0
  /\ due = TRUE
  /\ active = {}
  /\ started = [s \in Slots |-> 0]
  /\ state = [s \in Slots |-> [t \in Tasks |-> "none"]]
  /\ tries = [s \in Slots |-> [t \in Tasks |-> 0]]
  /\ asks = [s \in Slots |-> [f \in Feeds |-> FALSE]]
  /\ batch = [s \in Slots |-> Nothing]
  /\ instant = [s \in Slots |-> 0]
  /\ landing = Nothing
  /\ bronze = Nothing
  /\ gold = Nothing
  /\ snapshot = [at |-> Never, data |-> Nothing]
  /\ heard = [s \in Slots |-> [f \in Feeds |-> 0]]
  /\ faults = 0

-----------------------------------------------------------------------------
\* catchup=False: boundaries that pass while a run is active leave one run to make.
Tick ==
  /\ clock < MaxClock
  /\ clock' = clock + 1
  /\ due' = (due \/ (clock + 1) % Period = 0)
  /\ UNCHANGED <<runVars, workVars, dataVars, pastVars>>

BeginRun(s) ==
  /\ due
  /\ due' = FALSE
  /\ active' = active \union {s}
  /\ started' = [started EXCEPT ![s] = clock]
  /\ UNCHANGED <<clock, state, tries, workVars, dataVars, pastVars>>

\* Slip: a run counts as over when its last task has begun.
StartRunEarly(s) ==
  /\ \A r \in active : r # s /\ state[r]["propagate"] # "none"
  /\ BeginRun(s)

\* max_active_runs=1
StartRun(s) == active = {} /\ BeginRun(s)

\* A run is over when every task instance is.
EndRun(s) ==
  /\ s \in active
  /\ \A t \in Tasks : state[s][t] \in Over
  /\ active' = active \ {s}
  /\ started' = [started EXCEPT ![s] = 0]
  /\ state' = [state EXCEPT ![s] = [t \in Tasks |-> "none"]]
  /\ tries' = [tries EXCEPT ![s] = [t \in Tasks |-> 0]]
  /\ heard' = [heard EXCEPT ![s] = [f \in Feeds |-> 0]]
  /\ UNCHANGED <<clock, due, workVars, dataVars, faults>>

Waiting == {"none", "up_for_retry"}

\* Its first attempt once all upstreams have succeeded, or another after retry_delay.
Ready(s, t) == state[s][t] \in Waiting /\ \A u \in Upstream(t) : state[s][u] = "success"

\* Slip: only the failure of a direct upstream is passed on.
DoomedByFailure(s, t) == state[s][t] = "none" /\ \E u \in Upstream(t) : state[s][u] = "failed"

\* A task that waits for one that has failed will not run.
Doomed(s, t) ==
  state[s][t] = "none" /\ \E u \in Upstream(t) : state[s][u] \in {"failed", "upstream_failed"}

GiveUp(s, t) ==
  /\ s \in active
  /\ Doomed(s, t)
  /\ state' = [state EXCEPT ![s][t] = "upstream_failed"]
  /\ UNCHANGED <<clock, due, active, started, tries, workVars, dataVars, pastVars>>

Begin(s, t) ==
  /\ s \in active
  /\ Ready(s, t)
  /\ state' = [state EXCEPT ![s][t] = "running"]
  /\ tries' = [tries EXCEPT ![s][t] = @ + 1]

\* What the command has read ends with it.
Forget(s, t) ==
  IF t \in Ingests
    THEN /\ asks' = [asks EXCEPT ![s][FeedOf(t)] = FALSE]
         /\ UNCHANGED <<batch, instant>>
    ELSE /\ batch' = [batch EXCEPT ![s] = Nothing]
         /\ instant' = [instant EXCEPT ![s] = 0]
         /\ UNCHANGED asks

\* The command exits with 0.
Succeed(s, t) ==
  /\ state[s][t] = "running"
  /\ state' = [state EXCEPT ![s][t] = "success"]
  /\ Forget(s, t)
  /\ UNCHANGED <<clock, due, active, started, tries, faults>>

\* Slip: one attempt too many.
FailOnceMore(s, t) ==
  /\ state[s][t] = "running"
  /\ faults < MaxFaults
  /\ faults' = faults + 1
  /\ state' = [state EXCEPT ![s][t] =
                 IF tries[s][t] <= MaxAttempts THEN "up_for_retry" ELSE "failed"]
  /\ Forget(s, t)
  /\ UNCHANGED <<clock, due, active, started, tries>>

\* It raises, or its task is killed and the command with it.
Fail(s, t) ==
  /\ state[s][t] = "running"
  /\ faults < MaxFaults
  /\ faults' = faults + 1
  /\ state' = [state EXCEPT ![s][t] =
                 IF tries[s][t] < MaxAttempts THEN "up_for_retry" ELSE "failed"]
  /\ Forget(s, t)
  /\ UNCHANGED <<clock, due, active, started, tries>>

-----------------------------------------------------------------------------
Fresh(f) == landing[f] # Never /\ clock - landing[f] < Ttl[f]

\* Slip: a retry does not look at the cache.
BeginIngestRetryAsks(s, t) ==
  /\ t \in Ingests
  /\ asks' = [asks EXCEPT ![s][FeedOf(t)] =
                state[s][t] = "up_for_retry" \/ ~Fresh(FeedOf(t))]
  /\ Begin(s, t)
  /\ UNCHANGED <<clock, due, active, started, batch, instant, dataVars, pastVars>>

\* sat-tracker-ingest, sat-tracker-satcat: look for a fresh landing, or ask.
BeginIngest(s, t) ==
  /\ t \in Ingests
  /\ asks' = [asks EXCEPT ![s][FeedOf(t)] = ~Fresh(FeedOf(t))]
  /\ Begin(s, t)
  /\ UNCHANGED <<clock, due, active, started, batch, instant, dataVars, pastVars>>

\* CelesTrak has answered a command that asked.
Hear(s, f) == heard' = IF asks[s][f] THEN [heard EXCEPT ![s][f] = @ + 1] ELSE heard

\* Both answers that are accepted, 200 and 304, make the newest landing current.
Answered(s, f) ==
  /\ Hear(s, f)
  /\ landing' = IF asks[s][f] THEN [landing EXCEPT ![f] = clock] ELSE landing

\* --load: the landing the command got back is in the warehouse's bronze layer.
EndIngest(s, t) ==
  /\ t \in Ingests
  /\ Answered(s, FeedOf(t))
  /\ bronze' = [bronze EXCEPT ![FeedOf(t)] = landing'[FeedOf(t)]]
  /\ Succeed(s, t)
  /\ UNCHANGED <<gold, snapshot>>

\* No answer; an answer that does not land (a fatal status, no data, a kill before the bytes
\* are written); or an answer that lands and is not loaded.
FailIngest(s, t) ==
  /\ t \in Ingests
  /\ \/ UNCHANGED <<landing, heard>>
     \/ Hear(s, FeedOf(t)) /\ UNCHANGED landing
     \/ Answered(s, FeedOf(t))
  /\ Fail(s, t)
  /\ UNCHANGED <<bronze, gold, snapshot>>

\* sat-tracker-load lists the landings, sat-tracker-transform reads bronze.
BeginStage(s, t) ==
  /\ t \in {"load", "transform"}
  /\ batch' = [batch EXCEPT ![s] = IF t = "load" THEN landing ELSE bronze]
  /\ Begin(s, t)
  /\ UNCHANGED <<clock, due, active, started, asks, instant, dataVars, pastVars>>

\* The feeds in done, out of those the command has read, replace what layer had.
Filled(layer, s, done) == [f \in Feeds |-> IF f \in done THEN batch[s][f] ELSE layer[f]]

EndLoad(s) ==
  /\ bronze' = Filled(bronze, s, Feeds)
  /\ Succeed(s, "load")
  /\ UNCHANGED <<landing, gold, snapshot, heard>>

\* The datasets are loaded one after the other, each in a transaction.
FailLoad(s) ==
  /\ \E done \in SUBSET Feeds : bronze' = Filled(bronze, s, done)
  /\ Fail(s, "load")
  /\ UNCHANGED <<landing, gold, snapshot, heard>>

EndTransform(s) ==
  /\ gold' = Filled(gold, s, Feeds)
  /\ Succeed(s, "transform")
  /\ UNCHANGED <<landing, bronze, snapshot, heard>>

\* A model or a test fails: what was built by then stays.
FailTransform(s) ==
  /\ \E done \in SUBSET Feeds : gold' = Filled(gold, s, done)
  /\ Fail(s, "transform")
  /\ UNCHANGED <<landing, bronze, snapshot, heard>>

\* sat-tracker-propagate fixes its instant and reads the serving view.
BeginPropagate(s) ==
  /\ instant' = [instant EXCEPT ![s] = clock]
  /\ batch' = [batch EXCEPT ![s] = gold]
  /\ Begin(s, "propagate")
  /\ UNCHANGED <<clock, due, active, started, asks, dataVars, pastVars>>

Publish(s) == snapshot' = [at |-> instant[s], data |-> batch[s]]

\* The map is replaced.  A command that finds no element sets, or none that SGP4 accepts,
\* writes nothing and exits with 0 as well.
EndPropagate(s) ==
  /\ Publish(s) \/ UNCHANGED snapshot
  /\ Succeed(s, "propagate")
  /\ UNCHANGED <<landing, bronze, gold, heard>>

\* The transaction rolls back, or commits and the command dies after it.
FailPropagate(s) ==
  /\ UNCHANGED snapshot \/ Publish(s)
  /\ Fail(s, "propagate")
  /\ UNCHANGED <<landing, bronze, gold, heard>>

BeginTask(s) ==
  \/ \E t \in Tasks : BeginIngest(s, t) \/ BeginStage(s, t)
  \/ BeginPropagate(s)

EndTask(s) ==
  \/ \E t \in Tasks : EndIngest(s, t)
  \/ EndLoad(s) \/ EndTransform(s) \/ EndPropagate(s)

FailTask(s) ==
  \/ \E t \in Tasks : FailIngest(s, t)
  \/ FailLoad(s) \/ FailTransform(s) \/ FailPropagate(s)

RunStep(s) ==
  \/ StartRun(s) \/ EndRun(s) \/ BeginTask(s) \/ EndTask(s)
  \/ \E t \in Tasks : GiveUp(s, t)

Next == Tick \/ \E s \in Slots : RunStep(s) \/ FailTask(s)

Spec == Init /\ [][Next]_vars

\* The scheduler keeps scheduling and a command that is not killed ends.
Fairness == WF_vars(\E s \in Slots : RunStep(s))

FairSpec == Spec /\ Fairness

-----------------------------------------------------------------------------
\* The map's instant never moves back, although every propagate fixes its instant when
\* it starts and commits when it is done: no run overtakes another
\* (snapshot_writer.py:92; cli.py:213-238).
SnapshotNeverGoesBack == [][snapshot.at <= snapshot'.at]_vars

\* An answer that has landed keeps its window: no task, first attempt or retry, in this run or
\* a later one, is answered for the feed again until a whole window has passed
\* (celestrak_client.py:413; "a retry inside the cache window makes no request at all",
\* sat_tracker_pipeline.py:15-16).  An answer that does not land opens no window.
NoAnswerInsideWindow ==
  [][\A s \in Slots : \A f \in Feeds :
       heard'[s][f] > heard[s][f] /\ landing[f] # Never => clock - landing[f] >= Ttl[f]]_vars

\* Whatever is put on the map, by a propagate that succeeds or by one that is killed after its
\* commit, is computed after the run began and from landings of both feeds that were inside
\* their windows then or are newer: retries and partial failures never let an older element
\* set or catalogue through (sat_tracker_pipeline.py:23-29, 111-115).
PublishedIsCurrent ==
  [][snapshot' # snapshot =>
       \E s \in active :
         /\ snapshot'.at >= started[s]
         /\ \A f \in Feeds :
              snapshot'.data[f] # Never /\ snapshot'.data[f] > started[s] - Ttl[f]]_vars

\* A running task can end, a ready one begin and a doomed one be given up.
CanMove(s, t) == state[s][t] = "running" \/ Ready(s, t) \/ Doomed(s, t)

\* No run ever waits for itself: until all of its tasks are over one of them can move, after
\* any mixture of successes, retries and failures of the two ingests and what follows them
\* (sat_tracker_pipeline.py:44-51, 111-115).  A run that cannot end would hold the only
\* place there is (line 95).
NoRunIsStuck ==
  \A s \in active : (\E t \in Tasks : state[s][t] \notin Over) => \E t \in Tasks : CanMove(s, t)

\* The moves a task can still make: two for each attempt, and to stop waiting.
MovesLeft(s, t) ==
  2 * (MaxAttempts - tries[s][t]) +
    (CASE state[s][t] = "running" -> 2 [] state[s][t] \in Waiting -> 1 [] OTHER -> 0)

\* No run goes on for ever: whatever succeeds, fails or is tried again takes one of the moves
\* its task has left, gives no other task more of them, and there are never fewer than none
\* (sat_tracker_pipeline.py:44-51).
MovesRunOut ==
  [][\A s \in active : s \in active' /\ state'[s] # state[s] =>
       \E t \in Tasks : /\ MovesLeft(s, t)' \in 0..(MovesLeft(s, t) - 1)
                       /\ \A u \in Tasks \ {t} : MovesLeft(s, u)' = MovesLeft(s, u)]_vars

\* No boundary of the schedule waits for ever: the run before it ends, however often its
\* commands fail.
EveryBoundaryIsServed == due ~> ~due
=============================================================================
