---------------------------- MODULE SnapshotWriter ----------------------------
(***************************************************************************)
(* `sat-tracker-propagate` (cli.py) over load_propagatable_elsets and      *)
(* propagate (propagate/elements.py) and write_position_snapshot           *)
(* (storage/snapshot_writer.py), with the queries that read the table.     *)
(*                                                                         *)
(* Postgres is modelled by what the writer relies on: TRUNCATE takes an    *)
(* ACCESS EXCLUSIVE lock that readers and other writers wait for, the      *)
(* statements of a transaction are seen by others at its commit, and a     *)
(* transaction that ends any other way leaves the table as it was.         *)
(***************************************************************************)
EXTENDS Naturals

CONSTANTS
  Writers,   \* the propagate commands
  Readers,   \* the sessions that query the table
  Sats,      \* the values of norad_cat_id
  MaxRuns,   \* bound: propagate commands started
  None       \* nobody holds the lock

ASSUME WriterAssumption == MaxRuns \in Nat /\ None \notin Writers

VARIABLES
  eligible,  \* the satellites in gold.fact_propagatable_elset
  runs,      \* commands started so far; a run's number is its snapshot_ts
  at,        \* where each command is
  instant,   \* `when`
  elsets,    \* `elsets`
  batch,     \* `positions`, as <<snapshot_ts, norad_cat_id>>
  lock,      \* the holder of ACCESS EXCLUSIVE
  work,      \* the table as the lock holder's transaction sees it
  table,     \* the table as committed
  view       \* what each reader saw last

vars == <<eligible, runs, at, instant, elsets, batch, lock, work, table, view>>

Rows == (1..MaxRuns) \X Sats

TypeOK ==
  /\ eligible \subseteq Sats
  /\ runs \in 0..MaxRuns
  /\ at \in [Writers -> {"idle", "loaded", "ready", "copy"}]
  /\ instant \in [Writers -> 0..MaxRuns]
  /\ elsets \in [Writers -> SUBSET Sats]
  /\ batch \in [Writers -> SUBSET Rows]
  /\ lock \in Writers \union {None}
  /\ work \subseteq Rows
  /\ table \subseteq Rows
  /\ view \in [Readers -> SUBSET Rows]

Init ==
  /\ eligible = {}
  /\ runs = 0
  /\ at = [w \in Writers |-> "idle"]
  /\ instant = [w \in Writers |-> 0]
  /\ elsets = [w \in Writers |-> {}]
  /\ batch = [w \in Writers |-> {}]
  /\ lock = None
  /\ work = {}
  /\ table = {}
  /\ view = [r \in Readers |-> {}]

\* The command returns, raises or dies.
Leave(w) ==
  /\ at' = [at EXCEPT ![w] = "idle"]
  /\ instant' = [instant EXCEPT ![w] = 0]
  /\ elsets' = [elsets EXCEPT ![w] = {}]
  /\ batch' = [batch EXCEPT ![w] = {}]

-----------------------------------------------------------------------------
\* The transform rebuilds the view.
Rebuild(S) ==
  /\ eligible' = S
  /\ UNCHANGED <<runs, at, instant, elsets, batch, lock, work, table, view>>

\* `when` is fixed and the element sets are read; --limit keeps only some of
\* them, and with none the command prints a hint and ends.
Load(w, S) ==
  /\ at[w] = "idle"
  /\ runs < MaxRuns
  /\ S \subseteq eligible
  /\ S # {}
  /\ runs' = runs + 1
  /\ at' = [at EXCEPT ![w] = "loaded"]
  /\ instant' = [instant EXCEPT ![w] = runs + 1]
  /\ elsets' = [elsets EXCEPT ![w] = S]
  /\ UNCHANGED <<eligible, batch, lock, work, table, view>>

\* SGP4 declines some element sets, possibly all; those are left out.
Propagate(w, declined) ==
  /\ at[w] = "loaded"
  /\ declined \subseteq elsets[w]
  /\ batch' = [batch EXCEPT ![w] = {instant[w]} \X (elsets[w] \ declined)]
  /\ at' = [at EXCEPT ![w] = "ready"]
  /\ UNCHANGED <<eligible, runs, instant, elsets, lock, work, table, view>>

\* --dry-run, or no positions to write: the table is not touched.
Skip(w) ==
  /\ at[w] = "ready"
  /\ Leave(w)
  /\ UNCHANGED <<eligible, runs, lock, work, table, view>>

\* Slip: the old rows stay and the new ones are added.
TruncateNot(w) ==
  /\ at[w] = "ready"
  /\ batch[w] # {}
  /\ lock = None
  /\ lock' = w
  /\ work' = table
  /\ at' = [at EXCEPT ![w] = "copy"]
  /\ UNCHANGED <<eligible, runs, instant, elsets, batch, table, view>>

\* TRUNCATE, once the lock is free: nobody else notices yet.
Truncate(w) ==
  /\ at[w] = "ready"
  /\ batch[w] # {}
  /\ lock = None
  /\ lock' = w
  /\ work' = {}
  /\ at' = [at EXCEPT ![w] = "copy"]
  /\ UNCHANGED <<eligible, runs, instant, elsets, batch, table, view>>

\* COPY sends the positions one by one.
CopyRow(w, row) ==
  /\ at[w] = "copy"
  /\ row \in batch[w] \ work
  /\ work' = work \union {row}
  /\ UNCHANGED <<eligible, runs, at, instant, elsets, batch, lock, table, view>>

\* Slip: the commit does not wait for the COPY to end.
CommitEarly(w) ==
  /\ at[w] = "copy"
  /\ table' = work
  /\ lock' = None
  /\ work' = {}
  /\ Leave(w)
  /\ UNCHANGED <<eligible, runs, view>>

\* connection.commit() after the last one.
Commit(w) ==
  /\ at[w] = "copy"
  /\ batch[w] \subseteq work
  /\ table' = work
  /\ lock' = None
  /\ work' = {}
  /\ Leave(w)
  /\ UNCHANGED <<eligible, runs, view>>

\* Slip: the connection is not closed on an error.
FailLeaks(w) ==
  /\ at[w] # "idle"
  /\ Leave(w)
  /\ UNCHANGED <<eligible, runs, lock, work, table, view>>

\* The COPY fails, the connection breaks or the command is killed: rolled back.
Fail(w) ==
  /\ at[w] # "idle"
  /\ Leave(w)
  /\ IF lock = w THEN lock' = None /\ work' = {} ELSE UNCHANGED <<lock, work>>
  /\ UNCHANGED <<eligible, runs, table, view>>

\* A query waits for ACCESS EXCLUSIVE and then sees what is committed.
Read(r) ==
  /\ lock = None
  /\ view' = [view EXCEPT ![r] = table]
  /\ UNCHANGED <<eligible, runs, at, instant, elsets, batch, lock, work, table>>

WriterStep(w) ==
  \/ Skip(w) \/ Truncate(w) \/ Commit(w) \/ Fail(w)
  \/ \E S \in SUBSET Sats : Load(w, S) \/ Propagate(w, S)
  \/ \E row \in Rows : CopyRow(w, row)

Next ==
  \/ \E S \in SUBSET Sats : Rebuild(S)
  \/ \E w \in Writers : WriterStep(w)
  \/ \E r \in Readers : Read(r)

\* A command that is not killed finishes its transaction.
Fairness ==
  \A w \in Writers : WF_vars(Commit(w) \/ \E row \in Rows : CopyRow(w, row))

Spec == Init /\ [][Next]_vars
FairSpec == Spec /\ Fairness

-----------------------------------------------------------------------------
\* A batch is what one run computes: one instant and at least one satellite.
Batches == {{i} \X S : i \in 1..MaxRuns, S \in (SUBSET Sats) \ {{}}}

\* Whoever writes, fails or is killed while others read, the table and every reader's
\* picture hold rows of one run only: an old and a new snapshot are never mixed
\* (snapshot_writer.py:9-17, 84-92).
OneInstant ==
  \A S \in {table} \union {view[r] : r \in Readers} :
    \A x, y \in S : x[1] = y[1]

\* A reader that has seen satellites never sees an empty map again: no truncated
\* table becomes visible, and an empty result is never written
\* (snapshot_writer.py:14-21, 53-58; tests/test_snapshot_writer.py:119-128).
NeverBlank == [][\A r \in Readers : view[r] # {} => view'[r] # {}]_vars

\* No position is published for a satellite the run's query did not return or SGP4
\* declined: every published batch is whole, as some run computed it, when it
\* replaces the table (snapshot_writer.py:84-92).
PublishesWholeBatch ==
  [][table' # table => \E w \in Writers : at[w] = "copy" /\ table' = batch[w]]_vars

LockIsHeldByCopier == \A w \in Writers : at[w] = "copy" <=> lock = w

\* The lock is never left with somebody who cannot give it up, whoever fails or is killed
\* in whatever state: its holder is the one command that is copying, and the rows in the
\* table so far are its own, so that it has a row to send or can commit
\* (snapshot_writer.py:14-16, 82-92).
HolderCanFinish ==
  /\ LockIsHeldByCopier
  /\ \A w \in Writers : lock = w => batch[w] # {} /\ work \subseteq batch[w]

\* The table is the register that PositionSnapshot describes.
Register == INSTANCE PositionSnapshot WITH snapshot <- table

ImplementsRegister == Register!RegSpec

\* A reader that has to wait is let through in the end: the lock is always released
\* (snapshot_writer.py:14-16).
LockIsReleased == lock # None ~> lock = None
=============================================================================
