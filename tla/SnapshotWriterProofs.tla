------------------------- MODULE SnapshotWriterProofs -------------------------
(***************************************************************************)
(* Any number of propagate commands, overlapping and failing anywhere,     *)
(* implement the register of PositionSnapshot: readers only ever see whole *)
(* batches of one run.                                                     *)
(***************************************************************************)
EXTENDS SnapshotWriter, TLAPS

\* What a command has computed is a batch of its own instant.
BatchesAreWhole ==
  \A w \in Writers :
    /\ at[w] # "idle" => instant[w] \in 1..MaxRuns
    /\ at[w] \in {"ready", "copy"} => batch[w] \in Batches \union {{}}

\* The lock holder copies its own batch; nobody else has a transaction open.
CopyingIsExclusive ==
  /\ LockIsHeldByCopier
  /\ \A w \in Writers : at[w] = "copy" => batch[w] # {} /\ work \subseteq batch[w]

\* What has been published is whole, and a reader never got ahead of the table.
PublishedIsWhole ==
  /\ table \in Batches \union {{}}
  /\ \A r \in Readers :
       /\ view[r] \in Batches \union {{}}
       /\ view[r] # {} => table # {}

WriterInv == TypeOK /\ BatchesAreWhole /\ CopyingIsExclusive /\ PublishedIsWhole

LEMMA BatchIsRows == ASSUME NEW b \in Batches PROVE b \subseteq Rows
<1>1. PICK i \in 1..MaxRuns, S \in (SUBSET Sats) \ {{}} : b = {i} \X S
  BY DEF Batches
<1>2. QED
  BY <1>1 DEF Rows

LEMMA InstantBatch ==
  ASSUME NEW i \in 1..MaxRuns, NEW S \in SUBSET Sats
  PROVE  {i} \X S \in Batches \union {{}}
<1>1. CASE S = {}
  BY <1>1
<1>2. CASE S # {}
  <2>1. S \in (SUBSET Sats) \ {{}}
    BY <1>2
  <2>2. QED
    BY <2>1 DEF Batches
<1>3. QED
  BY <1>1, <1>2

LEMMA WriterInvInit == Init => WriterInv
  BY WriterAssumption DEF Init, WriterInv, TypeOK, BatchesAreWhole, CopyingIsExclusive,
     LockIsHeldByCopier, PublishedIsWhole

LEMMA WriterInvStep == WriterInv /\ [Next]_vars => WriterInv'
<1> SUFFICES ASSUME WriterInv, [Next]_vars PROVE WriterInv'
  OBVIOUS
<1> USE WriterAssumption
        DEF WriterInv, TypeOK, BatchesAreWhole, CopyingIsExclusive, LockIsHeldByCopier,
            PublishedIsWhole, Leave
<1>1. CASE UNCHANGED vars
  BY <1>1 DEF vars
<1>2. ASSUME NEW S \in SUBSET Sats, Rebuild(S) PROVE WriterInv'
  BY <1>2 DEF Rebuild
<1>3. ASSUME NEW r \in Readers, Read(r) PROVE WriterInv'
  BY <1>3 DEF Read
<1>4. ASSUME NEW w \in Writers, WriterStep(w) PROVE WriterInv'
  <2>1. CASE Skip(w)
    BY <2>1 DEF Skip
  <2>2. CASE Truncate(w)
    BY <2>2 DEF Truncate
  <2>3. CASE Commit(w)
    <3>1. work = batch[w] /\ batch[w] # {} /\ batch[w] \in Batches
      BY <2>3 DEF Commit
    <3>2. TypeOK' /\ BatchesAreWhole'
      BY <2>3, <3>1 DEF Commit
    <3>3. CopyingIsExclusive'
      BY <2>3 DEF Commit
    <3>4. PublishedIsWhole'
      BY <2>3, <3>1 DEF Commit
    <3>5. QED
      BY <3>2, <3>3, <3>4
  <2>4. CASE Fail(w)
    BY <2>4 DEF Fail
  <2>5. ASSUME NEW S \in SUBSET Sats, Load(w, S) PROVE WriterInv'
    BY <2>5 DEF Load
  <2>6. ASSUME NEW S \in SUBSET Sats, Propagate(w, S) PROVE WriterInv'
    <3> DEFINE b == {instant[w]} \X (elsets[w] \ S)
    <3>1. b \in Batches \union {{}}
      BY <2>6, InstantBatch DEF Propagate
    <3>2. b \subseteq Rows
      BY <3>1, BatchIsRows
    <3> HIDE DEF b
    <3>3. batch' = [batch EXCEPT ![w] = b]
      BY <2>6 DEF Propagate, b
    <3>4. QED
      BY <2>6, <3>1, <3>2, <3>3 DEF Propagate
  <2>7. ASSUME NEW row \in Rows, CopyRow(w, row) PROVE WriterInv'
    BY <2>7 DEF CopyRow
  <2>8. QED
    BY <1>4, <2>1, <2>2, <2>3, <2>4, <2>5, <2>6, <2>7 DEF WriterStep
<1>5. QED
  BY <1>1, <1>2, <1>3, <1>4 DEF Next

\* The state of the writers and of the table is well typed.
THEOREM TypeCorrect == Spec => []TypeOK
<1>1. WriterInv => TypeOK
  BY DEF WriterInv
<1>2. QED
  BY <1>1, WriterInvInit, WriterInvStep, PTL DEF Spec

\* The table and every reader's picture hold rows of one run only.
THEOREM SnapshotsNeverMix == Spec => []OneInstant
<1>1. WriterInv => OneInstant
  BY DEF WriterInv, PublishedIsWhole, OneInstant, Batches
<1>2. QED
  BY <1>1, WriterInvInit, WriterInvStep, PTL DEF Spec

\* However many writers overlap and whatever state they fail in, the lock is with the one that
\* copies, whose rows in the table so far are its own (snapshot_writer.py:82-92): it has a row
\* to send or can commit.
THEOREM LockIsNeverLeftBehind == Spec => []HolderCanFinish
<1>1. WriterInv => HolderCanFinish
  BY DEF WriterInv, CopyingIsExclusive, LockIsHeldByCopier, HolderCanFinish
<1>2. QED
  BY <1>1, WriterInvInit, WriterInvStep, PTL DEF Spec

\* The commands implement the register: every step replaces the whole snapshot, lets
\* a reader see it, or changes nothing a reader can see.
THEOREM Implementation == Spec => ImplementsRegister
<1>1. Init => Register!RegInit
  BY DEF Init, Register!RegInit
<1>2. WriterInv /\ [Next]_vars => [Register!RegNext]_Register!regVars
  <2> SUFFICES ASSUME WriterInv, [Next]_vars
               PROVE  Register!RegNext \/ UNCHANGED <<table, view>>
    BY DEF Register!regVars
  <2>1. CASE UNCHANGED vars
    BY <2>1 DEF vars
  <2>2. ASSUME NEW S \in SUBSET Sats, Rebuild(S) PROVE UNCHANGED <<table, view>>
    BY <2>2 DEF Rebuild
  <2>3. ASSUME NEW r \in Readers, Read(r) PROVE Register!RegNext
    BY <2>3 DEF Read, Register!RegNext, Register!RegRead
  <2>4. ASSUME NEW w \in Writers, Commit(w) PROVE Register!RegNext
    <3>1. work = batch[w] /\ batch[w] # {} /\ batch[w] \in Batches
      BY <2>4 DEF Commit, WriterInv, CopyingIsExclusive, BatchesAreWhole
    <3>2. Register!Replace(batch[w])
      BY <2>4, <3>1 DEF Commit, Register!Replace
    <3>3. QED
      BY <3>1, <3>2 DEF Register!RegNext
  <2>5. ASSUME NEW w \in Writers, WriterStep(w), ~Commit(w) PROVE UNCHANGED <<table, view>>
    BY <2>5 DEF WriterStep, Skip, Truncate, Fail, Load, Propagate, CopyRow
  <2>6. QED
    BY <2>1, <2>2, <2>3, <2>4, <2>5 DEF Next
<1>3. QED
  BY <1>1, <1>2, WriterInvInit, WriterInvStep, PTL DEF Spec, ImplementsRegister, Register!RegSpec

\* A reader that has seen satellites never sees an empty map again.
THEOREM MapNeverGoesBlank == Spec => NeverBlank
<1>1. WriterInv /\ [Next]_vars => [\A r \in Readers : view[r] # {} => view'[r] # {}]_vars
  <2> SUFFICES ASSUME WriterInv, Next, NEW r \in Readers, view[r] # {} PROVE view'[r] # {}
    OBVIOUS
  <2>1. ASSUME NEW q \in Readers, Read(q) PROVE view'[r] # {}
    BY <2>1 DEF Read, WriterInv, TypeOK, PublishedIsWhole
  <2>2. CASE view' = view
    BY <2>2
  <2>3. QED
    BY <2>1, <2>2 DEF Next, WriterStep, Rebuild, Skip, Truncate, Commit, Fail, Load,
                      Propagate, CopyRow
<1>2. QED
  BY <1>1, WriterInvInit, WriterInvStep, PTL DEF Spec, NeverBlank

\* The table only ever changes to the whole batch of one command that computed it.
THEOREM WholeBatchesPublished == Spec => PublishesWholeBatch
<1>1. WriterInv /\ [Next]_vars =>
        [table' # table => \E w \in Writers : at[w] = "copy" /\ table' = batch[w]]_vars
  <2> SUFFICES ASSUME WriterInv, Next, table' # table
               PROVE  \E w \in Writers : at[w] = "copy" /\ table' = batch[w]
    OBVIOUS
  <2>1. PICK w \in Writers : Commit(w)
    BY DEF Next, WriterStep, Rebuild, Skip, Truncate, Fail, Load, Propagate, CopyRow, Read
  <2>2. at[w] = "copy" /\ table' = batch[w]
    BY <2>1 DEF Commit, WriterInv, CopyingIsExclusive
  <2>3. QED
    BY <2>2
<1>2. QED
  BY <1>1, WriterInvInit, WriterInvStep, PTL DEF Spec, PublishesWholeBatch
=============================================================================
