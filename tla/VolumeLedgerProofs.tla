------------------------- MODULE VolumeLedgerProofs -------------------------
(***************************************************************************)
(* What holds of the download ledger for every budget, response size and   *)
(* bound: its type, whatever runs in parallel, and, for one command at a   *)
(* time, the bound on what a day can really download.                      *)
(***************************************************************************)
EXTENDS VolumeLedger, TLAPS

LEMMA TypeStep == TypeOK /\ [Next]_vars => TypeOK'
<1> SUFFICES ASSUME TypeOK, [Next]_vars PROVE TypeOK'
  OBVIOUS
<1> USE LedgerAssumption DEF TypeOK, Texts, Phases, Leave
<1>1. CASE UNCHANGED vars
  BY <1>1 DEF vars
<1>2. CASE Midnight
  BY <1>2 DEF Midnight
<1>3. ASSUME NEW p \in Procs, Step(p) PROVE TypeOK'
  <2>1. CASE Check(p)
    BY <2>1 DEF Check
  <2>2. CASE NotModified(p)
    BY <2>2 DEF NotModified
  <2>3. CASE ReadBack(p)
    <3>1. UsedToday \in Nat
      BY DEF UsedToday
    <3>2. QED
      BY <2>3, <3>1 DEF ReadBack
  <2>4. CASE Truncate(p)
    BY <2>4 DEF Truncate
  <2>5. CASE Write(p)
    <3>1. PICK text \in Texts :
            ledger' = [text |-> text, day |-> stamp[p], bytes |-> used[p] + pending[p]]
      BY <2>5 DEF Write, Texts
    <3>2. used[p] + pending[p] \in Nat
      OBVIOUS
    <3>3. QED
      BY <2>5, <3>1, <3>2 DEF Write
  <2>6. CASE Crash(p)
    BY <2>6 DEF Crash
  <2>7. ASSUME NEW n \in 0..MaxSize, Receive(p, n) PROVE TypeOK'
    BY <2>7 DEF Receive
  <2>8. ASSUME NEW n \in 0..MaxSize, LoseAnswer(p, n) PROVE TypeOK'
    BY <2>8 DEF LoseAnswer
  <2>9. QED
    BY <1>3, <2>1, <2>2, <2>3, <2>4, <2>5, <2>6, <2>7, <2>8 DEF Step
<1>4. QED
  BY <1>1, <1>2, <1>3 DEF Next

\* The state of the ledger is well typed however many commands share it.
THEOREM TypeCorrect == Spec => []TypeOK
<1>1. Init => TypeOK
  BY LedgerAssumption DEF Init, TypeOK, Texts, Phases
<1>2. QED
  BY <1>1, TypeStep, PTL DEF Spec

LEMMA CeilingNat == Ceiling \in Nat
  BY LedgerAssumption DEF Ceiling

\* One more lapse allows exactly one more ceiling.
LEMMA OneMoreLapse ==
  ASSUME NEW n \in Nat
  PROVE  (n + 1) * Ceiling = n * Ceiling + Ceiling
  <1> DEFINE c == Ceiling
  <1>1. c \in Nat
    BY CeilingNat
  <1> HIDE DEF c
  <1>2. (n + 1) * c = n * c + c
    BY <1>1
  <1>3. QED
    BY <1>2 DEF c

\* The accounting of one command at a time is inductive: what arrived today is in
\* the ledger, owed by the command, or covered by one ceiling per lapse.
LEMMA AccountingStep ==
  ASSUME NEW P, Procs = {P}, TypeOK, Accounting, [Next]_vars
  PROVE  Accounting'
<1> USE LedgerAssumption, CeilingNat DEF TypeOK, Texts, Phases, Accounting, UsedToday, Owed, Leave
<1> DEFINE L == lapses * Ceiling
<1>1. L \in Nat /\ Ceiling = Budget - 1 + MaxSize
  <2> DEFINE c == Ceiling
  <2>1. c \in Nat
    OBVIOUS
  <2> HIDE DEF c
  <2>2. lapses * c \in Nat
    BY <2>1
  <2>3. QED
    BY <2>2 DEF c, Ceiling
<1> HIDE DEF L
<1>2. downloaded <= L + UsedToday + Owed(P)
  BY DEF L
<1>3. ASSUME lapses' = lapses, Ceiling' = Ceiling PROVE lapses' * Ceiling' = L
  BY <1>3 DEF L
<1>4. ASSUME lapses' = lapses + 1 PROVE lapses' * Ceiling = L + Ceiling
  BY <1>4, OneMoreLapse DEF L
<1>5. CASE UNCHANGED vars
  BY <1>5 DEF vars, BudgetSpent, Ceiling
<1>10. CASE Midnight
  BY <1>10, <1>2 DEF Midnight
<1>11. CASE Check(P)
  BY <1>11, <1>2 DEF Check, BudgetSpent, L
<1>12. CASE NotModified(P)
  BY <1>12, <1>2 DEF NotModified, L
<1>13. CASE ReadBack(P)
  BY <1>13, <1>2 DEF ReadBack, L
<1>14. CASE Truncate(P)
  BY <1>14, <1>2 DEF Truncate, L
<1>15. CASE Write(P)
  BY <1>15, <1>1, <1>2 DEF Write, L
<1>16. CASE Crash(P)
  BY <1>16, <1>1, <1>2, <1>4 DEF Crash
<1>17. ASSUME NEW n \in 0..MaxSize, Receive(P, n) PROVE Accounting'
  BY <1>17, <1>2 DEF Receive, L
<1>18. ASSUME NEW n \in 0..MaxSize, LoseAnswer(P, n) PROVE Accounting'
  BY <1>18, <1>1, <1>2, <1>4 DEF LoseAnswer
<1>19. QED
  BY <1>5, <1>10, <1>11, <1>12, <1>13, <1>14, <1>15, <1>16, <1>17, <1>18 DEF Next, Step

\* One command at a time: the ledger accounts for the day at every step.
THEOREM SingleAccounting ==
  ASSUME NEW P, Procs = {P}
  PROVE  Spec => []Accounting
<1>1. Init => Accounting
  BY LedgerAssumption, CeilingNat DEF Init, Accounting, UsedToday, Owed
<1>2. TypeOK /\ Accounting /\ [Next]_vars => Accounting'
  BY AccountingStep
<1>3. QED
  BY <1>1, <1>2, TypeCorrect, PTL DEF Spec

\* One command at a time: a day's real downloads stay within one ceiling per
\* lapse, for every budget and every largest response.
THEOREM SingleOvershootBounded ==
  ASSUME NEW P, Procs = {P}
  PROVE  Spec => []OvershootBounded
<1>1. TypeOK /\ Accounting => OvershootBounded
  <2> SUFFICES ASSUME TypeOK, Accounting PROVE OvershootBounded
    OBVIOUS
  <2> DEFINE L == lapses * Ceiling
             R == (lapses + 1) * Ceiling
  <2>1. R = L + Ceiling
    BY OneMoreLapse DEF TypeOK
  <2>2. L \in Nat
    <3> DEFINE c == Ceiling
    <3>1. c \in Nat
      BY CeilingNat
    <3> HIDE DEF c
    <3>2. lapses * c \in Nat
      BY <3>1 DEF TypeOK
    <3>3. QED
      BY <3>2 DEF c
  <2>3. downloaded <= L + UsedToday + Owed(P)
    BY DEF Accounting
  <2> HIDE DEF L, R
  <2>4. UsedToday + Owed(P) <= Ceiling
    BY LedgerAssumption, CeilingNat
    DEF TypeOK, Accounting, UsedToday, Owed, Ceiling, Phases
  <2>5. UsedToday \in Nat /\ Owed(P) \in Nat
    BY DEF TypeOK, UsedToday, Owed
  <2>6. downloaded <= R
    BY <2>1, <2>2, <2>3, <2>4, <2>5, CeilingNat DEF TypeOK
  <2>7. QED
    BY <2>6 DEF OvershootBounded, R
<1>2. QED
  BY <1>1, SingleAccounting, TypeCorrect, PTL

\* One command at a time with nothing lost: the check lets no request through
\* once the real total of the day has reached the budget.
THEOREM SingleHaltsOnceSpent ==
  ASSUME NEW P, Procs = {P}
  PROVE  Spec => HaltsOnceSpent
<1>1. TypeOK /\ Accounting /\ [Next]_vars =>
        [\A p \in Procs :
           phase[p] = "idle" /\ phase'[p] = "cleared" /\ lapses = 0
             => downloaded < Budget]_vars
  <2> SUFFICES ASSUME TypeOK, Accounting, [Next]_vars, NEW p \in Procs,
                      phase[p] = "idle", phase'[p] = "cleared", lapses = 0
               PROVE  downloaded < Budget
    OBVIOUS
  <2>1. Check(p)
    BY DEF Next, Step, vars, TypeOK, Leave, Check, NotModified, ReadBack, Truncate,
           Write, Crash, Receive, LoseAnswer, Midnight
  <2>2. Owed(p) = 0 /\ lapses * Ceiling = 0
    BY CeilingNat DEF Owed
  <2>3. QED
    BY <2>1, <2>2, LedgerAssumption DEF Check, BudgetSpent, Accounting, TypeOK, UsedToday
<1>2. QED
  BY <1>1, SingleAccounting, TypeCorrect, PTL DEF Spec, HaltsOnceSpent

\* A command that may go on to a response has counted all but what was lost.
LEMMA ClearedIsInBudget ==
  ASSUME NEW P, Procs = {P}, TypeOK, Accounting, phase[P] = "cleared"
  PROVE  downloaded < Budget + lapses * (Budget - 1 + MaxSize)
<1> DEFINE L == lapses * (Budget - 1 + MaxSize)
<1>1. downloaded <= L + UsedToday /\ UsedToday < Budget
  <2>1. downloaded <= lapses * Ceiling + UsedToday + Owed(P) /\ UsedToday < Budget
    BY DEF Accounting
  <2>2. Owed(P) = 0
    BY DEF Owed
  <2>3. UsedToday \in Nat /\ lapses * Ceiling = L
    BY DEF UsedToday, TypeOK, Ceiling
  <2> HIDE DEF L
  <2>4. L \in Nat
    <3> DEFINE c == Ceiling
    <3>1. c \in Nat
      BY CeilingNat
    <3> HIDE DEF c
    <3>2. lapses * c \in Nat
      BY <3>1 DEF TypeOK
    <3>3. QED
      BY <2>3, <3>2 DEF c
  <2>5. QED
    BY <2>1, <2>2, <2>3, <2>4 DEF TypeOK
<1>2. L \in Nat /\ UsedToday \in Nat /\ downloaded \in Nat /\ Budget \in Nat
  <2> DEFINE c == Budget - 1 + MaxSize
  <2>1. c \in Nat
    BY LedgerAssumption
  <2> HIDE DEF c
  <2>2. lapses * c \in Nat
    BY <2>1 DEF TypeOK
  <2>3. L \in Nat
    BY <2>2 DEF c
  <2>4. QED
    BY <2>3, LedgerAssumption DEF TypeOK, UsedToday
<1> HIDE DEF L
<1>3. downloaded < Budget + L
  BY <1>1, <1>2
<1>4. QED
  BY <1>3 DEF L

\* One command at a time: the ledger, which loses what is killed between its steps, keeps
\* the promise of DailyBudget, for every budget and every largest response.
THEOREM SingleKeepsTheBudget ==
  ASSUME NEW P, Procs = {P}
  PROVE  Spec => ImplementsBudget
<1>1. Init => Daily!DayInit
  BY DEF Init, Daily!DayInit
<1>2. TypeOK /\ Accounting /\ [Next]_vars =>
        [Daily!Counted \/ Daily!Uncounted \/ Daily!NewDay]_Daily!dayVars
  <2> SUFFICES ASSUME TypeOK, Accounting, [Next]_vars
               PROVE  \/ Daily!Counted \/ Daily!Uncounted \/ Daily!NewDay
                      \/ UNCHANGED <<downloaded, lapses>>
    BY DEF Daily!dayVars
  <2>1. ASSUME NEW p \in Procs, NEW n \in 0..MaxSize, phase[p] = "cleared",
               downloaded' = downloaded + n
        PROVE  Daily!Response
    BY <2>1, ClearedIsInBudget DEF Daily!Response
  <2>2. ASSUME NEW p \in Procs, NEW n \in 0..MaxSize, Receive(p, n) PROVE Daily!Counted
    BY <2>1, <2>2 DEF Receive, Daily!Counted
  <2>3. ASSUME NEW p \in Procs, NEW n \in 0..MaxSize, LoseAnswer(p, n) PROVE Daily!Uncounted
    BY <2>1, <2>3 DEF LoseAnswer, Daily!Uncounted
  <2>4. ASSUME NEW p \in Procs, Crash(p) PROVE Daily!Uncounted
    BY <2>4 DEF Crash, Daily!Uncounted
  <2>5. CASE Midnight
    BY <2>5 DEF Midnight, Daily!NewDay
  <2>6. ASSUME NEW p \in Procs,
               Check(p) \/ NotModified(p) \/ ReadBack(p) \/ Truncate(p) \/ Write(p)
        PROVE  UNCHANGED <<downloaded, lapses>>
    BY <2>6 DEF Check, NotModified, ReadBack, Truncate, Write
  <2>7. QED
    BY <2>2, <2>3, <2>4, <2>5, <2>6 DEF Next, Step, vars
<1>3. QED
  BY <1>1, <1>2, SingleAccounting, TypeCorrect, PTL DEF Spec, ImplementsBudget, Daily!DaySpec

\* What a command read back plus what it is about to add was all booked today.
ReadBackIsBooked ==
  /\ ledger.day <= day
  /\ \A p \in Procs :
       /\ stamp[p] <= day
       /\ phase[p] \in {"tallied", "truncated"} /\ stamp[p] = day
            => used[p] + pending[p] <= booked

\* Any number of commands, in any order, killed anywhere: the ledger never claims
\* more bytes than were recorded today.
THEOREM LedgerNeverOvercounts == Spec => []NeverOvercounts
<1> DEFINE Inv == TypeOK /\ ReadBackIsBooked /\ NeverOvercounts
<1>1. Init => Inv
  BY LedgerAssumption DEF Init, TypeOK, Texts, Phases, ReadBackIsBooked, NeverOvercounts, UsedToday
<1>2. TypeOK /\ TypeOK' /\ ReadBackIsBooked /\ NeverOvercounts /\ [Next]_vars
        => ReadBackIsBooked' /\ NeverOvercounts'
  <2> SUFFICES ASSUME TypeOK, TypeOK', ReadBackIsBooked, NeverOvercounts, [Next]_vars
               PROVE  ReadBackIsBooked' /\ NeverOvercounts'
    OBVIOUS
  <2> USE LedgerAssumption
          DEF TypeOK, Texts, Phases, ReadBackIsBooked, NeverOvercounts, UsedToday, Leave
  <2>1. CASE UNCHANGED vars
    BY <2>1 DEF vars
  <2>2. CASE Midnight
    BY <2>2 DEF Midnight
  <2>3. ASSUME NEW p \in Procs, Step(p) PROVE ReadBackIsBooked' /\ NeverOvercounts'
    <3>1. CASE Check(p)
      BY <3>1 DEF Check
    <3>2. CASE NotModified(p)
      BY <3>2 DEF NotModified
    <3>3. CASE ReadBack(p)
      BY <3>3 DEF ReadBack
    <3>4. CASE Truncate(p)
      BY <3>4 DEF Truncate
    <3>5. CASE Write(p)
      <4>1. PICK text \in Texts :
              ledger' = [text |-> text, day |-> stamp[p], bytes |-> used[p] + pending[p]]
        BY <3>5 DEF Write, Texts
      <4>2. QED
        BY <3>5, <4>1 DEF Write
    <3>6. CASE Crash(p)
      BY <3>6 DEF Crash
    <3>7. ASSUME NEW n \in 0..MaxSize, Receive(p, n)
          PROVE  ReadBackIsBooked' /\ NeverOvercounts'
      BY <3>7 DEF Receive
    <3>8. ASSUME NEW n \in 0..MaxSize, LoseAnswer(p, n)
          PROVE  ReadBackIsBooked' /\ NeverOvercounts'
      BY <3>8 DEF LoseAnswer
    <3>9. QED
      BY <2>3, <3>1, <3>2, <3>3, <3>4, <3>5, <3>6, <3>7, <3>8 DEF Step
  <2>4. QED
    BY <2>1, <2>2, <2>3 DEF Next
<1>3. QED
  BY <1>1, <1>2, TypeCorrect, PTL DEF Spec
=============================================================================
