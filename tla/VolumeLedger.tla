---------------------------- MODULE VolumeLedger ----------------------------
(***************************************************************************)
(* The daily download ledger of the CelesTrak client: the part of          *)
(* ingest/celestrak_client.py that decides whether one more request may be *)
(* made today, and that adds a response's bytes to                         *)
(* <state_dir>/download_volume.json.                                       *)
(*                                                                         *)
(* Each process is one `sat-tracker-*` command.  The ledger is one small   *)
(* JSON file that all of them share and none of them locks: it is read     *)
(* once to check the budget, and after the response it is read again,      *)
(* truncated by open("w") and written.  The steps between which another    *)
(* process, a kill or midnight can come are actions of their own.          *)
(***************************************************************************)
EXTENDS Integers

CONSTANTS
  Procs,      \* the running commands
  Budget,     \* settings.daily_volume_budget_bytes, in units of the model
  MaxSize,    \* the largest response body, in the same units
  MaxDay,     \* bound: the last UTC day of a behaviour
  MaxDownload,\* bound: bytes that arrive within one day
  MaxLapses   \* bound: kills and broken transfers within one day

ASSUME LedgerAssumption ==
  /\ Budget \in Nat \ {0}
  /\ MaxSize \in Nat
  /\ MaxDay \in Nat
  /\ MaxDownload \in Nat
  /\ MaxLapses \in Nat

VARIABLES
  day,         \* the current UTC date
  ledger,      \* the file: what text is in it, its date and its byte count
  phase,       \* where each process is in _get_celestrak
  stamp,       \* `today` as _record_downloaded_bytes read it
  used,        \* `used` as _record_downloaded_bytes read it
  pending,     \* len(response.content), still to be recorded
  downloaded,  \* history: bytes that really arrived today
  booked,      \* history: bytes handed to _record_downloaded_bytes today
  lapses       \* history: kills and broken transfers today

vars == <<day, ledger, phase, stamp, used, pending, downloaded, booked, lapses>>

\* A file without text (a missing one counts as that), with a JSON object, and with what
\* writes on top of each other have left.
Texts == {"empty", "whole", "garbled"}

Phases == {"idle", "cleared", "received", "tallied", "truncated"}

TypeOK ==
  /\ day \in 0..MaxDay
  /\ ledger \in [text : Texts, day : Nat, bytes : Nat]
  /\ phase \in [Procs -> Phases]
  /\ stamp \in [Procs -> Nat]
  /\ used \in [Procs -> Nat]
  /\ pending \in [Procs -> 0..MaxSize]
  /\ downloaded \in Nat
  /\ booked \in Nat
  /\ lapses \in 0..MaxLapses

\* Slip: yesterday's total is carried over.
UsedTodayAnyDate == IF ledger.text = "whole" THEN ledger.bytes ELSE 0

\* A ledger that is missing, does not parse or is dated another day counts as zero.
UsedToday == IF ledger.text = "whole" /\ ledger.day = day THEN ledger.bytes ELSE 0

\* Slip: the last unit of the budget still lets a request through.
BudgetSpentOffByOne == UsedToday > Budget

BudgetSpent == UsedToday >= Budget

\* The command returns, raises or dies, and its locals go with it.
Leave(p) ==
  /\ phase' = [phase EXCEPT ![p] = "idle"]
  /\ stamp' = [stamp EXCEPT ![p] = 0]
  /\ used' = [used EXCEPT ![p] = 0]
  /\ pending' = [pending EXCEPT ![p] = 0]

Init ==
  /\ day = 0
  /\ ledger = [text |-> "empty", day |-> 0, bytes |-> 0]
  /\ phase = [p \in Procs |-> "idle"]
  /\ stamp = [p \in Procs |-> 0]
  /\ used = [p \in Procs |-> 0]
  /\ pending = [p \in Procs |-> 0]
  /\ downloaded = 0
  /\ booked = 0
  /\ lapses = 0

\* The budget check passes and the request goes out.  When BudgetSpent holds
\* the check raises instead, before any request, and nothing changes.
Check(p) ==
  /\ phase[p] = "idle"
  /\ ~BudgetSpent
  /\ phase' = [phase EXCEPT ![p] = "cleared"]
  /\ UNCHANGED <<day, ledger, stamp, used, pending, downloaded, booked, lapses>>

\* Slip: the length of the body is not kept for the ledger.
ReceiveUncounted(p, n) ==
  /\ phase[p] = "cleared"
  /\ downloaded + n <= MaxDownload
  /\ phase' = [phase EXCEPT ![p] = "received"]
  /\ downloaded' = downloaded + n
  /\ UNCHANGED <<day, ledger, stamp, used, pending, booked, lapses>>

\* Status 200: the whole body has arrived and is about to be recorded.
Receive(p, n) ==
  /\ phase[p] = "cleared"
  /\ downloaded + n <= MaxDownload
  /\ phase' = [phase EXCEPT ![p] = "received"]
  /\ pending' = [pending EXCEPT ![p] = n]
  /\ downloaded' = downloaded + n
  /\ UNCHANGED <<day, ledger, stamp, used, booked, lapses>>

\* Status 304: no body and nothing to record.
NotModified(p) ==
  /\ phase[p] = "cleared"
  /\ Leave(p)
  /\ UNCHANGED <<day, ledger, downloaded, booked, lapses>>

\* A fatal status or a transfer that breaks off: what arrived is not recorded.
LoseAnswer(p, n) ==
  /\ phase[p] = "cleared"
  /\ downloaded + n <= MaxDownload
  /\ lapses < MaxLapses
  /\ Leave(p)
  /\ downloaded' = downloaded + n
  /\ lapses' = lapses + 1
  /\ UNCHANGED <<day, ledger, booked>>

\* _record_downloaded_bytes: read today's date and total back.
ReadBack(p) ==
  /\ phase[p] = "received"
  /\ phase' = [phase EXCEPT ![p] = "tallied"]
  /\ stamp' = [stamp EXCEPT ![p] = day]
  /\ used' = [used EXCEPT ![p] = UsedToday]
  /\ booked' = booked + pending[p]
  /\ UNCHANGED <<day, ledger, pending, downloaded, lapses>>

\* write_text opens the file for writing, which empties it ...
Truncate(p) ==
  /\ phase[p] = "tallied"
  /\ phase' = [phase EXCEPT ![p] = "truncated"]
  /\ ledger' = [ledger EXCEPT !.text = "empty"]
  /\ UNCHANGED <<day, stamp, used, pending, downloaded, booked, lapses>>

\* Slip: the new count replaces the total.
WriteOverwrites(p) ==
  /\ phase[p] = "truncated"
  /\ Leave(p)
  /\ ledger' = [text |-> "whole", day |-> stamp[p], bytes |-> pending[p]]
  /\ UNCHANGED <<day, downloaded, booked, lapses>>

\* ... and then writes it.  Text that is there again was written by another process after the
\* truncation, and if it is longer, its tail stays behind this one.
Write(p) ==
  /\ phase[p] = "truncated"
  /\ Leave(p)
  /\ \E text \in IF ledger.text = "empty" THEN {"whole"} ELSE {"whole", "garbled"} :
       ledger' = [text |-> text, day |-> stamp[p], bytes |-> used[p] + pending[p]]
  /\ UNCHANGED <<day, downloaded, booked, lapses>>

\* The command is killed between two of its steps.
Crash(p) ==
  /\ phase[p] # "idle"
  /\ lapses < MaxLapses
  /\ Leave(p)
  /\ lapses' = lapses + 1
  /\ UNCHANGED <<day, ledger, downloaded, booked>>

Midnight ==
  /\ day < MaxDay
  /\ day' = day + 1
  /\ downloaded' = 0
  /\ booked' = 0
  /\ lapses' = 0
  /\ UNCHANGED <<ledger, phase, stamp, used, pending>>

Step(p) ==
  \/ Check(p) \/ NotModified(p) \/ ReadBack(p) \/ Truncate(p) \/ Write(p) \/ Crash(p)
  \/ \E n \in 0..MaxSize : Receive(p, n) \/ LoseAnswer(p, n)

Next == Midnight \/ \E p \in Procs : Step(p)

Spec == Init /\ [][Next]_vars

-----------------------------------------------------------------------------
\* The most that one pass over the budget can bring in: the last request is
\* let through one unit short of the budget and its body is as large as can be.
Ceiling == Budget - 1 + MaxSize

\* Today's bytes that process p still has to bring into the ledger.
Owed(p) ==
  CASE phase[p] = "received" -> pending[p]
    [] phase[p] = "tallied" /\ stamp[p] = day -> pending[p]
    [] phase[p] = "truncated" /\ stamp[p] = day -> used[p] + pending[p]
    [] OTHER -> 0

\* With one command at a time the ledger and what the command still owes account
\* for the day's real total, up to one ceiling per lapse, at every step of
\* check, request, read back, truncate and write (celestrak_client.py:186-212,
\* 245-270), midnight included.
Accounting ==
  /\ ledger.day <= day
  /\ UsedToday <= Ceiling
  /\ \A p \in Procs :
       /\ downloaded <= lapses * Ceiling + UsedToday + Owed(p)
       /\ phase[p] \in {"cleared", "received"} => UsedToday < Budget
       /\ phase[p] \in {"tallied", "truncated"} =>
            /\ used[p] < Budget
            /\ ledger.day <= stamp[p]
            /\ stamp[p] <= day
       /\ phase[p] = "tallied" /\ stamp[p] = day => used[p] = UsedToday
       /\ phase[p] = "truncated" => ledger.text = "empty"

\* With one command at a time the day's real total stays below the budget plus
\* one response, and every kill or broken transfer can add at most that again
\* (celestrak_client.py:186-212, 245-270: checked before a request, recorded after).
OvershootBounded == downloaded <= (lapses + 1) * Ceiling

\* With one command at a time and nothing lost, no request is made once the bytes
\* really downloaded today reach the budget (celestrak_client.py:192-200).
HaltsOnceSpent ==
  [][\A p \in Procs :
       phase[p] = "idle" /\ phase'[p] = "cleared" /\ lapses = 0
         => downloaded < Budget]_vars

\* However many bytes overlapping commands lose from the ledger, what it holds when all of
\* them are done is what the next check goes by: nobody is in flight, nothing was killed, and
\* no request is made once the bytes recorded today reach the budget ("Halt ingestion if
\* today's download budget is already exhausted", celestrak_client.py:187).
HaltsOnceRecorded ==
  [][\A p \in Procs :
       /\ phase[p] = "idle" /\ phase'[p] = "cleared"
       /\ \A q \in Procs : phase[q] = "idle"
       /\ lapses = 0
       => booked < Budget]_vars

\* The ledger never claims more than was recorded today, so ingestion is never halted early:
\* whatever kill or midnight falls between read back, truncation and write, no count of
\* yesterday's and none twice is taken for today's (celestrak_client.py:163-183, 203-212).
NeverOvercounts == UsedToday <= booked

\* With one command at a time, the file that is read, emptied and rewritten keeps the
\* budget that DailyBudget promises: checks, responses, losses, kills and midnight are its
\* steps and nothing else counts (celestrak_client.py:186-212, 245-270).
Daily == INSTANCE DailyBudget WITH total <- downloaded

ImplementsBudget == Daily!DaySpec
=============================================================================
