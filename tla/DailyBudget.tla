----------------------------- MODULE DailyBudget -----------------------------
(***************************************************************************)
(* What daily_volume_budget_bytes promises of a day: responses come in     *)
(* while the day's total is below the budget, so that the last of them is  *)
(* all that goes beyond it, and a response that is lost on the way to the  *)
(* ledger costs one such day's worth at most.                              *)
(***************************************************************************)
EXTENDS Naturals

CONSTANTS
  Budget,   \* bytes of a day
  MaxSize   \* the largest response

VARIABLES
  total,   \* bytes that arrived today
  lapses   \* responses of today that may have gone uncounted

dayVars == <<total, lapses>>

DayInit == total = 0 /\ lapses = 0

\* A response comes in while there is budget left, as far as it was counted.
Response ==
  /\ total < Budget + lapses * (Budget - 1 + MaxSize)
  /\ \E n \in 0..MaxSize : total' = total + n

Counted == Response /\ UNCHANGED lapses

Uncounted == lapses' = lapses + 1 /\ (Response \/ UNCHANGED total)

NewDay == total' = 0 /\ lapses' = 0

DaySpec == DayInit /\ [][Counted \/ Uncounted \/ NewDay]_dayVars
=============================================================================
