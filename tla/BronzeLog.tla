------------------------------ MODULE BronzeLog ------------------------------
(***************************************************************************)
(* What the bronze layer promises, whatever files, partitions and          *)
(* transactions carry it: a log of whole, attributable landings.  A        *)
(* landing becomes attributable once, is stored at once with all its rows, *)
(* and is never changed, doubled or taken back.                            *)
(***************************************************************************)
CONSTANT Names

VARIABLES
  sealed,  \* the landings with a readable sidecar
  stored   \* the landings whose rows the warehouse holds

logVars == <<sealed, stored>>

LogInit == sealed = {} /\ stored = {}

Seal(n) ==
  /\ n \notin sealed
  /\ sealed' = sealed \union {n}
  /\ UNCHANGED stored

\* One transaction stores any number of attributable landings.
Store(S) ==
  /\ S \subseteq sealed
  /\ stored' = stored \union S
  /\ UNCHANGED sealed

LogNext == (\E n \in Names : Seal(n)) \/ (\E S \in SUBSET sealed : Store(S))

LogSpec == LogInit /\ [][LogNext]_logVars
=============================================================================
