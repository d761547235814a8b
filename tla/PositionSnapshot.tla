--------------------------- MODULE PositionSnapshot ---------------------------
(***************************************************************************)
(* What gold.position_snapshot promises its readers: it is one register    *)
(* that holds a whole snapshot, a run replaces it in one step, and an      *)
(* empty result replaces nothing.                                          *)
(***************************************************************************)
CONSTANTS Batches, Readers

VARIABLES
  snapshot,  \* the stored snapshot
  view       \* what each reader saw last

regVars == <<snapshot, view>>

RegInit == snapshot = {} /\ view = [r \in Readers |-> {}]

Replace(b) ==
  /\ b # {}
  /\ snapshot' = b
  /\ UNCHANGED view

RegRead(r) ==
  /\ view' = [view EXCEPT ![r] = snapshot]
  /\ UNCHANGED snapshot

RegNext == (\E b \in Batches : Replace(b)) \/ (\E r \in Readers : RegRead(r))

RegSpec == RegInit /\ [][RegNext]_regVars
=============================================================================
