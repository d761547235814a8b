---------------------------- MODULE MCMapSession ----------------------------
\* MapSession for TLC: the second build serves a satellite the first did not know, and
\* the satellites take turns above the horizon.
EXTENDS MapSession
TwoSats == {1, 2}
TwoBuilds == [b \in Builds |-> IF b = 0 THEN {1} ELSE {1, 2}]
InTurns == [i \in Instants |-> IF i % 2 = 0 THEN {1} ELSE {1, 2}]
=============================================================================
