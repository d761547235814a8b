--------------------------- MODULE MCSnapshotWriter ---------------------------
\* Instances of SnapshotWriter for TLC: two propagate commands that overlap, and
\* one session that reads.
EXTENDS SnapshotWriter, TLC
CONSTANTS w1, w2, r1, s1, s2
TwoWriters == {w1, w2}
OneReader == {r1}
TwoSats == {s1, s2}
Symmetric == Permutations(TwoWriters) \union Permutations(TwoSats)
=============================================================================
