-------------------------- MODULE MCCelestrakClient --------------------------
\* CelestrakClient for TLC: one command at a time fetching either feed.
EXTENDS CelestrakClient, TLC
CONSTANTS p1, p2, gp, satcat, n1, n2, n3
OneCommand == {p1}
BothFeeds == {gp, satcat}
ThreeNames == {n1, n2, n3}
TwoContents == 0..1
Windows == [t \in BothFeeds |-> IF t = gp THEN 1 ELSE 2]
EitherFeed == [p \in OneCommand |-> BothFeeds]
SymmetricNames == Permutations(Names)
=============================================================================
