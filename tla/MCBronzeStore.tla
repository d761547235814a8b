---------------------------- MODULE MCBronzeStore ----------------------------
\* Instances of BronzeStore for TLC: two loaders over two landings, and one loader
\* for the claim that a retry is always enough.
EXTENDS BronzeStore
CONSTANTS p1, l1, l2, gp, c1, html, o1, o2
OneIngest == {p1}
OneLoader == {l1}
TwoLoaders == {l1, l2}
OneTarget == {gp}
OneContent == {c1}
TwoContents == {c1, html}
TwoObjects == {o1, o2}
TwoNames == 1..2
AllObjects == [c \in Contents |-> TwoObjects]
=============================================================================
