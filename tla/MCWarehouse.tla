----------------------------- MODULE MCWarehouse -----------------------------
\* Instances of Warehouse for TLC: one satellite that is docked to a host in Earth
\* orbit and one that orbits the Sun.
EXTENDS Warehouse

CONSTANTS s1, s2

TwoSats == {s1, s2}
HostAndSun == [s \in TwoSats |-> IF s = s1 THEN "HOST" ELSE "SUN"]

OneSat == {s1}
Docked == [s \in OneSat |-> "HOST"]
=============================================================================
