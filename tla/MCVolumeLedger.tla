--------------------------- MODULE MCVolumeLedger ---------------------------
\* Instances of VolumeLedger for TLC: one command, and two that run in parallel
\* as the ingest_gp and ingest_satcat tasks of the DAG do.
EXTENDS VolumeLedger
CONSTANTS p1, p2
OneCommand == {p1}
TwoCommands == {p1, p2}
=============================================================================
