----------------------------- MODULE MCPipeline -----------------------------
\* Pipeline for TLC: the hour is half a period, windows are one and two periods.
EXTENDS Pipeline
CONSTANTS first, second
TwoSlots == {first, second}
Windows == [gp |-> 2, satcat |-> 4]
=============================================================================
