---------------------------------- MODULE MCVad ----------------------------------
EXTENDS VadStream
\* Levels below, between and above the thresholds of the first setting; the second is more
\* eager to start and to stop.
MCThresholds == {[start |-> 2, end |-> 1], [start |-> 1, end |-> 1]}
===============================================================================
