------------------------------- MODULE MCWatcher -------------------------------
EXTENDS Watcher
CONSTANTS a1, m1, m2
\* One application stream and two monitors.
MCNode == {a1, m1, m2}
MCType == [n \in MCNode |-> IF n = a1 THEN "application" ELSE "monitor"]
===============================================================================
