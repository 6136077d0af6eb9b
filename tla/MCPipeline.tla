------------------------------- MODULE MCPipeline -------------------------------
EXTENDS Pipeline
MCThresholds == {[start |-> 1, end |-> 1]}
===============================================================================
