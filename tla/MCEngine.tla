------------------------------- MODULE MCEngine -------------------------------
EXTENDS Engine

CONSTANTS d1, d2

Record(provider, model, thresholds, diagnostics) ==
  [provider |-> provider, model |-> model, vad |-> thresholds, diagnostics |-> diagnostics]

\* Two models of the cacheable provider, the other provider, and another pair of thresholds.
MCSettings == {Record("nemotron", "m1", "v1", FALSE), Record("nemotron", "m1", "v2", FALSE),
               Record("nemotron", "m2", "v1", FALSE), Record("soniox", "m1", "v1", TRUE)}
MCNoSettings == Record("none", "none", "none", FALSE)
===============================================================================
