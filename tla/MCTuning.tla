-------------------------------- MODULE MCTuning --------------------------------
EXTENDS Tuning

Made(provider, key, chunk_ms, enabled, max_gain) ==
  [provider |-> provider, key |-> key, chunk_ms |-> chunk_ms, threads |-> 2, start |-> 2, end |-> 1,
   agc_enabled |-> enabled, max_gain |-> max_gain, attack |-> 3, release |-> 6]

MCDefault == Made("nemotron", FALSE, 560, FALSE, 12)
MCBuilds == {{"nemotron"}, {"nemotron", "soniox"}}

\* The ceiling at both ends of its range and beyond, the providers, inverted thresholds.
MCEdits == {Made("nemotron", FALSE, 560, TRUE, 12), Made("nemotron", FALSE, 80, TRUE, 6),
            Made("soniox", TRUE, 560, FALSE, 6), Made("soniox", FALSE, 560, FALSE, 6),
            Made("nemotron", FALSE, 560, TRUE, 1),
            [MCDefault EXCEPT !.start = 0]}

\* A file of an older version without the AGC, one without an end threshold, a hand-written one.
MCObjects == {[chunk_ms |-> 80, agc_enabled |-> TRUE], [start |-> 0],
              [agc_enabled |-> TRUE, max_gain |-> 1, attack |-> 0]}

MCEnvironment == {[chunk_ms |-> 0, threads |-> 0, key |-> FALSE],
                  [chunk_ms |-> 100, threads |-> 4, key |-> TRUE]}
================================================================================
