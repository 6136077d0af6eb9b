--------------------------- MODULE MCSonioxClient -----------------------------
(* Three frames of two sizes against a ceiling that two of them just reach.   *)
EXTENDS SonioxClient
MCSamples == [i \in 1..MaxFrames |-> IF i = 2 THEN 2 ELSE 1]
===============================================================================
