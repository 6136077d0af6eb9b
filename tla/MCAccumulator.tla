---------------------------- MODULE MCAccumulator -----------------------------
(* A small service: two interchangeable speakers, every kind of token.        *)
EXTENDS Accumulator
CONSTANTS s1, s2
MCSymmetry == Permutations({s1, s2})
===============================================================================
