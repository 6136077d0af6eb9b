---------------------------------- MODULE Agc ----------------------------------
(***************************************************************************)
(* The gain of agc.rs.  f32 gains are integers: multiples of one rounding  *)
(* step, 2^-23 at a gain of one, where the ramp of a disabled AGC ends.    *)
(* A time constant is the number of samples n it lasts, so alpha is 1/n,   *)
(* and a step of the moving average is rounded to the nearest integer,     *)
(* with ties either way.  The level estimate is the environment's: it may  *)
(* ask for any gain at any sample.                                         *)
(***************************************************************************)
EXTENDS Integers

CONSTANTS Unity,   \* the gain 1.0
          MinGain, \* 1.0 / db_to_linear(MAX_ATTENUATION_DB)
          Snap     \* the 1e-6 at which a disabled AGC snaps to unity

ASSUME AgcAssumption ==
  /\ Unity \in Nat /\ MinGain \in Nat /\ Snap \in Nat
  /\ 0 < MinGain /\ MinGain <= Unity

Larger(a, b) == IF a < b THEN b ELSE a
Distance(a, b) == IF a < b THEN b - a ELSE a - b

\* What `new` and `update_params` take from settings; a time constant of 0 is an alpha of 1.
Params(s) == [enabled |-> s.agc_enabled, max_gain |-> s.max_gain,
              attack |-> Larger(s.attack, 1), release |-> Larger(s.release, 1)]

AgcParams == [enabled : BOOLEAN, max_gain : Nat, attack : Nat \ {0}, release : Nat \ {0}]

\* f32::clamp panics on such bounds.
Panics(agc) == agc.enabled /\ agc.max_gain < MinGain
Clamp(g, agc) == IF g < MinGain THEN MinGain ELSE IF agc.max_gain < g THEN agc.max_gain ELSE g

Samples(agc, gain, target) == IF target < gain THEN agc.attack ELSE agc.release
Rounded(gain, target, n, to) == 2 * Distance(n * (to - gain), target - gain) <= n
Approach(agc, gain, target, to) == Rounded(gain, target, Samples(agc, gain, target), to)

\* One sample of `process`, where `wanted` is target_rms over the level.
Step(agc, gain, wanted, to) ==
  IF agc.enabled THEN Approach(agc, gain, Clamp(wanted, agc), to)
  ELSE IF Distance(gain, Unity) < Snap THEN to = Unity
  ELSE Approach(agc, gain, Unity, to)
================================================================================
