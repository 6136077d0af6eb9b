-------------------------------- MODULE Settings --------------------------------
(***************************************************************************)
(* The settings of settings.rs: validation, the file they are kept in, and *)
(* the environment variables that override them.  A value is a number or a *)
(* flag; the fields that no other component's safety depends on (fonts,    *)
(* theme, paths, the rest of Soniox) are left out, and the two thread      *)
(* counts are one field.                                                   *)
(***************************************************************************)
EXTENDS Integers

CONSTANTS ValidChunkMs, \* VALID_CHUNK_MS
          FullScale,    \* the threshold 1.0
          LeastCeiling, \* agc_max_gain_db = 0.0, as a gain
          MostCeiling,  \* agc_max_gain_db = 60.0, as a gain
          MaxTime,      \* the longest time constant, in samples
          Default       \* Settings::default()

Setting == [provider : {"nemotron", "soniox"}, key : BOOLEAN, chunk_ms : Nat, threads : Nat,
            start : Nat, end : Nat, agc_enabled : BOOLEAN, max_gain : Nat,
            attack : Nat, release : Nat]
Field == {"provider", "key", "chunk_ms", "threads", "start", "end",
          "agc_enabled", "max_gain", "attack", "release"}

\* In a build without the Soniox client the provider is not a valid one.
ASSUME SettingsAssumption ==
  /\ ValidChunkMs \subseteq Nat /\ FullScale \in Nat /\ MaxTime \in Nat
  /\ LeastCeiling \in Nat /\ MostCeiling \in Nat
  /\ Default \in Setting

\* `validate`; the directory it makes for the diagnostics DB is left out.
Valid(s, providers) ==
  /\ s.provider \in providers
  /\ s.provider = "soniox" => s.key
  /\ s.chunk_ms \in ValidChunkMs
  /\ s.threads >= 1
  /\ s.start \in 0..FullScale /\ s.end \in 0..FullScale
  /\ s.end <= s.start
  /\ s.max_gain \in LeastCeiling..MostCeiling
  /\ s.attack \in 1..MaxTime /\ s.release \in 1..MaxTime
\* The file: absent, not JSON, or an object with some of the fields.
Absent == [state |-> "absent", object |-> Default]
Torn == [state |-> "torn", object |-> Default]
Json(object) == [state |-> "json", object |-> object]

\* A field that is missing is that of the default, and so is everything after an error; what
\* is read is not validated.
Load(file) ==
  IF file.state = "json"
  THEN [f \in Field |-> IF f \in DOMAIN file.object THEN file.object[f] ELSE Default[f]]
  ELSE Default

\* A variable that is not set or does not parse is 0; `key` is a SONIOX_API_KEY that is not blank.
WithEnvOverrides(s, env) ==
  [s EXCEPT !.chunk_ms = IF env.chunk_ms \in ValidChunkMs THEN env.chunk_ms ELSE @,
            !.threads = IF env.threads >= 1 THEN env.threads ELSE @,
            !.key = @ \/ env.key]
================================================================================
