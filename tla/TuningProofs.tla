------------------------------ MODULE TuningProofs ------------------------------
(***************************************************************************)
(* Theorems about Tuning, for any builds, files, environments and levels,  *)
(* and any rounding step and time constants.                               *)
(***************************************************************************)
EXTENDS Tuning, TLAPS

USE AgcAssumption, SettingsAssumption, TuningAssumption

-------------------------------------------------------------------------------
(***************************************************************************)
(* One step of the moving average.                                         *)
(***************************************************************************)
\* A product with a positive number is no smaller than the other factor.
LEMMA AtLeast ==
  ASSUME NEW n \in Nat \ {0}, NEW a \in Nat
  PROVE  n * a >= a /\ n * a \in Nat /\ (a # 0 => n * a >= n)
<1>1. n * a = a + (n - 1) * a
  OBVIOUS
<1>2. (n - 1) * a >= 0
  OBVIOUS
<1>3. a # 0 => n * a = n + n * (a - 1) /\ n * (a - 1) >= 0
  OBVIOUS
<1> QED BY <1>1, <1>2, <1>3

\* A rounded step goes towards its target, never past it, and by the share 1/n of the
\* distance, give or take half a rounding step.
LEMMA RoundedUp ==
  ASSUME NEW g \in Nat, NEW h \in Nat, NEW k \in Nat, NEW n \in Nat \ {0}, Rounded(g, h, n, k), g < k
  PROVE  k <= h /\ Share(n, k - g, h - g)
<1> DEFINE d == n * (k - g)
<1>1. d \in Nat /\ d >= n /\ d >= k - g
  BY AtLeast
<1>2. 2 * Distance(d, h - g) <= n
  BY DEF Rounded
<1> HIDE DEF d
<1>3. h - g > 0 /\ 2 * d <= 2 * (h - g) + n
  BY <1>1, <1>2 DEF Distance
<1>4. ASSUME h < k
      PROVE  FALSE
  <2>1. n * (k - h) >= n /\ n * (h - g) >= h - g
    BY <1>3, <1>4, AtLeast
  <2>2. d = n * (k - h) + n * (h - g)
    BY DEF d
  <2> QED BY <1>1, <1>3, <2>1, <2>2
<1> QED BY <1>3, <1>4 DEF Share, d

LEMMA RoundedDown ==
  ASSUME NEW g \in Nat, NEW h \in Nat, NEW k \in Nat, NEW n \in Nat \ {0}, Rounded(g, h, n, k), k < g
  PROVE  h <= k /\ Share(n, g - k, g - h)
<1> DEFINE d == n * (g - k)
<1>1. d \in Nat /\ d >= n /\ d >= g - k
  BY AtLeast
<1>2. n * (k - g) = -d
  OBVIOUS
<1>3. 2 * Distance(-d, h - g) <= n
  BY <1>2 DEF Rounded
<1> HIDE DEF d
<1>4. g - h > 0 /\ 2 * d <= 2 * (g - h) + n
  BY <1>1, <1>3 DEF Distance
<1>5. ASSUME k < h
      PROVE  FALSE
  <2>1. n * (h - k) >= n /\ n * (g - h) >= g - h
    BY <1>4, <1>5, AtLeast
  <2>2. d = n * (h - k) + n * (g - h)
    BY DEF d
  <2> QED BY <1>1, <1>4, <2>1, <2>2
<1> QED BY <1>4, <1>5 DEF Share, d

-------------------------------------------------------------------------------
(***************************************************************************)
(* Types.                                                                  *)
(***************************************************************************)
LEMMA ParamsType ==
  ASSUME NEW s \in Setting
  PROVE  Params(s) \in AgcParams
BY DEF Params, AgcParams, Setting, Larger

\* What was saved is what is loaded.
LEMMA LoadSaved ==
  ASSUME NEW s \in Setting
  PROVE  Load(Json(s)) = s
BY DEF Load, Json, Setting, Field

\* An override that is taken is one that validate accepts.
LEMMA OverridesKeepValid ==
  ASSUME NEW s \in Setting, NEW env \in Environment
  PROVE  /\ WithEnvOverrides(s, env) \in Setting
         /\ \A built : Valid(s, built) => Valid(WithEnvOverrides(s, env), built)
<1> DEFINE t == WithEnvOverrides(s, env)
<1>1. /\ t.chunk_ms = IF env.chunk_ms \in ValidChunkMs THEN env.chunk_ms ELSE s.chunk_ms
      /\ t.threads = IF env.threads >= 1 THEN env.threads ELSE s.threads
      /\ t.key = (s.key \/ env.key)
      /\ t.provider = s.provider /\ t.start = s.start /\ t.end = s.end
      /\ t.max_gain = s.max_gain /\ t.attack = s.attack /\ t.release = s.release
  BY DEF WithEnvOverrides, Setting
<1>2. t \in Setting
  <2> DEFINE c == IF env.chunk_ms \in ValidChunkMs THEN env.chunk_ms ELSE s.chunk_ms
             n == IF env.threads >= 1 THEN env.threads ELSE s.threads
             k == s.key \/ env.key
  <2>1. c \in Nat /\ n \in Nat /\ k \in BOOLEAN
    BY DEF Setting
  <2>2. t = [s EXCEPT !.chunk_ms = c, !.threads = n, !.key = k]
    BY DEF WithEnvOverrides
  <2> HIDE DEF c, n, k, t
  <2> QED BY <2>1, <2>2 DEF Setting
<1> HIDE DEF t
<1>3. \A built : Valid(s, built) => Valid(t, built)
  BY <1>1 DEF Valid, Setting
<1> QED BY <1>2, <1>3 DEF t

LEMMA TypesInitially == Init => TypeOK
BY ParamsType DEF Init, TypeOK, Load, Absent

LEMMA TypesStep ==
  ASSUME TypeOK, [Next]_vars
  PROVE  TypeOK'
<1> USE DEF TypeOK
<1>1. CASE Launch
  <2>1. clean' \in BOOLEAN BY <1>1 DEF Launch, Trusted
  <2> QED BY <1>1, <2>1, OverridesKeepValid DEF Launch, store, chain
<1>2. CASE Kill BY <1>2 DEF Kill, store
<1>3. CASE EditFile BY <1>3 DEF EditFile, program, chain
<1>4. ASSUME NEW s \in Edits, Save(s)
      PROVE  TypeOK'
  BY <1>4 DEF Save, chain, Load, Torn
<1>5. CASE Written
  <2>1. Load(file') \in Setting
    BY <1>5, LoadSaved DEF Written
  <2> QED BY <1>5, <2>1 DEF Written
<1>6. CASE WriteFails BY <1>6 DEF WriteFails, store, chain
<1>7. CASE Start BY <1>7, ParamsType DEF Start, store, program
<1>8. CASE Stop BY <1>8 DEF Stop, store, program
<1>9. CASE HotReload
  <2>1. Head(updates) \in Setting /\ Tail(updates) \in Seq(Setting)
    BY <1>9 DEF HotReload
  <2> QED BY <1>9, <2>1, ParamsType DEF HotReload, store, program
<1>10. CASE Process BY <1>10 DEF Process, store, program
<1>11. CASE ProcessPanics BY <1>11 DEF ProcessPanics, store, program
<1>12. CASE UNCHANGED vars BY <1>12 DEF vars, store, program, chain
<1> QED
  BY <1>1, <1>2, <1>3, <1>4, <1>5, <1>6, <1>7, <1>8, <1>9, <1>10, <1>11, <1>12 DEF Next

LEMMA AlwaysTypeOK == Spec => []TypeOK
BY TypesInitially, TypesStep, PTL DEF Spec

-------------------------------------------------------------------------------
\* Whatever is loaded, toggled and sent to a session, the gain it applies moves towards a
\* target within its bounds, by the share its time constant allows, and a hot reload does not
\* move it at all (agc.rs:81-102 and 118-133).
THEOREM AlwaysGainGlides == Spec => GainGlides
<1>1. ASSUME TypeOK, Process
      PROVE  gain' = gain \/ Rises(gain, gain') \/ Falls(gain, gain') \/ Snaps(gain, gain')
  <2>1. PICK wanted \in Levels : Step(agc, gain, wanted, gain') /\ gain' \in 0..Top
    BY <1>1 DEF Process
  <2>2. CASE ~agc.enabled /\ Distance(gain, Unity) < Snap
    BY <2>1, <2>2 DEF Step, Snaps
  <2>3. CASE agc.enabled \/ ~(Distance(gain, Unity) < Snap)
    <3> DEFINE h == IF agc.enabled THEN Clamp(wanted, agc) ELSE Unity
    <3>1. Approach(agc, gain, h, gain')
      BY <2>1, <2>3 DEF Step
    <3>2. h \in Nat /\ MinGain <= h /\ h <= Larger(agc.max_gain, Unity)
      BY <1>1 DEF Process, Panics, Clamp, Larger, TypeOK, AgcParams
    <3> HIDE DEF h
    <3>3. gain \in Nat /\ gain' \in Nat /\ agc.attack \in Nat \ {0} /\ agc.release \in Nat \ {0}
      BY <1>1, <2>1 DEF TypeOK, AgcParams
    <3>4. CASE h < gain
      <4>1. Rounded(gain, h, agc.attack, gain')
        BY <3>1, <3>4 DEF Approach, Samples
      <4>2. ~(gain < gain')
        BY <3>2, <3>3, <3>4, <4>1, RoundedUp
      <4>3. gain' < gain => h <= gain' /\ Share(agc.attack, gain - gain', gain - h)
        BY <3>2, <3>3, <4>1, RoundedDown
      <4> QED BY <3>2, <3>3, <4>2, <4>3 DEF Falls, Share
    <3>5. CASE ~(h < gain)
      <4>1. Rounded(gain, h, agc.release, gain')
        BY <3>1, <3>5 DEF Approach, Samples
      <4>2. ~(gain' < gain)
        BY <3>2, <3>3, <3>5, <4>1, RoundedDown
      <4>3. gain < gain' => gain' <= h /\ Share(agc.release, gain' - gain, h - gain)
        BY <3>2, <3>3, <4>1, RoundedUp
      <4>4. Larger(agc.max_gain, Unity) \in Nat
        BY <1>1 DEF Larger, TypeOK, AgcParams
      <4> QED BY <3>2, <3>3, <4>2, <4>3, <4>4 DEF Rises, Share
    <3> QED BY <3>4, <3>5
  <2> QED BY <2>2, <2>3
<1>2. ASSUME Next, ~Process, session = "running", session' = "running"
      PROVE  gain' = gain
  BY <1>2 DEF Next, Launch, Kill, EditFile, Save, Written, WriteFails, Start, Stop, HotReload,
     ProcessPanics, chain
<1>3. TypeOK /\ [Next]_vars =>
        [session = "running" /\ session' = "running" =>
           gain' = gain \/ Rises(gain, gain') \/ Falls(gain, gain') \/ Snaps(gain, gain')]_vars
  BY <1>1, <1>2
<1> QED BY AlwaysTypeOK, <1>3, PTL DEF Spec, GainGlides

-------------------------------------------------------------------------------
(***************************************************************************)
(* Usable settings.                                                        *)
(***************************************************************************)
\* What `save` has left is what its build accepts.
SavedValid ==
  /\ providers \in Builds
  /\ saved_by # {} => file.state = "json" /\ file.object \in Setting /\ Valid(file.object, saved_by)
  /\ saved_by = {} \/ saved_by \in Builds
  /\ pc = "writing" => Valid(draft, providers)

\* A program that is clean has valid settings at every place it keeps them.
CleanKept ==
  pc # "off" /\ clean =>
    /\ Valid(settings, providers)
    /\ \A i \in 1..Len(updates) : Valid(updates[i], providers)
    /\ session = "running" => agc.max_gain >= LeastCeiling
    /\ session \notin {"rejected", "panicked"}

\* Nothing of a session outlives the program.
Down == pc = "off" => session = "none" /\ updates = <<>>

UInv == TypeOK /\ SavedValid /\ CleanKept /\ Down

\* A build accepts what a build with fewer providers does.
LEMMA MoreProviders ==
  ASSUME NEW s, NEW a, NEW b, a \subseteq b, Valid(s, a)
  PROVE  Valid(s, b)
BY DEF Valid

\* A file that can be trusted gives settings that are valid.
LEMMA LoadTrusted ==
  ASSUME SavedValid, NEW built \in Builds, Trusted(built)
  PROVE  Valid(Load(file), built)
<1>1. CASE file.state = "json"
  <2>1. file.object \in Setting /\ Valid(file.object, built)
    BY <1>1, MoreProviders DEF SavedValid, Trusted
  <2>2. Load(file) = Load(Json(file.object))
    BY <1>1 DEF Load, Json
  <2> QED BY <2>1, <2>2, LoadSaved
<1>2. CASE file.state # "json"
  BY <1>2 DEF Load
<1> QED BY <1>1, <1>2

LEMMA UsableInitially == Init => UInv
BY TypesInitially DEF Init, UInv, SavedValid, CleanKept, Down, Absent

LEMMA SavedValidStep ==
  ASSUME UInv, [Next]_vars
  PROVE  SavedValid'
<1> USE DEF UInv, SavedValid, TypeOK
<1>1. CASE Launch BY <1>1 DEF Launch, store
<1>2. CASE Kill BY <1>2 DEF Kill, store
<1>3. CASE EditFile BY <1>3 DEF EditFile, program
<1>4. ASSUME NEW s \in Edits, Save(s)
      PROVE  SavedValid'
  BY <1>4 DEF Save
<1>5. CASE Written BY <1>5 DEF Written, Json
<1>6. CASE WriteFails BY <1>6 DEF WriteFails, store
<1>7. CASE Start \/ Stop \/ HotReload \/ Process \/ ProcessPanics \/ UNCHANGED vars
  <2>1. UNCHANGED <<store, program>>
    BY <1>7 DEF Start, Stop, HotReload, Process, ProcessPanics, vars
  <2> QED BY <2>1 DEF store, program
<1> QED BY <1>1, <1>2, <1>3, <1>4, <1>5, <1>6, <1>7 DEF Next

LEMMA CleanKeptStep ==
  ASSUME UInv, [Next]_vars
  PROVE  CleanKept' /\ Down'
<1> USE DEF UInv, CleanKept, Down
<1>1. CASE Launch
  <2>1. PICK built \in Builds, env \in Environment :
          /\ providers' = built /\ clean' = Trusted(built)
          /\ settings' = WithEnvOverrides(Load(file), env)
    BY <1>1 DEF Launch
  <2>2. clean' => Valid(settings', providers')
    BY <2>1, LoadTrusted, OverridesKeepValid DEF TypeOK
  <2> QED BY <1>1, <2>2 DEF Launch, chain
<1>2. CASE Kill BY <1>2 DEF Kill
<1>3. CASE EditFile BY <1>3 DEF EditFile, program, chain
<1>4. ASSUME NEW s \in Edits, Save(s)
      PROVE  CleanKept' /\ Down'
  BY <1>4 DEF Save, chain
<1>5. CASE Written
  <2>1. Valid(draft, providers)
    BY <1>5 DEF Written, SavedValid
  <2>2. clean => \A i \in 1..Len(updates') : Valid(updates'[i], providers)
    BY <1>5, <2>1, SMTT(30) DEF Written, TypeOK
  <2> QED BY <1>5, <2>1, <2>2 DEF Written
<1>6. CASE WriteFails BY <1>6 DEF WriteFails, chain
<1>7. CASE Start
  <2>1. Valid(settings, providers) =>
          settings.provider \in providers /\ Params(settings).max_gain >= LeastCeiling
    BY DEF Valid, Params
  <2> QED BY <1>7, <2>1 DEF Start, program
<1>8. CASE Stop BY <1>8 DEF Stop, program
<1>9. CASE HotReload
  <2>1. clean => Valid(Head(updates), providers) /\ \A i \in 1..Len(Tail(updates)) : Valid(Tail(updates)[i], providers)
    BY <1>9 DEF HotReload, TypeOK
  <2>2. Valid(Head(updates), providers) => Params(Head(updates)).max_gain >= LeastCeiling
    BY DEF Valid, Params
  <2> QED BY <1>9, <2>1, <2>2 DEF HotReload, program
<1>10. CASE Process BY <1>10 DEF Process, program
<1>11. CASE ProcessPanics
  <2>1. clean => ~Panics(agc)
    BY <1>11 DEF ProcessPanics, Panics, TypeOK, AgcParams
  <2> QED BY <1>11, <2>1 DEF ProcessPanics, program
<1>12. CASE UNCHANGED vars BY <1>12 DEF vars, program, chain
<1> QED
  BY <1>1, <1>2, <1>3, <1>4, <1>5, <1>6, <1>7, <1>8, <1>9, <1>10, <1>11, <1>12 DEF Next

\* What save has validated stays valid through the file, the environment, another build with the
\* same providers, and hot reloads: no session is rejected and no AGC panics over it.
THEOREM AlwaysSettingsUsable == Spec => []SettingsUsable
<1>1. UInv /\ [Next]_vars => UInv'
  BY SavedValidStep, CleanKeptStep, TypesStep DEF UInv
<1>2. UInv => SettingsUsable
  BY DEF UInv, CleanKept, SettingsUsable
<1> QED BY UsableInitially, <1>1, <1>2, PTL DEF Spec
================================================================================
