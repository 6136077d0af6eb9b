--------------------------------- MODULE Tuning ---------------------------------
(***************************************************************************)
(* What settings do to a running program: they are loaded at launch, under *)
(* the overrides of the environment, edited and saved by the user, taken   *)
(* by the sessions that start and sent to the one that runs, where the AGC *)
(* is the component they can break.  The program may be killed at any      *)
(* moment, also in the middle of a save; the file may be edited by hand;   *)
(* the next launch may be that of a build with other providers.            *)
(***************************************************************************)
EXTENDS Settings, Agc, Sequences

CONSTANTS Builds,      \* the sets of providers that builds have
          Edits,       \* settings the user submits, valid or not
          Objects,     \* JSON objects that a text editor may leave in the file
          Environment, \* what the environment variables may hold at a launch
          Levels,      \* gains that the level of a sample may ask for
          Top,         \* bound: gains are looked for up to this one
          MaxLaunches, MaxSaves, MaxUpdates \* bounds

ASSUME TuningAssumption ==
  /\ LeastCeiling = Unity /\ MostCeiling <= Top
  /\ \A providers \in Builds : providers \subseteq {"nemotron", "soniox"} /\ Valid(Default, providers)
  /\ Edits \subseteq Setting /\ \A o \in Objects : Load(Json(o)) \in Setting
  /\ \A env \in Environment : env.chunk_ms \in Nat /\ env.threads \in Nat /\ env.key \in BOOLEAN
  /\ Levels \subseteq Nat /\ Top \in Nat
  /\ MaxLaunches \in Nat /\ MaxSaves \in Nat /\ MaxUpdates \in Nat

VARIABLES
  file,      \* settings.json
  saved_by,  \* history: the providers of the build whose save the file is, or {}
  pc,        \* the program: "off", "up", or "writing" the file
  providers, \* VALID_ASR_PROVIDERS of the build that runs
  settings,  \* the settings in use
  clean,     \* history: the program read no file that something else than a save had left
  draft,     \* the settings being saved
  session,   \* "none", "running", "rejected" by create_backend, or "panicked"
  updates,   \* settings_tx: what the session has yet to take
  agc, gain, \* AgcProcessor
  launches, saves

store == <<file, saved_by>>
program == <<pc, providers, settings, clean, draft>>
chain == <<session, updates, agc, gain>>
counters == <<launches, saves>>
vars == <<store, program, chain, counters>>

Trusted(built) == file.state = "json" => saved_by # {} /\ saved_by \subseteq built

Launch ==
  /\ pc = "off" /\ launches < MaxLaunches
  /\ \E built \in Builds, env \in Environment :
       /\ providers' = built /\ clean' = Trusted(built)
       /\ settings' = WithEnvOverrides(Load(file), env)
  /\ pc' = "up" /\ launches' = launches + 1
  /\ UNCHANGED <<store, draft, chain, saves>>

\* The program is quit or killed; a file that was being written is left as it is.
Kill ==
  /\ pc # "off" /\ pc' = "off"
  /\ session' = "none" /\ updates' = <<>>
  /\ UNCHANGED <<store, providers, settings, clean, draft, agc, gain, counters>>

EditFile ==
  /\ pc # "writing"
  /\ \E o \in Objects : file' = Json(o) /\ file' # file
  /\ saved_by' = {}
  /\ UNCHANGED <<program, chain, counters>>

SaveUnvalidated(s) ==                                      \* mutant: validate is not called
  /\ pc = "up" /\ saves < MaxSaves
  /\ file' = Torn /\ saved_by' = {} /\ draft' = s /\ pc' = "writing" /\ saves' = saves + 1
  /\ UNCHANGED <<providers, settings, clean, chain, launches>>
\* `save` of valid settings, up to the truncation of the file by fs::write; others are
\* rejected before anything is touched.
Save(s) ==
  /\ pc = "up" /\ saves < MaxSaves /\ Valid(s, providers)
  /\ file' = Torn /\ saved_by' = {} /\ draft' = s /\ pc' = "writing" /\ saves' = saves + 1
  /\ UNCHANGED <<providers, settings, clean, chain, launches>>

\* The file is written: the application uses the settings and sends UpdateSettings.
Written ==
  /\ pc = "writing" /\ pc' = "up"
  /\ file' = Json(draft) /\ saved_by' = providers
  /\ settings' = draft
  /\ IF session = "running" THEN Len(updates) < MaxUpdates /\ updates' = Append(updates, draft)
                            ELSE UNCHANGED updates
  /\ UNCHANGED <<providers, clean, draft, session, agc, gain, counters>>

WriteFails ==
  /\ pc = "writing" /\ pc' = "up"
  /\ UNCHANGED <<store, providers, settings, clean, draft, chain, counters>>

\* A session takes the settings in use; create_backend knows the providers of the build.
Start ==
  /\ pc = "up" /\ session = "none"
  /\ session' = IF settings.provider \in providers THEN "running" ELSE "rejected"
  /\ agc' = Params(settings) /\ gain' = Unity /\ updates' = <<>>
  /\ UNCHANGED <<store, program, counters>>

Stop ==
  /\ pc = "up" /\ session # "none" /\ session' = "none" /\ updates' = <<>>
  /\ UNCHANGED <<store, program, agc, gain, counters>>

HotReloadResetting ==                                      \* mutant: the processor is made anew
  /\ session = "running" /\ updates # <<>>
  /\ agc' = Params(Head(updates)) /\ updates' = Tail(updates) /\ gain' = Unity
  /\ UNCHANGED <<store, program, session, counters>>
\* The loop takes one update per iteration, before the samples; the gain goes on.
HotReload ==
  /\ session = "running" /\ updates # <<>>
  /\ agc' = Params(Head(updates)) /\ updates' = Tail(updates)
  /\ UNCHANGED <<store, program, session, gain, counters>>

ProcessFrozen ==                                           \* mutant: off means no ramp
  /\ session = "running" /\ agc.enabled /\ ~Panics(agc)
  /\ \E wanted \in Levels, to \in 0..Top : Step(agc, gain, wanted, to) /\ gain' = to
  /\ UNCHANGED <<store, program, session, updates, agc, counters>>
Process ==
  /\ session = "running" /\ ~Panics(agc)
  /\ \E wanted \in Levels, to \in 0..Top : Step(agc, gain, wanted, to) /\ gain' = to
  /\ UNCHANGED <<store, program, session, updates, agc, counters>>

ProcessPanics ==
  /\ session = "running" /\ Panics(agc) /\ session' = "panicked"
  /\ UNCHANGED <<store, program, updates, agc, gain, counters>>

Init ==
  /\ file = Absent /\ saved_by = {} /\ pc = "off" /\ providers \in Builds
  /\ settings = Default /\ clean = TRUE /\ draft = Default
  /\ session = "none" /\ updates = <<>> /\ agc = Params(Default) /\ gain = Unity
  /\ launches = 0 /\ saves = 0

Next ==
  \/ Launch \/ Kill \/ EditFile \/ (\E s \in Edits : Save(s)) \/ Written \/ WriteFails
  \/ Start \/ Stop \/ HotReload \/ Process \/ ProcessPanics

Spec == Init /\ [][Next]_vars

\* A running session is fed: its loop iterates, and takes what was sent to it.
FairSpec == Spec /\ WF_vars(Process \/ ProcessPanics) /\ WF_vars(HotReload)

-------------------------------------------------------------------------------
TypeOK ==
  /\ Load(file) \in Setting
  /\ saved_by \in Builds \cup {{}} /\ providers \in Builds
  /\ pc \in {"off", "up", "writing"} /\ clean \in BOOLEAN
  /\ settings \in Setting /\ draft \in Setting
  /\ session \in {"none", "running", "rejected", "panicked"} /\ updates \in Seq(Setting)
  /\ agc \in AgcParams
  /\ gain \in Nat

\* A program that has read only what `save` has written uses settings that `validate` accepts,
\* under any environment and through torn files, failed writes and hot reloads; so its sessions
\* are neither rejected by create_backend nor ended by a panic of the AGC.
SettingsUsable ==
  pc # "off" /\ clean => Valid(settings, providers) /\ session \notin {"rejected", "panicked"}

\* "click-free" (agc.rs:65): from one sample to the next, and across hot reloads, the gain
\* rises no higher than its ceiling or unity and falls no lower than the floor, and by no more
\* than the share of that distance that the time constant allows; the snap is the exception.
Share(n, move, distance) == 2 * (n * move) <= 2 * distance + n
Rises(from, to) ==
  LET top == Larger(agc.max_gain, Unity)
  IN  from < to /\ to <= top /\ Share(agc.release, to - from, top - from)
Falls(from, to) == to < from /\ MinGain <= to /\ Share(agc.attack, from - to, from - MinGain)
Snaps(from, to) == to = Unity /\ Distance(from, Unity) < Snap
GainGlides ==
  [][session = "running" /\ session' = "running" =>
       gain' = gain \/ Rises(gain, gain') \/ Falls(gain, gain') \/ Snaps(gain, gain')]_vars

\* When the AGC is turned off or its ceiling is lowered, the gain comes down to (or back up to)
\* where rounding stops the ramp: half a time constant from its end, or the end itself.
Near(a, b, n) == 2 * Distance(a, b) <= n
Settled ==
  IF agc.enabled THEN gain <= agc.max_gain \/ Near(gain, agc.max_gain, agc.attack)
  ELSE gain = Unity \/ Near(gain, Unity, Samples(agc, gain, Unity))
GainSettles == session = "running" ~> Settled \/ updates # <<>> \/ session # "running"
================================================================================
