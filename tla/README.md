# larmindon-core in TLA+

larmindon-core captures audio, cuts it into speech with a VAD, hands it to a speech recognizer
(an on-device decoder or a cloud service) and emits a live transcript. This directory holds
specifications of its core logic, TLC configurations that check them on small instances, and
theorems checked by TLAPS. `PROJECT.json` maps every definition to the lines it translates.
Paths below are relative to the repository's `src/`.

Run one check with `tlc -workers 2 -config MCVad.cfg MCVad`, one proof module with
`tlapm SonioxTranscriptProofs.tla`.

## 1. Inventory

| Component | State | Operations |
|---|---|---|
| Engine thread, `audio_engine.rs:146-505` | command channel, session slots (stream, buffer, thread, flags, settings channel), model cache, shared session info | `run`: Start, Stop, Reconnect, UpdateSettings, ListDevices |
| Processing thread, `audio_engine.rs:507-864` | resampler and VAD leftovers, backend, VAD | one iteration: stop, hot reload, drain, resample, VAD, gate, `process`/`poll` |
| Capture buffer, `audio_capture/mod.rs:54-121` | samples, capacity, count of dropped | push, drain, set_capacity |
| VAD, `vad.rs` | pre-speech ring, state, counters, thresholds | process, update_params, reset |
| Nemotron backend, `asr/nemotron.rs` | audio buffer, replay buffer, queued resets, decoder | push, marks, process, begin/end |
| Soniox adapter, `asr/soniox/backend.rs` | staged audio, accumulator, owed errors | process, poll, end_session |
| Soniox accumulator, `asr/soniox/accumulator.rs` | pending durable text, open runs and ids | ingest, finish, reset |
| Soniox client, `asr/soniox/client.rs` | two channels, atomic backlog, pending audio, retry count | send, finish, receive, drop; the socket thread |
| PipeWire watcher, `audio_capture/pipewire.rs` | map of devices, device cache | registry callbacks, fallback |
| Capture streams, `cpal.rs`, `pipewire.rs`, `wasapi_process.rs`, `windows_composite.rs` | one callback or thread per stream, stop flag, shutdown channel | start, stop, callback, pump |
| AGC, `agc.rs` | gain, target, time constants | process, update_params |
| Settings, `settings.rs` | the settings in use, `settings.json`, the environment | load, save, validate, overrides |
| Diagnostics, wire protocol, event sinks, replay example | a log, wire code, traits, a tool | |

**Interaction.** The UI sends commands to the engine thread, which answers with events. A
capture callback fills the capture buffer under a mutex; the processing thread drains it. The
processing thread owns the backend; a Soniox backend owns a handle on a socket thread, with an
unbounded channel each way and one shared atomic. The watcher thread reads the engine's session
info, writes the device cache the engine also writes, and sends the engine Reconnect.

**What is hard.** Four kinds of thread meet in channels, a mutex and an atomic; stops are flags
followed by a join that can wait for a model, a handshake or a network; connections break while
audio is queued in three places; text is revised and finalized under ids that must never be
reused; errors share one return slot with text; caches outlive the sessions that filled them.
`PROJECT.json` lists each such place under `hazards`.

**What makes each part correct.** Accumulator: each durable word once, in order, under its
speaker, and no segment stranded. Client: audio in order with no hole, a bounded backlog, one
last message, a join that returns. Adapter: no text and no status lost to the other. Engine: one
thread, one capture, the right model, no silent death. Pipeline and VAD: each sample once, no
speech gated away. Nemotron: a decoder context within one utterance, text once. Watcher: a map
that tracks the graph, a lost device handled, a stopped session left stopped. Capture streams: no
thread that nobody can stop, audio from the held stream only, a stop that returns. Settings and
AGC: what was saved can be used, and the gain never jumps and always settles.

## 2. Modules

```
TranscriptContract  <-implements-  Accumulator      SonioxTranscriptProofs
ClientContract      <-implements-  SonioxClient     SonioxClientProofs
      ^-- used by -- SonioxBackend                  SonioxTranscriptProofs
Engine                                              EngineProofs
CaptureStream                                       CaptureStreamProofs
Nemotron                                            NemotronProofs
Settings, Agc  <-extends-  Tuning                   TuningProofs
Vad  <-extends-  VadStream (alone)                  AudioInputProofs
     <-extends-  Pipeline (with capture, staging and gating)      "
Watcher                                                           "
Lists (used by Accumulator, SonioxClient and Nemotron)            ListsProofs
```

A proof module covers one way through the system: SonioxTranscriptProofs the text from the socket
to the transcript, AudioInputProofs the audio from the choice of its device to the backend.

Every `MC*` module gives a specification its values for TLC. Operators named in a comment
`mutant` are altered forms of the definition after them: with one of them in its place TLC finds
the property it is paired with violated. They belong to no specification.

**TranscriptContract**: the state is what a consumer knows of the segments. `Deliver` is one
batch: ids grow in order of appearance, a closed segment is never addressed again.

**Accumulator**: `ingest` is a loop, so a response is `ReceiveResponse`, any number of
`IngestDurable`, and one `RebuildOpen`; `todo` bounds the loop. The methods are operators on the
accumulator together with the id source and the consumer's store, since an update leaves at
once. Text is a sequence of pieces (blank or not, own label, which durable token). A token that
ends a sentence is the kind `stop`: `ends_sentence` itself and the joining of fragments are
abstracted. `finish` and `reset` are one action because every caller calls both.

**ClientContract / SonioxClient**: `hpc` is the handle's place in `send_audio` (check, count and
send are three steps, as the socket task may subtract between them) or in `Drop`; `pc` is the
socket thread's. Each await that keeps the task in one place is a value of `pc`, or `writing`
while an audio frame is on its way, so that no other arm of `select!` runs. `wire`, `failed` and
`late` say what became of each frame. Binary frames are fatal errors and end the session as those
do. `ClientContract` keeps of this the inbound channel, whether the thread lives and whether the
handle is held.

**SonioxBackend**: the adapter and the calls the loop makes, over `ClientContract`. A drain is a
loop of `Drain` steps, because messages keep arriving. An endpoint finalizes all that is open, the
coarse form of what Accumulator does. `discard` marks the loop's fatal path.

**CaptureStream**: the thread or callback of every stream a session or a Reconnect starts, on all
three backends, with the engine thread that starts, stops and joins them. PipeWire's `start`
returns before its thread has connected; WASAPI's waits for it with a timeout and gives the thread
up (`Abandon`), which then lives on until it sees its flag; cpal has a callback without a check.
A buffer is the number of its session, and a batch no more than which thread put it where. Engine
abstracts all this to a set of captures; CaptureStream abstracts what Engine adds (models,
threads, settings).

**Settings / Agc / Tuning**: `Settings` has load, validate and the environment overrides as
operators on the fields other components depend on. `Agc` has one step of the gain: attack and
release, the clamp, the ramp of a disabled AGC to unity and its snap, with f32 rounding as integer
rounding in units of the last place at a gain of one. `Tuning` composes them through the life of
the program: launches of builds with and without Soniox, a save in two steps which a kill may
tear, files edited by hand, sessions and the hot reload. The level that a sample asks for is free.

**Engine**: handlers are one action up to the point where another thread can act: Start and Stop
signal (`HandleStartOrStop`), wait (`Join`), and Start goes on (`StartSession`, `StartFails`).
A processing thread is its setup, iterations and its four ways to end. Setup is one step after
which backend and VAD are in place, or an error.

**Vad / VadStream / Pipeline**: a probability is a level, a sample its number. Each branch of
`VadStateMachine::process` is an action. Pipeline adds the capture buffer with its late change of
capacity, the whole blocks handed to the resampler and the leftover, the VAD loop frame by frame
(with failing frames) and the routing. The resampler (rubato's `FftFixedIn`) is external: it keeps
frames between calls, its yield varies from block to block, and a block it fails on yields nothing.
The model lets it yield any number of samples up to `MaxYield` for a block, whatever the device's
rate, and numbers them in the order they come. So the way of a sample is followed up to the resampler
under its number of capture, and behind it under its number of yield.

**Nemotron**: `process` is `ProcessStarts`, a `Chunk` per chunk, `ProcessEnds`. The decoder
answers a chunk with text, text that ends a sentence, nothing or an error, and a replayed one with
text or not, freely. Its context is the set of speech segments it has heard since its last reset.

**Lists**: what three of the modules say of sequences: the elements at some of the positions, in
order (`At`), and the sum (`Total`). Both are defined without recursion over sequences, so that
ListsProofs can reason about them.

**Watcher**: registry events reach the watcher in order but late. `enumerate_devices` collects
over time (`found`) and then overwrites the cache or fails to. Any node may vanish, the default sink
too: another one takes its place, or there is none. The engine's handlers are split where they stop
the stream, enumerate, and write the session info; the stream of a Start or of a Reconnect may not
start, and `told` records what device the session was on when a Reconnect failed.

## 3. Runs

| Run | Question | Bounds and why they suffice |
|---|---|---|
| MCAccumulator | does the fold keep the transcript contract and lose, repeat or misattribute nothing? | 2 speakers and none, 2 responses, 2 durable tokens each, tails of 2: a turn change inside a response, a growing and a shrinking tail, a teardown in between |
| MCSonioxClient | is the audio stream intact over outages, and does every session end? | 3 frames of sizes 1, 2, 1 against 3; 1 retry; 2 text frames: overflow, an outage with audio in all three places, budget spent and budget reset |
| MCSonioxBackend | is text or status lost between socket and transcript? | 3 responses, 2 outages: two statuses and text in one drain |
| MCEngine | one thread, one capture, right model, everything reported? | 3 commands, 2 devices, 4 settings: start, edit and restart; reconnect between |
| MCVad | are ring, onset count and hysteresis right over long sequences? | 9 frames of 2 through a ring of 5, 3 levels: wraps within a frame, drains, and reloads |
| MCPipeline | does each sample reach the backend once, and speech always? | 14 samples, batches of 3 and 4, capture of 5, with and without a resampler that yields 0 to 2 samples for a block of 2, 2 sessions: overflow, leftovers at each stage |
| MCNemotron | are contexts, replays and utterance tails right? | 5 frames of 2, chunks of 3, rings of 0 or 3, thresholds 0 to 2: several segments and resets in one iteration |
| MCWatcher | does the device map track the graph, and the loss of a device get handled? | 1 application, 2 monitors, 2 user commands: loss before, during and after a start or stop, of the session's device, of the fallback, and of the last monitor |
| MCCaptureStream | can every capture thread be stopped, and does only the held one fill the buffer? | PipeWire, Windows (both backends) and cpal alone; 3 streams of 2 batches, 3 commands: a stream given up, its late batch, and a successor for the same or the next session |
| MCTuning | is what `save` wrote usable, and does the gain glide and settle? | 2 launches, 2 saves, 1 reload; gains 2 to 13 with unity at 6: both ends of the ceiling, a time constant at which the ramp stalls before the snap |

Two runs find a statement of the repository violated:

* **MCEngineThresholds**: a cached VAD is reset but keeps its thresholds
  (`audio_engine.rs:540-543`), so settings edited between two sessions take effect at the next hot
  reload only.
* **MCWatcherDefault**: `default_sink_name` is never written (`pipewire.rs:668-669`), so the
  fallback takes any monitor, where the comment at `pipewire.rs:719` says the default one.

**Deadlock** is checked for the accumulator, the client and the adapter. It is switched off
where the system may rest for good: an engine without commands, a stream that has ended, a program
that was quit.

**Fairness.** Client: the runtime polls the task, `select!` picks among ready arms at random, so
an arm that is ready again and again is taken (strong fairness for messages and the watchdog),
timers end (weak fairness). That a write completes or fails is an assumption on the network
(`NetworkFairness`), stated apart since the code puts no timeout on writes; `JoinReturns` and
`AudioMoves` rest on it. Adapter: the processing thread runs, and the thread behind a dropped
handle returns, which is `JoinReturns`. Engine: both threads are scheduled and each setup or
iteration ends; nothing obliges the UI to send, or a thread to panic. Watcher: both threads run.
CaptureStream: the engine thread runs, and each capture thread pushes the batch it holds and sees
its flag, by the 10 ms timer of PipeWire's loop and the 200 ms wait of the WASAPI pump; a WASAPI
setup may hang for ever, which is what the timed wait is for. Tuning: a session processes
samples and reads its settings channel at each iteration.

## 4. Proofs

TLAPS proves every safety invariant and every action property the passing runs check, for all
values of the constants, from the named assumptions of the modules only (`AccumulatorAssumption`,
`ClientAssumption`, `BackendAssumption`, `EngineAssumption`, `CaptureStreamAssumption`,
`VadAssumption`, `VadStreamAssumption`, `PipelineAssumption`, `NemotronAssumption`,
`WatcherAssumption`, `AgcAssumption`, `SettingsAssumption`, `TuningAssumption`). The bounds in the
guards of actions are constants like any other, so the theorems hold for runs of any length. In each
module the invariant of the theorem is not inductive by itself; what is proved inductive is the
strengthening below.

**ListsProofs.** The facts about `At` and `Total` the other modules need. The well-foundedness of <
on the naturals gives each set of them a least member (`LeastOfSet`), and that gives induction over
a set of numbers (`SetInduction`), from which sums exist and are unique (`SumsExist`, `SumsUnique`,
`TotalIs`). Picking needs no induction: ranks are cardinalities, an increasing list of a set is a
bijection and the only one (`AscendingUnique`), so picking from a concatenation is picking from its
parts (`AtConcat`, `Split`).

**SonioxTranscriptProofs, the accumulator.** `AccInv` says `Sound` of the accumulator, id source and
store together: the open ids are a sequence that increases and lies below `next_id`; there are as
many runs as ids; the ids shown as open are exactly these; the closed ones are others, also below
`next_id`; none was reopened. That a flush closes a fresh segment needs the ids to be distinct, and
that a rebuild draws larger ids needs `next_id` to bound everything seen. The helpers are shown to
advance the contract one by one (`FlushAdvances`, `TurnAdvances`, `PublishAdvances`, ...), and since
a token may flush twice, advancing is shown transitive (`AdvancesTransitive`). From it follow
`AlwaysAligned`, `AlwaysOpenInOrder`, `AlwaysNoneStranded` and `ImplementsContract`.

The words need a second layer, `TextInv`. Its heart is `Spoken`, which each method keeps in the
middle of an `ingest` too: the durable words that were said, then those pending, are 1, 2, ..., n,
pending speech has no label but that of `pending_speaker`, and what was said is its speaker's own.
Between responses `Screened` ties this to the screen: the pending speech is in the first open
segment and in no other. From it follow `AlwaysDurableText` and `AlwaysCreditedToSpeaker`.

**SonioxTranscriptProofs, the adapter.** Built on the contract of the socket thread, not on the
thread. `BackendInv` numbers the responses (`Numbered`), keeps them in one place each (`Distinct`),
has the last message last (`LastIsLast`), the two parts of `TextAccounted`, and `Ending`: which of
the loop's states may have a fatal status, and that by then the thread is silent. Without `Distinct`
a finalized piece could come back as open; without `Ending`, text could follow the reason. The
theorems: `AlwaysTextAccounted`, `AlwaysStopKeepsAll`, `AlwaysReasonAndTextKept`.

**SonioxClientProofs.** `IInv` is `Shape` (the types the rest needs), `Control` (where the thread
may be while audio is being written, after end-of-stream, and while audio is pending), `Bounds`
(counters), `Ordered` and `Ending`. `Ordered` extends `CaptureOrder` by the frame `send_audio`
holds, which is younger than any in the channel; its lemmas treat wire, writing, pending and channel
as lanes through which a frame moves one step (`StartLane`, `ReplayLane`, `WrittenLane`, ...).
`Ending` says that a Shutdown in the channel or being acted on means a dropped handle, that a
terminal message is last and ends the thread, and that a thread whose handle is still held has left
one. From it follow `AlwaysTypeOK`, `AlwaysCaptureOrder`, `NeverAfterEos`, `AlwaysTerminalIsLast`,
`AlwaysSendFailureExplained` and `ImplementsClientContract`, which makes the contract
`SonioxBackend` uses a theorem on the client. A second layer, `Whole`, adds `Ceiling` (the backlog
of a session that lives is between zero and its limit with any frame on its way in, so the audio of
an outage fits), `NoHole`, and `Handshake` (a Finish in the channel has the audio accepted before it
in front of it; once it has been taken, that audio is on the wire, failed or pending). It gives
`AlwaysNoHole` and `AlwaysTailBeforeEos`. `AlwaysBacklog` has the invariant that the counter of a thread
that runs is the sum of the samples in the channel, pending, and in the frame that is counted but
not sent yet (`Budget`); how sums change with the sequences comes from ListsProofs.

**EngineProofs.** `IInv` is the types, `Control` (sessions are numbered, the newest alone can be
held, and what belongs to it is given up with it), `OnlyHeldThreadRuns`, `Reported` (a failure is
reported when it happens, a panic at the latest at the join), `CacheLabelled` (while a session is
held the cache is empty but labelled with what the session runs) and `RightModel`. A model comes
back into the cache at a join; that it is labelled right then is a fact about the whole session.
The theorems: `AlwaysTypeOK`, `AlwaysOneSession`, `AlwaysRightModel`, `AlwaysFailuresReported`.

**CaptureStreamProofs.** `IInv` adds to `StreamsAccounted` where the engine thread stands (`Slots`),
that a slot holds a stream which has started and was not given up (`Numbered`), which stream is
waited for (`Awaited`), and `LateCounted`: a thread that was given up has its flag set and has
pushed the one batch it may have held at most. The theorems: `AlwaysStreamsAccounted`,
`AlwaysOnlyHeldStreamFills`.

**NemotronProofs.** `IInv` says that queued resets strike at boundaries of chunks still ahead, no
two at the same (`ResetsInOrder`); that wherever the audio ahead passes from one segment to another,
or from what the decoder has heard, one strikes in between (`SegmentsApart`); what the VAD stage
may append to (`Current`); and that a replay hands the decoder only what it has heard (`Context`).
Arithmetic enters through `PaddingAligns` and `AlignedApart`: padding ends at a boundary, and two
boundaries are a chunk apart, so a chunk never has a reset in its middle. The theorems:
`AlwaysOneSegmentInContext` and, from `NothingWaits`, `AlwaysUtteranceFinished`.

`AlwaysSpeechOnce` adds two invariants. `Spoken`: what the decoder was handed for the first time,
followed by the speech in the audio ahead, is the speech so far in order; padding and silence are
picked out by `Split`. `TextsOK`: the chunks whose text was shown increase, and after e empty chunks
in a row the last e of the replay buffer are later than any of them. The replay that shows text
again would need a reset after fewer empty chunks than the buffer holds; that there is none is
`max_chunks <= empty_reset_threshold`, as the buffer is always sized by that threshold
(`nemotron.rs:169`, `205`).

**AudioInputProofs, the VAD.** `VadInv` says that the ring holds the latest samples of the silence
up to its capacity (`RingOf`, from lemmas on remainders, since positions wrap), that the onset count
of the leaky counter is the largest surplus of any recent window (`Peak`), and in speech that as many
frames as are counted were quiet (`Pauses`). The theorems, for `VadStream`: `AlwaysRingHoldsLatest`,
`AlwaysLeakyCount`, `AlwaysEndsAfterSilence` (which is about the frames before the one that ends
speech; that one's own level is a guard of `SpeechEnds`).

**AudioInputProofs, the pipeline.** `PipeInv` follows a sample from stage to stage: `CaptureOK` (the
buffer holds what was captured last, and counts the rest), `StageOK` (what was drained, in order, is
what was handed on followed by what waits for a whole block; what the resampler yields is later than
all it has yielded), `FrameOK` (what waits in front of the VAD is later than
what has gone through), `HeardOK` (what the backend has, and in gated mode what the ring still holds,
are in order, and there are gaps in silence only), with `VadInv` used for the ring. The theorems:
`AlwaysStagesExact`, `AlwaysPushedOnceInOrder`, `AlwaysGatingKeepsSpeech`.

**AudioInputProofs, the watcher.** `WatcherInv` has `EventsInOrder` (a node is announced once and
withdrawn once, in this order), without which the map could not be the graph less what is on its
way; `QueueHolds`, `Control`. The theorems: `AlwaysMapTracksGraph`, `AlwaysStoppedStaysStopped`.

**TuningProofs.** `AlwaysGainGlides` rests on the rounded moving average: a step goes towards its
target, never past it, and by the share 1/n give or take half a unit (`RoundedUp` and its mirror
image). `AlwaysSettingsUsable` has the invariant `UInv`: what `save` left is what its build accepts
(`SavedValid`), a program that has read nothing else has valid settings at every place it keeps
them (`CleanKept`), and nothing of a session outlives the program (`Down`).

**Model-checked only.** Liveness (`JoinReturns`, `AudioMoves`, `StatusReported`, `CommandsHandled`,
`LossHandled`, `WindsDown`, `GainSettles`): the prover has no rules for fairness and ENABLED.

## 5. Observations without a run of their own

Sockets and text:

* No write has a timeout (`client.rs:370-387`), against "the join is bounded in practice"
  (`client.rs:128-130`): it is bounded by TCP when a peer stops reading.
* A response without tokens is not forwarded (`client.rs:581`), so a withdrawn tail stays visible.
* A Finish during backoff drops the pending audio (`client.rs:354`).
* After a fatal error the loop discards what `end_session` returns (`audio_engine.rs:845-848`,
  `668-670`, against `asr/mod.rs:238`), so text open at that time stays provisional; it is shown as
  final when the thread gave its reason with Fatal (`ReasonAndTextKept`), not when only the channel
  is found closed, as after the service has ended the session by itself with `finished`.

Sessions and audio:

* A VAD error skips the frame before the gating (`audio_engine.rs:738-744`), so a continuous
  backend misses it; `asr/mod.rs:85` promises "Every frame, silence included, exactly once".
* Stop discards what the capture buffer and the leftovers hold (`audio_engine.rs:611-625`).
* When the command channel closes without a Stop, `run` returns (`audio_engine.rs:206-211`) and the
  threads of a PipeWire or WASAPI capture and the processing thread are left to the end of the
  process.
* A capture thread that dies, or never connects, is reported to nobody
  (`wasapi_process.rs:158`, `pipewire.rs:90`): the session runs on in silence.
* A Reconnect that fails leaves the old device in the session info with no stream
  (`audio_engine.rs:499-502`); the user is told, which `StreamsAccounted` checks.

Devices:

* The watcher's doc promises a reconnect when an application stream reappears
  (`pipewire.rs:621-623`); no code does it.
* A Reconnect sent for one session moves the next one if it is handled after a Stop and Start.
* Three losses go unhandled, and `LossHandled` leaves them out. A node that vanishes between the
  start of its capture and the write of the session info (`audio_engine.rs:393-400`, and `481-492` for
  a Reconnect) is not recognized as the session's. A loss while no other monitor is known sends no
  Reconnect (`pipewire.rs:723-739`): on a machine with one sink whose monitor is captured, the session
  stays on the dead node without a word, also when a monitor appears later. And a Reconnect whose
  stream does not start leaves `device_id` on the lost device (`audio_engine.rs:499-502`), so that no
  later event can bring a fallback; there the user is told, which is what the property asks for.

Settings, AGC and diagnostics:

* `Settings::load` does not validate. An empty-reset threshold of 0 reaches Nemotron (the model
  includes it and its properties hold); a file of a build with Soniox leaves a build without it with
  a provider that Start rejects, against `settings.rs:7-8`; a ceiling below the lowest gain, edited
  into the file, makes `f32::clamp` panic (`agc.rs:79`). `SettingsUsable` is therefore stated for
  files that `save` has written.
* `fs::write` is not atomic (`settings.rs:191`): a kill in the middle of a save leaves a torn file,
  which loads as the defaults, and the API key is lost.
* The ramp of a disabled AGC stalls before the snap "for exact passthrough" (`agc.rs:91-92`): with
  f32 rounding an attack of 20 ms stays at +1.9e-5 and a release of 400 ms at -1.9e-4 from unity,
  more than the 1e-6 that snaps. With 1 ms the snap is reached. `GainSettles` asks for a gain that
  comes to rest, not for unity.
* `validate` creates the directory of the diagnostics database before later checks may reject the
  settings.
* Diagnostics turned off between Start and the opening of the database, and on again later, write
  events of session 0 (`diag.rs:90`), against `diag.rs:3-5`.

## 6. Plan

1. *Done*: every component with control logic has a module, its runs and its theorems; no safety
   property of a passing run is without a proof.
2. Prove next: that Pipeline's capture is what CaptureStream's held stream fills, and that a session
   of Engine uses the VAD and the backend as Pipeline and Nemotron assume.
3. Model next: Engine and Watcher composed, for the Reconnect that outlives its session; a run of
   the client without `NetworkFairness`.

**Not modelled.** Diagnostics (a log nothing reads back), wire encoding and PCM conversion, the
enumeration of devices and processes, format negotiation and downmix, level metering, paths,
themes and fonts of the settings, crate root and the replay example; `PROJECT.json` gives the reason
for each component.
