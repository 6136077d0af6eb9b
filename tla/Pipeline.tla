-------------------------------- MODULE Pipeline --------------------------------
(***************************************************************************)
(* The way of a sample from the capture callback to push_audio: the        *)
(* CaptureBuffer of audio_capture/mod.rs that callbacks fill and the       *)
(* processing loop of audio_engine.rs drains, the staging in front of the  *)
(* resampler and of the VAD, and the routing of each frame by the          *)
(* backend's audio_gating.                                                 *)
(*                                                                         *)
(* A sample is its number in the order of capture.  The resampler is       *)
(* external: it keeps frames between its calls and yields, for a block, as *)
(* many samples as it likes, none for a block it fails on.  What it yields *)
(* is numbered in the order it yields it.  Metering and AGC change no      *)
(* count and no order and are left out.                                    *)
(***************************************************************************)
EXTENDS Vad

CONSTANTS CaptureCapacity, \* capacity of the capture buffer for this device
          Block,           \* input frames the resampler takes at a time
          MaxYield,        \* bound: samples the resampler yields for a block, at most
          Batch,           \* sizes of a callback's batch
          MaxSamples,      \* bound: samples captured in one behaviour
          MaxSessions      \* bound: sessions with the same VAD

ASSUME PipelineAssumption ==
  /\ CaptureCapacity \in Nat /\ Block \in Nat \ {0} /\ MaxYield \in Nat
  /\ Batch \subseteq Nat /\ MaxSamples \in Nat /\ MaxSessions \in Nat

InitialCapacity == 2 * CaptureCapacity   \* for_sample_rate(48000), for a device of half the rate

VARIABLES
  samples, capacity, dropped_samples,    \* CaptureBuffer
  resample_leftover, vad_leftover,
  pc,              \* "drain": top of the loop, "frames": in the VAD loop, "process"
  vad_input,       \* frames still to do in this iteration
  audio_gating,    \* of this session's backend
  needs_resample,  \* this session's device has another rate than 16 kHz
  pushed,          \* what the backend got of this session
  speaking,        \* the backend is between mark_speech_start and mark_speech_end
  sessions,        \* sessions so far
  captured,        \* history: samples captured so far
  drained,         \* history: all that was drained in this session, and captured at that time
  given,           \* history: what was handed to the resampler, or on, in this session
  yielded,         \* external: samples the resampler has yielded so far
  resampled,       \* history: what came out of this stage in this session
  failed           \* history: samples of frames the VAD failed on

captureBuffer == <<samples, capacity, dropped_samples, captured>>
stages == <<resample_leftover, vad_leftover, vad_input>>
session == <<audio_gating, needs_resample, sessions, drained, given, yielded, resampled, failed>>
pipeVars == <<vadVars, captureBuffer, stages, session, pc, pushed, speaking>>

-------------------------------------------------------------------------------
\* The newest n of a sequence.
Newest(s, n) == SubSeq(s, Max({1, Len(s) - n + 1}), Len(s))
Excess(s) == Max({0, Len(s) - capacity})

\* A capture callback, under the buffer's lock: the oldest samples make room.
CaptureBatch(n) ==
  LET s == samples \o [i \in 1..n |-> captured + i]
  IN  /\ samples' = Newest(s, capacity)
      /\ dropped_samples' = dropped_samples + Excess(s)
      /\ captured' = captured + n

Capture ==
  /\ \E n \in Batch : captured + n <= MaxSamples /\ CaptureBatch(n)
  /\ UNCHANGED <<vadVars, stages, session, capacity, pc, pushed, speaking>>

\* start_session learns the device's rate only when its callbacks may already run.
SetCapacity ==
  /\ pc = "starting"
  /\ capacity' = CaptureCapacity
  /\ samples' = Newest(samples, CaptureCapacity)
  /\ dropped_samples' = dropped_samples + Max({0, Len(samples) - CaptureCapacity})
  /\ pc' = "drain"
  /\ UNCHANGED <<vadVars, stages, session, captured, pushed, speaking>>

-------------------------------------------------------------------------------
Complete(s, size) == (Len(s) \div size) * size
Whole(s, size) == SubSeq(s, 1, Complete(s, size))
Rest(s, size) == SubSeq(s, Complete(s, size) + 1, Len(s))
\* What goes on to the VAD.
Stage(out) ==
  /\ vad_input' = vad_leftover \o out
  /\ resampled' = resampled \o out

\* A device of 16 kHz: the samples go on as they are.
PassOn ==
  /\ ~needs_resample
  /\ given' = given \o samples
  /\ Stage(samples)
  /\ UNCHANGED <<resample_leftover, yielded>>

ResampleDroppingTail ==                                    \* mutant: the tail is not kept
  LET input == resample_leftover \o samples
  IN  /\ needs_resample
      /\ given' = given \o Whole(input, Block)
      /\ resample_leftover' = <<>>
      /\ \E n \in 0..MaxYield * (Len(input) \div Block) :
           /\ Stage([i \in 1..n |-> yielded + i])
           /\ yielded' = yielded + n
\* Whole blocks are resampled and the rest is kept for the next iteration; how much comes of
\* the blocks is the resampler's business.
Resample ==
  LET input == resample_leftover \o samples
  IN  /\ needs_resample
      /\ given' = given \o Whole(input, Block)
      /\ resample_leftover' = Rest(input, Block)
      /\ \E n \in 0..MaxYield * (Len(input) \div Block) :
           /\ Stage([i \in 1..n |-> yielded + i])
           /\ yielded' = yielded + n

\* The buffer is drained under its lock, and what was in it is staged for the VAD.  An empty
\* drain goes to poll, which touches no audio.
DrainAndStage ==
  /\ pc = "drain" /\ samples # <<>>
  /\ samples' = <<>> /\ dropped_samples' = 0
  /\ drained' = [all |-> drained.all \o samples, upto |-> captured]
  /\ PassOn \/ Resample
  /\ vad_leftover' = <<>>
  /\ pc' = "frames"
  /\ UNCHANGED <<vadVars, capacity, captured, audio_gating, needs_resample, sessions, failed, pushed,
                 speaking>>

\* What the backend is given for a frame, from the decision on it.
RouteWithRing(frame) ==                                    \* mutant: the ring is not gated
  /\ pushed' = CASE decision'.type = "silence" /\ audio_gating = "VadGated" -> pushed
                 [] OTHER -> pushed \o decision'.pre_speech_samples \o frame
  /\ speaking' = CASE decision'.type = "started" -> TRUE
                   [] decision'.type = "ended" -> FALSE
                   [] OTHER -> speaking
RouteEndUnpushed(frame) ==                                 \* mutant: the last frame is kept back
  /\ pushed' = IF audio_gating = "Continuous" THEN pushed \o frame
               ELSE IF decision'.type \in {"silence", "ended"} THEN pushed
               ELSE pushed \o decision'.pre_speech_samples \o frame
  /\ speaking' = CASE decision'.type = "started" -> TRUE
                   [] decision'.type = "ended" -> FALSE
                   [] OTHER -> speaking
Route(frame) ==
  /\ pushed' = IF audio_gating = "Continuous" THEN pushed \o frame
               ELSE IF decision'.type = "silence" THEN pushed
               ELSE pushed \o decision'.pre_speech_samples \o frame
  /\ speaking' = CASE decision'.type = "started" -> TRUE
                   [] decision'.type = "ended" -> FALSE
                   [] OTHER -> speaking

\* One frame of the VAD loop; a frame the model fails on goes nowhere.
FrameHeard ==
  /\ pc = "frames" /\ Len(vad_input) >= FrameSize
  /\ LET frame == SubSeq(vad_input, 1, FrameSize)
     IN  /\ \E p \in Level : Process(p, frame)
         /\ Route(frame)
  /\ vad_input' = SubSeq(vad_input, FrameSize + 1, Len(vad_input))
  /\ UNCHANGED <<captureBuffer, session, resample_leftover, vad_leftover, pc>>

FrameFails ==
  /\ pc = "frames" /\ Len(vad_input) >= FrameSize
  /\ failed' = failed \cup Range(SubSeq(vad_input, 1, FrameSize))
  /\ vad_input' = SubSeq(vad_input, FrameSize + 1, Len(vad_input))
  /\ UNCHANGED <<vadVars, captureBuffer, audio_gating, needs_resample, sessions, drained, given,
                 yielded, resampled, resample_leftover, vad_leftover, pc, pushed, speaking>>

FramesDone ==
  /\ pc = "frames" /\ Len(vad_input) < FrameSize
  /\ vad_leftover' = vad_input /\ vad_input' = <<>>
  /\ pc' = "process"
  /\ UNCHANGED <<vadVars, captureBuffer, session, resample_leftover, pushed, speaking>>

\* backend.process, with the VAD's state after all the frames.
BackendProcess ==
  /\ pc = "process" /\ pc' = "drain"
  /\ UNCHANGED <<vadVars, captureBuffer, session, stages, pushed, speaking>>

\* Stop at the top of the loop, and a new session that reuses the VAD: a fresh buffer, fresh
\* stages, possibly another backend.
NewSession ==
  /\ pc = "drain" /\ sessions < MaxSessions
  /\ sessions' = sessions + 1
  /\ Reset
  /\ samples' = <<>> /\ capacity' = InitialCapacity /\ dropped_samples' = 0
  /\ resample_leftover' = <<>> /\ vad_leftover' = <<>> /\ vad_input' = <<>>
  /\ audio_gating' \in {"VadGated", "Continuous"} /\ needs_resample' \in BOOLEAN
  /\ pushed' = <<>> /\ speaking' = FALSE /\ resampled' = <<>> /\ failed' = {}
  /\ drained' = [all |-> <<>>, upto |-> captured] /\ given' = <<>>
  /\ pc' = "starting"
  /\ UNCHANGED <<captured, yielded>>

PipeInit ==
  /\ VadInit
  /\ samples = <<>> /\ capacity = InitialCapacity /\ dropped_samples = 0 /\ captured = 0
  /\ resample_leftover = <<>> /\ vad_leftover = <<>> /\ vad_input = <<>>
  /\ pc = "starting" /\ audio_gating \in {"VadGated", "Continuous"} /\ needs_resample \in BOOLEAN
  /\ pushed = <<>> /\ speaking = FALSE /\ sessions = 1 /\ resampled = <<>> /\ failed = {}
  /\ drained = [all |-> <<>>, upto |-> 0] /\ given = <<>> /\ yielded = 0

PipeNext == Capture \/ SetCapacity \/ DrainAndStage \/ FrameHeard \/ FrameFails \/ FramesDone
            \/ BackendProcess \/ NewSession

PipeSpec == PipeInit /\ [][PipeNext]_pipeVars

-------------------------------------------------------------------------------
Increasing(s) == \A i, j \in 1..Len(s) : i < j => s[i] < s[j]

PipeTypeOK ==
  /\ VadTypeOK
  /\ samples \in Seq(Nat) /\ capacity \in Nat /\ dropped_samples \in Nat /\ captured \in Nat
  /\ Len(samples) <= capacity
  /\ pc \in {"starting", "drain", "frames", "process"}
  /\ resample_leftover \in Seq(Nat) /\ vad_leftover \in Seq(Nat) /\ vad_input \in Seq(Nat)
  /\ audio_gating \in {"VadGated", "Continuous"} /\ needs_resample \in BOOLEAN
  /\ pushed \in Seq(Nat) /\ speaking \in BOOLEAN /\ sessions \in Nat
  /\ resampled \in Seq(Nat) /\ failed \subseteq Nat
  /\ drained \in [all : Seq(Nat), upto : Nat] /\ given \in Seq(Nat) /\ yielded \in Nat

\* The backend never hears a sample twice nor out of order, in either gating mode: not at an
\* onset, where the ring is delivered (asr/mod.rs:88-91), not after an overflow of the capture
\* buffer, and not from the session before.
PushedOnceInOrder == Increasing(pushed) /\ Range(pushed) \subseteq Range(resampled)

Waiting == Range(vad_input) \cup Range(vad_leftover)
Live == Range(resampled) \ (Waiting \cup failed)
Gap(i) == \E s \in Live : s < pushed[i + 1] /\ (i > 0 => pushed[i] < s)
HearsAll == Range(pushed) = Live

\* A gated backend misses silence only, and only silence older than the ring: a gap in what it
\* has heard is followed by at least a full ring and the frame of the onset, and while speech
\* is open it has everything.
MissesSilenceOnly ==
  /\ \A i \in {j \in 0..Len(pushed) - 1 : Gap(j)} :
       LET end == i + RingCapacity + FrameSize
       IN  end <= Len(pushed) /\ \A j \in i + 1..end - 1 : ~Gap(j)
  /\ state = "speech" => \A s \in Live : s <= Last(pushed)

\* What the backend is told of speech agrees with the state of the VAD that process is given.
MarksFollowVad == speaking = (state = "speech")

\* The gating loses no speech and marks it right: but for the frames the VAD failed on and what
\* waits for a whole frame, a continuous backend has heard all that was resampled and a gated
\* one all but old silence (asr/mod.rs:79-92).
GatingKeepsSpeech ==
  MarksFollowVad /\ IF audio_gating = "Continuous" THEN HearsAll ELSE MissesSilenceOnly

\* The stages in front of the VAD account for every sample: a full capture buffer loses its
\* oldest, each of them counted; what is drained is handed to the resampler once, in order and
\* in whole blocks, but for less than a block that waits for the next drain, and without a
\* resampler all of it goes on to the VAD.  What the resampler makes of a block is not said.
StagesExact ==
  /\ PipeTypeOK
  /\ samples = [i \in 1..Len(samples) |-> captured - Len(samples) + i]
  /\ dropped_samples = captured - drained.upto - Len(samples)
  /\ given \o resample_leftover = drained.all /\ Len(resample_leftover) < Block
  /\ Increasing(drained.all)
  /\ ~needs_resample => resampled = drained.all
===============================================================================
