---------------------------------- MODULE Vad ----------------------------------
(***************************************************************************)
(* vad.rs without the ONNX model: the ring buffer that keeps the audio     *)
(* just before speech, and the state machine that turns one probability    *)
(* per frame into decisions, with a start threshold, an end threshold, and *)
(* a leaky count of speech frames.                                         *)
(*                                                                         *)
(* A probability is a level: the code only compares it with thresholds.    *)
(* A sample is its number in the stream the VAD hears.                     *)
(***************************************************************************)
EXTENDS Integers, Sequences, SequencesExt, FiniteSetsExt

CONSTANTS FrameSize,    \* samples of a frame (VAD_CHUNK_SIZE)
          RingCapacity, \* samples of the ring buffer (pre_speech_ms)
          MinSpeech,    \* min_speech_frames
          MinSilence,   \* min_silence_frames
          Level,        \* probabilities
          Thresholds    \* settings of [start, end]

ASSUME VadAssumption ==
  /\ FrameSize \in Nat \ {0} /\ RingCapacity \in Nat \ {0}
  /\ MinSpeech \in Nat \ {0} /\ MinSilence \in Nat \ {0}
  /\ Level \subseteq Nat
  /\ \A t \in Thresholds : t.start \in Nat /\ t.end \in Nat

Slot == 0..RingCapacity - 1

VARIABLES
  ring,                \* PreSpeechRingBuffer: [data, write_pos, len]
  state,               \* "silence" or "speech"
  threshold,           \* threshold_start and threshold_end
  speech_frame_count,
  silence_frame_count,
  decision,            \* of the last frame: [type, pre_speech_samples]
  quiet,               \* history: samples kept back since the last drain or reset
  judged               \* history: how the frames since speech last ended compare with the
                       \* two thresholds of their time: [onset, pause]

machine == <<state, speech_frame_count, silence_frame_count>>
history == <<quiet, judged>>
vadVars == <<ring, machine, threshold, decision, history>>

-------------------------------------------------------------------------------
(***************************************************************************)
(* The ring buffer.                                                        *)
(***************************************************************************)
EmptyRing == [data |-> [i \in Slot |-> 0], write_pos |-> 0, len |-> 0]

\* Each slot keeps the last sample written to it.
PushSlice(r, samples) ==
  LET n == Len(samples)
      writers(i) == {j \in 1..n : (r.write_pos + j - 1) % RingCapacity = i}
  IN  [data      |-> [i \in Slot |-> IF writers(i) = {} THEN r.data[i]
                                     ELSE samples[Max(writers(i))]],
       write_pos |-> (r.write_pos + n) % RingCapacity,
       len       |-> Min({r.len + n, RingCapacity})]

\* drain_all: the samples in the order they came; the ring is empty afterwards, with the
\* old samples still in their slots.
InOrder(r) ==
  LET first == IF r.len < RingCapacity THEN 0 ELSE r.write_pos
  IN  [i \in 1..r.len |-> r.data[(first + i - 1) % RingCapacity]]
DrainedKeepingPos(r) == [r EXCEPT !.len = 0]               \* mutant: write_pos is not reset
Drained(r) == IF r.len = 0 THEN r ELSE [r EXCEPT !.len = 0, !.write_pos = 0]

-------------------------------------------------------------------------------
(***************************************************************************)
(* process.                                                                *)
(***************************************************************************)
IsSpeechOneThreshold(p) == p >= threshold.start            \* mutant: no hysteresis
IsSpeech(p) == p >= IF state = "silence" THEN threshold.start ELSE threshold.end

Decide(type, pre) == decision' = [type |-> type, pre_speech_samples |-> pre]

Heard(p, frame, kept) ==
  /\ quiet' = IF kept THEN quiet \o frame ELSE <<>>
  /\ judged' = IF state = "speech" /\ state' = "silence" THEN <<>>
               ELSE Append(judged, [onset |-> p >= threshold.start, pause |-> p < threshold.end])

SpeechStarts(p, frame) ==
  /\ state = "silence" /\ IsSpeech(p) /\ speech_frame_count + 1 >= MinSpeech
  /\ speech_frame_count' = speech_frame_count + 1 /\ silence_frame_count' = 0
  /\ state' = "speech"
  /\ ring' = Drained(ring)
  /\ Decide("started", InOrder(ring))
  /\ Heard(p, frame, FALSE)

\* Not enough speech frames yet.
OnsetFrame(p, frame) ==
  /\ state = "silence" /\ IsSpeech(p) /\ speech_frame_count + 1 < MinSpeech
  /\ speech_frame_count' = speech_frame_count + 1 /\ silence_frame_count' = 0
  /\ ring' = PushSlice(ring, frame)
  /\ Decide("silence", <<>>)
  /\ UNCHANGED state
  /\ Heard(p, frame, TRUE)

QuietFrameStrict(p, frame) ==                              \* mutant: one dip restarts the count
  /\ state = "silence" /\ ~IsSpeech(p)
  /\ speech_frame_count' = 0
  /\ silence_frame_count' = silence_frame_count + 1
  /\ ring' = PushSlice(ring, frame)
  /\ Decide("silence", <<>>)
  /\ UNCHANGED state
  /\ Heard(p, frame, TRUE)
\* A frame below the threshold costs one frame of progress.
QuietFrame(p, frame) ==
  /\ state = "silence" /\ ~IsSpeech(p)
  /\ speech_frame_count' = IF speech_frame_count = 0 THEN 0 ELSE speech_frame_count - 1
  /\ silence_frame_count' = silence_frame_count + 1
  /\ ring' = PushSlice(ring, frame)
  /\ Decide("silence", <<>>)
  /\ UNCHANGED state
  /\ Heard(p, frame, TRUE)

SpeechGoesOn(p, frame) ==
  /\ state = "speech" /\ IsSpeech(p)
  /\ speech_frame_count' = speech_frame_count + 1 /\ silence_frame_count' = 0
  /\ Decide("continues", <<>>)
  /\ UNCHANGED <<ring, state>>
  /\ Heard(p, frame, FALSE)

BriefPause(p, frame) ==
  /\ state = "speech" /\ ~IsSpeech(p) /\ silence_frame_count + 1 < MinSilence
  /\ silence_frame_count' = silence_frame_count + 1 /\ speech_frame_count' = 0
  /\ Decide("continues", <<>>)
  /\ UNCHANGED <<ring, state>>
  /\ Heard(p, frame, FALSE)

SpeechEnds(p, frame) ==
  /\ state = "speech" /\ ~IsSpeech(p) /\ silence_frame_count + 1 >= MinSilence
  /\ silence_frame_count' = silence_frame_count + 1 /\ speech_frame_count' = 0
  /\ state' = "silence"
  /\ Decide("ended", <<>>)
  /\ UNCHANGED ring
  /\ Heard(p, frame, FALSE)

Process(p, frame) ==
  /\ \/ SpeechStarts(p, frame) \/ OnsetFrame(p, frame) \/ QuietFrame(p, frame)
     \/ SpeechGoesOn(p, frame) \/ BriefPause(p, frame) \/ SpeechEnds(p, frame)
  /\ UNCHANGED threshold

\* Hot reload: the counters and the ring stay.
UpdateParams(t) ==
  /\ threshold' = t
  /\ UNCHANGED <<ring, machine, decision, history>>

\* VadProcessor::reset, between two sessions: the thresholds stay.
Reset ==
  /\ ring' = EmptyRing
  /\ state' = "silence" /\ speech_frame_count' = 0 /\ silence_frame_count' = 0
  /\ decision' = [type |-> "silence", pre_speech_samples |-> <<>>]
  /\ quiet' = <<>> /\ judged' = <<>>
  /\ UNCHANGED threshold

VadInit ==
  /\ ring = EmptyRing
  /\ state = "silence" /\ speech_frame_count = 0 /\ silence_frame_count = 0
  /\ threshold \in Thresholds
  /\ decision = [type |-> "silence", pre_speech_samples |-> <<>>]
  /\ quiet = <<>> /\ judged = <<>>

-------------------------------------------------------------------------------
VadTypeOK ==
  /\ ring \in [data : [Slot -> Nat], write_pos : Slot, len : 0..RingCapacity]
  /\ state \in {"silence", "speech"}
  /\ threshold \in Thresholds
  /\ speech_frame_count \in Nat /\ silence_frame_count \in Nat
  /\ decision.type \in {"silence", "started", "continues", "ended"}
  /\ decision.pre_speech_samples \in Seq(Nat)
  /\ quiet \in Seq(Nat) /\ judged \in Seq([onset : BOOLEAN, pause : BOOLEAN])

Latest(s, n) == SubSeq(s, Max({1, Len(s) - n + 1}), Len(s))

\* The ring holds the latest samples kept back in this silence, in order and none from before,
\* however often it has wrapped, been drained or been reset between sessions.
RingHoldsLatest == InOrder(ring) = Latest(quiet, RingCapacity)

\* The onset count is the largest surplus of speech over silence that any stretch of frames up
\* to now has had since speech last ended: dips cost one frame each, and frames before the
\* last time it reached zero do not count (vad.rs:253-256).  Speech opens when it reaches
\* MinSpeech and no later.
Surplus(from) == LET stretch == from..Len(judged)
                 IN  2 * Cardinality({i \in stretch : judged[i].onset}) - Cardinality(stretch)
LeakyCount == state = "silence" =>
  /\ speech_frame_count = Max({0} \cup {Surplus(i) : i \in 1..Len(judged)})
  /\ speech_frame_count < MinSpeech

\* Speech ends only with MinSilence frames in a row below the end threshold, whatever pauses
\* came before: a level between the two thresholds does not end it. The frames before the ending
\* one are looked at; the ending frame itself is the guard of SpeechEnds.
EndsAfterSilence ==
  [][state = "speech" /\ decision'.type = "ended" =>
       \A i \in 0..MinSilence - 2 : Len(judged) > i /\ judged[Len(judged) - i].pause]_vadVars
===============================================================================
