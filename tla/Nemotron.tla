-------------------------------- MODULE Nemotron --------------------------------
(***************************************************************************)
(* asr/nemotron.rs, the on-device backend: speech is cut into chunks, each *)
(* chunk goes through a decoder that carries context, and four rules reset *)
(* that decoder: at the end of a speech segment, at the end of a sentence, *)
(* after too many empty chunks in speech (whose audio is then replayed),   *)
(* and at the start of a session with a cached model.                      *)
(*                                                                         *)
(* The processing loop around it is the part of audio_engine.rs that       *)
(* Pipeline models: an iteration is any number of gated frames followed by *)
(* one process, given the state the VAD has by then.                       *)
(*                                                                         *)
(* A sample is its speech segment and its number; what the decoder makes   *)
(* of a chunk is the environment's choice.  Diagnostics are left out.      *)
(***************************************************************************)
EXTENDS Integers, Sequences, SequencesExt, FiniteSetsExt, Lists

CONSTANTS FrameSize,   \* samples of a VAD frame
          ChunkSize,   \* samples of a chunk (chunk_ms)
          PreSpeech,   \* lengths the pre-speech ring may have at an onset
          Thresholds,  \* empty_reset_threshold; 0 passes when settings are loaded
          MaxFrames,   \* bound: frames pushed in one behaviour
          MaxUpdates,  \* bound: hot reloads in one behaviour
          MaxSessions  \* bound: sessions with the same model

ASSUME NemotronAssumption ==
  /\ FrameSize \in Nat \ {0} /\ ChunkSize \in Nat \ {0}
  /\ PreSpeech \subseteq Nat /\ Thresholds \subseteq Nat
  /\ MaxFrames \in Nat /\ MaxUpdates \in Nat /\ MaxSessions \in Nat

VARIABLES
  asr_buffer, asr_consumed,   \* audio not yet transcribed, and the part of it process is past
  consecutive_empty,
  punctuation_reset_enabled, empty_reset_threshold,
  replay_buffer,              \* [chunks, max_chunks]
  pending_speech_end_resets,  \* their reset_after_samples
  pc,                         \* "new", "frames" (the VAD stage), "chunks" (in process)
  vad_state,                  \* of the VAD, and of process once it runs
  decoder,                    \* external: the segments whose audio is in the decoder's context
  segment, pushed_frames, updates, sessions,   \* counters
  pushed, live,               \* history: samples pushed and transcribed in this session
  chunk_num,                  \* history: live chunks so far
  emitted                     \* history: the chunk of each text shown, in order

buffer == <<asr_buffer, asr_consumed, pending_speech_end_resets>>
rules == <<consecutive_empty, replay_buffer, decoder>>
config == <<punctuation_reset_enabled, empty_reset_threshold>>
counters == <<segment, pushed_frames, updates, sessions>>
record == <<live, chunk_num, emitted>>
vars == <<buffer, rules, config, counters, record, pushed, pc, vad_state>>

Padding == [segment |-> 0, number |-> 0]
NewReplay(n) == [chunks |-> <<>>, max_chunks |-> n]
Newest(s, n) == SubSeq(s, Max({1, Len(s) - n + 1}), Len(s))
SpeechOf(s) == At(s, {i \in 1..Len(s) : s[i] # Padding})

ReplayPush(r, chunk) ==
  [r EXCEPT !.chunks = Newest(Append(@, chunk), r.max_chunks)]

-------------------------------------------------------------------------------
\* The model is loaded, or reset when it comes from the cache; everything else starts over.
BeginSession ==
  /\ pc = "new" /\ pc' = "frames"
  /\ decoder' = {}
  /\ punctuation_reset_enabled' \in BOOLEAN
  /\ empty_reset_threshold' \in Thresholds
  /\ replay_buffer' = NewReplay(empty_reset_threshold')
  /\ pending_speech_end_resets' = <<>> /\ asr_buffer' = <<>> /\ asr_consumed' = 0
  /\ consecutive_empty' = 0
  /\ vad_state' = "silence" /\ pushed' = <<>> /\ live' = <<>>
  /\ UNCHANGED <<counters, chunk_num, emitted>>

UpdateSettings ==
  /\ pc = "frames" /\ updates < MaxUpdates
  /\ updates' = updates + 1
  /\ punctuation_reset_enabled' \in BOOLEAN
  /\ empty_reset_threshold' \in Thresholds
  /\ replay_buffer' = [chunks     |-> Newest(replay_buffer.chunks, empty_reset_threshold'),
                       max_chunks |-> empty_reset_threshold']
  /\ UNCHANGED <<buffer, consecutive_empty, decoder, segment, pushed_frames, sessions, record,
                 pushed, pc, vad_state>>

-------------------------------------------------------------------------------
(***************************************************************************)
(* The VAD stage.                                                          *)
(***************************************************************************)
Samples(seg, n) == [i \in 1..n |-> [segment |-> seg, number |-> Len(pushed) + i]]

Push(seg, n) ==
  /\ asr_buffer' = asr_buffer \o Samples(seg, n)
  /\ pushed' = pushed \o Samples(seg, n)
  /\ pushed_frames' = pushed_frames + 1
  /\ UNCHANGED <<asr_consumed, updates, sessions>>

Stage == pc = "frames" /\ pushed_frames < MaxFrames

\* mark_speech_start, the ring and the frame of the onset.
SpeechStart ==
  /\ Stage /\ vad_state = "silence" /\ vad_state' = "speech"
  /\ consecutive_empty' = 0 /\ replay_buffer' = NewReplay(replay_buffer.max_chunks)
  /\ segment' = segment + 1
  /\ \E pre \in PreSpeech : Push(segment', pre + FrameSize)
  /\ UNCHANGED <<pending_speech_end_resets, decoder, config, record, pc>>

SpeechFrame ==
  /\ Stage /\ vad_state = "speech"
  /\ Push(segment, FrameSize)
  /\ UNCHANGED <<pending_speech_end_resets, rules, config, segment, record, pc, vad_state>>

PadNot(s) == s                                             \* mutant: the tail is not padded
PadToChunkBoundary(s) ==
  s \o [i \in 1..((ChunkSize - (Len(s) % ChunkSize)) % ChunkSize) |-> Padding]

\* The last frame and mark_speech_end.
SpeechEnd ==
  /\ Stage /\ vad_state = "speech" /\ vad_state' = "silence"
  /\ LET padded == PadToChunkBoundary(asr_buffer \o Samples(segment, FrameSize))
     IN  /\ asr_buffer' = padded
         /\ pending_speech_end_resets' = Append(pending_speech_end_resets, Len(padded))
  /\ pushed' = pushed \o Samples(segment, FrameSize)
  /\ pushed_frames' = pushed_frames + 1
  /\ UNCHANGED <<asr_consumed, rules, config, segment, updates, sessions, record, pc>>

-------------------------------------------------------------------------------
(***************************************************************************)
(* process: chunk by chunk.                                                *)
(***************************************************************************)
ProcessStarts ==
  /\ pc = "frames" /\ pc' = "chunks" /\ asr_consumed' = 0
  /\ UNCHANGED <<asr_buffer, pending_speech_end_resets, rules, config, counters, record, pushed,
                 vad_state>>

\* What the decoder may make of a chunk: text, text that ends a sentence, nothing, an error.
Outcome == {"text", "sentence", "empty", "error"}
HasText(outcome) == outcome \in {"text", "sentence"}

\* The rules' state while a chunk goes through them.
Rules == [empty |-> consecutive_empty, replay |-> replay_buffer, decoder |-> decoder,
          emitted |-> emitted]
Segments(chunk) == {chunk.samples[i].segment : i \in 1..ChunkSize} \ {0}
SegmentsOf(chunks) == UNION {Segments(chunks[i]) : i \in 1..Len(chunks)}
ResetDecoder(r) == [r EXCEPT !.decoder = {}, !.empty = 0, !.replay.chunks = <<>>]

\* The chunk is remembered, decoded, counted and shown.
TranscribedCountingAll(r, chunk, outcome) ==               \* mutant: text keeps the count
  [empty   |-> IF outcome = "empty" /\ vad_state = "speech" THEN r.empty + 1 ELSE r.empty,
   replay  |-> IF vad_state = "speech" THEN ReplayPush(r.replay, chunk) ELSE r.replay,
   decoder |-> r.decoder \cup Segments(chunk),
   emitted |-> IF HasText(outcome) THEN Append(r.emitted, chunk.id) ELSE r.emitted]
Transcribed(r, chunk, outcome) ==
  [empty   |-> IF outcome = "error" THEN r.empty
               ELSE IF outcome = "empty" /\ vad_state = "speech" THEN r.empty + 1 ELSE 0,
   replay  |-> IF vad_state = "speech" THEN ReplayPush(r.replay, chunk) ELSE r.replay,
   decoder |-> r.decoder \cup Segments(chunk),
   emitted |-> IF HasText(outcome) THEN Append(r.emitted, chunk.id) ELSE r.emitted]

SentenceReset(r, outcome) ==
  IF outcome = "sentence" /\ punctuation_reset_enabled THEN ResetDecoder(r) ELSE r

\* The mid-speech reset: the buffered chunks go through the fresh decoder; texts names those
\* that have text now.
MidSpeech(r, outcome) ==
  outcome # "error" /\ r.empty >= empty_reset_threshold /\ vad_state = "speech"
WithText(chunks, texts) ==
  At([i \in 1..Len(chunks) |-> chunks[i].id], {i \in 1..Len(chunks) : chunks[i].id \in texts})
Replayed(r, texts) ==
  [ResetDecoder(r) EXCEPT
     !.decoder = SegmentsOf(r.replay.chunks),
     !.emitted = @ \o WithText(r.replay.chunks, texts)]

\* The resets of the speech segments that are through by now.
SpeechEndResetsAnyTime(r, consumed) ==                     \* mutant: the offset is not compared
  /\ pending_speech_end_resets' = <<>>
  /\ LET s == IF pending_speech_end_resets = <<>> THEN r ELSE ResetDecoder(r)
     IN  /\ consecutive_empty' = s.empty /\ replay_buffer' = s.replay /\ decoder' = s.decoder
         /\ emitted' = s.emitted
SpeechEndResets(r, consumed) ==
  LET due(i) == pending_speech_end_resets[i] <= consumed
      n == Max({0} \cup {k \in 1..Len(pending_speech_end_resets) : \A i \in 1..k : due(i)})
      s == IF n = 0 THEN r ELSE ResetDecoder(r)
  IN  /\ pending_speech_end_resets' = SubSeq(pending_speech_end_resets, n + 1,
                                             Len(pending_speech_end_resets))
      /\ consecutive_empty' = s.empty /\ replay_buffer' = s.replay /\ decoder' = s.decoder
      /\ emitted' = s.emitted

Chunk ==
  /\ pc = "chunks" /\ Len(asr_buffer) - asr_consumed >= ChunkSize
  /\ asr_consumed' = asr_consumed + ChunkSize
  /\ chunk_num' = chunk_num + 1
  /\ LET chunk == [id      |-> chunk_num',
                   samples |-> SubSeq(asr_buffer, asr_consumed + 1, asr_consumed')]
     IN  /\ live' = live \o SpeechOf(chunk.samples)
         /\ \E outcome \in Outcome :
              LET r == SentenceReset(Transcribed(Rules, chunk, outcome), outcome)
              IN  IF MidSpeech(r, outcome)
                  THEN \E texts \in SUBSET {r.replay.chunks[i].id : i \in 1..Len(r.replay.chunks)} :
                         SpeechEndResets(Replayed(r, texts), asr_consumed')
                  ELSE SpeechEndResets(r, asr_consumed')
  /\ UNCHANGED <<asr_buffer, config, counters, pushed, pc, vad_state>>

ProcessEnds ==
  /\ pc = "chunks" /\ Len(asr_buffer) - asr_consumed < ChunkSize
  /\ asr_buffer' = SubSeq(asr_buffer, asr_consumed + 1, Len(asr_buffer))
  /\ asr_consumed' = 0
  /\ pc' = "frames"
  /\ UNCHANGED <<pending_speech_end_resets, rules, config, counters, record, pushed, vad_state>>

\* end_session returns nothing and leaves the audio below a chunk; the instance is cached.
EndSession ==
  /\ pc = "frames" /\ sessions < MaxSessions
  /\ pc' = "new" /\ sessions' = sessions + 1
  /\ UNCHANGED <<buffer, rules, config, segment, pushed_frames, updates, record, pushed,
                 vad_state>>

Init ==
  /\ pc = "new" /\ vad_state = "silence"
  /\ asr_buffer = <<>> /\ asr_consumed = 0 /\ pending_speech_end_resets = <<>>
  /\ consecutive_empty = 0 /\ replay_buffer = NewReplay(0) /\ decoder = {}
  /\ punctuation_reset_enabled = TRUE /\ empty_reset_threshold = 1
  /\ segment = 0 /\ pushed_frames = 0 /\ updates = 0 /\ sessions = 1
  /\ pushed = <<>> /\ live = <<>> /\ chunk_num = 0 /\ emitted = <<>>

Next == BeginSession \/ UpdateSettings \/ SpeechStart \/ SpeechFrame \/ SpeechEnd
        \/ ProcessStarts \/ Chunk \/ ProcessEnds \/ EndSession

Spec == Init /\ [][Next]_vars

-------------------------------------------------------------------------------
ChunkSet == [id : Nat, samples : Seq([segment : Nat, number : Nat])]

TypeOK ==
  /\ asr_buffer \in Seq([segment : Nat, number : Nat]) /\ asr_consumed \in Nat
  /\ asr_consumed <= Len(asr_buffer)
  /\ consecutive_empty \in Nat
  /\ punctuation_reset_enabled \in BOOLEAN /\ empty_reset_threshold \in Nat
  /\ replay_buffer \in [chunks : Seq(ChunkSet), max_chunks : Nat]
  /\ Len(replay_buffer.chunks) <= replay_buffer.max_chunks
  /\ pending_speech_end_resets \in Seq(Nat)
  /\ pc \in {"new", "frames", "chunks"} /\ vad_state \in {"silence", "speech"}
  /\ decoder \subseteq Nat /\ emitted \in Seq(Nat)

\* The decoder's context never spans two speech segments, though segments end and start in
\* the middle of an iteration and of a chunk: the tail is padded so that the reset falls
\* between two chunks (nemotron.rs:187-195).
OneSegmentInContext == Cardinality(decoder) <= 1

TextOnceInOrder == \A i \in 1..Len(emitted) - 1 : emitted[i] < emitted[i + 1]

Unheard == SpeechOf(SubSeq(asr_buffer, asr_consumed + 1, Len(asr_buffer)))
SpeechInOrder == pc # "new" => pushed = live \o Unheard

\* The speech of a session goes through the decoder live once, in order, and it is only what was
\* pushed; no chunk's text is shown twice and texts come in the order of the audio, although
\* replays send audio through the decoder again (testdata/README.md:73-76).
SpeechOnce == TypeOK /\ SpeechInOrder /\ TextOnceInOrder

\* When an utterance is over it is transcribed to the end within the iteration: nothing of it
\* waits for the next utterance, and no reset is left to strike in the middle of one.
UtteranceFinished == [][pc = "chunks" /\ pc' = "frames" =>
  /\ pending_speech_end_resets' = <<>>
  /\ vad_state = "silence" => asr_buffer' = <<>>
  /\ Len(asr_buffer') < ChunkSize]_vars
===============================================================================
