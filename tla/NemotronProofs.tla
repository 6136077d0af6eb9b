----------------------------- MODULE NemotronProofs -----------------------------
(***************************************************************************)
(* The decoder's context stays within one speech segment, an utterance     *)
(* that is over is through when the iteration is, the speech is heard once *)
(* and no text is shown twice, for any sizes of frames, chunks and rings,  *)
(* any thresholds and any answers of the decoder.                          *)
(*                                                                         *)
(* IInv ties the queued resets to the segments ahead of and in the         *)
(* decoder.  SpeechInv adds what the texts need: while the count of empty  *)
(* chunks is e, the last e chunks in the replay buffer are later than all  *)
(* texts, so that a replay, which needs as many empty chunks as the buffer *)
(* holds, cannot repeat one.                                               *)
(***************************************************************************)
EXTENDS Nemotron, ListsProofs, SequenceTheorems, FiniteSetTheorems, TLAPS

Sample == [segment : Nat, number : Nat]
Aligned(n) == \E q \in 0..n : n = q * ChunkSize
Resets == {pending_speech_end_resets[i] : i \in 1..Len(pending_speech_end_resets)}
Ahead == (asr_consumed + 1)..Len(asr_buffer)
Speech(i) == asr_buffer[i].segment

Shape ==
  /\ asr_buffer \in Seq(Sample) /\ asr_consumed \in 0..Len(asr_buffer)
  /\ pending_speech_end_resets \in Seq(Nat)
  /\ pc \in {"new", "frames", "chunks"} /\ vad_state \in {"silence", "speech"}
  /\ replay_buffer \in [chunks : Seq(ChunkSet), max_chunks : Nat]
  /\ decoder \subseteq Nat /\ segment \in Nat /\ chunk_num \in Nat /\ pushed \in Seq(Sample)

\* Every queued reset strikes between two chunks that are still ahead.
ResetsInOrder ==
  /\ \A i, j \in 1..Len(pending_speech_end_resets) :
       i < j => pending_speech_end_resets[i] < pending_speech_end_resets[j]
  /\ \A r \in Resets : Aligned(r) /\ asr_consumed < r /\ r <= Len(asr_buffer)
  /\ Aligned(asr_consumed) /\ (pc # "chunks" => asr_consumed = 0)

\* Where the audio ahead passes from one segment to another, a reset strikes in between.
SegmentsApart ==
  /\ \A i, j \in Ahead : i < j /\ Speech(i) # 0 /\ Speech(j) # 0 /\ Speech(i) # Speech(j)
       => \E r \in Resets : i <= r /\ r < j
  /\ \A s \in decoder, j \in Ahead : Speech(j) # 0 /\ Speech(j) # s => \E r \in Resets : r < j

\* What the VAD stage may append to: nothing after the reset of an ended utterance, or the
\* segment that is being spoken.
Current ==
  IF vad_state = "silence"
  THEN /\ asr_consumed = Len(asr_buffer) \/ Len(asr_buffer) \in Resets
       /\ decoder # {} => Resets # {}
  ELSE /\ \A j \in Ahead : Speech(j) \notin {0, segment} => \E r \in Resets : j <= r
       /\ \A s \in decoder : s # segment => Resets # {}

\* A replay hands the decoder nothing it has not heard since its last reset.
Context ==
  /\ \A s, t \in decoder : s = t
  /\ SegmentsOf(replay_buffer.chunks) \subseteq decoder

IInv == Shape /\ ResetsInOrder /\ SegmentsApart /\ Current /\ Context

-------------------------------------------------------------------------------
(***************************************************************************)
(* Chunk boundaries.                                                       *)
(***************************************************************************)
LEMMA AlignedZero == Aligned(0)
BY NemotronAssumption DEF Aligned

\* Between two boundaries there is room for a chunk.
LEMMA AlignedApart ==
  ASSUME NEW m \in Nat, NEW n \in Nat, Aligned(m), Aligned(n), m < n
  PROVE  m + ChunkSize <= n
<1>1. PICK p \in 0..m : m = p * ChunkSize
  BY DEF Aligned
<1>2. PICK q \in 0..n : n = q * ChunkSize
  BY DEF Aligned
<1>3. p < q
  BY <1>1, <1>2, NemotronAssumption
<1>4. (q - p - 1) * ChunkSize >= 0
  BY <1>3, NemotronAssumption
<1> QED BY <1>1, <1>2, <1>4, NemotronAssumption

\* A multiple of the chunk is a boundary.
LEMMA AlignedFactor == ASSUME NEW q \in Nat PROVE Aligned(q * ChunkSize)
<1>1. q * ChunkSize \in Nat /\ q <= q * ChunkSize
  <2>1. q * (ChunkSize - 1) >= 0
    BY NemotronAssumption
  <2> QED BY <2>1, NemotronAssumption
<1> QED BY <1>1 DEF Aligned

\* The boundary after a boundary.
LEMMA AlignedNext == ASSUME NEW n \in Nat, Aligned(n) PROVE Aligned(n + ChunkSize)
<1>1. PICK q \in 0..n : n = q * ChunkSize
  BY DEF Aligned
<1>2. n + ChunkSize = (q + 1) * ChunkSize
  BY <1>1, NemotronAssumption
<1> QED BY <1>2, AlignedFactor

\* Padding adds silence up to the next boundary.
LEMMA PaddingAligns ==
  ASSUME NEW s \in Seq(Sample)
  PROVE  LET p == PadToChunkBoundary(s)
         IN  /\ p \in Seq(Sample) /\ Len(s) <= Len(p) /\ Aligned(Len(p))
             /\ \A i \in 1..Len(s) : p[i] = s[i]
             /\ \A i \in (Len(s) + 1)..Len(p) : p[i].segment = 0
<1> DEFINE r == Len(s) % ChunkSize
           k == (ChunkSize - r) % ChunkSize
           q == Len(s) \div ChunkSize
           pad == [i \in 1..k |-> Padding]
<1>1. q \in Nat /\ r \in 0..(ChunkSize - 1) /\ Len(s) = ChunkSize * q + r
  BY NemotronAssumption
<1>2. k \in Nat /\ Aligned(Len(s) + k)
  <2>1. CASE r = 0
    <3>1. k = 0
      BY <2>1, NemotronAssumption
    <3>2. Len(s) + k = q * ChunkSize
      BY <1>1, <2>1, <3>1, NemotronAssumption
    <3> QED BY <1>1, <3>1, <3>2, AlignedFactor
  <2>2. CASE r # 0
    <3>1. k = ChunkSize - r
      BY <1>1, <2>2, NemotronAssumption
    <3>2. Len(s) + k = (q + 1) * ChunkSize /\ q + 1 \in Nat
      BY <1>1, <3>1, NemotronAssumption
    <3>3. k \in Nat
      BY <1>1, <3>1, NemotronAssumption
    <3> QED BY <3>2, <3>3, AlignedFactor
  <2> QED BY <2>1, <2>2
<1>3. PadToChunkBoundary(s) = s \o pad
  BY DEF PadToChunkBoundary
<1> HIDE DEF k
<1>4. pad \in Seq(Sample) /\ Len(pad) = k /\ \A i \in 1..k : pad[i].segment = 0
  BY <1>2 DEF Padding, Sample
<1> HIDE DEF pad
<1>5. s \o pad \in Seq(Sample) /\ Len(s \o pad) = Len(s) + k
  BY <1>2, <1>4
<1>6. \A i \in 1..Len(s) : (s \o pad)[i] = s[i]
  BY <1>4, <1>5
<1>7. \A i \in (Len(s) + 1)..(Len(s) + k) : (s \o pad)[i].segment = 0
  <2>1. \A i \in (Len(s) + 1)..(Len(s) + k) : (s \o pad)[i] = pad[i - Len(s)]
    BY <1>2, <1>4, <1>5
  <2> QED BY <1>2, <1>4, <2>1
<1> QED BY <1>2, <1>3, <1>5, <1>6, <1>7
-------------------------------------------------------------------------------
(***************************************************************************)
(* The VAD stage appends to the audio ahead.                               *)
(***************************************************************************)
LEMMA SamplesAppended ==
  ASSUME pushed \in Seq(Sample), NEW b \in Seq(Sample), NEW g \in Nat, NEW n \in Nat
  PROVE  LET c == b \o Samples(g, n)
         IN  /\ c \in Seq(Sample) /\ Len(c) = Len(b) + n
             /\ \A i \in 1..Len(b) : c[i] = b[i]
             /\ \A i \in (Len(b) + 1)..(Len(b) + n) : c[i].segment = g
<1> DEFINE s == Samples(g, n)
<1>1. s \in Seq(Sample) /\ Len(s) = n /\ \A i \in 1..n : s[i].segment = g
  BY DEF Samples, Sample
<1> HIDE DEF s
<1>2. b \o s \in Seq(Sample) /\ Len(b \o s) = Len(b) + n
  BY <1>1, SMTT(30)
<1>3. \A i \in 1..Len(b) : (b \o s)[i] = b[i]
  BY <1>1, <1>2
<1>4. \A i \in (Len(b) + 1)..(Len(b) + n) : (b \o s)[i] = s[i - Len(b)]
  BY <1>1, <1>2
<1>5. \A i \in (Len(b) + 1)..(Len(b) + n) : (b \o s)[i].segment = g
  BY <1>1, <1>4
<1> QED BY <1>2, <1>3, <1>5 DEF s

\* Audio of segment g may follow what is ahead, if all else is behind a reset.
LEMMA ApartGrows ==
  ASSUME asr_buffer \in Seq(Sample), asr_buffer' \in Seq(Sample), asr_consumed = 0,
         asr_consumed' = 0, decoder' = decoder, Resets \subseteq Resets', Resets \subseteq Nat,
         Len(asr_buffer) <= Len(asr_buffer'), SegmentsApart, NEW g \in Nat,
         \A i \in 1..Len(asr_buffer) : asr_buffer'[i] = asr_buffer[i],
         \A i \in (Len(asr_buffer) + 1)..Len(asr_buffer') : asr_buffer'[i].segment \in {0, g},
         \A r \in Resets : r <= Len(asr_buffer),
         \A j \in Ahead : Speech(j) \notin {0, g} => \E r \in Resets : j <= r,
         \A s \in decoder : s # g => Resets # {}
  PROVE  SegmentsApart'
<1>1. Len(asr_buffer) \in Nat /\ Len(asr_buffer') \in Nat
  OBVIOUS
<1>2. ASSUME NEW i \in Ahead', NEW j \in Ahead', i < j, Speech(i)' # 0, Speech(j)' # 0,
             Speech(i)' # Speech(j)'
      PROVE  \E r \in Resets' : i <= r /\ r < j
  <2>1. CASE j <= Len(asr_buffer)
    <3>1. i \in Ahead /\ j \in Ahead /\ Speech(i)' = Speech(i) /\ Speech(j)' = Speech(j)
      BY <1>1, <1>2, <2>1 DEF Ahead, Speech
    <3> QED BY <1>2, <3>1 DEF SegmentsApart
  <2>2. CASE i <= Len(asr_buffer) /\ j > Len(asr_buffer)
    <3>1. i \in Ahead /\ Speech(i)' = Speech(i) /\ Speech(j)' \in {0, g}
      BY <1>1, <1>2, <2>2 DEF Ahead, Speech
    <3>2. PICK r \in Resets : i <= r
      BY <1>2, <3>1
    <3> QED BY <1>1, <1>2, <2>2, <3>2 DEF Ahead
  <2>3. CASE i > Len(asr_buffer)
    <3>1. Speech(i)' \in {0, g} /\ Speech(j)' \in {0, g}
      BY <1>1, <1>2, <2>3 DEF Ahead, Speech
    <3> QED BY <1>2, <3>1
  <2> QED BY <1>1, <1>2, <2>1, <2>2, <2>3 DEF Ahead
<1>3. ASSUME NEW s \in decoder', NEW j \in Ahead', Speech(j)' # 0, Speech(j)' # s
      PROVE  \E r \in Resets' : r < j
  <2>1. CASE j <= Len(asr_buffer)
    <3>1. j \in Ahead /\ Speech(j)' = Speech(j)
      BY <1>1, <1>3, <2>1 DEF Ahead, Speech
    <3> QED BY <1>3, <3>1 DEF SegmentsApart
  <2>2. CASE j > Len(asr_buffer)
    <3>1. Speech(j)' \in {0, g}
      BY <1>1, <1>3, <2>2 DEF Ahead, Speech
    <3>2. PICK r \in Resets : TRUE
      BY <1>3, <3>1
    <3> QED BY <1>1, <1>3, <2>2, <3>2 DEF Ahead
  <2> QED BY <1>1, <1>3, <2>1, <2>2 DEF Ahead
<1> QED BY <1>2, <1>3 DEF SegmentsApart

\* A frame of speech goes behind the rest of its segment.
LEMMA SpeechFrameKeeps == ASSUME IInv, SpeechFrame PROVE IInv'
<1>1. /\ asr_buffer \in Seq(Sample) /\ pushed \in Seq(Sample) /\ segment \in Nat
      /\ asr_consumed = 0 /\ asr_consumed' = 0 /\ FrameSize \in Nat /\ Len(asr_buffer) \in Nat
      /\ pending_speech_end_resets' = pending_speech_end_resets /\ decoder' = decoder
      /\ segment' = segment /\ vad_state' = vad_state /\ vad_state = "speech"
      /\ replay_buffer' = replay_buffer /\ pc' = "frames" /\ chunk_num' = chunk_num
      /\ asr_buffer' = asr_buffer \o Samples(segment, FrameSize)
      /\ pushed' = pushed \o Samples(segment, FrameSize)
  BY NemotronAssumption DEF IInv, Shape, ResetsInOrder, SpeechFrame, Push, Stage, rules, record
<1>2. /\ asr_buffer' \in Seq(Sample) /\ Len(asr_buffer') = Len(asr_buffer) + FrameSize
      /\ \A i \in 1..Len(asr_buffer) : asr_buffer'[i] = asr_buffer[i]
      /\ \A i \in (Len(asr_buffer) + 1)..Len(asr_buffer') : asr_buffer'[i].segment = segment
      /\ pushed' \in Seq(Sample)
  <2>1. pushed \o Samples(segment, FrameSize) \in Seq(Sample)
    BY <1>1, SamplesAppended
  <2> DEFINE c == asr_buffer \o Samples(segment, FrameSize)
  <2>2. /\ c \in Seq(Sample) /\ Len(c) = Len(asr_buffer) + FrameSize
        /\ \A i \in 1..Len(asr_buffer) : c[i] = asr_buffer[i]
        /\ \A i \in (Len(asr_buffer) + 1)..(Len(asr_buffer) + FrameSize) : c[i].segment = segment
    BY <1>1, SamplesAppended
  <2> HIDE DEF c
  <2>3. asr_buffer' = c
    BY <1>1 DEF c
  <2> QED BY <1>1, <2>1, <2>2, <2>3
<1>3. Resets' = Resets /\ \A r \in Resets : r \in Nat /\ r <= Len(asr_buffer)
  BY <1>1, SMTT(30) DEF Resets, IInv, ResetsInOrder, Shape
<1>4. Shape'
  BY <1>1, <1>2 DEF IInv, Shape
<1>5. ResetsInOrder'
  BY <1>1, <1>2, <1>3 DEF IInv, ResetsInOrder
<1>6. SegmentsApart'
  <2>1. /\ \A j \in Ahead : Speech(j) \notin {0, segment} => \E r \in Resets : j <= r
        /\ \A s \in decoder : s # segment => Resets # {}
    BY <1>1 DEF IInv, Current
  <2>2. Len(asr_buffer) <= Len(asr_buffer') /\ Resets \subseteq Resets' /\ Resets \subseteq Nat
    BY <1>1, <1>2, <1>3
  <2>3. \A i \in (Len(asr_buffer) + 1)..Len(asr_buffer') : asr_buffer'[i].segment \in {0, segment}
    BY <1>2
  <2>4. SegmentsApart
    BY DEF IInv
  <2> QED BY ONLY <1>1, <1>2, <1>3, <2>1, <2>2, <2>3, <2>4, ApartGrows
<1>7. Current'
  <2>1. ASSUME NEW j \in Ahead', Speech(j)' \notin {0, segment}
        PROVE  \E r \in Resets : j <= r
    <3>1. j \in Ahead /\ Speech(j)' = Speech(j)
      BY <1>1, <1>2, <2>1 DEF Ahead, Speech
    <3> QED BY <1>1, <2>1, <3>1 DEF IInv, Current
  <2> QED BY <1>1, <1>3, <2>1 DEF IInv, Current
<1>8. Context'
  BY <1>1 DEF IInv, Context
<1> QED BY <1>4, <1>5, <1>6, <1>7, <1>8 DEF IInv

\* All that is ahead at an onset is behind a reset.
LEMMA SpeechStartKeeps == ASSUME IInv, SpeechStart PROVE IInv'
<1> DEFINE g == segment + 1
<1>1. PICK pre \in PreSpeech :
      /\ asr_buffer' = asr_buffer \o Samples(g, pre + FrameSize)
      /\ pushed' = pushed \o Samples(g, pre + FrameSize)
  BY DEF SpeechStart, Push
<1>2. /\ asr_buffer \in Seq(Sample) /\ pushed \in Seq(Sample) /\ g \in Nat
      /\ asr_consumed = 0 /\ asr_consumed' = 0 /\ Len(asr_buffer) \in Nat
      /\ pending_speech_end_resets' = pending_speech_end_resets /\ decoder' = decoder
      /\ segment' = g /\ vad_state' = "speech" /\ vad_state = "silence"
      /\ replay_buffer' = NewReplay(replay_buffer.max_chunks) /\ pc' = "frames"
      /\ chunk_num' = chunk_num
  BY DEF IInv, Shape, ResetsInOrder, SpeechStart, Push, Stage, record
<1>3. pre + FrameSize \in Nat
  BY NemotronAssumption
<1>4. /\ asr_buffer' \in Seq(Sample) /\ Len(asr_buffer') = Len(asr_buffer) + pre + FrameSize
      /\ \A i \in 1..Len(asr_buffer) : asr_buffer'[i] = asr_buffer[i]
      /\ \A i \in (Len(asr_buffer) + 1)..Len(asr_buffer') : asr_buffer'[i].segment = g
      /\ pushed' \in Seq(Sample) /\ Len(asr_buffer) <= Len(asr_buffer')
  <2> DEFINE n == pre + FrameSize
             c == asr_buffer \o Samples(g, n)
  <2>1. n \in Nat /\ c = asr_buffer' /\ pushed' = pushed \o Samples(g, n)
    BY <1>1, <1>3
  <2> HIDE DEF n, g
  <2>2. pushed \o Samples(g, n) \in Seq(Sample)
    BY <1>2, <2>1, SamplesAppended
  <2>3. /\ c \in Seq(Sample) /\ Len(c) = Len(asr_buffer) + n
        /\ \A i \in 1..Len(asr_buffer) : c[i] = asr_buffer[i]
        /\ \A i \in (Len(asr_buffer) + 1)..(Len(asr_buffer) + n) : c[i].segment = g
    BY <1>2, <2>1, SamplesAppended
  <2> HIDE DEF c
  <2>4. Len(asr_buffer') = Len(asr_buffer) + n /\ Len(asr_buffer) <= Len(asr_buffer')
    BY <1>2, <2>1, <2>3
  <2>5. Len(asr_buffer') = Len(asr_buffer) + pre + FrameSize
    BY <1>2, <1>3, <2>4, NemotronAssumption DEF n
  <2> QED BY <2>1, <2>2, <2>3, <2>4, <2>5
<1>5. /\ Resets' = Resets /\ \A r \in Resets : r \in Nat /\ r <= Len(asr_buffer)
      /\ asr_buffer # <<>> => Len(asr_buffer) \in Resets
      /\ decoder # {} => Resets # {}
  BY <1>2, SMTT(30) DEF Resets, IInv, ResetsInOrder, Shape, Current
<1>6. \A j \in Ahead : \E r \in Resets : j <= r
  BY <1>2, <1>5 DEF Ahead
<1>7. Shape'
  <2>1. replay_buffer' \in [chunks : Seq(ChunkSet), max_chunks : Nat]
    BY <1>2 DEF IInv, Shape, NewReplay
  <2>2. decoder' \subseteq Nat /\ chunk_num' \in Nat /\ pending_speech_end_resets' \in Seq(Nat)
    BY <1>2 DEF IInv, Shape
  <2> QED BY <1>2, <1>4, <2>1, <2>2 DEF Shape
<1>8. ResetsInOrder'
  BY <1>2, <1>4, <1>5 DEF IInv, ResetsInOrder
<1>9. SegmentsApart'
  <2>1. /\ \A j \in Ahead : Speech(j) \notin {0, g} => \E r \in Resets : j <= r
        /\ \A s \in decoder : s # g => Resets # {}
    BY <1>5, <1>6
  <2>2. /\ Resets \subseteq Resets' /\ Resets \subseteq Nat
        /\ \A i \in (Len(asr_buffer) + 1)..Len(asr_buffer') : asr_buffer'[i].segment \in {0, g}
    BY <1>4, <1>5
  <2>3. SegmentsApart
    BY DEF IInv
  <2> QED BY ONLY <1>2, <1>4, <1>5, <2>1, <2>2, <2>3, ApartGrows
<1>10. Current'
  <2>1. ASSUME NEW j \in Ahead', Speech(j)' \notin {0, g}
        PROVE  \E r \in Resets : j <= r
    <3>1. j \in Ahead
      BY <1>2, <1>4, <2>1 DEF Ahead, Speech
    <3> QED BY <1>6, <3>1
  <2> QED BY <1>2, <1>5, <2>1 DEF Current
<1>11. Context'
  BY <1>2 DEF IInv, Context, NewReplay, SegmentsOf
<1> QED BY <1>7, <1>8, <1>9, <1>10, <1>11 DEF IInv

\* The end of speech pads the audio and queues its reset at the new end.
LEMMA SpeechEndKeeps == ASSUME IInv, SpeechEnd PROVE IInv'
<1> DEFINE b == asr_buffer \o Samples(segment, FrameSize)
           p == PadToChunkBoundary(b)
<1>1. /\ asr_buffer' = p /\ pending_speech_end_resets' = Append(pending_speech_end_resets, Len(p))
      /\ pushed' = pushed \o Samples(segment, FrameSize)
  BY DEF SpeechEnd
<1>2. /\ asr_buffer \in Seq(Sample) /\ pushed \in Seq(Sample) /\ segment \in Nat
      /\ asr_consumed = 0 /\ asr_consumed' = 0 /\ FrameSize \in Nat \ {0}
      /\ Len(asr_buffer) \in Nat /\ pending_speech_end_resets \in Seq(Nat)
      /\ decoder' = decoder /\ segment' = segment /\ vad_state' = "silence"
      /\ vad_state = "speech" /\ replay_buffer' = replay_buffer /\ pc' = "frames"
      /\ chunk_num' = chunk_num
  BY NemotronAssumption DEF IInv, Shape, ResetsInOrder, SpeechEnd, Stage, rules, record
<1>3. /\ b \in Seq(Sample) /\ Len(b) = Len(asr_buffer) + FrameSize
      /\ \A i \in 1..Len(asr_buffer) : b[i] = asr_buffer[i]
      /\ \A i \in (Len(asr_buffer) + 1)..Len(b) : b[i].segment = segment
      /\ pushed' \in Seq(Sample)
  <2>1. FrameSize \in Nat /\ pushed \o Samples(segment, FrameSize) \in Seq(Sample)
    BY <1>2, SamplesAppended
  <2>2. /\ b \in Seq(Sample) /\ Len(b) = Len(asr_buffer) + FrameSize
        /\ \A i \in 1..Len(asr_buffer) : b[i] = asr_buffer[i]
        /\ \A i \in (Len(asr_buffer) + 1)..(Len(asr_buffer) + FrameSize) : b[i].segment = segment
    BY <1>2, <2>1, SamplesAppended
  <2> HIDE DEF b
  <2> QED BY <1>1, <2>1, <2>2
<1> HIDE DEF b
<1>4. /\ p \in Seq(Sample) /\ Len(b) <= Len(p) /\ Aligned(Len(p)) /\ Len(p) \in Nat
      /\ \A i \in 1..Len(b) : p[i] = b[i]
      /\ \A i \in (Len(b) + 1)..Len(p) : p[i].segment = 0
  BY <1>3, PaddingAligns
<1> HIDE DEF p
<1>5. /\ asr_buffer' \in Seq(Sample) /\ Len(asr_buffer) < Len(asr_buffer')
      /\ Aligned(Len(asr_buffer')) /\ Len(asr_buffer') \in Nat
      /\ \A i \in 1..Len(asr_buffer) : asr_buffer'[i] = asr_buffer[i]
      /\ \A i \in (Len(asr_buffer) + 1)..Len(asr_buffer') : asr_buffer'[i].segment \in {0, segment}
  <2>1. \A i \in 1..Len(asr_buffer) : p[i] = asr_buffer[i]
    BY <1>2, <1>3, <1>4
  <2>2. ASSUME NEW i \in (Len(asr_buffer) + 1)..Len(p)
        PROVE  p[i].segment \in {0, segment}
    <3>1. CASE i <= Len(b)
      BY <1>2, <1>3, <1>4, <3>1
    <3>2. CASE i > Len(b)
      BY <1>2, <1>3, <1>4, <3>2
    <3> QED BY <1>2, <1>3, <3>1, <3>2
  <2>3. Len(asr_buffer) < Len(p)
    BY <1>2, <1>3, <1>4
  <2> QED BY <1>1, <1>4, <2>1, <2>2, <2>3
<1>6. \A r \in Resets : r \in Nat /\ 0 < r /\ r <= Len(asr_buffer) /\ Aligned(r)
  BY <1>2 DEF Resets, IInv, ResetsInOrder, Shape
<1>7. /\ pending_speech_end_resets' \in Seq(Nat)
      /\ Len(pending_speech_end_resets') = Len(pending_speech_end_resets) + 1
      /\ \A i \in 1..Len(pending_speech_end_resets) :
           pending_speech_end_resets'[i] = pending_speech_end_resets[i]
      /\ pending_speech_end_resets'[Len(pending_speech_end_resets) + 1] = Len(asr_buffer')
      /\ Len(pending_speech_end_resets) \in Nat
  BY <1>1, <1>2, <1>4
<1>8. Resets' = Resets \cup {Len(asr_buffer')}
  <2>1. Resets' \subseteq Resets \cup {Len(asr_buffer')}
    BY <1>7 DEF Resets
  <2>2. Resets \subseteq Resets'
    BY <1>7 DEF Resets
  <2>3. Len(asr_buffer') \in Resets'
    BY <1>7 DEF Resets
  <2> QED BY <2>1, <2>2, <2>3
<1>9. Shape'
  <2>1. decoder' \subseteq Nat /\ chunk_num' \in Nat
        /\ replay_buffer' \in [chunks : Seq(ChunkSet), max_chunks : Nat]
    BY <1>2 DEF IInv, Shape
  <2> QED BY <1>2, <1>3, <1>5, <1>7, <2>1 DEF Shape
<1>10. ResetsInOrder'
  <2>1. ASSUME NEW i \in 1..Len(pending_speech_end_resets'),
               NEW j \in 1..Len(pending_speech_end_resets'), i < j
        PROVE  pending_speech_end_resets'[i] < pending_speech_end_resets'[j]
    <3>1. i \in 1..Len(pending_speech_end_resets) /\ pending_speech_end_resets[i] \in Resets
      BY <1>7, <2>1 DEF Resets
    <3>2. CASE j \in 1..Len(pending_speech_end_resets)
      BY <1>7, <2>1, <3>1, <3>2 DEF IInv, ResetsInOrder
    <3>3. CASE j = Len(pending_speech_end_resets) + 1
      BY <1>2, <1>5, <1>6, <1>7, <3>1, <3>3
    <3> QED BY <1>7, <3>2, <3>3
  <2>2. \A r \in Resets' : Aligned(r) /\ 0 < r /\ r <= Len(asr_buffer')
    BY <1>2, <1>5, <1>6, <1>8
  <2> QED BY <1>2, <2>1, <2>2, AlignedZero DEF ResetsInOrder
<1>11. SegmentsApart'
  <2>1. /\ \A j \in Ahead : Speech(j) \notin {0, segment} => \E r \in Resets : j <= r
        /\ \A s \in decoder : s # segment => Resets # {}
    BY <1>2 DEF IInv, Current
  <2>2. /\ Len(asr_buffer) <= Len(asr_buffer') /\ Resets \subseteq Resets' /\ Resets \subseteq Nat
        /\ \A r \in Resets : r <= Len(asr_buffer)
    BY <1>2, <1>5, <1>6, <1>8
  <2>3. SegmentsApart
    BY DEF IInv
  <2> QED BY ONLY <1>2, <1>5, <2>1, <2>2, <2>3, ApartGrows
<1>12. Current'
  BY <1>2, <1>8 DEF Current
<1>13. Context'
  BY <1>2 DEF IInv, Context
<1> QED BY <1>9, <1>10, <1>11, <1>12, <1>13 DEF IInv
-------------------------------------------------------------------------------
(***************************************************************************)
(* The replay buffer only forgets.                                         *)
(***************************************************************************)
LEMMA MaxOfTwo == ASSUME NEW a \in Int, NEW b \in Int
                  PROVE  Max({a, b}) = IF a >= b THEN a ELSE b
BY DEF Max

\* The newest chunks hold no segment the list did not hold.
LEMMA NewestForgets ==
  ASSUME NEW s \in Seq(ChunkSet), NEW n \in Nat
  PROVE  Newest(s, n) \in Seq(ChunkSet) /\ SegmentsOf(Newest(s, n)) \subseteq SegmentsOf(s)
<1> DEFINE m == Max({1, Len(s) - n + 1})
           t == SubSeq(s, m, Len(s))
<1>1. m \in Nat /\ 1 <= m
  BY MaxOfTwo
<1> HIDE DEF m
<1>2. /\ t \in Seq(ChunkSet) /\ Len(t) = IF m <= Len(s) THEN Len(s) - m + 1 ELSE 0
      /\ \A i \in 1..(Len(s) - m + 1) : t[i] = s[m + i - 1]
  <2>1. \A i \in m..Len(s) : s[i] \in ChunkSet
    BY <1>1
  <2> QED BY <1>1, <2>1, SubSeqProperties
<1> HIDE DEF t
<1>3. \A i \in 1..Len(t) : m + i - 1 \in 1..Len(s) /\ t[i] = s[m + i - 1]
  BY <1>1, <1>2
<1>4. SegmentsOf(t) \subseteq SegmentsOf(s)
  BY <1>3 DEF SegmentsOf
<1> QED BY <1>2, <1>4 DEF Newest, t, m

\* A pushed chunk adds its own segments and no other.
LEMMA PushForgets ==
  ASSUME NEW r \in [chunks : Seq(ChunkSet), max_chunks : Nat], NEW chunk \in ChunkSet
  PROVE  /\ ReplayPush(r, chunk) \in [chunks : Seq(ChunkSet), max_chunks : Nat]
         /\ SegmentsOf(ReplayPush(r, chunk).chunks) \subseteq SegmentsOf(r.chunks) \cup Segments(chunk)
<1> DEFINE s == Append(r.chunks, chunk)
<1>1. /\ s \in Seq(ChunkSet) /\ Len(s) = Len(r.chunks) + 1
      /\ \A i \in 1..Len(s) : s[i] = chunk \/ (i \in 1..Len(r.chunks) /\ s[i] = r.chunks[i])
  <2>1. r.chunks \in Seq(ChunkSet)
    OBVIOUS
  <2>2. s \in Seq(ChunkSet) /\ Len(s) = Len(r.chunks) + 1 /\ Len(r.chunks) \in Nat
    BY <2>1
  <2>3. /\ \A i \in 1..Len(r.chunks) : s[i] = r.chunks[i]
        /\ s[Len(r.chunks) + 1] = chunk
    BY <2>1
  <2> HIDE DEF s
  <2>4. ASSUME NEW i \in 1..Len(s)
        PROVE  s[i] = chunk \/ (i \in 1..Len(r.chunks) /\ s[i] = r.chunks[i])
    <3>1. CASE i = Len(r.chunks) + 1
      BY <2>3, <3>1
    <3>2. CASE i \in 1..Len(r.chunks)
      BY <2>3, <3>2
    <3> QED BY <2>2, <3>1, <3>2
  <2> QED BY <2>2, <2>4
<1> HIDE DEF s
<1>2. SegmentsOf(s) \subseteq SegmentsOf(r.chunks) \cup Segments(chunk)
  BY <1>1 DEF SegmentsOf
<1>3. ReplayPush(r, chunk) = [r EXCEPT !.chunks = Newest(s, r.max_chunks)]
  BY DEF ReplayPush, s
<1>4. r.chunks \in Seq(ChunkSet) /\ r.max_chunks \in Nat
  OBVIOUS
<1>5. /\ Newest(s, r.max_chunks) \in Seq(ChunkSet)
      /\ SegmentsOf(Newest(s, r.max_chunks)) \subseteq SegmentsOf(s)
  BY <1>1, <1>4, NewestForgets
<1> QED BY <1>2, <1>3, <1>5

LEMMA NothingBuffered == SegmentsOf(<<>>) = {}
BY DEF SegmentsOf

-------------------------------------------------------------------------------
(***************************************************************************)
(* Sessions, hot reloads and the frame of an iteration.                    *)
(***************************************************************************)
LEMMA InvInit == Init => IInv
<1> SUFFICES ASSUME Init PROVE IInv
  OBVIOUS
<1>1. Shape
  BY DEF Init, Shape, NewReplay
<1>2. ResetsInOrder /\ SegmentsApart
  BY AlignedZero DEF Init, ResetsInOrder, SegmentsApart, Resets, Ahead
<1>3. Current /\ Context
  BY NothingBuffered DEF Init, Current, Context, NewReplay
<1> QED BY <1>1, <1>2, <1>3 DEF IInv

\* A session begins with nothing ahead.
LEMMA BeginSessionKeeps == ASSUME IInv, BeginSession PROVE IInv'
<1>1. /\ pc' = "frames" /\ decoder' = {} /\ pending_speech_end_resets' = <<>>
      /\ asr_buffer' = <<>> /\ asr_consumed' = 0 /\ vad_state' = "silence" /\ pushed' = <<>>
      /\ empty_reset_threshold' \in Nat /\ replay_buffer' = NewReplay(empty_reset_threshold')
      /\ segment' = segment /\ chunk_num' = chunk_num
  BY NemotronAssumption DEF BeginSession, counters
<1>2. Shape'
  BY <1>1 DEF IInv, Shape, NewReplay
<1>3. ResetsInOrder' /\ SegmentsApart'
  BY <1>1, AlignedZero DEF ResetsInOrder, SegmentsApart, Resets, Ahead
<1>4. Current' /\ Context'
  BY <1>1, NothingBuffered DEF Current, Context, NewReplay
<1> QED BY <1>2, <1>3, <1>4 DEF IInv

\* The audio ahead, the resets and the decoder stay; of the replay buffer nothing is added.
LEMMA StillKeeps ==
  ASSUME IInv, UNCHANGED <<buffer, decoder, segment, vad_state>>,
         pc' \in {"new", "frames", "chunks"}, pc' # "chunks" => asr_consumed = 0,
         chunk_num' \in Nat, pushed' \in Seq(Sample),
         replay_buffer' \in [chunks : Seq(ChunkSet), max_chunks : Nat],
         SegmentsOf(replay_buffer'.chunks) \subseteq SegmentsOf(replay_buffer.chunks)
  PROVE  IInv'
<1>1. Shape'
  BY DEF IInv, Shape, buffer
<1>2. Resets' = Resets /\ Ahead' = Ahead /\ \A i : Speech(i)' = Speech(i)
  BY DEF Resets, Ahead, Speech, buffer
<1>3. ResetsInOrder'
  BY <1>2 DEF IInv, ResetsInOrder, buffer
<1>4. SegmentsApart' /\ Current'
  BY <1>2 DEF IInv, SegmentsApart, Current, buffer
<1>5. Context'
  BY DEF IInv, Context
<1> QED BY <1>1, <1>3, <1>4, <1>5 DEF IInv

\* A hot reload trims the replay buffer.
LEMMA UpdateSettingsKeeps == ASSUME IInv, UpdateSettings PROVE IInv'
<1>1. /\ UNCHANGED <<buffer, decoder, segment, vad_state, pc, chunk_num, pushed>>
      /\ empty_reset_threshold' \in Nat
      /\ replay_buffer' = [chunks     |-> Newest(replay_buffer.chunks, empty_reset_threshold'),
                           max_chunks |-> empty_reset_threshold']
  BY NemotronAssumption DEF UpdateSettings, record
<1>2. /\ replay_buffer' \in [chunks : Seq(ChunkSet), max_chunks : Nat]
      /\ SegmentsOf(replay_buffer'.chunks) \subseteq SegmentsOf(replay_buffer.chunks)
  BY <1>1, NewestForgets DEF IInv, Shape
<1> QED BY <1>1, <1>2, StillKeeps DEF IInv, Shape, ResetsInOrder

LEMMA EndSessionKeeps == ASSUME IInv, EndSession PROVE IInv'
<1>1. /\ UNCHANGED <<buffer, decoder, segment, vad_state, chunk_num, pushed, replay_buffer>>
      /\ pc' = "new" /\ pc = "frames"
  BY DEF EndSession, rules, record
<1> QED BY <1>1, StillKeeps DEF IInv, Shape, ResetsInOrder

LEMMA ProcessStartsKeeps == ASSUME IInv, ProcessStarts PROVE IInv'
<1>1. /\ UNCHANGED <<buffer, decoder, segment, vad_state, chunk_num, pushed, replay_buffer>>
      /\ pc' = "chunks"
  BY DEF ProcessStarts, rules, record, buffer, IInv, ResetsInOrder, counters
<1> QED BY <1>1, StillKeeps DEF IInv, Shape

\* When less than a chunk is ahead no reset waits, and after an utterance nothing at all.
LEMMA NothingWaits ==
  ASSUME IInv, Len(asr_buffer) - asr_consumed < ChunkSize
  PROVE  /\ pending_speech_end_resets = <<>> /\ Resets = {}
         /\ vad_state = "silence" => asr_consumed = Len(asr_buffer)
<1>1. Resets = {}
  <2> SUFFICES ASSUME NEW r \in Resets PROVE FALSE
    OBVIOUS
  <2>1. r \in Nat /\ asr_consumed \in Nat /\ Len(asr_buffer) \in Nat /\ Aligned(r)
        /\ Aligned(asr_consumed) /\ asr_consumed < r /\ r <= Len(asr_buffer)
    BY DEF IInv, Shape, ResetsInOrder, Resets
  <2>2. asr_consumed + ChunkSize <= r
    BY <2>1, AlignedApart
  <2> QED BY <2>1, <2>2, NemotronAssumption
<1>2. pending_speech_end_resets = <<>>
  <2>1. pending_speech_end_resets \in Seq(Nat)
    BY DEF IInv, Shape
  <2>2. ASSUME pending_speech_end_resets # <<>> PROVE FALSE
    <3>1. 1 \in 1..Len(pending_speech_end_resets)
      BY <2>1, <2>2
    <3> QED BY <1>1, <3>1 DEF Resets
  <2> QED BY <2>2
<1> QED BY <1>1, <1>2 DEF IInv, Current

\* What is left when process returns is moved to the front, and no reset waits for it.
LEMMA ProcessEndsKeeps == ASSUME IInv, ProcessEnds PROVE IInv'
<1>1. /\ asr_buffer' = SubSeq(asr_buffer, asr_consumed + 1, Len(asr_buffer)) /\ asr_consumed' = 0
      /\ pc' = "frames" /\ Len(asr_buffer) - asr_consumed < ChunkSize
      /\ UNCHANGED <<pending_speech_end_resets, decoder, replay_buffer, segment, vad_state,
                     chunk_num, pushed>>
  BY DEF ProcessEnds, rules, record, counters
<1>2. /\ Resets = {} /\ Resets' = {}
      /\ vad_state = "silence" => asr_consumed = Len(asr_buffer)
  BY <1>1, NothingWaits DEF Resets
<1>3. asr_buffer \in Seq(Sample) /\ asr_consumed \in 0..Len(asr_buffer) /\ Len(asr_buffer) \in Nat
  BY DEF IInv, Shape
<1>4. /\ asr_buffer' \in Seq(Sample) /\ Len(asr_buffer') = Len(asr_buffer) - asr_consumed
      /\ \A i \in 1..(Len(asr_buffer) - asr_consumed) : asr_buffer'[i] = asr_buffer[asr_consumed + i]
  <2>1. \A i \in (asr_consumed + 1)..Len(asr_buffer) : asr_buffer[i] \in Sample
    BY <1>3
  <2> DEFINE c == SubSeq(asr_buffer, asr_consumed + 1, Len(asr_buffer))
  <2>2. /\ c \in Seq(Sample)
        /\ Len(c) = IF asr_consumed + 1 <= Len(asr_buffer)
                    THEN Len(asr_buffer) - (asr_consumed + 1) + 1 ELSE 0
        /\ \A i \in 1..(Len(asr_buffer) - (asr_consumed + 1) + 1) :
             c[i] = asr_buffer[asr_consumed + 1 + i - 1]
    BY <1>3, <2>1, SubSeqProperties
  <2> HIDE DEF c
  <2>3. asr_buffer' = c
    BY <1>1 DEF c
  <2> QED BY <1>3, <2>2, <2>3
<1>5. Shape'
  BY <1>1, <1>3, <1>4 DEF IInv, Shape
<1>6. ResetsInOrder'
  BY <1>1, <1>2, AlignedZero DEF IInv, ResetsInOrder
<1>7. \A j \in Ahead' : asr_consumed + j \in Ahead /\ Speech(j)' = Speech(asr_consumed + j)
  BY <1>1, <1>3, <1>4 DEF Ahead, Speech
<1>8. SegmentsApart'
  <2>1. ASSUME NEW i \in Ahead', NEW j \in Ahead', i < j, Speech(i)' # 0, Speech(j)' # 0,
               Speech(i)' # Speech(j)'
        PROVE  FALSE
    <3>1. asr_consumed + i < asr_consumed + j
      BY <1>1, <1>3, <1>4, <2>1 DEF Ahead
    <3> QED BY <1>2, <1>7, <2>1, <3>1 DEF IInv, SegmentsApart
  <2>2. ASSUME NEW s \in decoder', NEW j \in Ahead', Speech(j)' # 0, Speech(j)' # s
        PROVE  FALSE
    BY <1>1, <1>2, <1>7, <2>2 DEF IInv, SegmentsApart
  <2> QED BY <2>1, <2>2 DEF SegmentsApart
<1>9. Current'
  BY <1>1, <1>2, <1>3, <1>4, <1>7 DEF IInv, Current
<1>10. Context'
  BY <1>1 DEF IInv, Context
<1> QED BY <1>5, <1>6, <1>8, <1>9, <1>10 DEF IInv
-------------------------------------------------------------------------------
(***************************************************************************)
(* A chunk goes through the decoder.                                       *)
(***************************************************************************)
AfterChunk == asr_consumed + ChunkSize
ReplayBuffer == [chunks : Seq(ChunkSet), max_chunks : Nat]

\* The decoder with this chunk still has heard one segment, and no reset was due before.
LEMMA ChunkHeard ==
  ASSUME IInv, Len(asr_buffer) - asr_consumed >= ChunkSize, NEW chunk,
         chunk = [id |-> chunk_num + 1, samples |-> SubSeq(asr_buffer, asr_consumed + 1, AfterChunk)]
  PROVE  /\ chunk \in ChunkSet /\ AfterChunk \in Nat /\ AfterChunk <= Len(asr_buffer)
         /\ Aligned(AfterChunk) /\ \A r \in Resets : AfterChunk <= r
         /\ decoder \cup Segments(chunk) \subseteq Nat
         /\ \A s, t \in decoder \cup Segments(chunk) : s = t
         /\ \A s \in decoder \cup Segments(chunk), j \in (AfterChunk + 1)..Len(asr_buffer) :
              Speech(j) # 0 /\ Speech(j) # s => \E r \in Resets : r < j
         /\ vad_state = "silence" => Resets # {}
         /\ vad_state = "speech" =>
              \A s \in decoder \cup Segments(chunk) : s # segment => Resets # {}
<1>1. /\ asr_buffer \in Seq(Sample) /\ asr_consumed \in Nat /\ Len(asr_buffer) \in Nat
      /\ ChunkSize \in Nat \ {0} /\ AfterChunk \in Nat /\ AfterChunk <= Len(asr_buffer)
      /\ asr_consumed < AfterChunk /\ chunk_num \in Nat /\ decoder \subseteq Nat
  BY NemotronAssumption DEF IInv, Shape, AfterChunk
<1>2. Aligned(AfterChunk)
  BY <1>1, AlignedNext DEF IInv, ResetsInOrder, AfterChunk
<1>3. \A r \in Resets : AfterChunk <= r
  <2> TAKE r \in Resets
  <2>1. r \in Nat /\ Aligned(r) /\ Aligned(asr_consumed) /\ asr_consumed < r
    BY SMTT(30) DEF IInv, Shape, ResetsInOrder, Resets
  <2> QED BY <1>1, <2>1, AlignedApart DEF AfterChunk
<1>4. /\ chunk.samples \in Seq(Sample)
      /\ \A i \in 1..ChunkSize : /\ chunk.samples[i] = asr_buffer[asr_consumed + i]
                                /\ asr_consumed + i \in Ahead /\ asr_consumed + i <= AfterChunk
  <2> DEFINE c == SubSeq(asr_buffer, asr_consumed + 1, AfterChunk)
  <2>1. \A i \in (asr_consumed + 1)..AfterChunk : asr_buffer[i] \in Sample
    BY <1>1
  <2>2. /\ c \in Seq(Sample)
        /\ \A i \in 1..(AfterChunk - (asr_consumed + 1) + 1) :
             c[i] = asr_buffer[asr_consumed + 1 + i - 1]
    BY <1>1, <2>1, SubSeqProperties
  <2> HIDE DEF c
  <2>3. \A i \in 1..ChunkSize : /\ i \in 1..(AfterChunk - (asr_consumed + 1) + 1)
                               /\ asr_consumed + 1 + i - 1 = asr_consumed + i
                               /\ asr_consumed + i \in Ahead /\ asr_consumed + i <= AfterChunk
    BY <1>1 DEF AfterChunk, Ahead
  <2>4. chunk.samples = c
    BY DEF c
  <2>5. ASSUME NEW i \in 1..ChunkSize PROVE c[i] = asr_buffer[asr_consumed + i]
    BY <2>2, <2>3
  <2> QED BY <2>2, <2>3, <2>4, <2>5
<1>5. chunk \in ChunkSet
  BY <1>1, <1>4 DEF ChunkSet, Sample
<1>6. \A s \in Segments(chunk) : /\ s \in Nat /\ s # 0
                                /\ \E j \in Ahead : j <= AfterChunk /\ Speech(j) = s
  <2> TAKE s \in Segments(chunk)
  <2>1. PICK i \in 1..ChunkSize : s = chunk.samples[i].segment /\ s # 0
    BY DEF Segments
  <2>2. s = Speech(asr_consumed + i) /\ asr_consumed + i \in Ahead /\ asr_consumed + i <= AfterChunk
    BY <1>4, <2>1 DEF Speech
  <2>3. s \in Nat
    <3>1. asr_consumed + i \in 1..Len(asr_buffer)
      BY <1>1, <2>2 DEF Ahead
    <3>2. asr_buffer[asr_consumed + i] \in Sample
      BY <1>1, <3>1
    <3> QED BY <2>2, <3>2 DEF Speech, Sample
  <2> QED BY <2>1, <2>2, <2>3
<1>7. \A j \in Ahead : j \in Nat /\ (j <= AfterChunk => ~ \E r \in Resets : r < j)
  <2>1. Resets \subseteq Nat
    BY DEF IInv, Shape, Resets
  <2> QED BY <1>1, <1>3, <2>1 DEF Ahead
<1>8. ASSUME NEW s \in decoder, NEW t \in Segments(chunk) PROVE s = t
  BY <1>6, <1>7 DEF IInv, SegmentsApart
<1>9. ASSUME NEW s \in Segments(chunk), NEW t \in Segments(chunk) PROVE s = t
  <2>1. PICK i \in Ahead : i <= AfterChunk /\ Speech(i) = s
    BY <1>6
  <2>2. PICK j \in Ahead : j <= AfterChunk /\ Speech(j) = t
    BY <1>6
  <2>3. s # 0 /\ t # 0
    BY <1>6
  <2>4. CASE i < j
    BY <1>7, <2>1, <2>2, <2>3, <2>4 DEF IInv, SegmentsApart
  <2>5. CASE j < i
    BY <1>7, <2>1, <2>2, <2>3, <2>5 DEF IInv, SegmentsApart
  <2>6. CASE i = j
    BY <2>1, <2>2, <2>6
  <2> QED BY <1>7, <2>4, <2>5, <2>6
<1>10. ASSUME NEW s \in decoder \cup Segments(chunk), NEW j \in (AfterChunk + 1)..Len(asr_buffer),
              Speech(j) # 0, Speech(j) # s
       PROVE  \E r \in Resets : r < j
  <2>1. j \in Ahead /\ AfterChunk < j
    BY <1>1 DEF Ahead
  <2>2. CASE s \in decoder
    BY <1>10, <2>1, <2>2 DEF IInv, SegmentsApart
  <2>3. CASE s \in Segments(chunk)
    <3>1. PICK i \in Ahead : i <= AfterChunk /\ Speech(i) = s /\ s # 0
      BY <1>6, <2>3
    <3>2. i < j
      BY <1>1, <1>7, <2>1, <3>1
    <3> QED BY <1>10, <2>1, <3>1, <3>2 DEF IInv, SegmentsApart
  <2> QED BY <2>2, <2>3
<1>11. vad_state = "silence" => Resets # {}
  BY <1>1 DEF IInv, Current
<1>12. ASSUME vad_state = "speech", NEW s \in decoder \cup Segments(chunk), s # segment
       PROVE  Resets # {}
  <2>1. CASE s \in decoder
    BY <1>12, <2>1 DEF IInv, Current
  <2>2. CASE s \in Segments(chunk)
    <3>1. PICK i \in Ahead : Speech(i) = s /\ s # 0
      BY <1>6, <2>2
    <3> QED BY <1>12, <3>1 DEF IInv, Current
  <2> QED BY <2>1, <2>2
<1>13. \A s, t \in decoder \cup Segments(chunk) : s = t
  <2> TAKE s, t \in decoder \cup Segments(chunk)
  <2>1. CASE s \in decoder /\ t \in decoder
    BY <2>1 DEF IInv, Context
  <2> QED BY <1>8, <1>9, <2>1
<1>14. decoder \cup Segments(chunk) \subseteq Nat
  BY <1>1, <1>6
<1> QED BY <1>1, <1>2, <1>3, <1>5, <1>10, <1>11, <1>12, <1>13, <1>14

\* The rules' state r, with a decoder that has heard no more than d, and a replay buffer that
\* holds no more than that decoder has heard.
Within(r, d) ==
  \E e, m : \E p \in ReplayBuffer, h \in SUBSET d :
    /\ r = [empty |-> e, replay |-> p, decoder |-> h, emitted |-> m]
    /\ SegmentsOf(p.chunks) \subseteq h

\* A replay buffer that is cleared is a new one of its size.
LEMMA Emptied ==
  ASSUME NEW p \in ReplayBuffer
  PROVE  /\ [p EXCEPT !.chunks = <<>>] = NewReplay(p.max_chunks)
         /\ NewReplay(p.max_chunks) \in ReplayBuffer /\ NewReplay(p.max_chunks).chunks = <<>>
<1>1. p = [chunks |-> p.chunks, max_chunks |-> p.max_chunks] /\ p.max_chunks \in Nat
  BY DEF ReplayBuffer
<1>2. <<>> \in Seq(ChunkSet)
  OBVIOUS
<1>3. NewReplay(p.max_chunks) \in ReplayBuffer /\ NewReplay(p.max_chunks).chunks = <<>>
  BY <1>1, <1>2 DEF NewReplay, ReplayBuffer
<1>4. [p EXCEPT !.chunks = <<>>] = NewReplay(p.max_chunks)
  BY <1>1 DEF NewReplay
<1> QED BY <1>3, <1>4

\* What a reset of the decoder leaves of the rules' state.
LEMMA ResetOfRules ==
  ASSUME NEW e, NEW p, NEW h, NEW m
  PROVE  ResetDecoder([empty |-> e, replay |-> p, decoder |-> h, emitted |-> m])
           = [empty |-> 0, replay |-> [p EXCEPT !.chunks = <<>>], decoder |-> {}, emitted |-> m]
<1> DEFINE r == [empty |-> e, replay |-> p, decoder |-> h, emitted |-> m]
           r1 == [r EXCEPT !.decoder = {}]
           r2 == [r1 EXCEPT !.empty = 0]
<1>1. r1 = [empty |-> e, replay |-> p, decoder |-> {}, emitted |-> m]
  OBVIOUS
<1> HIDE DEF r1
<1>2. r2 = [empty |-> 0, replay |-> p, decoder |-> {}, emitted |-> m]
  BY <1>1
<1>3. ResetDecoder(r) = [r2 EXCEPT !.replay = [r2.replay EXCEPT !.chunks = <<>>]]
  BY DEF ResetDecoder, r1
<1> HIDE DEF r, r2
<1> DEFINE x == [p EXCEPT !.chunks = <<>>]
<1>4. [r2.replay EXCEPT !.chunks = <<>>] = x
  BY <1>2
<1> HIDE DEF x
<1>5. [r2 EXCEPT !.replay = x] = [empty |-> 0, replay |-> x, decoder |-> {}, emitted |-> m]
  BY <1>2
<1> QED BY <1>3, <1>4, <1>5 DEF r, x

\* A reset keeps the bound on what the decoder has heard.
LEMMA ResetWithin ==
  ASSUME NEW r, NEW d, Within(r, d)
  PROVE  /\ Within(ResetDecoder(r), d) /\ ResetDecoder(r).decoder = {}
         /\ ResetDecoder(r).replay.chunks = <<>>
<1>1. PICK e, m : \E p \in ReplayBuffer, h \in SUBSET d :
        r = [empty |-> e, replay |-> p, decoder |-> h, emitted |-> m]
  BY DEF Within
<1>2. PICK p \in ReplayBuffer, h \in SUBSET d :
        r = [empty |-> e, replay |-> p, decoder |-> h, emitted |-> m]
  BY <1>1
<1> DEFINE p0 == NewReplay(p.max_chunks)
<1>3. p0 \in ReplayBuffer /\ p0.chunks = <<>>
  BY <1>2, Emptied
<1>4. ResetDecoder(r) = [empty |-> 0, replay |-> p0, decoder |-> {}, emitted |-> m]
  <2>1. [p EXCEPT !.chunks = <<>>] = p0
    BY <1>2, Emptied
  <2> DEFINE x == [p EXCEPT !.chunks = <<>>]
  <2>2. ResetDecoder([empty |-> e, replay |-> p, decoder |-> h, emitted |-> m])
          = [empty |-> 0, replay |-> x, decoder |-> {}, emitted |-> m]
    BY ResetOfRules
  <2> HIDE DEF x, p0
  <2>3. x = p0
    BY <2>1 DEF x
  <2> QED BY <1>2, <2>2, <2>3
<1> HIDE DEF p0
<1>5. {} \in SUBSET d /\ SegmentsOf(p0.chunks) \subseteq {}
  BY <1>3, NothingBuffered
<1>6. \E q \in ReplayBuffer, k \in SUBSET d :
        /\ ResetDecoder(r) = [empty |-> 0, replay |-> q, decoder |-> k, emitted |-> m]
        /\ SegmentsOf(q.chunks) \subseteq k
  BY <1>3, <1>4, <1>5
<1>7. Within(ResetDecoder(r), d)
  BY <1>6 DEF Within
<1> QED BY <1>3, <1>4, <1>7

\* So does a chunk, with its own segments added,
LEMMA TranscribedWithin ==
  ASSUME IInv, NEW chunk \in ChunkSet, NEW outcome
  PROVE  Within(Transcribed(Rules, chunk, outcome), decoder \cup Segments(chunk))
<1> DEFINE r == Transcribed(Rules, chunk, outcome)
           h == decoder \cup Segments(chunk)
<1>1. /\ Rules.replay = replay_buffer /\ Rules.decoder = decoder
      /\ replay_buffer \in ReplayBuffer /\ SegmentsOf(replay_buffer.chunks) \subseteq decoder
  BY DEF Rules, IInv, Shape, Context, ReplayBuffer
<1>2. /\ ReplayPush(replay_buffer, chunk) \in ReplayBuffer
      /\ SegmentsOf(ReplayPush(replay_buffer, chunk).chunks) \subseteq h
  BY <1>1, PushForgets DEF ReplayBuffer
<1>3. r.replay \in ReplayBuffer /\ SegmentsOf(r.replay.chunks) \subseteq h
  <2>1. CASE vad_state = "speech"
    BY <1>1, <1>2, <2>1 DEF Transcribed
  <2>2. CASE vad_state # "speech"
    BY <1>1, <2>2 DEF Transcribed
  <2> QED BY <2>1, <2>2
<1>4. r = [empty |-> r.empty, replay |-> r.replay, decoder |-> h, emitted |-> r.emitted]
  BY <1>1 DEF Transcribed
<1> HIDE DEF r, h
<1>5. h \in SUBSET h
  OBVIOUS
<1>6. Within(r, h)
  BY <1>3, <1>4, <1>5 DEF Within
<1> QED BY <1>6 DEF r, h

\* the reset at the end of a sentence,
LEMMA SentenceWithin ==
  ASSUME NEW r, NEW d, Within(r, d), NEW outcome
  PROVE  Within(SentenceReset(r, outcome), d)
BY ResetWithin DEF SentenceReset

\* and a replay, which repeats chunks of the buffer.
LEMMA ReplayedWithin ==
  ASSUME NEW r, NEW d, Within(r, d), NEW texts
  PROVE  Within(Replayed(r, texts), d)
<1>1. PICK e, m : \E p \in ReplayBuffer, h \in SUBSET d :
        /\ r = [empty |-> e, replay |-> p, decoder |-> h, emitted |-> m]
        /\ SegmentsOf(p.chunks) \subseteq h
  BY DEF Within
<1>2. PICK p \in ReplayBuffer, h \in SUBSET d :
        /\ r = [empty |-> e, replay |-> p, decoder |-> h, emitted |-> m]
        /\ SegmentsOf(p.chunks) \subseteq h
  BY <1>1
<1> DEFINE p0 == NewReplay(p.max_chunks)
           k == SegmentsOf(p.chunks)
           more == WithText(p.chunks, texts)
<1>3. p0 \in ReplayBuffer /\ p0.chunks = <<>>
  BY <1>2, Emptied
<1>4. Replayed(r, texts) = [empty |-> 0, replay |-> p0, decoder |-> k, emitted |-> m \o more]
  <2> DEFINE r0 == [empty |-> 0, replay |-> p0, decoder |-> {}, emitted |-> m]
  <2>1. ResetDecoder(r) = r0
    <3>1. [p EXCEPT !.chunks = <<>>] = p0
      BY <1>2, Emptied
    <3> DEFINE x == [p EXCEPT !.chunks = <<>>]
    <3>2. ResetDecoder([empty |-> e, replay |-> p, decoder |-> h, emitted |-> m])
            = [empty |-> 0, replay |-> x, decoder |-> {}, emitted |-> m]
      BY ResetOfRules
    <3> HIDE DEF x, p0
    <3>3. x = p0
      BY <3>1 DEF x
    <3> QED BY <1>2, <3>2, <3>3
  <2>2. Replayed(r, texts) = [[r0 EXCEPT !.decoder = k] EXCEPT !.emitted = @ \o more]
    BY <1>2, <2>1 DEF Replayed
  <2> HIDE DEF k, more, p0
  <2> QED BY <2>2
<1> HIDE DEF p0, k, more
<1>5. k \in SUBSET d /\ SegmentsOf(p0.chunks) \subseteq k
  BY <1>2, <1>3, NothingBuffered DEF k
<1> QED BY <1>3, <1>4, <1>5 DEF Within

\* How many resets are due once c samples are through, and which stay queued.
DueCount(c) == Max({0} \cup {k \in 1..Len(pending_speech_end_resets) :
                             \A i \in 1..k : pending_speech_end_resets[i] <= c})
StillQueued(c) == SubSeq(pending_speech_end_resets, DueCount(c) + 1, Len(pending_speech_end_resets))

\* At most one reset is due at a time, for no two strike at the same boundary.
LEMMA DueAtMostOne ==
  ASSUME IInv, NEW c \in Nat, \A r \in Resets : c <= r
  PROVE  /\ DueCount(c) \in {0, 1}
         /\ StillQueued(c) \in Seq(Nat)
         /\ \A i, j \in 1..Len(StillQueued(c)) : i < j => StillQueued(c)[i] < StillQueued(c)[j]
         /\ {StillQueued(c)[i] : i \in 1..Len(StillQueued(c))} = {r \in Resets : c < r}
         /\ DueCount(c) = 0 => {r \in Resets : c < r} = Resets
<1> DEFINE p == pending_speech_end_resets
           K == {k \in 1..Len(p) : \A i \in 1..k : p[i] <= c}
<1>1. /\ p \in Seq(Nat) /\ Len(p) \in Nat /\ \A i \in 1..Len(p) : p[i] \in Nat /\ c <= p[i]
      /\ \A i, j \in 1..Len(p) : i < j => p[i] < p[j]
      /\ Resets = {p[i] : i \in 1..Len(p)}
  BY SMTT(30) DEF IInv, Shape, ResetsInOrder, Resets
<1>2. DueCount(c) = Max({0} \cup K)
  BY DEF DueCount
<1> HIDE DEF p
<1>3. \A k \in K : k = 1
  <2> SUFFICES ASSUME NEW k \in K, k # 1 PROVE FALSE
    OBVIOUS
  <2>1. 1 \in 1..k /\ 2 \in 1..k /\ k \in 1..Len(p)
    BY <1>1
  <2>2. p[2] <= c /\ 1 \in 1..Len(p) /\ 2 \in 1..Len(p)
    BY <1>1, <2>1
  <2>3. p[1] < p[2] /\ c <= p[1] /\ p[1] \in Nat /\ p[2] \in Nat
    BY <1>1, <2>2
  <2> QED BY <2>2, <2>3
<1>4. CASE Len(p) >= 1 /\ p[1] <= c
  <2>1. 1 \in K
    BY <1>1, <1>4
  <2>2. {0} \cup K = {1, 0}
    BY <1>3, <2>1
  <2>3. DueCount(c) = 1
    BY <1>2, <2>2, MaxOfTwo
  <2> DEFINE q == SubSeq(p, 2, Len(p))
  <2>4. \A i \in 2..Len(p) : p[i] \in Nat
    BY <1>1
  <2>5. /\ q \in Seq(Nat) /\ Len(q) = IF 2 <= Len(p) THEN Len(p) - 2 + 1 ELSE 0
        /\ \A i \in 1..(Len(p) - 2 + 1) : q[i] = p[2 + i - 1]
    BY <1>1, <2>4, SubSeqProperties
  <2> HIDE DEF q
  <2>6. Len(q) = Len(p) - 1
    <3>1. Len(q) = IF 2 <= Len(p) THEN Len(p) - 2 + 1 ELSE 0
      BY <2>5
    <3>2. Len(p) \in Nat /\ Len(p) >= 1
      BY <1>1, <1>4
    <3>3. CASE Len(p) = 1
      BY <3>1, <3>3
    <3>4. CASE Len(p) >= 2
      BY <3>1, <3>2, <3>4
    <3>5. Len(p) = 1 \/ Len(p) >= 2
      BY <3>2, SMTT(30)
    <3> QED BY <3>3, <3>4, <3>5
  <2>7. \A i \in 1..Len(q) : i + 1 \in 1..Len(p) /\ q[i] = p[i + 1] /\ i \in Nat /\ q[i] \in Nat
    <3> TAKE i \in 1..Len(q)
    <3>1. i + 1 \in 1..Len(p) /\ 2 + i - 1 = i + 1 /\ i \in 1..(Len(p) - 2 + 1)
      BY <1>1, <2>6
    <3>2. q[i] = p[i + 1]
      BY <2>5, <3>1
    <3> QED BY <1>1, <3>1, <3>2
  <2>8. StillQueued(c) = q
    BY <2>3 DEF StillQueued, q, p
  <2>9. \A i, j \in 1..Len(q) : i < j => q[i] < q[j]
    <3> SUFFICES ASSUME NEW i \in 1..Len(q), NEW j \in 1..Len(q), i < j PROVE q[i] < q[j]
      OBVIOUS
    <3>1. i + 1 < j + 1
      BY <2>7
    <3> QED BY <1>1, <2>7, <3>1
  <2>10. {q[i] : i \in 1..Len(q)} \subseteq {r \in Resets : c < r}
    <3> SUFFICES ASSUME NEW i \in 1..Len(q) PROVE q[i] \in Resets /\ c < q[i]
      OBVIOUS
    <3>1. 1 \in 1..Len(p) /\ 1 < i + 1
      BY <1>1, <1>4, <2>7
    <3>2. p[1] < p[i + 1] /\ p[1] \in Nat /\ p[i + 1] \in Nat /\ c <= p[1]
      BY <1>1, <2>7, <3>1
    <3> QED BY <1>1, <2>7, <3>2
  <2>11. {r \in Resets : c < r} \subseteq {q[i] : i \in 1..Len(q)}
    <3> SUFFICES ASSUME NEW i \in 1..Len(p), c < p[i] PROVE \E k \in 1..Len(q) : p[i] = q[k]
      BY <1>1
    <3>1. i # 1
      BY <1>1, <1>4
    <3>2. i - 1 \in 1..Len(q) /\ (i - 1) + 1 = i
      BY <1>1, <2>6, <3>1
    <3> QED BY <2>7, <3>2
  <2> QED BY <2>3, <2>5, <2>8, <2>9, <2>10, <2>11, SMTT(30)
<1>5. CASE ~(Len(p) >= 1 /\ p[1] <= c)
  <2>1. K = {}
    <3> SUFFICES ASSUME NEW k \in K PROVE FALSE
      OBVIOUS
    <3>1. k = 1 /\ k \in 1..Len(p) /\ 1 \in 1..k
      BY <1>3
    <3> QED BY <1>1, <1>5, <3>1
  <2>2. {0} \cup K = {0, 0}
    BY <2>1
  <2>3. DueCount(c) = 0
    BY <1>2, <2>2, MaxOfTwo
  <2>4. StillQueued(c) = p
    BY <1>1, <2>3, SubSeqFull DEF StillQueued, p
  <2>5. \A r \in Resets : c < r
    <3> SUFFICES ASSUME NEW i \in 1..Len(p) PROVE c < p[i]
      BY <1>1
    <3>1. 1 \in 1..Len(p) /\ c < p[1] /\ p[1] \in Nat /\ p[i] \in Nat
      BY <1>1, <1>5
    <3>2. i = 1 \/ p[1] < p[i]
      BY <1>1, <3>1
    <3> QED BY <3>1, <3>2
  <2> QED BY <1>1, <2>3, <2>4, <2>5
<1> QED BY <1>4, <1>5

\* What SpeechEndResets does, in terms of how many resets are due.
LEMMA ResetsStrike ==
  ASSUME NEW r, SpeechEndResets(r, AfterChunk)
  PROVE  LET s == IF DueCount(AfterChunk) = 0 THEN r ELSE ResetDecoder(r)
         IN  /\ pending_speech_end_resets' = StillQueued(AfterChunk)
             /\ replay_buffer' = s.replay /\ decoder' = s.decoder
BY DEF SpeechEndResets, DueCount, StillQueued

LEMMA WithinParts ==
  ASSUME NEW r, NEW d, Within(r, d)
  PROVE  /\ r.replay \in ReplayBuffer /\ r.decoder \subseteq d
         /\ SegmentsOf(r.replay.chunks) \subseteq r.decoder
BY DEF Within

\* The queued resets strike between this chunk and the next.
LEMMA AfterResets ==
  ASSUME IInv, NEW chunk, NEW r, Within(r, decoder \cup Segments(chunk)),
         chunk = [id |-> chunk_num + 1, samples |-> SubSeq(asr_buffer, asr_consumed + 1, AfterChunk)],
         Len(asr_buffer) - asr_consumed >= ChunkSize, SpeechEndResets(r, AfterChunk),
         asr_consumed' = AfterChunk, pc = "chunks", chunk_num' = chunk_num + 1,
         UNCHANGED <<asr_buffer, segment, pushed, pc, vad_state>>
  PROVE  IInv'
<1> DEFINE d == decoder \cup Segments(chunk)
           s == IF DueCount(AfterChunk) = 0 THEN r ELSE ResetDecoder(r)
<1>1. /\ AfterChunk \in Nat /\ AfterChunk <= Len(asr_buffer) /\ Aligned(AfterChunk)
      /\ \A x \in Resets : AfterChunk <= x
      /\ d \subseteq Nat /\ \A x, y \in d : x = y
      /\ \A x \in d, j \in (AfterChunk + 1)..Len(asr_buffer) :
           Speech(j) # 0 /\ Speech(j) # x => \E y \in Resets : y < j
      /\ vad_state = "silence" => Resets # {}
      /\ vad_state = "speech" => \A x \in d : x # segment => Resets # {}
  BY ChunkHeard
<1>2. /\ DueCount(AfterChunk) \in {0, 1} /\ StillQueued(AfterChunk) \in Seq(Nat)
      /\ \A i, j \in 1..Len(StillQueued(AfterChunk)) :
           i < j => StillQueued(AfterChunk)[i] < StillQueued(AfterChunk)[j]
      /\ {StillQueued(AfterChunk)[i] : i \in 1..Len(StillQueued(AfterChunk))}
           = {x \in Resets : AfterChunk < x}
      /\ DueCount(AfterChunk) = 0 => {x \in Resets : AfterChunk < x} = Resets
  BY <1>1, DueAtMostOne
<1>3. /\ pending_speech_end_resets' = StillQueued(AfterChunk)
      /\ replay_buffer' = s.replay /\ decoder' = s.decoder
  BY ResetsStrike
<1>4. Resets' = {x \in Resets : AfterChunk < x}
  BY <1>2, <1>3 DEF Resets
<1>5. Within(s, d) /\ (DueCount(AfterChunk) # 0 => s.decoder = {})
  BY ResetWithin
<1> HIDE DEF s, d
<1>6. /\ replay_buffer' \in ReplayBuffer /\ decoder' \subseteq d
      /\ SegmentsOf(replay_buffer'.chunks) \subseteq decoder'
      /\ DueCount(AfterChunk) # 0 => decoder' = {}
  BY <1>3, <1>5, WithinParts
<1>7. /\ asr_buffer \in Seq(Sample) /\ Len(asr_buffer) \in Nat /\ Resets \subseteq Nat
      /\ asr_buffer' = asr_buffer /\ asr_consumed \in Nat /\ asr_consumed <= AfterChunk
  BY NemotronAssumption DEF IInv, Shape, AfterChunk, Resets
<1>8. Shape'
  <2>1. /\ chunk_num' \in Nat /\ segment' \in Nat /\ pushed' \in Seq(Sample)
        /\ pc' \in {"new", "frames", "chunks"} /\ vad_state' \in {"silence", "speech"}
    BY DEF IInv, Shape
  <2>2. asr_consumed' \in 0..Len(asr_buffer')
    BY <1>1, <1>7
  <2>3. decoder' \subseteq Nat /\ pending_speech_end_resets' \in Seq(Nat)
    BY <1>1, <1>2, <1>3, <1>6
  <2>4. replay_buffer' \in [chunks : Seq(ChunkSet), max_chunks : Nat] /\ asr_buffer' \in Seq(Sample)
    BY <1>6, <1>7 DEF ReplayBuffer
  <2> QED BY <2>1, <2>2, <2>3, <2>4 DEF Shape
<1>9. ResetsInOrder'
  BY <1>1, <1>2, <1>3, <1>4, <1>7 DEF IInv, ResetsInOrder
<1>10. Ahead' \subseteq Ahead /\ Ahead' = (AfterChunk + 1)..Len(asr_buffer)
       /\ \A j : Speech(j)' = Speech(j)
  BY <1>1, <1>7 DEF Ahead, Speech
<1>11. SegmentsApart'
  <2>1. ASSUME NEW i \in Ahead', NEW j \in Ahead', i < j, Speech(i) # 0, Speech(j) # 0,
               Speech(i) # Speech(j)
        PROVE  \E x \in Resets' : i <= x /\ x < j
    <3>1. PICK x \in Resets : i <= x /\ x < j
      BY <1>10, <2>1 DEF IInv, SegmentsApart
    <3>2. AfterChunk < x
      BY <1>1, <1>7, <1>10, <3>1
    <3> QED BY <1>4, <3>1, <3>2
  <2>2. ASSUME NEW x \in decoder', NEW j \in Ahead', Speech(j) # 0, Speech(j) # x
        PROVE  \E y \in Resets' : y < j
    <3>1. Resets' = Resets /\ x \in d
      BY <1>2, <1>4, <1>6, <2>2
    <3> QED BY <1>1, <1>10, <2>2, <3>1
  <2> QED BY <1>10, <2>1, <2>2 DEF SegmentsApart
<1>12. decoder' # {} => Resets' = Resets
  BY <1>2, <1>4, <1>6
<1>13. Current'
  <2>1. CASE vad_state = "silence"
    <3>1. Len(asr_buffer) \in Resets
      BY <1>1, <1>7, <2>1, NemotronAssumption DEF IInv, Current, AfterChunk
    <3>2. AfterChunk = Len(asr_buffer) \/ Len(asr_buffer) \in Resets'
      BY <1>1, <1>4, <1>7, <3>1
    <3> QED BY <1>1, <1>7, <1>12, <2>1, <3>2 DEF Current
  <2>2. CASE vad_state = "speech"
    <3>1. ASSUME NEW j \in Ahead', Speech(j) \notin {0, segment}
          PROVE  \E x \in Resets' : j <= x
      <4>1. PICK x \in Resets : j <= x
        BY <1>10, <2>2, <3>1 DEF IInv, Current
      <4>2. AfterChunk < x
        BY <1>1, <1>7, <1>10, <4>1
      <4> QED BY <1>4, <4>1, <4>2
    <3>2. ASSUME NEW x \in decoder', x # segment PROVE Resets' # {}
      BY <1>1, <1>6, <1>12, <2>2, <3>2
    <3> QED BY <1>10, <2>2, <3>1, <3>2 DEF Current
  <2> QED BY <2>1, <2>2 DEF IInv, Shape
<1>14. Context'
  BY <1>1, <1>6 DEF Context
<1> QED BY <1>8, <1>9, <1>11, <1>13, <1>14 DEF IInv

\* A chunk, whichever rules it sets off.
LEMMA ChunkKeeps == ASSUME IInv, Chunk PROVE IInv'
<1> DEFINE chunk == [id      |-> chunk_num',
                     samples |-> SubSeq(asr_buffer, asr_consumed + 1, asr_consumed')]
<1>1. /\ pc = "chunks" /\ Len(asr_buffer) - asr_consumed >= ChunkSize
      /\ asr_consumed' = AfterChunk /\ chunk_num' = chunk_num + 1
      /\ UNCHANGED <<asr_buffer, segment, pushed, pc, vad_state>>
  BY DEF Chunk, AfterChunk, counters
<1>2. chunk = [id |-> chunk_num + 1, samples |-> SubSeq(asr_buffer, asr_consumed + 1, AfterChunk)]
  BY <1>1
<1>3. PICK outcome \in Outcome :
        LET r == SentenceReset(Transcribed(Rules, chunk, outcome), outcome)
        IN  IF MidSpeech(r, outcome)
            THEN \E texts \in SUBSET {r.replay.chunks[i].id : i \in 1..Len(r.replay.chunks)} :
                   SpeechEndResets(Replayed(r, texts), asr_consumed')
            ELSE SpeechEndResets(r, asr_consumed')
  BY DEF Chunk
<1> HIDE DEF chunk
<1> DEFINE r == SentenceReset(Transcribed(Rules, chunk, outcome), outcome)
           d == decoder \cup Segments(chunk)
<1>4. Within(r, d)
  BY <1>1, <1>2, ChunkHeard, TranscribedWithin, SentenceWithin
<1> HIDE DEF r, d
<1>5. \E q : Within(q, d) /\ SpeechEndResets(q, AfterChunk)
  <2>1. CASE MidSpeech(r, outcome)
    <3>1. PICK texts : SpeechEndResets(Replayed(r, texts), AfterChunk)
      BY <1>1, <1>3, <2>1 DEF r
    <3> QED BY <1>4, <3>1, ReplayedWithin
  <2>2. CASE ~MidSpeech(r, outcome)
    BY <1>1, <1>3, <1>4, <2>2 DEF r
  <2> QED BY <2>1, <2>2
<1>6. PICK q : Within(q, d) /\ SpeechEndResets(q, AfterChunk)
  BY <1>5
<1> QED BY <1>1, <1>2, <1>6, AfterResets DEF d

-------------------------------------------------------------------------------
LEMMA InvStep == ASSUME IInv, [Next]_vars PROVE IInv'
<1>1. CASE UNCHANGED vars
  BY <1>1, StillKeeps DEF vars, buffer, rules, counters, record, IInv, Shape, ResetsInOrder
<1> QED BY <1>1, BeginSessionKeeps, UpdateSettingsKeeps, SpeechStartKeeps, SpeechFrameKeeps,
           SpeechEndKeeps, ProcessStartsKeeps, ChunkKeeps, ProcessEndsKeeps, EndSessionKeeps
        DEF Next

LEMMA InvAlways == Spec => []IInv
BY InvInit, InvStep, PTL DEF Spec

\* However segments, iterations and chunks overlap, and whichever of the four rules resets it, the
\* decoder never carries context from one utterance into another (nemotron.rs:187-195).
THEOREM AlwaysOneSegmentInContext == Spec => []OneSegmentInContext
<1>1. ASSUME IInv PROVE OneSegmentInContext
  <2>1. \A s, t \in decoder : s = t
    BY <1>1 DEF IInv, Context
  <2>2. decoder = {} \/ \E s : decoder = {s}
    BY <2>1
  <2>3. CASE decoder = {}
    BY <2>3, FS_EmptySet DEF OneSegmentInContext
  <2>4. CASE \E s : decoder = {s}
    <3>1. PICK s : decoder = {s}
      BY <2>4
    <3>2. Cardinality({s}) = 1
      BY FS_Singleton
    <3> QED BY <3>1, <3>2 DEF OneSegmentInContext
  <2> QED BY <2>2, <2>3, <2>4
<1> QED BY <1>1, InvAlways, PTL

\* An iteration leaves no reset queued, less than a chunk of audio, and after the end of an
\* utterance none at all.
THEOREM AlwaysUtteranceFinished == Spec => UtteranceFinished
<1> DEFINE A == pc = "chunks" /\ pc' = "frames" =>
             /\ pending_speech_end_resets' = <<>>
             /\ vad_state = "silence" => asr_buffer' = <<>>
             /\ Len(asr_buffer') < ChunkSize
<1>1. ASSUME IInv, [Next]_vars PROVE [A]_vars
  <2>1. CASE UNCHANGED vars
    BY <2>1
  <2>2. CASE Next
    <3> SUFFICES ASSUME pc = "chunks", pc' = "frames" PROVE A
      OBVIOUS
    <3>1. ProcessEnds
      BY <2>2 DEF Next, BeginSession, UpdateSettings, SpeechStart, SpeechFrame, SpeechEnd, Stage,
                  ProcessStarts, Chunk, EndSession
    <3>2. /\ asr_buffer' = SubSeq(asr_buffer, asr_consumed + 1, Len(asr_buffer))
          /\ pending_speech_end_resets' = pending_speech_end_resets
          /\ Len(asr_buffer) - asr_consumed < ChunkSize
      BY <3>1 DEF ProcessEnds
    <3>3. /\ pending_speech_end_resets' = <<>>
          /\ vad_state = "silence" => asr_consumed = Len(asr_buffer)
      BY <1>1, <3>2, NothingWaits
    <3>4. /\ asr_buffer \in Seq(Sample) /\ asr_consumed \in 0..Len(asr_buffer)
          /\ Len(asr_buffer) \in Nat /\ asr_consumed \in Nat
      BY <1>1 DEF IInv, Shape
    <3>5. Len(asr_buffer') = Len(asr_buffer) - asr_consumed
      <4>1. \A i \in (asr_consumed + 1)..Len(asr_buffer) : asr_buffer[i] \in Sample
        BY <3>4
      <4>2. Len(SubSeq(asr_buffer, asr_consumed + 1, Len(asr_buffer)))
              = IF asr_consumed + 1 <= Len(asr_buffer)
                THEN Len(asr_buffer) - (asr_consumed + 1) + 1 ELSE 0
        BY <3>4, <4>1, SubSeqProperties
      <4> QED BY <3>2, <3>4, <4>2
    <3>6. vad_state = "silence" => asr_buffer' = <<>>
      BY <3>2, <3>3, <3>4, SubSeqEmpty
    <3> QED BY <3>2, <3>3, <3>5, <3>6
  <2> QED BY <1>1, <2>1, <2>2
<1>2. [][A]_vars => UtteranceFinished
  BY PTL DEF UtteranceFinished
<1> QED BY <1>1, <1>2, InvAlways, PTL DEF Spec
-------------------------------------------------------------------------------
(***************************************************************************)
(* The speech of a list of samples.                                        *)
(***************************************************************************)
LEMMA SpeechList ==
  ASSUME NEW s \in Seq(Sample)
  PROVE  /\ SpeechOf(s) \in Seq(Sample)
         /\ (\A i \in 1..Len(s) : s[i] # Padding) => SpeechOf(s) = s
         /\ (\A i \in 1..Len(s) : s[i] = Padding) => SpeechOf(s) = <<>>
<1> DEFINE I == {i \in 1..Len(s) : s[i] # Padding}
<1>1. SpeechOf(s) = At(s, I)
  BY DEF SpeechOf
<1>2. I \in SUBSET (1..Len(s))
  OBVIOUS
<1>3. At(s, I) \in Seq(Sample)
  <2> HIDE DEF I
  <2> QED BY <1>2, AtList
<1>4. ASSUME \A i \in 1..Len(s) : s[i] # Padding PROVE At(s, I) = s
  <2>1. I = 1..Len(s)
    BY <1>4
  <2> HIDE DEF I
  <2> QED BY <2>1, AtAll
<1>5. ASSUME \A i \in 1..Len(s) : s[i] = Padding PROVE At(s, I) = <<>>
  <2>1. I = {}
    BY <1>5
  <2> HIDE DEF I
  <2> QED BY <2>1, AtNothing
<1> QED BY <1>1, <1>3, <1>4, <1>5

\* The speech of two lists of samples, one after the other.
LEMMA SpeechConcat ==
  ASSUME NEW s \in Seq(Sample), NEW t \in Seq(Sample)
  PROVE  s \o t \in Seq(Sample) /\ SpeechOf(s \o t) = SpeechOf(s) \o SpeechOf(t)
<1> DEFINE u == s \o t
           I == {i \in 1..Len(s) : s[i] # Padding}
           J == {i \in 1..Len(t) : t[i] # Padding}
           K == {i \in 1..Len(u) : u[i] # Padding}
<1>1. /\ u \in Seq(Sample) /\ Len(u) = Len(s) + Len(t)
      /\ \A i \in 1..Len(s) + Len(t) : u[i] = IF i <= Len(s) THEN s[i] ELSE t[i - Len(s)]
      /\ Len(s) \in Nat /\ Len(t) \in Nat
  BY ConcatProperties, LenProperties
<1> HIDE DEF u
<1>2. ASSUME NEW i \in I PROVE i \in K
  <2>1. i \in 1..Len(u) /\ u[i] = s[i]
    BY <1>1
  <2> QED BY <2>1
<1>3. ASSUME NEW j \in J PROVE Len(s) + j \in K
  <2>1. Len(s) + j \in 1..Len(u) /\ u[Len(s) + j] = t[j]
    <3>1. Len(s) + j \in 1..Len(s) + Len(t) /\ ~(Len(s) + j <= Len(s)) /\ Len(s) + j - Len(s) = j
      BY <1>1
    <3> QED BY <1>1, <3>1
  <2> QED BY <2>1
<1>4. ASSUME NEW i \in K PROVE i \in I \/ \E j \in J : i = Len(s) + j
  <2>1. CASE i <= Len(s)
    BY <1>1, <2>1
  <2>2. CASE ~(i <= Len(s))
    <3>1. i - Len(s) \in 1..Len(t) /\ i = Len(s) + (i - Len(s)) /\ u[i] = t[i - Len(s)]
      BY <1>1, <2>2
    <3>2. i - Len(s) \in J
      BY <3>1
    <3> QED BY <3>1, <3>2
  <2> QED BY <2>1, <2>2
<1>5. \A i : i \in K <=> (i \in I \/ \E j \in J : i = Len(s) + j)
  BY <1>2, <1>3, <1>4
<1>6. I \in SUBSET (1..Len(s)) /\ J \in SUBSET (1..Len(t))
  OBVIOUS
<1>7. At(s \o t, K) = At(s, I) \o At(t, J)
  <2>1. /\ I \in SUBSET (1..Len(s)) /\ J \in SUBSET (1..Len(t))
        /\ s \in Seq(Sample) /\ t \in Seq(Sample)
    BY <1>6
  <2>2. \A i : i \in K <=> (i \in I \/ \E j \in J : i = Len(s) + j)
    BY <1>5
  <2> HIDE DEF I, J, K
  <2> QED BY ONLY <2>1, <2>2, AtConcat, SMTT(30)
<1>8. SpeechOf(u) = At(u, K) /\ SpeechOf(s) = At(s, I) /\ SpeechOf(t) = At(t, J)
  BY DEF SpeechOf
<1> QED BY <1>1, <1>7, <1>8 DEF u

\* What has been pushed has gone through the decoder live or is ahead of it.
Spoken == live \in Seq(Sample) /\ (pc # "new" => pushed = live \o Unheard)

\* Of what is pushed all is speech.
LEMMA SamplesAreSpeech ==
  ASSUME pushed \in Seq(Sample), NEW g \in Nat, NEW n \in Nat
  PROVE  Samples(g, n) \in Seq(Sample) /\ SpeechOf(Samples(g, n)) = Samples(g, n)
<1> DEFINE s == Samples(g, n)
<1>1. Len(pushed) \in Nat
  BY LenProperties
<1>2. s \in Seq(Sample) /\ Len(s) = n /\ \A i \in 1..n : s[i].number = Len(pushed) + i
  BY <1>1 DEF Samples, Sample
<1> HIDE DEF s
<1>3. ASSUME NEW i \in 1..n PROVE s[i] # Padding
  <2>1. s[i].number # 0
    BY <1>1, <1>2
  <2>2. Padding.number = 0
    BY DEF Padding
  <2> QED BY <2>1, <2>2
<1>4. SpeechOf(s) = s
  BY <1>2, <1>3, SpeechList
<1> QED BY <1>2, <1>4 DEF s

\* With nothing consumed everything is ahead.
LEMMA AllAhead ==
  ASSUME NEW s \in Seq(Sample) PROVE SubSeq(s, 0 + 1, Len(s)) = s
BY SubSeqFull

\* A frame goes to the end of both.
LEMMA SpokenGrows ==
  ASSUME Spoken, pc # "new", asr_buffer \in Seq(Sample), pushed \in Seq(Sample),
         asr_consumed = 0, asr_consumed' = 0, live' = live,
         NEW f \in Seq(Sample), SpeechOf(f) = f, NEW t \in Seq(Sample), SpeechOf(t) = <<>>,
         pushed' = pushed \o f, asr_buffer' = (asr_buffer \o f) \o t
  PROVE  Spoken'
<1>1. Unheard = SpeechOf(asr_buffer)
  BY AllAhead DEF Unheard
<1>2. asr_buffer \o f \in Seq(Sample) /\ (asr_buffer \o f) \o t \in Seq(Sample)
  BY SpeechConcat
<1>3. Unheard' = SpeechOf((asr_buffer \o f) \o t)
  BY <1>2, AllAhead DEF Unheard
<1>4. SpeechOf((asr_buffer \o f) \o t) = (SpeechOf(asr_buffer) \o f) \o <<>>
  <2>1. SpeechOf(asr_buffer \o f) = SpeechOf(asr_buffer) \o SpeechOf(f)
    BY SpeechConcat
  <2> DEFINE c == asr_buffer \o f
  <2>2. c \in Seq(Sample)
    BY <1>2
  <2> HIDE DEF c
  <2>3. SpeechOf(c \o t) = SpeechOf(c) \o SpeechOf(t)
    BY <2>2, SpeechConcat
  <2> QED BY <2>1, <2>3 DEF c
<1>5. SpeechOf(asr_buffer) \in Seq(Sample) /\ live \in Seq(Sample) /\ pushed = live \o SpeechOf(asr_buffer)
  BY <1>1, SpeechList DEF Spoken
<1> DEFINE b == SpeechOf(asr_buffer)
<1> HIDE DEF b
<1>6. (b \o f) \o <<>> = b \o f
  <2>1. b \o f \in Seq(Sample)
    BY <1>5, SpeechConcat DEF b
  <2> QED BY <2>1, ConcatEmptySeq
<1>7. (live \o b) \o f = live \o (b \o f)
  <2>1. b \in Seq(Sample) /\ live \in Seq(Sample) /\ f \in Seq(Sample)
    BY <1>5 DEF b
  <2> QED BY ONLY <2>1, ConcatAssociative, SMTT(30)
<1>8. pushed' = live' \o Unheard'
  BY <1>3, <1>4, <1>5, <1>6, <1>7 DEF b
<1> QED BY <1>5, <1>8 DEF Spoken

\* No samples, no speech.
LEMMA SpeechNothing == <<>> \in Seq(Sample) /\ SpeechOf(<<>>) = <<>>
<1>1. <<>> \in Seq(Sample) /\ \A i \in 1..Len(<<>>) : <<>>[i] = Padding
  <2>1. Len(<<>>) = 0 /\ 1..0 = {}
    OBVIOUS
  <2> QED BY <2>1
<1> DEFINE s == <<>>
<1> HIDE DEF s
<1>2. s \in Seq(Sample) /\ \A i \in 1..Len(s) : s[i] = Padding
  BY <1>1 DEF s
<1>3. SpeechOf(s) = <<>>
  BY <1>2, SpeechList
<1> QED BY <1>1, <1>3 DEF s

\* Where nothing is pushed or heard, and what is ahead stays.
LEMMA SpokenStays ==
  ASSUME Spoken, pushed' = pushed, live' = live, Unheard' = Unheard, pc' # "new" => pc # "new"
  PROVE  Spoken'
BY DEF Spoken

\* The VAD stage adds the same speech to both.
LEMMA SpokenFrames ==
  ASSUME IInv, Spoken, SpeechStart \/ SpeechFrame \/ SpeechEnd
  PROVE  Spoken'
<1>1. /\ asr_buffer \in Seq(Sample) /\ pushed \in Seq(Sample) /\ asr_consumed = 0
      /\ FrameSize \in Nat /\ segment \in Nat /\ pc = "frames"
      /\ asr_consumed' = asr_consumed /\ live' = live
  BY NemotronAssumption
     DEF IInv, Shape, ResetsInOrder, SpeechStart, SpeechFrame, SpeechEnd, Push, Stage, record
<1>2. ASSUME NEW g \in Nat, NEW n \in Nat, NEW t \in Seq(Sample), SpeechOf(t) = <<>>,
             pushed' = pushed \o Samples(g, n), asr_buffer' = (asr_buffer \o Samples(g, n)) \o t
      PROVE  Spoken'
  <2> DEFINE f == Samples(g, n)
  <2>1. f \in Seq(Sample) /\ SpeechOf(f) = f
    BY <1>1, SamplesAreSpeech
  <2>2. pushed' = pushed \o f /\ asr_buffer' = (asr_buffer \o f) \o t
    BY <1>2
  <2> HIDE DEF f
  <2> QED BY <1>1, <1>2, <2>1, <2>2, SpokenGrows
<1>3. ASSUME NEW g \in Nat, NEW n \in Nat, Push(g, n) PROVE Spoken'
  <2> DEFINE f == Samples(g, n)
  <2>1. f \in Seq(Sample)
    BY <1>1, SamplesAreSpeech
  <2>2. asr_buffer' = asr_buffer \o f /\ pushed' = pushed \o f
    BY <1>3 DEF Push
  <2> HIDE DEF f
  <2>3. asr_buffer \o f \in Seq(Sample)
    BY <1>1, <2>1, SpeechConcat
  <2>4. (asr_buffer \o f) \o <<>> = asr_buffer \o f
    BY <2>3, ConcatEmptySeq
  <2>5. <<>> \in Seq(Sample) /\ SpeechOf(<<>>) = <<>>
    BY SpeechNothing
  <2> QED BY <1>2, <2>2, <2>4, <2>5 DEF f
<1>4. CASE SpeechStart
  <2>1. PICK pre \in PreSpeech : Push(segment', pre + FrameSize)
    BY <1>4 DEF SpeechStart
  <2>2. segment' \in Nat /\ pre + FrameSize \in Nat
    BY <1>1, <1>4, NemotronAssumption DEF SpeechStart
  <2> DEFINE n == pre + FrameSize
  <2>3. PICK g \in Nat : g = segment'
    BY <2>2
  <2>4. n \in Nat /\ Push(g, n)
    BY <2>1, <2>2, <2>3 DEF Push, Samples
  <2> QED BY <1>3, <2>4
<1>5. CASE SpeechFrame
  BY <1>1, <1>3, <1>5 DEF SpeechFrame
<1>6. CASE SpeechEnd
  <2> DEFINE f == Samples(segment, FrameSize)
             b == asr_buffer \o f
             k == (ChunkSize - (Len(b) % ChunkSize)) % ChunkSize
             t == [i \in 1..k |-> Padding]
  <2>1. pushed' = pushed \o f /\ asr_buffer' = b \o t
    BY <1>6 DEF SpeechEnd, PadToChunkBoundary
  <2>2. k \in Nat
    <3>1. b \in Seq(Sample)
      BY <1>1, SamplesAreSpeech, SpeechConcat
    <3> HIDE DEF b
    <3>2. Len(b) % ChunkSize \in 0..(ChunkSize - 1)
      BY <3>1, NemotronAssumption
    <3> DEFINE r == Len(b) % ChunkSize
    <3> HIDE DEF r
    <3>3. (ChunkSize - r) % ChunkSize \in Nat
      BY <3>2, NemotronAssumption DEF r
    <3> QED BY <3>3 DEF r
  <2> HIDE DEF k
  <2>3. t \in Seq(Sample) /\ Len(t) = k /\ \A i \in 1..k : t[i] = Padding
    BY <2>2 DEF Padding, Sample
  <2> HIDE DEF t
  <2>4. SpeechOf(t) = <<>>
    BY <2>3, SpeechList
  <2> QED BY <1>1, <1>2, <2>1, <2>3, <2>4
<1> QED BY <1>4, <1>5, <1>6

\* A chunk takes from what is ahead what it adds to what has been heard.
LEMMA SpokenChunk == ASSUME IInv, Spoken, Chunk PROVE Spoken'
<1> DEFINE a == SubSeq(asr_buffer, asr_consumed + 1, AfterChunk)
           b == SubSeq(asr_buffer, AfterChunk + 1, Len(asr_buffer))
<1>1. /\ asr_buffer \in Seq(Sample) /\ asr_consumed \in Nat /\ AfterChunk \in Nat
      /\ asr_consumed <= AfterChunk /\ AfterChunk <= Len(asr_buffer)
      /\ asr_consumed' = AfterChunk /\ asr_buffer' = asr_buffer /\ pushed' = pushed
      /\ live' = live \o SpeechOf(a) /\ pc = "chunks"
  BY NemotronAssumption DEF IInv, Shape, Chunk, AfterChunk
<1>2. /\ a \in Seq(Sample) /\ b \in Seq(Sample)
      /\ SubSeq(asr_buffer, asr_consumed + 1, Len(asr_buffer)) = a \o b
  BY <1>1, Split, ZenonT(40)
<1>3. Unheard = SpeechOf(a \o b) /\ Unheard' = SpeechOf(b)
  BY <1>1, <1>2 DEF Unheard
<1> HIDE DEF a, b
<1> DEFINE x == SpeechOf(a)
           y == SpeechOf(b)
<1>4. x \in Seq(Sample) /\ y \in Seq(Sample) /\ SpeechOf(a \o b) = x \o y
  BY <1>2, SpeechConcat, SpeechList
<1>5. live \in Seq(Sample) /\ pushed = live \o (x \o y)
  BY <1>1, <1>3, <1>4 DEF Spoken
<1>6. live' = live \o x /\ Unheard' = y
  BY <1>1, <1>3
<1> HIDE DEF x, y
<1>7. (live \o x) \o y = live \o (x \o y) /\ live \o x \in Seq(Sample)
  BY <1>4, <1>5, ConcatAssociative, ConcatProperties, SMTT(30)
<1> QED BY <1>1, <1>5, <1>6, <1>7 DEF Spoken

\* What process leaves is moved to the front of the buffer and stays ahead.
LEMMA SpokenProcessEnds == ASSUME IInv, Spoken, ProcessEnds PROVE Spoken'
<1>1. /\ asr_buffer \in Seq(Sample) /\ asr_consumed \in 0..Len(asr_buffer)
      /\ asr_buffer' = SubSeq(asr_buffer, asr_consumed + 1, Len(asr_buffer)) /\ asr_consumed' = 0
      /\ pushed' = pushed /\ live' = live /\ pc = "chunks"
  BY DEF IInv, Shape, ProcessEnds, record
<1> DEFINE b == SubSeq(asr_buffer, asr_consumed + 1, Len(asr_buffer))
<1>2. b \in Seq(Sample)
  BY <1>1, Split
<1>3. Unheard = SpeechOf(b)
  BY DEF Unheard
<1>4. Unheard' = SpeechOf(SubSeq(b, 0 + 1, Len(b)))
  BY <1>1 DEF Unheard
<1> HIDE DEF b
<1>5. Unheard' = Unheard
  BY <1>2, <1>3, <1>4, AllAhead
<1> QED BY <1>1, <1>5, SpokenStays

\* A session begins with nothing pushed, heard or ahead.
LEMMA SpokenBegins == ASSUME BeginSession PROVE Spoken'
<1>1. asr_buffer' = <<>> /\ asr_consumed' = 0 /\ pushed' = <<>> /\ live' = <<>>
  BY DEF BeginSession
<1>2. <<>> \in Seq(Sample) /\ SpeechOf(<<>>) = <<>>
  BY SpeechNothing
<1>3. SubSeq(<<>>, 0 + 1, Len(<<>>)) = <<>>
  BY <1>2, AllAhead
<1>4. Unheard' = <<>>
  BY <1>1, <1>2, <1>3 DEF Unheard
<1>5. <<>> \o <<>> = <<>>
  BY <1>2, ConcatEmptySeq
<1> QED BY <1>1, <1>2, <1>4, <1>5 DEF Spoken

LEMMA SpokenStep == ASSUME IInv, Spoken, [Next]_vars PROVE Spoken'
<1>1. CASE UNCHANGED vars
  <2>1. Unheard' = Unheard /\ pushed' = pushed /\ live' = live /\ pc' = pc
    BY <1>1 DEF vars, buffer, record, Unheard
  <2> QED BY <2>1, SpokenStays
<1>2. CASE UpdateSettings \/ ProcessStarts \/ EndSession
  <2>1. /\ asr_consumed' = asr_consumed /\ asr_buffer' = asr_buffer
        /\ pushed' = pushed /\ live' = live /\ pc = "frames"
    BY <1>2 DEF UpdateSettings, ProcessStarts, EndSession, buffer, record, IInv, ResetsInOrder
  <2>2. Unheard' = Unheard
    BY <2>1 DEF Unheard
  <2> QED BY <2>1, <2>2, SpokenStays
<1> QED BY <1>1, <1>2, SpokenFrames, SpokenChunk, SpokenProcessEnds, SpokenBegins DEF Next
-------------------------------------------------------------------------------
(***************************************************************************)
(* The texts shown: while the count of empty chunks is e, the last e       *)
(* chunks in the replay buffer are later than every text.                  *)
(***************************************************************************)
Rising(m) == \A i, j \in 1..Len(m) : i < j => m[i] < m[j]
ChunksInOrder(c) == \A i, j \in 1..Len(c) : i < j => c[i].id < c[j].id
Unshown(e, c, m) == \A i \in 1..Len(c) : i > Len(c) - e => \A k \in 1..Len(m) : m[k] < c[i].id

Texts(e, p, m, n) ==
  /\ e \in Nat /\ p \in ReplayBuffer /\ m \in Seq(Nat)
  /\ Len(p.chunks) <= p.max_chunks
  /\ Rising(m) /\ \A k \in 1..Len(m) : m[k] <= n
  /\ ChunksInOrder(p.chunks) /\ \A i \in 1..Len(p.chunks) : p.chunks[i].id <= n
  /\ Unshown(e, p.chunks, m)

\* The types that come with it.
LEMMA TextsTypes ==
  ASSUME NEW e, NEW p, NEW m, NEW n, Texts(e, p, m, n)
  PROVE  /\ e \in Nat /\ p.chunks \in Seq(ChunkSet) /\ p.max_chunks \in Nat /\ m \in Seq(Nat)
         /\ Len(p.chunks) \in Nat /\ Len(m) \in Nat
         /\ \A i \in 1..Len(p.chunks) : /\ p.chunks[i] \in ChunkSet /\ p.chunks[i].id \in Nat
                                        /\ p.chunks[i].id <= n
         /\ \A k \in 1..Len(m) : m[k] \in Nat /\ m[k] <= n
<1>1. e \in Nat /\ p.chunks \in Seq(ChunkSet) /\ p.max_chunks \in Nat /\ m \in Seq(Nat)
  BY DEF Texts, ReplayBuffer
<1>2. Len(p.chunks) \in Nat /\ Len(m) \in Nat
  BY <1>1, LenProperties
<1>3. \A i \in 1..Len(p.chunks) : p.chunks[i] \in ChunkSet
  BY <1>1, ElementOfSeq
<1>4. \A i \in 1..Len(p.chunks) : p.chunks[i].id \in Nat
  BY <1>3 DEF ChunkSet
<1>5. \A k \in 1..Len(m) : m[k] \in Nat
  BY <1>1, ElementOfSeq
<1> QED BY <1>1, <1>2, <1>3, <1>4, <1>5 DEF Texts

\* What Newest keeps, by position.
LEMMA NewestIs ==
  ASSUME NEW s \in Seq(ChunkSet), NEW n \in Nat
  PROVE  LET t == Newest(s, n)
         IN  /\ t \in Seq(ChunkSet) /\ Len(t) <= n /\ Len(t) <= Len(s)
             /\ \A i \in 1..Len(t) : /\ i + (Len(s) - Len(t)) \in 1..Len(s)
                                    /\ t[i] = s[i + (Len(s) - Len(t))]
<1> DEFINE m == Max({1, Len(s) - n + 1})
           t == SubSeq(s, m, Len(s))
<1>1. Len(s) \in Nat /\ m = IF 1 >= Len(s) - n + 1 THEN 1 ELSE Len(s) - n + 1
  BY MaxOfTwo
<1> HIDE DEF m
<1>2. m \in Nat /\ 1 <= m /\ m <= Len(s) + 1 /\ Len(s) + 1 - m <= n
  BY <1>1
<1>3. /\ t \in Seq(ChunkSet) /\ Len(t) = IF m <= Len(s) THEN Len(s) - m + 1 ELSE 0
      /\ \A i \in 1..(Len(s) - m + 1) : t[i] = s[m + i - 1]
  <2>1. \A i \in m..Len(s) : s[i] \in ChunkSet
    BY <1>2
  <2> QED BY <1>2, <2>1, SubSeqProperties
<1> HIDE DEF t
<1>4. Len(t) = Len(s) + 1 - m
  <2>1. CASE m <= Len(s)
    <3>1. Len(t) = Len(s) - m + 1
      BY <1>3, <2>1
    <3> QED BY <1>1, <1>2, <3>1
  <2>2. CASE ~(m <= Len(s))
    <3>1. Len(t) = 0 /\ m = Len(s) + 1
      BY <1>1, <1>2, <1>3, <2>2
    <3> QED BY <1>1, <3>1
  <2> QED BY <2>1, <2>2
<1>5. ASSUME NEW i \in 1..Len(t)
      PROVE  i + (Len(s) - Len(t)) \in 1..Len(s) /\ t[i] = s[i + (Len(s) - Len(t))]
  <2>1. /\ i \in 1..(Len(s) - m + 1) /\ m + i - 1 = i + (Len(s) - Len(t))
        /\ i + (Len(s) - Len(t)) \in 1..Len(s)
    BY <1>1, <1>2, <1>4
  <2> QED BY <1>3, <2>1
<1>6. Len(t) <= n /\ Len(t) <= Len(s)
  BY <1>1, <1>2, <1>4
<1> QED BY <1>3, <1>5, <1>6 DEF Newest, t, m

\* The newest of a list keep their order, and those that are later than every text.
LEMMA NewestInOrder ==
  ASSUME NEW s \in Seq(ChunkSet), NEW n \in Nat, NEW e \in Nat, NEW m, ChunksInOrder(s),
         Unshown(e, s, m)
  PROVE  ChunksInOrder(Newest(s, n)) /\ Unshown(e, Newest(s, n), m)
<1> DEFINE t == Newest(s, n)
           k == Len(s) - Len(t)
<1>1. /\ t \in Seq(ChunkSet) /\ Len(t) \in Nat /\ Len(s) \in Nat /\ k \in Nat
      /\ Len(s) = Len(t) + k
      /\ \A i \in 1..Len(t) : i + k \in 1..Len(s) /\ t[i] = s[i + k]
  BY NewestIs
<1> HIDE DEF t, k
<1>2. ASSUME NEW i \in 1..Len(t), NEW j \in 1..Len(t), i < j PROVE t[i].id < t[j].id
  <2>1. i + k < j + k
    BY <1>1, <1>2
  <2> QED BY <1>1, <2>1 DEF ChunksInOrder
<1>3. ASSUME NEW i \in 1..Len(t), i > Len(t) - e, NEW x \in 1..Len(m) PROVE m[x] < t[i].id
  <2>1. i + k > Len(s) - e
    BY <1>1, <1>3
  <2> QED BY <1>1, <1>3, <2>1 DEF Unshown
<1> QED BY <1>2, <1>3 DEF ChunksInOrder, Unshown, t

\* A hot reload keeps the newest chunks, in order.
LEMMA TextsTrimmed ==
  ASSUME NEW e, NEW p, NEW m, NEW n, Texts(e, p, m, n), NEW x \in Nat, n \in Nat
  PROVE  Texts(e, [chunks |-> Newest(p.chunks, x), max_chunks |-> x], m, n)
<1> DEFINE t == Newest(p.chunks, x)
<1>1. p.chunks \in Seq(ChunkSet) /\ e \in Nat
  BY DEF Texts, ReplayBuffer
<1>2. /\ t \in Seq(ChunkSet) /\ Len(t) <= x
      /\ ChunksInOrder(t) /\ Unshown(e, t, m)
  BY <1>1, NewestIs, NewestInOrder DEF Texts
<1>3. \A i \in 1..Len(t) : t[i].id <= n
  BY <1>1, NewestIs DEF Texts
<1> HIDE DEF t
<1> DEFINE q == [chunks |-> t, max_chunks |-> x]
<1>4. q \in ReplayBuffer /\ q.chunks = t /\ q.max_chunks = x
  BY <1>2 DEF ReplayBuffer
<1> HIDE DEF q
<1>5. Texts(e, q, m, n)
  BY <1>2, <1>3, <1>4 DEF Texts
<1> QED BY <1>5 DEF q, t

\* A cleared buffer holds nothing, shown or not.
LEMMA TextsEmptied ==
  ASSUME NEW e, NEW p, NEW m, NEW n, Texts(e, p, m, n), NEW x \in Nat, NEW d \in Nat
  PROVE  Texts(d, NewReplay(x), m, n)
<1>1. NewReplay(x) \in ReplayBuffer /\ NewReplay(x).chunks = <<>> /\ NewReplay(x).max_chunks = x
  <2>1. <<>> \in Seq(ChunkSet)
    OBVIOUS
  <2> QED BY <2>1 DEF NewReplay, ReplayBuffer
<1>2. ChunksInOrder(<<>>) /\ Unshown(d, <<>>, m) /\ Len(<<>>) = 0 /\ 1..0 = {}
  BY DEF ChunksInOrder, Unshown
<1> DEFINE q == NewReplay(x)
<1> HIDE DEF q
<1>3. Texts(d, q, m, n)
  BY <1>1, <1>2 DEF Texts, q
<1> QED BY <1>3 DEF q

\* A chunk more, which is later than every text; those before it are no less unshown.
LEMMA TextsPushed ==
  ASSUME NEW e, NEW p, NEW m, NEW n \in Nat, Texts(e, p, m, n),
         NEW chunk \in ChunkSet, chunk.id = n + 1
  PROVE  /\ Texts(e + 1, ReplayPush(p, chunk), m, n + 1)
         /\ ReplayPush(p, chunk).max_chunks = p.max_chunks
<1> DEFINE c == p.chunks
           s == Append(c, chunk)
           x == p.max_chunks
<1>1. /\ c \in Seq(ChunkSet) /\ e \in Nat /\ x \in Nat /\ m \in Seq(Nat) /\ Rising(m)
      /\ ChunksInOrder(c) /\ Unshown(e, c, m) /\ Len(c) \in Nat
      /\ \A i \in 1..Len(c) : c[i] \in ChunkSet /\ c[i].id \in Nat /\ c[i].id <= n
      /\ \A k \in 1..Len(m) : m[k] \in Nat /\ m[k] <= n
  BY TextsTypes DEF Texts
<1>2. /\ s \in Seq(ChunkSet) /\ Len(s) = Len(c) + 1
      /\ \A i \in 1..Len(c) : s[i] = c[i]
      /\ s[Len(c) + 1] = chunk
  BY <1>1
<1>3. ReplayPush(p, chunk) = [chunks |-> Newest(s, x), max_chunks |-> x]
  BY DEF ReplayPush, Texts, ReplayBuffer
<1> HIDE DEF c, s, x
<1>4. \A i \in 1..Len(s) : i \in 1..Len(c) \/ i = Len(c) + 1
  BY <1>1, <1>2
<1>5. ChunksInOrder(s)
  <2>1. ASSUME NEW i \in 1..Len(s), NEW j \in 1..Len(s), i < j PROVE s[i].id < s[j].id
    <3>1. i \in 1..Len(c)
      BY <1>1, <1>2, <2>1
    <3>2. CASE j \in 1..Len(c)
      BY <1>1, <1>2, <2>1, <3>1, <3>2 DEF ChunksInOrder
    <3>3. CASE j = Len(c) + 1
      BY <1>1, <1>2, <3>1, <3>3
    <3> QED BY <1>4, <3>2, <3>3
  <2> QED BY <2>1 DEF ChunksInOrder
<1>6. Unshown(e + 1, s, m)
  <2>1. ASSUME NEW i \in 1..Len(s), i > Len(s) - (e + 1), NEW k \in 1..Len(m)
        PROVE  m[k] < s[i].id
    <3>1. CASE i \in 1..Len(c)
      <4>1. i > Len(c) - e
        BY <1>1, <1>2, <2>1
      <4> QED BY <1>1, <1>2, <2>1, <3>1, <4>1 DEF Unshown
    <3>2. CASE i = Len(c) + 1
      BY <1>1, <1>2, <2>1, <3>2
    <3> QED BY <1>4, <3>1, <3>2
  <2> QED BY <2>1 DEF Unshown
<1>7. \A i \in 1..Len(s) : s[i].id <= n + 1
  <2> TAKE i \in 1..Len(s)
  <2>1. CASE i \in 1..Len(c)
    BY <1>1, <1>2, <2>1
  <2>2. CASE i = Len(c) + 1
    BY <1>2, <2>2
  <2> QED BY <1>4, <2>1, <2>2
<1> DEFINE q == [chunks |-> s, max_chunks |-> Len(s)]
<1>8. q \in ReplayBuffer /\ q.chunks = s /\ q.max_chunks = Len(s) /\ Len(s) <= Len(s)
  BY <1>1, <1>2 DEF ReplayBuffer
<1>9. \A k \in 1..Len(m) : m[k] <= n + 1
  BY <1>1
<1> HIDE DEF q
<1>10. Texts(e + 1, q, m, n + 1)
  BY <1>1, <1>5, <1>6, <1>7, <1>8, <1>9 DEF Texts
<1>11. Texts(e + 1, [chunks |-> Newest(s, x), max_chunks |-> x], m, n + 1)
  <2>1. x \in Nat /\ n + 1 \in Nat /\ e + 1 \in Nat
    BY <1>1
  <2>2. Texts(e + 1, [chunks |-> Newest(q.chunks, x), max_chunks |-> x], m, n + 1)
    BY <1>10, <2>1, TextsTrimmed
  <2> QED BY <1>8, <2>2
<1> QED BY <1>3, <1>11 DEF x

\* A chunk that is not remembered, while the user pauses.
LEMMA TextsLater ==
  ASSUME NEW e, NEW p, NEW m, NEW n \in Nat, Texts(e, p, m, n)
  PROVE  Texts(e, p, m, n + 1)
<1>1. /\ \A i \in 1..Len(p.chunks) : p.chunks[i].id \in Nat /\ p.chunks[i].id <= n
      /\ \A k \in 1..Len(m) : m[k] \in Nat /\ m[k] <= n
  BY TextsTypes
<1>2. /\ \A i \in 1..Len(p.chunks) : p.chunks[i].id <= n + 1
      /\ \A k \in 1..Len(m) : m[k] <= n + 1
  BY <1>1
<1> QED BY <1>2 DEF Texts

\* A smaller count claims less.
LEMMA TextsLess ==
  ASSUME NEW e, NEW p, NEW m, NEW n, Texts(e, p, m, n), NEW d \in Nat, d <= e
  PROVE  Texts(d, p, m, n)
<1>1. e \in Nat /\ Len(p.chunks) \in Nat
  BY DEF Texts, ReplayBuffer
<1>2. Unshown(d, p.chunks, m)
  <2>1. \A i \in 1..Len(p.chunks) : i > Len(p.chunks) - d => i > Len(p.chunks) - e
    BY <1>1
  <2> QED BY <2>1 DEF Texts, Unshown
<1> QED BY <1>2 DEF Texts

\* Text of the newest chunk of all.
LEMMA TextsText ==
  ASSUME NEW e, NEW p, NEW m, NEW n \in Nat, Texts(e, p, m, n + 1),
         \A k \in 1..Len(m) : m[k] <= n
  PROVE  Texts(0, p, Append(m, n + 1), n + 1)
<1> DEFINE t == Append(m, n + 1)
<1>1. m \in Seq(Nat) /\ Len(m) \in Nat /\ Len(p.chunks) \in Nat /\ \A k \in 1..Len(m) : m[k] \in Nat
  BY DEF Texts, ReplayBuffer
<1>2. /\ t \in Seq(Nat) /\ Len(t) = Len(m) + 1
      /\ \A k \in 1..Len(m) : t[k] = m[k]
      /\ t[Len(m) + 1] = n + 1
  BY <1>1
<1> HIDE DEF t
<1>3. \A k \in 1..Len(t) : k \in 1..Len(m) \/ k = Len(m) + 1
  BY <1>1, <1>2
<1>4. Rising(t)
  <2>1. ASSUME NEW i \in 1..Len(t), NEW j \in 1..Len(t), i < j PROVE t[i] < t[j]
    <3>1. i \in 1..Len(m)
      BY <1>1, <1>2, <2>1
    <3>2. CASE j \in 1..Len(m)
      BY <1>2, <2>1, <3>1, <3>2 DEF Texts, Rising
    <3>3. CASE j = Len(m) + 1
      BY <1>1, <1>2, <3>1, <3>3, SMTT(30)
    <3> QED BY <1>3, <3>2, <3>3
  <2> QED BY <2>1 DEF Rising
<1>5. \A k \in 1..Len(t) : t[k] <= n + 1
  BY <1>1, <1>2, <1>3, SMTT(30) DEF Texts
<1>6. Unshown(0, p.chunks, t)
  BY <1>1 DEF Unshown
<1>7. Texts(0, p, t, n + 1)
  BY <1>2, <1>4, <1>5, <1>6 DEF Texts
<1> QED BY <1>7 DEF t

\* The texts of a replay are later than every text before, for the chunks were all empty.
LEMMA TextsReplayed ==
  ASSUME NEW e, NEW p, NEW m, NEW n \in Nat, Texts(e, p, m, n), e >= Len(p.chunks), NEW texts
  PROVE  Texts(0, NewReplay(p.max_chunks), m \o WithText(p.chunks, texts), n)
<1> DEFINE c == p.chunks
           ids == [i \in 1..Len(c) |-> c[i].id]
           I == {i \in 1..Len(c) : c[i].id \in texts}
           w == At(ids, I)
           a == Cardinality(I)
           u == m \o w
<1>1. /\ e \in Nat /\ m \in Seq(Nat) /\ Rising(m) /\ ChunksInOrder(c) /\ Unshown(e, c, m)
      /\ Len(c) \in Nat /\ p.max_chunks \in Nat
      /\ \A i \in 1..Len(c) : c[i].id \in Nat /\ c[i].id <= n
      /\ \A k \in 1..Len(m) : m[k] \in Nat /\ m[k] <= n
  BY TextsTypes DEF Texts
<1>2. WithText(c, texts) = w
  BY DEF WithText
<1> HIDE DEF c
<1>3. ids \in Seq(Nat) /\ Len(ids) = Len(c) /\ \A i \in 1..Len(c) : ids[i] = c[i].id
  BY <1>1
<1> HIDE DEF ids
<1>4. I \in SUBSET (1..Len(ids)) /\ I \subseteq Int /\ I \subseteq 1..Len(c)
  BY <1>3
<1> HIDE DEF I
<1>5. /\ IsFiniteSet(I) /\ a \in Nat /\ w \in Seq(Nat) /\ Len(w) = a
      /\ \A k \in 1..a : Ascending(I)[k] \in I /\ w[k] = ids[Ascending(I)[k]]
  BY <1>3, <1>4, AtList
<1>6. \A k, l \in 1..a : k < l => Ascending(I)[k] < Ascending(I)[l]
  BY <1>4, <1>5, AscendingList
<1> HIDE DEF w, a
<1>7. \A k \in 1..a : Ascending(I)[k] \in 1..Len(c) /\ w[k] = c[Ascending(I)[k]].id
  BY <1>3, <1>4, <1>5
<1>8. ASSUME NEW k \in 1..a PROVE w[k] \in Nat /\ w[k] <= n
  BY <1>1, <1>7
<1>9. ASSUME NEW k \in 1..a, NEW l \in 1..a, k < l PROVE w[k] < w[l]
  BY <1>6, <1>7, <1>9, <1>1 DEF ChunksInOrder
<1>10. ASSUME NEW x \in 1..Len(m), NEW k \in 1..a PROVE m[x] < w[k]
  <2>1. Ascending(I)[k] > Len(c) - e
    <3>1. Ascending(I)[k] \in 1..Len(c)
      BY <1>7
    <3>2. e >= Len(c)
      BY DEF c
    <3> QED BY <1>1, <3>1, <3>2
  <2> QED BY <1>1, <1>7, <2>1 DEF Unshown
<1>11. /\ u \in Seq(Nat) /\ Len(m) \in Nat /\ Len(u) = Len(m) + a
       /\ \A i \in 1..Len(m) + a : u[i] = IF i <= Len(m) THEN m[i] ELSE w[i - Len(m)]
  <2>1. m \in Seq(Nat) /\ w \in Seq(Nat) /\ Len(w) = a
    BY <1>1, <1>5
  <2> QED BY ONLY <2>1, ConcatProperties, LenProperties
<1> HIDE DEF u
<1>12. ASSUME NEW i \in 1..Len(u)
       PROVE  \/ i \in 1..Len(m) /\ u[i] = m[i]
              \/ i - Len(m) \in 1..a /\ i > Len(m) /\ u[i] = w[i - Len(m)]
  <2>1. i \in 1..Len(m) + a /\ a \in Nat /\ Len(m) \in Nat
    BY <1>5, <1>11
  <2>2. CASE i <= Len(m)
    BY <1>11, <2>1, <2>2
  <2>3. CASE ~(i <= Len(m))
    BY <1>11, <2>1, <2>3
  <2> QED BY <2>2, <2>3
<1>13. Rising(u)
  <2>1. ASSUME NEW i \in 1..Len(u), NEW j \in 1..Len(u), i < j PROVE u[i] < u[j]
    <3>1. CASE i \in 1..Len(m) /\ u[i] = m[i] /\ j \in 1..Len(m) /\ u[j] = m[j]
      BY <1>1, <2>1, <3>1 DEF Rising
    <3>2. CASE i \in 1..Len(m) /\ u[i] = m[i] /\ j - Len(m) \in 1..a /\ u[j] = w[j - Len(m)]
      BY <1>10, <3>2
    <3>3. CASE /\ i - Len(m) \in 1..a /\ u[i] = w[i - Len(m)]
               /\ j - Len(m) \in 1..a /\ u[j] = w[j - Len(m)]
      <4>1. i - Len(m) < j - Len(m)
        BY <1>11, <2>1
      <4> QED BY <1>9, <3>3, <4>1
    <3>4. ~(i > Len(m) /\ j \in 1..Len(m))
      BY <1>11, <2>1
    <3> QED BY <1>12, <3>1, <3>2, <3>3, <3>4
  <2> QED BY <2>1 DEF Rising
<1>14. \A k \in 1..Len(u) : u[k] <= n
  BY <1>1, <1>8, <1>12
<1> DEFINE q == NewReplay(p.max_chunks)
<1>15. Texts(0, q, m, n)
  BY <1>1, TextsEmptied
<1>16. Unshown(0, q.chunks, u)
  BY DEF q, NewReplay, Unshown
<1> HIDE DEF q
<1>17. Texts(0, q, u, n)
  BY <1>11, <1>13, <1>14, <1>15, <1>16 DEF Texts
<1> QED BY <1>2, <1>17 DEF u, q, c

\* The texts while a chunk goes through the rules.
Told(r, n) ==
  \E e, p, h, m : /\ r = [empty |-> e, replay |-> p, decoder |-> h, emitted |-> m]
                  /\ Texts(e, p, m, n) /\ p.max_chunks <= empty_reset_threshold

TextsOK ==
  /\ punctuation_reset_enabled \in BOOLEAN /\ empty_reset_threshold \in Nat
  /\ Texts(consecutive_empty, replay_buffer, emitted, chunk_num)
  /\ replay_buffer.max_chunks <= empty_reset_threshold

LEMMA ToldParts ==
  ASSUME NEW r, NEW n, Told(r, n)
  PROVE  Texts(r.empty, r.replay, r.emitted, n) /\ r.replay.max_chunks <= empty_reset_threshold
BY DEF Told

\* A reset shows nothing and remembers nothing,
LEMMA ToldReset ==
  ASSUME NEW r, NEW n, Told(r, n)
  PROVE  Told(ResetDecoder(r), n)
<1>1. PICK e, p, h, m :
        /\ r = [empty |-> e, replay |-> p, decoder |-> h, emitted |-> m]
        /\ Texts(e, p, m, n) /\ p.max_chunks <= empty_reset_threshold
  BY DEF Told
<1> DEFINE q == NewReplay(p.max_chunks)
           x == [p EXCEPT !.chunks = <<>>]
<1>2. p \in ReplayBuffer /\ p.max_chunks \in Nat
  BY <1>1, TextsTypes DEF Texts
<1>3. x = q
  BY <1>2, Emptied
<1>4. Texts(0, q, m, n)
  BY <1>1, <1>2, TextsEmptied
<1>5. q.max_chunks = p.max_chunks
  BY DEF NewReplay
<1>6. ResetDecoder([empty |-> e, replay |-> p, decoder |-> h, emitted |-> m])
        = [empty |-> 0, replay |-> x, decoder |-> {}, emitted |-> m]
  BY ResetOfRules
<1> HIDE DEF q, x
<1>7. ResetDecoder(r) = [empty |-> 0, replay |-> q, decoder |-> {}, emitted |-> m]
  BY <1>1, <1>3, <1>6
<1> QED BY <1>1, <1>4, <1>5, <1>7 DEF Told

\* a chunk is later than every text, and its own text clears the count,
LEMMA ToldTranscribed ==
  ASSUME TextsOK, chunk_num \in Nat, NEW chunk \in ChunkSet, chunk.id = chunk_num + 1,
         NEW outcome \in Outcome
  PROVE  Told(Transcribed(Rules, chunk, outcome), chunk_num + 1)
<1> DEFINE n == chunk_num
           r == Transcribed(Rules, chunk, outcome)
           c == consecutive_empty
           e == IF outcome = "error" THEN c
                ELSE IF outcome = "empty" /\ vad_state = "speech" THEN c + 1 ELSE 0
           p == IF vad_state = "speech" THEN ReplayPush(replay_buffer, chunk) ELSE replay_buffer
           m == IF HasText(outcome) THEN Append(emitted, n + 1) ELSE emitted
<1>1. r = [empty |-> e, replay |-> p, decoder |-> decoder \cup Segments(chunk), emitted |-> m]
  BY DEF Transcribed, Rules
<1>2. /\ Texts(c, replay_buffer, emitted, n) /\ c \in Nat /\ n \in Nat
      /\ \A k \in 1..Len(emitted) : emitted[k] <= n
      /\ replay_buffer.max_chunks <= empty_reset_threshold
  BY TextsTypes DEF TextsOK, Texts
<1>3. /\ Texts(c + 1, ReplayPush(replay_buffer, chunk), emitted, n + 1)
      /\ ReplayPush(replay_buffer, chunk).max_chunks = replay_buffer.max_chunks
  BY <1>2, TextsPushed
<1>4. Texts(c, replay_buffer, emitted, n + 1)
  BY <1>2, TextsLater
<1> HIDE DEF n, c
<1>5. e \in Nat /\ (e <= c \/ (e <= c + 1 /\ vad_state = "speech"))
  BY <1>2
<1> HIDE DEF r, e
<1>6. Texts(e, p, emitted, n + 1) /\ p.max_chunks <= empty_reset_threshold
  <2>1. CASE vad_state = "speech"
    <3>1. e <= c + 1 /\ p = ReplayPush(replay_buffer, chunk)
      BY <1>2, <1>5, <2>1
    <3> HIDE DEF p
    <3>2. Texts(e, p, emitted, n + 1)
      BY <1>3, <1>5, <3>1, TextsLess
    <3> QED BY <1>2, <1>3, <3>1, <3>2
  <2>2. CASE vad_state # "speech"
    <3>1. e <= c /\ p = replay_buffer
      BY <1>5, <2>2
    <3> HIDE DEF p
    <3>2. Texts(e, p, emitted, n + 1)
      BY <1>4, <1>5, <3>1, TextsLess
    <3> QED BY <1>2, <3>1, <3>2
  <2> QED BY <2>1, <2>2
<1>7. Texts(e, p, m, n + 1)
  <2>1. CASE HasText(outcome)
    <3>1. e = 0 /\ m = Append(emitted, n + 1)
      BY <2>1 DEF HasText, e
    <3> HIDE DEF p, m
    <3> QED BY <1>2, <1>6, <3>1, TextsText
  <2>2. CASE ~HasText(outcome)
    BY <1>6, <2>2
  <2> QED BY <2>1, <2>2
<1> HIDE DEF p, m
<1>8. Told(r, n + 1)
  BY <1>1, <1>6, <1>7 DEF Told
<1> QED BY <1>8 DEF r, n

\* the reset at the end of a sentence is a reset,
LEMMA ToldSentence ==
  ASSUME NEW r, NEW n, Told(r, n), NEW outcome
  PROVE  Told(SentenceReset(r, outcome), n)
BY ToldReset DEF SentenceReset

\* and a replay comes when all the chunks in the buffer were empty.
LEMMA ToldReplayed ==
  ASSUME NEW r, NEW n \in Nat, Told(r, n), NEW outcome, MidSpeech(r, outcome),
         empty_reset_threshold \in Nat, NEW texts
  PROVE  Told(Replayed(r, texts), n)
<1>1. PICK e, p, h, m :
        /\ r = [empty |-> e, replay |-> p, decoder |-> h, emitted |-> m]
        /\ Texts(e, p, m, n) /\ p.max_chunks <= empty_reset_threshold
  BY DEF Told
<1> DEFINE p0 == NewReplay(p.max_chunks)
           k == SegmentsOf(p.chunks)
           more == WithText(p.chunks, texts)
           x == [p EXCEPT !.chunks = <<>>]
<1>2. p \in ReplayBuffer /\ p.max_chunks \in Nat /\ e \in Nat /\ Len(p.chunks) \in Nat
      /\ Len(p.chunks) <= p.max_chunks
  BY <1>1, TextsTypes DEF Texts
<1>3. x = p0 /\ p0.max_chunks = p.max_chunks
  BY <1>2, Emptied DEF NewReplay
<1>4. e >= empty_reset_threshold
  BY <1>1 DEF MidSpeech
<1>5. e >= Len(p.chunks)
  BY <1>1, <1>2, <1>4
<1>6. Texts(0, p0, m \o more, n)
  BY <1>1, <1>5, TextsReplayed
<1>7. ResetDecoder([empty |-> e, replay |-> p, decoder |-> h, emitted |-> m])
        = [empty |-> 0, replay |-> x, decoder |-> {}, emitted |-> m]
  BY ResetOfRules
<1> HIDE DEF x
<1> DEFINE r0 == [empty |-> 0, replay |-> p0, decoder |-> {}, emitted |-> m]
<1>8. Replayed(r, texts) = [[r0 EXCEPT !.decoder = k] EXCEPT !.emitted = @ \o more]
  BY <1>1, <1>3, <1>7 DEF Replayed
<1> HIDE DEF k, more, p0
<1>9. Replayed(r, texts) = [empty |-> 0, replay |-> p0, decoder |-> k, emitted |-> m \o more]
  BY <1>8
<1> QED BY <1>1, <1>3, <1>6, <1>9 DEF Told

\* A chunk, whichever rules it sets off.
LEMMA TextsChunk == ASSUME IInv, TextsOK, Chunk PROVE TextsOK'
<1> DEFINE chunk == [id      |-> chunk_num',
                     samples |-> SubSeq(asr_buffer, asr_consumed + 1, asr_consumed')]
<1>1. /\ pc = "chunks" /\ Len(asr_buffer) - asr_consumed >= ChunkSize
      /\ asr_consumed' = AfterChunk /\ chunk_num' = chunk_num + 1 /\ chunk_num \in Nat
      /\ punctuation_reset_enabled' = punctuation_reset_enabled
      /\ empty_reset_threshold' = empty_reset_threshold /\ empty_reset_threshold \in Nat
  BY DEF Chunk, AfterChunk, config, IInv, Shape, TextsOK
<1>2. chunk = [id |-> chunk_num + 1, samples |-> SubSeq(asr_buffer, asr_consumed + 1, AfterChunk)]
  BY <1>1
<1>3. PICK outcome \in Outcome :
        LET r == SentenceReset(Transcribed(Rules, chunk, outcome), outcome)
        IN  IF MidSpeech(r, outcome)
            THEN \E texts \in SUBSET {r.replay.chunks[i].id : i \in 1..Len(r.replay.chunks)} :
                   SpeechEndResets(Replayed(r, texts), asr_consumed')
            ELSE SpeechEndResets(r, asr_consumed')
  BY DEF Chunk
<1>4. chunk.id = chunk_num + 1
  BY <1>1
<1> HIDE DEF chunk
<1> DEFINE r == SentenceReset(Transcribed(Rules, chunk, outcome), outcome)
           n == chunk_num + 1
<1>5. chunk \in ChunkSet
  BY <1>1, <1>2, ChunkHeard
<1>6. Told(r, n) /\ n \in Nat
  BY <1>1, <1>4, <1>5, ToldTranscribed, ToldSentence
<1> HIDE DEF r
<1>7. \E q : Told(q, n) /\ SpeechEndResets(q, AfterChunk)
  <2>1. CASE MidSpeech(r, outcome)
    <3>1. PICK texts : SpeechEndResets(Replayed(r, texts), AfterChunk)
      BY <1>1, <1>3, <2>1 DEF r
    <3>2. Told(Replayed(r, texts), n)
      BY <1>1, <1>6, <2>1, ToldReplayed
    <3> QED BY <3>1, <3>2
  <2>2. CASE ~MidSpeech(r, outcome)
    BY <1>1, <1>3, <1>6, <2>2 DEF r
  <2> QED BY <2>1, <2>2
<1>8. PICK q : Told(q, n) /\ SpeechEndResets(q, AfterChunk)
  BY <1>7
<1> DEFINE s == IF DueCount(AfterChunk) = 0 THEN q ELSE ResetDecoder(q)
<1>9. Told(s, n)
  BY <1>8, ToldReset
<1>10. /\ consecutive_empty' = s.empty /\ replay_buffer' = s.replay /\ emitted' = s.emitted
  BY <1>8 DEF SpeechEndResets, DueCount
<1> HIDE DEF s
<1>11. /\ Texts(consecutive_empty', replay_buffer', emitted', chunk_num')
       /\ replay_buffer'.max_chunks <= empty_reset_threshold
  BY <1>1, <1>9, <1>10, ToldParts
<1> QED BY <1>1, <1>11 DEF TextsOK

\* No other step shows a text.
LEMMA TextsStep == ASSUME IInv, TextsOK, [Next]_vars PROVE TextsOK'
<1>0. /\ Texts(consecutive_empty, replay_buffer, emitted, chunk_num)
      /\ consecutive_empty \in Nat /\ replay_buffer.max_chunks \in Nat
      /\ chunk_num \in Nat /\ empty_reset_threshold \in Nat
      /\ replay_buffer.max_chunks <= empty_reset_threshold
  BY TextsTypes DEF TextsOK, IInv, Shape
<1>1. CASE UNCHANGED <<consecutive_empty, replay_buffer, emitted, chunk_num, config>>
  BY <1>1 DEF TextsOK, config
<1>2. CASE BeginSession
  <2>1. /\ punctuation_reset_enabled' \in BOOLEAN /\ empty_reset_threshold' \in Nat
        /\ replay_buffer' = NewReplay(empty_reset_threshold') /\ consecutive_empty' = 0
        /\ emitted' = emitted /\ chunk_num' = chunk_num
    BY <1>2, NemotronAssumption DEF BeginSession
  <2>2. Texts(0, NewReplay(empty_reset_threshold'), emitted, chunk_num)
    BY <1>0, <2>1, TextsEmptied
  <2>3. replay_buffer'.max_chunks = empty_reset_threshold'
    BY <2>1 DEF NewReplay
  <2>4. \A t \in Nat : t <= t
    OBVIOUS
  <2> QED BY <2>1, <2>2, <2>3, <2>4 DEF TextsOK
<1>3. CASE UpdateSettings
  <2>1. /\ punctuation_reset_enabled' \in BOOLEAN /\ empty_reset_threshold' \in Nat
        /\ replay_buffer' = [chunks     |-> Newest(replay_buffer.chunks, empty_reset_threshold'),
                             max_chunks |-> empty_reset_threshold']
        /\ consecutive_empty' = consecutive_empty
        /\ emitted' = emitted /\ chunk_num' = chunk_num
    BY <1>3, NemotronAssumption DEF UpdateSettings, record
  <2>2. Texts(consecutive_empty, replay_buffer', emitted, chunk_num)
    BY <1>0, <2>1, TextsTrimmed
  <2>3. replay_buffer'.max_chunks = empty_reset_threshold'
    BY <2>1
  <2>4. \A t \in Nat : t <= t
    OBVIOUS
  <2> QED BY <2>1, <2>2, <2>3, <2>4 DEF TextsOK
<1>4. CASE SpeechStart
  <2>1. /\ replay_buffer' = NewReplay(replay_buffer.max_chunks) /\ consecutive_empty' = 0
        /\ emitted' = emitted /\ chunk_num' = chunk_num /\ UNCHANGED config
    BY <1>4 DEF SpeechStart, record
  <2>2. Texts(0, NewReplay(replay_buffer.max_chunks), emitted, chunk_num)
    BY <1>0, TextsEmptied
  <2>3. replay_buffer'.max_chunks = replay_buffer.max_chunks
    BY <2>1 DEF NewReplay
  <2> QED BY <2>1, <2>2, <2>3 DEF TextsOK, config
<1>5. CASE SpeechFrame \/ SpeechEnd \/ ProcessStarts \/ ProcessEnds \/ EndSession
  BY <1>1, <1>5 DEF SpeechFrame, SpeechEnd, ProcessStarts, ProcessEnds, EndSession, rules, record
<1>6. CASE UNCHANGED vars
  BY <1>1, <1>6 DEF vars, rules, record
<1> QED BY <1>2, <1>3, <1>4, <1>5, <1>6, TextsChunk DEF Next
-------------------------------------------------------------------------------
SpeechInv == IInv /\ Spoken /\ TextsOK

LEMMA SpeechInvInit == Init => SpeechInv
<1> SUFFICES ASSUME Init PROVE SpeechInv
  OBVIOUS
<1>1. Spoken
  BY SpeechNothing DEF Init, Spoken
<1>2. TextsOK
  <2> DEFINE q == NewReplay(0)
             e == <<>>
  <2>1. /\ consecutive_empty = 0 /\ replay_buffer = q /\ emitted = e /\ chunk_num = 0
        /\ punctuation_reset_enabled = TRUE /\ empty_reset_threshold = 1
    BY DEF Init
  <2>2. q \in ReplayBuffer /\ q.chunks = <<>> /\ q.max_chunks = 0
    <3>1. <<>> \in Seq(ChunkSet)
      OBVIOUS
    <3> QED BY <3>1 DEF NewReplay, ReplayBuffer
  <2>3. e \in Seq(Nat) /\ Len(e) = 0 /\ 1..0 = {}
    OBVIOUS
  <2> HIDE DEF q
  <2>4. ChunksInOrder(q.chunks) /\ Unshown(0, q.chunks, e) /\ Rising(e)
    BY <2>2, <2>3 DEF ChunksInOrder, Unshown, Rising
  <2>5. Texts(0, q, e, 0)
    BY <2>2, <2>3, <2>4 DEF Texts
  <2> QED BY <2>1, <2>2, <2>5 DEF TextsOK
<1> QED BY <1>1, <1>2, InvInit DEF SpeechInv

LEMMA SpeechInvAlways == Spec => []SpeechInv
<1>1. SpeechInv /\ [Next]_vars => SpeechInv'
  BY InvStep, SpokenStep, TextsStep DEF SpeechInv
<1> QED BY <1>1, SpeechInvInit, PTL DEF Spec

\* Whatever the sizes of chunks and frames, and whichever chunks the decoder answers with text or
\* fails on: the speech pushed is what has gone through the decoder live followed by what waits,
\* and the texts shown, replays included, name each chunk at most once and in the order of the
\* audio (testdata/README.md:73-76).
THEOREM AlwaysSpeechOnce == Spec => []SpeechOnce
<1>1. ASSUME SpeechInv PROVE SpeechOnce
  <2>1. TypeOK
    <3>1. /\ asr_consumed \in Nat /\ asr_consumed <= Len(asr_buffer)
          /\ asr_buffer \in Seq([segment : Nat, number : Nat])
      BY <1>1 DEF SpeechInv, IInv, Shape, Sample
    <3>2. /\ consecutive_empty \in Nat /\ emitted \in Seq(Nat)
          /\ Len(replay_buffer.chunks) <= replay_buffer.max_chunks
          /\ punctuation_reset_enabled \in BOOLEAN /\ empty_reset_threshold \in Nat
      BY <1>1 DEF SpeechInv, TextsOK, Texts
    <3> QED BY <1>1, <3>1, <3>2 DEF SpeechInv, IInv, Shape, TypeOK
  <2>2. SpeechInOrder
    BY <1>1 DEF SpeechInv, Spoken, SpeechInOrder
  <2>3. TextOnceInOrder
    <3>1. emitted \in Seq(Nat) /\ Rising(emitted)
      BY <1>1 DEF SpeechInv, TextsOK, Texts
    <3>2. \A i \in 1..Len(emitted) - 1 : i \in 1..Len(emitted) /\ i + 1 \in 1..Len(emitted) /\ i < i + 1
      BY <3>1
    <3> QED BY <3>1, <3>2 DEF Rising, TextOnceInOrder
  <2> QED BY <2>1, <2>2, <2>3 DEF SpeechOnce
<1> QED BY <1>1, SpeechInvAlways, PTL
===============================================================================
