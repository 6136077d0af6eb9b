----------------------------- MODULE Accumulator ------------------------------
(***************************************************************************)
(* asr/soniox/accumulator.rs: the fold that turns the service's revising   *)
(* token stream into transcript updates.                                   *)
(*                                                                         *)
(* Durable tokens (`is_final`) arrive exactly once and collect in          *)
(* `pending` until a sentence end, a speaker change or `<end>` flushes     *)
(* them; the provisional tail of every response replaces the previous one  *)
(* and is shown, together with `pending`, as one open segment per speaker. *)
(*                                                                         *)
(* `ingest` is one loop over the durable tokens of a response followed by  *)
(* one rebuild of the open segments; `phase` is its program counter, so a  *)
(* response of any length is a sequence of steps of this module.  Text is  *)
(* a sequence of pieces: what a token carries that the code looks at       *)
(* (blank or not, its own speaker label) and, for durable speech, which of *)
(* the service's tokens it is (`nth`).                                     *)
(***************************************************************************)
EXTENDS Integers, Sequences, FiniteSets, SequencesExt, Lists

CONSTANTS Speakers,      \* normalized speaker labels the service may send
          NoSpeaker,     \* the label of an undiarized token
          MaxResponses,  \* bound: responses with tokens in one behaviour
          MaxDurable,    \* bound: durable tokens in one response
          MaxTail        \* bound: displayable provisional tokens in one response

ASSUME AccumulatorAssumption ==
  /\ NoSpeaker \notin Speakers
  /\ MaxResponses \in Nat /\ MaxDurable \in Nat /\ MaxTail \in Nat

VARIABLES acc,        \* struct Accumulator
          next_id,    \* SegmentIds: the id the next `next()` returns
          phase,      \* "idle", or "durable" inside the loop of `ingest`
          store,      \* what a consumer of the updates knows (TranscriptContract)
          said,       \* history: durable speech delivered in final segments
          spoken,     \* history: number of durable speech tokens ingested
          responses,  \* number of responses ingested
          todo        \* bound: durable tokens the current response may still hold

accVars == <<acc, next_id, phase, store, said, spoken, responses, todo>>

Label == Speakers \cup {NoSpeaker}

\* A piece of text: provisional pieces and blanks have nth = 0.
TextPiece == [nth : Nat, blank : BOOLEAN, label : Label]
Run == [speaker : Label, text : Seq(TextPiece)]

Blank(text) == \A i \in DOMAIN text : text[i].blank

\* Who durable speech was credited to when its segment was closed.
Credit == [nth : Nat, own : BOOLEAN]

(***************************************************************************)
(* Updates, and what a consumer makes of a batch of them.                  *)
(***************************************************************************)
Update(id, final, run) == [id |-> id, final |-> final, run |-> run]

\* A retraction is a final update with no text.
Retraction(id) == Update(id, TRUE, [speaker |-> NoSpeaker, text |-> <<>>])

\* The updates `us` of one batch, all with different ids.
Receive(s, us) ==
  LET ids(final) == {us[k].id : k \in {j \in DOMAIN us : us[j].final = final}}
  IN  [open     |-> (s.open \cup ids(FALSE)) \ ids(TRUE),
       closed   |-> s.closed \cup ids(TRUE),
       reopened |-> s.reopened \cup (s.closed \cap (ids(TRUE) \cup ids(FALSE)))]

\* The durable speech in a text, and of one final segment as it is credited.
Words(text) == {i \in DOMAIN text : text[i].nth > 0}
DurableOf(text) == At(text, Words(text))
Heard(run) ==
  LET words == DurableOf(run.text)
  IN  [k \in 1..Len(words) |->
         [nth |-> words[k].nth, own |-> words[k].label \in {NoSpeaker, run.speaker}]]

(***************************************************************************)
(* The methods of Accumulator.  They work on the accumulator together with *)
(* the id source and the consumer, since an update leaves at once.         *)
(***************************************************************************)
New == [pending |-> <<>>, pending_speaker |-> NoSpeaker,
        open_runs |-> <<>>, open_ids |-> <<>>]

\* flush's `remove(0)` of both vectors; a missing run would be a panic.
DropFirstKeepingId(a) ==                                   \* mutant
  [a EXCEPT !.open_runs = SubSeq(@, 2, Len(@))]
DropFirst(a) == [a EXCEPT !.open_runs = Tail(@), !.open_ids = Tail(@)]

\* The id source after one `next()`.
NextIdStuck(n) == n                                        \* mutant
NextId(n) == n + 1

\* Finalize the pending durable text in place, under the first open id if any.
Flush(x) ==
  LET run == [speaker |-> x.acc.pending_speaker, text |-> x.acc.pending]
      shown == x.acc.open_ids # <<>>
      cleared == [x.acc EXCEPT !.pending = <<>>]
      id == IF shown THEN Head(x.acc.open_ids) ELSE x.next_id
  IN  IF Blank(x.acc.pending)
      THEN [x EXCEPT !.acc = cleared]
      ELSE [acc     |-> IF shown THEN DropFirst(cleared) ELSE cleared,
            next_id |-> IF shown THEN x.next_id ELSE NextId(x.next_id),
            store   |-> Receive(x.store, <<Update(id, TRUE, run)>>),
            said    |-> x.said \o Heard(run)]

\* A labelled token from another speaker closes the previous speaker's segment;
\* an unlabelled token inherits the current speaker.
TurnLabelsFirst(x, label) ==                               \* mutant
  LET y == IF label = NoSpeaker THEN x ELSE [x EXCEPT !.acc.pending_speaker = label]
  IN  IF x.acc.pending_speaker \notin {NoSpeaker, label} /\ label # NoSpeaker
      THEN Flush(y) ELSE y
Turn(x, label) ==
  LET y == IF x.acc.pending_speaker \notin {NoSpeaker, label} THEN Flush(x) ELSE x
  IN  IF label = NoSpeaker THEN x ELSE [y EXCEPT !.acc.pending_speaker = label]

PushText(x, piece) == [x EXCEPT !.acc.pending = Append(@, piece)]

\* One iteration of the durable loop.  A token is a "word", a "stop" (after which
\* ends_sentence holds of the pending text), a "blank", or the control token
\* "end" or "fin".
IngestToken(x, kind, label, nth) ==
  LET y == Turn(x, label)
      z == PushText(y, [nth |-> nth, blank |-> kind = "blank", label |-> label])
  IN  CASE kind = "end" -> Flush(y)
        [] kind = "fin" -> y
        [] kind = "stop" -> Flush(z)
        [] OTHER -> z

Here == [acc |-> acc, next_id |-> next_id, store |-> store, said |-> said]

Become(x) == /\ acc' = x.acc
             /\ next_id' = x.next_id
             /\ store' = x.store
             /\ said' = x.said

(***************************************************************************)
(* build_open_runs: the pending text under its speaker, then the tail      *)
(* grouped by speaker; blank groups are not shown.                         *)
(***************************************************************************)
\* The speaker a tail piece is shown under: its own label, or the last one before it.
Inherited(tail, i) ==
  LET labelled == {j \in 1..i : tail[j].label # NoSpeaker}
  IN  IF labelled = {} THEN acc.pending_speaker
      ELSE tail[CHOOSE j \in labelled : \A k \in labelled : k <= j].label

BuildTailOnly(tail) ==                                     \* mutant
  IF tail = <<>> THEN <<>> ELSE <<[speaker |-> Inherited(tail, 1), text |-> tail]>>
BuildOpenRuns(tail) ==
  LET text == acc.pending \o tail
      p == Len(acc.pending)
      speaker == [i \in 1..Len(text) |->
                    IF i <= p THEN acc.pending_speaker ELSE Inherited(tail, i - p)]
      group(i) == {j \in i..Len(text) : \A k \in i..j : speaker[k] = speaker[i]}
      shown == {i \in 1..Len(text) : /\ i = 1 \/ speaker[i - 1] # speaker[i]
                                     /\ \E j \in group(i) : ~text[j].blank}
      start == Ascending(shown)
  IN  [k \in 1..Cardinality(shown) |->
         [speaker |-> speaker[start[k]],
          text |-> SubSeq(text, start[k], start[k] + Cardinality(group(start[k])) - 1)]]

\* The i-th run goes under the i-th open id, new ids are drawn for the rest, and
\* the ids that have no run any more are retracted.
Fresh(n) == IF n > Len(acc.open_ids) THEN n - Len(acc.open_ids) ELSE 0

IdsForFreshFirst(n) == [i \in 1..Fresh(n) |-> next_id + i - 1] \o acc.open_ids  \* mutant
IdsFor(n) == [i \in 1..Len(acc.open_ids) + Fresh(n) |->
                IF i <= Len(acc.open_ids) THEN acc.open_ids[i]
                ELSE next_id + (i - Len(acc.open_ids) - 1)]

BatchNoRetraction(runs, final) ==                          \* mutant
  [i \in 1..Len(runs) |-> Update(IdsFor(Len(runs))[i], final, runs[i])]
Batch(runs, final) ==
  LET ids == IdsFor(Len(runs))
  IN  [i \in 1..Len(ids) |-> IF i <= Len(runs) THEN Update(ids[i], final, runs[i])
                             ELSE Retraction(ids[i])]

PublishOpen(runs) ==
  /\ acc' = [acc EXCEPT !.open_runs = runs, !.open_ids = SubSeq(IdsFor(Len(runs)), 1, Len(runs))]
  /\ next_id' = next_id + Fresh(Len(runs))
  /\ store' = Receive(store, Batch(runs, FALSE))
  /\ UNCHANGED said

-------------------------------------------------------------------------------
AccInit ==
  /\ acc = New
  /\ next_id = 1
  /\ phase = "idle"
  /\ store = [open |-> {}, closed |-> {}, reopened |-> {}]
  /\ said = <<>>
  /\ spoken = 0
  /\ responses = 0
  /\ todo = 0

\* A response with tokens reaches `ingest`.
ReceiveResponse ==
  /\ phase = "idle"
  /\ responses < MaxResponses
  /\ phase' = "durable"
  /\ responses' = responses + 1
  /\ todo' = MaxDurable
  /\ UNCHANGED <<acc, next_id, store, said, spoken>>

\* The next durable token of the response.
IngestDurable(kind, label) ==
  /\ phase = "durable"
  /\ todo > 0
  /\ todo' = todo - 1
  /\ spoken' = IF kind \in {"word", "stop"} THEN spoken + 1 ELSE spoken
  /\ Become(IngestToken(Here, kind, label,
                        IF kind \in {"word", "stop"} THEN spoken + 1 ELSE 0))
  /\ UNCHANGED <<phase, responses>>

\* All durable tokens are in: the open segments are rebuilt from the response's
\* provisional tail.
RebuildOpen(tail) ==
  /\ phase = "durable"
  /\ PublishOpen(BuildOpenRuns(tail))
  /\ phase' = "idle"
  /\ todo' = 0
  /\ UNCHANGED <<spoken, responses>>

\* finish() then reset(), as every caller does: the last hypothesis becomes final.
FinishFlushingTwice ==                                     \* mutant
  /\ phase = "idle"
  /\ store' = Receive(store, Batch(acc.open_runs, TRUE))
  /\ next_id' = next_id + Fresh(Len(acc.open_runs))
  /\ said' = FlattenSeq(<<said, Heard([speaker |-> acc.pending_speaker, text |-> acc.pending])>>
                        \o [i \in 1..Len(acc.open_runs) |-> Heard(acc.open_runs[i])])
  /\ acc' = New
  /\ UNCHANGED <<phase, spoken, responses, todo>>
FinishAndReset ==
  /\ phase = "idle"
  /\ store' = Receive(store, Batch(acc.open_runs, TRUE))
  /\ next_id' = next_id + Fresh(Len(acc.open_runs))
  /\ said' = said \o FlattenSeq([i \in 1..Len(acc.open_runs) |-> Heard(acc.open_runs[i])])
  /\ acc' = New
  /\ UNCHANGED <<phase, spoken, responses, todo>>

TailPiece == [nth : {0}, blank : BOOLEAN, label : Label]
Tails == UNION {[1..n -> TailPiece] : n \in 0..MaxTail}

AccNext ==
  \/ ReceiveResponse
  \/ \E kind \in {"word", "stop", "blank", "end", "fin"}, label \in Label :
       IngestDurable(kind, label)
  \/ \E tail \in Tails : RebuildOpen(tail)
  \/ FinishAndReset

AccSpec == AccInit /\ [][AccNext]_accVars

-------------------------------------------------------------------------------
AccTypeOK ==
  /\ acc \in [pending : Seq(TextPiece), pending_speaker : Label,
              open_runs : Seq(Run), open_ids : Seq(Nat \ {0})]
  /\ next_id \in Nat \ {0}
  /\ phase \in {"idle", "durable"}
  /\ store \in [open : SUBSET (1..next_id - 1), closed : SUBSET (1..next_id - 1),
                reopened : SUBSET (1..next_id - 1)]
  /\ said \in Seq(Credit)
  /\ spoken \in Nat
  /\ responses \in 0..MaxResponses
  /\ todo \in 0..MaxDurable

(***************************************************************************)
(* The updates keep the contract of `TranscriptUpdate` (asr/mod.rs:38-56). *)
(* A segment closed by a sentence end, a speaker change, a retraction or a *)
(* reconnect is never addressed again.                                     *)
(***************************************************************************)
Contract == INSTANCE TranscriptContract
KeepsContract == Contract!Spec

\* The two vectors of open segments stay positionally aligned, at every point of
\* `ingest`: `flush` removes the first element of both, and would panic on a run
\* that is missing (accumulator.rs:225-228).
Aligned == Len(acc.open_runs) = Len(acc.open_ids)

\* Every segment shown as open is one the accumulator still owns and will revise,
\* retract or finalize: nothing is stranded on screen by a shrinking tail, a speaker
\* change or a teardown.
NoneStranded == store.open = {acc.open_ids[i] : i \in DOMAIN acc.open_ids}

NthOf(s) == [i \in 1..Len(s) |-> s[i].nth]

\* What the closed segments hold, followed by what is pending, is every durable token the
\* service sent.
DurableExactlyOnce ==
  NthOf(said) \o NthOf(DurableOf(acc.pending)) = [i \in 1..spoken |-> i]

\* Between responses, what is not yet in a closed segment is the beginning of the first open one.
DurableOnScreen ==
  phase = "idle" =>
    IF Blank(acc.pending)
    THEN \A i \in DOMAIN acc.open_runs : Heard(acc.open_runs[i]) = <<>>
    ELSE /\ acc.open_runs # <<>>
         /\ IsPrefix(acc.pending, Head(acc.open_runs).text)
         /\ \A i \in DOMAIN acc.open_runs :
              NthOf(Heard(acc.open_runs[i])) =
                IF i = 1 THEN NthOf(DurableOf(acc.pending)) ELSE <<>>

\* Durable speech is delivered exactly once and in order, and between responses all of it is on
\* screen, so finalizing the open runs (and only them) at a teardown neither loses nor repeats
\* any of it (accumulator.rs:239-288).
DurableText == AccTypeOK /\ DurableExactlyOnce /\ DurableOnScreen

\* No durable word ends up in a segment credited to somebody else: only unlabelled
\* words inherit a speaker.
CreditedToSpeaker ==
  /\ \A i \in DOMAIN said : said[i].own
  /\ \A i \in DOMAIN acc.pending :
       ~acc.pending[i].blank => acc.pending[i].label \in {NoSpeaker, acc.pending_speaker}

\* Reading the open segments in id order reads them in speaking order: ids are
\* reused from the front and drawn at the back, never permuted by a rebuild.
OpenInOrder == \A i, j \in DOMAIN acc.open_ids : i < j => acc.open_ids[i] < acc.open_ids[j]
===============================================================================
