----------------------------- MODULE SonioxBackend -----------------------------
(***************************************************************************)
(* asr/soniox/backend.rs, the adapter between the processing loop of       *)
(* audio_engine.rs and the socket thread, together with the part of the    *)
(* loop that calls it: process or poll once per iteration, end_session     *)
(* once, on Stop or after a fatal error, whose updates the loop shows in   *)
(* the first case and discards in the second.                              *)
(*                                                                         *)
(* The socket thread is the one of ClientContract, which SonioxClient      *)
(* implements.  The transcript is a set of pieces: a response adds one to  *)
(* the open segments, and one that carries an endpoint finalizes all that  *)
(* is open, the way Accumulator does it token by token.                    *)
(***************************************************************************)
EXTENDS Naturals, Sequences, FiniteSets

CONSTANTS MaxPieces,    \* bound: responses in one session
          MaxOutages    \* bound: Reconnecting messages in one session

ASSUME BackendAssumption == MaxPieces \in Nat /\ MaxOutages \in Nat

Piece == 1..MaxPieces
Response(k, endpoint) == [type |-> "response", piece |-> k, endpoint |-> endpoint]
Notice(type) == [type |-> type, piece |-> 0, endpoint |-> FALSE]
LastInbound == {Notice("finished"), Notice("fatal")}
Inbound == {Response(k, e) : k \in Piece, e \in BOOLEAN} \cup {Notice("reconnecting")} \cup LastInbound

VARIABLES
  inbound, alive, owned,   \* the socket thread and the handle on it
  pc,                \* the processing loop
  stop,              \* stop_flag
  send_error,        \* process: how send_audio ended
  live,              \* the accumulator's open pieces
  pending_transient, \* status that lost a return slot to text
  pending_fatal,
  collected,         \* the updates of the call in progress
  discard,           \* the loop is on its fatal path
  shown,             \* the transcript the UI holds
  error,             \* what on_error was called with
  outages,           \* Reconnecting messages so far
  produced,          \* history: responses forwarded by the thread
  timed_out          \* history: end_session ran into FINISH_WAIT

client == <<inbound, alive, owned>>
loop == <<pc, stop, send_error, discard, error>>
backend == <<live, pending_transient, pending_fatal, collected>>
record == <<outages, produced, timed_out>>
vars == <<client, loop, backend, shown, record>>

Client == INSTANCE ClientContract WITH Message <- Inbound, LastMessage <- LastInbound

-------------------------------------------------------------------------------
(***************************************************************************)
(* Updates.  A batch names the pieces it shows as open and as final.       *)
(***************************************************************************)
Nothing == [open |-> {}, final |-> {}]
Then(u, v) == [open |-> (u.open \cup v.open) \ (u.final \cup v.final),
               final |-> u.final \cup v.final]
Show(updates) == shown' = Then(shown, updates)

\* The adapter while it folds messages: what the accumulator holds open, the updates so
\* far, and the status it owes.
Ingest(s, m) ==
  IF m.endpoint
  THEN [s EXCEPT !.live = {},
                 !.updates = Then(@, [open |-> {}, final |-> s.live \cup {m.piece}])]
  ELSE [s EXCEPT !.live = @ \cup {m.piece},
                 !.updates = Then(@, [open |-> {m.piece}, final |-> {}])]

FinishWithoutFlush(s) == [s EXCEPT !.live = {}]            \* mutant
FinishOpen(s) == [s EXCEPT !.live = {}, !.updates = Then(@, [open |-> {}, final |-> s.live])]

FoldFatalFirst(s, m) ==                                    \* mutant: Fatal not flushed
  CASE m.type = "response"     -> Ingest(s, m)
    [] m.type = "reconnecting" -> [FinishOpen(s) EXCEPT !.transient = TRUE]
    [] m.type = "finished"     -> s
    [] m.type = "fatal"        -> [s EXCEPT !.fatal = TRUE]
Fold(s, m) ==
  CASE m.type = "response"     -> Ingest(s, m)
    [] m.type = "reconnecting" -> [FinishOpen(s) EXCEPT !.transient = TRUE]
    [] m.type = "finished"     -> s
    [] m.type = "fatal"        -> [FinishOpen(s) EXCEPT !.fatal = TRUE]

Folding == [live |-> live, updates |-> collected,
            transient |-> pending_transient, fatal |-> pending_fatal]

Folded(s) == /\ live' = s.live /\ collected' = s.updates
             /\ pending_transient' = s.transient /\ pending_fatal' = s.fatal

-------------------------------------------------------------------------------
\* The thread may fail to spawn: begin_session returns the error, the loop ends with it.
BeginSession ==
  /\ pc = "new"
  /\ \/ /\ pc' = "loop" /\ UNCHANGED <<client, error>>
     \/ /\ pc' = "failed" /\ error' = "spawn"
        /\ alive' = FALSE /\ owned' = FALSE /\ UNCHANGED inbound
  /\ UNCHANGED <<stop, send_error, discard, backend, shown, record>>

StopSession ==
  /\ pc \notin {"failed", "over"} /\ ~stop
  /\ stop' = TRUE
  /\ UNCHANGED <<client, pc, send_error, discard, error, backend, shown, record>>

\* Capture was starved: poll.  Audio came but none of it is staged: process.
Iterate ==
  /\ pc = "loop" /\ ~stop
  /\ pc' = "drain" /\ send_error' = "none"
  /\ UNCHANGED <<client, stop, discard, error, backend, shown, record>>

\* process with staged audio: send_audio may refuse it (backlog), and fails for good once
\* the thread has returned.  Its result waits for the drain.
ProcessSend ==
  /\ pc = "loop" /\ ~stop
  /\ pc' = "drain"
  /\ send_error' \in {"transient", IF alive THEN "none" ELSE "fatal"}
  /\ UNCHANGED <<client, stop, discard, error, backend, shown, record>>

\* drain_inbound, up to the message that is not there yet.
Drain ==
  /\ pc = "drain" /\ inbound # <<>>
  /\ inbound' = Tail(inbound)
  /\ Folded(Fold(Folding, Head(inbound)))
  /\ UNCHANGED <<alive, owned, loop, shown, record>>

ResultStatusFirst ==                                       \* mutant: text loses the slot
  IF pending_fatal THEN "fatal"
  ELSE IF collected # Nothing THEN "text"
  ELSE IF pending_transient THEN "transient"
  ELSE IF send_error = "fatal" THEN "closed" ELSE "nothing"
ResultSendErrorFirst ==                                    \* mutant: `?` on send_audio
  IF send_error = "fatal" THEN "closed"
  ELSE IF collected # Nothing THEN "text"
  ELSE IF pending_fatal THEN "fatal"
  ELSE IF pending_transient THEN "transient" ELSE "nothing"
\* deliver: text, then the thread's own status, then what send_audio said.
Result ==
  IF collected # Nothing THEN "text"
  ELSE IF pending_fatal THEN "fatal"
  ELSE IF pending_transient THEN "transient"
  ELSE IF send_error = "fatal" THEN "closed" ELSE "nothing"

\* The loop routes what process or poll returned: text is shown, a transient error becomes
\* a status, a fatal one ends the session.
Deliver ==
  /\ pc = "drain" /\ inbound = <<>>
  /\ collected' = Nothing
  /\ pending_transient' = (pending_transient /\ Result # "transient")
  /\ pending_fatal' = (pending_fatal /\ Result # "fatal")
  /\ IF Result = "text" THEN Show(collected) ELSE UNCHANGED shown
  /\ IF Result \in {"fatal", "closed"}
     THEN pc' = "ending" /\ error' = Result /\ discard' = TRUE
     ELSE pc' = "loop" /\ UNCHANGED <<error, discard>>
  /\ UNCHANGED <<client, stop, send_error, live, record>>

StopSeen ==
  /\ pc = "loop" /\ stop
  /\ pc' = "ending"
  /\ UNCHANGED <<client, stop, send_error, discard, error, backend, shown, record>>

-------------------------------------------------------------------------------
(***************************************************************************)
(* end_session.                                                            *)
(***************************************************************************)
EndSession ==
  /\ pc = "ending" /\ pc' = "tail"
  /\ UNCHANGED <<client, stop, send_error, discard, error, backend, shown, record>>

\* The last flush, the reset, and the drop of the client.
LeaveTail(s) ==
  /\ collected' = FinishOpen(s).updates /\ live' = {}
  /\ pending_transient' = FALSE /\ pending_fatal' = FALSE
  /\ owned' = FALSE
  /\ pc' = "dropping"

TailReceiveAnyEnds ==                                      \* mutant: Reconnecting ends the wait
  /\ pc = "tail" /\ inbound # <<>>
  /\ inbound' = Tail(inbound)
  /\ LET m == Head(inbound)
         s == Folding
     IN  IF m.type # "response" THEN LeaveTail(s)
         ELSE /\ collected' = Ingest(s, m).updates /\ live' = Ingest(s, m).live
              /\ UNCHANGED <<pc, owned, pending_transient, pending_fatal>>
  /\ UNCHANGED <<alive, stop, send_error, discard, error, shown, record>>
TailReceive ==
  /\ pc = "tail" /\ inbound # <<>>
  /\ inbound' = Tail(inbound)
  /\ LET m == Head(inbound)
         s == Folding
         t == IF m.type = "response" THEN Ingest(s, m) ELSE FinishOpen(s)
     IN  IF m \in LastInbound THEN LeaveTail(s)
         ELSE /\ collected' = t.updates /\ live' = t.live
              /\ UNCHANGED <<pc, owned, pending_transient, pending_fatal>>
  /\ UNCHANGED <<alive, stop, send_error, discard, error, shown, record>>

\* recv_timeout returns None: the thread is gone, or FINISH_WAIT has elapsed.
TailEmpty ==
  /\ pc = "tail" /\ inbound = <<>>
  /\ LeaveTail(Folding)
  /\ timed_out' = alive
  /\ UNCHANGED <<inbound, alive, stop, send_error, discard, error, shown, outages, produced>>

\* FINISH_WAIT has elapsed although more messages keep arriving.
TailTimeout ==
  /\ pc = "tail" /\ inbound # <<>>
  /\ LeaveTail(Folding)
  /\ timed_out' = TRUE
  /\ UNCHANGED <<inbound, alive, stop, send_error, discard, error, shown, outages, produced>>

\* The join is over: end_session returns, and the loop with it.
ClientJoined ==
  /\ pc = "dropping" /\ ~alive
  /\ pc' = "over"
  /\ IF discard THEN UNCHANGED shown ELSE Show(collected)
  /\ UNCHANGED <<client, stop, send_error, discard, error, backend, record>>

-------------------------------------------------------------------------------
(***************************************************************************)
(* The socket thread, by its contract.                                     *)
(***************************************************************************)
ClientResponds ==
  /\ pc # "new" /\ Cardinality(produced) < MaxPieces
  /\ LET k == Cardinality(produced) + 1
     IN  produced' = produced \cup {k} /\ \E e \in BOOLEAN : Client!Report(Response(k, e))
  /\ UNCHANGED <<loop, backend, shown, outages, timed_out>>

ClientReconnects ==
  /\ pc # "new" /\ outages < MaxOutages
  /\ outages' = outages + 1
  /\ Client!Report(Notice("reconnecting"))
  /\ UNCHANGED <<loop, backend, shown, produced, timed_out>>

ClientEnds ==
  /\ pc # "new"
  /\ \/ \E m \in LastInbound : Client!ReportLast(m)
     \/ Client!StopSilently
  /\ UNCHANGED <<loop, backend, shown, record>>

Over == pc \in {"over", "failed"} /\ UNCHANGED vars

Init ==
  /\ Client!Init
  /\ pc = "new" /\ stop = FALSE /\ send_error = "none" /\ discard = FALSE /\ error = "none"
  /\ live = {} /\ pending_transient = FALSE /\ pending_fatal = FALSE
  /\ collected = Nothing /\ shown = Nothing
  /\ outages = 0 /\ produced = {} /\ timed_out = FALSE

LoopNext == BeginSession \/ Iterate \/ ProcessSend \/ Drain \/ Deliver \/ StopSeen
            \/ EndSession \/ TailReceive \/ TailEmpty \/ TailTimeout \/ ClientJoined

ClientNext == ClientResponds \/ ClientReconnects \/ ClientEnds

Next == LoopNext \/ StopSession \/ ClientNext \/ Over

Spec == Init /\ [][Next]_vars

\* The processing thread runs; the thread behind a dropped handle returns (SonioxClient's
\* JoinReturns, which needs a network that settles every write).
FairSpec == Spec /\ WF_vars(LoopNext) /\ WF_vars(~owned /\ ClientEnds)

-------------------------------------------------------------------------------
PiecesOf(messages) == {messages[i].piece : i \in {j \in 1..Len(messages) : messages[j].type = "response"}}
Known(updates) == updates.open \cup updates.final

TypeOK ==
  /\ inbound \in Seq(Inbound) /\ alive \in BOOLEAN /\ owned \in BOOLEAN
  /\ pc \in {"new", "failed", "loop", "drain", "ending", "tail", "dropping", "over"}
  /\ stop \in BOOLEAN /\ discard \in BOOLEAN
  /\ send_error \in {"none", "transient", "fatal"}
  /\ error \in {"none", "spawn", "fatal", "closed"}
  /\ live \subseteq Piece
  /\ pending_transient \in BOOLEAN /\ pending_fatal \in BOOLEAN
  /\ collected \in [open : SUBSET Piece, final : SUBSET Piece]
  /\ shown \in [open : SUBSET Piece, final : SUBSET Piece]
  /\ outages \in 0..MaxOutages /\ produced \subseteq Piece /\ timed_out \in BOOLEAN

NothingLost == produced = PiecesOf(inbound) \cup Known(shown) \cup Known(collected)
OpenIsLive == Then(shown, collected).open = live

\* Every response the thread forwarded is waiting to be read or has reached the transcript, up
\* to what end_session holds in its hands; and what the UI will show as open once it has those
\* is what the accumulator can still finalize: no call folds a message and loses its text, none
\* leaves text provisional after a Reconnecting, a Fatal or an endpoint.
TextAccounted ==
  TypeOK /\ (pc \in {"loop", "drain", "ending", "tail"} => NothingLost /\ OpenIsLive)

\* A session ended with Stop leaves no provisional text, and unless FINISH_WAIT ran out,
\* holds every response of the thread as final (backend.rs:271-274).
StopKeepsAll ==
  pc = "over" /\ ~discard =>
    /\ shown.open = {}
    /\ ~timed_out => shown.final = produced

\* When the thread gave a reason for going, the session does not end before the text that
\* was recognized has been finalized on screen (backend.rs:98-100), and the error the user
\* sees is that reason rather than the closed channel (backend.rs:122-124).
ReasonAndTextKept ==
  /\ error = "fatal" => shown.open = {} /\ shown.final = produced
  /\ error = "closed" =>
       ~pending_fatal /\ \A i \in 1..Len(inbound) : inbound[i] # Notice("fatal")

\* The status that lost its slot to text is reported, or the user stops the session: it is
\* not stranded behind text or behind an idle capture (backend.rs:113-115).
StatusReported ==
  /\ pending_fatal ~> error = "fatal" \/ stop
  /\ pending_transient ~> ~pending_transient
===============================================================================
