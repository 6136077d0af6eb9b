----------------------------- MODULE SonioxClient -----------------------------
(***************************************************************************)
(* asr/soniox/client.rs: the socket thread, the handle the processing      *)
(* thread holds on it, and the two channels between them.                  *)
(*                                                                         *)
(* The handle accepts audio up to a backlog ceiling kept in an atomic      *)
(* counter, asks for the end-of-stream handshake, reads what came back and *)
(* is finally dropped, which joins the thread.  The thread runs one        *)
(* connection after another.  Every `.await` that leaves the socket task   *)
(* stuck in one place is a control point of its own (`pc`): while a frame  *)
(* is being written, no other arm of the `select!` is polled.              *)
(*                                                                         *)
(* The network and the service are the environment: a write completes or   *)
(* fails, a connection is lost, a text frame arrives, in any order.        *)
(***************************************************************************)
EXTENDS Integers, Sequences, FiniteSets, SequencesExt, Lists

CONSTANTS MaxQueued,     \* MAX_QUEUED_SAMPLES
          MaxAttempts,   \* MAX_RECONNECT_ATTEMPTS
          Samples,       \* samples of the i-th captured frame
          MaxFrames,     \* bound: captured frames in one behaviour
          MaxResponses   \* bound: text frames the service sends in one behaviour

ASSUME ClientAssumption ==
  /\ MaxQueued \in Nat
  /\ MaxAttempts \in Nat
  /\ MaxFrames \in Nat
  /\ MaxResponses \in Nat
  /\ Samples \in [1..MaxFrames -> Nat \ {0}]

Frame == 1..MaxFrames

VARIABLES
  hpc,         \* the handle: where its owner is in send_audio or Drop
  frame,       \* the frame send_audio is called with next
  finish_sent, \* SonioxClient.finish_sent
  heard,       \* terminal message the owner has read, if any
  queued,      \* queued_samples: the shared atomic
  outbound,    \* the channel handle -> thread
  inbound,     \* the channel thread -> handle
  pc,          \* the socket thread
  pending,     \* session's audio that waits for a connection
  attempt,     \* session's consecutive failures
  writing,     \* the audio frame a write is in progress for, or 0
  progressed,  \* the connection has returned a response
  finishing,   \* end-of-stream is on the wire of this connection
  responses,   \* text frames the service has sent
  wire,        \* history: audio frames written, over all connections
  failed,      \* history: frames whose write failed
  late,        \* history: frames dropped because they came after end-of-stream
  accepted,    \* history: frames send_audio returned Ok for
  mark         \* history: the frames accepted when finish was called

handle == <<hpc, frame, finish_sent, heard, accepted, mark>>
thread == <<pc, pending, attempt, writing, progressed, finishing, responses>>
record == <<wire, failed, late>>
vars == <<handle, queued, outbound, inbound, thread, record>>

Audio(f) == [type |-> "audio", frame |-> f]
Finish == [type |-> "finish", frame |-> 0]
Shutdown == [type |-> "shutdown", frame |-> 0]
Outbound == {Audio(f) : f \in Frame} \cup {Finish, Shutdown}
Terminal == {"finished", "fatal"}
Inbound == Terminal \cup {"response", "reconnecting"}

Min2(a, b) == IF a <= b THEN a ELSE b
Exited == pc = "exited"

-------------------------------------------------------------------------------
(***************************************************************************)
(* The handle.  send_audio is three steps against the shared state: the    *)
(* check of the counter, the increment, and the send.                      *)
(***************************************************************************)
SendUnchecked ==                                           \* mutant
  /\ hpc = "ready" /\ frame <= MaxFrames
  /\ hpc' = "accepted" /\ UNCHANGED frame
  /\ UNCHANGED <<finish_sent, heard, accepted, mark, queued, outbound, inbound, thread, record>>
SendCheck ==
  /\ hpc = "ready" /\ frame <= MaxFrames
  /\ IF queued + Samples[frame] > MaxQueued
     THEN frame' = frame + 1 /\ UNCHANGED hpc   \* Transient: dropped
     ELSE hpc' = "accepted" /\ UNCHANGED frame
  /\ UNCHANGED <<finish_sent, heard, accepted, mark, queued, outbound, inbound, thread, record>>

SendCount ==
  /\ hpc = "accepted"
  /\ queued' = queued + Samples[frame]
  /\ hpc' = "counted"
  /\ UNCHANGED <<frame, finish_sent, heard, accepted, mark, outbound, inbound, thread, record>>

\* The channel is closed once the thread has returned: Fatal, and the count is undone.
SendPush ==
  /\ hpc = "counted"
  /\ IF Exited
     THEN queued' = queued - Samples[frame] /\ UNCHANGED <<outbound, accepted>>
     ELSE /\ outbound' = Append(outbound, Audio(frame))
          /\ accepted' = accepted \cup {frame}
          /\ UNCHANGED queued
  /\ hpc' = "ready"
  /\ frame' = frame + 1
  /\ UNCHANGED <<finish_sent, heard, mark, inbound, thread, record>>

CallFinish ==
  /\ hpc = "ready" /\ ~finish_sent
  /\ finish_sent' = TRUE
  /\ mark' = accepted
  /\ outbound' = IF Exited THEN outbound ELSE Append(outbound, Finish)
  /\ UNCHANGED <<hpc, frame, heard, accepted, queued, inbound, thread, record>>

\* drain or recv_timeout: one message.
Receive ==
  /\ hpc = "ready" /\ inbound # <<>>
  /\ inbound' = Tail(inbound)
  /\ heard' = IF Head(inbound) \in Terminal THEN Head(inbound) ELSE heard
  /\ UNCHANGED <<hpc, frame, finish_sent, accepted, mark, queued, outbound, thread, record>>

\* Drop: Shutdown, then join.
DropHandleSilently ==                                      \* mutant: no Shutdown
  /\ hpc = "ready"
  /\ hpc' = "joining"
  /\ UNCHANGED <<frame, finish_sent, heard, accepted, mark, queued, outbound, inbound, thread,
                 record>>
DropHandle ==
  /\ hpc = "ready"
  /\ hpc' = "joining"
  /\ outbound' = IF Exited THEN outbound ELSE Append(outbound, Shutdown)
  /\ UNCHANGED <<frame, finish_sent, heard, accepted, mark, queued, inbound, thread, record>>

Join ==
  /\ hpc = "joining" /\ Exited
  /\ hpc' = "joined"
  /\ UNCHANGED <<frame, finish_sent, heard, accepted, mark, queued, outbound, inbound, thread,
                 record>>

Joined == hpc = "joined" /\ UNCHANGED vars

-------------------------------------------------------------------------------
(***************************************************************************)
(* The session loop: what the thread does with the outcome of a connection.*)
(* Returning drops its receiver with whatever is queued in it, and pending.*)
(***************************************************************************)
Return == /\ pc' = "exited"
          /\ outbound' = <<>>
          /\ pending' = <<>>

Report(message) == inbound' = Append(inbound, message)

OutcomeFinishedSilently == Return /\ UNCHANGED <<inbound, attempt>>  \* mutant
OutcomeFinished == Report("finished") /\ Return /\ UNCHANGED attempt
OutcomeFatal == Report("fatal") /\ Return /\ UNCHANGED attempt
OutcomeShutdown == Return /\ UNCHANGED <<inbound, attempt>>

RetryForever(made_progress) ==                             \* mutant: no budget
  /\ attempt' = (IF made_progress THEN 0 ELSE attempt) + 1
  /\ Report("reconnecting") /\ pc' = "backoff" /\ UNCHANGED <<outbound, pending>>
\* A connection is over and another one is worth trying.
OutcomeRetry(made_progress) ==
  LET n == (IF made_progress THEN 0 ELSE attempt) + 1
  IN  /\ attempt' = n
      /\ IF n > MaxAttempts THEN Report("fatal") /\ Return
         ELSE Report("reconnecting") /\ pc' = "backoff" /\ UNCHANGED <<outbound, pending>>

\* The frame being written, if any, is settled one way or the other.
Settle(ok) == /\ writing' = 0
              /\ wire' = IF ok /\ writing # 0 THEN Append(wire, writing) ELSE wire
              /\ failed' = IF ok \/ writing = 0 THEN failed ELSE failed \cup {writing}
              /\ UNCHANGED late

\* send_frame releases the frame's share of the backlog, then starts the write.
Release(f) == queued' = queued - Min2(Samples[f], queued)
StartWrite(f) == writing' = f /\ Release(f)

Pop == outbound' = Tail(outbound)

\* The tokio runtime is built first; without one there is no session.
RuntimeBuilt ==
  /\ pc = "spawned" /\ pc' = "connect"
  /\ UNCHANGED <<handle, queued, outbound, inbound, pending, attempt, writing, progressed,
                 finishing, responses, record>>

RuntimeFailed ==
  /\ pc = "spawned"
  /\ OutcomeFatal
  /\ UNCHANGED <<handle, queued, writing, progressed, finishing, responses, record>>

(***************************************************************************)
(* connect_and_run up to its select loop.                                  *)
(***************************************************************************)
ConnectOk ==
  /\ pc = "connect" /\ pc' = "start"
  /\ UNCHANGED <<handle, queued, outbound, inbound, pending, attempt, writing, progressed,
                 finishing, responses, record>>

\* CONNECT_TIMEOUT, or an error; or the start frame cannot be written.
ConnectFail ==
  /\ pc \in {"connect", "start"}
  /\ OutcomeRetry(FALSE)
  /\ UNCHANGED <<handle, queued, writing, progressed, finishing, responses, record>>

StartOk ==
  /\ pc = "start" /\ pc' = "replay"
  /\ progressed' = FALSE /\ finishing' = FALSE
  /\ UNCHANGED <<handle, queued, outbound, inbound, pending, attempt, writing, responses, record>>

\* Audio buffered across the outage goes first, one frame at a time.
ReplaySkipped ==                                           \* mutant: pending not replayed
  /\ pc = "replay" /\ writing = 0
  /\ pc' = "select" /\ UNCHANGED <<pending, writing, queued>>
  /\ UNCHANGED <<handle, outbound, inbound, attempt, progressed, finishing, responses, record>>
ReplayPending ==
  /\ pc = "replay" /\ writing = 0
  /\ IF pending = <<>>
     THEN pc' = "select" /\ UNCHANGED <<pending, writing, queued>>
     ELSE /\ pending' = Tail(pending)
          /\ StartWrite(Head(pending))
          /\ UNCHANGED pc
  /\ UNCHANGED <<handle, outbound, inbound, attempt, progressed, finishing, responses, record>>

(***************************************************************************)
(* The arms of the select loop that take a message of the handle.          *)
(***************************************************************************)
TakeShutdown ==
  /\ pc \in {"select", "flush"} /\ writing = 0
  /\ outbound # <<>> /\ Head(outbound) = Shutdown
  /\ Pop
  /\ pc' = "closeShutdown"
  /\ UNCHANGED <<handle, queued, inbound, pending, attempt, writing, progressed, finishing,
                 responses, record>>

\* The first Finish of a connection starts the flush loop; another is ignored.
TakeFinish ==
  /\ pc \in {"select", "flush"} /\ writing = 0
  /\ outbound # <<>> /\ Head(outbound) = Finish
  /\ Pop
  /\ pc' = IF pc = "select" /\ ~finishing THEN "flush" ELSE pc
  /\ UNCHANGED <<handle, queued, inbound, pending, attempt, writing, progressed, finishing,
                 responses, record>>

TakeAudioAlways ==                                         \* mutant: finishing not looked at
  /\ pc \in {"select", "flush"} /\ writing = 0
  /\ outbound # <<>> /\ Head(outbound).type = "audio"
  /\ Pop
  /\ StartWrite(Head(outbound).frame) /\ UNCHANGED late
  /\ UNCHANGED <<handle, inbound, pc, pending, attempt, progressed, finishing, responses,
                 wire, failed>>
TakeAudio ==
  /\ pc \in {"select", "flush"} /\ writing = 0
  /\ outbound # <<>> /\ Head(outbound).type = "audio"
  /\ Pop
  /\ LET f == Head(outbound).frame
     IN  IF finishing
         THEN Release(f) /\ late' = late \cup {f} /\ UNCHANGED writing
         ELSE StartWrite(f) /\ UNCHANGED late
  /\ UNCHANGED <<handle, inbound, pc, pending, attempt, progressed, finishing, responses,
                 wire, failed>>

\* The flush loop has emptied the channel: end-of-stream is written.
FlushDone ==
  /\ pc = "flush" /\ writing = 0 /\ outbound = <<>>
  /\ pc' = "eos"
  /\ UNCHANGED <<handle, queued, outbound, inbound, pending, attempt, writing, progressed,
                 finishing, responses, record>>

(***************************************************************************)
(* Writes: the network takes the bytes, or the connection is gone.         *)
(***************************************************************************)
FrameWritten ==
  /\ writing # 0
  /\ Settle(TRUE)
  /\ UNCHANGED <<handle, queued, outbound, inbound, pc, pending, attempt, progressed, finishing,
                 responses>>

FrameFailed ==
  /\ writing # 0
  /\ Settle(FALSE)
  /\ OutcomeRetry(pc # "replay" /\ progressed)
  /\ UNCHANGED <<handle, queued, progressed, finishing, responses>>

EosWritten ==
  /\ pc = "eos"
  /\ pc' = "select" /\ finishing' = TRUE   \* and the watchdog is armed
  /\ UNCHANGED <<handle, queued, outbound, inbound, pending, attempt, writing, progressed,
                 responses, record>>

EosFailed ==
  /\ pc = "eos"
  /\ OutcomeFinished
  /\ UNCHANGED <<handle, queued, writing, progressed, finishing, responses, record>>

Closed ==
  /\ pc \in {"closeShutdown", "closeFinished"}
  /\ IF pc = "closeShutdown" THEN OutcomeShutdown ELSE OutcomeFinished
  /\ UNCHANGED <<handle, queued, writing, progressed, finishing, responses, record>>

PingTick ==
  /\ pc = "select" /\ writing = 0 /\ pc' = "ping"
  /\ UNCHANGED <<handle, queued, outbound, inbound, pending, attempt, writing, progressed,
                 finishing, responses, record>>

PingWritten ==
  /\ pc = "ping" /\ pc' = "select"
  /\ UNCHANGED <<handle, queued, outbound, inbound, pending, attempt, writing, progressed,
                 finishing, responses, record>>

PingFailed ==
  /\ pc = "ping"
  /\ OutcomeRetry(progressed)
  /\ UNCHANGED <<handle, queued, writing, progressed, finishing, responses, record>>

(***************************************************************************)
(* The service.                                                            *)
(***************************************************************************)
\* A text frame with or without tokens, and with or without `finished`.
RecvResponse(tokens, finished) ==
  /\ pc = "select" /\ writing = 0 /\ responses < MaxResponses
  /\ responses' = responses + 1
  /\ progressed' = TRUE
  /\ IF tokens THEN Report("response") ELSE UNCHANGED inbound
  /\ pc' = IF finished THEN "closeFinished" ELSE pc
  /\ UNCHANGED <<handle, queued, outbound, pending, attempt, writing, finishing, record>>

\* An error frame.  A binary frame is fatal too, and ends the session the same way.
RecvError(retryable) ==
  /\ pc = "select" /\ writing = 0 /\ responses < MaxResponses
  /\ responses' = responses + 1
  /\ progressed' = TRUE
  /\ IF retryable THEN OutcomeRetry(TRUE) ELSE OutcomeFatal
  /\ UNCHANGED <<handle, queued, writing, finishing, record>>

\* Closed by the peer, or a transport error.
ConnectionLost ==
  /\ pc = "select" /\ writing = 0
  /\ IF finishing THEN OutcomeFinished ELSE OutcomeRetry(progressed)
  /\ UNCHANGED <<handle, queued, writing, progressed, finishing, responses, record>>

\* FINISH_TIMEOUT after end-of-stream.
Watchdog ==
  /\ pc = "select" /\ writing = 0 /\ finishing
  /\ pc' = "closeFinished"
  /\ UNCHANGED <<handle, queued, outbound, inbound, pending, attempt, writing, progressed,
                 finishing, responses, record>>

(***************************************************************************)
(* wait_backoff: audio moves to pending, the rest interrupts the wait.     *)
(***************************************************************************)
BackoffOver ==
  /\ pc = "backoff" /\ pc' = "connect"
  /\ UNCHANGED <<handle, queued, outbound, inbound, pending, attempt, writing, progressed,
                 finishing, responses, record>>

BackoffAudioDropped ==                                     \* mutant: not kept, still counted
  /\ pc = "backoff" /\ outbound # <<>> /\ Head(outbound).type = "audio"
  /\ Pop
  /\ UNCHANGED <<handle, queued, inbound, pc, pending, attempt, writing, progressed, finishing,
                 responses, record>>
BackoffAudio ==
  /\ pc = "backoff" /\ outbound # <<>> /\ Head(outbound).type = "audio"
  /\ Pop
  /\ LET f == Head(outbound).frame
     IN  IF queued > MaxQueued
         THEN queued' = queued - Samples[f] /\ UNCHANGED pending
         ELSE pending' = Append(pending, f) /\ UNCHANGED queued
  /\ UNCHANGED <<handle, inbound, pc, attempt, writing, progressed, finishing, responses, record>>

BackoffInterrupted ==
  /\ pc = "backoff" /\ outbound # <<>> /\ Head(outbound) \in {Finish, Shutdown}
  /\ IF Head(outbound) = Finish THEN OutcomeFinished ELSE OutcomeShutdown
  /\ UNCHANGED <<handle, queued, writing, progressed, finishing, responses, record>>

-------------------------------------------------------------------------------
Init ==
  /\ hpc = "ready" /\ frame = 1 /\ finish_sent = FALSE /\ heard = "none"
  /\ queued = 0 /\ outbound = <<>> /\ inbound = <<>>
  /\ pc = "spawned" /\ pending = <<>> /\ attempt = 0 /\ writing = 0
  /\ progressed = FALSE /\ finishing = FALSE /\ responses = 0
  /\ wire = <<>> /\ failed = {} /\ late = {} /\ accepted = {} /\ mark = {}

HandleNext == SendCheck \/ SendCount \/ SendPush \/ CallFinish \/ Receive \/ DropHandle \/ Join

\* What the thread does by itself or because one of its own timers runs out.
ThreadStep ==
  \/ ReplayPending \/ TakeShutdown \/ TakeFinish \/ TakeAudio \/ FlushDone
  \/ BackoffOver \/ BackoffAudio \/ BackoffInterrupted \/ Watchdog \/ PingTick
  \/ RuntimeBuilt \/ RuntimeFailed

\* What the network makes of the write or the connect the thread waits for.
WriteStep == StartOk \/ FrameWritten \/ FrameFailed \/ EosWritten \/ EosFailed \/ Closed
             \/ PingWritten \/ PingFailed

ConnectStep == ConnectOk \/ ConnectFail

ServiceStep == \/ \E tokens, finished \in BOOLEAN : RecvResponse(tokens, finished)
               \/ \E retryable \in BOOLEAN : RecvError(retryable)
               \/ ConnectionLost

Next == HandleNext \/ Joined \/ ThreadStep \/ WriteStep \/ ConnectStep \/ ServiceStep

Spec == Init /\ [][Next]_vars

(***************************************************************************)
(* Fairness.  The runtime polls the task, and select! picks among the arms *)
(* that are ready at random, so a message that waits, or the watchdog once *)
(* it has run out, is not passed over for ever in favour of the keepalive; *)
(* sleeps and CONNECT_TIMEOUT end.  The owner of the handle owes nothing   *)
(* but the return of its own join.  That a write completes or fails is not *)
(* up to the program: FairSpec adds it as an assumption on the network.    *)
(***************************************************************************)
ThreadFairness ==
  /\ SF_vars(TakeShutdown \/ TakeFinish \/ TakeAudio)
  /\ SF_vars(Watchdog)
  /\ WF_vars(RuntimeBuilt \/ RuntimeFailed)
  /\ WF_vars(ReplayPending)
  /\ WF_vars(FlushDone)
  /\ WF_vars(BackoffOver \/ BackoffInterrupted)
  /\ WF_vars(ConnectOk \/ (pc = "connect" /\ ConnectFail))
  /\ WF_vars(Join)

NetworkFairness == WF_vars(WriteStep \/ (pc = "start" /\ ConnectFail))

FairSpec == Spec /\ ThreadFairness /\ NetworkFairness

-------------------------------------------------------------------------------
TypeOK ==
  /\ hpc \in {"ready", "accepted", "counted", "joining", "joined"}
  /\ frame \in 1..MaxFrames + 1
  /\ hpc \in {"accepted", "counted"} => frame \in Frame
  /\ finish_sent \in BOOLEAN
  /\ heard \in Terminal \cup {"none"}
  /\ queued \in Int
  /\ outbound \in Seq(Outbound)
  /\ inbound \in Seq(Inbound)
  /\ pc \in {"spawned", "connect", "start", "replay", "select", "flush", "eos", "ping",
             "closeShutdown", "closeFinished", "backoff", "exited"}
  /\ pending \in Seq(Frame)
  /\ attempt \in 0..MaxAttempts + 1
  /\ writing \in Frame \cup {0}
  /\ progressed \in BOOLEAN /\ finishing \in BOOLEAN
  /\ responses \in 0..MaxResponses
  /\ wire \in Seq(Frame)
  /\ failed \subseteq Frame /\ late \subseteq Frame
  /\ accepted \subseteq Frame /\ mark \subseteq Frame

\* The samples of each message of a channel, and of each frame of a list.
Costs(messages) ==
  [i \in 1..Len(messages) |->
     IF messages[i].type = "audio" THEN Samples[messages[i].frame] ELSE 0]
Lengths(frames) == [i \in 1..Len(frames) |-> Samples[frames[i]]]

\* The atomic counter never passes the ceiling, whatever the thread does between the check
\* and the increment (client.rs:198-206), and while the thread runs it is what waits in the
\* channel and in pending, plus the frame that is counted but not yet sent: no outage, retry
\* or late frame leaks budget, which would end in every further frame being refused.
Backlog ==
  /\ queued <= MaxQueued
  /\ ~Exited =>
       queued = Total(Costs(outbound)) + Total(Lengths(pending))
                + (IF hpc = "counted" THEN Samples[frame] ELSE 0)

Elements(s) == {s[i] : i \in 1..Len(s)}
Increasing(s) == \A i, j \in 1..Len(s) : i < j => s[i] < s[j]
Before(S, T) == \A a \in S, b \in T : a < b
Travelling == {writing} \ {0}
QueuedIn(messages) ==
  {messages[i].frame : i \in {j \in 1..Len(messages) : messages[j].type = "audio"}}
Queued == QueuedIn(outbound)
InCaptureOrder(messages) == \A i, j \in 1..Len(messages) :
  i < j /\ messages[i].type = "audio" /\ messages[j].type = "audio"
    => messages[i].frame < messages[j].frame

\* Audio reaches the service in capture order and no frame twice, across reconnects:
\* what is written, then what is being written, then what waits for the connection, then
\* what is in the channel (client.rs:273-274 and 436-437).
CaptureOrder ==
  /\ Increasing(wire) /\ Increasing(pending) /\ InCaptureOrder(outbound)
  /\ Before(Elements(wire), Travelling \cup Elements(pending) \cup Queued)
  /\ Before(Travelling, Elements(pending) \cup Queued)
  /\ Before(Elements(pending), Queued)

\* A reconnect punches no hole into the stream (client.rs:340-341): while the session
\* lives, the only accepted audio that is gone is a frame whose own write failed, or one
\* that came after end-of-stream.
NoHole ==
  ~Exited => accepted \subseteq Elements(wire) \cup failed \cup late \cup Travelling
                                \cup Elements(pending) \cup Queued

\* Everything accepted before finish() is ahead of end-of-stream, or its write failed: the
\* handshake does not truncate the tail (client.rs:477-480), wherever it is called.
TailBeforeEos == finishing /\ finish_sent => mark \subseteq Elements(wire) \cup failed

\* No audio is written on a connection that has carried end-of-stream.
NothingAfterEos == [][finishing => wire' = wire]_vars

\* The session ends with at most one terminal message, and nothing follows it: an owner
\* that stops reading at Finished or Fatal has missed nothing.
TerminalIsLast ==
  /\ \A i \in 1..Len(inbound) : inbound[i] \in Terminal => i = Len(inbound) /\ Exited
  /\ heard # "none" => inbound = <<>> /\ Exited

\* When a send finds the channel closed, the reason is already in the inbound channel or
\* has been read (backend.rs:122-124 and 220-225).
SendFailureExplained ==
  Exited /\ hpc \notin {"joining", "joined"}
    => heard # "none" \/ (inbound # <<>> /\ Last(inbound) \in Terminal)

Contract == INSTANCE ClientContract WITH
  Message <- Inbound, LastMessage <- Terminal,
  alive <- ~Exited, owned <- hpc \notin {"joining", "joined"}

\* The whole of what the adapter is written against: the thread behaves, through the inbound
\* channel and its end, like the one of ClientContract (client.rs:112-124 and 259-271).
KeepsClientContract == Contract!Spec

\* Dropping the handle returns: the join is not kept waiting for ever (client.rs:128-130).
JoinReturns == hpc = "joining" ~> hpc = "joined"

\* Accepted audio does not rot in a channel or in pending: it is written or its write
\* fails, unless the session ends first.
AudioMoves == \A f \in Frame :
  f \in accepted ~> f \in Elements(wire) \cup failed \cup late \/ Exited

===============================================================================
