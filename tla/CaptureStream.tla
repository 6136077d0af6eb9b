----------------------------- MODULE CaptureStream -----------------------------
(***************************************************************************)
(* The life of a capture stream, from AudioCapture::start to               *)
(* AudioStream::stop, for the three backends: pipewire.rs, whose start     *)
(* returns before its thread has connected; wasapi_process.rs, whose start *)
(* waits for the thread with a timeout and gives the thread up when it     *)
(* expires; cpal.rs, whose callback belongs to the library.  The engine    *)
(* thread of audio_engine.rs starts, stops and swaps them; it is blocked   *)
(* in `start` or in the join of `stop` while the threads run.              *)
(*                                                                         *)
(* A capture buffer is the number of the session it was made for; what a   *)
(* batch holds does not matter here, only which thread puts it where.      *)
(***************************************************************************)
EXTENDS Naturals

CONSTANTS Platforms,    \* sets of backends that one build offers together
          MaxStreams,   \* bound: streams started in one behaviour
          MaxBatches,   \* bound: batches one stream pushes
          MaxCommands   \* bound: commands the engine handles

Kind == {"pipewire", "wasapi", "cpal"}

ASSUME CaptureStreamAssumption ==
  /\ Platforms \subseteq SUBSET Kind
  /\ MaxStreams \in Nat /\ MaxBatches \in Nat /\ MaxCommands \in Nat

Stream == 1..MaxStreams

VARIABLES
  kinds,         \* the backends of this build
  kind,          \* stream -> its backend
  buffer,        \* stream -> the session whose buffer it fills
  pc,            \* stream -> "unborn", in setup, between batches, holding a batch, "gone"
  stop_flag,     \* stream -> its capture_stop_flag
  shutdown,      \* stream -> pipewire: a message is in the shutdown channel
  init,          \* stream -> wasapi: what the thread has sent to the start that waits
  pushed,        \* stream -> batches pushed
  late,          \* history: stream -> batches pushed since start gave it up
  streams,       \* streams started so far
  abandoned,     \* streams that start gave up waiting for
  epc,           \* the engine thread
  request,       \* the command being handled: [type, kind]
  commands,      \* commands handled so far
  active_stream, \* the stream the engine holds, or 0
  starting,      \* the stream whose start has not returned, or 0
  session,       \* buffers made so far
  active_buffer, \* the session whose buffer is held, or 0
  reported       \* history: sessions that have no stream and were told so

made == <<kind, buffer, streams>>
told == <<stop_flag, shutdown, abandoned>>
batches == <<pushed, late>>
slots == <<active_stream, starting, session, active_buffer, reported>>
engine == <<epc, request, commands, slots>>
vars == <<kinds, made, told, pc, init, batches, engine>>

Alive == {"setup", "pump", "holding"}
Request(type, k) == [type |-> type, kind |-> k]

-------------------------------------------------------------------------------
(***************************************************************************)
(* The threads.                                                            *)
(***************************************************************************)
Become(i, s) == pc' = [pc EXCEPT ![i] = s]

\* pipewire: a failure is printed and the thread is gone.  wasapi: the result is sent first,
\* or the thread dies with the sender.
SetupDone(i) ==
  /\ pc[i] = "setup"
  /\ Become(i, "pump")
  /\ init' = [init EXCEPT ![i] = IF kind[i] = "wasapi" THEN "ok" ELSE @]
  /\ UNCHANGED <<kinds, made, told, batches, engine>>

SetupFails(i) ==
  /\ pc[i] = "setup"
  /\ Become(i, "gone")
  /\ \E sent \in {"none", "err"} : init' = [init EXCEPT ![i] = IF kind[i] = "wasapi" THEN sent ELSE @]
  /\ UNCHANGED <<kinds, made, told, batches, engine>>

\* The check at the top of the callback or of the pump; the callback of cpal has none.
TakeBatch(i) ==
  /\ pc[i] = "pump" /\ pushed[i] < MaxBatches
  /\ kind[i] = "cpal" \/ ~stop_flag[i]
  /\ Become(i, "holding")
  /\ UNCHANGED <<kinds, made, told, init, batches, engine>>

PushBatch(i) ==
  /\ pc[i] = "holding"
  /\ Become(i, "pump")
  /\ pushed' = [pushed EXCEPT ![i] = @ + 1]
  /\ late' = IF i \in abandoned THEN [late EXCEPT ![i] = @ + 1] ELSE late
  /\ UNCHANGED <<kinds, made, told, init, engine>>

\* The 10 ms timer of the PipeWire loop; the 200 ms wait of the WASAPI pump.
SeesStop(i) == \/ kind[i] = "pipewire" /\ (stop_flag[i] \/ shutdown[i])
               \/ kind[i] = "wasapi" /\ stop_flag[i]
ThreadExits(i) ==
  /\ pc[i] = "pump" /\ SeesStop(i)
  /\ Become(i, "gone")
  /\ UNCHANGED <<kinds, made, told, init, batches, engine>>

\* A capture client that fails ends the WASAPI pump; nobody is told.
PumpFails(i) ==
  /\ pc[i] = "pump" /\ kind[i] = "wasapi"
  /\ Become(i, "gone")
  /\ UNCHANGED <<kinds, made, told, init, batches, engine>>

-------------------------------------------------------------------------------
(***************************************************************************)
(* The engine thread.                                                      *)
(***************************************************************************)
NextCommand == epc = "idle" /\ commands < MaxCommands /\ commands' = commands + 1

StopWithoutShutdown(i, flagged) ==                         \* mutant: only the flag is relied on
  /\ stop_flag' = [j \in Stream |-> stop_flag[j] \/ (j = i /\ (flagged \/ kind[j] # "pipewire"))]
  /\ UNCHANGED shutdown
\* AudioStream::stop up to the join: pipewire sends on the shutdown channel, the others set
\* the flag they were started with, if the caller has not set it.
SignalStop(i, flagged) ==
  /\ stop_flag' = [j \in Stream |-> stop_flag[j] \/ (j = i /\ (flagged \/ kind[j] # "pipewire"))]
  /\ shutdown' = [j \in Stream |-> shutdown[j] \/ (j = i /\ kind[j] = "pipewire")]

\* stop_active_session sets the capture flag before it stops the stream.
HandleStartOrStop ==
  /\ NextCommand
  /\ request' \in {Request("start", k) : k \in kinds} \cup {Request("stop", "cpal")}
  /\ epc' = "stopping" /\ SignalStop(active_stream, TRUE)
  /\ UNCHANGED <<kinds, made, abandoned, pc, init, batches, slots>>

\* reconnect_stream stops the stream first and sets its flag after the join.
HandleReconnect ==
  /\ NextCommand
  /\ request' \in {Request("reconnect", k) : k \in kinds}
  /\ IF active_buffer = 0 THEN UNCHANGED <<epc, stop_flag, shutdown>>
     ELSE epc' = "stopping" /\ SignalStop(active_stream, FALSE)
  /\ UNCHANGED <<kinds, made, abandoned, pc, init, batches, slots>>

\* Dropping a cpal stream waits for its callback; the other two threads are joined.
Stopped(i) == i # 0 => IF kind[i] = "cpal" THEN pc[i] # "holding" ELSE pc[i] = "gone"

Dropped(i) == pc' = [j \in Stream |-> IF j = i /\ kind[j] = "cpal" THEN "gone" ELSE pc[j]]

JoinStream ==
  /\ epc = "stopping" /\ Stopped(active_stream)
  /\ Dropped(active_stream)
  /\ stop_flag' = [j \in Stream |-> stop_flag[j] \/ j = active_stream]
  /\ active_stream' = 0
  /\ active_buffer' = IF request.type = "reconnect" THEN active_buffer ELSE 0
  /\ epc' = IF request.type = "stop" THEN "idle" ELSE "open"
  /\ UNCHANGED <<kinds, made, shutdown, abandoned, init, batches, request, commands, starting,
                 session, reported>>

\* start_session makes a buffer, reconnect_stream goes on with that of the session.
MakeBuffer ==
  /\ epc = "open" /\ epc' = "call"
  /\ session' = IF request.type = "start" THEN session + 1 ELSE session
  /\ UNCHANGED <<kinds, made, told, pc, init, batches, request, commands, active_stream, starting,
                 active_buffer, reported>>
Target == IF request.type = "reconnect" THEN active_buffer ELSE session

Held(i) ==
  /\ epc' = "idle" /\ active_stream' = i /\ starting' = 0
  /\ active_buffer' = Target /\ reported' = reported \ {Target}
  /\ UNCHANGED <<request, commands, session>>

\* The error goes to the UI; a session that was being reconnected stays, without a stream.
NotHeld ==
  /\ epc' = "idle" /\ starting' = 0 /\ reported' = reported \cup {Target}
  /\ UNCHANGED <<request, commands, active_stream, session, active_buffer>>

\* AudioCapture::start of the backend the device id names.  The id may not be one of this
\* backend, the device may be gone: an error before there is a thread.
StartFails ==
  /\ epc = "call"
  /\ NotHeld
  /\ UNCHANGED <<kinds, made, told, pc, init, batches>>

StartStream ==
  /\ epc = "call" /\ streams < MaxStreams
  /\ LET i == streams + 1
         k == request.kind
     IN  /\ streams' = i
         /\ kind' = [kind EXCEPT ![i] = k] /\ buffer' = [buffer EXCEPT ![i] = Target]
         /\ Become(i, IF k = "cpal" THEN "pump" ELSE "setup")
         /\ IF k = "wasapi"
            THEN /\ epc' = "waiting" /\ starting' = i
                 /\ UNCHANGED <<request, commands, active_stream, session, active_buffer, reported>>
            ELSE Held(i)
  /\ UNCHANGED <<kinds, told, init, batches>>

\* recv_timeout of the WASAPI start: the thread's word, its end, or 5 s without either.
InitArrives ==
  /\ epc = "waiting" /\ init[starting] = "ok"
  /\ Held(starting)
  /\ UNCHANGED <<kinds, made, told, pc, init, batches>>

InitFails ==
  /\ epc = "waiting" /\ init[starting] # "ok" /\ pc[starting] = "gone"
  /\ NotHeld
  /\ UNCHANGED <<kinds, made, told, pc, init, batches>>

InitExpires ==
  /\ epc = "waiting" /\ pc[starting] = "setup"
  /\ epc' = "expired"
  /\ UNCHANGED <<kinds, made, told, pc, init, batches, request, commands, slots>>

AbandonUnflagged ==                                        \* mutant: the flag is not set
  /\ epc = "expired"
  /\ abandoned' = abandoned \cup {starting}
  /\ NotHeld
  /\ UNCHANGED <<kinds, made, stop_flag, shutdown, pc, init, batches>>
\* The flag is all that is left to tell the thread, which may be past its check by now.
Abandon ==
  /\ epc = "expired"
  /\ stop_flag' = [stop_flag EXCEPT ![starting] = TRUE]
  /\ abandoned' = abandoned \cup {starting}
  /\ NotHeld
  /\ UNCHANGED <<kinds, made, shutdown, pc, init, batches>>

\* The command channel is closed: the engine goes, and what it holds is dropped without
\* stop(), which only a cpal stream notices.
EngineExits ==
  /\ epc = "idle" /\ epc' = "exited"
  /\ active_stream # 0 /\ kind[active_stream] = "cpal" => Stopped(active_stream)
  /\ Dropped(active_stream)
  /\ UNCHANGED <<kinds, made, told, init, batches, request, commands, slots>>

-------------------------------------------------------------------------------
Init ==
  /\ kinds \in Platforms
  /\ kind = [i \in Stream |-> "cpal"] /\ buffer = [i \in Stream |-> 0]
  /\ pc = [i \in Stream |-> "unborn"] /\ init = [i \in Stream |-> "none"]
  /\ stop_flag = [i \in Stream |-> FALSE] /\ shutdown = [i \in Stream |-> FALSE]
  /\ pushed = [i \in Stream |-> 0] /\ late = [i \in Stream |-> 0]
  /\ streams = 0 /\ abandoned = {}
  /\ epc = "idle" /\ request = Request("stop", "cpal") /\ commands = 0
  /\ active_stream = 0 /\ starting = 0 /\ session = 0 /\ active_buffer = 0 /\ reported = {}

ThreadNext(i) == SetupDone(i) \/ SetupFails(i) \/ TakeBatch(i) \/ PushBatch(i) \/ ThreadExits(i)
                 \/ PumpFails(i)
EngineWork == JoinStream \/ MakeBuffer \/ StartFails \/ StartStream \/ InitArrives \/ InitFails
              \/ InitExpires \/ Abandon
EngineNext == EngineWork \/ HandleStartOrStop \/ HandleReconnect \/ EngineExits

Next == EngineNext \/ \E i \in Stream : ThreadNext(i)

Spec == Init /\ [][Next]_vars

\* Setting up a PipeWire stream settles; that of WASAPI may hang, which is what its timeout is
\* for.  Timers fire, a batch that was taken is pushed, and the engine thread is scheduled.
ThreadFair(i) == ThreadExits(i) \/ PushBatch(i)
                 \/ (kind[i] = "pipewire" /\ (SetupDone(i) \/ SetupFails(i)))
FairSpec == Spec /\ WF_vars(EngineWork) /\ \A i \in Stream : WF_vars(ThreadFair(i))

-------------------------------------------------------------------------------
TypeOK ==
  /\ kinds \in Platforms /\ kind \in [Stream -> Kind] /\ buffer \in [Stream -> Nat]
  /\ pc \in [Stream -> Alive \cup {"unborn", "gone"}]
  /\ stop_flag \in [Stream -> BOOLEAN] /\ shutdown \in [Stream -> BOOLEAN]
  /\ init \in [Stream -> {"none", "ok", "err"}]
  /\ pushed \in [Stream -> Nat] /\ late \in [Stream -> Nat]
  /\ streams \in 0..MaxStreams /\ abandoned \subseteq Stream
  /\ epc \in {"idle", "stopping", "open", "call", "waiting", "expired", "exited"}
  /\ request \in [type : {"start", "stop", "reconnect"}, kind : Kind] /\ commands \in Nat
  /\ active_stream \in Stream \cup {0} /\ starting \in Stream \cup {0}
  /\ session \in Nat /\ active_buffer \in Nat /\ reported \subseteq Nat

\* A stream thread that still runs is the one the engine holds or waits for, or one it gave up
\* on, which has been told to end; and the held one fills the buffer of the session that runs.
ThreadsAccounted ==
  /\ \A i \in Stream : pc[i] \in Alive =>
       \/ i = active_stream
       \/ i = starting
       \/ i \in abandoned /\ stop_flag[i]
  /\ active_stream # 0 => buffer[active_stream] = active_buffer

\* A session that runs without a stream does so after an error the user was shown.
LostStreamReported ==
  epc = "idle" /\ active_buffer # 0 /\ active_stream = 0 => active_buffer \in reported

\* No thread runs that nobody can stop, and no session without a stream that nobody was told of
\* (audio_engine.rs:407-506, wasapi_process.rs:101-117).
StreamsAccounted == ThreadsAccounted /\ LostStreamReported

\* Audio gets into a buffer from the held stream and from the one being started; a thread that
\* was given up may push the one batch it had past the check of its flag, and no more.
OnlyHeldStreamFills ==
  [][\A i \in Stream : pushed'[i] # pushed[i] =>
       \/ i = active_stream
       \/ i = starting
       \/ i \in abandoned /\ late[i] = 0]_vars


\* stop() and start() return, whatever the thread is in the middle of, so the engine gets to
\* the next command; a thread that was given up ends once its setup has.
WindsDown ==
  /\ epc \notin {"idle", "exited"} ~> epc = "idle"
  /\ \A i \in Stream : i \in abandoned /\ pc[i] = "pump" ~> pc[i] = "gone"
===============================================================================
