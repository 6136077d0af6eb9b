-------------------------------- MODULE Engine --------------------------------
(***************************************************************************)
(* audio_engine.rs: the engine thread and its commands, the session it     *)
(* starts and stops, the capture stream it can swap, the models it keeps   *)
(* between sessions, and the processing thread of each session up to what  *)
(* the engine can see of it (setup, iterations, the ways it ends).         *)
(*                                                                         *)
(* A session is the number of its processing thread: threads keep running  *)
(* until they see their stop flag, and stop_active_session waits for that  *)
(* in `join` while commands pile up in the channel.  Capture backends,     *)
(* devices and models are the environment: anything they do may fail.      *)
(***************************************************************************)
EXTENDS Naturals, Sequences, FiniteSets, SequencesExt

CONSTANTS Device,       \* ids of capture devices
          NoDevice,     \* Start without a device; no session in the session info
          Settings,     \* settings records the UI may send
          NoSettings,   \* the settings of a command that carries none
          MaxCommands,  \* bound: commands sent in one behaviour
          MaxQueue      \* bound: commands waiting in the channel

\* A settings record names what the engine compares or hands on: the provider, the model
\* (path and thread counts), the VAD thresholds and the diagnostics switch.
ASSUME EngineAssumption ==
  /\ NoDevice \notin Device
  /\ NoSettings \notin Settings
  /\ \A s \in Settings \cup {NoSettings} :
       /\ DOMAIN s = {"provider", "model", "vad", "diagnostics"}
       /\ s.diagnostics \in BOOLEAN
  /\ MaxCommands \in Nat /\ MaxQueue \in Nat

Command(type, device, settings) == [type |-> type, device |-> device, settings |-> settings]
Start(d, s) == Command("start", d, s)
Stop == Command("stop", NoDevice, NoSettings)
Reconnect(d) == Command("reconnect", d, NoSettings)
UpdateSettings(s) == Command("update", NoDevice, s)
ListDevices == Command("list", NoDevice, NoSettings)
Commands == {Start(d, s) : d \in Device \cup {NoDevice}, s \in Settings}
            \cup {Reconnect(d) : d \in Device} \cup {UpdateSettings(s) : s \in Settings}
            \cup {Stop, ListDevices}

Session == 1..MaxCommands

VARIABLES
  queue,             \* cmd_rx
  sent,              \* commands sent so far
  epc,               \* the engine thread: in recv, in a join, or in start_session
  current,           \* the Start or Stop being handled
  session,           \* sessions started so far
  active_stream,     \* the capture the engine holds, or 0
  captures,          \* captures that run: [id, device, session]
  streams,           \* captures started so far
  processing_thread, \* the session whose JoinHandle is held, or 0
  stop_flag,         \* sessions whose stop flag is set
  settings_tx,       \* the session the settings channel goes to, or 0
  active_buffer,     \* the session whose capture buffer is held, or 0
  active_device,     \* active_session_info.device_id
  cached_backend,    \* a loaded model, or NoModel
  cached_backend_id,
  cached_vad,        \* thresholds of the loaded VAD, or "none"
  cached_model,      \* cached_model_path and cached_model_config
  diag_enabled,
  pc,                \* session -> its processing thread: "unborn", running, or how it ended
  start_settings,    \* session -> the settings its thread was given
  backend, vad,      \* session -> the models of its thread: one, NoModel; thresholds, "none"
  settings_rx,       \* session -> settings sent to it and not taken
  reloaded,          \* history: sessions that have taken some
  errors             \* history: sessions whose end was reported with on_error

engine == <<epc, current, session>>
channel == <<queue, sent>>
capture == <<active_stream, captures, streams>>
held == <<processing_thread, stop_flag, settings_tx, active_buffer, active_device>>
cache == <<cached_backend, cached_backend_id, cached_vad, cached_model>>
threads == <<pc, start_settings, backend, vad, settings_rx, reloaded>>
vars == <<channel, engine, capture, held, cache, diag_enabled, threads, errors>>

NoModel == [provider |-> "none", model |-> "none"]
ModelOf(s) == [provider |-> s.provider, model |-> s.model]

\* NemotronBackend::is_cacheable; SonioxBackend answers false.
Cacheable(m) == m.provider = "nemotron"

Running == {"setup", "loop"}
\* Ends with the models in hand, after Stop or after a fatal error; with an error; by a panic.
WithModels == {"stopped", "fatal"}
Done == WithModels \cup {"failed", "panicked"}
Handling == epc = "idle" /\ queue # <<>>
Next1 == Head(queue)
Pop == queue' = Tail(queue) /\ UNCHANGED sent

-------------------------------------------------------------------------------
SendCommand ==
  /\ sent < MaxCommands /\ Len(queue) < MaxQueue
  /\ \E c \in Commands : queue' = Append(queue, c)
  /\ sent' = sent + 1
  /\ UNCHANGED <<engine, capture, held, cache, diag_enabled, threads, errors>>

HandleListDevices ==
  /\ Handling /\ Next1.type = "list"
  /\ Pop
  /\ UNCHANGED <<engine, capture, held, cache, diag_enabled, threads, errors>>

\* The settings go to the channel of the running session; a thread that has ended has
\* dropped its receiver.
HandleUpdateSettings ==
  /\ Handling /\ Next1.type = "update"
  /\ Pop
  /\ diag_enabled' = Next1.settings.diagnostics
  /\ settings_rx' = IF settings_tx # 0 /\ pc[settings_tx] \in Running
                    THEN [settings_rx EXCEPT ![settings_tx] = Append(@, Next1.settings)]
                    ELSE settings_rx
  /\ UNCHANGED <<engine, capture, held, cache, pc, start_settings, backend, vad, reloaded, errors>>

\* stop_active_session up to the join: both flags, the settings channel, the stream.
SignalStop ==
  /\ stop_flag' = stop_flag \cup ({processing_thread} \ {0})
  /\ settings_tx' = 0
  /\ captures' = {c \in captures : c.id # active_stream}
  /\ active_stream' = 0 /\ UNCHANGED streams

\* Start stops the session that runs before it starts another.
HandleStartOrStop ==
  /\ Handling /\ Next1.type \in {"start", "stop"}
  /\ Pop /\ current' = Next1
  /\ epc' = "joining" /\ SignalStop
  /\ UNCHANGED <<session, processing_thread, active_buffer, active_device, cache, diag_enabled,
                 threads, errors>>

\* What the joined thread hands back goes into the cache.
Cache(n) ==
  IF pc[n] \in WithModels
  THEN /\ IF Cacheable(backend[n])
          THEN cached_backend' = backend[n] /\ UNCHANGED cached_backend_id
          ELSE cached_backend_id' = "none" /\ UNCHANGED cached_backend
       /\ cached_vad' = vad[n]
       /\ UNCHANGED cached_model
  ELSE cached_backend_id' = "none" /\ UNCHANGED <<cached_backend, cached_vad, cached_model>>

JoinWithoutReport ==                                       \* mutant: a panic is swallowed
  /\ epc = "joining"
  /\ processing_thread # 0 => pc[processing_thread] \in Done
  /\ IF processing_thread = 0 THEN UNCHANGED cache ELSE Cache(processing_thread)
  /\ UNCHANGED errors
  /\ processing_thread' = 0 /\ active_buffer' = 0 /\ active_device' = NoDevice
  /\ epc' = IF current.type = "start" THEN "starting" ELSE "idle"
  /\ UNCHANGED <<channel, current, session, capture, stop_flag, settings_tx, diag_enabled, threads>>
JoinWithoutWait ==                                         \* mutant: the handle is detached
  /\ epc = "joining"
  /\ UNCHANGED <<cache, errors>>
  /\ processing_thread' = 0 /\ active_buffer' = 0 /\ active_device' = NoDevice
  /\ epc' = IF current.type = "start" THEN "starting" ELSE "idle"
  /\ UNCHANGED <<channel, current, session, capture, stop_flag, settings_tx, diag_enabled, threads>>
\* The rest of stop_active_session: the join and its result, then the session is cleared.
Join ==
  /\ epc = "joining"
  /\ processing_thread # 0 => pc[processing_thread] \in Done
  /\ IF processing_thread = 0 THEN UNCHANGED <<cache, errors>>
     ELSE /\ Cache(processing_thread)
          /\ errors' = IF pc[processing_thread] = "panicked"
                       THEN errors \cup {processing_thread} ELSE errors
  /\ processing_thread' = 0 /\ active_buffer' = 0 /\ active_device' = NoDevice
  /\ epc' = IF current.type = "start" THEN "starting" ELSE "idle"
  /\ UNCHANGED <<channel, current, session, capture, stop_flag, settings_tx, diag_enabled, threads>>

-------------------------------------------------------------------------------
\* start_session fails: no device, or the capture does not start.
StartFails ==
  /\ epc = "starting"
  /\ epc' = "idle"
  /\ UNCHANGED <<channel, current, session, capture, held, cache, diag_enabled, threads, errors>>

CompatibleByProvider(s) == cached_backend_id = s.provider  \* mutant: the model not compared
Compatible(s) == cached_model = s.model /\ cached_backend_id = s.provider

\* start_session from the capture on: a thread with the cached models if they are the ones
\* the settings ask for, and the new session in every slot.
StartSession ==
  /\ epc = "starting" /\ session < MaxCommands
  /\ LET s == current.settings
         n == session + 1
         hit == Compatible(s)
     IN  \E d \in IF current.device = NoDevice THEN Device ELSE {current.device} :
           /\ session' = n /\ streams' = streams + 1
           /\ active_stream' = streams + 1
           /\ captures' = captures \cup {[id |-> streams + 1, device |-> d, session |-> n]}
           /\ pc' = [pc EXCEPT ![n] = "setup"]
           /\ start_settings' = [start_settings EXCEPT ![n] = s]
           /\ backend' = [backend EXCEPT ![n] = IF hit THEN cached_backend ELSE NoModel]
           /\ vad' = [vad EXCEPT ![n] = IF hit THEN cached_vad ELSE "none"]
           /\ processing_thread' = n /\ settings_tx' = n /\ active_buffer' = n
           /\ active_device' = d
           /\ cached_backend' = NoModel /\ cached_vad' = "none"
           /\ cached_model' = s.model /\ cached_backend_id' = s.provider
           /\ diag_enabled' = s.diagnostics
  /\ epc' = "idle"
  /\ UNCHANGED <<channel, current, stop_flag, settings_rx, reloaded, errors>>

\* reconnect_stream: the old stream stops whatever becomes of the new one.
HandleReconnect ==
  /\ Handling /\ Next1.type = "reconnect"
  /\ Pop
  /\ IF active_buffer = 0 THEN UNCHANGED <<capture, active_device>>
     ELSE LET others == {c \in captures : c.id # active_stream}
          IN  \/ /\ streams' = streams + 1
                 /\ active_stream' = streams + 1
                 /\ captures' = others \cup {[id |-> streams + 1, device |-> Next1.device,
                                              session |-> active_buffer]}
                 /\ active_device' = Next1.device
              \/ /\ active_stream' = 0 /\ captures' = others
                 /\ UNCHANGED <<streams, active_device>>
  /\ UNCHANGED <<engine, processing_thread, stop_flag, settings_tx, active_buffer, cache,
                 diag_enabled, threads, errors>>

-------------------------------------------------------------------------------
(***************************************************************************)
(* The processing thread.                                                  *)
(***************************************************************************)
ThreadUnchanged == UNCHANGED <<channel, engine, capture, held, cache, diag_enabled, start_settings>>
Become(n, s) == pc' = [pc EXCEPT ![n] = s]

\* The receiver is dropped with the thread.
End(n, s) == Become(n, s) /\ settings_rx' = [settings_rx EXCEPT ![n] = <<>>]

\* create_backend reuses a cacheable instance of the same provider; the VAD is reset or
\* loaded; begin_session opens the model or the connection.
ThreadSetup(n) ==
  /\ pc[n] = "setup" /\ Become(n, "loop")
  /\ LET s == start_settings[n]
         reusable == Cacheable(backend[n]) /\ backend[n].provider = s.provider
     IN  /\ backend' = [backend EXCEPT ![n] = IF reusable THEN @ ELSE ModelOf(s)]
         /\ vad' = [vad EXCEPT ![n] = IF @ = "none" THEN s.vad ELSE @]
  /\ UNCHANGED <<settings_rx, reloaded, errors>>
  /\ ThreadUnchanged

\* Diagnostics, backend, VAD, resampler or begin_session: the error is reported.
ThreadFails(n) ==
  /\ pc[n] = "setup" /\ End(n, "failed")
  /\ errors' = errors \cup {n}
  /\ UNCHANGED <<backend, vad, reloaded>>
  /\ ThreadUnchanged

\* One iteration: at most one settings record is taken, and the backend may fail for good,
\* which is reported and ends the session with the models in hand.
ThreadIterate(n) ==
  /\ pc[n] = "loop" /\ n \notin stop_flag
  /\ IF settings_rx[n] = <<>> THEN UNCHANGED <<vad, reloaded>>
     ELSE /\ vad' = [vad EXCEPT ![n] = Head(settings_rx[n]).vad]
          /\ reloaded' = reloaded \cup {n}
  /\ \/ /\ settings_rx' = [settings_rx EXCEPT ![n] = IF @ = <<>> THEN @ ELSE Tail(@)]
        /\ UNCHANGED <<pc, errors>>
     \/ /\ End(n, "fatal")
        /\ errors' = errors \cup {n}
  /\ UNCHANGED backend
  /\ ThreadUnchanged

\* The stop flag is seen at the top of an iteration: end_session, whose updates are shown.
NeverStops(n) == FALSE                                     \* mutant: the flag is not read
ThreadStops(n) ==
  /\ pc[n] = "loop" /\ n \in stop_flag /\ End(n, "stopped")
  /\ UNCHANGED <<backend, vad, reloaded, errors>>
  /\ ThreadUnchanged

ThreadPanics(n) ==
  /\ pc[n] \in Running /\ End(n, "panicked")
  /\ UNCHANGED <<backend, vad, reloaded, errors>>
  /\ ThreadUnchanged

-------------------------------------------------------------------------------
Init ==
  /\ queue = <<>> /\ sent = 0 /\ epc = "idle" /\ current = Stop /\ session = 0
  /\ active_stream = 0 /\ captures = {} /\ streams = 0
  /\ processing_thread = 0 /\ stop_flag = {} /\ settings_tx = 0 /\ active_buffer = 0
  /\ active_device = NoDevice
  /\ cached_backend = NoModel /\ cached_backend_id = "none" /\ cached_vad = "none"
  /\ cached_model = "none" /\ diag_enabled = FALSE
  /\ pc = [n \in Session |-> "unborn"] /\ start_settings = [n \in Session |-> NoSettings]
  /\ backend = [n \in Session |-> NoModel] /\ vad = [n \in Session |-> "none"]
  /\ settings_rx = [n \in Session |-> <<>>] /\ reloaded = {} /\ errors = {}

EngineNext == HandleListDevices \/ HandleUpdateSettings \/ HandleStartOrStop \/ Join
              \/ StartFails \/ StartSession \/ HandleReconnect

ThreadWork(n) == ThreadSetup(n) \/ ThreadFails(n) \/ ThreadIterate(n) \/ ThreadStops(n)
ThreadNext(n) == ThreadWork(n) \/ ThreadPanics(n)

Next == SendCommand \/ EngineNext \/ \E n \in Session : ThreadNext(n)

Spec == Init /\ [][Next]_vars

\* Both threads are scheduled by the operating system; loading a model, opening a device and
\* one iteration of the loop take finite time.  Nothing obliges the UI to send a command, or a
\* thread to panic.
FairSpec == Spec /\ WF_vars(EngineNext) /\ \A n \in Session : WF_vars(ThreadWork(n))

-------------------------------------------------------------------------------
Thresholds == {s.vad : s \in Settings} \cup {"none"}
Models == {ModelOf(s) : s \in Settings} \cup {NoModel}
Capture == [id : Nat \ {0}, device : Device, session : Session]

TypeOK ==
  /\ queue \in Seq(Commands) /\ sent \in 0..MaxCommands
  /\ epc \in {"idle", "joining", "starting"} /\ current \in Commands
  /\ session \in 0..MaxCommands
  /\ active_stream \in Nat /\ captures \subseteq Capture /\ streams \in Nat
  /\ processing_thread \in Session \cup {0} /\ stop_flag \subseteq Session
  /\ settings_tx \in Session \cup {0} /\ active_buffer \in Session \cup {0}
  /\ active_device \in Device \cup {NoDevice}
  /\ cached_backend \in Models /\ cached_vad \in Thresholds
  /\ cached_backend_id \in {s.provider : s \in Settings} \cup {"none"}
  /\ cached_model \in {s.model : s \in Settings} \cup {"none"}
  /\ diag_enabled \in BOOLEAN
  /\ pc \in [Session -> Running \cup Done \cup {"unborn"}]
  /\ start_settings \in [Session -> Settings \cup {NoSettings}]
  /\ backend \in [Session -> Models] /\ vad \in [Session -> Thresholds]
  /\ settings_rx \in [Session -> Seq(Settings)]
  /\ reloaded \subseteq Session /\ errors \subseteq Session

OnlyHeldThreadRuns == \A n \in Session : pc[n] \in Running => processing_thread = n

\* What runs is held: a processing thread by its handle, so that none of an earlier session is
\* left to push updates into the transcript of a later one; at most one capture, by the stream
\* the engine can stop, into the buffer the session drains, on the device the watcher reads of;
\* and there is neither without a session.
OneSession ==
  /\ OnlyHeldThreadRuns
  /\ \A c \in captures : c.id = active_stream /\ c.session = active_buffer
  /\ active_stream # 0 => \E c \in captures : c.id = active_stream /\ c.device = active_device
  /\ epc = "idle" /\ processing_thread = 0 => active_device = NoDevice /\ active_stream = 0

\* A session transcribes with the model its settings name, whatever sessions, failed starts
\* and provider switches the cache has been through (audio_engine.rs:312-335), and the cache
\* holds no backend that cannot be reused, such as one with the socket of an earlier session
\* (backend.rs:166-169).
RightModel ==
  /\ \A n \in Session :
       pc[n] \in {"loop"} \cup WithModels => backend[n] = ModelOf(start_settings[n])
  /\ cached_backend # NoModel =>
       /\ Cacheable(cached_backend)
       /\ cached_backend.provider = cached_backend_id /\ cached_backend.model = cached_model

\* No session ends by itself without the user being told, at the latest when it is joined.
FailuresReported == \A n \in Session :
  pc[n] \in {"fatal", "failed", "panicked"} /\ processing_thread # n => n \in errors

\* Every command is handled: a Stop during model loading, or behind a Start that waits in a
\* join, only has to wait.
CommandsHandled == queue # <<>> ~> queue = <<>> /\ epc = "idle"

\* A session that has not been hot-reloaded itself opens and closes speech at the thresholds of
\* its own settings ("VAD speech-start threshold (probability to open a speech segment)",
\* settings.rs:31).
StartThresholds == \A n \in Session :
  pc[n] = "loop" /\ n \notin reloaded => vad[n] = start_settings[n].vad
===============================================================================
