------------------------------ MODULE EngineProofs ------------------------------
(***************************************************************************)
(* Theorems about Engine, for any devices, settings and numbers of         *)
(* commands.                                                               *)
(***************************************************************************)
EXTENDS Engine, TLAPS

USE EngineAssumption DEF Session

-------------------------------------------------------------------------------
(***************************************************************************)
(* Types.                                                                  *)
(***************************************************************************)
\* What a command carries.
LEMMA CommandTypes ==
  ASSUME NEW c \in Commands
  PROVE  /\ c.type = "start" => c.device \in Device \cup {NoDevice} /\ c.settings \in Settings
         /\ c.type = "reconnect" => c.device \in Device
         /\ c.type = "update" => c.settings \in Settings
BY DEF Commands, Command, Start, Stop, Reconnect, UpdateSettings, ListDevices

\* What the engine handles is a command, and so is what is left.
LEMMA HandledTypes ==
  ASSUME TypeOK, Handling
  PROVE  Next1 \in Commands /\ Tail(queue) \in Seq(Commands)
BY DEF TypeOK, Handling, Next1

LEMMA SettingsTypes ==
  ASSUME NEW s \in Settings
  PROVE  /\ s.vad \in Thresholds /\ ModelOf(s) \in Models
         /\ s.provider \in {t.provider : t \in Settings} /\ s.model \in {t.model : t \in Settings}
         /\ s.diagnostics \in BOOLEAN
BY DEF Thresholds, Models

LEMMA EngineTypes ==
  ASSUME TypeOK, SendCommand \/ EngineNext,
         epc = "starting" => current.type = "start"
  PROVE  TypeOK'
<1> USE DEF TypeOK, channel, engine, capture, held, cache, threads, Pop
<1>1. CASE SendCommand
  <2>1. queue' \in Seq(Commands) /\ sent' \in 0..MaxCommands
    BY <1>1 DEF SendCommand
  <2> QED BY <1>1, <2>1, SMTT(30) DEF SendCommand
<1>2. CASE HandleListDevices
  BY <1>2, HandledTypes, ZenonT(40) DEF HandleListDevices
<1>3. CASE HandleUpdateSettings
  <2>1. Next1.settings \in Settings /\ Next1.settings.diagnostics \in BOOLEAN
    BY <1>3, HandledTypes, CommandTypes DEF HandleUpdateSettings
  <2>2. ASSUME settings_tx \in Session
        PROVE  Append(settings_rx[settings_tx], Next1.settings) \in Seq(Settings)
    BY <2>1, <2>2
  <2>3. settings_rx' \in [Session -> Seq(Settings)]
    BY <1>3, <2>2 DEF HandleUpdateSettings
  <2> QED BY <1>3, <2>1, <2>3, HandledTypes, ZenonT(40) DEF HandleUpdateSettings
<1>4. CASE HandleStartOrStop
  BY <1>4, HandledTypes DEF HandleStartOrStop, SignalStop
<1>5. CASE Join
  <2>1. /\ cached_backend' \in Models /\ cached_vad' \in Thresholds
        /\ cached_backend_id' \in {s.provider : s \in Settings} \cup {"none"}
        /\ cached_model' \in {s.model : s \in Settings} \cup {"none"}
    BY <1>5 DEF Join, Cache
  <2>2. errors' \subseteq Session
    BY <1>5 DEF Join
  <2> QED BY <1>5, <2>1, <2>2 DEF Join
<1>6. CASE StartFails BY <1>6 DEF StartFails
<1>7. CASE StartSession
  <2> DEFINE s == current.settings
             n == session + 1
  <2>1. s \in Settings /\ n \in Session
    BY <1>7, CommandTypes DEF StartSession
  <2>2. /\ pc' \in [Session -> Running \cup Done \cup {"unborn"}]
        /\ start_settings' \in [Session -> Settings \cup {NoSettings}]
    BY <1>7, <2>1 DEF StartSession, Running
  <2>3. backend' \in [Session -> Models] /\ vad' \in [Session -> Thresholds]
    BY <1>7, <2>1 DEF StartSession, Models, Thresholds
  <2>4. active_device' \in Device /\ captures' \subseteq Capture
    BY <1>7, <2>1, CommandTypes DEF StartSession, Capture
  <2>5. cached_backend' \in Models /\ cached_vad' \in Thresholds
    BY <1>7 DEF StartSession, Models, Thresholds
  <2>6. /\ cached_backend_id' \in {t.provider : t \in Settings} \cup {"none"}
        /\ cached_model' \in {t.model : t \in Settings} \cup {"none"}
        /\ diag_enabled' \in BOOLEAN
    BY <1>7, <2>1, SettingsTypes DEF StartSession
  <2> HIDE DEF s
  <2> QED BY <1>7, <2>1, <2>2, <2>3, <2>4, <2>5, <2>6 DEF StartSession
<1>8. CASE HandleReconnect
  <2>1. Next1.device \in Device
    BY <1>8, HandledTypes, CommandTypes DEF HandleReconnect
  <2>2. ASSUME active_buffer # 0
        PROVE  [id |-> streams + 1, device |-> Next1.device, session |-> active_buffer] \in Capture
    BY <2>1, <2>2 DEF Capture
  <2>4. captures' \subseteq Capture
    BY <1>8, <2>2 DEF HandleReconnect
  <2>5. active_stream' \in Nat /\ streams' \in Nat
    <3>1. CASE active_buffer = 0 BY <1>8, <3>1 DEF HandleReconnect
    <3>2. CASE active_buffer # 0
      <4>1. \/ active_stream' = 0 /\ streams' = streams
            \/ active_stream' = streams + 1 /\ streams' = streams + 1
        BY ONLY <1>8, <3>2 DEF HandleReconnect
      <4> QED BY <4>1
    <3> QED BY <3>1, <3>2
  <2>3. active_device' \in Device \cup {NoDevice}
    BY <1>8, <2>1 DEF HandleReconnect
  <2> QED BY <1>8, <2>3, <2>4, <2>5, HandledTypes DEF HandleReconnect
<1> QED BY <1>1, <1>2, <1>3, <1>4, <1>5, <1>6, <1>7, <1>8 DEF EngineNext

\* A thread changes only its own state, and the reports.
LEMMA ThreadTypes ==
  ASSUME TypeOK, NEW n \in Session, ThreadNext(n),
         pc[n] # "unborn" => start_settings[n] \in Settings
  PROVE  TypeOK'
<1> USE DEF TypeOK, channel, engine, capture, held, cache, threads, ThreadUnchanged, Become, End,
            Running, Done, WithModels
<1>1. CASE ThreadSetup(n)
  <2>1. start_settings[n].vad \in Thresholds /\ ModelOf(start_settings[n]) \in Models
    BY <1>1, SettingsTypes DEF ThreadSetup
  <2> QED BY <1>1, <2>1 DEF ThreadSetup
<1>2. CASE ThreadFails(n) BY <1>2 DEF ThreadFails
<1>3. CASE ThreadIterate(n)
  <2>3. ASSUME settings_rx[n] # <<>>
        PROVE  /\ Head(settings_rx[n]) \in Settings /\ Tail(settings_rx[n]) \in Seq(Settings)
               /\ Head(settings_rx[n]).vad \in Thresholds
    <3>1. Head(settings_rx[n]) \in Settings /\ Tail(settings_rx[n]) \in Seq(Settings)
      BY <2>3
    <3> QED BY <3>1, SettingsTypes
  <2>1. CASE settings_rx[n] = <<>>
    BY <1>3, <2>1, ZenonT(40) DEF ThreadIterate
  <2>2. CASE settings_rx[n] # <<>>
    <3>1. vad' = [vad EXCEPT ![n] = Head(settings_rx[n]).vad] /\ reloaded' = reloaded \cup {n}
      BY ONLY <1>3, <2>2 DEF ThreadIterate
    <3>2. \/ settings_rx' = [settings_rx EXCEPT ![n] = Tail(@)]
          \/ settings_rx' = [settings_rx EXCEPT ![n] = <<>>]
      BY ONLY <1>3, <2>2 DEF ThreadIterate, End
    <3>3. pc' \in [Session -> Running \cup Done \cup {"unborn"}] /\ errors' \subseteq Session
      BY <1>3 DEF ThreadIterate
    <3>4. settings_rx' \in [Session -> Seq(Settings)]
      <4>1. settings_rx \in [Session -> Seq(Settings)] /\ <<>> \in Seq(Settings)
        OBVIOUS
      <4>2. Tail(settings_rx[n]) \in Seq(Settings)
        BY <2>2, <2>3
      <4>3. CASE settings_rx' = [settings_rx EXCEPT ![n] = Tail(@)]
        BY ONLY <4>1, <4>2, <4>3, n \in Session
      <4>4. CASE settings_rx' = [settings_rx EXCEPT ![n] = <<>>]
        BY ONLY <4>1, <4>4, n \in Session
      <4> QED BY ONLY <3>2, <4>3, <4>4
    <3>5. vad' \in [Session -> Thresholds] /\ reloaded' \subseteq Session
      BY <2>3, <2>2, <3>1
    <3> QED BY <1>3, <3>3, <3>4, <3>5, ZenonT(40) DEF ThreadIterate
  <2> QED BY <1>3, <2>1, <2>2 DEF ThreadIterate
<1>4. CASE ThreadStops(n) BY <1>4 DEF ThreadStops
<1>5. CASE ThreadPanics(n) BY <1>5 DEF ThreadPanics
<1> QED BY <1>1, <1>2, <1>3, <1>4, <1>5 DEF ThreadNext, ThreadWork
-------------------------------------------------------------------------------
(***************************************************************************)
(* The inductive invariant.                                                *)
(***************************************************************************)
\* Where the engine thread stands: sessions are numbered in the order they start, the newest is
\* the only one that can be held, and what belongs to it is held and given up with it.
Control ==
  /\ \A n \in Session : n > session => pc[n] = "unborn"
  /\ \A n \in Session : pc[n] # "unborn" => start_settings[n] \in Settings
  /\ processing_thread <= session
  /\ active_buffer = processing_thread
  /\ \A c \in captures : c.id = active_stream /\ c.session = active_buffer
  /\ active_stream # 0 => \E c \in captures : c.id = active_stream /\ c.device = active_device
  /\ processing_thread = 0 => active_stream = 0 /\ active_device = NoDevice
  /\ epc = "joining" => active_stream = 0 /\ current.type \in {"start", "stop"}
  /\ epc = "starting" => processing_thread = 0 /\ current.type = "start"

\* A fatal error and a failed setup are reported when they happen, a panic at the join.
Reported ==
  /\ \A n \in Session : pc[n] \in {"fatal", "failed"} => n \in errors
  /\ \A n \in Session : pc[n] = "panicked" /\ processing_thread # n => n \in errors

\* While a session is held the cache is empty but labelled with what that session runs; a
\* thread starts with a model of its own settings or none.
CacheLabelled ==
  /\ processing_thread # 0 =>
       /\ cached_backend = NoModel
       /\ cached_backend_id = start_settings[processing_thread].provider
       /\ cached_model = start_settings[processing_thread].model
  /\ \A n \in Session : pc[n] = "setup" =>
       \/ backend[n] = NoModel
       \/ Cacheable(backend[n]) /\ backend[n] = ModelOf(start_settings[n])

IInv == TypeOK /\ Control /\ OnlyHeldThreadRuns /\ Reported /\ CacheLabelled /\ RightModel

LEMMA InitIInv == Init => IInv
<1> SUFFICES ASSUME Init PROVE IInv
  OBVIOUS
<1> USE DEF Init
<1>1. TypeOK
  <2>1. [n \in Session |-> <<>>] \in [Session -> Seq(Settings)]
    OBVIOUS
  <2>2. Stop \in Commands /\ NoModel \in Models /\ "none" \in Thresholds
    BY DEF Commands, Models, Thresholds
  <2>3. /\ pc \in [Session -> Running \cup Done \cup {"unborn"}]
        /\ start_settings \in [Session -> Settings \cup {NoSettings}]
        /\ backend \in [Session -> Models] /\ vad \in [Session -> Thresholds]
        /\ settings_rx \in [Session -> Seq(Settings)]
    BY <2>1, <2>2
  <2>4. queue \in Seq(Commands) /\ sent \in 0..MaxCommands /\ session \in 0..MaxCommands
    OBVIOUS
  <2> QED BY <2>2, <2>3, <2>4 DEF TypeOK
<1>2. Control BY DEF Control
<1>3. OnlyHeldThreadRuns /\ Reported /\ CacheLabelled /\ RightModel
  BY DEF OnlyHeldThreadRuns, Reported, CacheLabelled, RightModel, Running, WithModels
<1> QED BY <1>1, <1>2, <1>3 DEF IInv

-------------------------------------------------------------------------------
(***************************************************************************)
(* Steps of the engine thread.                                             *)
(***************************************************************************)
LEMMA EngineControl ==
  ASSUME IInv, SendCommand \/ EngineNext
  PROVE  Control'
<1> USE DEF IInv, Control, channel, engine, capture, held, cache, threads
<1>1. CASE SendCommand BY <1>1 DEF SendCommand
<1>2. CASE HandleListDevices BY <1>2 DEF HandleListDevices
<1>3. CASE HandleUpdateSettings BY <1>3 DEF HandleUpdateSettings
<1>4. CASE HandleStartOrStop
  <2>1. captures' = {} /\ active_stream' = 0
    BY <1>4 DEF HandleStartOrStop, SignalStop
  <2> QED BY <1>4, <2>1 DEF HandleStartOrStop, SignalStop
<1>5. CASE Join
  <2>1. captures = {}
    BY <1>5 DEF Join, TypeOK, Capture
  <2>2. /\ processing_thread' = 0 /\ active_buffer' = 0 /\ active_device' = NoDevice
        /\ UNCHANGED <<captures, active_stream, session, current, pc, start_settings>>
        /\ epc' = IF current.type = "start" THEN "starting" ELSE "idle"
    BY <1>5 DEF Join
  <2> QED BY <1>5, <2>1, <2>2 DEF Join, TypeOK
<1>6. CASE StartFails BY <1>6 DEF StartFails
<1>7. CASE StartSession
  <2> DEFINE n == session + 1
  <2>1. captures = {} /\ n \in Session /\ current.settings \in Settings
    BY <1>7, CommandTypes DEF StartSession, TypeOK, Capture
  <2>2. PICK d \in Device :
          /\ session' = n /\ active_stream' = streams + 1
          /\ captures' = captures \cup {[id |-> streams + 1, device |-> d, session |-> n]}
          /\ pc' = [pc EXCEPT ![n] = "setup"]
          /\ start_settings' = [start_settings EXCEPT ![n] = current.settings]
          /\ processing_thread' = n /\ active_buffer' = n /\ active_device' = d
          /\ epc' = "idle"
    BY <1>7, CommandTypes DEF StartSession, TypeOK
  <2>3. captures' = {[id |-> streams + 1, device |-> d, session |-> n]}
    BY <2>1, <2>2
  <2>4. /\ \A m \in Session : m > session' => pc'[m] = "unborn"
        /\ \A m \in Session : pc'[m] # "unborn" => start_settings'[m] \in Settings
    BY <2>1, <2>2 DEF TypeOK
  <2>5. \A c \in captures' : c.id = active_stream' /\ c.session = active_buffer'
    BY <2>2, <2>3
  <2>6. \E c \in captures' : c.id = active_stream' /\ c.device = active_device'
    <3>1. [id |-> streams + 1, device |-> d, session |-> n] \in captures'
      BY <2>3
    <3>2. active_stream' = streams + 1 /\ active_device' = d
      BY <2>2
    <3> QED BY <3>1, <3>2
  <2> QED BY <2>1, <2>2, <2>4, <2>5, <2>6
<1>8. CASE HandleReconnect
  <2>1. CASE active_buffer = 0 BY <1>8, <2>1 DEF HandleReconnect
  <2>2. CASE active_buffer # 0
    <3>1. {c \in captures : c.id # active_stream} = {}
      OBVIOUS
    <3>2. /\ epc = "idle" /\ active_buffer' = active_buffer
          /\ UNCHANGED <<epc, session, pc, start_settings, processing_thread>>
          /\ \/ /\ active_stream' = streams + 1 /\ active_device' = Next1.device
                /\ captures' = {[id |-> streams + 1, device |-> Next1.device,
                                 session |-> active_buffer]}
             \/ active_stream' = 0 /\ captures' = {}
      BY <1>8, <2>2, <3>1 DEF HandleReconnect, Handling
    <3>3. CASE active_stream' = 0 /\ captures' = {}
      BY <2>2, <3>2, <3>3
    <3>4. CASE /\ active_stream' = streams + 1 /\ active_device' = Next1.device
               /\ captures' = {[id |-> streams + 1, device |-> Next1.device,
                                session |-> active_buffer]}
      <4> DEFINE new == [id |-> streams + 1, device |-> Next1.device, session |-> active_buffer]
      <4>1. new \in captures' /\ new.id = active_stream' /\ new.device = active_device'
        BY <3>4
      <4>2. \A c \in captures' : c.id = active_stream' /\ c.session = active_buffer'
        BY <3>2, <3>4
      <4> HIDE DEF new
      <4>3. \E c \in captures' : c.id = active_stream' /\ c.device = active_device'
        BY <4>1
      <4> QED BY <2>2, <3>2, <4>2, <4>3
    <3> QED BY <3>2, <3>3, <3>4
  <2> QED BY <2>1, <2>2
<1> QED BY <1>1, <1>2, <1>3, <1>4, <1>5, <1>6, <1>7, <1>8 DEF EngineNext

LEMMA EngineReports ==
  ASSUME IInv, SendCommand \/ EngineNext
  PROVE  Reported' /\ OnlyHeldThreadRuns'
<1> USE DEF IInv, Reported, OnlyHeldThreadRuns, channel, engine, capture, held, cache, threads
<1>1. CASE Join
  <2>1. /\ UNCHANGED pc /\ processing_thread' = 0
        /\ errors \subseteq errors'
        /\ pc[processing_thread] = "panicked" /\ processing_thread # 0
             => processing_thread \in errors'
        /\ processing_thread # 0 => pc[processing_thread] \in Done
    BY <1>1 DEF Join
  <2> QED BY <2>1 DEF Running, Done, WithModels
<1>2. CASE StartSession
  <2> DEFINE n == session + 1
  <2>1. n \in Session /\ processing_thread = 0 /\ pc[n] = "unborn"
    BY <1>2 DEF StartSession, TypeOK, Control
  <2>2. pc' = [pc EXCEPT ![n] = "setup"] /\ processing_thread' = n /\ errors' = errors
    BY <1>2 DEF StartSession
  <2> QED BY <2>1, <2>2 DEF TypeOK, Running
<1>3. CASE SendCommand \/ HandleListDevices \/ HandleUpdateSettings \/ HandleStartOrStop
           \/ StartFails \/ HandleReconnect
  <2>1. UNCHANGED <<pc, processing_thread, errors>>
    BY <1>3 DEF SendCommand, HandleListDevices, HandleUpdateSettings, HandleStartOrStop,
                StartFails, HandleReconnect
  <2> QED BY <2>1
<1> QED BY <1>1, <1>2, <1>3 DEF EngineNext

\* A record of Models is the model it names.
LEMMA ModelFields ==
  ASSUME NEW m \in Models
  PROVE  m = [provider |-> m.provider, model |-> m.model]
BY DEF Models, ModelOf, NoModel

LEMMA EngineModels ==
  ASSUME IInv, SendCommand \/ EngineNext
  PROVE  RightModel' /\ CacheLabelled'
<1> USE DEF IInv, RightModel, CacheLabelled, channel, engine, capture, held, cache, threads
<1>1. CASE Join
  <2>1. UNCHANGED <<pc, backend, start_settings>> /\ processing_thread' = 0
    BY <1>1 DEF Join
  <2>2. CASE processing_thread = 0
    BY <1>1, <2>1, <2>2 DEF Join
  <2>3. CASE processing_thread # 0 /\ pc[processing_thread] \in WithModels
    <3>1. backend[processing_thread] = ModelOf(start_settings[processing_thread])
      BY <2>3 DEF TypeOK
    <3>2. CASE Cacheable(backend[processing_thread])
      BY <1>1, <2>1, <2>3, <3>1, <3>2 DEF Join, Cache, ModelOf
    <3>3. CASE ~Cacheable(backend[processing_thread])
      BY <1>1, <2>1, <2>3, <3>1, <3>3 DEF Join, Cache
    <3> QED BY <3>2, <3>3
  <2>4. CASE processing_thread # 0 /\ pc[processing_thread] \notin WithModels
    BY <1>1, <2>1, <2>4 DEF Join, Cache
  <2> QED BY <2>2, <2>3, <2>4
<1>2. CASE StartSession
  <2> DEFINE n == session + 1
             s == current.settings
  <2>1. n \in Session
    BY <1>2 DEF StartSession, TypeOK
  <2>2. /\ pc' = [pc EXCEPT ![n] = "setup"]
        /\ start_settings' = [start_settings EXCEPT ![n] = s]
        /\ backend' = [backend EXCEPT ![n] = IF Compatible(s) THEN cached_backend ELSE NoModel]
        /\ processing_thread' = n /\ cached_backend' = NoModel
        /\ cached_model' = s.model /\ cached_backend_id' = s.provider
    BY <1>2 DEF StartSession
  <2>3. \/ backend'[n] = NoModel
        \/ Cacheable(backend'[n]) /\ backend'[n] = ModelOf(s)
    BY <2>1, <2>2, ModelFields, SMTT(30) DEF Compatible, TypeOK, ModelOf
  <2>4. pc'[n] = "setup" /\ start_settings'[n] = s
    BY <2>1, <2>2 DEF TypeOK
  <2>5. \A m \in Session \ {n} : /\ pc'[m] = pc[m] /\ backend'[m] = backend[m]
                                 /\ start_settings'[m] = start_settings[m]
    BY <2>1, <2>2 DEF TypeOK
  <2> HIDE DEF n, s
  <2>6. RightModel'
    BY <2>2, <2>4, <2>5 DEF WithModels
  <2>7. CacheLabelled'
    BY <2>2, <2>3, <2>4, <2>5
  <2> QED BY <2>6, <2>7
<1>3. CASE SendCommand \/ HandleListDevices \/ HandleUpdateSettings \/ HandleStartOrStop
           \/ StartFails \/ HandleReconnect
  <2>1. UNCHANGED <<pc, processing_thread, backend, start_settings, cache>>
    BY <1>3 DEF SendCommand, HandleListDevices, HandleUpdateSettings, HandleStartOrStop,
                StartFails, HandleReconnect
  <2> QED BY <2>1
<1> QED BY <1>1, <1>2, <1>3 DEF EngineNext

-------------------------------------------------------------------------------
(***************************************************************************)
(* Steps of a processing thread.                                           *)
(***************************************************************************)
LEMMA ThreadKeeps ==
  ASSUME IInv, NEW n \in Session, ThreadNext(n)
  PROVE  Control' /\ OnlyHeldThreadRuns' /\ Reported' /\ CacheLabelled' /\ RightModel'
<1> USE DEF IInv, channel, engine, capture, held, cache, Become, End, ThreadUnchanged
<1>1. UNCHANGED <<channel, engine, capture, held, cache, start_settings>>
  BY DEF ThreadNext, ThreadWork, ThreadSetup, ThreadFails, ThreadIterate, ThreadStops, ThreadPanics
<1>2. pc[n] \in Running
  BY DEF ThreadNext, ThreadWork, ThreadSetup, ThreadFails, ThreadIterate, ThreadStops, ThreadPanics,
         Running
<1>3. \A m \in Session \ {n} : pc'[m] = pc[m] /\ backend'[m] = backend[m]
  BY DEF ThreadNext, ThreadWork, ThreadSetup, ThreadFails, ThreadIterate, ThreadStops, ThreadPanics,
         TypeOK
<1>4. /\ errors \subseteq errors'
      /\ pc'[n] \in {"fatal", "failed"} => n \in errors'
  BY DEF ThreadNext, ThreadWork, ThreadSetup, ThreadFails, ThreadIterate, ThreadStops, ThreadPanics,
         TypeOK
<1>5. /\ pc'[n] # "unborn" /\ pc'[n] # "setup"
      /\ pc'[n] \in {"loop"} \cup WithModels => backend'[n] = ModelOf(start_settings[n])
  <2>1. CASE ThreadSetup(n)
    <3>1. backend'[n] = ModelOf(start_settings[n]) /\ pc'[n] = "loop"
      BY <2>1 DEF ThreadSetup, TypeOK, CacheLabelled, Cacheable, NoModel
    <3> QED BY <3>1 DEF WithModels
  <2>2. CASE ThreadFails(n) BY <2>2 DEF ThreadFails, TypeOK, WithModels
  <2>3. CASE ThreadIterate(n) BY <2>3 DEF ThreadIterate, TypeOK, WithModels, RightModel
  <2>4. CASE ThreadStops(n) BY <2>4 DEF ThreadStops, TypeOK, WithModels, RightModel
  <2>5. CASE ThreadPanics(n) BY <2>5 DEF ThreadPanics, TypeOK, WithModels
  <2> QED BY <2>1, <2>2, <2>3, <2>4, <2>5 DEF ThreadNext, ThreadWork
<1>6. Control' BY <1>1, <1>2, <1>3 DEF Control, OnlyHeldThreadRuns, TypeOK, Running
<1>7. OnlyHeldThreadRuns' BY <1>1, <1>2, <1>3 DEF OnlyHeldThreadRuns
<1>8. Reported' BY <1>1, <1>2, <1>3, <1>4 DEF Reported, OnlyHeldThreadRuns
<1>9. CacheLabelled' BY <1>1, <1>3, <1>5 DEF CacheLabelled
<1>10. RightModel' BY <1>1, <1>3, <1>5 DEF RightModel
<1> QED BY <1>6, <1>7, <1>8, <1>9, <1>10

-------------------------------------------------------------------------------
LEMMA StepIInv == IInv /\ [Next]_vars => IInv'
<1> SUFFICES ASSUME IInv, [Next]_vars PROVE IInv'
  OBVIOUS
<1>1. CASE SendCommand \/ EngineNext
  BY <1>1, EngineTypes, EngineControl, EngineReports, EngineModels DEF IInv, Control
<1>2. CASE \E n \in Session : ThreadNext(n)
  <2>1. PICK n \in Session : ThreadNext(n)
    BY <1>2
  <2> QED BY <2>1, ThreadTypes, ThreadKeeps DEF IInv, Control
<1>3. CASE UNCHANGED vars
  BY <1>3 DEF vars, channel, engine, capture, held, cache, threads, IInv, TypeOK, Control,
              OnlyHeldThreadRuns, Reported, CacheLabelled, RightModel
<1> QED BY <1>1, <1>2, <1>3 DEF Next

LEMMA AlwaysIInv == Spec => []IInv
BY InitIInv, StepIInv, PTL DEF Spec

\* The types of the engine, its sessions and its channel.
THEOREM AlwaysTypeOK == Spec => []TypeOK
<1>1. IInv => TypeOK
  BY DEF IInv
<1> QED BY <1>1, AlwaysIInv, PTL

\* No thread of an earlier session runs on, and no capture but the one the engine can stop:
\* stop_active_session joins before a session is started (audio_engine.rs:407-449, 269), and
\* reconnect_stream gives up the old stream whatever becomes of the new one.
THEOREM AlwaysOneSession == Spec => []OneSession
<1>1. IInv => OneSession
  BY DEF IInv, Control, OneSession
<1> QED BY <1>1, AlwaysIInv, PTL

\* The models kept between sessions are handed only to a session whose settings name them, and
\* a Soniox backend is never kept (audio_engine.rs:312-335, 425-445).
THEOREM AlwaysRightModel == Spec => []RightModel
<1>1. IInv => RightModel
  BY DEF IInv
<1> QED BY <1>1, AlwaysIInv, PTL

\* A session that ended by an error, a failed setup or a panic was reported, at the latest by
\* the join of its thread.
THEOREM AlwaysFailuresReported == Spec => []FailuresReported
<1>1. IInv => FailuresReported
  BY DEF IInv, Reported, FailuresReported
<1> QED BY <1>1, AlwaysIInv, PTL
================================================================================
