-------------------------- MODULE CaptureStreamProofs --------------------------
(***************************************************************************)
(* Theorems about CaptureStream, for any bounds and any offer of backends. *)
(***************************************************************************)
EXTENDS CaptureStream, TLAPS

\* Where the engine thread is says which of its slots may be taken.
Slots ==
  /\ starting # 0 => epc \in {"waiting", "expired"}
  /\ epc \in {"waiting", "expired"} => starting # 0
  /\ epc \in {"open", "call", "waiting", "expired"} => active_stream = 0

\* Streams are numbered in the order they start; a slot holds one that has started and that
\* has not been given up.
Numbered ==
  /\ \A i \in Stream : i > streams => pc[i] = "unborn" /\ i \notin abandoned
  /\ active_stream <= streams /\ active_stream \notin abandoned
  /\ starting <= streams /\ starting \notin abandoned

\* The stream that is waited for is a WASAPI stream for the buffer the request is about.
Awaited == starting # 0 => kind[starting] = "wasapi" /\ buffer[starting] = Target

\* A thread that was given up has its flag set, so it takes no batch, and has pushed the one
\* it may have held at most.
GivenUp(i) == kind[i] = "wasapi" /\ stop_flag[i] /\ (pc[i] = "holding" => late[i] = 0)
LateCounted == \A i \in Stream : IF i \in abandoned THEN GivenUp(i) ELSE late[i] = 0

IInv == TypeOK /\ ThreadsAccounted /\ Slots /\ Numbered /\ Awaited /\ LateCounted

\* A session is there while a stream is being opened only if it is the one that reconnects.
Told ==
  /\ LostStreamReported
  /\ epc \in {"open", "call", "waiting", "expired"} =>
       active_buffer = 0 \/ request.type = "reconnect"

USE CaptureStreamAssumption DEF Stream, Alive, Kind

-------------------------------------------------------------------------------
(***************************************************************************)
(* Types.                                                                  *)
(***************************************************************************)
\* The steps of a thread.
LEMMA ThreadTypes ==
  ASSUME TypeOK, NEW i \in Stream, ThreadNext(i)
  PROVE  TypeOK'
<1> USE DEF TypeOK, Become, made, told, batches, engine, slots
<1>1. CASE SetupDone(i) BY <1>1 DEF SetupDone
<1>2. CASE SetupFails(i) BY <1>2 DEF SetupFails
<1>3. CASE PushBatch(i)
  <2>1. pushed' \in [Stream -> Nat] BY <1>3, SMTT(30) DEF PushBatch
  <2>2. late' \in [Stream -> Nat]
    <3>1. CASE i \in abandoned
      <4>1. late' = [late EXCEPT ![i] = @ + 1] BY <1>3, <3>1 DEF PushBatch
      <4>2. late \in [Stream -> Nat] OBVIOUS
      <4> HIDE DEF TypeOK
      <4> QED BY <4>1, <4>2
    <3>2. CASE i \notin abandoned BY <1>3, <3>2 DEF PushBatch
    <3> QED BY <3>1, <3>2
  <2>3. pc' \in [Stream -> Alive \cup {"unborn", "gone"}] BY <1>3 DEF PushBatch
  <2> QED BY <1>3, <2>1, <2>2, <2>3 DEF PushBatch
<1>4. CASE ThreadExits(i) BY <1>4 DEF ThreadExits
<1>5. CASE TakeBatch(i) BY <1>5 DEF TakeBatch
<1>6. CASE PumpFails(i) BY <1>6 DEF PumpFails
<1> QED BY <1>1, <1>2, <1>3, <1>4, <1>5, <1>6 DEF ThreadNext

\* The steps of the engine.
LEMMA EngineTypes ==
  ASSUME TypeOK, Slots, EngineNext
  PROVE  TypeOK'
<1> USE DEF TypeOK, Request, made, told, batches, engine, slots
<1>0. kinds \subseteq Kind
  OBVIOUS
<1>1. CASE HandleStartOrStop
  <2>1. request' \in [type : {"start", "stop", "reconnect"}, kind : Kind]
    <3>1. CASE request' = Request("stop", "cpal")
      BY <3>1
    <3>2. CASE \E k \in kinds : request' = Request("start", k)
      <4>1. PICK k \in kinds : request' = Request("start", k) BY <3>2
      <4> QED BY <1>0, <4>1
    <3> QED BY <1>1, <3>1, <3>2 DEF HandleStartOrStop
  <2>2. stop_flag' \in [Stream -> BOOLEAN] /\ shutdown' \in [Stream -> BOOLEAN]
    BY <1>1 DEF HandleStartOrStop, SignalStop
  <2> QED BY <1>1, <2>1, <2>2, SMTT(30) DEF HandleStartOrStop, NextCommand
<1>2. CASE HandleReconnect
  <2>1. request' \in [type : {"start", "stop", "reconnect"}, kind : Kind]
    <3>1. PICK k \in kinds : request' = Request("reconnect", k) BY <1>2 DEF HandleReconnect
    <3> QED BY <1>0, <3>1
  <2>2. stop_flag' \in [Stream -> BOOLEAN] /\ shutdown' \in [Stream -> BOOLEAN]
    <3>1. CASE UNCHANGED <<stop_flag, shutdown>> BY <3>1
    <3>2. CASE SignalStop(active_stream, FALSE) BY <3>2 DEF SignalStop
    <3> QED BY <1>2, <3>1, <3>2 DEF HandleReconnect
  <2>3. epc' \in {"idle", "stopping"} /\ commands' \in Nat
    <3>1. NextCommand /\ (epc' = epc \/ epc' = "stopping") BY <1>2 DEF HandleReconnect
    <3> QED BY <3>1 DEF NextCommand
  <2>4. UNCHANGED <<kinds, made, abandoned, pc, init, batches, slots>>
    BY <1>2 DEF HandleReconnect
  <2> QED BY <2>1, <2>2, <2>3, <2>4
<1>3. CASE JoinStream BY <1>3 DEF JoinStream, Dropped
<1>4. CASE MakeBuffer
  <2>1. session' \in Nat BY <1>4 DEF MakeBuffer
  <2> QED BY <1>4, <2>1 DEF MakeBuffer
<1>5. CASE StartFails BY <1>5 DEF StartFails, NotHeld, Target
<1>6. CASE StartStream
  <2>1. request.kind \in Kind /\ Target \in Nat /\ streams + 1 \in Stream
    BY <1>6 DEF StartStream, Target
  <2>2. kind' \in [Stream -> Kind] /\ buffer' \in [Stream -> Nat]
    BY <1>6, <2>1 DEF StartStream
  <2>3. pc' \in [Stream -> Alive \cup {"unborn", "gone"}]
    BY <1>6 DEF StartStream, Become
  <2>4. streams' \in 0..MaxStreams
    BY <1>6, <2>1 DEF StartStream
  <2>5. UNCHANGED <<kinds, told, init, batches, request, commands, session>>
    BY <1>6 DEF StartStream, Held
  <2>6. /\ epc' \in {"waiting", "idle"} /\ active_stream' \in Stream \cup {0}
        /\ starting' \in Stream \cup {0} /\ active_buffer' \in Nat /\ reported' \subseteq Nat
    BY <1>6, <2>1, ZenonT(40) DEF StartStream, Held
  <2> QED BY <2>2, <2>3, <2>4, <2>5, <2>6
<1>7. CASE InitArrives BY <1>7 DEF InitArrives, Held, Target
<1>8. CASE InitFails BY <1>8 DEF InitFails, NotHeld, Target
<1>9. CASE InitExpires BY <1>9 DEF InitExpires
<1>10. CASE Abandon BY <1>10 DEF Abandon, NotHeld, Target, Slots
<1>11. CASE EngineExits BY <1>11 DEF EngineExits, Dropped
<1> QED
  BY <1>1, <1>2, <1>3, <1>4, <1>5, <1>6, <1>7, <1>8, <1>9, <1>10, <1>11 DEF EngineNext, EngineWork

-------------------------------------------------------------------------------
(***************************************************************************)
(* The inductive step.                                                     *)
(***************************************************************************)
LEMMA ThreadSteps ==
  ASSUME IInv, NEW i \in Stream, ThreadNext(i)
  PROVE  IInv'
<1>0. TypeOK'
  BY ThreadTypes DEF IInv
<1> USE DEF ThreadNext, SetupDone, SetupFails, PushBatch, ThreadExits, TakeBatch, PumpFails, Become
<1>1. /\ UNCHANGED <<kind, buffer, streams, stop_flag, abandoned>>
      /\ UNCHANGED <<epc, request, active_stream, starting, session, active_buffer>>
  BY DEF made, told, engine, slots
<1>2. pc[i] \in Alive /\ \A j \in Stream : j # i => pc'[j] = pc[j]
  BY DEF IInv, TypeOK
<1>3. \A j \in Stream : j # i \/ j \notin abandoned => late'[j] = late[j]
  <2>1. CASE PushBatch(i) BY <2>1 DEF IInv, TypeOK
  <2>2. CASE ~PushBatch(i) BY <2>2 DEF batches
  <2> QED BY <2>1, <2>2
<1>4. i \in abandoned => pc'[i] # "holding"
  BY DEF IInv, TypeOK, LateCounted, GivenUp
<1>5. LateCounted'
  BY <1>1, <1>2, <1>3, <1>4 DEF IInv, LateCounted, GivenUp
<1>6. ThreadsAccounted'
  BY <1>1, <1>2 DEF IInv, ThreadsAccounted
<1>7. Slots' /\ Numbered' /\ Awaited'
  BY <1>1, <1>2 DEF IInv, Slots, Numbered, Awaited, Target
<1> QED BY <1>0, <1>5, <1>6, <1>7 DEF IInv

LEMMA EngineSteps ==
  ASSUME IInv, EngineNext
  PROVE  IInv'
<1>0. TypeOK'
  BY EngineTypes DEF IInv
<1> USE DEF IInv, ThreadsAccounted, Slots, Numbered, Awaited, LateCounted, GivenUp, Target, TypeOK,
            made, told, batches, slots
<1>1. CASE HandleStartOrStop
  BY <1>0, <1>1 DEF HandleStartOrStop, NextCommand, SignalStop
<1>2. CASE HandleReconnect
  <2>1. epc = "idle" /\ epc' \in {"idle", "stopping"} /\ starting = 0
    BY <1>2 DEF HandleReconnect, NextCommand
  <2>2. UNCHANGED <<made, abandoned, pc, batches, slots>>
    BY <1>2 DEF HandleReconnect, NextCommand
  <2>3. \A j \in Stream : stop_flag[j] => stop_flag'[j]
    BY <1>2 DEF HandleReconnect, SignalStop
  <2>4. ThreadsAccounted' BY <2>2, <2>3
  <2>5. Slots' /\ Numbered' /\ Awaited' BY <2>1, <2>2
  <2>6. LateCounted' BY <2>2, <2>3
  <2> QED BY <1>0, <2>4, <2>5, <2>6
<1>3. CASE JoinStream BY <1>0, <1>3, SMTT(30) DEF JoinStream, Stopped, Dropped
<1>4. CASE MakeBuffer BY <1>0, <1>4 DEF MakeBuffer
<1>5. CASE StartFails BY <1>0, <1>5, SMTT(30) DEF StartFails, NotHeld
<1>6. CASE StartStream
  <2> DEFINE i == streams + 1
  <2>1. /\ i \in Stream /\ i \notin abandoned /\ active_stream = 0 /\ starting = 0
        /\ streams' = i /\ UNCHANGED <<told, batches, request, session>>
    BY <1>6 DEF StartStream, Held
  <2>2. /\ kind'[i] = request.kind /\ buffer'[i] = Target
        /\ \A j \in Stream : j # i => pc'[j] = pc[j] /\ kind'[j] = kind[j] /\ buffer'[j] = buffer[j]
    BY <1>6, <2>1 DEF StartStream, Become
  <2>3. \/ /\ epc' = "waiting" /\ starting' = i /\ request.kind = "wasapi"
           /\ UNCHANGED <<active_stream, active_buffer>>
        \/ /\ epc' = "idle" /\ active_stream' = i /\ starting' = 0 /\ active_buffer' = Target
    BY <1>6, <2>1 DEF StartStream, Held
  <2>4. \A j \in Stream : j > i => pc'[j] = "unborn"
    BY <2>1, <2>2
  <2>5. ThreadsAccounted' BY <2>1, <2>2, <2>3
  <2>6. Slots' BY <2>1, <2>3
  <2>7. Numbered' BY <2>1, <2>2, <2>3, <2>4
  <2>8. Awaited' BY <2>1, <2>2, <2>3
  <2>9. LateCounted' BY <2>1, <2>2
  <2> QED BY <1>0, <2>5, <2>6, <2>7, <2>8, <2>9
<1>7. CASE InitArrives BY <1>0, <1>7, SMTT(30) DEF InitArrives, Held
<1>8. CASE InitFails BY <1>0, <1>8, SMTT(30) DEF InitFails, NotHeld
<1>9. CASE InitExpires BY <1>0, <1>9 DEF InitExpires
<1>10. CASE Abandon BY <1>0, <1>10, SMTT(30) DEF Abandon, NotHeld
<1>11. CASE EngineExits BY <1>0, <1>11, SMTT(30) DEF EngineExits, Dropped
<1> QED
  BY <1>1, <1>2, <1>3, <1>4, <1>5, <1>6, <1>7, <1>8, <1>9, <1>10, <1>11 DEF EngineNext, EngineWork

LEMMA Initially == Init => IInv
BY DEF Init, IInv, TypeOK, Request, ThreadsAccounted, Slots, Numbered, Awaited, LateCounted

LEMMA Stuttering == IInv /\ UNCHANGED vars => IInv'
BY DEF vars, made, told, batches, engine, slots, IInv, TypeOK, ThreadsAccounted, Slots, Numbered,
       Awaited, Target, LateCounted, GivenUp

LEMMA Inductive == Spec => []IInv
<1>1. IInv /\ [Next]_vars => IInv'
  BY ThreadSteps, EngineSteps, Stuttering DEF Next
<1> QED BY Initially, <1>1, PTL DEF Spec

-------------------------------------------------------------------------------
\* Whatever streams have come, failed and been given up on, a batch comes from the held stream
\* or the one being started, or is the single one that a given-up thread held past the check of
\* its flag (wasapi_process.rs:203-224).
THEOREM AlwaysOnlyHeldStreamFills == Spec => OnlyHeldStreamFills
<1> DEFINE Filler(i) == \/ i = active_stream
                        \/ i = starting
                        \/ i \in abandoned /\ late[i] = 0
           A == \A i \in Stream : pushed'[i] # pushed[i] => Filler(i)
<1>1. ASSUME IInv, NEW k \in Stream, ThreadNext(k)
      PROVE  A
  <2> SUFFICES ASSUME NEW i \in Stream, pushed'[i] # pushed[i]
               PROVE  Filler(i)
    OBVIOUS
  <2>1. i = k /\ pc[k] = "holding"
    BY <1>1 DEF IInv, TypeOK, ThreadNext, SetupDone, SetupFails, PushBatch, ThreadExits, TakeBatch,
                PumpFails, batches
  <2> QED BY <1>1, <2>1 DEF IInv, ThreadsAccounted, LateCounted, GivenUp
<1>2. ASSUME EngineNext
      PROVE  A
  BY <1>2 DEF EngineNext, EngineWork, HandleStartOrStop, HandleReconnect, JoinStream, MakeBuffer,
     StartFails, StartStream, InitArrives, InitFails, InitExpires, Abandon, EngineExits, batches
<1>3. IInv /\ [Next]_vars =>
        [\A i \in Stream : pushed'[i] # pushed[i] =>
             \/ i = active_stream
             \/ i = starting
             \/ i \in abandoned /\ late[i] = 0]_vars
  BY <1>1, <1>2 DEF Next
<1> QED BY Inductive, <1>3, PTL DEF Spec, OnlyHeldStreamFills

\* No stream thread runs that the engine neither holds, waits for, nor has told to end
\* (pipewire.rs:124-143, wasapi_process.rs:101-117, audio_engine.rs:407-506), the held one fills
\* the buffer of the running session, and a reconnect that fails and leaves the session without
\* a stream is always reported (audio_engine.rs:494-505).
THEOREM AlwaysStreamsAccounted == Spec => []StreamsAccounted
<1>1. Init => Told
  BY DEF Init, Told, LostStreamReported
<1>2. ASSUME IInv, Told, NEW i \in Stream, ThreadNext(i)
      PROVE  Told'
  <2>1. UNCHANGED <<epc, request, active_stream, active_buffer, reported>>
    BY <1>2 DEF ThreadNext, SetupDone, SetupFails, PushBatch, ThreadExits, TakeBatch, PumpFails,
       engine, slots
  <2> QED BY <1>2, <2>1 DEF Told, LostStreamReported
<1>3. ASSUME IInv, Told, EngineNext
      PROVE  Told'
  <2> USE <1>3 DEF Told, LostStreamReported, IInv, TypeOK, Slots, Target
  <2>1. CASE HandleStartOrStop
    <3>1. epc' = "stopping" BY <2>1 DEF HandleStartOrStop
    <3> QED BY <3>1
  <2>2. CASE HandleReconnect
    <3>1. UNCHANGED slots /\ (epc' = "stopping" \/ (active_buffer = 0 /\ epc' = epc))
      BY <2>2 DEF HandleReconnect
    <3>2. epc = "idle" BY <2>2 DEF HandleReconnect, NextCommand
    <3> QED BY <3>1, <3>2 DEF slots
  <2>3. CASE JoinStream BY <2>3 DEF JoinStream
  <2>4. CASE MakeBuffer BY <2>4 DEF MakeBuffer
  <2>5. CASE StartFails BY <2>5 DEF StartFails, NotHeld
  <2>6. CASE StartStream
    <3>1. epc = "call" /\ UNCHANGED request /\ streams + 1 # 0
      BY <2>6 DEF StartStream, Held
    <3>2. \/ epc' = "waiting" /\ UNCHANGED active_buffer
          \/ epc' = "idle" /\ active_stream' # 0
      BY <2>6, <3>1 DEF StartStream, Held
    <3> QED BY <3>1, <3>2
  <2>7. CASE InitArrives BY <2>7 DEF InitArrives, Held
  <2>8. CASE InitFails BY <2>8 DEF InitFails, NotHeld
  <2>9. CASE InitExpires BY <2>9 DEF InitExpires, slots
  <2>10. CASE Abandon BY <2>10 DEF Abandon, NotHeld
  <2>11. CASE EngineExits
    <3>1. epc' = "exited" BY <2>11 DEF EngineExits
    <3> QED BY <3>1
  <2> QED
    BY <2>1, <2>2, <2>3, <2>4, <2>5, <2>6, <2>7, <2>8, <2>9, <2>10, <2>11 DEF EngineNext, EngineWork
<1>4. Told /\ UNCHANGED vars => Told'
  BY DEF Told, LostStreamReported, vars, engine, slots
<1>5. IInv /\ Told /\ [Next]_vars => Told'
  BY <1>2, <1>3, <1>4 DEF Next
<1>6. IInv /\ Told => StreamsAccounted
  BY DEF IInv, Told, StreamsAccounted
<1> QED BY Inductive, <1>1, <1>5, <1>6, PTL DEF Spec
===============================================================================
