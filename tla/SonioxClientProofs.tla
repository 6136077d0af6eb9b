-------------------------- MODULE SonioxClientProofs --------------------------
(***************************************************************************)
(* The types, the order of the audio, the end-of-stream discipline and the *)
(* single terminal message of the socket thread, for any number of frames, *)
(* responses and attempts.                                                 *)
(***************************************************************************)
EXTENDS SonioxClient, ListsProofs, TLAPS, SequenceTheorems

\* What the control state, the channels and the frames on their way may hold; the counters
\* are in Bounds.
Shape ==
  /\ hpc \in {"ready", "accepted", "counted", "joining", "joined"}
  /\ frame \in Nat \ {0}
  /\ hpc \in {"accepted", "counted"} => frame \in Frame
  /\ heard \in Terminal \cup {"none"}
  /\ outbound \in Seq(Outbound)
  /\ inbound \in Seq(Inbound)
  /\ pc \in {"spawned", "connect", "start", "replay", "select", "flush", "eos", "ping",
             "closeShutdown", "closeFinished", "backoff", "exited"}
  /\ pending \in Seq(Frame)
  /\ writing \in Frame \cup {0}
  /\ progressed \in BOOLEAN /\ finishing \in BOOLEAN
  /\ wire \in Seq(Frame)

\* Where a write of audio, end-of-stream, and audio that waits for a connection can be.
Control ==
  /\ writing # 0 => pc \in {"replay", "select", "flush"}
  /\ finishing => writing = 0
  /\ pc \in {"replay", "flush", "eos"} => ~finishing
  /\ pc \in {"select", "flush", "eos", "ping", "closeShutdown", "closeFinished", "exited"}
       => pending = <<>>
  /\ Exited => outbound = <<>>

\* Everything on its way was captured before the frame send_audio takes next.
Older == \A f \in Elements(wire) \cup Travelling \cup Elements(pending) \cup Queued : f < frame

-------------------------------------------------------------------------------
LEMMA Messages ==
  /\ \A f \in Frame : Audio(f) \in Outbound
  /\ Finish \in Outbound /\ Shutdown \in Outbound
  /\ \A m \in Outbound : m.type = "audio" => m.frame \in Frame /\ m = Audio(m.frame)
  /\ Finish.type # "audio" /\ Shutdown.type # "audio" /\ Finish # Shutdown
BY DEF Outbound, Audio, Finish, Shutdown

LEMMA FramesAreNumbers == Frame \subseteq Nat \ {0}
BY ClientAssumption DEF Frame

\* The front of the outbound channel, and what is behind it.
LEMMA PopShape ==
  ASSUME Shape, outbound # <<>>
  PROVE  Head(outbound) \in Outbound /\ Tail(outbound) \in Seq(Outbound)
BY HeadTailProperties DEF Shape

LEMMA ReportShape ==
  ASSUME Shape, NEW message \in Inbound, Report(message)
  PROVE  inbound' \in Seq(Inbound)
BY AppendProperties DEF Shape, Report

LEMMA ReturnShape ==
  ASSUME Shape, Return
  PROVE  pc' = "exited" /\ outbound' \in Seq(Outbound) /\ pending' \in Seq(Frame)
BY EmptySeq DEF Return

\* What the four outcomes of a connection leave behind.
LEMMA OutcomeShape ==
  ASSUME Shape,
         \/ OutcomeFinished \/ OutcomeFatal \/ OutcomeShutdown
         \/ \E b \in BOOLEAN : OutcomeRetry(b)
  PROVE  /\ inbound' \in Seq(Inbound) /\ outbound' \in Seq(Outbound) /\ pending' \in Seq(Frame)
         /\ pc' \in {"exited", "backoff"}
<1>1. CASE OutcomeFinished
  BY <1>1, ReportShape, ReturnShape DEF OutcomeFinished, Inbound, Terminal
<1>2. CASE OutcomeFatal
  BY <1>2, ReportShape, ReturnShape DEF OutcomeFatal, Inbound, Terminal
<1>3. CASE OutcomeShutdown
  BY <1>3, ReturnShape DEF OutcomeShutdown, Shape
<1>4. ASSUME NEW b \in BOOLEAN, OutcomeRetry(b)
      PROVE  /\ inbound' \in Seq(Inbound) /\ outbound' \in Seq(Outbound) /\ pending' \in Seq(Frame)
             /\ pc' \in {"exited", "backoff"}
  <2>1. \/ Report("fatal") /\ Return
        \/ Report("reconnecting") /\ pc' = "backoff" /\ UNCHANGED <<outbound, pending>>
    BY <1>4 DEF OutcomeRetry
  <2>2. "fatal" \in Inbound /\ "reconnecting" \in Inbound
    BY DEF Inbound, Terminal
  <2>3. CASE Report("fatal") /\ Return
    BY <2>2, <2>3, ReportShape, ReturnShape
  <2>4. CASE Report("reconnecting") /\ pc' = "backoff" /\ UNCHANGED <<outbound, pending>>
    BY <2>2, <2>4, ReportShape DEF Shape
  <2> QED BY <2>1, <2>3, <2>4
<1> QED BY <1>1, <1>2, <1>3, <1>4

LEMMA SettleShape == ASSUME Shape, NEW ok \in BOOLEAN, Settle(ok) PROVE writing' = 0 /\ wire' \in Seq(Frame)
BY AppendProperties DEF Shape, Settle

-------------------------------------------------------------------------------
LEMMA ShapeInit == Init => Shape /\ Control
<1>1. <<>> \in Seq(Outbound) /\ <<>> \in Seq(Inbound) /\ <<>> \in Seq(Frame)
  BY EmptySeq
<1>2. Init => Shape
  <2> SUFFICES ASSUME Init PROVE Shape
    OBVIOUS
  <2>1. outbound \in Seq(Outbound) /\ inbound \in Seq(Inbound) /\ pending \in Seq(Frame)
        /\ wire \in Seq(Frame)
    BY <1>1 DEF Init
  <2>2. /\ hpc = "ready" /\ frame = 1 /\ heard = "none" /\ pc = "spawned" /\ writing = 0
        /\ progressed \in BOOLEAN /\ finishing \in BOOLEAN
    BY Zenon DEF Init
  <2> QED BY <2>1, <2>2 DEF Shape
<1>3. Init => Control
  BY DEF Init, Control
<1> QED BY <1>2, <1>3

LEMMA ShapeStep == ASSUME Shape, [Next]_vars PROVE Shape'
<1> USE DEF Shape
<1>1. CASE SendCheck
  <2>1. frame \in Frame /\ frame + 1 \in Nat \ {0}
    BY <1>1, ClientAssumption DEF SendCheck, Frame
  <2>2. frame' \in Nat \ {0} /\ (hpc' \in {"accepted", "counted"} => frame' \in Frame)
    BY <1>1, <2>1 DEF SendCheck
  <2> QED BY <1>1, <2>2 DEF SendCheck, thread, record
<1>2. CASE SendCount
  BY <1>2 DEF SendCount, handle, thread, record
<1>3. CASE SendPush
  <2>1. outbound' \in Seq(Outbound)
    <3>1. frame \in Frame
      BY <1>3 DEF SendPush
    <3>2. Audio(frame) \in Outbound
      BY <3>1, Messages
    <3>3. Append(outbound, Audio(frame)) \in Seq(Outbound)
      BY <3>2, AppendProperties
    <3> QED BY <1>3, <3>3 DEF SendPush
  <2> QED BY <1>3, <2>1 DEF SendPush, thread, record
<1>4. CASE CallFinish
  <2>1. outbound' \in Seq(Outbound)
    BY <1>4, Messages, AppendProperties DEF CallFinish
  <2> QED BY <1>4, <2>1 DEF CallFinish, thread, record
<1>5. CASE Receive
  <2>1. inbound' \in Seq(Inbound)
    BY <1>5, HeadTailProperties DEF Receive
  <2> QED BY <1>5, <2>1 DEF Receive, thread, record
<1>6. CASE DropHandle
  <2>1. outbound' \in Seq(Outbound)
    BY <1>6, Messages, AppendProperties DEF DropHandle
  <2> QED BY <1>6, <2>1 DEF DropHandle, thread, record
<1>7. CASE Join
  BY <1>7 DEF Join, handle, thread, record
<1>8. CASE Joined
  BY <1>8 DEF Joined, vars, handle, thread, record
<1>9. CASE RuntimeBuilt
  BY <1>9 DEF RuntimeBuilt, handle, thread, record
<1>10. CASE RuntimeFailed
  BY <1>10, OutcomeShape DEF RuntimeFailed, handle, thread, record
<1>11. CASE ReplayPending
  <2>1. pending' \in Seq(Frame) /\ writing' \in Frame \cup {0}
    <3>1. CASE pending = <<>>
      BY <1>11, <3>1 DEF ReplayPending
    <3>2. CASE pending # <<>>
      <4>1. Head(pending) \in Frame /\ Tail(pending) \in Seq(Frame)
        BY <3>2, HeadTailProperties
      <4> QED BY <1>11, <3>2, <4>1 DEF ReplayPending, StartWrite
    <3> QED BY <3>1, <3>2
  <2> QED BY <1>11, <2>1 DEF ReplayPending, handle, record
<1>12. CASE TakeShutdown
  BY <1>12, PopShape DEF TakeShutdown, Pop, handle, record
<1>13. CASE TakeFinish
  BY <1>13, PopShape DEF TakeFinish, Pop, handle, record
<1>14. CASE TakeAudio
  <2>1. Head(outbound).frame \in Frame /\ outbound' \in Seq(Outbound)
    BY <1>14, PopShape, Messages DEF TakeAudio, Pop
  <2>2. writing' \in Frame \cup {0}
    BY <1>14, <2>1 DEF TakeAudio, StartWrite
  <2> QED BY <1>14, <2>1, <2>2 DEF TakeAudio, handle
<1>15. CASE FlushDone
  BY <1>15 DEF FlushDone, handle, thread, record
<1>16. CASE BackoffOver
  BY <1>16 DEF BackoffOver, handle, thread, record
<1>17. CASE BackoffAudio
  <2>1. Head(outbound).frame \in Frame /\ outbound' \in Seq(Outbound)
    BY <1>17, PopShape, Messages DEF BackoffAudio, Pop
  <2>2. pending' \in Seq(Frame)
    <3>1. Append(pending, Head(outbound).frame) \in Seq(Frame)
      BY <2>1, AppendProperties
    <3> QED BY <1>17, <3>1 DEF BackoffAudio
  <2> QED BY <1>17, <2>1, <2>2 DEF BackoffAudio, handle, record
<1>18. CASE BackoffInterrupted
  <2>1. OutcomeFinished \/ OutcomeShutdown
    BY <1>18 DEF BackoffInterrupted
  <2> QED BY <1>18, <2>1, OutcomeShape DEF BackoffInterrupted, handle, record
<1>19. CASE Watchdog
  BY <1>19 DEF Watchdog, handle, thread, record
<1>20. CASE PingTick
  BY <1>20 DEF PingTick, handle, thread, record
<1>21. CASE StartOk
  BY <1>21 DEF StartOk, handle, thread, record
<1>22. CASE FrameWritten
  BY <1>22, SettleShape DEF FrameWritten, handle
<1>23. CASE FrameFailed
  <2>1. \E b \in BOOLEAN : OutcomeRetry(b)
    BY <1>23 DEF FrameFailed
  <2> QED BY <1>23, <2>1, SettleShape, OutcomeShape DEF FrameFailed, handle
<1>24. CASE EosWritten
  BY <1>24 DEF EosWritten, handle, thread, record
<1>25. CASE EosFailed
  BY <1>25, OutcomeShape DEF EosFailed, handle, thread, record
<1>26. CASE Closed
  <2>1. OutcomeFinished \/ OutcomeShutdown
    BY <1>26 DEF Closed
  <2> QED BY <1>26, <2>1, OutcomeShape DEF Closed, handle, record
<1>27. CASE PingWritten
  BY <1>27 DEF PingWritten, handle, thread, record
<1>28. CASE PingFailed
  <2>1. \E b \in BOOLEAN : OutcomeRetry(b)
    BY <1>28 DEF PingFailed
  <2> QED BY <1>28, <2>1, OutcomeShape DEF PingFailed, handle, record
<1>29. CASE ConnectOk
  BY <1>29 DEF ConnectOk, handle, thread, record
<1>30. CASE ConnectFail
  <2>1. \E b \in BOOLEAN : OutcomeRetry(b)
    BY <1>30 DEF ConnectFail
  <2> QED BY <1>30, <2>1, OutcomeShape DEF ConnectFail, handle, record
<1>31. CASE ConnectionLost
  <2>1. OutcomeFinished \/ \E b \in BOOLEAN : OutcomeRetry(b)
    BY <1>31 DEF ConnectionLost
  <2> QED BY <1>31, <2>1, OutcomeShape DEF ConnectionLost, handle, record
<1>32. ASSUME NEW tokens \in BOOLEAN, NEW finished \in BOOLEAN, RecvResponse(tokens, finished)
      PROVE  Shape'
  <2>1. inbound' \in Seq(Inbound)
    BY <1>32, ReportShape DEF RecvResponse, Inbound
  <2> QED BY <1>32, <2>1 DEF RecvResponse, handle, record
<1>33. ASSUME NEW retryable \in BOOLEAN, RecvError(retryable)
      PROVE  Shape'
  <2>1. OutcomeFatal \/ \E b \in BOOLEAN : OutcomeRetry(b)
    BY <1>33 DEF RecvError
  <2> QED BY <1>33, <2>1, OutcomeShape DEF RecvError, handle, record
<1>34. CASE UNCHANGED vars
  BY <1>34 DEF vars, handle, thread, record
<1> QED
  BY <1>1, <1>2, <1>3, <1>4, <1>5, <1>6, <1>7, <1>8, <1>9, <1>10, <1>11, <1>12,
     <1>13, <1>14, <1>15, <1>16, <1>17, <1>18, <1>19, <1>20, <1>21, <1>22, <1>23, <1>24,
     <1>25, <1>26, <1>27, <1>28, <1>29, <1>30, <1>31, <1>32, <1>33, <1>34
     DEF Next, HandleNext, ThreadStep, WriteStep, ConnectStep, ServiceStep

LEMMA ControlStep == ASSUME Shape, Control, [Next]_vars PROVE Control'
<1> USE DEF Shape, Control
<1>1. CASE SendCheck
  BY <1>1 DEF SendCheck, thread, Exited
<1>2. CASE SendCount
  BY <1>2 DEF SendCount, thread, Exited
<1>3. CASE SendPush
  BY <1>3 DEF SendPush, thread, Exited
<1>4. CASE CallFinish
  BY <1>4 DEF CallFinish, thread, Exited
<1>5. CASE Receive
  BY <1>5 DEF Receive, thread, Exited
<1>6. CASE DropHandle
  BY <1>6 DEF DropHandle, thread, Exited
<1>7. CASE Join
  BY <1>7 DEF Join, thread, Exited
<1>8. CASE Joined
  BY <1>8 DEF Joined, vars, thread, Exited
<1>9. CASE RuntimeBuilt
  BY <1>9 DEF RuntimeBuilt, Exited
<1>10. CASE RuntimeFailed
  BY <1>10 DEF RuntimeFailed, OutcomeFatal, Return, Exited
<1>11. CASE ReplayPending
  BY <1>11 DEF ReplayPending, StartWrite, Exited
<1>12. CASE TakeShutdown
  BY <1>12 DEF TakeShutdown, Exited
<1>13. CASE TakeFinish
  BY <1>13 DEF TakeFinish, Exited
<1>14. CASE TakeAudio
  BY <1>14 DEF TakeAudio, StartWrite, Exited
<1>15. CASE FlushDone
  BY <1>15 DEF FlushDone, Exited
<1>16. CASE BackoffOver
  BY <1>16 DEF BackoffOver, Exited
<1>17. CASE BackoffAudio
  BY <1>17 DEF BackoffAudio, Exited
<1>18. CASE BackoffInterrupted
  BY <1>18 DEF BackoffInterrupted, OutcomeFinished, Return, OutcomeShutdown, Exited
<1>19. CASE Watchdog
  BY <1>19 DEF Watchdog, Exited
<1>20. CASE PingTick
  BY <1>20 DEF PingTick, Exited
<1>21. CASE StartOk
  BY <1>21 DEF StartOk, Exited
<1>22. CASE FrameWritten
  BY <1>22 DEF FrameWritten, Settle, Exited
<1>23. CASE FrameFailed
  BY <1>23 DEF FrameFailed, OutcomeRetry, Return, Settle, Exited
<1>24. CASE EosWritten
  BY <1>24 DEF EosWritten, Exited
<1>25. CASE EosFailed
  BY <1>25 DEF EosFailed, OutcomeFinished, Return, Exited
<1>26. CASE Closed
  BY <1>26 DEF Closed, OutcomeFinished, Return, OutcomeShutdown, Exited
<1>27. CASE PingWritten
  BY <1>27 DEF PingWritten, Exited
<1>28. CASE PingFailed
  BY <1>28 DEF PingFailed, OutcomeRetry, Return, Exited
<1>29. CASE ConnectOk
  BY <1>29 DEF ConnectOk, Exited
<1>30. CASE ConnectFail
  BY <1>30 DEF ConnectFail, OutcomeRetry, Return, Exited
<1>31. CASE ConnectionLost
  BY <1>31 DEF ConnectionLost, OutcomeFinished, Return, OutcomeRetry, Exited
<1>32. ASSUME NEW tokens \in BOOLEAN, NEW finished \in BOOLEAN, RecvResponse(tokens, finished)
      PROVE  Control'
  BY <1>32 DEF RecvResponse, Exited
<1>33. ASSUME NEW retryable \in BOOLEAN, RecvError(retryable)
      PROVE  Control'
  BY <1>33 DEF RecvError, OutcomeFatal, Return, OutcomeRetry, Exited
<1>34. CASE UNCHANGED vars
  BY <1>34 DEF vars, thread, Exited
<1> QED
  BY <1>1, <1>2, <1>3, <1>4, <1>5, <1>6, <1>7, <1>8, <1>9, <1>10, <1>11, <1>12,
     <1>13, <1>14, <1>15, <1>16, <1>17, <1>18, <1>19, <1>20, <1>21, <1>22, <1>23, <1>24,
     <1>25, <1>26, <1>27, <1>28, <1>29, <1>30, <1>31, <1>32, <1>33, <1>34
     DEF Next, HandleNext, ThreadStep, WriteStep, ConnectStep, ServiceStep

-------------------------------------------------------------------------------
\* What the order of the audio says of the four places it can be in: written (w), being
\* written (b), waiting for a connection (p), in the channel (q); n is the next frame.
Lanes(w, b, p, q, n) ==
  /\ Increasing(w) /\ Increasing(p) /\ InCaptureOrder(q)
  /\ Before(Elements(w), ({b} \ {0}) \cup Elements(p) \cup QueuedIn(q))
  /\ Before({b} \ {0}, Elements(p) \cup QueuedIn(q))
  /\ Before(Elements(p), QueuedIn(q))
  /\ \A f \in Elements(w) \cup ({b} \ {0}) \cup Elements(p) \cup QueuedIn(q) : f < n

LEMMA LanesAreTheOrder == Lanes(wire, writing, pending, outbound, frame) <=> CaptureOrder /\ Older
BY DEF Lanes, CaptureOrder, Older, Travelling, Queued

LEMMA NoElements == Elements(<<>>) = {} /\ Increasing(<<>>) /\ QueuedIn(<<>>) = {} /\ InCaptureOrder(<<>>)
BY DEF Elements, Increasing, QueuedIn, InCaptureOrder

LEMMA ElementsInRange ==
  ASSUME NEW S, NEW s \in Seq(S)
  PROVE  Elements(s) \subseteq S
BY ElementOfSeq DEF Elements

LEMMA QueuedInRange ==
  ASSUME NEW s \in Seq(Outbound)
  PROVE  QueuedIn(s) \subseteq Frame
<1>1. ASSUME NEW i \in 1..Len(s), s[i].type = "audio" PROVE s[i].frame \in Frame
  BY <1>1, ElementOfSeq, Messages
<1> QED BY <1>1 DEF QueuedIn

\* Audio goes to the back of a lane.
LEMMA AppendFrame ==
  ASSUME NEW s \in Seq(Frame), NEW f \in Frame
  PROVE  /\ Elements(Append(s, f)) = Elements(s) \cup {f}
         /\ Increasing(s) /\ Before(Elements(s), {f}) => Increasing(Append(s, f))
<1> DEFINE t == Append(s, f)
<1>1. Len(t) = Len(s) + 1 /\ Len(s) \in Nat /\ (\A i \in 1..Len(s) : t[i] = s[i]) /\ t[Len(s) + 1] = f
  BY AppendProperties, LenProperties
<1>2. 1..Len(t) = 1..Len(s) \cup {Len(s) + 1}
  BY <1>1
<1> HIDE DEF t
<1>3. Elements(t) = Elements(s) \cup {f}
  BY <1>1, <1>2 DEF Elements
<1>4. ASSUME Increasing(s), Before(Elements(s), {f}) PROVE Increasing(t)
  <2>1. \A i \in 1..Len(s) : s[i] < f
    BY <1>4 DEF Before, Elements
  <2> QED BY <1>1, <1>2, <1>4, <2>1 DEF Increasing
<1> QED BY <1>3, <1>4 DEF t

LEMMA AppendMessage ==
  ASSUME NEW s \in Seq(Outbound), NEW m \in Outbound
  PROVE  /\ QueuedIn(Append(s, m)) = QueuedIn(s) \cup (IF m.type = "audio" THEN {m.frame} ELSE {})
         /\ InCaptureOrder(s) /\ (m.type = "audio" => Before(QueuedIn(s), {m.frame}))
              => InCaptureOrder(Append(s, m))
<1> DEFINE t == Append(s, m)
<1>1. Len(t) = Len(s) + 1 /\ Len(s) \in Nat /\ (\A i \in 1..Len(s) : t[i] = s[i]) /\ t[Len(s) + 1] = m
  BY AppendProperties, LenProperties
<1>2. 1..Len(t) = 1..Len(s) \cup {Len(s) + 1}
  BY <1>1
<1> HIDE DEF t
<1>3. QueuedIn(t) = QueuedIn(s) \cup (IF m.type = "audio" THEN {m.frame} ELSE {})
  BY <1>1, <1>2 DEF QueuedIn
<1>4. ASSUME InCaptureOrder(s), m.type = "audio" => Before(QueuedIn(s), {m.frame})
      PROVE  InCaptureOrder(t)
  <2>1. \A i \in 1..Len(s) : m.type = "audio" /\ s[i].type = "audio" => s[i].frame < m.frame
    BY <1>4 DEF Before, QueuedIn
  <2> QED BY <1>1, <1>2, <1>4, <2>1 DEF InCaptureOrder
<1> QED BY <1>3, <1>4 DEF t

\* Audio leaves the front of a lane.
LEMMA TailOfFrames ==
  ASSUME NEW s \in Seq(Frame), s # <<>>, Increasing(s)
  PROVE  /\ Elements(s) = {Head(s)} \cup Elements(Tail(s))
         /\ Increasing(Tail(s))
         /\ Before({Head(s)}, Elements(Tail(s)))
<1> DEFINE t == Tail(s)
<1>1. /\ Len(s) \in Nat /\ Len(s) > 0 /\ Len(t) = Len(s) - 1
      /\ Head(s) = s[1] /\ \A i \in 1..Len(t) : t[i] = s[i + 1]
  BY HeadTailProperties, LenProperties, EmptySeq
<1> HIDE DEF t
<1>2. 1 \in 1..Len(s) /\ \A i \in 1..Len(t) : i + 1 \in 1..Len(s)
  BY <1>1
<1>3. ASSUME NEW i \in 1..Len(s), i # 1 PROVE i - 1 \in 1..Len(t) /\ s[i] = t[i - 1]
  <2>1. i - 1 \in 1..Len(t) /\ (i - 1) + 1 = i
    BY <1>1, <1>3
  <2> QED BY <1>1, <2>1
<1>4. Elements(s) = {Head(s)} \cup Elements(t)
  <2>1. Elements(s) \subseteq {Head(s)} \cup Elements(t)
    BY <1>1, <1>3 DEF Elements
  <2>2. {Head(s)} \cup Elements(t) \subseteq Elements(s)
    BY <1>1, <1>2 DEF Elements
  <2> QED BY <2>1, <2>2
<1>5. Increasing(t)
  BY <1>1 DEF Increasing
<1>6. Before({Head(s)}, Elements(t))
  BY <1>1, SMTT(30) DEF Increasing, Before, Elements
<1> QED BY <1>4, <1>5, <1>6 DEF t

LEMMA TailOfMessages ==
  ASSUME NEW s \in Seq(Outbound), s # <<>>, InCaptureOrder(s)
  PROVE  /\ QueuedIn(s) = QueuedIn(Tail(s)) \cup (IF Head(s).type = "audio" THEN {Head(s).frame} ELSE {})
         /\ InCaptureOrder(Tail(s))
         /\ Head(s).type = "audio" => Before({Head(s).frame}, QueuedIn(Tail(s)))
<1> DEFINE t == Tail(s)
<1>1. /\ Len(s) \in Nat /\ Len(s) > 0 /\ Len(t) = Len(s) - 1
      /\ Head(s) = s[1] /\ \A i \in 1..Len(t) : t[i] = s[i + 1]
  BY HeadTailProperties, LenProperties, EmptySeq
<1> HIDE DEF t
<1>2. 1 \in 1..Len(s) /\ \A i \in 1..Len(t) : i + 1 \in 1..Len(s)
  BY <1>1
<1>3. ASSUME NEW i \in 1..Len(s), i # 1 PROVE i - 1 \in 1..Len(t) /\ s[i] = t[i - 1]
  <2>1. i - 1 \in 1..Len(t) /\ (i - 1) + 1 = i
    BY <1>1, <1>3
  <2> QED BY <1>1, <2>1
<1>4. QueuedIn(s) = QueuedIn(t) \cup (IF Head(s).type = "audio" THEN {Head(s).frame} ELSE {})
  <2>1. QueuedIn(s) \subseteq QueuedIn(t) \cup (IF Head(s).type = "audio" THEN {Head(s).frame} ELSE {})
    BY <1>1, <1>3 DEF QueuedIn
  <2>2. QueuedIn(t) \subseteq QueuedIn(s)
    BY <1>1, <1>2 DEF QueuedIn
  <2>3. Head(s).type = "audio" => Head(s).frame \in QueuedIn(s)
    BY <1>1, <1>2 DEF QueuedIn
  <2> QED BY <2>1, <2>2, <2>3
<1>5. InCaptureOrder(t)
  BY <1>1 DEF InCaptureOrder
<1>6. Head(s).type = "audio" => Before({Head(s).frame}, QueuedIn(t))
  BY <1>1, SMTT(30) DEF InCaptureOrder, Before, QueuedIn
<1> QED BY <1>4, <1>5, <1>6 DEF t

\* send_audio puts its frame on the channel.
LEMMA SendLane ==
  ASSUME NEW w \in Seq(Frame), NEW b \in Frame \cup {0}, NEW p \in Seq(Frame), NEW q \in Seq(Outbound),
         NEW n \in Nat, Lanes(w, b, p, q, n), n \in Frame
  PROVE  Lanes(w, b, p, Append(q, Audio(n)), n + 1)
<1> DEFINE r == Append(q, Audio(n))
<1>1. Audio(n).type = "audio" /\ Audio(n).frame = n /\ Audio(n) \in Outbound
  BY Messages DEF Audio
<1>2. Before(QueuedIn(q), {n})
  BY DEF Lanes, Before
<1>3. QueuedIn(r) = QueuedIn(q) \cup {n} /\ InCaptureOrder(r)
  BY <1>1, <1>2, AppendMessage DEF Lanes
<1>4. Elements(w) \subseteq Nat /\ Elements(p) \subseteq Nat /\ QueuedIn(q) \subseteq Nat /\ b \in Nat
  <2>1. Elements(w) \subseteq Frame /\ Elements(p) \subseteq Frame
    BY ElementsInRange
  <2>2. QueuedIn(q) \subseteq Frame
    BY QueuedInRange
  <2>3. \A f \in Frame : f \in Nat
    BY FramesAreNumbers
  <2>4. b \in Nat
    BY <2>3
  <2> QED BY <2>1, <2>2, <2>3, <2>4, Zenon
<1> HIDE DEF r
<1>5. Lanes(w, b, p, r, n + 1)
  BY <1>3, <1>4 DEF Lanes, Before
<1> QED BY <1>5 DEF r

\* Finish or Shutdown is put on the channel.
LEMMA MessageLane ==
  ASSUME NEW w \in Seq(Frame), NEW b \in Frame \cup {0}, NEW p \in Seq(Frame), NEW q \in Seq(Outbound),
         NEW n \in Nat, Lanes(w, b, p, q, n), NEW m \in Outbound, m.type # "audio"
  PROVE  Lanes(w, b, p, Append(q, m), n)
<1>1. QueuedIn(Append(q, m)) = QueuedIn(q) /\ InCaptureOrder(Append(q, m))
  BY AppendMessage DEF Lanes
<1> QED BY <1>1 DEF Lanes

\* The front of the channel is dropped.
LEMMA DropLane ==
  ASSUME NEW w \in Seq(Frame), NEW b \in Frame \cup {0}, NEW p \in Seq(Frame), NEW q \in Seq(Outbound),
         NEW n \in Nat, Lanes(w, b, p, q, n), q # <<>>
  PROVE  Lanes(w, b, p, Tail(q), n)
<1>1. QueuedIn(Tail(q)) \subseteq QueuedIn(q) /\ InCaptureOrder(Tail(q))
  BY TailOfMessages DEF Lanes
<1> QED BY <1>1 DEF Lanes, Before

\* Audio at the front of the channel is written, nothing else waiting.
LEMMA StartLane ==
  ASSUME NEW w \in Seq(Frame), NEW b \in Frame \cup {0}, NEW p \in Seq(Frame), NEW q \in Seq(Outbound),
         NEW n \in Nat, Lanes(w, b, p, q, n), b = 0, p = <<>>, q # <<>>, Head(q).type = "audio"
  PROVE  Lanes(w, Head(q).frame, p, Tail(q), n)
<1>1. /\ QueuedIn(q) = QueuedIn(Tail(q)) \cup {Head(q).frame} /\ InCaptureOrder(Tail(q))
      /\ Before({Head(q).frame}, QueuedIn(Tail(q)))
  BY TailOfMessages DEF Lanes
<1>2. Elements(p) = {}
  BY NoElements
<1> QED BY <1>1, <1>2 DEF Lanes, Before

\* Audio at the front of the channel is kept for the next connection.
LEMMA KeepLane ==
  ASSUME NEW w \in Seq(Frame), NEW b \in Frame \cup {0}, NEW p \in Seq(Frame), NEW q \in Seq(Outbound),
         NEW n \in Nat, Lanes(w, b, p, q, n), q # <<>>, Head(q).type = "audio"
  PROVE  Lanes(w, b, Append(p, Head(q).frame), Tail(q), n)
<1>1. /\ QueuedIn(q) = QueuedIn(Tail(q)) \cup {Head(q).frame} /\ InCaptureOrder(Tail(q))
      /\ Before({Head(q).frame}, QueuedIn(Tail(q)))
  BY TailOfMessages DEF Lanes
<1>2. Head(q).frame \in Frame
  BY HeadTailProperties, Messages
<1>3. Before(Elements(p), {Head(q).frame})
  BY <1>1 DEF Lanes, Before
<1>4. /\ Elements(Append(p, Head(q).frame)) = Elements(p) \cup {Head(q).frame}
      /\ Increasing(Append(p, Head(q).frame))
  BY <1>2, <1>3, AppendFrame DEF Lanes
<1> QED BY <1>1, <1>4 DEF Lanes, Before

\* The oldest frame that waited is written.
LEMMA ReplayLane ==
  ASSUME NEW w \in Seq(Frame), NEW b \in Frame \cup {0}, NEW p \in Seq(Frame), NEW q \in Seq(Outbound),
         NEW n \in Nat, Lanes(w, b, p, q, n), b = 0, p # <<>>
  PROVE  Lanes(w, Head(p), Tail(p), q, n)
<1>1. /\ Elements(p) = {Head(p)} \cup Elements(Tail(p)) /\ Increasing(Tail(p))
      /\ Before({Head(p)}, Elements(Tail(p)))
  BY TailOfFrames DEF Lanes
<1> QED BY <1>1 DEF Lanes, Before

\* The write is complete.
LEMMA WrittenLane ==
  ASSUME NEW w \in Seq(Frame), NEW b \in Frame \cup {0}, NEW p \in Seq(Frame), NEW q \in Seq(Outbound),
         NEW n \in Nat, Lanes(w, b, p, q, n), b # 0
  PROVE  Lanes(Append(w, b), 0, p, q, n)
<1>1. b \in Frame /\ {b} \ {0} = {b} /\ {0} \ {0} = {}
  OBVIOUS
<1>2. Before(Elements(w), {b})
  BY <1>1 DEF Lanes, Before
<1>3. Elements(Append(w, b)) = Elements(w) \cup {b} /\ Increasing(Append(w, b))
  BY <1>1, <1>2, AppendFrame DEF Lanes
<1> QED BY <1>1, <1>3 DEF Lanes, Before

\* The write has failed, and perhaps the session is over.
LEMMA ClearedLane ==
  ASSUME NEW w \in Seq(Frame), NEW b \in Frame \cup {0}, NEW p \in Seq(Frame), NEW q \in Seq(Outbound),
         NEW n \in Nat, Lanes(w, b, p, q, n)
  PROVE  Lanes(w, 0, p, q, n) /\ Lanes(w, b, <<>>, <<>>, n) /\ Lanes(w, 0, <<>>, <<>>, n)
BY NoElements DEF Lanes, Before

\* A frame is refused, or finds the channel closed: the next one is later still.
LEMMA LaterLane ==
  ASSUME NEW w \in Seq(Frame), NEW b \in Frame \cup {0}, NEW p \in Seq(Frame), NEW q \in Seq(Outbound),
         NEW n \in Nat, Lanes(w, b, p, q, n)
  PROVE  Lanes(w, b, p, q, n + 1)
<1>1. Elements(w) \subseteq Frame /\ Elements(p) \subseteq Frame
  BY ElementsInRange
<1>2. QueuedIn(q) \subseteq Frame
  BY QueuedInRange
<1>3. \A f \in Frame : f \in Nat
  BY FramesAreNumbers
<1>4. \A f \in Elements(w) \cup ({b} \ {0}) \cup Elements(p) \cup QueuedIn(q) : f \in Nat
  BY <1>1, <1>2, <1>3
<1>5. \A f \in Elements(w) \cup ({b} \ {0}) \cup Elements(p) \cup QueuedIn(q) : f < n + 1
  <2>1. \A f \in Elements(w) \cup ({b} \ {0}) \cup Elements(p) \cup QueuedIn(q) : f < n
    BY DEF Lanes
  <2>2. \A f \in Nat : f < n => f < n + 1
    OBVIOUS
  <2> QED BY <1>4, <2>1, <2>2, Zenon
<1> QED BY <1>5 DEF Lanes

\* The invariant of the order: where each frame is, by capture number.
Ordered == Lanes(wire, writing, pending, outbound, frame)

LEMMA OutcomeOrdered ==
  ASSUME Shape, Ordered, UNCHANGED <<wire, frame>>, writing' = writing \/ writing' = 0,
         \/ OutcomeFinished \/ OutcomeFatal \/ OutcomeShutdown
         \/ \E b \in BOOLEAN : OutcomeRetry(b)
  PROVE  Ordered'
<1>1. (outbound' = <<>> /\ pending' = <<>>) \/ UNCHANGED <<outbound, pending>>
  BY DEF OutcomeFinished, OutcomeFatal, OutcomeShutdown, OutcomeRetry, Return
<1>2. /\ Lanes(wire, 0, pending, outbound, frame) /\ Lanes(wire, writing, <<>>, <<>>, frame)
      /\ Lanes(wire, 0, <<>>, <<>>, frame)
  BY ClearedLane DEF Shape, Ordered
<1> QED BY <1>1, <1>2 DEF Ordered

LEMMA OrderedStep == ASSUME Shape, Control, Ordered, [Next]_vars PROVE Ordered'
<1>0. /\ wire \in Seq(Frame) /\ writing \in Frame \cup {0} /\ pending \in Seq(Frame)
      /\ outbound \in Seq(Outbound) /\ frame \in Nat
  BY DEF Shape
<1> USE DEF Ordered
<1>1. CASE SendCheck
  <2>1. Lanes(wire, writing, pending, outbound, frame + 1)
    BY <1>0, LaterLane
  <2> QED BY <1>1, <2>1 DEF SendCheck, thread, record
<1>2. CASE SendCount
  BY <1>2 DEF SendCount, thread, record
<1>3. CASE SendPush
  <2>1. Lanes(wire, writing, pending, outbound, frame + 1)
    BY <1>0, LaterLane
  <2>2. frame \in Frame
    BY <1>3 DEF SendPush, Shape
  <2>3. Lanes(wire, writing, pending, Append(outbound, Audio(frame)), frame + 1)
    BY <1>0, <2>2, SendLane
  <2> QED BY <1>3, <2>1, <2>3 DEF SendPush, thread, record
<1>4. CASE CallFinish
  <2>1. Lanes(wire, writing, pending, Append(outbound, Finish), frame)
    BY <1>0, Messages, MessageLane
  <2> QED BY <1>4, <2>1 DEF CallFinish, thread, record
<1>5. CASE Receive
  BY <1>5 DEF Receive, thread, record
<1>6. CASE DropHandle
  <2>1. Lanes(wire, writing, pending, Append(outbound, Shutdown), frame)
    BY <1>0, Messages, MessageLane
  <2> QED BY <1>6, <2>1 DEF DropHandle, thread, record
<1>7. CASE Join
  BY <1>7 DEF Join, thread, record
<1>8. CASE Joined
  BY <1>8 DEF Joined, vars, handle, thread, record
<1>9. CASE RuntimeBuilt
  BY <1>9 DEF RuntimeBuilt, handle, record
<1>10. CASE RuntimeFailed
  <2>1. OutcomeFatal
    BY <1>10 DEF RuntimeFailed, Shape
  <2>2. UNCHANGED <<wire, frame, writing>>
    BY <1>10 DEF RuntimeFailed, handle, record
  <2> QED BY <2>1, <2>2, OutcomeOrdered
<1>11. CASE ReplayPending
  <2>1. CASE pending = <<>>
    BY <1>11, <2>1 DEF ReplayPending, handle, record
  <2>2. CASE pending # <<>>
    <3>1. Lanes(wire, Head(pending), Tail(pending), outbound, frame)
      BY <1>0, <1>11, <2>2, ReplayLane DEF ReplayPending
    <3> QED BY <1>11, <2>2, <3>1 DEF ReplayPending, StartWrite, handle, record
  <2> QED BY <2>1, <2>2
<1>12. CASE TakeShutdown
  <2>1. Lanes(wire, writing, pending, Tail(outbound), frame)
    BY <1>0, <1>12, DropLane DEF TakeShutdown
  <2> QED BY <1>12, <2>1 DEF TakeShutdown, handle, record, Pop
<1>13. CASE TakeFinish
  <2>1. Lanes(wire, writing, pending, Tail(outbound), frame)
    BY <1>0, <1>13, DropLane DEF TakeFinish
  <2> QED BY <1>13, <2>1 DEF TakeFinish, handle, record, Pop
<1>14. CASE TakeAudio
  <2>1. pending = <<>> /\ writing = 0
    BY <1>14 DEF TakeAudio, Control
  <2>2. Lanes(wire, writing, pending, Tail(outbound), frame)
    BY <1>0, <1>14, DropLane DEF TakeAudio
  <2>3. Lanes(wire, Head(outbound).frame, pending, Tail(outbound), frame)
    BY <1>0, <1>14, <2>1, StartLane DEF TakeAudio
  <2> QED BY <1>14, <2>2, <2>3 DEF TakeAudio, StartWrite, Pop, handle
<1>15. CASE FlushDone
  BY <1>15 DEF FlushDone, handle, record
<1>16. CASE BackoffOver
  BY <1>16 DEF BackoffOver, handle, record
<1>17. CASE BackoffAudio
  <2>1. Lanes(wire, writing, pending, Tail(outbound), frame)
    BY <1>0, <1>17, DropLane DEF BackoffAudio
  <2>2. Lanes(wire, writing, Append(pending, Head(outbound).frame), Tail(outbound), frame)
    BY <1>0, <1>17, KeepLane DEF BackoffAudio
  <2> QED BY <1>17, <2>1, <2>2 DEF BackoffAudio, Pop, handle, record
<1>18. CASE BackoffInterrupted
  <2>1. OutcomeFinished \/ OutcomeShutdown
    BY <1>18 DEF BackoffInterrupted, Shape
  <2>2. UNCHANGED <<wire, frame, writing>>
    BY <1>18 DEF BackoffInterrupted, handle, record
  <2> QED BY <2>1, <2>2, OutcomeOrdered
<1>19. CASE Watchdog
  BY <1>19 DEF Watchdog, handle, record
<1>20. CASE PingTick
  BY <1>20 DEF PingTick, handle, record
<1>21. CASE StartOk
  BY <1>21 DEF StartOk, handle, record
<1>22. CASE FrameWritten
  <2>1. Lanes(Append(wire, writing), 0, pending, outbound, frame)
    BY <1>0, <1>22, WrittenLane DEF FrameWritten
  <2> QED BY <1>22, <2>1 DEF FrameWritten, Settle, handle
<1>23. CASE FrameFailed
  <2>1. \E b \in BOOLEAN : OutcomeRetry(b)
    BY <1>23 DEF FrameFailed, Shape
  <2>2. UNCHANGED <<wire, frame>> /\ writing' = 0
    BY <1>23 DEF FrameFailed, Settle, handle
  <2> QED BY <2>1, <2>2, OutcomeOrdered
<1>24. CASE EosWritten
  BY <1>24 DEF EosWritten, handle, record
<1>25. CASE EosFailed
  <2>1. OutcomeFinished
    BY <1>25 DEF EosFailed, Shape
  <2>2. UNCHANGED <<wire, frame, writing>>
    BY <1>25 DEF EosFailed, handle, record
  <2> QED BY <2>1, <2>2, OutcomeOrdered
<1>26. CASE Closed
  <2>1. OutcomeFinished \/ OutcomeShutdown
    BY <1>26 DEF Closed, Shape
  <2>2. UNCHANGED <<wire, frame, writing>>
    BY <1>26 DEF Closed, handle, record
  <2> QED BY <2>1, <2>2, OutcomeOrdered
<1>27. CASE PingWritten
  BY <1>27 DEF PingWritten, handle, record
<1>28. CASE PingFailed
  <2>1. \E b \in BOOLEAN : OutcomeRetry(b)
    BY <1>28 DEF PingFailed, Shape
  <2>2. UNCHANGED <<wire, frame, writing>>
    BY <1>28 DEF PingFailed, handle, record
  <2> QED BY <2>1, <2>2, OutcomeOrdered
<1>29. CASE ConnectOk
  BY <1>29 DEF ConnectOk, handle, record
<1>30. CASE ConnectFail
  <2>1. \E b \in BOOLEAN : OutcomeRetry(b)
    BY <1>30 DEF ConnectFail, Shape
  <2>2. UNCHANGED <<wire, frame, writing>>
    BY <1>30 DEF ConnectFail, handle, record
  <2> QED BY <2>1, <2>2, OutcomeOrdered
<1>31. CASE ConnectionLost
  <2>1. OutcomeFinished \/ \E b \in BOOLEAN : OutcomeRetry(b)
    BY <1>31 DEF ConnectionLost, Shape
  <2>2. UNCHANGED <<wire, frame, writing>>
    BY <1>31 DEF ConnectionLost, handle, record
  <2> QED BY <2>1, <2>2, OutcomeOrdered
<1>32. ASSUME NEW tokens \in BOOLEAN, NEW finished \in BOOLEAN, RecvResponse(tokens, finished)
      PROVE  Ordered'
  BY <1>32 DEF RecvResponse, handle, record
<1>33. ASSUME NEW retryable \in BOOLEAN, RecvError(retryable)
      PROVE  Ordered'
  <2>1. OutcomeFatal \/ \E b \in BOOLEAN : OutcomeRetry(b)
    BY <1>33 DEF RecvError, Shape
  <2>2. UNCHANGED <<wire, frame, writing>>
    BY <1>33 DEF RecvError, handle, record
  <2> QED BY <2>1, <2>2, OutcomeOrdered
<1>34. CASE UNCHANGED vars
  BY <1>34 DEF vars, handle, thread, record
<1> QED
  BY <1>1, <1>2, <1>3, <1>4, <1>5, <1>6, <1>7, <1>8, <1>9, <1>10, <1>11, <1>12,
     <1>13, <1>14, <1>15, <1>16, <1>17, <1>18, <1>19, <1>20, <1>21, <1>22, <1>23, <1>24,
     <1>25, <1>26, <1>27, <1>28, <1>29, <1>30, <1>31, <1>32, <1>33, <1>34
     DEF Next, HandleNext, ThreadStep, WriteStep, ConnectStep, ServiceStep

-------------------------------------------------------------------------------
Dropped == hpc \in {"joining", "joined"}
Stops(messages) == \E i \in 1..Len(messages) : messages[i] = Shutdown

\* The thread is only asked to stop by the owner dropping the handle.
StopMeansDropped == pc = "closeShutdown" \/ Stops(outbound) => Dropped

\* The invariant of the end of the session.
Ending == StopMeansDropped /\ TerminalIsLast /\ SendFailureExplained

LEMMA StopsInMessages ==
  ASSUME NEW q \in Seq(Outbound)
  PROVE  /\ ~Stops(<<>>)
         /\ q # <<>> /\ Head(q) = Shutdown => Stops(q)
         /\ q # <<>> /\ Stops(Tail(q)) => Stops(q)
         /\ \A m \in Outbound : Stops(Append(q, m)) => Stops(q) \/ m = Shutdown
<1>1. ~Stops(<<>>)
  BY DEF Stops
<1>2. ASSUME q # <<>>
      PROVE  (Head(q) = Shutdown => Stops(q)) /\ (Stops(Tail(q)) => Stops(q))
  <2> DEFINE t == Tail(q)
  <2>1. /\ Len(q) \in Nat /\ Len(q) > 0 /\ Len(t) = Len(q) - 1
        /\ Head(q) = q[1] /\ \A i \in 1..Len(t) : t[i] = q[i + 1]
    BY <1>2, HeadTailProperties, LenProperties, EmptySeq
  <2> HIDE DEF t
  <2>2. Head(q) = Shutdown => Stops(q)
    BY <2>1 DEF Stops
  <2>3. ASSUME NEW i \in 1..Len(t), t[i] = Shutdown PROVE Stops(q)
    <3>1. i + 1 \in 1..Len(q) /\ q[i + 1] = Shutdown
      BY <2>1, <2>3
    <3> QED BY <3>1 DEF Stops
  <2>4. Stops(t) => Stops(q)
    BY <2>3 DEF Stops
  <2> QED BY <2>2, <2>4 DEF t
<1>3. ASSUME NEW m \in Outbound, m # Shutdown, Stops(Append(q, m)) PROVE Stops(q)
  <2> DEFINE t == Append(q, m)
  <2>1. Len(t) = Len(q) + 1 /\ Len(q) \in Nat /\ (\A i \in 1..Len(q) : t[i] = q[i]) /\ t[Len(q) + 1] = m
    BY AppendProperties, LenProperties
  <2> HIDE DEF t
  <2>2. PICK i \in 1..Len(t) : t[i] = Shutdown
    BY <1>3 DEF Stops, t
  <2>3. i \in 1..Len(q)
    BY <1>3, <2>1, <2>2
  <2> QED BY <2>1, <2>2, <2>3 DEF Stops
<1> QED BY <1>1, <1>2, <1>3

\* A step that reports nothing and ends nothing.
LEMMA SilentEnding ==
  ASSUME Ending, UNCHANGED <<inbound, heard>>, pc' = "exited" <=> pc = "exited", Dropped => Dropped',
         pc' = "closeShutdown" \/ Stops(outbound') => Dropped'
  PROVE  Ending'
<1>1. StopMeansDropped'
  BY DEF StopMeansDropped
<1>2. TerminalIsLast'
  BY DEF Ending, TerminalIsLast, Exited
<1>3. SendFailureExplained'
  BY DEF Ending, SendFailureExplained, Exited, Dropped
<1> QED BY <1>1, <1>2, <1>3 DEF Ending

\* A step that reports a message and goes on.
LEMMA ReportEnding ==
  ASSUME Shape, Ending, ~Exited, NEW m \in Inbound \ Terminal, Report(m),
         UNCHANGED <<heard, hpc, outbound>>, pc' \notin {"exited", "closeShutdown"}
  PROVE  Ending'
<1>1. /\ Len(inbound') = Len(inbound) + 1 /\ Len(inbound) \in Nat
      /\ \A i \in 1..Len(inbound) : inbound'[i] = inbound[i]
      /\ inbound'[Len(inbound) + 1] = m
  BY AppendProperties, LenProperties DEF Shape, Report
<1>2. \A i \in 1..Len(inbound) : inbound[i] \notin Terminal
  BY DEF Ending, TerminalIsLast
<1>3. \A i \in 1..Len(inbound') : inbound'[i] \notin Terminal
  BY <1>1, <1>2
<1>4. heard = "none"
  BY DEF Ending, TerminalIsLast
<1>5. TerminalIsLast' /\ SendFailureExplained'
  BY <1>3, <1>4 DEF TerminalIsLast, SendFailureExplained, Exited
<1>6. StopMeansDropped'
  BY DEF Ending, StopMeansDropped, Dropped
<1> QED BY <1>5, <1>6 DEF Ending

\* The session ends with its terminal message.
LEMMA TerminalEnding ==
  ASSUME Shape, Ending, ~Exited, NEW m \in Terminal, Report(m), Return, UNCHANGED heard
  PROVE  Ending'
<1>1. /\ Len(inbound') = Len(inbound) + 1 /\ Len(inbound) \in Nat
      /\ \A i \in 1..Len(inbound) : inbound'[i] = inbound[i]
      /\ inbound'[Len(inbound) + 1] = m
  BY AppendProperties, LenProperties DEF Shape, Report
<1>2. \A i \in 1..Len(inbound) : inbound[i] \notin Terminal
  BY DEF Ending, TerminalIsLast
<1>3. heard' = "none" /\ pc' = "exited" /\ outbound' = <<>>
  BY DEF Ending, TerminalIsLast, Return
<1>4. \A i \in 1..Len(inbound') : inbound'[i] \in Terminal => i = Len(inbound')
  BY <1>1, <1>2
<1>5. TerminalIsLast'
  BY <1>3, <1>4 DEF TerminalIsLast, Exited
<1>6. inbound' # <<>> /\ inbound'[Len(inbound')] \in Terminal
  BY <1>1
<1>7. SendFailureExplained'
  BY <1>6 DEF SendFailureExplained, Last
<1>8. StopMeansDropped'
  BY <1>3, StopsInMessages, EmptySeq DEF StopMeansDropped
<1> QED BY <1>5, <1>7, <1>8 DEF Ending

\* The session ends because the owner asked for it: without a message, and nobody listens.
LEMMA DroppedEnding ==
  ASSUME Shape, Ending, ~Exited, Dropped, Return, UNCHANGED <<hpc, inbound, heard>>
  PROVE  Ending'
<1>1. pc' = "exited" /\ outbound' = <<>> /\ Dropped'
  BY DEF Return, Dropped
<1>2. (\A i \in 1..Len(inbound) : inbound[i] \notin Terminal) /\ heard = "none"
  BY DEF Ending, TerminalIsLast
<1>3. TerminalIsLast'
  BY <1>2 DEF TerminalIsLast
<1>4. SendFailureExplained' /\ StopMeansDropped'
  BY <1>1 DEF SendFailureExplained, StopMeansDropped, Dropped
<1> QED BY <1>3, <1>4 DEF Ending

LEMMA RetryEnding ==
  ASSUME Shape, Ending, ~Exited, UNCHANGED <<hpc, heard>>, NEW b \in BOOLEAN, OutcomeRetry(b)
  PROVE  Ending'
<1>1. \/ Report("fatal") /\ Return
      \/ Report("reconnecting") /\ pc' = "backoff" /\ UNCHANGED <<outbound, pending>>
  BY DEF OutcomeRetry
<1>2. "fatal" \in Terminal /\ "reconnecting" \in Inbound \ Terminal
  BY DEF Inbound, Terminal
<1>3. CASE Report("fatal") /\ Return
  BY <1>2, <1>3, TerminalEnding
<1>4. CASE Report("reconnecting") /\ pc' = "backoff" /\ UNCHANGED <<outbound, pending>>
  BY <1>2, <1>4, ReportEnding
<1> QED BY <1>1, <1>3, <1>4

LEMMA FinishedEnding ==
  ASSUME Shape, Ending, ~Exited, UNCHANGED <<hpc, heard>>, OutcomeFinished \/ OutcomeFatal
  PROVE  Ending'
<1>1. "finished" \in Terminal /\ "fatal" \in Terminal
  BY DEF Terminal
<1> QED BY <1>1, TerminalEnding DEF OutcomeFinished, OutcomeFatal

\* The owner reads one message.
LEMMA ReceiveEnding == ASSUME Shape, Ending, Receive PROVE Ending'
<1> DEFINE t == Tail(inbound)
<1>1. /\ Len(inbound) \in Nat /\ Len(inbound) > 0 /\ Len(t) = Len(inbound) - 1
      /\ Head(inbound) = inbound[1] /\ \A i \in 1..Len(t) : t[i] = inbound[i + 1]
      /\ (t = <<>> <=> Len(t) = 0)
  <2>1. inbound \in Seq(Inbound) /\ inbound # <<>>
    BY DEF Shape, Receive
  <2>2. t \in Seq(Inbound)
    BY <2>1, HeadTailProperties
  <2>3. t = <<>> <=> Len(t) = 0
    BY <2>2, EmptySeq
  <2> HIDE DEF t
  <2>4. /\ Len(inbound) \in Nat /\ Len(inbound) > 0 /\ Len(t) = Len(inbound) - 1
        /\ Head(inbound) = inbound[1] /\ \A i \in 1..Len(t) : t[i] = inbound[i + 1]
    BY <2>1, HeadTailProperties, LenProperties, EmptySeq DEF t
  <2> QED BY <2>3, <2>4
<1>2. /\ inbound' = t /\ inbound # <<>> /\ UNCHANGED <<pc, hpc, outbound>>
      /\ heard' = IF Head(inbound) \in Terminal THEN Head(inbound) ELSE heard
  BY DEF Receive, thread
<1> HIDE DEF t
<1>3. heard = "none"
  BY <1>2 DEF Ending, TerminalIsLast
<1>4. /\ \A i \in 1..Len(inbound) : inbound[i] \in Terminal => i = Len(inbound) /\ Exited
      /\ \A i \in 1..Len(t) : t[i] \in Terminal => i = Len(t) /\ Exited
  <2>1. \A i \in 1..Len(inbound) : inbound[i] \in Terminal => i = Len(inbound) /\ Exited
    BY DEF Ending, TerminalIsLast
  <2>2. \A i \in 1..Len(t) : i + 1 \in 1..Len(inbound) /\ (i + 1 = Len(inbound) => i = Len(t))
    BY <1>1
  <2> QED BY <1>1, <2>1, <2>2
<1>5. Head(inbound) \in Terminal => t = <<>> /\ Exited
  BY <1>1, <1>4
<1>6. TerminalIsLast'
  BY <1>2, <1>3, <1>4, <1>5 DEF TerminalIsLast, Exited
<1>7. ASSUME Exited, ~Dropped PROVE heard' # "none" \/ (t # <<>> /\ t[Len(t)] \in Terminal)
  <2>1. inbound[Len(inbound)] \in Terminal
    BY <1>3, <1>7 DEF Ending, SendFailureExplained, Dropped, Last
  <2>2. CASE t = <<>>
    <3>1. Len(inbound) = 1 /\ Head(inbound) = inbound[1]
      BY <1>1, <2>2
    <3>2. Head(inbound) \in Terminal
      BY <2>1, <3>1
    <3> QED BY <1>2, <3>2 DEF Terminal
  <2>3. CASE t # <<>>
    <3>1. Len(t) \in 1..Len(t) /\ Len(t) + 1 = Len(inbound)
      BY <1>1, <2>3
    <3> QED BY <1>1, <2>1, <2>3, <3>1
  <2> QED BY <2>2, <2>3
<1>8. SendFailureExplained'
  BY <1>2, <1>7 DEF SendFailureExplained, Exited, Dropped, Last
<1>9. StopMeansDropped'
  BY <1>2 DEF Ending, StopMeansDropped, Dropped
<1> QED BY <1>6, <1>8, <1>9 DEF Ending

LEMMA EndingInit == Init => Ending
<1> SUFFICES ASSUME Init PROVE Ending
  OBVIOUS
<1>1. inbound = <<>> /\ outbound = <<>> /\ pc = "spawned" /\ heard = "none"
  BY Zenon DEF Init
<1>2. TerminalIsLast /\ SendFailureExplained
  BY <1>1 DEF TerminalIsLast, SendFailureExplained, Exited
<1>3. StopMeansDropped
  BY <1>1 DEF StopMeansDropped, Stops
<1> QED BY <1>2, <1>3 DEF Ending

LEMMA EndingStep == ASSUME Shape, Control, Ending, [Next]_vars PROVE Ending'
<1>0. outbound \in Seq(Outbound) /\ (Stops(outbound) \/ pc = "closeShutdown" => Dropped)
  BY DEF Shape, Ending, StopMeansDropped
<1>1. CASE SendCheck
  BY <1>0, <1>1, SilentEnding DEF SendCheck, thread, Dropped
<1>2. CASE SendCount
  BY <1>0, <1>2, SilentEnding DEF SendCount, thread, Dropped
<1>3. CASE SendPush
  <2>1. frame \in Frame
    BY <1>3 DEF SendPush, Shape
  <2>2. Audio(frame) \in Outbound /\ Audio(frame) # Shutdown
    BY <2>1, Messages DEF Audio, Shutdown
  <2>3. Stops(outbound') => Stops(outbound)
    BY <1>0, <1>3, <2>2, StopsInMessages DEF SendPush
  <2> QED BY <1>0, <1>3, <2>3, SilentEnding DEF SendPush, thread, Dropped
<1>4. CASE CallFinish
  <2>1. Stops(outbound') => Stops(outbound)
    BY <1>0, <1>4, Messages, StopsInMessages DEF CallFinish
  <2> QED BY <1>0, <1>4, <2>1, SilentEnding DEF CallFinish, thread, Dropped
<1>5. CASE Receive
  BY <1>5, ReceiveEnding
<1>6. CASE DropHandle
  <2>1. Dropped'
    BY <1>6 DEF DropHandle, Dropped
  <2> QED BY <1>6, <2>1, SilentEnding DEF DropHandle, thread
<1>7. CASE Join
  BY <1>0, <1>7, SilentEnding DEF Join, thread, Dropped
<1>8. CASE Joined
  BY <1>0, <1>8, SilentEnding DEF Joined, vars, handle, thread, Dropped
<1>9. CASE RuntimeBuilt
  BY <1>0, <1>9, SilentEnding DEF RuntimeBuilt, handle, Dropped
<1>10. CASE RuntimeFailed
  BY <1>10, FinishedEnding DEF RuntimeFailed, handle, Exited
<1>11. CASE ReplayPending
  BY <1>0, <1>11, SilentEnding DEF ReplayPending, handle, Dropped
<1>12. CASE TakeShutdown
  <2>1. /\ Stops(outbound') => Stops(outbound)
        /\ Head(outbound) = Shutdown => Stops(outbound)
    BY <1>0, <1>12, StopsInMessages DEF TakeShutdown, Pop
  <2>2. pc' = "closeShutdown" => Dropped
    BY <1>0, <1>12, <2>1 DEF TakeShutdown
  <2> QED BY <1>0, <1>12, <2>1, <2>2, SilentEnding DEF TakeShutdown, handle, Dropped
<1>13. CASE TakeFinish
  <2>1. /\ Stops(outbound') => Stops(outbound)
        /\ Head(outbound) = Shutdown => Stops(outbound)
    BY <1>0, <1>13, StopsInMessages DEF TakeFinish, Pop
  <2>2. pc' = "closeShutdown" => Dropped
    BY <1>0, <1>13, <2>1 DEF TakeFinish
  <2> QED BY <1>0, <1>13, <2>1, <2>2, SilentEnding DEF TakeFinish, handle, Dropped
<1>14. CASE TakeAudio
  <2>1. /\ Stops(outbound') => Stops(outbound)
        /\ Head(outbound) = Shutdown => Stops(outbound)
    BY <1>0, <1>14, StopsInMessages DEF TakeAudio, Pop
  <2>2. pc' = "closeShutdown" => Dropped
    BY <1>0, <1>14, <2>1 DEF TakeAudio
  <2> QED BY <1>0, <1>14, <2>1, <2>2, SilentEnding DEF TakeAudio, handle, Dropped
<1>15. CASE FlushDone
  BY <1>0, <1>15, SilentEnding DEF FlushDone, handle, Dropped
<1>16. CASE BackoffOver
  BY <1>0, <1>16, SilentEnding DEF BackoffOver, handle, Dropped
<1>17. CASE BackoffAudio
  <2>1. /\ Stops(outbound') => Stops(outbound)
        /\ Head(outbound) = Shutdown => Stops(outbound)
    BY <1>0, <1>17, StopsInMessages DEF BackoffAudio, Pop
  <2>2. pc' = "closeShutdown" => Dropped
    BY <1>0, <1>17, <2>1 DEF BackoffAudio
  <2> QED BY <1>0, <1>17, <2>1, <2>2, SilentEnding DEF BackoffAudio, handle, Dropped
<1>18. CASE BackoffInterrupted
  <2>1. ~Exited /\ UNCHANGED <<hpc, heard>>
    BY <1>18 DEF BackoffInterrupted, handle, Exited
  <2>2. CASE OutcomeFinished
    BY <2>1, <2>2, FinishedEnding
  <2>3. CASE Head(outbound) = Shutdown /\ OutcomeShutdown
    <3>1. Dropped
      BY <1>0, <1>18, <2>3, StopsInMessages DEF BackoffInterrupted
    <3> QED BY <2>1, <2>3, <3>1, DroppedEnding DEF OutcomeShutdown
  <2> QED BY <1>18, <2>2, <2>3 DEF BackoffInterrupted
<1>19. CASE Watchdog
  BY <1>0, <1>19, SilentEnding DEF Watchdog, handle, Dropped
<1>20. CASE PingTick
  BY <1>0, <1>20, SilentEnding DEF PingTick, handle, Dropped
<1>21. CASE StartOk
  BY <1>0, <1>21, SilentEnding DEF StartOk, handle, Dropped
<1>22. CASE FrameWritten
  BY <1>0, <1>22, SilentEnding DEF FrameWritten, handle, Dropped
<1>23. CASE FrameFailed
  <2>1. ~Exited /\ \E b \in BOOLEAN : OutcomeRetry(b)
    BY <1>23 DEF FrameFailed, Shape, Control, Exited
  <2>2. UNCHANGED <<hpc, heard>>
    BY <1>23 DEF FrameFailed, handle
  <2> QED BY <2>1, <2>2, RetryEnding
<1>24. CASE EosWritten
  BY <1>0, <1>24, SilentEnding DEF EosWritten, handle, Dropped
<1>25. CASE EosFailed
  BY <1>25, FinishedEnding DEF EosFailed, handle, Exited
<1>26. CASE Closed
  <2>1. ~Exited /\ UNCHANGED <<hpc, heard>>
    BY <1>26 DEF Closed, handle, Exited
  <2>2. CASE OutcomeFinished
    BY <2>1, <2>2, FinishedEnding
  <2>3. CASE pc = "closeShutdown" /\ OutcomeShutdown
    <3>1. Dropped
      BY <1>0, <1>26, <2>3, StopsInMessages DEF Closed
    <3> QED BY <2>1, <2>3, <3>1, DroppedEnding DEF OutcomeShutdown
  <2> QED BY <1>26, <2>2, <2>3 DEF Closed
<1>27. CASE PingWritten
  BY <1>0, <1>27, SilentEnding DEF PingWritten, handle, Dropped
<1>28. CASE PingFailed
  <2>1. ~Exited /\ \E b \in BOOLEAN : OutcomeRetry(b)
    BY <1>28 DEF PingFailed, Shape, Exited
  <2>2. UNCHANGED <<hpc, heard>>
    BY <1>28 DEF PingFailed, handle
  <2> QED BY <2>1, <2>2, RetryEnding
<1>29. CASE ConnectOk
  BY <1>0, <1>29, SilentEnding DEF ConnectOk, handle, Dropped
<1>30. CASE ConnectFail
  <2>1. ~Exited /\ \E b \in BOOLEAN : OutcomeRetry(b)
    BY <1>30 DEF ConnectFail, Shape, Exited
  <2>2. UNCHANGED <<hpc, heard>>
    BY <1>30 DEF ConnectFail, handle
  <2> QED BY <2>1, <2>2, RetryEnding
<1>31. CASE ConnectionLost
  <2>1. ~Exited /\ UNCHANGED <<hpc, heard>>
    BY <1>31 DEF ConnectionLost, handle, Exited
  <2>2. OutcomeFinished \/ \E b \in BOOLEAN : OutcomeRetry(b)
    BY <1>31 DEF ConnectionLost, Shape
  <2> QED BY <2>1, <2>2, FinishedEnding, RetryEnding
<1>32. ASSUME NEW tokens \in BOOLEAN, NEW finished \in BOOLEAN, RecvResponse(tokens, finished)
      PROVE  Ending'
  <2>1. /\ ~Exited /\ pc' \notin {"exited", "closeShutdown"} /\ UNCHANGED <<hpc, heard, outbound>>
        /\ Report("response") \/ UNCHANGED inbound
    BY <1>32 DEF RecvResponse, handle, Exited
  <2>2. "response" \in Inbound \ Terminal
    BY DEF Inbound, Terminal
  <2>3. CASE Report("response")
    BY <2>1, <2>2, <2>3, ReportEnding
  <2>4. CASE UNCHANGED inbound
    BY <1>0, <2>1, <2>4, SilentEnding DEF Exited, Dropped
  <2> QED BY <2>1, <2>3, <2>4
<1>33. ASSUME NEW retryable \in BOOLEAN, RecvError(retryable)
      PROVE  Ending'
  <2>1. ~Exited /\ UNCHANGED <<hpc, heard>>
    BY <1>33 DEF RecvError, handle, Exited
  <2>2. OutcomeFatal \/ \E b \in BOOLEAN : OutcomeRetry(b)
    BY <1>33 DEF RecvError, Shape
  <2> QED BY <2>1, <2>2, FinishedEnding, RetryEnding
<1>34. CASE UNCHANGED vars
  BY <1>0, <1>34, SilentEnding DEF vars, handle, thread, Dropped
<1> QED
  BY <1>1, <1>2, <1>3, <1>4, <1>5, <1>6, <1>7, <1>8, <1>9, <1>10, <1>11, <1>12,
     <1>13, <1>14, <1>15, <1>16, <1>17, <1>18, <1>19, <1>20, <1>21, <1>22, <1>23, <1>24,
     <1>25, <1>26, <1>27, <1>28, <1>29, <1>30, <1>31, <1>32, <1>33, <1>34
     DEF Next, HandleNext, ThreadStep, WriteStep, ConnectStep, ServiceStep

-------------------------------------------------------------------------------
\* The rest of the type invariant: the counters, and the frames of the record.  A session
\* whose attempts are used up has ended.
Bounds ==
  /\ frame <= MaxFrames + 1
  /\ finish_sent \in BOOLEAN
  /\ queued \in Int
  /\ attempt \in 0..MaxAttempts + 1
  /\ ~Exited => attempt <= MaxAttempts
  /\ responses \in 0..MaxResponses
  /\ failed \subseteq Frame /\ late \subseteq Frame
  /\ accepted \subseteq Frame /\ mark \subseteq Frame

LEMMA SamplesAreNumbers == \A f \in Frame : Samples[f] \in Nat
BY ClientAssumption DEF Frame

LEMMA ReleaseNumber == ASSUME queued \in Int, NEW f \in Frame, Release(f) PROVE queued' \in Int
BY SamplesAreNumbers DEF Release, Min2

\* A connection that ends while the session runs leaves the attempts within the budget, or
\* ends the session.
LEMMA OutcomeBounds ==
  ASSUME Bounds, ~Exited,
         \/ OutcomeFinished \/ OutcomeFatal \/ OutcomeShutdown
         \/ \E b \in BOOLEAN : OutcomeRetry(b)
  PROVE  attempt' \in 0..MaxAttempts + 1 /\ (pc' # "exited" => attempt' <= MaxAttempts)
<1>1. CASE OutcomeFinished \/ OutcomeFatal \/ OutcomeShutdown
  BY <1>1 DEF OutcomeFinished, OutcomeFatal, OutcomeShutdown, Return, Bounds
<1>2. ASSUME NEW b \in BOOLEAN, OutcomeRetry(b)
      PROVE  attempt' \in 0..MaxAttempts + 1 /\ (pc' # "exited" => attempt' <= MaxAttempts)
  BY <1>2, ClientAssumption DEF OutcomeRetry, Return, Bounds
<1> QED BY <1>1, <1>2

LEMMA BoundsInit == Init => Bounds
<1> SUFFICES ASSUME Init PROVE Bounds
  OBVIOUS
<1>1. finish_sent \in BOOLEAN /\ failed = {} /\ late = {} /\ accepted = {} /\ mark = {}
  BY Zenon DEF Init
<1>2. frame = 1 /\ queued = 0 /\ attempt = 0 /\ responses = 0
  BY Zenon DEF Init
<1> QED BY <1>1, <1>2, ClientAssumption DEF Bounds

LEMMA BoundsStep == ASSUME Shape, Control, Bounds, [Next]_vars PROVE Bounds'
<1>1. CASE SendCheck
  BY <1>1, ClientAssumption, SMTT(30) DEF SendCheck, Bounds, Shape, thread, record, Exited
<1>2. CASE SendCount
  <2>1. Samples[frame] \in Nat
    BY <1>2, SamplesAreNumbers DEF SendCount, Shape
  <2> QED BY <1>2, <2>1 DEF SendCount, Bounds, thread, record, Exited
<1>3. CASE SendPush
  <2>1. frame \in Frame /\ Samples[frame] \in Nat
    BY <1>3, SamplesAreNumbers DEF SendPush, Shape
  <2>2. frame' <= MaxFrames + 1
    BY <1>3, <2>1, ClientAssumption DEF SendPush, Frame
  <2>3. queued' \in Int
    BY <1>3, <2>1 DEF SendPush, Bounds
  <2>4. accepted' \subseteq Frame
    BY <1>3, <2>1 DEF SendPush, Bounds
  <2> QED BY <1>3, <2>2, <2>3, <2>4 DEF SendPush, Bounds, thread, record, Exited
<1>4. CASE CallFinish
  BY <1>4 DEF CallFinish, Bounds, thread, record, Exited
<1>5. CASE Receive \/ DropHandle \/ Join \/ Joined \/ UNCHANGED vars
  BY <1>5 DEF Receive, DropHandle, Join, Joined, vars, Bounds, handle, thread, record, Exited
<1>6. CASE RuntimeBuilt \/ FlushDone \/ BackoffOver \/ Watchdog \/ PingTick \/ TakeShutdown \/ TakeFinish
  BY <1>6 DEF RuntimeBuilt, FlushDone, BackoffOver, Watchdog, PingTick, TakeShutdown, TakeFinish,
              Bounds, handle, record, Exited
<1>7. CASE ConnectOk \/ StartOk \/ EosWritten \/ PingWritten
  BY <1>7 DEF ConnectOk, StartOk, EosWritten, PingWritten, Bounds, handle, record, Exited
<1>8. CASE ReplayPending
  <2>1. queued' \in Int
    <3>1. CASE pending = <<>>
      BY <1>8, <3>1 DEF ReplayPending, Bounds
    <3>2. CASE pending # <<>>
      <4>1. Head(pending) \in Frame
        BY <3>2, HeadTailProperties DEF Shape
      <4> QED BY <1>8, <3>2, <4>1, ReleaseNumber DEF ReplayPending, StartWrite, Bounds
    <3> QED BY <3>1, <3>2
  <2>2. pc # "exited" /\ attempt' = attempt
    BY <1>8 DEF ReplayPending
  <2> QED BY <1>8, <2>1, <2>2 DEF ReplayPending, Bounds, handle, record, Exited
<1>9. CASE TakeAudio
  <2>1. Head(outbound).frame \in Frame
    BY <1>9, PopShape, Messages DEF TakeAudio
  <2>2. queued' \in Int
    BY <1>9, <2>1, ReleaseNumber DEF TakeAudio, StartWrite, Bounds
  <2>3. late' \subseteq Frame
    BY <1>9, <2>1 DEF TakeAudio, Bounds
  <2> QED BY <1>9, <2>2, <2>3 DEF TakeAudio, Bounds, handle, Exited
<1>10. CASE BackoffAudio
  <2>1. Head(outbound).frame \in Frame
    BY <1>10, PopShape, Messages DEF BackoffAudio
  <2>2. queued' \in Int
    BY <1>10, <2>1, SamplesAreNumbers DEF BackoffAudio, Bounds
  <2> QED BY <1>10, <2>2 DEF BackoffAudio, Bounds, handle, record, Exited
<1>11. CASE FrameWritten
  BY <1>11 DEF FrameWritten, Settle, Bounds, handle, Exited
<1>12. CASE FrameFailed
  <2>1. pc # "exited" /\ writing \in Frame
    BY <1>12 DEF FrameFailed, Control, Shape
  <2>2. \E b \in BOOLEAN : OutcomeRetry(b)
    BY <1>12 DEF FrameFailed
  <2>3. failed' \subseteq Frame /\ late' = late
    BY <1>12, <2>1 DEF FrameFailed, Settle, Bounds
  <2> QED BY <1>12, <2>1, <2>2, <2>3, OutcomeBounds DEF FrameFailed, Bounds, handle, Exited
<1>13. CASE RuntimeFailed \/ EosFailed \/ Closed \/ BackoffInterrupted
  <2>1. pc # "exited" /\ (OutcomeFinished \/ OutcomeFatal \/ OutcomeShutdown)
    BY <1>13 DEF RuntimeFailed, EosFailed, Closed, BackoffInterrupted
  <2>2. UNCHANGED <<handle, queued, responses, record>>
    BY <1>13 DEF RuntimeFailed, EosFailed, Closed, BackoffInterrupted
  <2> QED BY <2>1, <2>2, OutcomeBounds DEF Bounds, handle, record, Exited
<1>14. CASE PingFailed \/ ConnectFail \/ ConnectionLost
  <2>1. pc # "exited" /\ (OutcomeFinished \/ \E b \in BOOLEAN : OutcomeRetry(b))
    BY <1>14 DEF PingFailed, ConnectFail, ConnectionLost, Shape
  <2>2. UNCHANGED <<handle, queued, responses, record>>
    BY <1>14 DEF PingFailed, ConnectFail, ConnectionLost
  <2> QED BY <2>1, <2>2, OutcomeBounds DEF Bounds, handle, record, Exited
<1>15. ASSUME NEW tokens \in BOOLEAN, NEW finished \in BOOLEAN, RecvResponse(tokens, finished)
       PROVE  Bounds'
  <2>1. pc # "exited" /\ responses' \in 0..MaxResponses
    BY <1>15, ClientAssumption DEF RecvResponse, Bounds
  <2> QED BY <1>15, <2>1 DEF RecvResponse, Bounds, handle, record, Exited
<1>16. ASSUME NEW retryable \in BOOLEAN, RecvError(retryable)
       PROVE  Bounds'
  <2>1. pc # "exited" /\ responses' \in 0..MaxResponses
    BY <1>16, ClientAssumption DEF RecvError, Bounds
  <2>2. OutcomeFatal \/ \E b \in BOOLEAN : OutcomeRetry(b)
    BY <1>16 DEF RecvError
  <2> QED BY <1>16, <2>1, <2>2, OutcomeBounds DEF RecvError, Bounds, handle, record, Exited
<1> QED
  BY <1>1, <1>2, <1>3, <1>4, <1>5, <1>6, <1>7, <1>8, <1>9, <1>10, <1>11, <1>12, <1>13, <1>14,
     <1>15, <1>16
     DEF Next, HandleNext, ThreadStep, WriteStep, ConnectStep, ServiceStep

-------------------------------------------------------------------------------
IInv == Shape /\ Control /\ Bounds /\ Ordered /\ Ending

LEMMA Inductive == Spec => []IInv
<1>1. Init => IInv
  <2>1. Init => Ordered
    <3> SUFFICES ASSUME Init PROVE Ordered
      OBVIOUS
    <3>1. wire = <<>> /\ pending = <<>> /\ outbound = <<>> /\ writing = 0
      BY Zenon DEF Init
    <3> QED BY <3>1, NoElements DEF Ordered, Lanes, Before
  <2> QED BY <2>1, ShapeInit, BoundsInit, EndingInit DEF IInv
<1>2. IInv /\ [Next]_vars => IInv'
  BY ShapeStep, ControlStep, BoundsStep, OrderedStep, EndingStep DEF IInv
<1> QED BY <1>1, <1>2, PTL DEF Spec

\* Every variable keeps its type; above all, the attempts stay within the budget of
\* client.rs:295-321.
THEOREM AlwaysTypeOK == Spec => []TypeOK
<1>1. IInv => TypeOK
  BY ClientAssumption DEF IInv, Shape, Bounds, TypeOK
<1> QED BY <1>1, Inductive, PTL

\* Audio reaches the service in capture order and no frame twice, whatever the outages.
THEOREM AlwaysCaptureOrder == Spec => []CaptureOrder
<1>1. IInv => CaptureOrder
  BY LanesAreTheOrder DEF IInv, Ordered
<1> QED BY <1>1, Inductive, PTL

\* A session ends with at most one terminal message, the last the owner can read.
THEOREM AlwaysTerminalIsLast == Spec => []TerminalIsLast
<1>1. IInv => TerminalIsLast
  BY DEF IInv, Ending
<1> QED BY <1>1, Inductive, PTL

\* Whenever a send finds the channel closed, the reason waits in the inbound channel or
\* has been read from it.
THEOREM AlwaysSendFailureExplained == Spec => []SendFailureExplained
<1>1. IInv => SendFailureExplained
  BY DEF IInv, Ending
<1> QED BY <1>1, Inductive, PTL

\* No step writes audio on a connection that has carried end-of-stream.
THEOREM NeverAfterEos == Spec => NothingAfterEos
<1>1. IInv /\ [Next]_vars => [finishing => wire' = wire]_vars
  <2> SUFFICES ASSUME Control, finishing, [Next]_vars PROVE wire' = wire
    BY DEF IInv
  <2>1. writing = 0
    BY DEF Control
  <2>2. FrameWritten \/ FrameFailed => wire' = wire
    BY <2>1 DEF FrameWritten, FrameFailed
  <2>3. HandleNext \/ Joined \/ UNCHANGED vars => wire' = wire
    BY DEF HandleNext, SendCheck, SendCount, SendPush, CallFinish, Receive, DropHandle, Join, Joined,
           vars, record
  <2>4. ThreadStep => wire' = wire
    BY DEF ThreadStep, ReplayPending, TakeShutdown, TakeFinish, TakeAudio, FlushDone, BackoffOver,
           BackoffAudio, BackoffInterrupted, Watchdog, PingTick, RuntimeBuilt, RuntimeFailed, record
  <2>5. ConnectStep \/ ServiceStep => wire' = wire
    BY DEF ConnectStep, ConnectOk, ConnectFail, ServiceStep, RecvResponse, RecvError, ConnectionLost,
           record
  <2>6. StartOk \/ EosWritten \/ EosFailed \/ Closed \/ PingWritten \/ PingFailed => wire' = wire
    BY DEF StartOk, EosWritten, EosFailed, Closed, PingWritten, PingFailed, record
  <2> QED BY <2>2, <2>3, <2>4, <2>5, <2>6 DEF Next, WriteStep
<1> QED BY <1>1, Inductive, PTL DEF NothingAfterEos, Spec

-------------------------------------------------------------------------------
(***************************************************************************)
(* No frame is lost on the way, and the handshake does not cut the tail.   *)
(***************************************************************************)
\* The counter under its ceiling: what is needed for the audio of an outage to be kept.
Ceiling ==
  /\ queued <= MaxQueued
  /\ ~Exited => queued >= 0
  /\ hpc = "accepted" => queued + Samples[frame] <= MaxQueued

Asks(messages) == \E i \in 1..Len(messages) : messages[i] = Finish
Once(q) == \A i, j \in 1..Len(q) : q[i] = Finish /\ q[j] = Finish => i = j

\* finish() is called once, so end-of-stream is asked for once, and nothing came late before.
Handshake ==
  /\ Asks(outbound) => /\ finish_sent /\ ~finishing /\ late = {} /\ pc \notin {"flush", "eos"}
                       /\ Once(outbound)
  /\ pc \in {"flush", "eos"} => finish_sent /\ late = {}
  /\ finishing => finish_sent
  /\ ~finish_sent => late = {}
  /\ mark \subseteq accepted
  /\ pc = "eos" \/ finishing => mark \subseteq Elements(wire) \cup failed


LEMMA AsksInMessages ==
  ASSUME NEW q \in Seq(Outbound)
  PROVE  /\ ~Asks(<<>>)
         /\ q # <<>> /\ Head(q) = Finish => Asks(q)
         /\ q # <<>> /\ Asks(Tail(q)) => Asks(q)
         /\ \A m \in Outbound : Asks(Append(q, m)) => Asks(q) \/ m = Finish
<1>1. ~Asks(<<>>)
  BY DEF Asks
<1>2. ASSUME q # <<>>
      PROVE  (Head(q) = Finish => Asks(q)) /\ (Asks(Tail(q)) => Asks(q))
  <2> DEFINE t == Tail(q)
  <2>1. /\ Len(q) \in Nat /\ Len(q) > 0 /\ Len(t) = Len(q) - 1
        /\ Head(q) = q[1] /\ \A i \in 1..Len(t) : t[i] = q[i + 1]
    BY <1>2, HeadTailProperties, LenProperties, EmptySeq
  <2> HIDE DEF t
  <2>2. Head(q) = Finish => Asks(q)
    BY <2>1 DEF Asks
  <2>3. ASSUME NEW i \in 1..Len(t), t[i] = Finish PROVE Asks(q)
    <3>1. i + 1 \in 1..Len(q) /\ q[i + 1] = Finish
      BY <2>1, <2>3
    <3> QED BY <3>1 DEF Asks
  <2>4. Asks(t) => Asks(q)
    BY <2>3 DEF Asks
  <2> QED BY <2>2, <2>4 DEF t
<1>3. ASSUME NEW m \in Outbound, m # Finish, Asks(Append(q, m)) PROVE Asks(q)
  <2> DEFINE t == Append(q, m)
  <2>1. Len(t) = Len(q) + 1 /\ Len(q) \in Nat /\ (\A i \in 1..Len(q) : t[i] = q[i]) /\ t[Len(q) + 1] = m
    BY AppendProperties, LenProperties
  <2> HIDE DEF t
  <2>2. PICK i \in 1..Len(t) : t[i] = Finish
    BY <1>3 DEF Asks, t
  <2>3. i \in 1..Len(q)
    BY <1>3, <2>1, <2>2
  <2> QED BY <2>1, <2>2, <2>3 DEF Asks
<1> QED BY <1>1, <1>2, <1>3

\* One Finish in a channel stays one.
LEMMA OnceInMessages ==
  ASSUME NEW q \in Seq(Outbound), Asks(q) => Once(q)
  PROVE  /\ \A m \in Outbound : m # Finish \/ ~Asks(q) => Once(Append(q, m))
         /\ q # <<>> => Once(Tail(q))
         /\ q # <<>> /\ Head(q) = Finish => ~Asks(Tail(q))
<1>0. Once(q)
  BY DEF Once, Asks
<1>1. ASSUME NEW m \in Outbound, m # Finish \/ ~Asks(q) PROVE Once(Append(q, m))
  <2> DEFINE t == Append(q, m)
  <2>1. Len(t) = Len(q) + 1 /\ Len(q) \in Nat /\ (\A i \in 1..Len(q) : t[i] = q[i]) /\ t[Len(q) + 1] = m
    BY AppendProperties, LenProperties
  <2>2. \A i \in 1..Len(t) : i = Len(q) + 1 \/ i \in 1..Len(q)
    BY <2>1
  <2> HIDE DEF t
  <2>3. Once(t)
    BY <1>0, <1>1, <2>1, <2>2 DEF Once, Asks
  <2> QED BY <2>3 DEF t
<1>2. ASSUME q # <<>> PROVE Once(Tail(q)) /\ (Head(q) = Finish => ~Asks(Tail(q)))
  <2> DEFINE t == Tail(q)
  <2>1. /\ Len(q) \in Nat /\ Len(q) > 0 /\ Len(t) = Len(q) - 1
        /\ Head(q) = q[1] /\ \A i \in 1..Len(t) : t[i] = q[i + 1]
    BY <1>2, HeadTailProperties, LenProperties, EmptySeq
  <2>2. 1 \in 1..Len(q) /\ \A i \in 1..Len(t) : i + 1 \in 1..Len(q) /\ i + 1 # 1
    BY <2>1
  <2> HIDE DEF t
  <2>3. ASSUME NEW i \in 1..Len(t), NEW j \in 1..Len(t), t[i] = Finish, t[j] = Finish PROVE i = j
    <3>1. i + 1 = j + 1
      BY <1>0, <2>1, <2>2, <2>3 DEF Once
    <3> QED BY <3>1
  <2>4. ASSUME Head(q) = Finish, NEW i \in 1..Len(t), t[i] = Finish PROVE FALSE
    BY <1>0, <2>1, <2>2, <2>4 DEF Once
  <2>5. Once(t) /\ (Head(q) = Finish => ~Asks(t))
    BY <2>3, <2>4 DEF Once, Asks
  <2> QED BY <2>5 DEF t
<1> QED BY <1>1, <1>2

-------------------------------------------------------------------------------
\* The steps that move no audio and end nothing, and those that end a connection.
QuietStep ==
  \/ SendCheck \/ SendCount \/ Receive \/ Join \/ Joined \/ RuntimeBuilt \/ FlushDone \/ BackoffOver
  \/ Watchdog \/ PingTick \/ StartOk \/ EosWritten \/ PingWritten \/ ConnectOk
  \/ \E tokens, finished \in BOOLEAN : RecvResponse(tokens, finished)
EndStep ==
  \/ RuntimeFailed \/ BackoffInterrupted \/ EosFailed \/ Closed \/ PingFailed \/ ConnectFail
  \/ ConnectionLost \/ \E retryable \in BOOLEAN : RecvError(retryable)

audio == <<outbound, pending, writing, wire, failed, late, accepted>>

LEMMA Quiet ==
  ASSUME QuietStep
  PROVE  UNCHANGED <<audio, mark, finish_sent>> /\ (Exited' <=> Exited)
<1> USE DEF audio, handle, thread, record, vars, Exited
<1>1. ASSUME NEW tokens \in BOOLEAN, NEW finished \in BOOLEAN, RecvResponse(tokens, finished)
      PROVE  UNCHANGED <<audio, mark, finish_sent>> /\ (Exited' <=> Exited)
  BY <1>1 DEF RecvResponse
<1>2. SendCheck \/ SendCount \/ Receive \/ Join \/ Joined =>
        UNCHANGED <<audio, mark, finish_sent>> /\ (Exited' <=> Exited)
  BY DEF SendCheck, SendCount, Receive, Join, Joined
<1>3. RuntimeBuilt \/ FlushDone \/ BackoffOver \/ Watchdog \/ PingTick \/ StartOk \/ EosWritten
      \/ PingWritten \/ ConnectOk =>
        UNCHANGED <<audio, mark, finish_sent>> /\ (Exited' <=> Exited)
  BY DEF RuntimeBuilt, FlushDone, BackoffOver, Watchdog, PingTick, StartOk, EosWritten, PingWritten,
         ConnectOk
<1> QED BY <1>1, <1>2, <1>3 DEF QuietStep

LEMMA Ends ==
  ASSUME Shape, EndStep
  PROVE  /\ UNCHANGED <<handle, writing, wire, failed, late, queued, finishing>>
         /\ \/ pc' = "exited" /\ outbound' = <<>>
            \/ pc' = "backoff" /\ UNCHANGED <<outbound, pending>>
         /\ ~Exited
<1> USE DEF record, Exited
<1>1. /\ UNCHANGED <<handle, writing, wire, failed, late, queued, finishing>> /\ pc # "exited"
      /\ \/ OutcomeFinished \/ OutcomeFatal \/ OutcomeShutdown
         \/ \E b \in BOOLEAN : OutcomeRetry(b)
  <2>1. ASSUME NEW retryable \in BOOLEAN, RecvError(retryable)
        PROVE  /\ UNCHANGED <<handle, writing, wire, failed, late, queued, finishing>> /\ pc # "exited"
               /\ \/ OutcomeFinished \/ OutcomeFatal \/ OutcomeShutdown
                  \/ \E b \in BOOLEAN : OutcomeRetry(b)
    BY <2>1 DEF RecvError
  <2>2. RuntimeFailed \/ BackoffInterrupted \/ EosFailed \/ Closed \/ PingFailed \/ ConnectFail
        \/ ConnectionLost =>
          /\ UNCHANGED <<handle, writing, wire, failed, late, queued, finishing>> /\ pc # "exited"
          /\ \/ OutcomeFinished \/ OutcomeFatal \/ OutcomeShutdown
             \/ \E b \in BOOLEAN : OutcomeRetry(b)
    BY DEF RuntimeFailed, BackoffInterrupted, EosFailed, Closed, PingFailed, ConnectFail,
           ConnectionLost, Shape
  <2> QED BY <2>1, <2>2 DEF EndStep
<1>2. \/ pc' = "exited" /\ outbound' = <<>>
      \/ pc' = "backoff" /\ UNCHANGED <<outbound, pending>>
  BY <1>1 DEF OutcomeFinished, OutcomeFatal, OutcomeShutdown, OutcomeRetry, Return
<1> QED BY <1>1, <1>2

\* Every step is one of these, or moves a message or a frame.
LEMMA StepKinds ==
  ASSUME [Next]_vars
  PROVE  \/ QuietStep \/ EndStep \/ UNCHANGED vars
         \/ SendPush \/ CallFinish \/ DropHandle
         \/ ReplayPending \/ TakeShutdown \/ TakeFinish \/ TakeAudio \/ BackoffAudio
         \/ FrameWritten \/ FrameFailed
BY DEF Next, HandleNext, ThreadStep, WriteStep, ConnectStep, ServiceStep, QuietStep, EndStep

-------------------------------------------------------------------------------
LEMMA CeilingStep == ASSUME Shape, Control, Bounds, Ceiling, [Next]_vars PROVE Ceiling'
<1>0. queued \in Int /\ MaxQueued \in Nat
  BY ClientAssumption DEF Bounds
<1>1. CASE SendCheck
  <2>1. frame \in Frame /\ Samples[frame] \in Nat
    BY <1>1, ClientAssumption DEF SendCheck, Shape, Frame
  <2> QED BY <1>0, <1>1, <2>1 DEF SendCheck, Ceiling, thread, Exited
<1>2. CASE SendCount
  <2>1. Samples[frame] \in Nat
    BY <1>2, SamplesAreNumbers DEF SendCount, Shape
  <2> QED BY <1>0, <1>2, <2>1 DEF SendCount, Ceiling, thread, Exited
<1>3. CASE SendPush
  <2>1. Samples[frame] \in Nat
    BY <1>3, SamplesAreNumbers DEF SendPush, Shape
  <2> QED BY <1>0, <1>3, <2>1 DEF SendPush, Ceiling, thread, Exited
\* A release takes no more than there is.
<1>4. ASSUME NEW f \in Frame, ~Exited, Release(f), UNCHANGED <<hpc, frame>> PROVE Ceiling'
  <2>1. Samples[f] \in Nat /\ queued >= 0
    BY <1>4, SamplesAreNumbers DEF Ceiling
  <2>2. queued' <= queued /\ queued' >= 0 /\ queued' \in Int
    BY <1>0, <1>4, <2>1 DEF Release, Min2
  <2>3. hpc = "accepted" => Samples[frame] \in Nat
    BY SamplesAreNumbers DEF Shape
  <2> QED BY <1>0, <1>4, <2>2, <2>3 DEF Ceiling
<1>5. CASE TakeAudio
  <2>1. Head(outbound) \in Outbound /\ Head(outbound).frame \in Frame
    BY <1>5, PopShape, Messages DEF TakeAudio
  <2> QED BY <1>4, <1>5, <2>1 DEF TakeAudio, StartWrite, handle, Exited
<1>6. CASE ReplayPending
  <2>1. CASE pending = <<>>
    BY <1>6, <2>1 DEF ReplayPending, Ceiling, handle, Exited
  <2>2. CASE pending # <<>>
    <3>1. Head(pending) \in Frame
      BY <2>2, HeadTailProperties DEF Shape
    <3> QED BY <1>4, <1>6, <2>2, <3>1 DEF ReplayPending, StartWrite, handle, Exited
  <2> QED BY <2>1, <2>2
<1>7. CASE BackoffAudio
  <2>1. UNCHANGED <<queued, hpc, frame, pc>>
    BY <1>0, <1>7 DEF BackoffAudio, handle, Ceiling
  <2> QED BY <2>1 DEF Ceiling, Exited
\* No other step counts.
<1>8. ASSUME UNCHANGED <<queued, hpc, frame>>, Exited => Exited' PROVE Ceiling'
  BY <1>8 DEF Ceiling
<1>9. CASE EndStep
  BY <1>8, <1>9, Ends DEF handle
<1>10. CASE CallFinish \/ DropHandle
  BY <1>10 DEF CallFinish, DropHandle, Ceiling, thread, Exited
<1>11. CASE TakeShutdown \/ TakeFinish
  <2>1. UNCHANGED <<queued, hpc, frame>> /\ ~Exited
    BY <1>11 DEF TakeShutdown, TakeFinish, handle, Exited
  <2> QED BY <1>8, <2>1
<1>12. CASE FrameWritten \/ FrameFailed
  <2>1. UNCHANGED <<queued, hpc, frame>> /\ ~Exited
    BY <1>12 DEF FrameWritten, FrameFailed, handle, Exited, Control
  <2> QED BY <1>8, <2>1
<1>13. CASE UNCHANGED vars
  BY <1>13 DEF vars, handle, thread, Ceiling, Exited
<1>14. CASE QuietStep /\ ~SendCheck /\ ~SendCount
  <2>1. ASSUME NEW tokens \in BOOLEAN, NEW finished \in BOOLEAN, RecvResponse(tokens, finished)
        PROVE  UNCHANGED <<queued, frame>> /\ hpc' = hpc
    BY <2>1 DEF RecvResponse, handle
  <2>2. Receive \/ Joined \/ RuntimeBuilt \/ FlushDone \/ BackoffOver \/ Watchdog \/ PingTick
        \/ StartOk \/ EosWritten \/ PingWritten \/ ConnectOk => UNCHANGED <<queued, frame>> /\ hpc' = hpc
    BY DEF Receive, Joined, RuntimeBuilt, FlushDone, BackoffOver, Watchdog, PingTick,
           StartOk, EosWritten, PingWritten, ConnectOk, handle, vars
  <2>3. Join => UNCHANGED <<queued, frame>> /\ hpc' = "joined"
    BY DEF Join
  <2>4. UNCHANGED <<queued, frame>> /\ (hpc' = hpc \/ hpc' = "joined")
    BY <1>14, <2>1, <2>2, <2>3 DEF QuietStep
  <2>5. Exited' <=> Exited
    BY <1>14, Quiet
  <2> QED BY <2>4, <2>5 DEF Ceiling
<1> QED BY <1>1, <1>2, <1>3, <1>5, <1>6, <1>7, <1>9, <1>10, <1>11, <1>12, <1>13, <1>14, StepKinds

\* Each frame that leaves one place turns up in another, or the session is over.
LEMMA NoHoleStep ==
  ASSUME Shape, Control, Ordered, Ceiling, NoHole, Bounds, [Next]_vars
  PROVE  NoHole'
<1>0. /\ pending \in Seq(Frame) /\ outbound \in Seq(Outbound) /\ wire \in Seq(Frame)
      /\ writing \in Frame \cup {0} /\ Increasing(pending) /\ InCaptureOrder(outbound)
  BY DEF Shape, Ordered, Lanes
<1> USE DEF NoHole, Travelling, Queued
<1>1. CASE QuietStep \/ UNCHANGED vars
  BY <1>1, Quiet DEF audio, vars, handle, thread, record, Exited
<1>2. CASE EndStep
  BY <1>2, Ends DEF handle, Exited
<1>3. CASE SendPush
  <2>1. CASE Exited
    BY <1>3, <2>1 DEF SendPush, thread, Exited
  <2>2. CASE ~Exited
    <3>1. frame \in Frame
      BY <1>3 DEF SendPush, Shape
    <3>2. QueuedIn(outbound') = QueuedIn(outbound) \cup {frame} /\ accepted' = accepted \cup {frame}
      BY <1>0, <1>3, <2>2, <3>1, AppendMessage, Messages DEF SendPush, Audio
    <3> QED BY <1>3, <2>2, <3>2 DEF SendPush, thread, record, Exited
  <2> QED BY <2>1, <2>2
<1>4. CASE CallFinish \/ DropHandle
  <2>1. QueuedIn(outbound') = QueuedIn(outbound)
    BY <1>0, <1>4, AppendMessage, Messages DEF CallFinish, DropHandle
  <2> QED BY <1>4, <2>1 DEF CallFinish, DropHandle, thread, record, Exited
<1>5. CASE TakeShutdown \/ TakeFinish
  <2>1. QueuedIn(outbound') = QueuedIn(outbound)
    BY <1>0, <1>5, TailOfMessages, Messages DEF TakeShutdown, TakeFinish, Pop
  <2>2. /\ UNCHANGED <<accepted, wire, failed, late, writing, pending>>
        /\ pc # "exited"
    BY <1>5 DEF TakeShutdown, TakeFinish, handle, record
  <2> QED BY <2>1, <2>2 DEF Exited
<1>6. CASE ReplayPending
  <2>1. CASE pending = <<>>
    BY <1>6, <2>1 DEF ReplayPending, handle, record, Exited
  <2>2. CASE pending # <<>>
    <3>1. Elements(pending) = {Head(pending)} \cup Elements(pending') /\ writing' = Head(pending)
          /\ Head(pending) \in Frame /\ writing = 0
      BY <1>0, <1>6, <2>2, TailOfFrames, HeadTailProperties DEF ReplayPending, StartWrite
    <3>2. Head(pending) # 0
      BY <3>1, FramesAreNumbers
    <3>3. UNCHANGED <<accepted, wire, failed, late, outbound>> /\ pc = "replay"
      BY <1>6, <2>2 DEF ReplayPending, handle, record
    <3> QED BY <3>1, <3>2, <3>3 DEF Exited
  <2> QED BY <2>1, <2>2
<1>7. CASE TakeAudio
  <2>1. QueuedIn(outbound) = QueuedIn(outbound') \cup {Head(outbound).frame}
        /\ Head(outbound).frame \in Frame
    BY <1>0, <1>7, TailOfMessages, PopShape, Messages DEF TakeAudio, Pop
  <2>2. Head(outbound).frame # 0
    BY <2>1, FramesAreNumbers
  <2>3. /\ UNCHANGED <<accepted, wire, failed, pending>> /\ pc # "exited" /\ writing = 0
        /\ \/ late' = late \cup {Head(outbound).frame} /\ UNCHANGED writing
           \/ writing' = Head(outbound).frame /\ UNCHANGED late
    BY <1>7 DEF TakeAudio, StartWrite, handle
  <2> QED BY <2>1, <2>2, <2>3 DEF Exited
<1>8. CASE BackoffAudio
  <2>1. QueuedIn(outbound) = QueuedIn(outbound') \cup {Head(outbound).frame}
        /\ Head(outbound).frame \in Frame
    BY <1>0, <1>8, TailOfMessages, PopShape, Messages DEF BackoffAudio, Pop
  <2>2. ~(queued > MaxQueued)
    BY ClientAssumption DEF Ceiling, Bounds
  <2>3. /\ UNCHANGED <<accepted, wire, failed, late, writing>> /\ pc # "exited"
        /\ pending' = Append(pending, Head(outbound).frame)
    BY <1>8, <2>2 DEF BackoffAudio, handle, record
  <2>4. Elements(pending') = Elements(pending) \cup {Head(outbound).frame}
    BY <1>0, <2>1, <2>3, AppendFrame
  <2> QED BY <2>1, <2>3, <2>4 DEF Exited
<1>9. CASE FrameWritten
  <2>1. writing \in Frame /\ wire' = Append(wire, writing) /\ writing' = 0
        /\ UNCHANGED <<accepted, failed, late, pending, outbound, pc>>
    BY <1>0, <1>9 DEF FrameWritten, Settle, handle
  <2>2. Elements(wire') = Elements(wire) \cup {writing}
    BY <1>0, <2>1, AppendFrame
  <2> QED BY <2>1, <2>2 DEF Exited
<1>10. CASE FrameFailed
  <2>1. /\ failed' = failed \cup {writing} /\ writing' = 0 /\ UNCHANGED <<accepted, wire, late>>
        /\ \E b \in BOOLEAN : OutcomeRetry(b)
    BY <1>10 DEF FrameFailed, Settle, handle, Shape
  <2>2. pc' = "exited" \/ UNCHANGED <<outbound, pending>>
    BY <2>1 DEF OutcomeRetry, Return
  <2>3. ~Exited
    BY <1>10 DEF FrameFailed, Control, Exited
  <2> QED BY <2>1, <2>2, <2>3 DEF Exited
<1> QED BY <1>1, <1>2, <1>3, <1>4, <1>5, <1>6, <1>7, <1>8, <1>9, <1>10, StepKinds

\* The one Finish is taken once, after all that was accepted before it, and end-of-stream is
\* written when nothing of that is left on its way.
LEMMA HandshakeStep ==
  ASSUME Shape, Control, Bounds, Ordered, NoHole, Handshake, [Next]_vars
  PROVE  Handshake'
<1>0. outbound \in Seq(Outbound) /\ wire \in Seq(Frame) /\ (Asks(outbound) => Once(outbound))
      /\ finishing \in BOOLEAN /\ finish_sent \in BOOLEAN
  BY DEF Shape, Handshake, Bounds
<1>1. CASE QuietStep
  <2>1. UNCHANGED <<audio, mark, finish_sent>>
    BY <1>1, Quiet
  <2>2. /\ pc' = "flush" => pc = "flush"
        /\ pc' = "eos" => FlushDone \/ pc = "eos"
        /\ finishing' => finishing \/ EosWritten
    <3>1. ASSUME NEW tokens \in BOOLEAN, NEW finished \in BOOLEAN, RecvResponse(tokens, finished)
          PROVE  pc' \notin {"flush", "eos"} /\ finishing' = finishing
      BY <3>1 DEF RecvResponse
    <3>2. SendCheck \/ SendCount \/ Receive \/ Join \/ Joined => UNCHANGED <<pc, finishing>>
      BY DEF SendCheck, SendCount, Receive, Join, Joined, thread, vars
    <3>3. RuntimeBuilt \/ BackoffOver \/ Watchdog \/ PingTick \/ PingWritten \/ ConnectOk =>
            pc' \notin {"flush", "eos"} /\ finishing' = finishing
      BY DEF RuntimeBuilt, BackoffOver, Watchdog, PingTick, PingWritten, ConnectOk
    <3>4. StartOk => pc' = "replay" /\ finishing' = FALSE
      BY DEF StartOk
    <3>5. FlushDone => pc' = "eos" /\ finishing' = finishing
      BY DEF FlushDone
    <3>6. EosWritten => pc' = "select"
      BY DEF EosWritten
    <3> QED BY <1>1, <3>1, <3>2, <3>3, <3>4, <3>5, <3>6 DEF QuietStep
  <2>3. FlushDone => mark \subseteq Elements(wire) \cup failed /\ finish_sent /\ late = {}
                     /\ outbound = <<>>
    <3> SUFFICES ASSUME FlushDone PROVE mark \subseteq Elements(wire) \cup failed /\ finish_sent /\ late = {}
                                        /\ outbound = <<>>
      OBVIOUS
    <3>1. pc = "flush" /\ writing = 0 /\ outbound = <<>> /\ pending = <<>>
      BY DEF FlushDone, Control
    <3>2. late = {} /\ finish_sent /\ mark \subseteq accepted
      BY <3>1 DEF Handshake
    <3>3. Travelling = {} /\ Elements(pending) = {} /\ Queued = {}
      BY <3>1, NoElements DEF Travelling, Queued
    <3> QED BY <3>1, <3>2, <3>3 DEF NoHole, Exited
  <2>4. EosWritten => pc = "eos"
    BY DEF EosWritten
  <2>5. Asks(outbound) => ~FlushDone /\ ~EosWritten
    BY <1>0, <2>3, <2>4, AsksInMessages DEF Handshake
  <2> QED BY <1>0, <2>1, <2>2, <2>3, <2>4, <2>5 DEF Handshake, audio
<1>2. CASE UNCHANGED vars
  BY <1>2 DEF vars, handle, thread, record, Handshake
<1>3. CASE EndStep
  <2>1. UNCHANGED <<mark, accepted, finish_sent, finishing, late, wire, failed>>
        /\ pc' \notin {"flush", "eos"} /\ (outbound' = <<>> \/ outbound' = outbound)
    BY <1>3, Ends DEF handle
  <2>2. Asks(outbound') => Asks(outbound) /\ outbound' = outbound
    BY <1>0, <2>1, AsksInMessages
  <2> QED BY <2>1, <2>2 DEF Handshake
\* The message that is sent is not Finish, or the first.
<1>4. CASE SendPush \/ DropHandle
  <2>1. UNCHANGED <<mark, finish_sent, finishing, late, wire, failed, pc>> /\ accepted \subseteq accepted'
    BY <1>4 DEF SendPush, DropHandle, thread, record
  <2>2. \/ UNCHANGED outbound
        \/ \E m \in Outbound : m # Finish /\ outbound' = Append(outbound, m)
    <3>1. CASE SendPush
      <4>1. frame \in Frame
        BY <3>1 DEF SendPush, Shape
      <4>2. Audio(frame) \in Outbound /\ Audio(frame) # Finish
        BY <4>1, Messages DEF Audio, Finish
      <4> QED BY <3>1, <4>2 DEF SendPush
    <3>2. CASE DropHandle
      BY <3>2, Messages DEF DropHandle
    <3> QED BY <1>4, <3>1, <3>2
  <2>3. Asks(outbound') => Asks(outbound) /\ Once(outbound')
    <3>1. CASE UNCHANGED outbound
      BY <1>0, <3>1
    <3>2. ASSUME NEW m \in Outbound, m # Finish, outbound' = Append(outbound, m)
          PROVE  Asks(outbound') => Asks(outbound) /\ Once(outbound')
      <4>1. Asks(Append(outbound, m)) => Asks(outbound)
        BY <1>0, <3>2, AsksInMessages
      <4>2. Once(Append(outbound, m))
        BY <1>0, <3>2, OnceInMessages
      <4> QED BY <3>2, <4>1, <4>2
    <3> QED BY <2>2, <3>1, <3>2
  <2> QED BY <2>1, <2>3 DEF Handshake
<1>5. CASE CallFinish
  <2>1. ~finish_sent /\ finish_sent' = TRUE /\ mark' = accepted
        /\ UNCHANGED <<accepted, finishing, late, wire, failed, pc>>
        /\ outbound' \in {outbound, Append(outbound, Finish)}
    BY <1>5 DEF CallFinish, thread, record
  <2>2. ~Asks(outbound) /\ ~finishing /\ pc \notin {"flush", "eos"} /\ late = {}
    BY <2>1 DEF Handshake
  <2>3. Asks(outbound') => Once(outbound')
    BY <1>0, <2>1, <2>2, OnceInMessages, Messages
  <2> QED BY <2>1, <2>2, <2>3 DEF Handshake
<1>6. CASE TakeShutdown \/ TakeFinish \/ TakeAudio \/ BackoffAudio
  <2>1. outbound # <<>> /\ outbound' = Tail(outbound)
        /\ UNCHANGED <<mark, accepted, finish_sent, finishing, wire, failed>>
    BY <1>6 DEF TakeShutdown, TakeFinish, TakeAudio, BackoffAudio, Pop, handle, record
  <2>2. Asks(outbound') => Asks(outbound) /\ Once(outbound')
    BY <1>0, <2>1, AsksInMessages, OnceInMessages
  <2>3. CASE TakeFinish
    <3>1. Asks(outbound) /\ ~Asks(outbound') /\ UNCHANGED late
      BY <1>0, <2>1, <2>3, AsksInMessages, OnceInMessages DEF TakeFinish, record
    <3>2. pc = "select" /\ ~finishing /\ pc' = "flush" /\ late = {} /\ finish_sent
      BY <2>3, <3>1 DEF TakeFinish, Handshake
    <3> QED BY <2>1, <3>1, <3>2 DEF Handshake
  <2>4. CASE ~TakeFinish
    <3>1. /\ pc' \in {"flush", "eos"} => pc' = pc
          /\ UNCHANGED late \/ finishing
      BY <1>6, <2>4 DEF TakeShutdown, TakeAudio, BackoffAudio, record
    <3>2. Asks(outbound) => UNCHANGED late
      BY <3>1 DEF Handshake
    <3>3. pc \in {"flush", "eos"} => UNCHANGED late
      BY <3>1 DEF Control
    <3> QED BY <2>1, <2>2, <3>1, <3>2, <3>3 DEF Handshake
  <2> QED BY <2>3, <2>4
<1>7. CASE ReplayPending
  BY <1>7 DEF ReplayPending, handle, record, Handshake
<1>8. CASE FrameWritten \/ FrameFailed
  <2>1. writing \in Frame /\ UNCHANGED <<mark, accepted, finish_sent, finishing, late>>
    BY <1>8 DEF FrameWritten, FrameFailed, Settle, Shape, handle
  <2>2. Elements(wire) \subseteq Elements(wire') /\ failed \subseteq failed'
    BY <1>0, <1>8, <2>1, AppendFrame DEF FrameWritten, FrameFailed, Settle
  <2>3. \/ UNCHANGED <<pc, outbound>>
        \/ pc' \in {"exited", "backoff"} /\ (outbound' = <<>> \/ outbound' = outbound)
    BY <1>8 DEF FrameWritten, FrameFailed, OutcomeRetry, Return
  <2>4. Asks(outbound') => Asks(outbound) /\ outbound' = outbound
    BY <1>0, <2>3, AsksInMessages
  <2> QED BY <2>1, <2>2, <2>3, <2>4 DEF Handshake
<1> QED BY <1>1, <1>2, <1>3, <1>4, <1>5, <1>6, <1>7, <1>8, StepKinds

-------------------------------------------------------------------------------
\* The frame that is counted and not yet sent, and what the counter must hold.
Counted == IF hpc = "counted" THEN Samples[frame] ELSE 0
Budget == ~Exited => queued = Total(Costs(outbound)) + Total(Lengths(pending)) + Counted

Cost == [m \in Outbound |-> IF m.type = "audio" THEN Samples[m.frame] ELSE 0]

\* A list of frames weighs its samples.
LEMMA LengthsInLists ==
  ASSUME NEW s \in Seq(Frame)
  PROVE  /\ Total(Lengths(s)) \in Nat
         /\ s = <<>> => Total(Lengths(s)) = 0
         /\ \A f \in Frame : Total(Lengths(Append(s, f))) = Total(Lengths(s)) + Samples[f]
         /\ s # <<>> => Total(Lengths(s)) = Samples[Head(s)] + Total(Lengths(Tail(s)))
<1>1. Samples \in [Frame -> Nat]
  BY ClientAssumption DEF Frame
<1>2. \A t : Lengths(t) = Along(Samples, t)
  BY DEF Lengths, Along
<1> QED BY <1>1, <1>2, TotalAlong

\* The channel weighs the samples of its audio.
LEMMA CostsInMessages ==
  ASSUME NEW q \in Seq(Outbound)
  PROVE  /\ Total(Costs(q)) \in Nat
         /\ q = <<>> => Total(Costs(q)) = 0
         /\ \A f \in Frame : Total(Costs(Append(q, Audio(f)))) = Total(Costs(q)) + Samples[f]
         /\ \A m \in {Finish, Shutdown} : Total(Costs(Append(q, m))) = Total(Costs(q))
         /\ q # <<>> /\ Head(q).type = "audio" =>
              Total(Costs(q)) = Samples[Head(q).frame] + Total(Costs(Tail(q)))
         /\ q # <<>> /\ Head(q).type # "audio" => Total(Costs(q)) = Total(Costs(Tail(q)))
<1>1. Cost \in [Outbound -> Nat]
  BY Messages, SamplesAreNumbers DEF Cost
<1>2. \A t \in Seq(Outbound) : Costs(t) = Along(Cost, t)
  <2>1. ASSUME NEW t \in Seq(Outbound) PROVE Costs(t) = Along(Cost, t)
    <3>1. \A i \in 1..Len(t) : t[i] \in Outbound
      BY LenProperties, ElementOfSeq
    <3> QED BY <3>1 DEF Costs, Along, Cost
  <2> QED BY <2>1
<1>3. /\ \A f \in Frame : Cost[Audio(f)] = Samples[f] /\ Audio(f) \in Outbound
      /\ \A m \in {Finish, Shutdown} : Cost[m] = 0 /\ m \in Outbound
  BY Messages DEF Cost, Audio
<1>4. /\ \A m \in Outbound : Append(q, m) \in Seq(Outbound)
      /\ q # <<>> => Head(q) \in Outbound /\ Tail(q) \in Seq(Outbound)
  BY AppendProperties, HeadTailProperties
<1>5. /\ Total(Costs(q)) \in Nat
      /\ q = <<>> => Total(Costs(q)) = 0
      /\ \A m \in Outbound : Total(Costs(Append(q, m))) = Total(Costs(q)) + Cost[m]
      /\ q # <<>> => Total(Costs(q)) = Cost[Head(q)] + Total(Costs(Tail(q)))
  <2>1. /\ Total(Along(Cost, q)) \in Nat
        /\ q = <<>> => Total(Along(Cost, q)) = 0
        /\ \A m \in Outbound : Total(Along(Cost, Append(q, m))) = Total(Along(Cost, q)) + Cost[m]
        /\ q # <<>> => Total(Along(Cost, q)) = Cost[Head(q)] + Total(Along(Cost, Tail(q)))
    BY <1>1, TotalAlong
  <2> QED BY <2>1, <1>2, <1>4
<1>6. q # <<>> => Cost[Head(q)] = (IF Head(q).type = "audio" THEN Samples[Head(q).frame] ELSE 0)
  BY <1>4 DEF Cost
<1>7. q # <<>> => Total(Costs(Tail(q))) \in Nat
  <2>1. ASSUME q # <<>> PROVE Total(Costs(Tail(q))) \in Nat
    <3>1. Tail(q) \in Seq(Outbound)
      BY <1>4, <2>1
    <3>2. Total(Along(Cost, Tail(q))) \in Nat
      BY <1>1, <3>1, TotalAlong
    <3> QED BY <1>2, <3>1, <3>2
  <2> QED BY <2>1
<1> QED BY <1>3, <1>5, <1>6, <1>7

\* Each step moves as much in the channel, in pending and in the handle's hand as it counts.
LEMMA BudgetStep ==
  ASSUME Shape, Control, Bounds, Ceiling, Budget, [Next]_vars
  PROVE  Budget'
<1> DEFINE c == Total(Costs(outbound))
           l == Total(Lengths(pending))
<1>0. queued \in Int /\ MaxQueued \in Nat /\ c \in Nat /\ l \in Nat
      /\ outbound \in Seq(Outbound) /\ pending \in Seq(Frame)
  BY ClientAssumption, CostsInMessages, LengthsInLists DEF Bounds, Shape
<1>1. ASSUME UNCHANGED <<queued, outbound, pending>>, Exited => Exited', Counted' = Counted
      PROVE  Budget'
  BY <1>1 DEF Budget
<1>2. CASE SendCount
  <2>1. frame \in Frame /\ Samples[frame] \in Nat
    BY <1>2, SamplesAreNumbers DEF SendCount, Shape
  <2>2. UNCHANGED <<outbound, pending, Exited>>
    BY <1>2 DEF SendCount, thread, Exited
  <2>3. queued' = queued + Samples[frame] /\ Counted = 0 /\ Counted' = Samples[frame]
    BY <1>2 DEF SendCount, Counted
  <2> QED BY <1>0, <2>1, <2>2, <2>3 DEF Budget
<1>3. CASE SendPush
  <2>1. frame \in Frame /\ Samples[frame] \in Nat
    BY <1>3, SamplesAreNumbers DEF SendPush, Shape
  <2>2. Counted = Samples[frame] /\ Counted' = 0 /\ UNCHANGED <<pending, Exited>>
    BY <1>3 DEF SendPush, Counted, thread, Exited
  <2>3. ~Exited => queued' = queued /\ outbound' = Append(outbound, Audio(frame))
    BY <1>3 DEF SendPush
  <2>4. Total(Costs(Append(outbound, Audio(frame)))) = c + Samples[frame]
    BY <1>0, <2>1, CostsInMessages
  <2>5. ASSUME ~Exited PROVE queued' = Total(Costs(outbound')) + Total(Lengths(pending')) + Counted'
    <3>1. queued = c + l + Samples[frame]
      BY <2>2, <2>5 DEF Budget
    <3>2. Total(Costs(outbound')) = c + Samples[frame] /\ Total(Lengths(pending')) = l
      BY <2>2, <2>3, <2>4, <2>5
    <3> HIDE DEF c, l
    <3> QED BY <1>0, <2>1, <2>2, <2>3, <2>5, <3>1, <3>2
  <2> QED BY <2>2, <2>5 DEF Budget
<1>4. CASE CallFinish \/ DropHandle
  <2>1. /\ UNCHANGED <<queued, pending, Exited>> /\ Counted' = Counted
        /\ ~Exited => \E m \in {Finish, Shutdown} : outbound' = Append(outbound, m)
    BY <1>4 DEF CallFinish, DropHandle, Counted, thread, Exited
  <2>2. \A m \in {Finish, Shutdown} : Total(Costs(Append(outbound, m))) = c
    BY <1>0, CostsInMessages
  <2> QED BY <1>0, <2>1, <2>2 DEF Budget
<1>5. CASE TakeShutdown \/ TakeFinish
  <2>1. /\ UNCHANGED <<queued, pending>> /\ ~Exited /\ Counted' = Counted
        /\ outbound # <<>> /\ Head(outbound) \in {Finish, Shutdown} /\ outbound' = Tail(outbound)
    BY <1>5 DEF TakeShutdown, TakeFinish, Pop, Counted, handle, Exited
  <2>2. Total(Costs(Tail(outbound))) = c
    BY <1>0, <2>1, Messages, CostsInMessages
  <2> QED BY <2>1, <2>2 DEF Budget
\* There is as much in the counter as is released: the frame is part of the sum.
<1>6. ASSUME NEW f \in Frame, Release(f), ~Exited, queued >= Samples[f]
      PROVE  queued' = queued - Samples[f]
  BY <1>0, <1>6, SamplesAreNumbers DEF Release, Min2
<1>7. Counted \in Nat
  BY SamplesAreNumbers DEF Counted, Shape
<1>8. CASE TakeAudio
  <2> DEFINE f == Head(outbound).frame
  <2>1. /\ UNCHANGED pending /\ ~Exited /\ ~Exited' /\ Counted' = Counted /\ Release(f)
        /\ outbound # <<>> /\ Head(outbound).type = "audio" /\ outbound' = Tail(outbound)
    BY <1>8 DEF TakeAudio, StartWrite, Pop, Counted, handle, Exited
  <2>2. f \in Frame /\ Samples[f] \in Nat
    BY <1>0, <2>1, PopShape, Messages, SamplesAreNumbers
  <2>3. c = Samples[f] + Total(Costs(Tail(outbound))) /\ Total(Costs(Tail(outbound))) \in Nat
    BY <1>0, <2>1, PopShape, CostsInMessages
  <2> HIDE DEF f
  <2> DEFINE r == Total(Costs(Tail(outbound)))
  <2>4. queued = c + l + Counted
    BY <2>1 DEF Budget
  <2>5. Total(Costs(outbound')) = r /\ Total(Lengths(pending')) = l
    BY <2>1
  <2> HIDE DEF c, l, r
  <2>6. queued >= Samples[f] /\ queued - Samples[f] = r + l + Counted
    BY <1>0, <1>7, <2>2, <2>3, <2>4, SMTT(30) DEF r
  <2>7. queued' = queued - Samples[f]
    BY <1>6, <2>1, <2>2, <2>6
  <2> QED BY <2>1, <2>5, <2>6, <2>7 DEF Budget
<1>9. CASE ReplayPending
  <2>0. ~Exited /\ ~Exited' /\ Counted' = Counted /\ outbound' = outbound
    BY <1>9 DEF ReplayPending, Counted, handle, Exited
  <2>1. CASE pending = <<>>
    BY <1>1, <1>9, <2>0, <2>1 DEF ReplayPending
  <2>2. CASE pending # <<>>
    <3> DEFINE f == Head(pending)
    <3>1. pending' = Tail(pending) /\ Release(f)
      BY <1>9, <2>2 DEF ReplayPending, StartWrite
    <3>2. f \in Frame /\ Samples[f] \in Nat /\ Tail(pending) \in Seq(Frame)
      BY <1>0, <2>2, HeadTailProperties, SamplesAreNumbers
    <3>3. l = Samples[f] + Total(Lengths(Tail(pending))) /\ Total(Lengths(Tail(pending))) \in Nat
      BY <1>0, <2>2, <3>2, LengthsInLists
    <3> HIDE DEF f
    <3> DEFINE r == Total(Lengths(Tail(pending)))
    <3>4. queued = c + l + Counted
      BY <2>0 DEF Budget
    <3>5. Total(Costs(outbound')) = c /\ Total(Lengths(pending')) = r
      BY <2>0, <3>1
    <3>6. l = Samples[f] + r /\ r \in Nat /\ c \in Nat /\ Samples[f] \in Nat
      BY <1>0, <3>2, <3>3
    <3> HIDE DEF c, l, r
    <3>7. queued >= Samples[f] /\ queued - Samples[f] = c + r + Counted
      BY ONLY <1>7, <3>4, <3>6
    <3>8. queued' = queued - Samples[f]
      BY <1>6, <2>0, <3>1, <3>2, <3>7
    <3> QED BY <2>0, <3>5, <3>7, <3>8 DEF Budget
  <2> QED BY <2>1, <2>2
\* During an outage a frame changes places and stays counted.
<1>10. CASE BackoffAudio
  <2> DEFINE f == Head(outbound).frame
  <2>1. /\ UNCHANGED queued /\ ~Exited /\ Counted' = Counted
        /\ outbound # <<>> /\ Head(outbound).type = "audio" /\ outbound' = Tail(outbound)
        /\ pending' = Append(pending, f)
    BY <1>0, <1>10 DEF BackoffAudio, Pop, Counted, handle, Exited, Ceiling
  <2>2. f \in Frame /\ Samples[f] \in Nat
    BY <1>0, <2>1, PopShape, Messages, SamplesAreNumbers
  <2>3. c = Samples[f] + Total(Costs(Tail(outbound))) /\ Total(Costs(Tail(outbound))) \in Nat
    BY <1>0, <2>1, PopShape, CostsInMessages
  <2>4. Total(Lengths(Append(pending, f))) = l + Samples[f]
    BY <1>0, <2>2, LengthsInLists
  <2> HIDE DEF f
  <2>5. queued = c + l + Counted
    BY <2>1 DEF Budget
  <2>6. queued' = Total(Costs(outbound')) + Total(Lengths(pending')) + Counted'
    BY <1>0, <1>7, <2>1, <2>2, <2>3, <2>4, <2>5
  <2> QED BY <2>6 DEF Budget
\* The end of a connection keeps both lists, or it is the end of the session.
<1>11. ASSUME UNCHANGED <<handle, queued>>, ~Exited,
              \/ pc' = "exited"
              \/ UNCHANGED <<outbound, pending>>
       PROVE  Budget'
  BY <1>11 DEF Budget, Counted, handle, Exited
<1>12. CASE EndStep
  BY <1>11, <1>12, Ends
<1>13. CASE FrameWritten \/ FrameFailed
  BY <1>11, <1>13 DEF FrameWritten, FrameFailed, OutcomeRetry, Return, Control, Exited
<1>14. CASE UNCHANGED vars
  BY <1>1, <1>14 DEF vars, handle, thread, Counted, Exited
<1>15. CASE QuietStep /\ ~SendCount
  <2>1. UNCHANGED <<outbound, pending>> /\ (Exited' <=> Exited)
    BY <1>15, Quiet DEF audio
  <2>2. ASSUME NEW tokens \in BOOLEAN, NEW finished \in BOOLEAN, RecvResponse(tokens, finished)
        PROVE  UNCHANGED <<queued, frame>> /\ hpc' = hpc
    BY <2>2 DEF RecvResponse, handle
  <2>3. RuntimeBuilt \/ FlushDone \/ BackoffOver \/ Watchdog \/ PingTick
        \/ StartOk \/ EosWritten \/ PingWritten \/ ConnectOk => UNCHANGED <<queued, frame>> /\ hpc' = hpc
    BY DEF RuntimeBuilt, FlushDone, BackoffOver, Watchdog, PingTick, StartOk, EosWritten, PingWritten,
           ConnectOk, handle
  <2>4. SendCheck \/ Receive \/ Join \/ Joined =>
          queued' = queued /\ (UNCHANGED <<hpc, frame>> \/ (hpc # "counted" /\ hpc' # "counted"))
    BY DEF SendCheck, Receive, Join, Joined, handle, vars
  <2>5. queued' = queued /\ Counted' = Counted
    BY <1>15, <2>2, <2>3, <2>4 DEF QuietStep, Counted
  <2> QED BY <1>1, <2>1, <2>5
<1> QED BY <1>2, <1>3, <1>4, <1>5, <1>8, <1>9, <1>10, <1>12, <1>13, <1>14, <1>15, StepKinds

Whole == IInv /\ Ceiling /\ Budget /\ NoHole /\ Handshake

LEMMA WholeAlways == Spec => []Whole
<1>1. Init => Ceiling /\ Budget /\ NoHole /\ Handshake
  <2> SUFFICES ASSUME Init PROVE Ceiling /\ Budget /\ NoHole /\ Handshake
    OBVIOUS
  <2>1. hpc = "ready" /\ queued = 0 /\ pc = "spawned" /\ accepted = {} /\ mark = {} /\ late = {}
        /\ outbound = <<>> /\ pending = <<>> /\ finishing = FALSE /\ finish_sent = FALSE
    BY Zenon DEF Init
  <2>2. Ceiling
    BY <2>1, ClientAssumption DEF Ceiling
  <2>3. NoHole
    BY <2>1 DEF NoHole
  <2>4. Handshake
    BY <2>1 DEF Handshake, Asks
  <2>5. Budget
    <3>1. Total(Costs(<<>>)) = 0 /\ Total(Lengths(<<>>)) = 0
      BY EmptySeq, CostsInMessages, LengthsInLists
    <3> QED BY <2>1, <3>1 DEF Budget, Counted
  <2> QED BY <2>2, <2>3, <2>4, <2>5
<1>2. Whole /\ [Next]_vars => Ceiling' /\ Budget' /\ NoHole' /\ Handshake'
  BY CeilingStep, BudgetStep, NoHoleStep, HandshakeStep DEF Whole, IInv
<1> QED BY <1>1, <1>2, Inductive, PTL DEF Spec, Whole

\* The counter of the backlog stays under its ceiling and, while the thread runs, is exactly
\* what waits: no outage, retry or late frame leaks budget.
THEOREM AlwaysBacklog == Spec => []Backlog
<1>1. Whole => Backlog
  BY DEF Whole, Ceiling, Budget, Counted, Backlog
<1> QED BY <1>1, WholeAlways, PTL

\* While the session lives, no outage loses audio that send_audio has accepted.
THEOREM AlwaysNoHole == Spec => []NoHole
<1>1. Whole => NoHole
  BY DEF Whole
<1> QED BY <1>1, WholeAlways, PTL

\* End-of-stream is behind all the audio accepted before finish() was called.
THEOREM AlwaysTailBeforeEos == Spec => []TailBeforeEos
<1>1. Whole => TailBeforeEos
  BY DEF Whole, Handshake, TailBeforeEos
<1> QED BY <1>1, WholeAlways, PTL

-------------------------------------------------------------------------------
\* The contract's step for each way a step of the client can end.
ContractStep == [Contract!Next]_<<inbound, ~Exited, hpc \notin {"joining", "joined"}>>

LEMMA SilentContract ==
  ASSUME UNCHANGED inbound, pc' = "exited" <=> pc = "exited", Dropped' <=> Dropped
  PROVE  ContractStep
<1>1. (~Exited)' = ~Exited /\ (hpc \notin {"joining", "joined"})' = (hpc \notin {"joining", "joined"})
  BY Zenon DEF Exited, Dropped
<1> QED BY <1>1 DEF ContractStep

LEMMA ReportContract ==
  ASSUME ~Exited, NEW m \in Inbound \ Terminal, Report(m), UNCHANGED hpc, pc' # "exited"
  PROVE  ContractStep
<1>1. (~Exited)' = ~Exited /\ (hpc \notin {"joining", "joined"})' = (hpc \notin {"joining", "joined"})
  BY Zenon DEF Exited
<1>2. Contract!Report(m)
  BY <1>1 DEF Contract!Report, Report
<1> QED BY <1>2 DEF ContractStep, Contract!Next

LEMMA TerminalContract ==
  ASSUME ~Exited, NEW m \in Terminal, Report(m), Return, UNCHANGED hpc
  PROVE  ContractStep
<1>1. (hpc \notin {"joining", "joined"})' = (hpc \notin {"joining", "joined"})
  BY Zenon
<1>2. (~Exited)' = FALSE /\ m \in Inbound \cap Terminal
  BY DEF Exited, Return, Inbound
<1>3. Contract!ReportLast(m)
  BY <1>1, <1>2 DEF Contract!ReportLast, Report
<1> QED BY <1>2, <1>3 DEF ContractStep, Contract!Next

LEMMA DroppedContract ==
  ASSUME ~Exited, Dropped, Return, UNCHANGED <<hpc, inbound>>
  PROVE  ContractStep
<1>1. (hpc \notin {"joining", "joined"})' = (hpc \notin {"joining", "joined"})
  BY Zenon
<1>2. (~Exited)' = FALSE
  BY DEF Exited, Return
<1>3. Contract!StopSilently
  BY <1>1, <1>2 DEF Contract!StopSilently, Dropped
<1> QED BY <1>3 DEF ContractStep, Contract!Next

LEMMA RetryContract ==
  ASSUME ~Exited, UNCHANGED hpc, NEW b \in BOOLEAN, OutcomeRetry(b)
  PROVE  ContractStep
<1>1. \/ Report("fatal") /\ Return
      \/ Report("reconnecting") /\ pc' = "backoff"
  BY DEF OutcomeRetry
<1>2. "fatal" \in Terminal /\ "reconnecting" \in Inbound \ Terminal
  BY DEF Inbound, Terminal
<1> QED BY <1>1, <1>2, TerminalContract, ReportContract

LEMMA FinishedContract ==
  ASSUME ~Exited, UNCHANGED hpc, OutcomeFinished \/ OutcomeFatal
  PROVE  ContractStep
<1>1. "finished" \in Terminal /\ "fatal" \in Terminal
  BY DEF Terminal
<1> QED BY <1>1, TerminalContract DEF OutcomeFinished, OutcomeFatal

LEMMA StepKeepsContract == ASSUME Shape, Control, Ending, [Next]_vars PROVE ContractStep
<1>0. outbound \in Seq(Outbound) /\ (Stops(outbound) \/ pc = "closeShutdown" => Dropped)
  BY DEF Shape, Ending, StopMeansDropped
<1>1. CASE SendCheck
  BY <1>1, SilentContract DEF SendCheck, thread, Dropped
<1>2. CASE SendCount
  BY <1>2, SilentContract DEF SendCount, thread, Dropped
<1>3. CASE SendPush
  BY <1>3, SilentContract DEF SendPush, thread, Dropped
<1>4. CASE CallFinish
  BY <1>4, SilentContract DEF CallFinish, thread, Dropped
<1>5. CASE Receive
  <2>1. (~Exited)' = ~Exited /\ (hpc \notin {"joining", "joined"})' = (hpc \notin {"joining", "joined"})
    BY <1>5 DEF Receive, thread, Exited
  <2>2. Contract!Read
    BY <1>5, <2>1 DEF Receive, Contract!Read
  <2> QED BY <2>2 DEF ContractStep, Contract!Next
<1>6. CASE DropHandle
  <2>1. (~Exited)' = ~Exited /\ (hpc \notin {"joining", "joined"})' = FALSE
    BY <1>6 DEF DropHandle, thread, Exited
  <2>2. Contract!Drop
    BY <1>6, <2>1 DEF DropHandle, Contract!Drop
  <2> QED BY <2>2 DEF ContractStep, Contract!Next
<1>7. CASE Join
  BY <1>7, SilentContract DEF Join, thread, Dropped
<1>8. CASE Joined
  BY <1>8, SilentContract DEF Joined, vars, handle, thread, Dropped
<1>9. CASE RuntimeBuilt
  BY <1>9, SilentContract DEF RuntimeBuilt, handle, Dropped
<1>10. CASE RuntimeFailed
  BY <1>10, FinishedContract DEF RuntimeFailed, handle, Exited
<1>11. CASE ReplayPending
  BY <1>11, SilentContract DEF ReplayPending, handle, Dropped
<1>12. CASE TakeShutdown
  BY <1>12, SilentContract DEF TakeShutdown, handle, Dropped
<1>13. CASE TakeFinish
  BY <1>13, SilentContract DEF TakeFinish, handle, Dropped
<1>14. CASE TakeAudio
  BY <1>14, SilentContract DEF TakeAudio, handle, Dropped
<1>15. CASE FlushDone
  BY <1>15, SilentContract DEF FlushDone, handle, Dropped
<1>16. CASE BackoffOver
  BY <1>16, SilentContract DEF BackoffOver, handle, Dropped
<1>17. CASE BackoffAudio
  BY <1>17, SilentContract DEF BackoffAudio, handle, Dropped
<1>18. CASE BackoffInterrupted
  <2>1. ~Exited /\ UNCHANGED hpc
    BY <1>18 DEF BackoffInterrupted, handle, Exited
  <2>2. CASE OutcomeFinished
    BY <2>1, <2>2, FinishedContract
  <2>3. CASE Head(outbound) = Shutdown /\ OutcomeShutdown
    <3>1. Dropped
      BY <1>0, <1>18, <2>3, StopsInMessages DEF BackoffInterrupted
    <3> QED BY <2>1, <2>3, <3>1, DroppedContract DEF OutcomeShutdown
  <2> QED BY <1>18, <2>2, <2>3 DEF BackoffInterrupted
<1>19. CASE Watchdog
  BY <1>19, SilentContract DEF Watchdog, handle, Dropped
<1>20. CASE PingTick
  BY <1>20, SilentContract DEF PingTick, handle, Dropped
<1>21. CASE StartOk
  BY <1>21, SilentContract DEF StartOk, handle, Dropped
<1>22. CASE FrameWritten
  BY <1>22, SilentContract DEF FrameWritten, handle, Dropped
<1>23. CASE FrameFailed
  <2>1. ~Exited /\ UNCHANGED hpc /\ \E b \in BOOLEAN : OutcomeRetry(b)
    BY <1>23 DEF FrameFailed, handle, Shape, Control, Exited
  <2> QED BY <2>1, RetryContract
<1>24. CASE EosWritten
  BY <1>24, SilentContract DEF EosWritten, handle, Dropped
<1>25. CASE EosFailed
  BY <1>25, FinishedContract DEF EosFailed, handle, Exited
<1>26. CASE Closed
  <2>1. ~Exited /\ UNCHANGED hpc
    BY <1>26 DEF Closed, handle, Exited
  <2>2. CASE OutcomeFinished
    BY <2>1, <2>2, FinishedContract
  <2>3. CASE pc = "closeShutdown" /\ OutcomeShutdown
    <3>1. Dropped
      BY <1>0, <1>26, <2>3, StopsInMessages DEF Closed
    <3> QED BY <2>1, <2>3, <3>1, DroppedContract DEF OutcomeShutdown
  <2> QED BY <1>26, <2>2, <2>3 DEF Closed
<1>27. CASE PingWritten
  BY <1>27, SilentContract DEF PingWritten, handle, Dropped
<1>28. CASE PingFailed
  <2>1. ~Exited /\ UNCHANGED hpc /\ \E b \in BOOLEAN : OutcomeRetry(b)
    BY <1>28 DEF PingFailed, handle, Shape, Exited
  <2> QED BY <2>1, RetryContract
<1>29. CASE ConnectOk
  BY <1>29, SilentContract DEF ConnectOk, handle, Dropped
<1>30. CASE ConnectFail
  <2>1. ~Exited /\ UNCHANGED hpc /\ \E b \in BOOLEAN : OutcomeRetry(b)
    BY <1>30 DEF ConnectFail, handle, Shape, Exited
  <2> QED BY <2>1, RetryContract
<1>31. CASE ConnectionLost
  <2>1. ~Exited /\ UNCHANGED hpc
    BY <1>31 DEF ConnectionLost, handle, Exited
  <2>2. OutcomeFinished \/ \E b \in BOOLEAN : OutcomeRetry(b)
    BY <1>31 DEF ConnectionLost, Shape
  <2> QED BY <2>1, <2>2, FinishedContract, RetryContract
<1>32. ASSUME NEW tokens \in BOOLEAN, NEW finished \in BOOLEAN, RecvResponse(tokens, finished)
      PROVE  ContractStep
  <2>1. /\ ~Exited /\ pc' # "exited" /\ UNCHANGED hpc
        /\ Report("response") \/ UNCHANGED inbound
    BY <1>32 DEF RecvResponse, handle, Exited
  <2>2. "response" \in Inbound \ Terminal
    BY DEF Inbound, Terminal
  <2>3. CASE Report("response")
    BY <2>1, <2>2, <2>3, ReportContract
  <2>4. CASE UNCHANGED inbound
    BY <2>1, <2>4, SilentContract DEF Exited, Dropped
  <2> QED BY <2>1, <2>3, <2>4
<1>33. ASSUME NEW retryable \in BOOLEAN, RecvError(retryable)
      PROVE  ContractStep
  <2>1. ~Exited /\ UNCHANGED hpc
    BY <1>33 DEF RecvError, handle, Exited
  <2>2. OutcomeFatal \/ \E b \in BOOLEAN : OutcomeRetry(b)
    BY <1>33 DEF RecvError, Shape
  <2> QED BY <2>1, <2>2, FinishedContract, RetryContract
<1>34. CASE UNCHANGED vars
  BY <1>34, SilentContract DEF vars, handle, thread, Dropped
<1> QED
  BY <1>1, <1>2, <1>3, <1>4, <1>5, <1>6, <1>7, <1>8, <1>9, <1>10, <1>11, <1>12,
     <1>13, <1>14, <1>15, <1>16, <1>17, <1>18, <1>19, <1>20, <1>21, <1>22, <1>23, <1>24,
     <1>25, <1>26, <1>27, <1>28, <1>29, <1>30, <1>31, <1>32, <1>33, <1>34
     DEF Next, HandleNext, ThreadStep, WriteStep, ConnectStep, ServiceStep

\* The socket thread implements the contract the adapter is written against.
THEOREM ImplementsClientContract == Spec => KeepsClientContract
<1>1. Init => Contract!Init
  <2> SUFFICES ASSUME Init PROVE Contract!Init
    OBVIOUS
  <2>1. inbound = <<>> /\ pc = "spawned" /\ hpc = "ready"
    BY Zenon DEF Init
  <2> QED BY <2>1 DEF Contract!Init, Exited
<1>2. IInv /\ [Next]_vars => [Contract!Next]_<<inbound, ~Exited, hpc \notin {"joining", "joined"}>>
  BY StepKeepsContract DEF IInv, ContractStep
<1> QED BY <1>1, <1>2, Inductive, PTL DEF Spec, KeepsClientContract, Contract!Spec
===============================================================================
