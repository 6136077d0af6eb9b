------------------------------- MODULE VadStream -------------------------------
(***************************************************************************)
(* The VAD on its own: frames of consecutive samples at any level, with    *)
(* hot reloads and restarts between them.                                  *)
(***************************************************************************)
EXTENDS Vad

CONSTANT MaxFrames   \* bound: frames heard in one behaviour

ASSUME VadStreamAssumption == MaxFrames \in Nat

VARIABLE frames   \* frames heard so far

streamVars == <<vadVars, frames>>

NextFrame == [j \in 1..FrameSize |-> frames * FrameSize + j]

Hear ==
  /\ frames < MaxFrames /\ frames' = frames + 1
  /\ \E p \in Level : Process(p, NextFrame)

HotReload == \E t \in Thresholds \ {threshold} : UpdateParams(t) /\ UNCHANGED frames

Restart == Reset /\ UNCHANGED frames

StreamInit == VadInit /\ frames = 0
StreamNext == Hear \/ HotReload \/ Restart
StreamSpec == StreamInit /\ [][StreamNext]_streamVars
===============================================================================
