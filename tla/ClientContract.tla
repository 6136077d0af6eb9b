---------------------------- MODULE ClientContract ----------------------------
(***************************************************************************)
(* What the socket thread of asr/soniox/client.rs promises the owner of    *)
(* its handle: messages are read in the order they were reported; the      *)
(* thread ends with a last message, after which nothing follows, or        *)
(* without one when the handle has been dropped and nobody reads.          *)
(***************************************************************************)
EXTENDS Sequences

CONSTANTS Message,     \* everything the thread reports
          LastMessage  \* what it reports when the session is over

VARIABLES inbound,  \* reported and not yet read
          alive,    \* the thread has not returned
          owned     \* the handle has not been dropped

Init == inbound = <<>> /\ alive = TRUE /\ owned = TRUE

Report(m) ==
  /\ alive /\ m \in Message \ LastMessage
  /\ inbound' = Append(inbound, m)
  /\ UNCHANGED <<alive, owned>>

ReportLast(m) ==
  /\ alive /\ m \in Message \cap LastMessage
  /\ inbound' = Append(inbound, m)
  /\ alive' = FALSE
  /\ UNCHANGED owned

StopSilently == alive /\ ~owned /\ alive' = FALSE /\ UNCHANGED <<inbound, owned>>

Read == owned /\ inbound # <<>> /\ inbound' = Tail(inbound) /\ UNCHANGED <<alive, owned>>

Drop == owned /\ owned' = FALSE /\ UNCHANGED <<inbound, alive>>

Next == \/ \E m \in Message : Report(m) \/ ReportLast(m)
        \/ StopSilently \/ Read \/ Drop

Spec == Init /\ [][Next]_<<inbound, alive, owned>>
===============================================================================
