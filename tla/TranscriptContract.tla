-------------------------- MODULE TranscriptContract --------------------------
(***************************************************************************)
(* What every ASR backend promises the code that shows its transcript      *)
(* (`TranscriptUpdate` in asr/mod.rs): a segment may be re-emitted any     *)
(* number of times while provisional, then is emitted once more as final,  *)
(* and never again; segment ids grow in the order in which the segments    *)
(* first appear.  The state is the one a consumer keeps: which segments it *)
(* shows as open, which it holds as closed, and which ids reached it again *)
(* after they had been closed.                                             *)
(***************************************************************************)
EXTENDS Naturals

VARIABLE store

SegmentId == Nat \ {0}

Store == [open : SUBSET SegmentId,
          closed : SUBSET SegmentId,
          reopened : SUBSET SegmentId]

EmptyStore == [open |-> {}, closed |-> {}, reopened |-> {}]

Seen(s) == s.open \cup s.closed

Init == store = EmptyStore

\* One call of the backend hands over a batch of updates.
Deliver ==
  /\ store' \in Store
  /\ store.closed \subseteq store'.closed
  /\ Seen(store) \subseteq Seen(store')
  /\ store'.open \cap store'.closed = {}
  /\ store'.reopened = {}
  /\ \A fresh \in Seen(store') \ Seen(store) : \A old \in Seen(store) : old < fresh

Spec == Init /\ [][Deliver]_store
===============================================================================
