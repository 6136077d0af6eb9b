------------------------ MODULE SonioxTranscriptProofs ------------------------
(***************************************************************************)
(* The way of the text from the socket to the transcript: the accumulator  *)
(* of asr/soniox/accumulator.rs token by token, then the adapter of        *)
(* backend.rs message by message, for any number of speakers, responses    *)
(* and outages.                                                            *)
(*                                                                         *)
(* The contract alone is not inductive: that the next update hits no       *)
(* closed segment follows from the open ids being distinct, owned by the   *)
(* accumulator and older than the next id.  `Sound` says so of the         *)
(* accumulator, the id source and the consumer together; `Advances` says   *)
(* what one method call may do to them.  `Spoken` is what the methods keep *)
(* of the durable speech.                                                  *)
(***************************************************************************)
EXTENDS Accumulator, SonioxBackend, ListsProofs, TLAPS, FiniteSetTheorems, SequenceTheorems

IsSequence(s) == s \in Seq(Range(s))

Items(s) == {s[i] : i \in 1..Len(s)}

Increasing(s) == \A i, j \in 1..Len(s) : i < j => s[i] < s[j]

Sound(x) ==
  /\ DOMAIN x = {"acc", "next_id", "store", "said"}
  /\ DOMAIN x.acc = {"pending", "pending_speaker", "open_runs", "open_ids"}
  /\ x.next_id \in Nat \ {0}
  /\ IsSequence(x.acc.pending)
  /\ x.acc.open_ids \in Seq(Nat)
  /\ IsSequence(x.acc.open_runs)
  /\ Len(x.acc.open_runs) = Len(x.acc.open_ids)
  /\ Increasing(x.acc.open_ids)
  /\ x.store \in [open : SUBSET (1..x.next_id - 1), closed : SUBSET (1..x.next_id - 1),
                  reopened : {{}}]
  /\ x.store.open = Items(x.acc.open_ids)
  /\ x.store.open \cap x.store.closed = {}

Advances(x, y) ==
  /\ Sound(y)
  /\ x.store.closed \subseteq y.store.closed
  /\ x.store.open \cup x.store.closed \subseteq y.store.open \cup y.store.closed
  /\ x.next_id <= y.next_id
  /\ \A id \in y.store.open \cup y.store.closed :
       id \in x.store.open \cup x.store.closed \/ x.next_id <= id

AccInv == Sound(Here)

-------------------------------------------------------------------------------
LEMMA AdvancesReflexive == ASSUME NEW x, Sound(x) PROVE Advances(x, x)
BY DEF Advances, Sound

LEMMA AdvancesTransitive ==
  ASSUME NEW x, NEW y, NEW z, Sound(x), Advances(x, y), Advances(y, z)
  PROVE  Advances(x, z)
<1> DEFINE seen(w) == w.store.open \cup w.store.closed
<1>1. x.next_id \in Nat /\ y.next_id \in Nat /\ z.next_id \in Nat
  BY DEF Advances, Sound
<1>2. seen(x) \subseteq seen(y) /\ seen(y) \subseteq seen(z)
  BY DEF Advances
<1>3. seen(z) \subseteq Nat
  BY DEF Advances, Sound
<1>4. ASSUME NEW id \in seen(z) PROVE id \in seen(x) \/ x.next_id <= id
  <2>1. CASE id \in seen(y)
    BY <2>1 DEF Advances
  <2>2. CASE id \notin seen(y)
    <3>1. y.next_id <= id
      BY <2>2 DEF Advances
    <3>2. x.next_id <= y.next_id
      BY DEF Advances
    <3> QED BY <3>1, <3>2, <1>1, <1>3
  <2> QED BY <2>1, <2>2
<1> QED BY <1>1, <1>2, <1>4 DEF Advances

\* Two states that differ at most in the pending text and its speaker.
LEMMA SameSegments ==
  ASSUME NEW x, NEW y, Sound(x), DOMAIN y = DOMAIN x, DOMAIN y.acc = DOMAIN x.acc,
         y.acc.open_ids = x.acc.open_ids, y.acc.open_runs = x.acc.open_runs,
         y.next_id = x.next_id, y.store = x.store, IsSequence(y.acc.pending)
  PROVE  Advances(x, y)
<1>1. Sound(y)
  BY DEF Sound
<1> QED BY <1>1 DEF Advances, Sound

LEMMA EmptyIsSequence == IsSequence(<<>>)
BY EmptySeq DEF IsSequence

LEMMA AppendIsSequence == ASSUME NEW s, NEW e, IsSequence(s) PROVE IsSequence(Append(s, e))
<1>1. s \in Seq(Range(s) \cup {e})
  BY SeqMonotonic DEF IsSequence
<1> QED BY <1>1, AppendProperties, SeqOfRange DEF IsSequence

LEMMA ConcatIsSequence ==
  ASSUME NEW s, NEW t, IsSequence(s), IsSequence(t)
  PROVE  IsSequence(s \o t)
<1>1. s \in Seq(Range(s) \cup Range(t)) /\ t \in Seq(Range(s) \cup Range(t))
  BY SeqMonotonic DEF IsSequence
<1> QED BY <1>1, ConcatProperties, SeqOfRange DEF IsSequence

\* A function on 1..n is a sequence.
LEMMA FunctionIsSequence ==
  ASSUME NEW n \in Nat, NEW f, f = [k \in 1..n |-> f[k]]
  PROVE  IsSequence(f)
<1>1. f \in [1..n -> Range(f)]
  BY DEF Range
<1> QED BY <1>1, SeqDef DEF IsSequence

LEMMA TailIsSequence ==
  ASSUME NEW s, IsSequence(s), s # <<>>
  PROVE  IsSequence(Tail(s)) /\ Len(Tail(s)) = Len(s) - 1
BY HeadTailProperties, SeqOfRange DEF IsSequence

\* Removing the first of an increasing sequence of numbers.
LEMMA TailIncreasing ==
  ASSUME NEW s \in Seq(Nat), s # <<>>, Increasing(s)
  PROVE  /\ Tail(s) \in Seq(Nat) /\ Len(Tail(s)) = Len(s) - 1
         /\ Increasing(Tail(s))
         /\ Head(s) \in Items(s)
         /\ Items(Tail(s)) = Items(s) \ {Head(s)}
<1>1. /\ Tail(s) \in Seq(Nat) /\ Len(Tail(s)) = Len(s) - 1
      /\ \A i \in 1..Len(s) - 1 : Tail(s)[i] = s[i + 1]
  BY HeadTailProperties
<1>2. Len(s) \in Nat \ {0} /\ Head(s) = s[1] /\ \A i \in 1..Len(s) : s[i] \in Nat
  BY EmptySeq, ElementOfSeq
<1> DEFINE t == Tail(s)
<1> HIDE DEF t
<1>3. \A i \in 1..Len(t) : i + 1 \in 1..Len(s) /\ t[i] = s[i + 1]
  BY <1>1, <1>2 DEF t
<1>4. Increasing(t)
  BY <1>1, <1>2, <1>3 DEF Increasing, t
<1>5. \A i \in 2..Len(s) : i - 1 \in 1..Len(t) /\ s[i] = t[i - 1] /\ s[1] < s[i]
  BY <1>1, <1>2, <1>3 DEF Increasing, t
<1>6. Items(t) \subseteq Items(s) \ {s[1]}
  BY <1>1, <1>2, <1>3, <1>5 DEF Items
<1>7. ASSUME NEW i \in 1..Len(s), s[i] # s[1] PROVE s[i] \in Items(t)
  <2>1. i \in 2..Len(s)
    BY <1>2, <1>7
  <2> QED BY <2>1, <1>5 DEF Items
<1>8. Items(s) \ {s[1]} \subseteq Items(t)
  BY <1>7 DEF Items
<1>9. Items(t) = Items(s) \ {s[1]}
  BY <1>6, <1>8
<1>10. s[1] \in Items(s)
  BY <1>2 DEF Items
<1> QED BY <1>1, <1>2, <1>4, <1>9, <1>10 DEF t

\* A one-update batch that closes a segment.
LEMMA ReceiveFinal ==
  ASSUME NEW s, NEW id, NEW run
  PROVE  Receive(s, <<Update(id, TRUE, run)>>) =
           [open     |-> s.open \ {id},
            closed   |-> s.closed \cup {id},
            reopened |-> s.reopened \cup (s.closed \cap {id})]
<1> DEFINE us == <<Update(id, TRUE, run)>>
<1>1. DOMAIN us = {1} /\ us[1].final = TRUE /\ us[1].id = id
  BY DEF Update
<1>2. {us[k].id : k \in {j \in DOMAIN us : us[j].final = TRUE}} = {id}
  BY <1>1
<1>3. {us[k].id : k \in {j \in DOMAIN us : us[j].final = FALSE}} = {}
  BY <1>1
<1> QED BY <1>2, <1>3 DEF Receive

\* flush finalizes in place or under a new id, and disturbs no other segment.
LEMMA FlushAdvances == ASSUME NEW x, Sound(x) PROVE Advances(x, Flush(x))
<1> DEFINE y == Flush(x)
           cleared == [x.acc EXCEPT !.pending = <<>>]
           run == [speaker |-> x.acc.pending_speaker, text |-> x.acc.pending]
           ids == x.acc.open_ids
<1>1. /\ DOMAIN cleared = DOMAIN x.acc
      /\ cleared.open_ids = ids
      /\ cleared.open_runs = x.acc.open_runs
      /\ IsSequence(cleared.pending)
  BY EmptyIsSequence DEF Sound
<1>2. CASE Blank(x.acc.pending)
  <2>1. y = [x EXCEPT !.acc = cleared]
    BY <1>2 DEF Flush
  <2> HIDE DEF y, cleared
  <2>2. /\ DOMAIN y = DOMAIN x /\ y.acc = cleared
        /\ y.next_id = x.next_id /\ y.store = x.store
    BY <2>1 DEF Sound
  <2>3. Advances(x, y)
    BY <2>2, <1>1, SameSegments
  <2> QED BY <2>3 DEF y
<1>3. CASE ~Blank(x.acc.pending) /\ ids = <<>>
  <2>1. /\ DOMAIN y = DOMAIN x /\ y.acc = cleared
        /\ y.next_id = x.next_id + 1
        /\ y.store = Receive(x.store, <<Update(x.next_id, TRUE, run)>>)
    BY <1>3 DEF Flush, NextId, Sound
  <2> HIDE DEF y, cleared, run
  <2>2. y.store = [open |-> x.store.open \ {x.next_id},
                   closed |-> x.store.closed \cup {x.next_id},
                   reopened |-> x.store.reopened \cup (x.store.closed \cap {x.next_id})]
    BY <2>1, ReceiveFinal
  <2>3. x.next_id \in Nat \ {0} /\ x.store.reopened = {}
        /\ x.store.open \subseteq 1..x.next_id - 1 /\ x.store.closed \subseteq 1..x.next_id - 1
    BY DEF Sound
  <2>4. /\ x.next_id \notin x.store.open /\ x.next_id \notin x.store.closed
        /\ x.store.open \cap x.store.closed = {}
    BY <2>3 DEF Sound
  <2>5. x.next_id \in 1..y.next_id - 1 /\ x.next_id <= y.next_id /\ y.next_id \in Nat \ {0}
    BY <2>1, <2>3
  <2> DEFINE o == x.store.open
             c == x.store.closed \cup {x.next_id}
  <2>6. o \subseteq 1..y.next_id - 1 /\ c \subseteq 1..y.next_id - 1 /\ o \cap c = {}
    <3>1. o \subseteq 1..y.next_id - 1 /\ x.store.closed \subseteq 1..y.next_id - 1
      BY <2>3, <2>5
    <3> QED BY <3>1, <2>4, <2>5
  <2>10. y.store = [open |-> o, closed |-> c, reopened |-> {}]
    <3>1. o \ {x.next_id} = o /\ x.store.reopened \cup (x.store.closed \cap {x.next_id}) = {}
      BY <2>3, <2>4
    <3> QED BY <2>2, <3>1
  <2> HIDE DEF o, c
  <2>11. y.store \in [open : SUBSET (1..y.next_id - 1), closed : SUBSET (1..y.next_id - 1),
                      reopened : {{}}]
         /\ y.store.open = o /\ y.store.closed = c
    BY <2>6, <2>10
  <2>7. /\ IsSequence(y.acc.pending)
        /\ IsSequence(y.acc.open_runs) /\ y.acc.open_ids = ids
        /\ ids \in Seq(Nat) /\ Increasing(ids) /\ x.store.open = Items(ids)
        /\ Len(y.acc.open_runs) = Len(ids) /\ DOMAIN y.acc = DOMAIN x.acc
    BY <2>1, <1>1 DEF Sound
  <2> HIDE DEF ids
  <2>8. Sound(y)
    BY <2>1, <2>5, <2>6, <2>7, <2>11 DEF Sound, o
  <2>9. Advances(x, y)
    BY <2>5, <2>6, <2>8, <2>11 DEF Advances, o, c
  <2> QED BY <2>9 DEF y
<1>4. CASE ~Blank(x.acc.pending) /\ ids # <<>>
  <2> DEFINE id == Head(ids)
  <2>1. /\ DOMAIN y = DOMAIN x /\ y.acc = DropFirst(cleared)
        /\ y.next_id = x.next_id
        /\ y.store = Receive(x.store, <<Update(id, TRUE, run)>>)
    BY <1>4 DEF Flush, Sound
  <2> HIDE DEF y, cleared, run
  <2>2. /\ DOMAIN y.acc = DOMAIN x.acc
        /\ y.acc.open_ids = Tail(ids)
        /\ y.acc.open_runs = Tail(x.acc.open_runs)
        /\ IsSequence(y.acc.pending)
    BY <2>1, <1>1 DEF DropFirst, Sound
  <2>3. y.store = [open |-> x.store.open \ {id},
                   closed |-> x.store.closed \cup {id},
                   reopened |-> x.store.reopened \cup (x.store.closed \cap {id})]
    BY <2>1, ReceiveFinal
  <2>4. /\ ids \in Seq(Nat) /\ Increasing(ids) /\ Len(ids) \in Nat \ {0}
        /\ x.store.open = Items(ids) /\ x.store.reopened = {}
        /\ x.store.open \subseteq 1..x.next_id - 1 /\ x.store.closed \subseteq 1..x.next_id - 1
        /\ x.store.open \cap x.store.closed = {}
    BY <1>4, EmptySeq DEF Sound
  <2>5. /\ Tail(ids) \in Seq(Nat) /\ Len(Tail(ids)) = Len(ids) - 1
        /\ Increasing(Tail(ids)) /\ id \in x.store.open
        /\ Items(Tail(ids)) = x.store.open \ {id}
    BY <1>4, <2>4, TailIncreasing
  <2>6. IsSequence(x.acc.open_runs) /\ x.acc.open_runs # <<>>
    BY <2>4 DEF Sound
  <2>7. IsSequence(y.acc.open_runs) /\ Len(y.acc.open_runs) = Len(y.acc.open_ids)
    BY <2>2, <2>5, <2>6, TailIsSequence DEF Sound
  <2> HIDE DEF id, ids
  <2>8. x.next_id \in Nat \ {0} /\ id \in 1..x.next_id - 1 /\ id \notin x.store.closed
    BY <2>4, <2>5 DEF Sound
  <2> DEFINE o == x.store.open \ {id}
             c == x.store.closed \cup {id}
  <2>9. o \subseteq 1..y.next_id - 1 /\ c \subseteq 1..y.next_id - 1 /\ o \cap c = {}
    BY <2>1, <2>4, <2>8
  <2>10. y.store = [open |-> o, closed |-> c, reopened |-> {}]
    <3>1. x.store.reopened \cup (x.store.closed \cap {id}) = {}
      BY <2>4, <2>8
    <3> QED BY <2>3, <3>1
  <2>11. o = Items(Tail(ids)) /\ x.store.open \cup x.store.closed = o \cup c
    BY <2>5
  <2> HIDE DEF o, c
  <2>12. y.store \in [open : SUBSET (1..y.next_id - 1), closed : SUBSET (1..y.next_id - 1),
                      reopened : {{}}]
         /\ y.store.open = o /\ y.store.closed = c
    BY <2>9, <2>10
  <2>13. y.next_id \in Nat \ {0} /\ x.next_id <= y.next_id
    BY <2>1, <2>8
  <2>14. Sound(y)
    BY <2>1, <2>2, <2>5, <2>7, <2>9, <2>11, <2>12, <2>13 DEF Sound
  <2>15. x.store.closed \subseteq c
    BY DEF c
  <2>16. Advances(x, y)
    BY <2>11, <2>12, <2>13, <2>14, <2>15 DEF Advances
  <2> QED BY <2>16 DEF y
<1> QED BY <1>2, <1>3, <1>4

LEMMA TurnAdvances == ASSUME NEW x, NEW label, Sound(x) PROVE Advances(x, Turn(x, label))
<1> DEFINE y == IF x.acc.pending_speaker \notin {NoSpeaker, label} THEN Flush(x) ELSE x
           z == [y EXCEPT !.acc.pending_speaker = label]
<1>1. Advances(x, y)
  BY FlushAdvances, AdvancesReflexive
<1>2. Advances(x, z)
  <2> HIDE DEF y
  <2>1. /\ DOMAIN z = DOMAIN y /\ DOMAIN z.acc = DOMAIN y.acc
        /\ z.acc.open_ids = y.acc.open_ids /\ z.acc.open_runs = y.acc.open_runs
        /\ z.next_id = y.next_id /\ z.store = y.store
        /\ IsSequence(z.acc.pending)
    BY <1>1 DEF Advances, Sound
  <2>2. Sound(y)
    BY <1>1 DEF Advances
  <2> HIDE DEF z
  <2>3. Advances(y, z)
    BY <2>1, <2>2, SameSegments
  <2>4. Advances(x, z)
    BY <1>1, <2>2, <2>3, AdvancesTransitive
  <2> QED BY <2>4 DEF z
<1> QED BY <1>2, AdvancesReflexive DEF Turn

LEMMA PushAdvances == ASSUME NEW x, NEW piece, Sound(x) PROVE Advances(x, PushText(x, piece))
<1> DEFINE y == PushText(x, piece)
<1>1. /\ DOMAIN y = DOMAIN x /\ DOMAIN y.acc = DOMAIN x.acc
      /\ y.acc.open_ids = x.acc.open_ids /\ y.acc.open_runs = x.acc.open_runs
      /\ y.next_id = x.next_id /\ y.store = x.store
      /\ y.acc.pending = Append(x.acc.pending, piece)
      /\ IsSequence(x.acc.pending)
  BY DEF PushText, Sound
<1> HIDE DEF y
<1>2. Advances(x, y)
  BY <1>1, SameSegments, AppendIsSequence
<1> QED BY <1>2 DEF y

\* One iteration of the durable loop, whatever the token.
LEMMA TokenAdvances ==
  ASSUME NEW x, NEW kind, NEW label, NEW nth, Sound(x)
  PROVE  Advances(x, IngestToken(x, kind, label, nth))
<1> DEFINE y == Turn(x, label)
           z == PushText(y, [nth |-> nth, blank |-> kind = "blank", label |-> label])
<1>1. Advances(x, y)
  BY TurnAdvances
<1>2. Sound(y)
  BY <1>1 DEF Advances
<1>3. Advances(y, z)
  BY <1>2, PushAdvances
<1>4. Sound(z)
  BY <1>3 DEF Advances
<1>5. Advances(y, Flush(y)) /\ Advances(z, Flush(z))
  BY <1>2, <1>4, FlushAdvances
<1> HIDE DEF y, z
<1>6. Advances(x, z)
  BY <1>1, <1>2, <1>3, AdvancesTransitive
<1>7. Advances(x, Flush(y)) /\ Advances(x, Flush(z))
  BY <1>1, <1>2, <1>4, <1>5, <1>6, AdvancesTransitive
<1>8. IngestToken(x, kind, label, nth) \in {Flush(y), y, Flush(z), z}
  BY DEF IngestToken, y, z
<1> QED BY <1>1, <1>6, <1>7, <1>8

-------------------------------------------------------------------------------
\* The ids a rebuild or a teardown uses: the open ones, then new ones, increasing.
LEMMA IdsForIncrease ==
  ASSUME AccInv, NEW n \in Nat
  PROVE  /\ Fresh(n) \in Nat
         /\ n <= Len(acc.open_ids) + Fresh(n)
         /\ IdsFor(n) \in Seq(Nat)
         /\ Len(IdsFor(n)) = Len(acc.open_ids) + Fresh(n)
         /\ Increasing(IdsFor(n))
         /\ Items(IdsFor(n)) \subseteq 1..next_id + Fresh(n) - 1
         /\ store.open \subseteq Items(IdsFor(n))
         /\ \A id \in Items(IdsFor(n)) : id \in store.open \/ next_id <= id
<1> DEFINE had == acc.open_ids
           m == Len(had)
           ids == IdsFor(n)
           len == m + Fresh(n)
<1>1. /\ had \in Seq(Nat) /\ m \in Nat /\ next_id \in Nat \ {0}
      /\ Increasing(had) /\ store.open = Items(had)
      /\ store.open \subseteq 1..next_id - 1
  BY DEF AccInv, Sound, Here
<1>2. Fresh(n) \in Nat /\ n <= m + Fresh(n) /\ len \in Nat
  <2> HIDE DEF had
  <2>1. Fresh(n) = IF n > m THEN n - m ELSE 0
    BY DEF Fresh, had
  <2> HIDE DEF m
  <2> QED BY <2>1, <1>1
<1>3. /\ ids = [i \in 1..len |-> ids[i]]
      /\ \A i \in 1..len : ids[i] = IF i <= m THEN had[i] ELSE next_id + (i - m - 1)
  BY DEF IdsFor
<1> HIDE DEF ids
<1>4. \A i \in 1..m : had[i] \in 1..next_id - 1 /\ had[i] \in store.open
  BY <1>1 DEF Items
<1>5. \A i, j \in 1..m : i < j => had[i] < had[j]
  BY <1>1 DEF Increasing
<1> HIDE DEF had, m
<1>6. \A i \in 1..len : /\ ids[i] \in 1..next_id + Fresh(n) - 1
                        /\ ids[i] \in store.open \/ next_id <= ids[i]
  BY <1>1, <1>2, <1>3, <1>4, SMTT(30)
<1>7. ASSUME NEW i \in 1..len, NEW j \in 1..len, i < j PROVE ids[i] < ids[j]
  <2>1. CASE j <= m
    BY <2>1, <1>1, <1>2, <1>3, <1>5, <1>7, SMTT(30)
  <2>2. CASE i <= m /\ m < j
    <3>1. i \in 1..m /\ ~(j <= m) /\ j \in Nat
      BY <2>2, <1>1, <1>2
    <3>2. ids[i] = had[i] /\ had[i] \in 1..next_id - 1
      BY <3>1, <1>3, <1>4
    <3>3. ids[j] = next_id + (j - m - 1)
      BY <3>1, <1>3
    <3> QED BY <3>1, <3>2, <3>3, <1>1
  <2>3. CASE m < i
    BY <2>3, <1>1, <1>2, <1>3, <1>7
  <2> QED BY <2>1, <2>2, <2>3, <1>1, <1>2, <1>7
<1>8. \A i \in 1..m : i \in 1..len /\ ids[i] = had[i]
  BY <1>1, <1>2, <1>3
<1> HIDE DEF len
<1>9. ids \in Seq(Nat) /\ Len(ids) = len
  <2>1. ids \in [1..len -> Nat]
    BY <1>1, <1>2, <1>3, <1>6
  <2> QED BY <2>1, <1>2, SeqDef
<1>10. Increasing(ids)
  BY <1>7, <1>9 DEF Increasing
<1>11. /\ Items(ids) \subseteq 1..next_id + Fresh(n) - 1
       /\ \A id \in Items(ids) : id \in store.open \/ next_id <= id
  BY <1>6, <1>9 DEF Items
<1>12. store.open \subseteq Items(ids)
  BY <1>1, <1>8, <1>9 DEF Items, m
<1> QED BY <1>2, <1>9, <1>10, <1>11, <1>12 DEF ids, m, had, len

\* What the consumer makes of a whole batch.
LEMMA ReceiveBatch ==
  ASSUME AccInv, NEW runs, Len(runs) \in Nat, NEW final \in BOOLEAN
  PROVE  LET ids == IdsFor(Len(runs))
             kept == {ids[i] : i \in {j \in DOMAIN ids : j <= Len(runs)}}
             rest == {ids[i] : i \in {j \in DOMAIN ids : j > Len(runs)}}
             s == Receive(store, Batch(runs, final))
         IN  /\ s.open = IF final THEN store.open \ (kept \cup rest)
                         ELSE (store.open \cup kept) \ rest
             /\ s.closed = IF final THEN store.closed \cup kept \cup rest
                           ELSE store.closed \cup rest
             /\ s.reopened = store.reopened \cup (store.closed \cap (kept \cup rest))
             /\ s = [open |-> s.open, closed |-> s.closed, reopened |-> s.reopened]
<1> DEFINE ids == IdsFor(Len(runs))
           us == Batch(runs, final)
           kept == {ids[i] : i \in {j \in DOMAIN ids : j <= Len(runs)}}
           rest == {ids[i] : i \in {j \in DOMAIN ids : j > Len(runs)}}
           marked(f) == {us[k].id : k \in {j \in DOMAIN us : us[j].final = f}}
<1>1. ids \in Seq(Nat) /\ DOMAIN ids = 1..Len(ids) /\ Len(ids) \in Nat
  BY IdsForIncrease, LenProperties
<1>2. /\ DOMAIN us = DOMAIN ids
      /\ \A i \in DOMAIN us : /\ us[i].id = ids[i]
                              /\ us[i].final = IF i <= Len(runs) THEN final ELSE TRUE
  BY <1>1, Zenon DEF Batch, Update, Retraction
<1> HIDE DEF ids, us
<1> DEFINE n == Len(runs)
<1>3. \A i \in DOMAIN us : i \in DOMAIN ids /\ i \in Nat
  BY <1>1, <1>2
<1> HIDE DEF n
<1>4. CASE final
  <2>1. marked(TRUE) = kept \cup rest
    <3>1. marked(TRUE) = {ids[k] : k \in DOMAIN ids}
      BY <1>2, <1>4
    <3>2. kept \cup rest = {ids[k] : k \in DOMAIN ids}
      BY <1>1
    <3> QED BY <3>1, <3>2
  <2>2. marked(FALSE) = {}
    BY <1>2, <1>4
  <2>3. Receive(store, us) = [open     |-> store.open \ (kept \cup rest),
                              closed   |-> store.closed \cup kept \cup rest,
                              reopened |-> store.reopened \cup (store.closed \cap (kept \cup rest))]
    BY <2>1, <2>2, Zenon DEF Receive
  <2> HIDE DEF kept, rest, marked
  <2> QED BY <2>3, <1>4 DEF us, kept, rest, ids
<1>5. CASE ~final
  <2>1. marked(TRUE) = rest
    <3>1. \A i \in DOMAIN us : us[i].final = TRUE <=> i > n
      <4>1. final = FALSE /\ n \in Nat
        BY <1>5 DEF n
      <4>2. \A i \in DOMAIN us : us[i].final = IF i <= n THEN FALSE ELSE TRUE
        BY <4>1, <1>2 DEF n
      <4>3. ASSUME NEW i \in DOMAIN us PROVE us[i].final = TRUE <=> i > n
        <5>1. CASE i <= n
          <6>1. ~(i > n)
            BY <5>1, <4>1, <1>3
          <6>2. us[i].final = FALSE
            BY <5>1, <4>2, Zenon
          <6> QED BY <6>1, <6>2, Zenon
        <5>2. CASE ~(i <= n)
          <6>1. i > n
            BY <5>2, <4>1, <1>3
          <6>2. us[i].final = TRUE
            BY <5>2, <4>2, Zenon
          <6> QED BY <6>1, <6>2, Zenon
        <5> QED BY <5>1, <5>2
      <4> QED BY <4>3
    <3> QED BY <3>1, <1>2 DEF n
  <2>2. marked(FALSE) = kept
    BY <1>1, <1>2, <1>3, <1>5
  <2>3. Receive(store, us) = [open     |-> (store.open \cup kept) \ rest,
                              closed   |-> store.closed \cup rest,
                              reopened |-> store.reopened \cup (store.closed \cap (kept \cup rest))]
    <3>1. Receive(store, us) =
            [open     |-> (store.open \cup marked(FALSE)) \ marked(TRUE),
             closed   |-> store.closed \cup marked(TRUE),
             reopened |-> store.reopened \cup
                            (store.closed \cap (marked(TRUE) \cup marked(FALSE)))]
      BY Zenon DEF Receive
    <3>2. rest \cup kept = kept \cup rest
      OBVIOUS
    <3> HIDE DEF kept, rest, marked
    <3> QED BY <3>1, <3>2, <2>1, <2>2, Zenon
  <2> HIDE DEF kept, rest, marked
  <2> QED BY <2>3, <1>5 DEF us, kept, rest, ids
<1> QED BY <1>4, <1>5 DEF us, kept, rest, ids

\* Rebuilding the open segments from any list of runs.
LEMMA PublishAdvances ==
  ASSUME AccInv, NEW runs, IsSequence(runs), PublishOpen(runs)
  PROVE  Advances(Here, Here')
<1> DEFINE n == Len(runs)
           ids == IdsFor(n)
           kept == {ids[i] : i \in {j \in DOMAIN ids : j <= n}}
           rest == {ids[i] : i \in {j \in DOMAIN ids : j > n}}
           first == SubSeq(ids, 1, n)
<1>1. n \in Nat
  BY LenProperties DEF IsSequence
<1>2. /\ Fresh(n) \in Nat /\ n <= Len(ids)
      /\ ids \in Seq(Nat) /\ Len(ids) \in Nat /\ DOMAIN ids = 1..Len(ids)
      /\ Increasing(ids) /\ Items(ids) \subseteq 1..next_id + Fresh(n) - 1
      /\ store.open \subseteq Items(ids)
      /\ \A id \in Items(ids) : id \in store.open \/ next_id <= id
  BY <1>1, IdsForIncrease, LenProperties
<1>3. /\ next_id \in Nat \ {0} /\ next_id' = next_id + Fresh(n)
      /\ store.reopened = {} /\ store.open \cap store.closed = {}
      /\ store.closed \subseteq 1..next_id - 1
  BY DEF AccInv, Sound, Here, PublishOpen
<1>4. /\ IsSequence(acc'.pending)
      /\ DOMAIN acc' = DOMAIN acc /\ acc'.open_runs = runs /\ acc'.open_ids = first
  BY DEF PublishOpen, AccInv, Sound, Here
<1> HIDE DEF ids
<1>5. /\ first \in Seq(Nat) /\ Len(first) = n
      /\ \A i \in 1..n : i \in 1..Len(ids) /\ first[i] = ids[i]
  <2>1. \A i \in 1..n : i \in 1..Len(ids) /\ ids[i] \in Nat
    BY <1>1, <1>2, ElementOfSeq
  <2> QED BY <2>1, <1>1, SubSeqProperties
<1> HIDE DEF first, n
<1>6. Increasing(first)
  BY <1>1, <1>2, <1>5 DEF Increasing
<1>7. kept = Items(first)
  BY <1>1, <1>2, <1>5, SMTT(30) DEF Items
<1>8. kept \cup rest = Items(ids)
  BY <1>1, <1>2 DEF Items
<1>9. kept \cap rest = {}
  <2>1. ASSUME NEW i \in 1..Len(ids), NEW j \in 1..Len(ids), i <= n, j > n
        PROVE ids[i] # ids[j]
    <3>1. i < j /\ ids[i] \in Nat /\ ids[j] \in Nat
      BY <1>1, <1>2, <2>1, ElementOfSeq
    <3> QED BY <3>1, <1>2 DEF Increasing
  <2> QED BY <2>1, <1>2
<1>10. store' = [open |-> (store.open \cup kept) \ rest, closed |-> store.closed \cup rest,
                 reopened |-> store.reopened \cup (store.closed \cap (kept \cup rest))]
  <2>1. store' = Receive(store, Batch(runs, FALSE))
    BY DEF PublishOpen
  <2> QED BY <2>1, <1>1, ReceiveBatch DEF n, ids
<1> HIDE DEF kept, rest
<1>11. Items(ids) \cap store.closed = {}
  <2>1. \A id \in store.closed : id < next_id
    BY <1>3
  <2> QED BY <2>1, <1>2, <1>3
<1>12. (store.open \cup kept) \ rest = Items(first)
  BY <1>2, <1>7, <1>8, <1>9
<1>13. store' = [open |-> Items(first), closed |-> store.closed \cup rest, reopened |-> {}]
  <2>1. store.reopened \cup (store.closed \cap (kept \cup rest)) = {}
    BY <1>3, <1>8, <1>11
  <2> QED BY <2>1, <1>10, <1>12
<1>14. Items(first) \cap (store.closed \cup rest) = {}
  BY <1>7, <1>8, <1>9, <1>11
<1>15. next_id' \in Nat \ {0} /\ next_id <= next_id'
  BY <1>2, <1>3
<1>16. Items(first) \subseteq 1..next_id' - 1 /\ store.closed \cup rest \subseteq 1..next_id' - 1
  <2>1. store.closed \subseteq 1..next_id' - 1
    BY <1>2, <1>3
  <2> QED BY <2>1, <1>2, <1>3, <1>7, <1>8
<1> DEFINE c == store.closed \cup rest
<1> HIDE DEF c
<1>17. /\ store' \in [open : SUBSET (1..next_id' - 1), closed : SUBSET (1..next_id' - 1),
                      reopened : {{}}]
       /\ store'.open = Items(first) /\ store'.closed = c
  BY <1>13, <1>16 DEF c
<1>18. Sound(Here')
  <2>1. Items(first) \cap c = {}
    BY <1>14 DEF c
  <2>2. Len(runs) = Len(first)
    BY <1>5 DEF n
  <2>3. DOMAIN acc' = {"pending", "pending_speaker", "open_runs", "open_ids"}
    BY <1>4 DEF AccInv, Sound, Here
  <2> QED BY <2>1, <2>2, <2>3, <1>4, <1>5, <1>6, <1>15, <1>17 DEF Sound, Here
<1>19. /\ store.closed \subseteq c
       /\ store.open \cup store.closed \subseteq Items(first) \cup c
       /\ \A id \in Items(first) \cup c : id \in store.open \cup store.closed \/ next_id <= id
  BY <1>2, <1>7, <1>8 DEF c
<1> QED BY <1>15, <1>17, <1>18, <1>19 DEF Advances, Here

\* Finalizing everything that is open.
LEMMA FinishAdvances == ASSUME AccInv, FinishAndReset PROVE Advances(Here, Here')
<1> DEFINE n == Len(acc.open_runs)
           ids == IdsFor(n)
           kept == {ids[i] : i \in {j \in DOMAIN ids : j <= n}}
           rest == {ids[i] : i \in {j \in DOMAIN ids : j > n}}
<1>1. n \in Nat /\ n = Len(acc.open_ids) /\ acc.open_ids \in Seq(Nat)
  BY LenProperties DEF AccInv, Sound, Here
<1>2. Fresh(n) = 0
  BY <1>1 DEF Fresh
<1>3. /\ ids \in Seq(Nat) /\ DOMAIN ids = 1..Len(ids) /\ Len(ids) \in Nat
      /\ store.open \subseteq Items(ids)
      /\ Items(ids) \subseteq 1..next_id - 1
      /\ \A id \in Items(ids) : id \in store.open \/ next_id <= id
  <2>1. next_id \in Nat /\ next_id + 0 - 1 = next_id - 1
    BY DEF AccInv, Sound, Here
  <2>2. ids \in Seq(Nat) /\ DOMAIN ids = 1..Len(ids) /\ Len(ids) \in Nat
    BY <1>1, IdsForIncrease, LenProperties
  <2>3. /\ store.open \subseteq Items(ids)
        /\ Items(ids) \subseteq 1..next_id + Fresh(n) - 1
        /\ \A id \in Items(ids) : id \in store.open \/ next_id <= id
    BY <1>1, IdsForIncrease
  <2> QED BY <2>1, <2>2, <2>3, <1>2
<1>4. /\ next_id \in Nat \ {0} /\ next_id' = next_id
      /\ store.reopened = {} /\ store.open \cap store.closed = {}
      /\ store.closed \subseteq 1..next_id - 1 /\ store.open \subseteq 1..next_id - 1
  BY <1>2 DEF AccInv, Sound, Here, FinishAndReset
<1> HIDE DEF ids, n
<1>5. kept \cup rest = Items(ids)
  BY <1>1, <1>3, SMTT(30) DEF Items
<1>6. Items(ids) = store.open
  <2>1. \A id \in Items(ids) : ~(next_id <= id)
    BY <1>3, <1>4
  <2> QED BY <2>1, <1>3
<1>7. store' = [open |-> store.open \ (kept \cup rest),
                closed |-> store.closed \cup kept \cup rest,
                reopened |-> store.reopened \cup (store.closed \cap (kept \cup rest))]
  <2>1. store' = Receive(store, Batch(acc.open_runs, TRUE))
    BY DEF FinishAndReset
  <2> QED BY <2>1, <1>1, ReceiveBatch, ZenonT(40) DEF n, ids
<1>8. store' = [open |-> {}, closed |-> store.closed \cup store.open, reopened |-> {}]
  <2>1. /\ store.open \ (kept \cup rest) = {}
        /\ store.closed \cup kept \cup rest = store.closed \cup store.open
        /\ store.reopened \cup (store.closed \cap (kept \cup rest)) = {}
    BY <1>4, <1>5, <1>6
  <2> HIDE DEF kept, rest
  <2> QED BY <2>1, <1>7
<1>9. acc' = New /\ <<>> \in Seq(Nat) /\ IsSequence(<<>>) /\ Increasing(<<>>) /\ Items(<<>>) = {}
  <2>1. IsSequence(<<>>)
    BY EmptySeq DEF IsSequence
  <2> QED BY <2>1 DEF FinishAndReset, Increasing, Items
<1> DEFINE c == store.closed \cup store.open
<1> HIDE DEF c
<1>10. c \subseteq 1..next_id - 1
  BY <1>4 DEF c
<1>11. /\ store' \in [open : SUBSET (1..next_id - 1), closed : SUBSET (1..next_id - 1),
                      reopened : {{}}]
       /\ store'.open = {} /\ store'.closed = c
  BY <1>8, <1>10 DEF c
<1>12. Sound(Here')
  BY <1>4, <1>9, <1>11 DEF Sound, Here, New
<1> QED BY <1>4, <1>11, <1>12 DEF Advances, Here, c

-------------------------------------------------------------------------------
LEMMA AccInvInit == AccInit => AccInv
<1> SUFFICES ASSUME AccInit PROVE AccInv
  OBVIOUS
<1>1. IsSequence(<<>>) /\ Items(<<>>) = {} /\ Increasing(<<>>)
  BY EmptySeq DEF IsSequence, Items, Increasing
<1>2. /\ Here.acc = New /\ Here.next_id = 1
      /\ Here.store = [open |-> {}, closed |-> {}, reopened |-> {}]
      /\ DOMAIN Here = {"acc", "next_id", "store", "said"}
  BY DEF AccInit, Here
<1>3. /\ DOMAIN New = {"pending", "pending_speaker", "open_runs", "open_ids"}
      /\ New.open_ids = <<>> /\ New.open_runs = <<>> /\ New.pending = <<>>
      /\ <<>> \in Seq(Nat)
  BY DEF New
<1>4. /\ Here.store \in [open : SUBSET (1..Here.next_id - 1),
                         closed : SUBSET (1..Here.next_id - 1), reopened : {{}}]
      /\ Here.store.open = {} /\ Here.store.open \cap Here.store.closed = {}
  BY <1>2
<1> HIDE DEF Here
<1> QED BY <1>1, <1>2, <1>3, <1>4 DEF AccInv, Sound

\* Every step is one the whole of accumulator, id source and consumer may take.
LEMMA StepAdvances == ASSUME AccInv, [AccNext]_accVars PROVE Advances(Here, Here')
<1>1. CASE ReceiveResponse
  <2>1. Here' = Here
    BY <1>1 DEF ReceiveResponse, Here
  <2> QED BY <2>1, AdvancesReflexive DEF AccInv
<1>2. ASSUME NEW kind, NEW label, IngestDurable(kind, label)
      PROVE  Advances(Here, Here')
  <2> DEFINE nth == IF kind \in {"word", "stop"} THEN spoken + 1 ELSE 0
             y == IngestToken(Here, kind, label, nth)
  <2>1. Advances(Here, y)
    BY TokenAdvances DEF AccInv
  <2>2. acc' = y.acc /\ next_id' = y.next_id /\ store' = y.store /\ said' = y.said
    BY <1>2 DEF IngestDurable, Become
  <2> HIDE DEF y
  <2>3. Here'.acc = y.acc /\ Here'.next_id = y.next_id /\ Here'.store = y.store
        /\ DOMAIN Here' = DOMAIN y
    BY <2>1, <2>2 DEF Here, Advances, Sound
  <2> QED BY <2>1, <2>3 DEF Advances, Sound
<1>3. ASSUME NEW tail \in Tails, RebuildOpen(tail)
      PROVE  Advances(Here, Here')
  <2>1. IsSequence(BuildOpenRuns(tail))
    <3> DEFINE text == acc.pending \o tail
               p == Len(acc.pending)
               speaker == [i \in 1..Len(text) |->
                             IF i <= p THEN acc.pending_speaker ELSE Inherited(tail, i - p)]
               group(i) == {j \in i..Len(text) : \A k \in i..j : speaker[k] = speaker[i]}
               starts == {i \in 1..Len(text) : /\ i = 1 \/ speaker[i - 1] # speaker[i]
                                              /\ \E j \in group(i) : ~text[j].blank}
               runs == BuildOpenRuns(tail)
    <3>1. IsSequence(text)
      <4>1. PICK n \in 0..MaxTail : tail \in [1..n -> TailPiece]
        BY <1>3 DEF Tails
      <4>2. tail = [k \in 1..n |-> tail[k]] /\ n \in Nat
        BY <4>1, AccumulatorAssumption
      <4>3. IsSequence(tail)
        BY <4>2, FunctionIsSequence
      <4> QED BY <4>3, ConcatIsSequence DEF AccInv, Sound, Here
    <3>2. IsFiniteSet(1..Len(text))
      <4>1. Len(text) \in Nat
        BY <3>1, LenProperties DEF IsSequence
      <4> QED BY <4>1, FS_Interval
    <3>3. Cardinality(starts) \in Nat
      <4>1. IsFiniteSet(starts)
        BY <3>2, FS_Subset
      <4> QED BY <4>1, FS_CardinalityType
    <3>4. runs = [k \in 1..Cardinality(starts) |-> runs[k]]
      BY DEF BuildOpenRuns
    <3> HIDE DEF runs, starts
    <3>5. IsSequence(runs)
      BY <3>3, <3>4, FunctionIsSequence
    <3> QED BY <3>5 DEF runs
  <2> QED BY <1>3, <2>1, PublishAdvances DEF RebuildOpen
<1>4. CASE FinishAndReset
  BY <1>4, FinishAdvances
<1>5. CASE UNCHANGED accVars
  <2>1. Here' = Here
    BY <1>5 DEF accVars, Here
  <2> QED BY <2>1, AdvancesReflexive DEF AccInv
<1> QED BY <1>1, <1>2, <1>3, <1>4, <1>5 DEF AccNext

LEMMA AlwaysAccInv == AccSpec => []AccInv
<1>1. AccInv /\ [AccNext]_accVars => AccInv'
  <2> SUFFICES ASSUME AccInv, [AccNext]_accVars PROVE AccInv'
    OBVIOUS
  <2>1. Sound(Here')
    BY StepAdvances DEF Advances
  <2> QED BY <2>1 DEF AccInv, Here
<1> QED BY AccInvInit, <1>1, PTL DEF AccSpec

\* flush never finds an open id without its run: the two vectors stay aligned
\* (accumulator.rs:225-228).
THEOREM AlwaysAligned == AccSpec => []Aligned
<1>1. AccInv => Aligned
  BY DEF AccInv, Sound, Here, Aligned
<1> QED BY <1>1, AlwaysAccInv, PTL

\* The ids of the open segments grow from front to back.
THEOREM AlwaysOpenInOrder == AccSpec => []OpenInOrder
<1>1. AccInv => OpenInOrder
  BY LenProperties DEF AccInv, Sound, Here, OpenInOrder, Increasing
<1> QED BY <1>1, AlwaysAccInv, PTL

\* The segments the consumer shows as open are exactly the accumulator's, so none is
\* stranded on screen.
THEOREM AlwaysNoneStranded == AccSpec => []NoneStranded
<1>1. AccInv => NoneStranded
  BY LenProperties DEF AccInv, Sound, Here, NoneStranded, Items
<1> QED BY <1>1, AlwaysAccInv, PTL

\* The accumulator implements the transcript contract of asr/mod.rs:38-56.
THEOREM ImplementsContract == AccSpec => KeepsContract
<1>1. AccInit => Contract!Init
  BY DEF AccInit, Contract!Init, Contract!EmptyStore
<1>2. AccInv /\ [AccNext]_accVars => [Contract!Deliver]_store
  <2> SUFFICES ASSUME AccInv, [AccNext]_accVars PROVE Contract!Deliver
    OBVIOUS
  <2>1. Advances(Here, Here')
    BY StepAdvances
  <2>2. /\ Sound(Here) /\ Sound(Here')
        /\ Here.store = store /\ Here'.store = store'
        /\ Here.next_id = next_id /\ Here'.next_id = next_id'
    BY <2>1 DEF Advances, AccInv, Here
  <2>3. /\ store' \in [open : SUBSET (1..next_id' - 1), closed : SUBSET (1..next_id' - 1),
                       reopened : {{}}]
        /\ store'.open \cap store'.closed = {}
        /\ next_id \in Nat \ {0} /\ next_id' \in Nat \ {0}
        /\ \A id \in store.open \cup store.closed : id \in 1..next_id - 1
    BY <2>2 DEF Sound
  <2>4. /\ store.closed \subseteq store'.closed
        /\ store.open \cup store.closed \subseteq store'.open \cup store'.closed
        /\ \A id \in store'.open \cup store'.closed :
             id \in store.open \cup store.closed \/ next_id <= id
    BY <2>1, <2>2 DEF Advances
  <2>5. store' \in Contract!Store
    BY <2>3 DEF Contract!Store, Contract!SegmentId
  <2>6. ASSUME NEW fresh \in Contract!Seen(store') \ Contract!Seen(store),
               NEW old \in Contract!Seen(store)
        PROVE  old < fresh
    <3>1. next_id <= fresh /\ old \in 1..next_id - 1
      BY <2>3, <2>4, <2>6 DEF Contract!Seen
    <3>2. fresh \in 1..next_id' - 1
      BY <2>3, <2>6 DEF Contract!Seen
    <3> QED BY <3>1, <3>2, <2>3
  <2> QED BY <2>3, <2>4, <2>5, <2>6 DEF Contract!Deliver, Contract!Seen
<1> QED BY <1>1, <1>2, AlwaysAccInv, PTL DEF AccSpec, KeepsContract, Contract!Spec

-------------------------------------------------------------------------------
(***************************************************************************)
(* Durable speech.                                                         *)
(***************************************************************************)
Texts == Seq(TextPiece)
Silent(text) == \A i \in 1..Len(text) : text[i].nth = 0
Pending(x) == [speaker |-> x.acc.pending_speaker, text |-> x.acc.pending]

\* What the methods keep of the durable speech, n tokens of it ingested so far.
Spoken(x, n) ==
  /\ x.acc \in [pending : Texts, pending_speaker : Label, open_runs : Seq(Run),
                open_ids : Seq(Nat)]
  /\ x.said \in Seq(Credit)
  /\ \A i \in 1..Len(x.acc.pending) : x.acc.pending[i].blank => x.acc.pending[i].nth = 0
  /\ \A i \in 1..Len(x.acc.pending) :
       ~x.acc.pending[i].blank => x.acc.pending[i].label \in {NoSpeaker, x.acc.pending_speaker}
  /\ \A i \in 1..Len(x.said) : x.said[i].own
  /\ NthOf(x.said) \o NthOf(DurableOf(x.acc.pending)) = [i \in 1..n |-> i]

\* Between responses the pending speech is the first open segment's and no other's.
Screened ==
  IF Blank(acc.pending)
  THEN \A i \in 1..Len(acc.open_runs) : Heard(acc.open_runs[i]) = <<>>
  ELSE /\ acc.open_runs # <<>>
       /\ IsPrefix(acc.pending, acc.open_runs[1].text)
       /\ Heard(acc.open_runs[1]) = Heard(Pending(Here))
       /\ \A i \in 2..Len(acc.open_runs) : Heard(acc.open_runs[i]) = <<>>

TextInv ==
  /\ AccInv /\ Spoken(Here, spoken) /\ (phase = "idle" => Screened)
  /\ phase \in {"idle", "durable"} /\ spoken \in Nat
  /\ responses \in 0..MaxResponses /\ todo \in 0..MaxDurable

\* What a text is made of.
LEMMA TextParts ==
  ASSUME NEW s \in Texts
  PROVE  /\ Len(s) \in Nat /\ DOMAIN s = 1..Len(s)
         /\ \A i \in 1..Len(s) : s[i] \in TextPiece /\ s[i].nth \in Nat
         /\ Words(s) \in SUBSET (1..Len(s))
         /\ Words(s) = {i \in 1..Len(s) : s[i].nth > 0}
<1>1. Len(s) \in Nat /\ DOMAIN s = 1..Len(s) /\ \A i \in 1..Len(s) : s[i] \in TextPiece
  BY LenProperties, ElementOfSeq DEF Texts
<1>2. Words(s) = {i \in 1..Len(s) : s[i].nth > 0}
  BY <1>1 DEF Words
<1>3. \A i \in 1..Len(s) : s[i].nth \in Nat
  BY <1>1 DEF TextPiece
<1> QED BY <1>1, <1>2, <1>3

\* The durable speech of a text: its pieces, in order.
LEMMA DurableList ==
  ASSUME NEW s \in Texts
  PROVE  /\ DurableOf(s) \in Texts
         /\ \A k \in 1..Len(DurableOf(s)) : \E i \in Words(s) : DurableOf(s)[k] = s[i]
<1>1. Words(s) \in SUBSET (1..Len(s))
  BY TextParts
<1> DEFINE w == Words(s)
<1> HIDE DEF w
<1>2. /\ At(s, w) \in Texts /\ Len(At(s, w)) = Cardinality(w)
      /\ At(s, w) = [k \in 1..Cardinality(w) |-> s[Ascending(w)[k]]]
      /\ \A k \in 1..Cardinality(w) : Ascending(w)[k] \in w
  BY <1>1, AtList DEF Texts, w
<1>3. DurableOf(s) = At(s, w)
  BY DEF DurableOf, w
<1> QED BY <1>2, <1>3 DEF w

\* The durable words of two texts, one after the other.
LEMMA DurableConcat ==
  ASSUME NEW s \in Texts, NEW t \in Texts
  PROVE  s \o t \in Texts /\ DurableOf(s \o t) = DurableOf(s) \o DurableOf(t)
<1> DEFINE u == s \o t
           m == Len(s)
<1>1. /\ m \in Nat /\ Len(t) \in Nat /\ u \in Texts /\ Len(u) = m + Len(t)
      /\ \A i \in 1..m + Len(t) : u[i] = IF i <= m THEN s[i] ELSE t[i - m]
  BY TextParts, ConcatProperties DEF Texts
<1> HIDE DEF u, m
<1>2. /\ Words(u) = {i \in 1..m + Len(t) : u[i].nth > 0}
      /\ Words(s) = {i \in 1..m : s[i].nth > 0}
      /\ Words(t) = {i \in 1..Len(t) : t[i].nth > 0}
  BY <1>1, TextParts DEF m
<1>3. ASSUME NEW i \in Words(u) PROVE i \in Words(s) \/ \E j \in Words(t) : i = m + j
  <2>1. i \in 1..m + Len(t) /\ u[i].nth > 0
    BY <1>2
  <2>2. CASE i <= m
    <3>1. i \in 1..m /\ u[i] = s[i]
      BY <2>1, <2>2, <1>1
    <3> QED BY <3>1, <2>1, <1>2
  <2>3. CASE ~(i <= m)
    <3>1. i - m \in 1..Len(t) /\ u[i] = t[i - m] /\ i = m + (i - m)
      BY <2>1, <2>3, <1>1
    <3>2. i - m \in Words(t)
      BY <3>1, <2>1, <1>2
    <3> QED BY <3>1, <3>2
  <2> QED BY <2>2, <2>3
<1>4. ASSUME NEW i \in Words(s) PROVE i \in Words(u)
  <2>1. i \in 1..m /\ i \in 1..m + Len(t) /\ s[i].nth > 0
    BY <1>1, <1>2
  <2> QED BY <2>1, <1>1, <1>2
<1>5. ASSUME NEW j \in Words(t) PROVE m + j \in Words(u)
  <2>1. j \in 1..Len(t) /\ t[j].nth > 0 /\ m + j \in 1..m + Len(t) /\ ~(m + j <= m)
        /\ (m + j) - m = j
    BY <1>1, <1>2
  <2>2. u[m + j] = t[j]
    BY <2>1, <1>1
  <2> QED BY <2>1, <2>2, <1>2
<1>6. \A i : i \in Words(u) <=> (i \in Words(s) \/ \E j \in Words(t) : i = Len(s) + j)
  BY <1>3, <1>4, <1>5 DEF m
<1>7. At(s \o t, Words(u)) = At(s, Words(s)) \o At(t, Words(t))
  <2> DEFINE I == Words(s)
             J == Words(t)
             K == Words(u)
  <2>1. /\ I \in SUBSET (1..Len(s)) /\ J \in SUBSET (1..Len(t))
        /\ s \in Seq(TextPiece) /\ t \in Seq(TextPiece)
    BY TextParts DEF Texts
  <2>2. \A i : i \in K <=> (i \in I \/ \E j \in J : i = Len(s) + j)
    BY <1>6
  <2> HIDE DEF I, J, K
  <2>3. At(s \o t, K) = At(s, I) \o At(t, J)
    BY ONLY <2>1, <2>2, AtConcat, SMTT(30)
  <2> QED BY <2>3 DEF I, J, K
<1>8. DurableOf(u) = At(s \o t, Words(u))
  BY DEF DurableOf, u
<1>9. DurableOf(s) = At(s, Words(s)) /\ DurableOf(t) = At(t, Words(t))
  BY DEF DurableOf
<1> QED BY <1>1, <1>7, <1>8, <1>9 DEF u

\* A text without durable words.
LEMMA DurableSilent == ASSUME NEW s \in Texts, Silent(s) PROVE DurableOf(s) = <<>>
<1>1. Words(s) = {}
  BY TextParts DEF Silent
<1> QED BY <1>1, AtNothing DEF DurableOf, Texts

\* A text that is one durable word.
LEMMA DurableWord ==
  ASSUME NEW p \in TextPiece, p.nth > 0
  PROVE  DurableOf(<<p>>) = <<p>>
<1> DEFINE s == <<p>>
<1>1. s \in Texts /\ Len(s) = 1 /\ s[1] = p
  BY DEF Texts
<1> HIDE DEF s
<1>2. Words(s) = {1}
  BY <1>1, TextParts
<1>3. Cardinality({1}) = 1
  BY FS_Singleton
<1>4. /\ DurableOf(s) \in Texts /\ Len(DurableOf(s)) = 1
      /\ \A k \in 1..1 : \E i \in {1} : DurableOf(s)[k] = s[i]
  <2>1. Len(At(s, {1})) = 1
    BY <1>1, <1>3, AtList DEF Texts
  <2> QED BY <2>1, <1>1, <1>2, DurableList DEF DurableOf
<1>5. DurableOf(s)[1] = s[1]
  BY <1>4
<1>6. DurableOf(s) = s
  BY <1>1, <1>4, <1>5, SeqEqual DEF Texts
<1> QED BY <1>6 DEF s

\* A text and one that goes on in silence hold the same speech.
LEMMA DurableOfPrefix ==
  ASSUME NEW s \in Texts, NEW t \in Texts, Len(s) <= Len(t),
         \A i \in 1..Len(s) : t[i] = s[i],
         \A i \in Len(s) + 1..Len(t) : t[i].nth = 0
  PROVE  DurableOf(t) = DurableOf(s)
<1> DEFINE m == Len(s)
           r == SubSeq(t, m + 1, Len(t))
<1>1. m \in Nat /\ Len(t) \in Nat /\ \A i \in 1..Len(t) : t[i] \in TextPiece
  BY TextParts
<1>2. SubSeq(t, 1, m) = s
  <2>1. /\ SubSeq(t, 1, m) \in Texts /\ Len(SubSeq(t, 1, m)) = m
        /\ \A i \in 1..m : SubSeq(t, 1, m)[i] = t[i]
    BY <1>1, SubSeqProperties DEF Texts
  <2> HIDE DEF m
  <2> QED BY <2>1, SeqEqual DEF Texts, m
<1>3. /\ r \in Texts /\ Len(r) = Len(t) - m
      /\ \A i \in 1..Len(r) : r[i] = t[m + i]
  BY <1>1, SubSeqProperties, SMTT(30) DEF Texts
<1>4. t = s \o r
  <2>1. SubSeq(t, 1, m) \o SubSeq(t, m + 1, Len(t)) = SubSeq(t, 1, Len(t))
    <3>1. 1 \in 1..Len(t) + 1 /\ m \in 1 - 1..Len(t) /\ Len(t) \in m..Len(t) /\ t \in Seq(TextPiece)
      BY <1>1 DEF Texts
    <3> HIDE DEF m
    <3> QED BY <3>1, ConcatAdjacentSubSeq
  <2>2. SubSeq(t, 1, Len(t)) = t
    BY SubSeqFull DEF Texts
  <2> QED BY <2>1, <2>2, <1>2
<1> HIDE DEF r, m
<1>5. Silent(r)
  <2>1. ASSUME NEW i \in 1..Len(r) PROVE r[i].nth = 0
    <3>1. m + i \in Len(s) + 1..Len(t)
      BY <1>1, <1>3 DEF m
    <3> QED BY <3>1, <1>3
  <2> QED BY <2>1 DEF Silent
<1>6. DurableOf(t) = DurableOf(s) \o <<>>
  <2>1. DurableOf(r) = <<>>
    BY <1>3, <1>5, DurableSilent
  <2>2. DurableOf(s \o r) = DurableOf(s) \o DurableOf(r)
    BY <1>3, DurableConcat
  <2> QED BY <2>1, <2>2, <1>4
<1>7. DurableOf(s) \in Texts
  BY DurableList
<1> QED BY <1>6, <1>7, ConcatEmptySeq DEF Texts

-------------------------------------------------------------------------------
NthList(s) == /\ NthOf(s) \in Seq(Nat) /\ Len(NthOf(s)) = Len(s)
              /\ \A i \in 1..Len(s) : NthOf(s)[i] = s[i].nth

\* The numbers of a list of pieces or of credits.
LEMMA NthIs ==
  ASSUME NEW A, NEW s \in Seq(A), \A a \in A : a.nth \in Nat
  PROVE  NthList(s)
<1>1. Len(s) \in Nat /\ \A i \in 1..Len(s) : s[i].nth \in Nat
  BY LenProperties, ElementOfSeq
<1>2. NthOf(s) = [i \in 1..Len(s) |-> s[i].nth]
  BY DEF NthOf
<1>3. NthOf(s) \in [1..Len(s) -> Nat]
  BY <1>1, <1>2
<1>4. NthOf(s) \in Seq(Nat)
  BY <1>1, <1>3, SeqDef
<1> QED BY <1>1, <1>2, <1>3, <1>4, LenProperties DEF NthList

\* The numbers of the words of two texts, one after the other.
LEMMA NthConcat ==
  ASSUME NEW A, NEW s \in Seq(A), NEW t \in Seq(A), \A a \in A : a.nth \in Nat
  PROVE  NthOf(s \o t) = NthOf(s) \o NthOf(t)
<1> DEFINE u == s \o t
           v == NthOf(s) \o NthOf(t)
<1>1. /\ u \in Seq(A) /\ Len(u) = Len(s) + Len(t) /\ Len(s) \in Nat /\ Len(t) \in Nat
      /\ \A i \in 1..Len(s) + Len(t) : u[i] = IF i <= Len(s) THEN s[i] ELSE t[i - Len(s)]
  BY ConcatProperties, LenProperties
<1> HIDE DEF u
<1>2. NthList(u) /\ NthList(s) /\ NthList(t)
  BY <1>1, NthIs
<1> DEFINE ns == NthOf(s)
           nt == NthOf(t)
<1>3. /\ ns \in Seq(Nat) /\ Len(ns) = Len(s) /\ nt \in Seq(Nat) /\ Len(nt) = Len(t)
      /\ (\A i \in 1..Len(s) : ns[i] = s[i].nth) /\ (\A i \in 1..Len(t) : nt[i] = t[i].nth)
  BY <1>2 DEF NthList
<1> HIDE DEF ns, nt
<1>4. /\ ns \o nt \in Seq(Nat) /\ Len(ns \o nt) = Len(s) + Len(t)
      /\ \A i \in 1..Len(s) + Len(t) : (ns \o nt)[i] = IF i <= Len(s) THEN ns[i] ELSE nt[i - Len(s)]
  BY <1>3, ConcatProperties
<1>5. ASSUME NEW i \in 1..Len(s) + Len(t) PROVE NthOf(u)[i] = (ns \o nt)[i]
  <2>1. NthOf(u)[i] = u[i].nth
    BY <1>1, <1>2 DEF NthList
  <2>2. CASE i <= Len(s)
    <3>1. i \in 1..Len(s)
      BY <2>2, <1>1
    <3> QED BY <3>1, <2>1, <2>2, <1>1, <1>3, <1>4
  <2>3. CASE ~(i <= Len(s))
    <3>1. i - Len(s) \in 1..Len(t)
      BY <2>3, <1>1
    <3> QED BY <3>1, <2>1, <2>3, <1>1, <1>3, <1>4
  <2> QED BY <2>2, <2>3
<1>6. NthOf(u) = ns \o nt
  BY <1>1, <1>2, <1>4, <1>5, SeqEqual DEF NthList
<1> QED BY <1>6 DEF u, ns, nt

\* A segment is credited with the durable speech of its text.
LEMMA HeardList ==
  ASSUME NEW speaker \in Label, NEW text \in Texts
  PROVE  LET run == [speaker |-> speaker, text |-> text]
         IN  /\ Heard(run) \in Seq(Credit)
             /\ NthOf(Heard(run)) = NthOf(DurableOf(text))
             /\ \A k \in 1..Len(Heard(run)) :
                  \E i \in 1..Len(text) :
                    /\ text[i].nth > 0
                    /\ Heard(run)[k].own <=> text[i].label \in {NoSpeaker, speaker}
<1> DEFINE run == [speaker |-> speaker, text |-> text]
           d == DurableOf(text)
           h == Heard(run)
<1>1. /\ d \in Texts /\ Len(d) \in Nat
      /\ \A k \in 1..Len(d) : d[k] \in TextPiece /\ d[k].nth \in Nat
      /\ \A k \in 1..Len(d) : \E i \in Words(text) : d[k] = text[i]
  BY DurableList, TextParts
<1>2. h = [k \in 1..Len(d) |->
             [nth |-> d[k].nth, own |-> d[k].label \in {NoSpeaker, speaker}]]
  BY DEF Heard
<1> HIDE DEF d, h
<1>3. \A k \in 1..Len(d) :
        /\ h[k] \in Credit /\ h[k].nth = d[k].nth
        /\ h[k].own <=> d[k].label \in {NoSpeaker, speaker}
  <2>1. ASSUME NEW k \in 1..Len(d)
        PROVE  /\ h[k] \in Credit /\ h[k].nth = d[k].nth
               /\ h[k].own <=> d[k].label \in {NoSpeaker, speaker}
    <3>1. h[k] = [nth |-> d[k].nth, own |-> d[k].label \in {NoSpeaker, speaker}]
      BY <1>2
    <3>2. d[k].nth \in Nat
      BY <1>1
    <3> DEFINE o == d[k].label \in {NoSpeaker, speaker}
    <3>3. o \in BOOLEAN /\ h[k] = [nth |-> d[k].nth, own |-> o]
      BY <3>1
    <3>4. o <=> d[k].label \in {NoSpeaker, speaker}
      OBVIOUS
    <3> HIDE DEF o
    <3>5. h[k] \in Credit
      BY <3>2, <3>3 DEF Credit
    <3> QED BY <3>3, <3>4, <3>5
  <2> QED BY <2>1
<1>4. h \in [1..Len(d) -> Credit]
  BY <1>2, <1>3
<1>5. h \in Seq(Credit) /\ Len(h) = Len(d)
  <2>1. h \in Seq(Credit)
    BY <1>1, <1>4, SeqDef
  <2> QED BY <2>1, <1>1, <1>4, LenProperties
<1>6. NthOf(h) = NthOf(d)
  BY <1>3, <1>5 DEF NthOf
<1>7. ASSUME NEW k \in 1..Len(h)
      PROVE  \E i \in 1..Len(text) :
               /\ text[i].nth > 0
               /\ h[k].own <=> text[i].label \in {NoSpeaker, speaker}
  <2>1. PICK i \in Words(text) : d[k] = text[i]
    BY <1>1, <1>5
  <2>2. i \in 1..Len(text) /\ text[i].nth > 0
    BY TextParts
  <2> QED BY <2>1, <2>2, <1>3, <1>5
<1> QED BY <1>5, <1>6, <1>7 DEF h, d

\* The text without pieces.
LEMMA NoWords ==
  /\ <<>> \in Texts /\ DurableOf(<<>>) = <<>> /\ NthOf(<<>>) = <<>>
<1>1. <<>> \in Texts /\ Len(<<>>) = 0
  BY EmptySeq DEF Texts
<1>2. Silent(<<>>)
  BY <1>1 DEF Silent
<1>3. NthOf(<<>>) \in Seq(Nat) /\ Len(NthOf(<<>>)) = 0
  <2>1. <<>> \in Seq([nth : Nat]) /\ \A a \in [nth : Nat] : a.nth \in Nat
    BY EmptySeq
  <2>2. NthList(<<>>)
    BY <2>1, NthIs
  <2> QED BY <2>2, <1>1 DEF NthList
<1>4. NthOf(<<>>) = <<>>
  BY <1>3, EmptySeq
<1> QED BY <1>1, <1>2, <1>4, DurableSilent

\* flush moves the pending speech to the delivered speech, if there is any.
LEMMA FlushSpoken ==
  ASSUME NEW x, NEW n \in Nat, Sound(x), Spoken(x, n)
  PROVE  Spoken(Flush(x), n) /\ Flush(x).acc.pending = <<>>
         /\ Flush(x).acc.pending_speaker = x.acc.pending_speaker
<1> DEFINE y == Flush(x)
           cleared == [x.acc EXCEPT !.pending = <<>>]
           run == Pending(x)
           p == x.acc.pending
<1>1. /\ x.acc \in [pending : Texts, pending_speaker : Label, open_runs : Seq(Run),
                    open_ids : Seq(Nat)]
      /\ p \in Texts /\ x.acc.pending_speaker \in Label
      /\ x.said \in Seq(Credit)
      /\ \A i \in 1..Len(p) : p[i].blank => p[i].nth = 0
      /\ \A i \in 1..Len(p) : ~p[i].blank => p[i].label \in {NoSpeaker, x.acc.pending_speaker}
      /\ \A i \in 1..Len(x.said) : x.said[i].own
      /\ NthOf(x.said) \o NthOf(DurableOf(p)) = [i \in 1..n |-> i]
  BY DEF Spoken
<1>2. /\ cleared \in [pending : Texts, pending_speaker : Label, open_runs : Seq(Run),
                      open_ids : Seq(Nat)]
      /\ cleared.pending = <<>> /\ cleared.pending_speaker = x.acc.pending_speaker
      /\ cleared.open_runs = x.acc.open_runs /\ cleared.open_ids = x.acc.open_ids
  BY <1>1, NoWords
<1>3. Len(<<>>) = 0
  OBVIOUS
<1>4. CASE Blank(p)
  <2>1. y = [x EXCEPT !.acc = cleared]
    BY <1>4 DEF Flush
  <2>2. y.acc = cleared /\ y.said = x.said
    BY <2>1 DEF Sound
  <2>3. Silent(p)
    BY <1>1, <1>4, TextParts DEF Silent, Blank
  <2>4. DurableOf(p) = <<>>
    BY <1>1, <2>3, DurableSilent
  <2> HIDE DEF y, cleared, p
  <2>5. NthOf(y.said) \o NthOf(DurableOf(y.acc.pending)) = [i \in 1..n |-> i]
    BY <1>1, <1>2, <2>2, <2>4, NoWords
  <2>6. /\ Len(y.acc.pending) = 0 /\ y.said \in Seq(Credit) /\ \A i \in 1..Len(y.said) : y.said[i].own
        /\ y.acc \in [pending : Texts, pending_speaker : Label, open_runs : Seq(Run),
                      open_ids : Seq(Nat)]
    BY <1>1, <1>2, <1>3, <2>2
  <2>7. Spoken(y, n)
    BY ONLY <2>5, <2>6 DEF Spoken
  <2> QED BY <2>2, <2>7, <1>2 DEF y
<1>5. CASE ~Blank(p)
  <2> DEFINE h == Heard(run)
             d == DurableOf(p)
  <2>1. /\ y.acc = IF x.acc.open_ids # <<>> THEN DropFirst(cleared) ELSE cleared
        /\ y.said = x.said \o h
    BY <1>5 DEF Flush, Pending
  <2>2. /\ h \in Seq(Credit) /\ NthOf(h) = NthOf(d)
        /\ \A k \in 1..Len(h) : \E i \in 1..Len(p) :
             /\ p[i].nth > 0
             /\ h[k].own <=> p[i].label \in {NoSpeaker, x.acc.pending_speaker}
    BY <1>1, HeardList DEF Pending
  <2> HIDE DEF y, cleared, h, d, p
  <2>3. ASSUME NEW k \in 1..Len(h) PROVE h[k].own
    <3>1. PICK i \in 1..Len(p) :
             /\ p[i].nth > 0
             /\ h[k].own <=> p[i].label \in {NoSpeaker, x.acc.pending_speaker}
      BY <2>2
    <3>2. ~p[i].blank
      BY <3>1, <1>1
    <3> QED BY <3>1, <3>2, <1>1
  <2>4. /\ x.said \o h \in Seq(Credit) /\ Len(x.said \o h) = Len(x.said) + Len(h)
        /\ Len(x.said) \in Nat /\ Len(h) \in Nat
        /\ \A i \in 1..Len(x.said) + Len(h) :
             (x.said \o h)[i] = IF i <= Len(x.said) THEN x.said[i] ELSE h[i - Len(x.said)]
    BY <1>1, <2>2, ConcatProperties, LenProperties
  <2>5. ASSUME NEW i \in 1..Len(x.said) + Len(h) PROVE (x.said \o h)[i].own
    <3>1. CASE i <= Len(x.said)
      BY <3>1, <2>4, <1>1
    <3>2. CASE ~(i <= Len(x.said))
      <4>1. i - Len(x.said) \in 1..Len(h)
        BY <3>2, <2>4
      <4> QED BY <4>1, <3>2, <2>3, <2>4
    <3> QED BY <3>1, <3>2
  <2>6. NthOf(x.said \o h) = NthOf(x.said) \o NthOf(h)
    <3>1. \A a \in Credit : a.nth \in Nat
      BY DEF Credit
    <3> DEFINE sd == x.said
    <3>2. sd \in Seq(Credit)
      BY <1>1
    <3> HIDE DEF sd
    <3>3. NthOf(sd \o h) = NthOf(sd) \o NthOf(h)
      BY ONLY <3>1, <3>2, <2>2, NthConcat
    <3> QED BY <3>3 DEF sd
  <2>7. NthOf(x.said \o h) \o NthOf(DurableOf(<<>>)) = [i \in 1..n |-> i]
    <3>1. NthOf(x.said \o h) \in Seq(Nat)
      <4>1. \A a \in Credit : a.nth \in Nat
        BY DEF Credit
      <4> QED BY <4>1, <2>4, NthIs DEF NthList
    <3>2. NthOf(x.said \o h) \o <<>> = NthOf(x.said \o h)
      BY <3>1, ConcatEmptySeq
    <3> QED BY <3>2, <2>2, <2>6, <1>1, NoWords DEF d
  <2>8. /\ DropFirst(cleared).pending = <<>>
        /\ DropFirst(cleared).pending_speaker = x.acc.pending_speaker
        /\ x.acc.open_ids # <<>> =>
             DropFirst(cleared) \in [pending : Texts, pending_speaker : Label,
                                     open_runs : Seq(Run), open_ids : Seq(Nat)]
    <3>1. /\ DropFirst(cleared) = [cleared EXCEPT !.open_runs = Tail(@), !.open_ids = Tail(@)]
      BY DEF DropFirst
    <3>2. /\ x.acc.open_ids \in Seq(Nat) /\ x.acc.open_runs \in Seq(Run)
          /\ Len(x.acc.open_runs) = Len(x.acc.open_ids)
      BY <1>1 DEF Sound
    <3>3. ASSUME x.acc.open_ids # <<>>
          PROVE  Tail(x.acc.open_ids) \in Seq(Nat) /\ Tail(x.acc.open_runs) \in Seq(Run)
      <4>1. x.acc.open_runs # <<>>
        BY <3>2, <3>3, EmptySeq
      <4> QED BY <3>2, <3>3, <4>1, HeadTailProperties
    <3>4. ASSUME x.acc.open_ids # <<>>
          PROVE  DropFirst(cleared) \in [pending : Texts, pending_speaker : Label,
                                         open_runs : Seq(Run), open_ids : Seq(Nat)]
      BY <3>1, <3>3, <3>4, <1>2
    <3> QED BY <3>1, <3>4, <1>2
  <2>9. /\ y.acc \in [pending : Texts, pending_speaker : Label, open_runs : Seq(Run),
                      open_ids : Seq(Nat)]
        /\ y.acc.pending = <<>> /\ y.acc.pending_speaker = x.acc.pending_speaker
    BY <2>1, <2>8, <1>2
  <2>11. NthOf(y.said) \o NthOf(DurableOf(y.acc.pending)) = [i \in 1..n |-> i]
    BY <2>1, <2>7, <2>9
  <2>12. /\ Len(y.acc.pending) = 0 /\ y.said \in Seq(Credit)
         /\ \A i \in 1..Len(y.said) : y.said[i].own
    BY <2>1, <2>4, <2>5, <2>9, <1>3
  <2>10. Spoken(y, n)
    <3>1. y.acc \in [pending : Texts, pending_speaker : Label, open_runs : Seq(Run),
                     open_ids : Seq(Nat)]
      BY <2>9
    <3>2. /\ \A i \in 1..Len(y.acc.pending) : y.acc.pending[i].blank => y.acc.pending[i].nth = 0
          /\ \A i \in 1..Len(y.acc.pending) :
               ~y.acc.pending[i].blank => y.acc.pending[i].label \in {NoSpeaker, y.acc.pending_speaker}
      BY ONLY <2>12
    <3>3. /\ y.said \in Seq(Credit)
          /\ \A i \in 1..Len(y.said) : y.said[i].own
      BY ONLY <2>12
    <3> QED BY ONLY <3>1, <3>2, <3>3, <2>11, Zenon DEF Spoken
  <2> QED BY <2>9, <2>10 DEF y
<1> QED BY <1>4, <1>5

\* A change of speaker moves the pending words to the final segments and loses none.
LEMMA TurnSpoken ==
  ASSUME NEW x, NEW n \in Nat, NEW label \in Label, Sound(x), Spoken(x, n)
  PROVE  /\ Spoken(Turn(x, label), n)
         /\ label \in {NoSpeaker, Turn(x, label).acc.pending_speaker}
<1> DEFINE y == IF x.acc.pending_speaker \notin {NoSpeaker, label} THEN Flush(x) ELSE x
           z == [y EXCEPT !.acc.pending_speaker = label]
           old == x.acc.pending_speaker
<1>1. /\ Sound(y) /\ Spoken(y, n)
      /\ old \in {NoSpeaker, label} => y.acc.pending = x.acc.pending
      /\ old \notin {NoSpeaker, label} => y.acc.pending = <<>>
      /\ y.acc.pending_speaker = old
  BY FlushSpoken, FlushAdvances DEF Advances
<1> HIDE DEF y
<1>2. /\ y.acc \in [pending : Texts, pending_speaker : Label, open_runs : Seq(Run),
                    open_ids : Seq(Nat)]
      /\ DOMAIN y = {"acc", "next_id", "store", "said"}
  BY <1>1 DEF Spoken, Sound
<1>3. /\ z.acc = [y.acc EXCEPT !.pending_speaker = label] /\ z.said = y.said
  BY <1>2
<1>4. /\ z.acc \in [pending : Texts, pending_speaker : Label, open_runs : Seq(Run),
                    open_ids : Seq(Nat)]
      /\ z.acc.pending = y.acc.pending /\ z.acc.pending_speaker = label
  BY <1>2, <1>3
<1> HIDE DEF z
<1>5. ASSUME NEW i \in 1..Len(z.acc.pending), ~z.acc.pending[i].blank
      PROVE  z.acc.pending[i].label \in {NoSpeaker, label}
  <2>1. CASE old \in {NoSpeaker, label}
    <3>1. y.acc.pending[i].label \in {NoSpeaker, y.acc.pending_speaker}
      BY <1>1, <1>4, <1>5 DEF Spoken
    <3> QED BY <3>1, <2>1, <1>1, <1>4
  <2>2. CASE old \notin {NoSpeaker, label}
    <3>1. Len(z.acc.pending) = 0
      BY <2>2, <1>1, <1>4
    <3> QED BY <3>1
  <2> QED BY <2>1, <2>2
<1>6. Spoken(z, n)
  BY <1>1, <1>3, <1>4, <1>5 DEF Spoken
<1>7. CASE label = NoSpeaker
  BY <1>7 DEF Turn
<1>8. CASE label # NoSpeaker
  <2>1. Turn(x, label) = z
    BY <1>8 DEF Turn, y, z
  <2> QED BY <2>1, <1>4, <1>6
<1> QED BY <1>7, <1>8

\* The numbers 1..n followed by n + 1.
LEMMA CountOn ==
  ASSUME NEW n \in Nat
  PROVE  [i \in 1..n |-> i] \o <<n + 1>> = [i \in 1..n + 1 |-> i]
<1> DEFINE s == [i \in 1..n |-> i]
           t == <<n + 1>>
           u == [i \in 1..n + 1 |-> i]
<1>1. s \in Seq(Nat) /\ Len(s) = n /\ \A i \in 1..n : s[i] = i
  <2>1. s \in [1..n -> Nat]
    OBVIOUS
  <2> QED BY <2>1, SeqDef
<1>2. t \in Seq(Nat) /\ Len(t) = 1 /\ t[1] = n + 1
  OBVIOUS
<1>3. u \in Seq(Nat) /\ Len(u) = n + 1 /\ \A i \in 1..n + 1 : u[i] = i
  <2>1. u \in [1..n + 1 -> Nat] /\ n + 1 \in Nat
    OBVIOUS
  <2> QED BY <2>1, SeqDef
<1> HIDE DEF s, t, u
<1>4. /\ s \o t \in Seq(Nat) /\ Len(s \o t) = n + 1
      /\ \A i \in 1..n + 1 : (s \o t)[i] = IF i <= n THEN s[i] ELSE t[i - n]
  <2>1. /\ s \o t \in Seq(Nat) /\ Len(s \o t) = Len(s) + Len(t)
        /\ \A i \in 1..Len(s) + Len(t) : (s \o t)[i] = IF i <= Len(s) THEN s[i] ELSE t[i - Len(s)]
    BY <1>1, <1>2, ConcatProperties
  <2> QED BY <2>1, <1>1, <1>2
<1>5. ASSUME NEW i \in 1..n + 1 PROVE (s \o t)[i] = u[i]
  <2>1. CASE i <= n
    BY <2>1, <1>1, <1>3, <1>4
  <2>2. CASE ~(i <= n)
    <3>1. i = n + 1 /\ i - n = 1
      BY <2>2
    <3> QED BY <3>1, <2>2, <1>2, <1>3, <1>4
  <2> QED BY <2>1, <2>2
<1>6. s \o t = u
  BY <1>3, <1>4, <1>5, SeqEqual
<1> QED BY <1>6 DEF s, t, u

\* A pushed piece is the next word of the service, or no word at all.
LEMMA PushSpoken ==
  ASSUME NEW x, NEW n \in Nat, NEW p \in TextPiece, Sound(x), Spoken(x, n),
         p.blank => p.nth = 0, p.label \in {NoSpeaker, x.acc.pending_speaker},
         p.nth \in {0, n + 1}
  PROVE  Spoken(PushText(x, p), IF p.nth = 0 THEN n ELSE n + 1)
<1> DEFINE y == PushText(x, p)
           s == x.acc.pending
           t == Append(s, p)
           m == IF p.nth = 0 THEN n ELSE n + 1
           d == DurableOf(s)
           e == DurableOf(<<p>>)
           sd == x.said
           AccType == [pending : Texts, pending_speaker : Label, open_runs : Seq(Run),
                       open_ids : Seq(Nat)]
<1>1. /\ x.acc \in AccType /\ s \in Texts /\ sd \in Seq(Credit)
      /\ \A i \in 1..Len(s) : s[i].blank => s[i].nth = 0
      /\ \A i \in 1..Len(s) : ~s[i].blank => s[i].label \in {NoSpeaker, x.acc.pending_speaker}
      /\ \A i \in 1..Len(sd) : sd[i].own
      /\ NthOf(sd) \o NthOf(d) = [i \in 1..n |-> i]
      /\ DOMAIN x = {"acc", "next_id", "store", "said"}
  BY DEF Spoken, Sound
<1>2. /\ y.acc = [x.acc EXCEPT !.pending = t] /\ y.said = sd
  BY <1>1 DEF PushText
<1>3. /\ t \in Texts /\ Len(t) = Len(s) + 1 /\ t = s \o <<p>> /\ Len(s) \in Nat
      /\ (\A i \in 1..Len(s) : t[i] = s[i]) /\ t[Len(s) + 1] = p
  BY <1>1, AppendProperties, AppendIsConcat, LenProperties DEF Texts
<1> HIDE DEF t
<1>4. /\ y.acc \in AccType /\ y.acc.pending = t
      /\ y.acc.pending_speaker = x.acc.pending_speaker
  <2> HIDE DEF y, s, sd
  <2> DEFINE a == [x.acc EXCEPT !.pending = t]
  <2>1. a \in AccType /\ a.pending = t /\ a.pending_speaker = x.acc.pending_speaker
    BY <1>1, <1>3
  <2> HIDE DEF a
  <2> QED BY <2>1, <1>2 DEF a
<1>5. ASSUME NEW i \in 1..Len(t)
      PROVE  /\ t[i].blank => t[i].nth = 0
             /\ ~t[i].blank => t[i].label \in {NoSpeaker, x.acc.pending_speaker}
  <2>1. i \in 1..Len(s) \/ i = Len(s) + 1
    BY <1>3
  <2> QED BY <2>1, <1>1, <1>3
<1>6. <<p>> \in Texts /\ e \in Texts /\ d \in Texts /\ DurableOf(t) = d \o e
  <2>1. <<p>> \in Texts
    BY DEF Texts
  <2> QED BY <2>1, <1>1, <1>3, DurableConcat, DurableList
<1> HIDE DEF s, d, e, sd, y
<1>7. \A a \in TextPiece \cup Credit : a.nth \in Nat
  BY DEF TextPiece, Credit
<1>8. /\ NthOf(sd) \in Seq(Nat) /\ NthOf(d) \in Seq(Nat) /\ NthOf(e) \in Seq(Nat)
      /\ NthOf(d \o e) = NthOf(d) \o NthOf(e)
  <2>1. sd \in Seq(Credit) /\ d \in Seq(TextPiece) /\ e \in Seq(TextPiece)
    BY <1>1, <1>6 DEF Texts
  <2>2. NthList(sd) /\ NthList(d) /\ NthList(e)
    <3>1. NthList(sd)
      BY <1>7, <2>1, NthIs
    <3> QED BY <3>1, <1>7, <2>1, NthIs
  <2>3. NthOf(d \o e) = NthOf(d) \o NthOf(e)
    BY <1>7, <2>1, NthConcat
  <2> QED BY <2>2, <2>3 DEF NthList
<1>9. NthOf(sd) \o NthOf(DurableOf(t)) = [i \in 1..n |-> i] \o NthOf(e)
  <2> DEFINE a == NthOf(sd)
             b == NthOf(d)
             c == NthOf(e)
  <2>1. a \in Seq(Nat) /\ b \in Seq(Nat) /\ c \in Seq(Nat)
    BY <1>8
  <2> HIDE DEF a, b, c
  <2>2. (a \o b) \o c = a \o (b \o c)
    BY ONLY <2>1, SMTT(30)
  <2>3. a \o NthOf(DurableOf(t)) = a \o (b \o c)
    BY <1>6, <1>8 DEF b, c
  <2>4. a \o b = [i \in 1..n |-> i]
    BY <1>1 DEF a, b
  <2> QED BY <2>2, <2>3, <2>4 DEF a, c
<1>10. [i \in 1..n |-> i] \o NthOf(e) = [i \in 1..m |-> i]
  <2>1. CASE p.nth = 0
    <3>1. Len(<<p>>) = 1 /\ <<p>>[1] = p
      OBVIOUS
    <3>2. e = <<>>
      <4>1. Silent(<<p>>)
        BY <2>1, <3>1 DEF Silent
      <4> QED BY <4>1, <1>6, DurableSilent DEF e
    <3>3. [i \in 1..n |-> i] \in Seq(Nat)
      <4>1. [i \in 1..n |-> i] \in [1..n -> Nat]
        OBVIOUS
      <4> QED BY <4>1, SeqDef
    <3> DEFINE c == [i \in 1..n |-> i]
    <3>4. c \o <<>> = c
      <4> HIDE DEF c
      <4> QED BY <3>3, ConcatEmptySeq DEF c
    <3> QED BY <2>1, <3>2, <3>4, NoWords
  <2>2. CASE p.nth # 0
    <3>1. p.nth = n + 1 /\ p.nth > 0
      BY <2>2
    <3>2. e = <<p>>
      BY <3>1, DurableWord DEF e
    <3>3. NthOf(<<p>>) = <<n + 1>>
      <4>1. Len(<<p>>) = 1 /\ <<p>>[1] = p
        OBVIOUS
      <4>2. NthOf(<<p>>) = [i \in 1..1 |-> n + 1]
        BY <3>1, <4>1 DEF NthOf
      <4> QED BY <4>2
    <3> QED BY <2>2, <3>2, <3>3, CountOn
  <2> QED BY <2>1, <2>2
<1>11. NthOf(y.said) \o NthOf(DurableOf(y.acc.pending)) = [i \in 1..m |-> i]
  BY <1>2, <1>4, <1>9, <1>10
<1>12. /\ y.said \in Seq(Credit) /\ \A i \in 1..Len(y.said) : y.said[i].own
  BY <1>1, <1>2
<1>13. /\ \A i \in 1..Len(y.acc.pending) : y.acc.pending[i].blank => y.acc.pending[i].nth = 0
       /\ \A i \in 1..Len(y.acc.pending) :
            ~y.acc.pending[i].blank => y.acc.pending[i].label \in {NoSpeaker, y.acc.pending_speaker}
  BY <1>4, <1>5
<1>14. y.acc \in AccType
  BY <1>4
<1> HIDE DEF m
<1>15. Spoken(y, m)
  BY ONLY <1>11, <1>12, <1>13, <1>14 DEF Spoken
<1> QED BY <1>15 DEF y, m

\* One durable token: its word, if it is one, is pending or delivered afterwards.
LEMMA TokenSpoken ==
  ASSUME NEW x, NEW n \in Nat, NEW label \in Label,
         NEW kind \in {"word", "stop", "blank", "end", "fin"}, Sound(x), Spoken(x, n)
  PROVE  LET more == kind \in {"word", "stop"}
         IN  Spoken(IngestToken(x, kind, label, IF more THEN n + 1 ELSE 0),
                    IF more THEN n + 1 ELSE n)
<1> DEFINE more == kind \in {"word", "stop"}
           nth == IF more THEN n + 1 ELSE 0
           m == IF more THEN n + 1 ELSE n
           p == [nth |-> nth, blank |-> kind = "blank", label |-> label]
           y == Turn(x, label)
           z == PushText(y, p)
<1>1. Sound(y) /\ Spoken(y, n) /\ label \in {NoSpeaker, y.acc.pending_speaker}
  BY TurnSpoken, TurnAdvances DEF Advances
<1>2. CASE kind \in {"end", "fin"}
  <2>1. IngestToken(x, kind, label, nth) \in {y, Flush(y)} /\ m = n
    BY <1>2 DEF IngestToken
  <2> HIDE DEF y
  <2> QED BY <1>1, <2>1, FlushSpoken
<1>3. CASE kind \in {"word", "stop", "blank"}
  <2>1. /\ p \in TextPiece /\ (p.blank => p.nth = 0) /\ p.nth \in {0, n + 1}
        /\ p.label = label /\ m \in Nat
        /\ m = IF p.nth = 0 THEN n ELSE n + 1
    <3>1. nth \in Nat /\ nth \in {0, n + 1} /\ (kind = "blank" => nth = 0) /\ m \in Nat
          /\ m = IF nth = 0 THEN n ELSE n + 1
      BY <1>3
    <3> DEFINE b == kind = "blank"
    <3>2. b \in BOOLEAN /\ p = [nth |-> nth, blank |-> b, label |-> label] /\ (b => nth = 0)
      BY <3>1
    <3> HIDE DEF nth, m, b, p
    <3>3. p \in TextPiece /\ p.nth = nth /\ p.blank = b /\ p.label = label
      BY <3>1, <3>2 DEF TextPiece
    <3> QED BY <3>1, <3>2, <3>3
  <2>2. IngestToken(x, kind, label, nth) \in {z, Flush(z)}
    BY <1>3 DEF IngestToken
  <2> HIDE DEF y, p, m
  <2>3. Spoken(z, m)
    BY <1>1, <2>1, PushSpoken
  <2>4. Sound(z)
    BY <1>1, PushAdvances DEF Advances
  <2> HIDE DEF z
  <2>5. Spoken(Flush(z), m)
    BY <2>1, <2>3, <2>4, FlushSpoken
  <2> QED BY <2>2, <2>3, <2>5 DEF m
<1> QED BY <1>2, <1>3

-------------------------------------------------------------------------------
\* A non-empty set of numbers up to n has a greatest one.
LEMMA GreatestOfSet ==
  ASSUME NEW n \in Nat, NEW T, T \subseteq 1..n, T # {}
  PROVE  \E x \in T : \A y \in T : y <= x
<1> DEFINE U == {n - y : y \in T}
<1>1. \A y \in T : y \in 1..n
  OBVIOUS
<1>2. U \subseteq Nat /\ U # {}
  <2>1. \A y \in T : n - y \in Nat
    BY <1>1
  <2>2. PICK y \in T : TRUE
    OBVIOUS
  <2>3. n - y \in U
    OBVIOUS
  <2> QED BY <2>1, <2>3
<1>3. PICK u \in U : \A v \in U : u <= v
  <2> HIDE DEF U
  <2> QED BY <1>2, LeastOfSet
<1>4. PICK x \in T : u = n - x
  OBVIOUS
<1>5. ASSUME NEW y \in T PROVE y <= x
  <2>1. n - y \in U
    OBVIOUS
  <2>2. n - x <= n - y
    BY <2>1, <1>3, <1>4
  <2> QED BY <2>2, <1>1
<1> QED BY <1>5

\* A silent text has nothing to credit to anybody.
LEMMA HeardSilent ==
  ASSUME NEW speaker, NEW text \in Texts, Silent(text)
  PROVE  Heard([speaker |-> speaker, text |-> text]) = <<>>
<1> DEFINE h == Heard([speaker |-> speaker, text |-> text])
<1>1. DurableOf(text) = <<>> /\ Len(<<>>) = 0
  BY DurableSilent
<1>2. h = [k \in 1..0 |-> [nth |-> <<>>[k].nth, own |-> <<>>[k].label \in {NoSpeaker, speaker}]]
  BY <1>1 DEF Heard
<1>3. h \in [1..0 -> Credit]
  BY <1>2
<1>4. h \in Seq(Credit)
  BY <1>3, SeqDef
<1> HIDE DEF h
<1>5. Len(h) = 0
  BY <1>3, <1>4, LenProperties
<1> QED BY <1>4, <1>5, EmptySeq DEF h

\* What a flattened list is when only its first member holds anything.
LEMMA FlattenFirst ==
  ASSUME NEW A, NEW n \in Nat, NEW s, s \in [1..n -> Seq(A)], \A i \in 2..n : s[i] = <<>>
  PROVE  FlattenSeq(s) = IF n = 0 THEN <<>> ELSE s[1]
<1>1. s \in Seq(Seq(A)) /\ Len(s) = n
  BY SeqDef, LenProperties
<1>2. CASE n = 0
  <2>1. s = <<>>
    BY <1>1, <1>2, EmptySeq
  <2> QED BY <1>1, <1>2, <2>1 DEF FlattenSeq
<1>3. CASE n # 0
  <2> DEFINE Def(f) == [i \in 1..Len(s) |-> IF i = 1 THEN s[i] ELSE f[i - 1] \o s[i]]
             g == [i \in 1..n |-> s[1]]
             flat == CHOOSE f : f = Def(f)
  <2>1. s[1] \in Seq(A) /\ s[1] \o <<>> = s[1]
    <3>1. s[1] \in Seq(A)
      BY <1>3
    <3> QED BY <3>1, ConcatEmptySeq
  <2>2. g = Def(g)
    <3>1. ASSUME NEW i \in 1..n PROVE g[i] = IF i = 1 THEN s[i] ELSE g[i - 1] \o s[i]
      <4>1. CASE i = 1
        BY <4>1
      <4>2. CASE i # 1
        <5>1. i - 1 \in 1..n /\ s[i] = <<>>
          BY <4>2, SMTT(30)
        <5> QED BY <5>1, <4>2, <2>1
      <4> QED BY <4>1, <4>2
    <3> QED BY <3>1, <1>1
  <2>3. flat = Def(flat)
    BY <2>2
  <2>4. FlattenSeq(s) = flat[n]
    BY <1>1, <1>3 DEF FlattenSeq
  <2> HIDE DEF flat
  <2>5. \A i \in 1..n : flat[i] = IF i = 1 THEN s[i] ELSE flat[i - 1] \o s[i]
    BY <2>3, <1>1
  <2> DEFINE T == {m \in Nat : m + 1 <= n => flat[m + 1] = s[1]}
  <2>6. \A m \in T : m + 1 \in T
    <3>1. ASSUME NEW m \in Nat, m + 1 <= n => flat[m + 1] = s[1], (m + 1) + 1 <= n
          PROVE  flat[(m + 1) + 1] = s[1]
      <4>1. flat[m + 1] = s[1] /\ m + 2 \in 2..n /\ m + 2 \in 1..n /\ (m + 2) - 1 = m + 1
            /\ m + 2 # 1 /\ (m + 1) + 1 = m + 2
        BY <3>1
      <4>2. flat[m + 2] = flat[m + 1] \o s[m + 2] /\ s[m + 2] = <<>>
        BY <4>1, <2>5
      <4> QED BY <4>1, <4>2, <2>1
    <3> QED BY <3>1
  <2>7. T = Nat
    <3>1. 0 \in T /\ T \subseteq Nat
      BY <2>5, <1>3
    <3> HIDE DEF T
    <3> QED BY <3>1, <2>6, SetInduction
  <2>8. n - 1 \in Nat /\ (n - 1) + 1 = n
    BY <1>3
  <2>9. flat[n] = s[1]
    <3>1. n - 1 \in T
      <4> HIDE DEF T
      <4> QED BY <2>7, <2>8
    <3> QED BY <3>1, <2>8
  <2> QED BY <2>4, <2>9, <1>3
<1> QED BY <1>2, <1>3

\* Provisional text holds no durable speech.
LEMMA TailParts ==
  ASSUME NEW tail \in Tails
  PROVE  /\ tail \in Texts /\ Len(tail) \in Nat /\ Silent(tail)
         /\ \A j \in 1..Len(tail) : tail[j].label \in Label
<1>1. PICK n \in 0..MaxTail : tail \in [1..n -> TailPiece]
  BY DEF Tails
<1>2. n \in Nat /\ TailPiece \subseteq TextPiece
  BY AccumulatorAssumption DEF TailPiece, TextPiece
<1>3. tail \in [1..n -> TextPiece]
  BY <1>1, <1>2
<1>4. tail \in Texts /\ Len(tail) = n
  BY <1>2, <1>3, SeqDef, LenProperties DEF Texts
<1>5. \A j \in 1..n : tail[j] \in TailPiece
  BY <1>1
<1> QED BY <1>2, <1>4, <1>5 DEF TailPiece, Silent

\* What a tail token inherits is a label.
LEMMA InheritedLabel ==
  ASSUME acc.pending_speaker \in Label, NEW tail \in Tails, NEW i \in 1..Len(tail)
  PROVE  Inherited(tail, i) \in Label
<1> DEFINE T == {j \in 1..i : tail[j].label # NoSpeaker}
           last == CHOOSE j \in T : \A k \in T : k <= j
<1>1. CASE T = {}
  BY <1>1 DEF Inherited
<1>2. CASE T # {}
  <2>1. i \in Nat /\ T \subseteq 1..i
    BY TailParts
  <2> HIDE DEF T
  <2>2. \E j \in T : \A k \in T : k <= j
    BY <1>2, <2>1, GreatestOfSet
  <2>3. last \in T
    BY <2>2
  <2>4. last \in 1..Len(tail)
    <3>1. last \in 1..i
      BY <2>1, <2>3
    <3> HIDE DEF last
    <3> QED BY <3>1, TailParts
  <2>5. Inherited(tail, i) = tail[last].label
    BY <1>2 DEF Inherited, T
  <2> HIDE DEF last
  <2> QED BY <2>4, <2>5, TailParts
<1> QED BY <1>1, <1>2

\* The rebuilt runs: each is a stretch of the pending text and the tail; the pending text
\* is at the front of the first one unless it is blank, and no other holds durable speech.
LEMMA OpenRuns ==
  ASSUME AccInv, spoken \in Nat, Spoken(Here, spoken), NEW tail \in Tails
  PROVE  LET runs == BuildOpenRuns(tail)
         IN  /\ runs \in Seq(Run)
             /\ IF Blank(acc.pending)
                THEN \A i \in 1..Len(runs) : Heard(runs[i]) = <<>>
                ELSE /\ runs # <<>>
                     /\ IsPrefix(acc.pending, runs[1].text)
                     /\ Heard(runs[1]) = Heard(Pending(Here))
                     /\ \A i \in 2..Len(runs) : Heard(runs[i]) = <<>>
<1> DEFINE pend == acc.pending
           text == acc.pending \o tail
           p == Len(acc.pending)
           m == Len(text)
           speaker == [i \in 1..Len(text) |->
                         IF i <= p THEN acc.pending_speaker ELSE Inherited(tail, i - p)]
           group(i) == {j \in i..Len(text) : \A k \in i..j : speaker[k] = speaker[i]}
           starts == {i \in 1..Len(text) : /\ i = 1 \/ speaker[i - 1] # speaker[i]
                                          /\ \E j \in group(i) : ~text[j].blank}
           start == Ascending(starts)
           end == [i \in 1..m |-> i + Cardinality(group(i)) - 1]
           n == Cardinality(starts)
           runs == BuildOpenRuns(tail)
<1>1. /\ pend \in Texts /\ p \in Nat /\ acc.pending_speaker \in Label
      /\ \A i \in 1..p : pend[i] \in TextPiece /\ (pend[i].blank => pend[i].nth = 0)
  <2>1. /\ pend \in Texts /\ acc.pending_speaker \in Label
        /\ \A i \in 1..p : pend[i].blank => pend[i].nth = 0
    BY DEF Spoken, Here
  <2> QED BY <2>1, TextParts
<1>2. /\ text \in Texts /\ m \in Nat /\ m = p + Len(tail) /\ Len(tail) \in Nat
      /\ \A i \in 1..p : i \in 1..m /\ text[i] = pend[i]
      /\ \A i \in p + 1..m : i - p \in 1..Len(tail) /\ text[i].nth = 0
      /\ \A i \in 1..m : text[i] \in TextPiece
  <2>1. tail \in Texts /\ Len(tail) \in Nat /\ Silent(tail)
    BY TailParts
  <2>2. /\ text \in Texts /\ m = p + Len(tail)
        /\ \A i \in 1..p + Len(tail) : text[i] = IF i <= p THEN pend[i] ELSE tail[i - p]
    BY <1>1, <2>1, ConcatProperties DEF Texts
  <2> HIDE DEF pend, p, m, text
  <2>3. \A i \in 1..p : i \in 1..m /\ text[i] = pend[i]
    BY <1>1, <2>1, <2>2
  <2>4. ASSUME NEW i \in p + 1..m PROVE i - p \in 1..Len(tail) /\ text[i].nth = 0
    <3>1. i - p \in 1..Len(tail) /\ ~(i <= p) /\ i \in 1..p + Len(tail)
      BY <1>1, <2>1, <2>2
    <3>2. text[i] = tail[i - p]
      BY <3>1, <2>2
    <3> QED BY <3>1, <3>2, <2>1 DEF Silent
  <2>5. m \in Nat /\ \A i \in 1..m : text[i] \in TextPiece
    BY <2>2, TextParts DEF m
  <2> QED BY <2>1, <2>2, <2>3, <2>4, <2>5
<1>3. \A i \in 1..m : speaker[i] = IF i <= p THEN acc.pending_speaker ELSE Inherited(tail, i - p)
  OBVIOUS
<1>4. runs = [k \in 1..n |-> [speaker |-> speaker[start[k]],
                              text |-> SubSeq(text, start[k], end[start[k]])]]
  <2>1. runs = [k \in 1..n |-> [speaker |-> speaker[start[k]],
                  text |-> SubSeq(text, start[k], start[k] + Cardinality(group(start[k])) - 1)]]
    BY DEF BuildOpenRuns
  <2>2. \A k \in 1..n : start[k] \in starts /\ start[k] \in 1..m
    <3>1. IsFiniteSet(starts)
      <4>1. IsFiniteSet(1..m)
        <5>1. m \in Nat
          BY <1>2
        <5> QED BY ONLY <5>1, FS_Interval
      <4> QED BY <4>1, FS_Subset
    <3>2. starts \subseteq 1..m
      OBVIOUS
    <3>3. starts \subseteq Int
      <4>1. \A i \in starts : i \in Int
        BY <3>2, <1>2
      <4> HIDE DEF starts
      <4> QED BY <4>1
    <3> HIDE DEF starts
    <3>4. start \in [1..n -> starts]
      BY <3>1, <3>3, AscendingList
    <3> QED BY <3>2, <3>4
  <2> HIDE DEF start, n, runs, starts
  <2>3. \A k \in 1..n : end[start[k]] = start[k] + Cardinality(group(start[k])) - 1
    BY <2>2
  <2> HIDE DEF speaker, text, end
  <2> QED BY <2>1, <2>3
<1>5. /\ n \in Nat /\ start \in [1..n -> starts]
      /\ \A k, l \in 1..n : k < l => start[k] < start[l]
      /\ \A i \in starts : \E k \in 1..n : start[k] = i
      /\ starts \subseteq 1..m
  <2>1. IsFiniteSet(starts)
    <3>1. IsFiniteSet(1..m)
      <4>1. m \in Nat
        BY <1>2
      <4> QED BY ONLY <4>1, FS_Interval
    <3> QED BY <3>1, FS_Subset
  <2>2. starts \subseteq 1..m
    OBVIOUS
  <2>3. starts \subseteq Int
    <3>1. \A i \in starts : i \in Int
      BY <2>2, <1>2
    <3> HIDE DEF starts
    <3> QED BY <3>1
  <2> HIDE DEF starts
  <2> QED BY <2>1, <2>2, <2>3, AscendingList
<1>6. ASSUME NEW i \in 1..m
      PROVE  /\ end[i] \in Nat /\ end[i] <= m /\ i - 1 <= end[i]
             /\ \A j \in i..m : (\A k \in i..j : speaker[k] = speaker[i]) => j <= end[i]
  <2> DEFINE G == group(i)
  <2>1. IsFiniteSet(i..m) /\ Cardinality(i..m) = m - i + 1
    BY <1>2, FS_Interval
  <2>2. IsFiniteSet(G) /\ Cardinality(G) \in Nat /\ Cardinality(G) <= m - i + 1
    <3>1. G \subseteq i..m
      OBVIOUS
    <3> HIDE DEF G
    <3> QED BY <2>1, <3>1, FS_Subset, FS_CardinalityType
  <2>3. end[i] = i + Cardinality(G) - 1
    OBVIOUS
  <2>4. ASSUME NEW j \in i..m, \A k \in i..j : speaker[k] = speaker[i]
        PROVE  j <= end[i]
    <3>1. i..j \subseteq G
      <4>1. ASSUME NEW l \in i..j PROVE l \in G
        <5>1. l \in i..m /\ \A k \in i..l : k \in i..j
          BY <1>2
        <5> QED BY <5>1, <2>4
      <4> QED BY <4>1
    <3>2. Cardinality(i..j) = j - i + 1
      BY <1>2, FS_Interval
    <3>3. Cardinality(i..j) <= Cardinality(G)
      <4> HIDE DEF G
      <4> QED BY <3>1, <2>2, FS_Subset
    <3> HIDE DEF G, end
    <3> QED BY <3>2, <3>3, <2>2, <2>3, <1>2
  <2> HIDE DEF G, end
  <2>5. end[i] \in Nat /\ end[i] <= m /\ i - 1 <= end[i]
    BY <2>2, <2>3, <1>2
  <2> QED BY <2>4, <2>5
<1>7. \A i \in 1..m : speaker[i] \in Label
  <2>1. ASSUME NEW i \in 1..m PROVE speaker[i] \in Label
    <3>1. CASE i <= p
      BY <3>1, <1>1, <1>3
    <3>2. CASE ~(i <= p)
      <4>1. i - p \in 1..Len(tail)
        BY <3>2, <1>1, <1>2
      <4> QED BY <4>1, <3>2, <1>1, <1>3, InheritedLabel
    <3> QED BY <3>1, <3>2
  <2> QED BY <2>1
<1>8. \A i \in 1..m : i <= p => speaker[i] = acc.pending_speaker
  BY <1>3
<1>9. \A i \in starts : i = 1 \/ speaker[i - 1] # speaker[i]
  OBVIOUS
<1>10. (\E j \in 1..p : ~pend[j].blank) => 1 \in starts
  <2>1. ASSUME NEW j \in 1..p, ~pend[j].blank PROVE 1 \in starts
    <3>1. j \in 1..m /\ 1 \in 1..m /\ text[j] = pend[j] /\ j \in 1..Len(text)
      BY <1>1, <1>2
    <3>2. \A k \in 1..j : k \in 1..m /\ k <= p /\ 1 <= p
      BY <1>1, <1>2
    <3>3. j \in group(1)
      <4> HIDE DEF speaker
      <4> QED BY <3>1, <3>2, <1>8
    <3> HIDE DEF speaker
    <3> QED BY <2>1, <3>1, <3>3
  <2> QED BY <2>1
<1> HIDE DEF pend, text, p, m, speaker, end, start, n, starts, runs
\* One run.
<1> DEFINE piece == [k \in 1..n |-> SubSeq(text, start[k], end[start[k]])]
<1>11. ASSUME NEW k \in 1..n
       PROVE  /\ start[k] \in 1..m /\ end[start[k]] \in Nat /\ end[start[k]] <= m
              /\ runs[k] = [speaker |-> speaker[start[k]], text |-> piece[k]]
              /\ piece[k] \in Texts /\ speaker[start[k]] \in Label
              /\ Len(piece[k]) = end[start[k]] - start[k] + 1
              /\ \A i \in 1..Len(piece[k]) : piece[k][i] = text[start[k] + i - 1]
  <2>1. start[k] \in 1..m
    BY <1>5
  <2>2. end[start[k]] \in Nat /\ end[start[k]] <= m /\ start[k] - 1 <= end[start[k]]
    BY <2>1, <1>6
  <2>3. \A i \in start[k]..end[start[k]] : text[i] \in TextPiece
    BY <1>2, <2>1, <2>2
  <2> DEFINE a == start[k]
             b == end[a]
  <2>4. a \in Int /\ b \in Int /\ a - 1 <= b
    BY <1>2, <2>1, <2>2
  <2> HIDE DEF a, b
  <2>5. /\ SubSeq(text, a, b) \in Texts /\ Len(SubSeq(text, a, b)) = b - a + 1
        /\ \A i \in 1..b - a + 1 : SubSeq(text, a, b)[i] = text[a + i - 1]
    <3>1. \A i \in a..b : text[i] \in TextPiece
      BY <2>3 DEF a, b
    <3>2. /\ SubSeq(text, a, b) \in Texts
          /\ Len(SubSeq(text, a, b)) = IF a <= b THEN b - a + 1 ELSE 0
          /\ \A i \in 1..b - a + 1 : SubSeq(text, a, b)[i] = text[a + i - 1]
      BY <2>4, <3>1, SubSeqProperties DEF Texts
    <3> QED BY <2>4, <3>2
  <2>6. runs[k] = [speaker |-> speaker[start[k]], text |-> piece[k]]
    BY <1>4
  <2> QED BY <2>1, <2>2, <2>5, <2>6, <1>7 DEF a, b
<1> HIDE DEF piece
<1>12. runs \in Seq(Run) /\ Len(runs) = n
  <2>1. runs \in [1..n -> Run]
    <3>1. \A k \in 1..n : runs[k] \in Run
      <4>1. ASSUME NEW k \in 1..n PROVE runs[k] \in Run
        <5>1. piece[k] \in Seq(TextPiece)
          BY <1>11 DEF Texts
        <5>2. speaker[start[k]] \in Label /\ runs[k] = [speaker |-> speaker[start[k]], text |-> piece[k]]
          BY <1>11
        <5> QED BY ONLY <5>1, <5>2 DEF Run
      <4> QED BY <4>1
    <3>2. runs = [k \in 1..n |-> runs[k]]
      BY <1>4
    <3> QED BY <3>1, <3>2
  <2>2. runs \in Seq(Run)
    BY <2>1, <1>5, SeqDef
  <2> QED BY <2>1, <2>2, <1>5, LenProperties
<1>13. ASSUME NEW k \in 1..n, \A i \in 1..m : start[k] <= i => text[i].nth = 0
       PROVE  Heard(runs[k]) = <<>>
  <2>1. Silent(piece[k])
    <3>1. ASSUME NEW i \in 1..Len(piece[k]) PROVE piece[k][i].nth = 0
      <4>1. start[k] + i - 1 \in 1..m /\ start[k] <= start[k] + i - 1
        <5>1. /\ start[k] \in 1..m /\ end[start[k]] \in Nat /\ end[start[k]] <= m
              /\ Len(piece[k]) = end[start[k]] - start[k] + 1
          BY <1>11
        <5> DEFINE a == start[k]
                   b == end[a]
        <5>2. a \in 1..m /\ b \in Nat /\ b <= m /\ i \in 1..b - a + 1
          BY <5>1
        <5> HIDE DEF a, b
        <5>3. a + i - 1 \in 1..m /\ a <= a + i - 1
          BY <5>2, <1>2
        <5> QED BY <5>3 DEF a
      <4>2. piece[k][i] = text[start[k] + i - 1]
        BY <1>11
      <4> QED BY <4>1, <4>2, <1>13
    <3> QED BY <3>1 DEF Silent
  <2>2. piece[k] \in Texts /\ runs[k] = [speaker |-> speaker[start[k]], text |-> piece[k]]
    BY <1>11
  <2>3. Heard([speaker |-> speaker[start[k]], text |-> piece[k]]) = <<>>
    BY <2>1, <2>2, HeardSilent
  <2> QED BY <2>2, <2>3
<1>14. CASE Blank(pend)
  <2>1. ASSUME NEW i \in 1..m PROVE text[i].nth = 0
    <3>1. CASE i <= p
      <4>1. i \in 1..p /\ DOMAIN pend = 1..p
        BY <3>1, <1>1, <1>2, TextParts DEF p, pend
      <4> QED BY <4>1, <1>1, <1>2, <1>14 DEF Blank
    <3>2. CASE ~(i <= p)
      BY <3>2, <1>1, <1>2
    <3> QED BY <3>1, <3>2
  <2>2. \A i \in 1..Len(runs) : Heard(runs[i]) = <<>>
    BY <2>1, <1>12, <1>13
  <2> QED BY <2>2, <1>12, <1>14 DEF runs, pend
<1>15. CASE ~Blank(pend)
  <2>1. 1 \in starts /\ 1 <= p /\ 1 \in 1..m
    <3>1. PICK j \in DOMAIN pend : ~pend[j].blank
      BY <1>15 DEF Blank
    <3>2. j \in 1..p
      BY <3>1, <1>1, TextParts DEF p, pend
    <3> QED BY <3>1, <3>2, <1>1, <1>2, <1>10
  <2>2. 1 \in 1..n /\ start[1] = 1
    <3>1. PICK k \in 1..n : start[k] = 1
      BY <2>1, <1>5
    <3>2. 1 \in 1..n /\ start[1] \in 1..m
      <4>1. 1 \in 1..n
        BY <3>1, <1>5
      <4>2. start[1] \in starts
        BY <4>1, <1>5
      <4> QED BY <4>1, <4>2, <1>5
    <3>3. CASE k = 1
      BY <3>1, <3>2, <3>3
    <3>4. CASE k # 1
      <4>1. 1 < k
        BY <3>4, <1>5
      <4>2. start[1] < start[k]
        BY <4>1, <3>2, <1>5
      <4> QED BY <4>2, <3>1, <3>2, <1>2
    <3> QED BY <3>3, <3>4
  <2>3. ASSUME NEW k \in 2..n PROVE Heard(runs[k]) = <<>>
    <3>1. k \in 1..n /\ 1 < k
      BY <1>5
    <3>2. start[1] < start[k]
      BY <3>1, <2>2, <1>5
    <3>3. start[k] \in starts /\ start[k] \in 1..m /\ start[k] # 1
      <4>1. start[k] \in starts
        BY <3>1, <1>5
      <4>2. start[k] \in 1..m
        BY <4>1, <1>5
      <4> QED BY <4>1, <4>2, <3>2, <2>2, <1>2
    <3>4. ~(start[k] <= p)
      <4>1. SUFFICES ASSUME start[k] <= p PROVE FALSE
        OBVIOUS
      <4>2. start[k] - 1 \in 1..m /\ start[k] - 1 <= p
        BY <4>1, <3>3, <1>1, <1>2
      <4> QED BY <4>1, <4>2, <3>3, <1>8, <1>9
    <3>5. \A i \in 1..m : start[k] <= i => i \in p + 1..m
      BY <3>3, <3>4, <1>1, <1>2
    <3> QED BY <3>1, <3>5, <1>2, <1>13
  <2>4. p <= end[1]
    <3>1. p \in 1..m
      BY <2>1, <1>1, <1>2
    <3>2. \A k \in 1..p : k \in 1..m /\ k <= p
      BY <3>1, <1>1, <1>2
    <3>3. \A k \in 1..p : speaker[k] = speaker[1]
      BY <3>2, <2>1, <1>8
    <3> QED BY <3>1, <3>3, <2>1, <1>6
  <2> DEFINE first == piece[1]
  <2>5. /\ first \in Texts /\ Len(first) = end[1] /\ end[1] \in Nat /\ end[1] <= m
        /\ \A i \in 1..Len(first) : first[i] = text[i]
        /\ runs[1] = [speaker |-> acc.pending_speaker, text |-> first]
    <3>1. /\ first \in Texts /\ Len(first) = end[1] - 1 + 1 /\ end[1] \in Nat /\ end[1] <= m
          /\ \A i \in 1..Len(first) : first[i] = text[1 + i - 1]
          /\ runs[1] = [speaker |-> speaker[1], text |-> first]
      BY <2>2, <1>11
    <3>2. speaker[1] = acc.pending_speaker
      BY <2>1, <1>8
    <3>3. \A i \in 1..Len(first) : 1 + i - 1 = i
      OBVIOUS
    <3> HIDE DEF first
    <3> QED BY <3>1, <3>2, <3>3, <1>2
  <2> HIDE DEF first
  <2>6. /\ \A i \in 1..p : first[i] = pend[i]
        /\ \A i \in p + 1..Len(first) : first[i].nth = 0
    <3>1. \A i \in 1..p : i \in 1..Len(first)
      BY <2>4, <2>5, <1>1
    <3>2. \A i \in p + 1..Len(first) : i \in 1..Len(first) /\ i \in p + 1..m
      BY <2>5, <1>1, <1>2
    <3> QED BY <3>1, <3>2, <2>5, <1>2
  <2>7. DurableOf(first) = DurableOf(pend)
    BY <2>4, <2>5, <2>6, <1>1, DurableOfPrefix DEF p, pend
  <2>8. Heard(runs[1]) = Heard(Pending(Here))
    <3>1. Pending(Here) = [speaker |-> acc.pending_speaker, text |-> pend]
      BY DEF Pending, Here, pend
    <3> QED BY <3>1, <2>5, <2>7 DEF Heard
  <2>9. IsPrefix(pend, first)
    <3>1. SubSeq(pend, 1, p) = pend
      BY <1>1, SubSeqFull DEF Texts, p, pend
    <3>2. SubSeq(first, 1, p) = pend
      <4>1. \A i \in 1..p : first[i] \in TextPiece
        BY <2>6, <1>1
      <4>2. /\ SubSeq(first, 1, p) \in Texts /\ Len(SubSeq(first, 1, p)) = p
            /\ \A i \in 1..p : SubSeq(first, 1, p)[i] = first[i]
        <5>1. /\ SubSeq(first, 1, p) \in Texts
              /\ Len(SubSeq(first, 1, p)) = IF 1 <= p THEN p - 1 + 1 ELSE 0
              /\ \A i \in 1..p - 1 + 1 : SubSeq(first, 1, p)[i] = first[1 + i - 1]
          BY <4>1, <1>1, SubSeqProperties DEF Texts
        <5> QED BY <5>1, <1>1
      <4> QED BY <4>2, <2>6, <1>1, SeqEqual DEF Texts, p, pend
    <3>3. Len(pend) = p
      BY DEF p, pend
    <3> QED BY <3>1, <3>2, <3>3, <2>4, <2>5 DEF IsPrefix
  <2>10. runs # <<>>
    <3>1. Len(runs) # 0
      BY <2>2, <1>5, <1>12
    <3> QED BY <3>1
  <2>11. \A i \in 2..Len(runs) : Heard(runs[i]) = <<>>
    BY <2>3, <1>12
  <2>12. IsPrefix(pend, runs[1].text)
    BY <2>5, <2>9
  <2> QED BY <2>8, <2>10, <2>11, <2>12, <1>12, <1>15 DEF runs, pend
<1> QED BY <1>14, <1>15

\* finish delivers what flush would have: the front of the first open run is the pending
\* text, and nothing else on screen is durable.
LEMMA FinishDelivers ==
  ASSUME AccInv, spoken \in Nat, Spoken(Here, spoken), Screened, FinishAndReset
  PROVE  said' = Flush(Here).said
<1> DEFINE runs == acc.open_runs
           m == Len(runs)
           s == [i \in 1..m |-> Heard(runs[i])]
           h == Heard(Pending(Here))
           sd == said
<1>1. runs \in Seq(Run) /\ m \in Nat
  <2>1. runs \in Seq(Run)
    BY DEF Spoken, Here
  <2> QED BY <2>1, LenProperties
<1>2. ASSUME NEW i \in 1..m PROVE s[i] \in Seq(Credit)
  <2>1. runs[i] \in Run
    BY <1>1, ElementOfSeq
  <2>2. /\ runs[i].speaker \in Label /\ runs[i].text \in Texts
        /\ runs[i] = [speaker |-> runs[i].speaker, text |-> runs[i].text]
    BY <2>1 DEF Run, Texts
  <2>3. Heard([speaker |-> runs[i].speaker, text |-> runs[i].text]) \in Seq(Credit)
    BY <2>2, HeardList
  <2> QED BY <2>2, <2>3
<1>3. s \in [1..m -> Seq(Credit)]
  BY <1>2
<1>4. said' = sd \o FlattenSeq(s)
  BY DEF FinishAndReset
<1>5. sd \in Seq(Credit) /\ sd \o <<>> = sd
  <2>1. sd \in Seq(Credit)
    BY DEF Spoken, Here
  <2> QED BY <2>1, ConcatEmptySeq
<1>6. CASE Blank(acc.pending)
  <2>1. \A i \in 1..m : s[i] = <<>>
    BY <1>6 DEF Screened
  <2> HIDE DEF s, m, sd
  <2>2. FlattenSeq(s) = <<>>
    <3>1. \A i \in 2..m : s[i] = <<>>
      BY <2>1, <1>1
    <3>2. FlattenSeq(s) = IF m = 0 THEN <<>> ELSE s[1]
      BY <3>1, <1>1, <1>3, FlattenFirst
    <3>3. m = 0 \/ 1 \in 1..m
      BY <1>1
    <3> QED BY <2>1, <3>2, <3>3
  <2>3. Flush(Here).said = sd
    <3>1. Here.acc = acc /\ Here.said = sd
      BY DEF Here, sd
    <3>2. Flush(Here) = [Here EXCEPT !.acc = [Here.acc EXCEPT !.pending = <<>>]]
      BY <1>6, <3>1 DEF Flush
    <3>3. "said" \in DOMAIN Here
      BY DEF Here
    <3> QED BY <3>1, <3>2, <3>3
  <2> QED BY <2>2, <2>3, <1>4, <1>5
<1>7. CASE ~Blank(acc.pending)
  <2>1. /\ runs # <<>> /\ Heard(runs[1]) = h /\ \A i \in 2..m : Heard(runs[i]) = <<>>
    BY <1>7 DEF Screened
  <2>2. m # 0 /\ 1 \in 1..m /\ (\A i \in 2..m : i \in 1..m)
    BY <2>1, <1>1, EmptySeq
  <2>3. s[1] = h /\ \A i \in 2..m : s[i] = <<>>
    BY <2>1, <2>2
  <2> HIDE DEF s, m, h, sd
  <2>4. FlattenSeq(s) = h
    <3>1. FlattenSeq(s) = IF m = 0 THEN <<>> ELSE s[1]
      BY <2>3, <1>1, <1>3, FlattenFirst
    <3> QED BY <3>1, <2>2, <2>3
  <2>5. Flush(Here).said = sd \o h
    BY <1>7 DEF Flush, Here, Pending, sd, h
  <2> QED BY <2>4, <2>5, <1>4
<1> QED BY <1>6, <1>7

\* A new accumulator has been told nothing.
LEMMA NewSpoken ==
  ASSUME NEW x, NEW y, NEW n \in Nat, Spoken(x, n), x.acc.pending = <<>>,
         y.acc = New, y.said = x.said
  PROVE  Spoken(y, n)
<1>1. /\ New.pending = <<>> /\ New.open_runs = <<>> /\ New.open_ids = <<>>
      /\ New.pending_speaker = NoSpeaker
  BY DEF New
<1>2. New \in [pending : Texts, pending_speaker : Label, open_runs : Seq(Run),
               open_ids : Seq(Nat)]
  <2>1. <<>> \in Seq(Run) /\ <<>> \in Seq(Nat) /\ <<>> \in Texts /\ NoSpeaker \in Label
    BY EmptySeq, NoWords DEF Label
  <2> QED BY <2>1 DEF New
<1>3. Len(y.acc.pending) = 0 /\ Len(<<>>) = 0
  BY <1>1
<1>4. /\ y.said \in Seq(Credit) /\ \A i \in 1..Len(y.said) : y.said[i].own
  BY DEF Spoken
<1>5. NthOf(y.said) \o NthOf(DurableOf(y.acc.pending)) = [i \in 1..n |-> i]
  BY <1>1 DEF Spoken
<1>6. y.acc \in [pending : Texts, pending_speaker : Label, open_runs : Seq(Run),
                 open_ids : Seq(Nat)]
  BY <1>2
<1> QED BY ONLY <1>3, <1>4, <1>5, <1>6 DEF Spoken

\* Every step keeps the invariant of the words.
LEMMA TextInvStep == ASSUME TextInv, [AccNext]_accVars PROVE TextInv'
<1> USE DEF TextInv
<1>1. AccInv'
  BY StepAdvances DEF Advances, AccInv, Here
<1>2. CASE ReceiveResponse
  <2>1. Here' = Here /\ spoken' = spoken
    BY <1>2 DEF ReceiveResponse, Here
  <2>2. Spoken(Here', spoken')
    BY <2>1
  <2>3. phase' = "durable" /\ responses' \in 0..MaxResponses /\ todo' \in 0..MaxDurable
    BY <1>2, AccumulatorAssumption DEF ReceiveResponse
  <2> QED BY <1>1, <2>1, <2>2, <2>3 DEF Here
<1>3. ASSUME NEW kind \in {"word", "stop", "blank", "end", "fin"}, NEW label \in Label,
             IngestDurable(kind, label)
      PROVE  TextInv'
  <2> DEFINE more == kind \in {"word", "stop"}
             y == IngestToken(Here, kind, label, IF more THEN spoken + 1 ELSE 0)
             m == IF more THEN spoken + 1 ELSE spoken
  <2>1. Spoken(y, m)
    BY TokenSpoken DEF AccInv
  <2>2. /\ acc' = y.acc /\ said' = y.said /\ spoken' = m
        /\ phase' = "durable" /\ responses' = responses /\ todo' = todo - 1 /\ todo > 0
    BY <1>3 DEF IngestDurable, Become
  <2>3. m \in Nat
    OBVIOUS
  <2> HIDE DEF y, m
  <2>4. Here'.acc = y.acc /\ Here'.said = y.said
    BY <2>2 DEF Here
  <2>5. Spoken(Here', spoken')
    BY <2>1, <2>2, <2>4 DEF Spoken
  <2>6. todo' \in 0..MaxDurable
    BY <2>2, AccumulatorAssumption
  <2> QED BY <1>1, <2>2, <2>3, <2>5, <2>6 DEF Here
<1>4. ASSUME NEW tail \in Tails, RebuildOpen(tail) PROVE TextInv'
  <2> DEFINE runs == BuildOpenRuns(tail)
             ids == SubSeq(IdsFor(Len(runs)), 1, Len(runs))
  <2>1. /\ runs \in Seq(Run)
        /\ IF Blank(acc.pending)
           THEN \A i \in 1..Len(runs) : Heard(runs[i]) = <<>>
           ELSE /\ runs # <<>>
                /\ IsPrefix(acc.pending, runs[1].text)
                /\ Heard(runs[1]) = Heard(Pending(Here))
                /\ \A i \in 2..Len(runs) : Heard(runs[i]) = <<>>
    BY OpenRuns
  <2>2. /\ acc' = [acc EXCEPT !.open_runs = runs, !.open_ids = ids] /\ said' = said
        /\ phase' = "idle" /\ todo' = 0 /\ UNCHANGED <<spoken, responses>>
    BY <1>4 DEF RebuildOpen, PublishOpen
  <2>3. acc'.open_ids \in Seq(Nat)
    BY <1>1 DEF AccInv, Sound, Here
  <2> HIDE DEF runs, ids
  <2>4. acc \in [pending : Texts, pending_speaker : Label, open_runs : Seq(Run),
                 open_ids : Seq(Nat)]
    BY DEF Spoken, Here
  <2>5. /\ acc'.pending = acc.pending /\ acc'.pending_speaker = acc.pending_speaker
        /\ acc'.open_runs = runs /\ acc'.open_ids = ids
        /\ acc' \in [pending : Texts, pending_speaker : Label, open_runs : Seq(Run),
                     open_ids : Seq(Nat)]
    BY <2>1, <2>2, <2>3, <2>4
  <2>6. Spoken(Here', spoken')
    <3>1. /\ Here.acc = acc /\ Here.said = said /\ Here'.acc = acc' /\ Here'.said = said
          /\ spoken' = spoken
      BY <2>2 DEF Here
    <3> QED BY <3>1, <2>5 DEF Spoken
  <2>7. Pending(Here)' = Pending(Here)
    BY <2>5 DEF Pending, Here
  <2>8. Screened'
    BY <2>1, <2>5, <2>7 DEF Screened
  <2>9. 0 \in 0..MaxDurable
    BY AccumulatorAssumption
  <2> QED BY <1>1, <2>2, <2>6, <2>8, <2>9 DEF Here
<1>5. CASE FinishAndReset
  <2>1. /\ acc' = New /\ phase' = phase /\ phase = "idle"
        /\ spoken' = spoken /\ responses' = responses /\ todo' = todo
    BY <1>5 DEF FinishAndReset
  <2>2. said' = Flush(Here).said
    BY <1>5, <2>1, FinishDelivers
  <2>3. Spoken(Flush(Here), spoken) /\ Flush(Here).acc.pending = <<>>
    BY FlushSpoken DEF AccInv
  <2>4. Here'.acc = New /\ Here'.said = Flush(Here).said
    BY <2>1, <2>2 DEF Here
  <2>5. Spoken(Here', spoken')
    BY <2>1, <2>3, <2>4, NewSpoken
  <2>6. Screened'
    <3>1. Len(<<>>) = 0 /\ acc'.pending = <<>> /\ acc'.open_runs = <<>>
      BY <2>1 DEF New
    <3>2. Blank(acc'.pending)
      BY <3>1 DEF Blank
    <3> QED BY <3>1, <3>2 DEF Screened, Blank
  <2> QED BY <1>1, <2>1, <2>5, <2>6 DEF Here
<1>6. CASE UNCHANGED accVars
  <2>1. UNCHANGED <<acc, phase, said, spoken, responses, todo>> /\ Here' = Here
    BY <1>6 DEF accVars, Here
  <2>2. Spoken(Here', spoken') /\ (phase' = "idle" => Screened')
    BY <2>1 DEF Screened, Pending, Here
  <2> QED BY <1>1, <2>1, <2>2 DEF Here
<1> QED BY <1>2, <1>3, <1>4, <1>5, <1>6 DEF AccNext

LEMMA AlwaysTextInv == AccSpec => []TextInv
<1>1. ASSUME AccInit PROVE TextInv
  <2>1. AccInv
    BY <1>1, AccInvInit
  <2>2. acc = New /\ said = <<>> /\ spoken = 0 /\ phase = "idle" /\ responses = 0 /\ todo = 0
    BY <1>1 DEF AccInit
  <2>3. <<>> \in Seq(Credit) /\ Len(<<>>) = 0 /\ [i \in 1..0 |-> i] = <<>>
    BY EmptySeq
  <2>4. NthOf(<<>>) \o NthOf(DurableOf(<<>>)) = [i \in 1..0 |-> i]
    BY <2>3, NoWords
  <2> DEFINE x == [acc |-> New, said |-> <<>>]
  <2>5. Spoken(x, 0)
    <3>1. New \in [pending : Texts, pending_speaker : Label, open_runs : Seq(Run),
                   open_ids : Seq(Nat)]
      <4>1. <<>> \in Seq(Run) /\ <<>> \in Seq(Nat) /\ <<>> \in Texts /\ NoSpeaker \in Label
        BY EmptySeq, NoWords DEF Label
      <4> QED BY <4>1 DEF New
    <3>2. x.acc = New /\ x.said = <<>> /\ New.pending = <<>>
      BY DEF New
    <3> HIDE DEF x
    <3> QED BY <2>3, <2>4, <3>1, <3>2 DEF Spoken
  <2>6. Spoken(Here, spoken)
    <3>1. x.acc = Here.acc /\ x.said = Here.said /\ x.acc = New /\ New.pending = <<>>
      BY <2>2 DEF Here, New
    <3> HIDE DEF x
    <3> QED BY <2>2, <2>5, <3>1 DEF Spoken
  <2>7. Screened
    <3>1. acc.pending = <<>> /\ acc.open_runs = <<>>
      BY <2>2 DEF New
    <3> QED BY <2>3, <3>1 DEF Screened, Blank
  <2> QED BY <2>1, <2>2, <2>6, <2>7, AccumulatorAssumption DEF TextInv
<1> QED BY <1>1, TextInvStep, PTL DEF AccSpec

\* Every durable token the service sends is delivered exactly once and in order, in closed
\* segments or as the text still pending, and between responses all of that is on screen, so
\* a teardown that finalizes the open runs loses and repeats nothing
\* (accumulator.rs:239-288).
THEOREM AlwaysDurableText == AccSpec => []DurableText
<1>1. ASSUME TextInv PROVE DurableText
  <2> USE DEF TextInv
  <2> DEFINE runs == acc.open_runs
             pend == acc.pending
  <2>1. /\ acc \in [pending : Texts, pending_speaker : Label, open_runs : Seq(Run),
                    open_ids : Seq(Nat)]
        /\ said \in Seq(Credit)
        /\ NthOf(said) \o NthOf(DurableOf(pend)) = [i \in 1..spoken |-> i]
    BY <1>1 DEF Spoken, Here
  <2>2. /\ next_id \in Nat \ {0}
        /\ store \in [open : SUBSET (1..next_id - 1), closed : SUBSET (1..next_id - 1),
                      reopened : {{}}]
        /\ store.open = Items(acc.open_ids)
    BY <1>1 DEF AccInv, Sound, Here
  <2>3. acc.open_ids \in Seq(Nat \ {0})
    <3> DEFINE ids == acc.open_ids
    <3>1. ids \in Seq(Nat) /\ store.open \subseteq 1..next_id - 1
      BY <2>1, <2>2
    <3>2. Len(ids) \in Nat /\ ids \in [1..Len(ids) -> Nat]
      BY <3>1, LenProperties
    <3>3. \A i \in 1..Len(ids) : ids[i] \in 1..next_id - 1
      BY <3>1, <2>2 DEF Items
    <3> HIDE DEF ids
    <3>4. ids \in [1..Len(ids) -> Nat \ {0}]
      BY <3>2, <3>3, <2>2
    <3>5. ids \in Seq(Nat \ {0})
      BY <3>2, <3>4, SeqDef
    <3> QED BY <3>5 DEF ids
  <2>4. AccTypeOK
    <3>1. acc \in [pending : Seq(TextPiece), pending_speaker : Label,
                   open_runs : Seq(Run), open_ids : Seq(Nat \ {0})]
      BY <2>1, <2>3 DEF Texts
    <3>2. store \in [open : SUBSET (1..next_id - 1), closed : SUBSET (1..next_id - 1),
                     reopened : SUBSET (1..next_id - 1)]
      BY <2>2
    <3> QED BY <1>1, <2>1, <2>2, <3>1, <3>2 DEF AccTypeOK
  <2>5. DurableExactlyOnce
    BY <2>1 DEF DurableExactlyOnce
  <2>6. DurableOnScreen
    <3>1. runs \in Seq(Run) /\ Len(runs) \in Nat /\ DOMAIN runs = 1..Len(runs)
      BY <2>1, LenProperties
    <3>2. CASE phase # "idle"
      BY <3>2 DEF DurableOnScreen
    <3>3. CASE phase = "idle" /\ Blank(pend)
      BY <1>1, <3>1, <3>3 DEF Screened, DurableOnScreen
    <3>4. CASE phase = "idle" /\ ~Blank(pend)
      <4>1. /\ runs # <<>> /\ IsPrefix(pend, runs[1].text)
            /\ Heard(runs[1]) = Heard(Pending(Here))
            /\ \A i \in 2..Len(runs) : Heard(runs[i]) = <<>>
        BY <1>1, <3>4 DEF Screened
      <4>2. NthOf(Heard(Pending(Here))) = NthOf(DurableOf(pend))
        <5>1. Pending(Here) = [speaker |-> acc.pending_speaker, text |-> pend]
          BY DEF Pending, Here
        <5> QED BY <5>1, <2>1, HeardList
      <4>3. ASSUME NEW i \in DOMAIN runs
            PROVE  NthOf(Heard(runs[i])) = IF i = 1 THEN NthOf(DurableOf(pend)) ELSE <<>>
        <5>1. CASE i = 1
          BY <5>1, <4>1, <4>2
        <5>2. CASE i # 1
          <6>1. i \in 2..Len(runs)
            BY <5>2, <3>1
          <6> QED BY <5>2, <6>1, <4>1, NoWords
        <5> QED BY <5>1, <5>2
      <4>4. Head(runs) = runs[1]
        BY <3>1, <4>1
      <4> HIDE DEF runs, pend
      <4>5. IF Blank(pend)
            THEN \A i \in DOMAIN runs : Heard(runs[i]) = <<>>
            ELSE /\ runs # <<>>
                 /\ IsPrefix(pend, Head(runs).text)
                 /\ \A i \in DOMAIN runs :
                      NthOf(Heard(runs[i])) = IF i = 1 THEN NthOf(DurableOf(pend)) ELSE <<>>
        BY <3>4, <4>1, <4>3, <4>4
      <4> QED BY <4>5 DEF DurableOnScreen, runs, pend
    <3> QED BY <3>2, <3>3, <3>4
  <2> QED BY <2>4, <2>5, <2>6 DEF DurableText
<1> QED BY <1>1, AlwaysTextInv, PTL

\* Durable speech is only ever credited to the speaker the service named, or to the current
\* one where it named none.
THEOREM AlwaysCreditedToSpeaker == AccSpec => []CreditedToSpeaker
<1>1. ASSUME TextInv PROVE CreditedToSpeaker
  <2>1. /\ acc.pending \in Texts /\ said \in Seq(Credit)
        /\ \A i \in 1..Len(acc.pending) :
             ~acc.pending[i].blank => acc.pending[i].label \in {NoSpeaker, acc.pending_speaker}
        /\ \A i \in 1..Len(said) : said[i].own
    BY <1>1 DEF TextInv, Spoken, Here
  <2>2. DOMAIN acc.pending = 1..Len(acc.pending) /\ DOMAIN said = 1..Len(said)
    BY <2>1, LenProperties DEF Texts
  <2> QED BY <2>1, <2>2 DEF CreditedToSpeaker
<1> QED BY <1>1, AlwaysTextInv, PTL

-------------------------------------------------------------------------------
(***************************************************************************)
(* The adapter: no text and no reason lost between the socket and the      *)
(* transcript.                                                             *)
(***************************************************************************)
Updates == [open : SUBSET Piece, final : SUBSET Piece]
Folds == [live : SUBSET Piece, updates : Updates, transient : BOOLEAN, fatal : BOOLEAN]

\* Responses are numbered as they come, each is in one place, and the contract's last message
\* is the last.
Numbered == \E n \in 0..MaxPieces : produced = 1..n
Distinct ==
  /\ PiecesOf(inbound) \cap (Known(shown) \cup Known(collected)) = {}
  /\ \A i, j \in 1..Len(inbound) :
       i # j /\ inbound[i].type = "response" /\ inbound[j].type = "response"
         => inbound[i].piece # inbound[j].piece
LastIsLast ==
  \A i \in 1..Len(inbound) : inbound[i] \in LastInbound => i = Len(inbound) /\ ~alive

\* A status that ends the session is there only when the thread has nothing more to say.
Quiet == inbound = <<>> /\ ~alive
Ending ==
  /\ pc \in {"new", "failed"} => shown = Nothing /\ collected = Nothing /\ produced = {}
  /\ pc = "new" => inbound = <<>> /\ error = "none"
  /\ pc \in {"loop", "drain"} => ~discard /\ error = "none"
  /\ pc \in {"loop", "ending"} => collected = Nothing
  /\ discard <=> error \in {"fatal", "closed"}
  /\ pending_fatal => Quiet /\ live = {}
  /\ send_error = "fatal" => ~alive
  /\ error \in {"fatal", "closed"} => Quiet
  /\ error = "closed" => ~pending_fatal
  /\ shown.open \cap shown.final = {}
  /\ error = "fatal" => shown.open = {} /\ shown.final = produced
  /\ pc \in {"dropping", "over"} => live = {} /\ (timed_out \/ Quiet)
  /\ pc \in {"failed", "over"} => ~alive

BackendInv == /\ TypeOK /\ Numbered /\ Distinct /\ LastIsLast /\ NothingLost /\ OpenIsLive /\ Ending
        /\ StopKeepsAll

-------------------------------------------------------------------------------
(***************************************************************************)
(* Updates and folding.                                                    *)
(***************************************************************************)
\* A later batch adds what it names and takes nothing away.
LEMMA ThenUpdates ==
  ASSUME NEW u \in Updates, NEW v \in Updates
  PROVE  Then(u, v) \in Updates /\ Known(Then(u, v)) = Known(u) \cup Known(v)
BY DEF Updates, Then, Known

LEMMA NothingUpdates == Nothing \in Updates /\ Known(Nothing) = {}
BY DEF Nothing, Updates, Known

\* A response nobody has seen adds its piece, and what shows as open stays what is live.
LEMMA IngestKeeps ==
  ASSUME NEW u \in Updates, NEW s \in Folds, NEW m \in Inbound, m.type = "response",
         m.piece \notin Known(u) \cup Known(s.updates), Then(u, s.updates).open = s.live
  PROVE  /\ Ingest(s, m) \in Folds
         /\ Then(u, Ingest(s, m).updates).open = Ingest(s, m).live
         /\ Known(u) \cup Known(Ingest(s, m).updates) = Known(u) \cup Known(s.updates) \cup {m.piece}
         /\ Ingest(s, m).transient = s.transient /\ Ingest(s, m).fatal = s.fatal
<1>1. m.piece \in Piece
  BY DEF Inbound, Response, Notice, LastInbound
<1>2. CASE m.endpoint
  <2>1. Ingest(s, m).live = {} /\ Ingest(s, m).transient = s.transient
        /\ Ingest(s, m).fatal = s.fatal
        /\ Ingest(s, m).updates = Then(s.updates, [open |-> {}, final |-> s.live \cup {m.piece}])
        /\ Ingest(s, m) \in Folds
    BY <1>1, <1>2 DEF Ingest, Folds, Then, Updates
  <2> QED BY <1>1, <2>1 DEF Folds, Then, Updates, Known
<1>3. CASE ~m.endpoint
  <2>1. Ingest(s, m).live = s.live \cup {m.piece} /\ Ingest(s, m).transient = s.transient
        /\ Ingest(s, m).fatal = s.fatal
        /\ Ingest(s, m).updates = Then(s.updates, [open |-> {m.piece}, final |-> {}])
        /\ Ingest(s, m) \in Folds
    BY <1>1, <1>3 DEF Ingest, Folds, Then, Updates
  <2> QED BY <1>1, <2>1 DEF Folds, Then, Updates, Known
<1> QED BY <1>2, <1>3

\* Finishing what is open adds no piece and leaves none open.
LEMMA FinishKeeps ==
  ASSUME NEW u \in Updates, NEW s \in Folds, Then(u, s.updates).open = s.live
  PROVE  /\ FinishOpen(s) \in Folds
         /\ FinishOpen(s).live = {} /\ Then(u, FinishOpen(s).updates).open = {}
         /\ Known(u) \cup Known(FinishOpen(s).updates) = Known(u) \cup Known(s.updates)
         /\ FinishOpen(s).transient = s.transient /\ FinishOpen(s).fatal = s.fatal
<1>1. FinishOpen(s).live = {} /\ FinishOpen(s).transient = s.transient
      /\ FinishOpen(s).fatal = s.fatal
      /\ FinishOpen(s).updates = Then(s.updates, [open |-> {}, final |-> s.live])
      /\ FinishOpen(s) \in Folds
  BY DEF FinishOpen, Folds, Then, Updates
<1> QED BY <1>1 DEF Folds, Then, Updates, Known

\* What a message carries.
PieceOf(m) == IF m.type = "response" THEN {m.piece} ELSE {}

LEMMA Messages ==
  /\ \A m \in Inbound : /\ m.type \in {"response", "reconnecting", "finished", "fatal"}
                        /\ m \in LastInbound <=> m.type \in {"finished", "fatal"}
                        /\ m.type # "response" => m = Notice(m.type)
                        /\ PieceOf(m) \subseteq Piece
  /\ \A k \in Piece, e \in BOOLEAN : /\ Response(k, e) \in Inbound \ LastInbound
                                     /\ Response(k, e).type = "response"
                                     /\ Response(k, e).piece = k
  /\ Notice("reconnecting") \in Inbound \ LastInbound /\ Notice("reconnecting").type = "reconnecting"
  /\ LastInbound \subseteq Inbound
BY DEF Inbound, Response, Notice, LastInbound, PieceOf

\* One message of drain_inbound.
LEMMA FoldKeeps ==
  ASSUME NEW u \in Updates, NEW s \in Folds, NEW m \in Inbound,
         PieceOf(m) \cap (Known(u) \cup Known(s.updates)) = {}, Then(u, s.updates).open = s.live
  PROVE  /\ Fold(s, m) \in Folds
         /\ Then(u, Fold(s, m).updates).open = Fold(s, m).live
         /\ Known(u) \cup Known(Fold(s, m).updates) = Known(u) \cup Known(s.updates) \cup PieceOf(m)
         /\ Fold(s, m).fatal => s.fatal \/ (m.type = "fatal" /\ Fold(s, m).live = {})
<1>1. CASE m.type = "response"
  <2>1. Fold(s, m) = Ingest(s, m) /\ PieceOf(m) = {m.piece}
    BY <1>1 DEF Fold, PieceOf
  <2>2. m.piece \notin Known(u) \cup Known(s.updates)
    BY <2>1
  <2> HIDE DEF Ingest
  <2>3. /\ Ingest(s, m) \in Folds
        /\ Then(u, Ingest(s, m).updates).open = Ingest(s, m).live
        /\ Known(u) \cup Known(Ingest(s, m).updates) = Known(u) \cup Known(s.updates) \cup {m.piece}
        /\ Ingest(s, m).fatal = s.fatal
    BY <1>1, <2>2, IngestKeeps
  <2>4. Fold(s, m).fatal => s.fatal
    BY <2>1, <2>3, Zenon
  <2> QED BY <2>1, <2>3, <2>4
<1>2. CASE m.type = "reconnecting"
  <2>1. Fold(s, m) = [FinishOpen(s) EXCEPT !.transient = TRUE] /\ PieceOf(m) = {}
    BY <1>2 DEF Fold, PieceOf
  <2>2. /\ Fold(s, m) \in Folds /\ Fold(s, m).live = FinishOpen(s).live
        /\ Fold(s, m).updates = FinishOpen(s).updates /\ Fold(s, m).fatal = FinishOpen(s).fatal
    BY <2>1, FinishKeeps DEF Folds
  <2> QED BY <2>1, <2>2, FinishKeeps
<1>3. CASE m.type = "finished"
  <2>1. Fold(s, m) = s /\ PieceOf(m) = {}
    BY <1>3 DEF Fold, PieceOf
  <2>2. Known(u) \cup Known(Fold(s, m).updates) = Known(u) \cup Known(s.updates) \cup PieceOf(m)
    BY <2>1
  <2>3. Fold(s, m).fatal => s.fatal
    BY <2>1, Zenon
  <2> QED BY <2>1, <2>2, <2>3
<1>4. CASE m.type = "fatal"
  <2>1. Fold(s, m) = [FinishOpen(s) EXCEPT !.fatal = TRUE] /\ PieceOf(m) = {}
    BY <1>4 DEF Fold, PieceOf
  <2>2. /\ Fold(s, m) \in Folds /\ Fold(s, m).live = FinishOpen(s).live
        /\ Fold(s, m).updates = FinishOpen(s).updates
    BY <2>1, FinishKeeps DEF Folds
  <2> QED BY <1>4, <2>1, <2>2, FinishKeeps
<1> QED BY <1>1, <1>2, <1>3, <1>4, Messages

-------------------------------------------------------------------------------
(***************************************************************************)
(* The channel.                                                            *)
(***************************************************************************)
\* Reading takes the piece of the first message out of the channel and no other.
LEMMA ReadHead ==
  ASSUME inbound \in Seq(Inbound), Distinct, LastIsLast, inbound # <<>>
  PROVE  /\ Head(inbound) \in Inbound /\ Tail(inbound) \in Seq(Inbound)
         /\ PiecesOf(inbound) = PiecesOf(Tail(inbound)) \cup PieceOf(Head(inbound))
         /\ PiecesOf(Tail(inbound)) \cap PieceOf(Head(inbound)) = {}
         /\ PieceOf(Head(inbound)) \cap (Known(shown) \cup Known(collected)) = {}
         /\ Head(inbound) \in LastInbound => Tail(inbound) = <<>> /\ ~alive
<1>1. /\ Head(inbound) = inbound[1] /\ Len(Tail(inbound)) + 1 = Len(inbound)
      /\ Len(inbound) \in Nat /\ Len(inbound) > 0 /\ Tail(inbound) \in Seq(Inbound)
      /\ \A i \in 1..Len(Tail(inbound)) : Tail(inbound)[i] = inbound[i + 1]
      /\ \A i \in 1..Len(inbound) : inbound[i] \in Inbound
  OBVIOUS
<1>2. \A i \in 1..Len(inbound) : i = 1 \/ (/\ i - 1 \in 1..Len(Tail(inbound))
                                           /\ inbound[i] = Tail(inbound)[i - 1])
  <2> TAKE i \in 1..Len(inbound)
  <2>2. CASE i # 1
    <3>1. i - 1 \in 1..Len(Tail(inbound)) BY <1>1, <2>2
    <3>2. Tail(inbound)[i - 1] = inbound[(i - 1) + 1] BY <1>1, <3>1
    <3> QED BY <3>1, <3>2
  <2> QED BY <2>2
<1>3. PiecesOf(inbound) = PiecesOf(Tail(inbound)) \cup PieceOf(Head(inbound))
  <2>1. PiecesOf(inbound) \subseteq PiecesOf(Tail(inbound)) \cup PieceOf(Head(inbound))
    <3>1. ASSUME NEW i \in 1..Len(inbound), inbound[i].type = "response"
          PROVE  inbound[i].piece \in PiecesOf(Tail(inbound)) \cup PieceOf(Head(inbound))
      <4>1. CASE i = 1
        BY <1>1, <3>1, <4>1 DEF PieceOf
      <4>2. CASE i # 1
        BY <1>2, <3>1, <4>2 DEF PiecesOf
      <4> QED BY <4>1, <4>2
    <3> QED BY <3>1 DEF PiecesOf
  <2>2. PiecesOf(Tail(inbound)) \cup PieceOf(Head(inbound)) \subseteq PiecesOf(inbound)
    <3>1. PieceOf(Head(inbound)) \subseteq PiecesOf(inbound)
      BY <1>1 DEF PiecesOf, PieceOf
    <3>2. ASSUME NEW i \in 1..Len(Tail(inbound)), Tail(inbound)[i].type = "response"
          PROVE  Tail(inbound)[i].piece \in PiecesOf(inbound)
      BY <1>1, <3>2 DEF PiecesOf
    <3>3. PiecesOf(Tail(inbound)) \subseteq PiecesOf(inbound)
      BY <3>2 DEF PiecesOf
    <3> QED BY <3>1, <3>3
  <2> QED BY <2>1, <2>2
<1>4. PiecesOf(Tail(inbound)) \cap PieceOf(Head(inbound)) = {}
  <2>1. ASSUME NEW i \in 1..Len(Tail(inbound)), Tail(inbound)[i].type = "response",
               Head(inbound).type = "response"
        PROVE  Tail(inbound)[i].piece # Head(inbound).piece
    BY <1>1, <2>1 DEF Distinct
  <2> QED BY <2>1 DEF PiecesOf, PieceOf
<1>5. Head(inbound) \in LastInbound => Tail(inbound) = <<>> /\ ~alive
  <2> SUFFICES ASSUME Head(inbound) \in LastInbound PROVE Tail(inbound) = <<>> /\ ~alive
    OBVIOUS
  <2>1. 1 \in 1..Len(inbound) /\ inbound[1] \in LastInbound
    BY <1>1
  <2>2. 1 = Len(inbound) /\ ~alive
    BY <2>1 DEF LastIsLast
  <2>3. Len(Tail(inbound)) = 0
    <3>1. Len(Tail(inbound)) + 1 = Len(inbound) /\ Len(Tail(inbound)) \in Nat
      BY <1>1
    <3> QED BY <2>2, <3>1
  <2> QED BY <1>1, <2>2, <2>3, EmptySeq
<1> QED BY <1>1, <1>3, <1>4, <1>5 DEF Distinct

\* What is left after a message has been read is in order.
LEMMA ReadKeeps ==
  ASSUME inbound \in Seq(Inbound), Distinct, LastIsLast, inbound # <<>>,
         inbound' = Tail(inbound), UNCHANGED alive,
         Known(shown') \cup Known(collected') = Known(shown) \cup Known(collected) \cup PieceOf(Head(inbound))
  PROVE  Distinct' /\ LastIsLast'
<1>1. /\ Len(Tail(inbound)) + 1 = Len(inbound) /\ Len(inbound) \in Nat /\ Len(inbound) > 0
      /\ \A i \in 1..Len(Tail(inbound)) : Tail(inbound)[i] = inbound[i + 1] /\ i + 1 \in 1..Len(inbound)
  OBVIOUS
<1>2. PiecesOf(inbound') \cap (Known(shown') \cup Known(collected')) = {}
  BY ReadHead DEF Distinct
<1>3. \A i, j \in 1..Len(inbound') :
        i # j /\ inbound'[i].type = "response" /\ inbound'[j].type = "response"
          => inbound'[i].piece # inbound'[j].piece
  BY <1>1 DEF Distinct
<1>4. LastIsLast'
  <2> SUFFICES ASSUME NEW i \in 1..Len(inbound'), inbound'[i] \in LastInbound
               PROVE  i = Len(inbound') /\ ~alive'
    BY DEF LastIsLast
  <2>1. inbound[i + 1] \in LastInbound /\ i + 1 \in 1..Len(inbound)
    BY <1>1
  <2>2. i + 1 = Len(inbound) /\ ~alive
    BY <2>1 DEF LastIsLast
  <2>3. Len(inbound') + 1 = Len(inbound) /\ Len(inbound') \in Nat
    BY <1>1
  <2> QED BY <2>2, <2>3
<1> QED BY <1>2, <1>3, <1>4 DEF Distinct

\* A message that is reported goes to the end.
LEMMA AppendPieces ==
  ASSUME inbound \in Seq(Inbound), NEW m \in Inbound, inbound' = Append(inbound, m)
  PROVE  /\ inbound' \in Seq(Inbound) /\ inbound' # <<>> /\ Len(inbound') = Len(inbound) + 1
         /\ inbound'[Len(inbound) + 1] = m
         /\ \A i \in 1..Len(inbound) : inbound'[i] = inbound[i]
         /\ PiecesOf(inbound') = PiecesOf(inbound) \cup PieceOf(m)
<1>1. /\ inbound' \in Seq(Inbound) /\ inbound' # <<>> /\ Len(inbound') = Len(inbound) + 1
      /\ Len(inbound) \in Nat /\ inbound'[Len(inbound) + 1] = m
      /\ \A i \in 1..Len(inbound) : inbound'[i] = inbound[i]
  OBVIOUS
<1>2. PiecesOf(inbound') \subseteq PiecesOf(inbound) \cup PieceOf(m)
  <2>1. \A i \in 1..Len(inbound') : i = Len(inbound) + 1 \/ i \in 1..Len(inbound)
    BY <1>1
  <2> QED BY <1>1, <2>1 DEF PiecesOf, PieceOf
<1>3. PiecesOf(inbound) \subseteq PiecesOf(inbound')
  <2>1. \A i \in 1..Len(inbound) : i \in 1..Len(inbound')
    BY <1>1
  <2> QED BY <1>1, <2>1 DEF PiecesOf
<1>4. PieceOf(m) \subseteq PiecesOf(inbound')
  <2>1. Len(inbound) + 1 \in 1..Len(inbound')
    BY <1>1
  <2> QED BY <1>1, <2>1 DEF PiecesOf, PieceOf
<1> QED BY <1>1, <1>2, <1>3, <1>4

LEMMA ReportKeeps ==
  ASSUME inbound \in Seq(Inbound), Distinct, LastIsLast, alive,
         NEW m \in Inbound, inbound' = Append(inbound, m), UNCHANGED <<shown, collected>>,
         PieceOf(m) \cap (PiecesOf(inbound) \cup Known(shown) \cup Known(collected)) = {},
         m \in LastInbound => ~alive'
  PROVE  Distinct' /\ LastIsLast'
<1>1. \A i \in 1..Len(inbound') : \/ i = Len(inbound) + 1 /\ inbound'[i] = m
                                  \/ i \in 1..Len(inbound) /\ inbound'[i] = inbound[i]
  <2>1. Len(inbound') = Len(inbound) + 1 /\ Len(inbound) \in Nat /\ inbound'[Len(inbound) + 1] = m
        /\ \A i \in 1..Len(inbound) : inbound'[i] = inbound[i]
    BY AppendPieces
  <2> QED BY <2>1
<1>2. PiecesOf(inbound') \cap (Known(shown') \cup Known(collected')) = {}
  BY AppendPieces DEF Distinct
<1>3. \A i \in 1..Len(inbound) : inbound[i].type = "response" => inbound[i].piece \in PiecesOf(inbound)
  BY DEF PiecesOf
<1>4. \A i, j \in 1..Len(inbound') :
        i # j /\ inbound'[i].type = "response" /\ inbound'[j].type = "response"
          => inbound'[i].piece # inbound'[j].piece
  BY <1>1, <1>3 DEF Distinct, PieceOf
<1>5. LastIsLast'
  BY <1>1, AppendPieces DEF LastIsLast
<1> QED BY <1>2, <1>4, <1>5 DEF Distinct

-------------------------------------------------------------------------------
(***************************************************************************)
(* The steps.                                                              *)
(***************************************************************************)
LEMMA FoldingKeeps ==
  ASSUME TypeOK, OpenIsLive
  PROVE  /\ Folding \in Folds /\ Folding.live = live /\ Folding.updates = collected
         /\ Folding.transient = pending_transient /\ Folding.fatal = pending_fatal
         /\ shown \in Updates /\ collected \in Updates
         /\ Then(shown, Folding.updates).open = Folding.live
BY DEF TypeOK, OpenIsLive, Folding, Folds, Updates

\* The socket thread.
LEMMA ClientKeeps ==
  ASSUME BackendInv, ClientNext
  PROVE  BackendInv'
<1> USE DEF BackendInv, loop, backend
<1>1. alive /\ pc # "new" /\ pc \notin {"failed", "over"} /\ ~pending_fatal /\ error \notin {"fatal", "closed"}
      /\ inbound \in Seq(Inbound) /\ UNCHANGED <<loop, backend, shown, owned, timed_out>>
  BY DEF ClientNext, ClientResponds, ClientReconnects, ClientEnds, Ending, Quiet, TypeOK,
         Client!Report, Client!ReportLast, Client!StopSilently, record
<1>2. CASE ClientResponds
  <2>1. PICK n \in 0..MaxPieces : produced = 1..n
    BY DEF Numbered
  <2>2. Cardinality(produced) = n
    BY <2>1, FS_Interval, BackendAssumption
  <2>3. n + 1 \in Piece /\ n + 1 \in 0..MaxPieces /\ produced' = 1..(n + 1)
        /\ produced' = produced \cup {n + 1}
    BY <1>2, <2>1, <2>2, BackendAssumption DEF ClientResponds, Piece
  <2>4. PICK e \in BOOLEAN : /\ inbound' = Append(inbound, Response(n + 1, e))
                             /\ UNCHANGED <<alive, owned>>
    BY <1>2, <2>2 DEF ClientResponds, Client!Report
  <2> DEFINE m == Response(n + 1, e)
  <2>5. m \in Inbound /\ m \notin LastInbound /\ PieceOf(m) = {n + 1}
    BY <2>3, Messages DEF PieceOf
  <2>6. n + 1 \notin PiecesOf(inbound) \cup Known(shown) \cup Known(collected)
    BY <2>1 DEF NothingLost
  <2> HIDE DEF m
  <2>7. inbound' = Append(inbound, m)
    BY <2>4 DEF m
  <2>8. Distinct' /\ LastIsLast'
    BY <1>1, <2>4, <2>5, <2>6, <2>7, ReportKeeps
  <2>9. inbound' \in Seq(Inbound) /\ PiecesOf(inbound') = PiecesOf(inbound) \cup {n + 1}
    BY <1>1, <2>5, <2>7, AppendPieces
  <2>10. TypeOK'
    BY <1>1, <1>2, <2>3, <2>4, <2>9 DEF TypeOK, ClientResponds
  <2>11. Numbered' /\ NothingLost' /\ OpenIsLive' /\ StopKeepsAll'
    BY <1>1, <1>2, <2>3, <2>9 DEF Numbered, NothingLost, OpenIsLive, StopKeepsAll
  <2>12. Ending'
    BY <1>1, <1>2, <2>4 DEF Ending, Quiet
  <2> QED BY <2>8, <2>10, <2>11, <2>12
<1>3. ASSUME NEW m \in Inbound, PieceOf(m) = {}, inbound' = Append(inbound, m),
             m \in LastInbound => ~alive', alive' \in BOOLEAN, UNCHANGED produced,
             outages' \in 0..MaxOutages
      PROVE  BackendInv'
  <2>1. Distinct' /\ LastIsLast'
    BY <1>1, <1>3, ReportKeeps
  <2>2. inbound' \in Seq(Inbound) /\ PiecesOf(inbound') = PiecesOf(inbound)
    BY <1>1, <1>3, AppendPieces
  <2>3. TypeOK'
    BY <1>1, <1>3, <2>2 DEF TypeOK
  <2>4. Numbered' /\ NothingLost' /\ OpenIsLive' /\ StopKeepsAll'
    BY <1>1, <1>3, <2>2 DEF Numbered, NothingLost, OpenIsLive, StopKeepsAll
  <2>5. Ending'
    BY <1>1, <1>3 DEF Ending, Quiet
  <2> QED BY <2>1, <2>3, <2>4, <2>5
<1>4. CASE ClientReconnects
  <2>1. PieceOf(Notice("reconnecting")) = {}
    BY Messages DEF PieceOf
  <2> QED BY <1>3, <1>4, <2>1, Messages, BackendAssumption DEF ClientReconnects, Client!Report, TypeOK
<1>5. CASE ClientEnds
  <2>1. CASE Client!StopSilently
    <3>1. UNCHANGED <<inbound, produced, outages>> /\ alive' = FALSE
      BY <1>5, <2>1 DEF ClientEnds, Client!StopSilently, record
    <3>2. TypeOK' /\ Numbered' /\ OpenIsLive' /\ StopKeepsAll'
      BY <1>1, <3>1 DEF TypeOK, Numbered, OpenIsLive, StopKeepsAll
    <3>4. PiecesOf(inbound') = PiecesOf(inbound) /\ Known(shown') = Known(shown)
          /\ Known(collected') = Known(collected) /\ UNCHANGED <<inbound, produced>>
      BY <1>1, <3>1
    <3>5. Distinct' /\ NothingLost'
      BY <3>4 DEF Distinct, NothingLost
    <3>3. LastIsLast' /\ Ending'
      BY <1>1, <3>1 DEF LastIsLast, Ending, Quiet
    <3> QED BY <3>2, <3>3, <3>5
  <2>2. ASSUME NEW m \in LastInbound, Client!ReportLast(m) PROVE BackendInv'
    <3>1. m \in Inbound /\ PieceOf(m) = {}
      BY Messages DEF PieceOf
    <3>2. inbound' = Append(inbound, m) /\ alive' = FALSE /\ UNCHANGED <<produced, outages>>
      BY <1>5, <2>2 DEF ClientEnds, Client!ReportLast, record
    <3>3. outages \in 0..MaxOutages
      BY DEF TypeOK
    <3> QED BY <1>3, <3>1, <3>2, <3>3
  <2> QED BY <1>5, <2>1, <2>2 DEF ClientEnds
<1> QED BY <1>2, <1>4, <1>5 DEF ClientNext

\* Steps that move no text.
LEMMA TextStays ==
  ASSUME BackendInv, UNCHANGED <<inbound, live, shown, collected, produced>>, alive' => alive
  PROVE  Numbered' /\ Distinct' /\ LastIsLast' /\ NothingLost' /\ OpenIsLive'
<1> USE DEF BackendInv
<1>1. PiecesOf(inbound') = PiecesOf(inbound) /\ Known(shown') = Known(shown)
      /\ Known(collected') = Known(collected)
  OBVIOUS
<1>2. Distinct' /\ NothingLost'
  BY <1>1 DEF Distinct, NothingLost
<1>3. Numbered' /\ LastIsLast' /\ OpenIsLive'
  BY DEF Numbered, LastIsLast, OpenIsLive
<1> QED BY <1>2, <1>3

LEMMA LoopTurnKeeps ==
  ASSUME BackendInv, BeginSession \/ StopSession \/ Iterate \/ ProcessSend \/ StopSeen \/ EndSession
  PROVE  BackendInv'
<1> USE DEF loop, backend, client, record
<1>1. /\ UNCHANGED <<inbound, backend, shown, record>> /\ alive' \in BOOLEAN /\ (alive' => alive)
      /\ owned' \in BOOLEAN
  <2>1. alive \in BOOLEAN /\ owned \in BOOLEAN
    BY DEF BackendInv, TypeOK
  <2>2. UNCHANGED <<inbound, backend, shown, record>>
    BY DEF BeginSession, StopSession, Iterate, ProcessSend, StopSeen, EndSession
  <2>3. \/ alive' = alive /\ owned' = owned
        \/ alive' = FALSE /\ owned' = FALSE
    BY DEF BeginSession, StopSession, Iterate, ProcessSend, StopSeen, EndSession
  <2>4. CASE alive' = alive /\ owned' = owned
    BY <2>1, <2>2, <2>4, Zenon
  <2>5. CASE alive' = FALSE /\ owned' = FALSE
    BY <2>2, <2>5
  <2> QED BY <2>3, <2>4, <2>5
<1>2. Numbered' /\ Distinct' /\ LastIsLast' /\ NothingLost' /\ OpenIsLive'
  BY <1>1, TextStays
<1>3. TypeOK'
  <2> USE <1>1 DEF BackendInv, TypeOK
  <2>1. CASE BeginSession BY <2>1 DEF BeginSession
  <2>2. CASE StopSession BY <2>2 DEF StopSession
  <2>3. CASE Iterate BY <2>3 DEF Iterate
  <2>4. CASE ProcessSend BY <2>4 DEF ProcessSend
  <2>5. CASE StopSeen BY <2>5 DEF StopSeen
  <2>6. CASE EndSession BY <2>6 DEF EndSession
  <2> QED BY <2>1, <2>2, <2>3, <2>4, <2>5, <2>6
<1>4. Ending' /\ StopKeepsAll'
  <2> USE <1>1 DEF BackendInv, TypeOK, Ending, Quiet, StopKeepsAll
  <2>1. CASE BeginSession BY <2>1 DEF BeginSession
  <2>2. CASE StopSession BY <2>2 DEF StopSession
  <2>3. CASE Iterate BY <2>3 DEF Iterate
  <2>4. CASE ProcessSend BY <2>4 DEF ProcessSend
  <2>5. CASE StopSeen BY <2>5 DEF StopSeen
  <2>6. CASE EndSession BY <2>6 DEF EndSession
  <2> QED BY <2>1, <2>2, <2>3, <2>4, <2>5, <2>6
<1> QED BY <1>2, <1>3, <1>4 DEF BackendInv

LEMMA DrainKeeps ==
  ASSUME BackendInv, Drain
  PROVE  BackendInv'
<1> DEFINE m == Head(inbound)
           t == Fold(Folding, m)
<1> USE DEF BackendInv, loop, record
<1>1. /\ pc = "drain" /\ inbound # <<>> /\ inbound' = Tail(inbound) /\ inbound \in Seq(Inbound)
      /\ Folded(t) /\ UNCHANGED <<alive, owned, loop, shown, record>>
  BY DEF Drain, TypeOK
<1>2. /\ m \in Inbound /\ Tail(inbound) \in Seq(Inbound)
      /\ PiecesOf(inbound) = PiecesOf(Tail(inbound)) \cup PieceOf(m)
      /\ PieceOf(m) \cap (Known(shown) \cup Known(collected)) = {}
      /\ (m \in LastInbound => Tail(inbound) = <<>> /\ ~alive)
  BY <1>1, ReadHead
<1>3. /\ Folding \in Folds /\ Folding.live = live /\ Folding.updates = collected
      /\ Folding.fatal = pending_fatal /\ shown \in Updates
      /\ Then(shown, Folding.updates).open = Folding.live
  BY FoldingKeeps
<1>4. /\ t \in Folds /\ Then(shown, t.updates).open = t.live
      /\ Known(shown) \cup Known(t.updates) = Known(shown) \cup Known(collected) \cup PieceOf(m)
      /\ (t.fatal => pending_fatal \/ (m.type = "fatal" /\ t.live = {}))
  BY <1>2, <1>3, FoldKeeps
<1>5. m.type = "fatal" => m \in LastInbound
  BY <1>2, Messages
<1> HIDE DEF m, t
<1>6. /\ live' = t.live /\ collected' = t.updates /\ pending_fatal' = t.fatal
      /\ live' \in SUBSET Piece /\ collected' \in Updates /\ pending_transient' \in BOOLEAN
      /\ pending_fatal' \in BOOLEAN
  BY <1>1, <1>4 DEF Folded, Folds
<1>7. Distinct' /\ LastIsLast'
  BY <1>1, <1>4, <1>6, ReadKeeps DEF m
<1>8. NothingLost' /\ OpenIsLive' /\ Numbered' /\ StopKeepsAll'
  BY <1>1, <1>2, <1>4, <1>6 DEF NothingLost, OpenIsLive, Numbered, StopKeepsAll
<1>9. TypeOK'
  BY <1>1, <1>2, <1>6 DEF TypeOK, Updates
<1>10. Ending'
  <2>1. ~pending_fatal
    BY <1>1 DEF Ending, Quiet
  <2>2. pending_fatal' => Quiet' /\ live' = {}
    BY <1>1, <1>2, <1>4, <1>5, <1>6, <2>1 DEF Quiet
  <2> QED BY <1>1, <2>2 DEF Ending, Quiet
<1> QED BY <1>7, <1>8, <1>9, <1>10

\* deliver: text goes to the transcript as it is, and a fatal result ends the loop.
LEMMA DeliverKeeps ==
  ASSUME BackendInv, Deliver
  PROVE  BackendInv'
<1> USE DEF BackendInv
<1>1. /\ pc = "drain" /\ inbound = <<>> /\ ~discard /\ error = "none" /\ collected' = Nothing
      /\ UNCHANGED <<inbound, alive, owned, stop, send_error, live, outages, produced, timed_out>>
      /\ shown \in Updates /\ collected \in Updates
  BY DEF Deliver, Ending, client, record, TypeOK, Updates
<1>2. /\ shown' \in Updates
      /\ Known(shown') \cup Known(collected') = Known(shown) \cup Known(collected)
      /\ Then(shown', collected').open = Then(shown, collected).open
  <2>1. CASE Result = "text"
    <3>1. shown' = Then(shown, collected)
      BY <2>1 DEF Deliver, Show
    <3>2. Known(shown') = Known(shown) \cup Known(collected) /\ shown' \in Updates
      BY <1>1, <3>1, ThenUpdates
    <3>3. Then(shown', Nothing).open = Then(shown, collected).open
      BY <1>1, <3>1 DEF Then, Nothing, Updates
    <3> QED BY <1>1, <3>2, <3>3, NothingUpdates
  <2>2. CASE Result # "text"
    <3>1. shown' = shown /\ collected = Nothing
      BY <2>2 DEF Deliver, Result
    <3> QED BY <1>1, <3>1
  <2> QED BY <2>1, <2>2
<1>3. Numbered' /\ LastIsLast' /\ NothingLost' /\ OpenIsLive'
  BY <1>1, <1>2 DEF Numbered, LastIsLast, NothingLost, OpenIsLive
<1>4. Distinct'
  BY <1>1, <1>2 DEF Distinct
<1>5. /\ (pending_fatal' => pending_fatal /\ Result # "fatal")
      /\ pending_fatal' \in BOOLEAN /\ pending_transient' \in BOOLEAN
      /\ \/ pc' = "loop" /\ UNCHANGED <<error, discard>> /\ Result \notin {"fatal", "closed"}
         \/ pc' = "ending" /\ error' = Result /\ discard' = TRUE /\ Result \in {"fatal", "closed"}
  BY DEF Deliver, TypeOK
<1>6. TypeOK'
  BY <1>1, <1>2, <1>5, NothingUpdates DEF TypeOK, Updates
<1>7. /\ Result = "fatal" => pending_fatal /\ collected = Nothing
      /\ Result = "closed" => ~pending_fatal /\ send_error = "fatal" /\ collected = Nothing
  BY DEF Result
<1>8. Result \in {"fatal", "closed"} => Quiet /\ UNCHANGED shown
  BY <1>1, <1>7 DEF Ending, Quiet, Deliver
<1>9. Result = "fatal" => shown.open = {} /\ shown.final = produced
  <2> SUFFICES ASSUME Result = "fatal" PROVE shown.open = {} /\ shown.final = produced
    OBVIOUS
  <2>1. collected = Nothing /\ live = {} /\ PiecesOf(inbound) = {}
    BY <1>1, <1>7 DEF Ending, PiecesOf
  <2>2. Then(shown, Nothing).open = {} /\ produced = Known(shown)
    BY <2>1, NothingUpdates DEF NothingLost, OpenIsLive
  <2> QED BY <1>1, <2>2 DEF Then, Nothing, Known, Updates, Ending
<1>10. Ending' /\ StopKeepsAll'
  <2>1. shown'.open \cap shown'.final = {}
    BY DEF Deliver, Show, Then, Ending
  <2> QED BY <1>1, <1>5, <1>7, <1>8, <1>9, <2>1 DEF Ending, Quiet, StopKeepsAll
<1> QED BY <1>3, <1>4, <1>6, <1>10

-------------------------------------------------------------------------------
(***************************************************************************)
(* end_session.                                                            *)
(***************************************************************************)
LEMMA TailReceiveKeeps ==
  ASSUME BackendInv, TailReceive
  PROVE  BackendInv'
<1> DEFINE m == Head(inbound)
           t == IF m.type = "response" THEN Ingest(Folding, m) ELSE FinishOpen(Folding)
<1> USE DEF BackendInv, record
<1>1. /\ pc = "tail" /\ inbound # <<>> /\ inbound' = Tail(inbound) /\ inbound \in Seq(Inbound)
      /\ UNCHANGED <<alive, stop, send_error, discard, error, shown, record>>
      /\ IF m \in LastInbound THEN LeaveTail(Folding)
         ELSE /\ collected' = t.updates /\ live' = t.live
              /\ UNCHANGED <<pc, owned, pending_transient, pending_fatal>>
  BY DEF TailReceive, TypeOK
<1>2. /\ m \in Inbound /\ Tail(inbound) \in Seq(Inbound)
      /\ PiecesOf(inbound) = PiecesOf(Tail(inbound)) \cup PieceOf(m)
      /\ PieceOf(m) \cap (Known(shown) \cup Known(collected)) = {}
      /\ (m \in LastInbound => Tail(inbound) = <<>> /\ ~alive)
  BY <1>1, ReadHead
<1>3. /\ Folding \in Folds /\ Folding.live = live /\ Folding.updates = collected
      /\ shown \in Updates /\ Then(shown, Folding.updates).open = Folding.live
  BY FoldingKeeps
<1>4. m \in LastInbound => m.type # "response"
  BY <1>2, Messages
<1>5. /\ t \in Folds /\ Then(shown, t.updates).open = t.live
      /\ Known(shown) \cup Known(t.updates) = Known(shown) \cup Known(collected) \cup PieceOf(m)
  <2>1. CASE m.type = "response"
    <3>1. m.piece \notin Known(shown) \cup Known(collected) /\ PieceOf(m) = {m.piece}
      BY <1>2, <2>1 DEF PieceOf
    <3> QED BY <1>2, <1>3, <2>1, <3>1, IngestKeeps
  <2>2. CASE m.type # "response"
    <3>1. PieceOf(m) = {} /\ t = FinishOpen(Folding)
      BY <2>2 DEF PieceOf
    <3> QED BY <1>3, <3>1, FinishKeeps
  <2> QED BY <2>1, <2>2
<1>6. m \in LastInbound => t = FinishOpen(Folding) /\ FinishOpen(Folding).live = {}
  BY <1>3, <1>4, FinishKeeps
<1> HIDE DEF m, t
<1>7. /\ live' = t.live /\ collected' = t.updates
      /\ live' \in SUBSET Piece /\ collected' \in Updates
  <2>1. CASE m \in LastInbound
    BY <1>1, <1>5, <1>6, <2>1 DEF LeaveTail, Folds
  <2>2. CASE m \notin LastInbound
    BY <1>1, <1>5, <2>2 DEF Folds
  <2> QED BY <2>1, <2>2
<1>8. Distinct' /\ LastIsLast'
  BY <1>1, <1>5, <1>7, ReadKeeps DEF m
<1>9. NothingLost' /\ OpenIsLive' /\ Numbered'
  BY <1>1, <1>2, <1>5, <1>7 DEF NothingLost, OpenIsLive, Numbered
<1>10. CASE m \in LastInbound
  <2>1. /\ pc' = "dropping" /\ owned' = FALSE /\ pending_transient' = FALSE
        /\ pending_fatal' = FALSE /\ live' = {} /\ inbound' = <<>> /\ ~alive'
    BY <1>1, <1>2, <1>6, <1>7, <1>10 DEF LeaveTail
  <2>2. TypeOK'
    BY <1>1, <1>2, <1>7, <2>1 DEF TypeOK, Updates
  <2>3. Ending' /\ StopKeepsAll'
    BY <1>1, <2>1 DEF Ending, Quiet, StopKeepsAll
  <2> QED BY <1>8, <1>9, <2>2, <2>3
<1>11. CASE m \notin LastInbound
  <2>1. UNCHANGED <<pc, owned, pending_transient, pending_fatal>>
    BY <1>1, <1>11
  <2>2. TypeOK'
    BY <1>1, <1>2, <1>7, <2>1 DEF TypeOK, Updates
  <2>3. Ending' /\ StopKeepsAll'
    BY <1>1, <2>1 DEF Ending, Quiet, StopKeepsAll
  <2> QED BY <1>8, <1>9, <2>2, <2>3
<1> QED BY <1>10, <1>11

\* FINISH_WAIT has elapsed, or the thread is gone.
LEMMA TailEndsKeeps ==
  ASSUME BackendInv, TailEmpty \/ TailTimeout
  PROVE  BackendInv'
<1> USE DEF BackendInv
<1>1. /\ pc = "tail" /\ LeaveTail(Folding) /\ timed_out' \in BOOLEAN
      /\ UNCHANGED <<inbound, alive, stop, send_error, discard, error, shown, outages, produced>>
  BY DEF TailEmpty, TailTimeout, TypeOK
<1>2. timed_out' \/ Quiet
  BY DEF TailEmpty, TailTimeout, Quiet
<1>3. /\ Folding \in Folds /\ Folding.updates = collected
      /\ shown \in Updates /\ Then(shown, Folding.updates).open = Folding.live
  BY FoldingKeeps
<1> DEFINE t == FinishOpen(Folding)
<1>4. /\ t \in Folds /\ t.live = {} /\ Then(shown, t.updates).open = {}
      /\ Known(shown) \cup Known(t.updates) = Known(shown) \cup Known(collected)
  BY <1>3, FinishKeeps
<1>5. /\ collected' = t.updates /\ live' = {} /\ pending_transient' = FALSE
      /\ pending_fatal' = FALSE /\ owned' = FALSE /\ pc' = "dropping"
  BY <1>1 DEF LeaveTail
<1> HIDE DEF t
<1>6. collected' \in Updates
  BY <1>4, <1>5 DEF Folds
<1>7. Numbered' /\ LastIsLast' /\ NothingLost' /\ OpenIsLive'
  BY <1>1, <1>4, <1>5 DEF Numbered, LastIsLast, NothingLost, OpenIsLive
<1>8. Distinct'
  BY <1>1, <1>4, <1>5 DEF Distinct
<1>9. TypeOK'
  BY <1>1, <1>5, <1>6 DEF TypeOK, Updates
<1>10. Ending' /\ StopKeepsAll'
  BY <1>1, <1>2, <1>5 DEF Ending, Quiet, StopKeepsAll
<1> QED BY <1>7, <1>8, <1>9, <1>10

LEMMA ClientJoinedKeeps ==
  ASSUME BackendInv, ClientJoined
  PROVE  BackendInv'
<1> USE DEF BackendInv, client, backend, record
<1>1. /\ pc = "dropping" /\ pc' = "over" /\ ~alive /\ live = {} /\ (timed_out \/ Quiet)
      /\ UNCHANGED <<client, stop, send_error, discard, error, backend, record>>
      /\ shown \in Updates /\ collected \in Updates
  BY DEF ClientJoined, Ending, TypeOK, Updates
<1>2. CASE discard
  <2>1. UNCHANGED shown
    BY <1>2 DEF ClientJoined
  <2>2. Numbered' /\ Distinct' /\ LastIsLast' /\ NothingLost' /\ OpenIsLive'
    BY <1>1, <2>1, TextStays
  <2> QED BY <1>1, <1>2, <2>1, <2>2 DEF TypeOK, Ending, Quiet, StopKeepsAll
<1>3. CASE ~discard
  <2>1. shown' = Then(shown, collected)
    BY <1>3 DEF ClientJoined, Show
  <2>2. /\ shown' \in Updates /\ Known(shown') = Known(shown) \cup Known(collected)
        /\ Then(shown', collected).open = {} /\ shown'.open = {}
        /\ shown'.open \cap shown'.final = {}
    <3>1. Then(shown, collected).open = {}
      BY <1>1 DEF OpenIsLive
    <3>2. shown' \in Updates /\ Known(shown') = Known(shown) \cup Known(collected)
      BY <1>1, <2>1, ThenUpdates
    <3> QED BY <1>1, <2>1, <3>1, <3>2 DEF Then, Updates
  <2>3. Numbered' /\ LastIsLast' /\ NothingLost' /\ OpenIsLive'
    BY <1>1, <2>2 DEF Numbered, LastIsLast, NothingLost, OpenIsLive
  <2>4. Distinct'
    BY <1>1, <2>2 DEF Distinct
  <2>5. ~timed_out => shown'.final = produced
    <3> SUFFICES ASSUME ~timed_out PROVE shown'.final = produced
      OBVIOUS
    <3>1. PiecesOf(inbound) = {}
      BY <1>1 DEF Quiet, PiecesOf
    <3>2. produced = Known(shown')
      BY <2>2, <3>1 DEF NothingLost
    <3> QED BY <2>2, <3>2 DEF Known
  <2>6. TypeOK' /\ Ending' /\ StopKeepsAll'
    BY <1>1, <1>3, <2>2, <2>5 DEF TypeOK, Updates, Ending, Quiet, StopKeepsAll
  <2> QED BY <2>3, <2>4, <2>6
<1> QED BY <1>2, <1>3

-------------------------------------------------------------------------------
(***************************************************************************)
(* The theorems.                                                           *)
(***************************************************************************)
LEMMA BackendInvInit == Init => BackendInv
<1> SUFFICES ASSUME Init PROVE BackendInv
  OBVIOUS
<1>1. /\ inbound = <<>> /\ alive = TRUE /\ owned = TRUE /\ pc = "new" /\ stop = FALSE
      /\ send_error = "none" /\ discard = FALSE /\ error = "none" /\ live = {}
      /\ pending_transient = FALSE /\ pending_fatal = FALSE /\ collected = Nothing
      /\ shown = Nothing /\ outages = 0 /\ produced = {} /\ timed_out = FALSE
  BY DEF Init, Client!Init
<1>2. PiecesOf(inbound) = {} /\ Known(shown) = {} /\ Known(collected) = {}
  BY <1>1, NothingUpdates DEF PiecesOf
<1>3. TypeOK
  <2>1. inbound \in Seq(Inbound)
    BY <1>1
  <2>2. collected \in Updates /\ shown \in Updates
    BY <1>1, NothingUpdates
  <2>3. live \subseteq Piece /\ produced \subseteq Piece /\ outages \in 0..MaxOutages
    BY <1>1, BackendAssumption
  <2>4. /\ alive \in BOOLEAN /\ owned \in BOOLEAN /\ stop \in BOOLEAN /\ discard \in BOOLEAN
        /\ pending_transient \in BOOLEAN /\ pending_fatal \in BOOLEAN /\ timed_out \in BOOLEAN
    BY <1>1
  <2>5. /\ pc \in {"new", "failed", "loop", "drain", "ending", "tail", "dropping", "over"}
        /\ send_error \in {"none", "transient", "fatal"}
        /\ error \in {"none", "spawn", "fatal", "closed"}
    BY <1>1
  <2> QED BY <2>1, <2>2, <2>3, <2>4, <2>5 DEF TypeOK, Updates
<1>4. Numbered
  <2>1. 0 \in 0..MaxPieces /\ 1..0 = {}
    BY BackendAssumption
  <2> QED BY <1>1, <2>1 DEF Numbered
<1>5. Distinct /\ LastIsLast /\ NothingLost
  BY <1>1, <1>2 DEF Distinct, LastIsLast, NothingLost
<1>6. OpenIsLive
  BY <1>1 DEF OpenIsLive, Then, Nothing
<1>7. Ending /\ StopKeepsAll
  <2>1. ~discard /\ error \notin {"fatal", "closed"}
    BY <1>1
  <2>2. shown.open \cap shown.final = {}
    BY <1>1 DEF Nothing
  <2>3. ~pending_fatal /\ pc = "new" /\ send_error = "none" /\ error = "none" /\ ~discard
    BY <1>1
  <2> QED BY <1>1, <2>1, <2>2, <2>3 DEF Ending, StopKeepsAll
<1> QED BY <1>3, <1>4, <1>5, <1>6, <1>7 DEF BackendInv

LEMMA BackendInvStep == ASSUME BackendInv, [Next]_vars PROVE BackendInv'
<1>1. CASE UNCHANGED vars
  <2>1. UNCHANGED <<inbound, live, shown, collected, produced, alive>>
    BY <1>1 DEF vars, client, backend, record
  <2>2. Numbered' /\ Distinct' /\ LastIsLast' /\ NothingLost' /\ OpenIsLive'
    BY <2>1, TextStays
  <2> QED BY <1>1, <2>2 DEF BackendInv, TypeOK, Ending, Quiet, StopKeepsAll, vars, client, loop,
                            backend, record
<1>2. CASE LoopNext
  BY <1>2, LoopTurnKeeps, DrainKeeps, DeliverKeeps, TailReceiveKeeps, TailEndsKeeps,
     ClientJoinedKeeps DEF LoopNext
<1>3. CASE StopSession
  BY <1>3, LoopTurnKeeps
<1>4. CASE ClientNext
  BY <1>4, ClientKeeps
<1> QED BY <1>1, <1>2, <1>3, <1>4 DEF Next, Over

LEMMA AlwaysBackendInv == Spec => []BackendInv
BY BackendInvInit, BackendInvStep, PTL DEF Spec

\* Every response the socket thread has forwarded is waiting or accounted for, and what shows as
\* open can still be finalized, however process, poll and end_session interleave with the thread.
THEOREM AlwaysTextAccounted == Spec => []TextAccounted
<1>1. BackendInv => TextAccounted
  BY DEF BackendInv, TextAccounted
<1> QED BY <1>1, AlwaysBackendInv, PTL

\* A session that is stopped keeps all text as final, unless FINISH_WAIT ran out.
THEOREM AlwaysStopKeepsAll == Spec => []StopKeepsAll
<1>1. BackendInv => StopKeepsAll
  BY DEF BackendInv
<1> QED BY <1>1, AlwaysBackendInv, PTL

\* A session that ends by a reason of the thread's shows that reason, and all text as final.
THEOREM AlwaysReasonAndTextKept == Spec => []ReasonAndTextKept
<1>1. BackendInv => ReasonAndTextKept
  BY DEF BackendInv, Ending, Quiet, ReasonAndTextKept
<1> QED BY <1>1, AlwaysBackendInv, PTL
===============================================================================
