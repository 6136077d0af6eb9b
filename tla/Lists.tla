--------------------------------- MODULE Lists ---------------------------------
(***************************************************************************)
(* Lists: the elements of a sequence at some of its positions, in order,   *)
(* and the sum of a sequence of numbers.                                   *)
(***************************************************************************)
EXTENDS Integers, Sequences, FiniteSets

\* How many members of S there are up to i.
Rank(S, i) == Cardinality({j \in S : j <= i})

\* The members of a finite set of numbers in increasing order.
Ascending(S) == [k \in 1..Cardinality(S) |-> CHOOSE i \in S : Rank(S, i) = k]

\* The elements of s at the positions in I.
At(s, I) == [k \in 1..Cardinality(I) |-> s[Ascending(I)[k]]]

\* The sum of a sequence.
Total(s) == LET sum[n \in 0..Len(s)] == IF n = 0 THEN 0 ELSE sum[n - 1] + s[n]
            IN  sum[Len(s)]
===============================================================================
