----------------------------- MODULE Splitting -----------------------------
(***************************************************************************)
(* Sequences that are taken apart at some of their places: the words of a  *)
(* query, the cells of a line, the rows a loop sends.                      *)
(***************************************************************************)
EXTENDS Integers, Sequences, FiniteSets

\* The kth of a set of numbers.
Nth(S, k) == CHOOSE r \in S : Cardinality({s \in S : s <= r}) = k

\* The elements of s at some of its places.
Kept(s, places) == [k \in 1 .. Cardinality(places) |-> s[Nth(places, k)]]

\* What stands before, between and after some places of s.
Split(s, places) ==
  LET end(k) == IF k = 0 THEN 0 ELSE Nth(places \cup {Len(s) + 1}, k)
  IN [k \in 1 .. Cardinality(places) + 1 |->
        SubSeq(s, end(k - 1) + 1, end(k) - 1)]

\* The first place from i on where s has one of stops, or its end.
NextOf(s, i, stops) ==
  LET there == {k \in i .. Len(s) : s[k] \in stops}
  IN IF there = {} THEN Len(s) + 1
     ELSE CHOOSE k \in there : \A l \in there : k <= l
=============================================================================
