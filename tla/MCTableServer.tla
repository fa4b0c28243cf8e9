---------------------------- MODULE MCTableServer ----------------------------
(* TableServer with a few queries that conflict: two updates that touch the *)
(* column the other one tests, a projection, a distinct and a bad column.   *)
EXTENDS TableServer, TLC

ThreadSymmetry == Permutations(Threads)

TwoColumns == <<"a", "b">>

ReadQueries ==
  {[type |-> "select_star"],
   [type |-> "select_column", columns |-> <<"b", "a">>],
   [type |-> "select_distinct", columns |-> <<"a">>]}

WriteQueries ==
  {[type |-> "update", set |-> <<<<"a", "1">>, <<"b", "2">>>>],
   [type |-> "update", set |-> <<<<"b", "1">>, <<"a", "2">>, <<"a", "1">>>>]}

BadQueries ==
  {[type |-> "undefined"],
   [type |-> "select_column", columns |-> <<"c">>]}

GoodQueries == ReadQueries \cup WriteQueries
AllQueries  == GoodQueries \cup BadQueries
==============================================================================
