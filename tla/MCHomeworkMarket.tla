--------------------------- MODULE MCHomeworkMarket ---------------------------
(* Three students, a blank line and homework that exhausts the money, asks   *)
(* for an unknown priority or has a D in it.                                 *)
EXTENDS HomeworkMarket

OneBlank   == {3}

\* Line 0 is the best student, line 1 the fastest, line 2 the cheapest.
MCQuality  == [s \in Lines |-> IF s = 0 THEN 2 ELSE 1]
MCSpeed    == [s \in Lines |-> IF s = 1 THEN 2 ELSE 1]
MCMonney   == [s \in Lines |-> IF s = 2 THEN 1 ELSE 2]

MCFiles    == {<<"Q", "S", "C", "C">>, <<"Q", "C">>, <<"Q", "C", "other">>,
                <<"Q", "D", "S">>}
===============================================================================
