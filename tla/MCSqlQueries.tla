---------------------------- MODULE MCSqlQueries ----------------------------
(* Every distinct and every update of up to two assignments, in every style, *)
(* over every dataset of three records with two columns; and datasets with   *)
(* quotes, empty cells and blank lines in every place.                       *)
EXTENDS SqlQueries

TwoColumns == <<<<"a">>, <<"b">>>>
TwoValues  == {<<"1">>, <<"2">>}

SomeSets == {<<x, w>> : x, w \in Columns \X Values}
              \cup {<<x, y, w>> : x, y, w \in Columns \X Values}
SomeColumns == {<<x>> : x \in Columns} \cup {<<x, y>> : x, y \in Columns}

SomeQueries ==
  [type : {"update"}, set : SomeSets]
    \cup [type : {"select_distinct", "select_column"}, columns : SomeColumns]
    \cup {[type |-> "select_star"]}

File(lines, newline) == [lines |-> lines, newline |-> newline]

HeaderLine == <<"a", ",", "b">>

PlainLine(row) == row[<<"a">>] \o <<",">> \o row[<<"b">>]

PlainFiles == {File([i \in 1 .. tnum_of_row |-> PlainLine(T[i - 1])], TRUE) :
                 T \in Tables}

\* Lines with two cells, one of them quoted or empty, and a blank one.
SomeLines ==
  {<<"1", ",", "2">>, <<"\"", "1", ",", "2", "\"", ",", "2">>, <<",", "2">>,
   <<"1", ",", "\"", "1", ",", "2", "\"">>, <<"\"", "\"", ",", "2">>,
   <<"1", ",">>, <<",">>, <<>>}

OddFiles == {File(<<HeaderLine>> \o lines, newline) :
               lines \in {ls \in BoundedSeq(SomeLines, 2) : ls # <<>>},
               newline \in BOOLEAN}

\* fgets() returns no last line that has neither a character nor a '\n'.
SomeFiles == PlainFiles
               \cup {File(<<HeaderLine, <<"1", ",">>,
                            <<"\"", "1", "\"", ",", "2">>, <<",", "1">>>>, TRUE)}
               \cup {f \in OddFiles : f.newline \/ Last(f.lines) # <<>>}
=============================================================================
