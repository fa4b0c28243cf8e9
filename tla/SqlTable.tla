------------------------------- MODULE SqlTable -------------------------------
(***************************************************************************)
(* What the queries of the database server do to the table and send back:  *)
(* Final-Project/sql.c, one row at a time as its loops do it.              *)
(*                                                                         *)
(* A table is a function from row numbers to rows, a row a function from   *)
(* columns to cells.  Row 0 is the header: its cells are the column names. *)
(* A query is what parse(), get_type() and get_colname_value() make of its *)
(* text: a type, the columns it names, and for an update the assignments,  *)
(* the last of which is the WHERE condition.  A response is the sequence   *)
(* of lines that precede the zero length on the client's socket.           *)
(***************************************************************************)
EXTENDS Splitting

CONSTANTS ColumnOrder,  \* the column names of the dataset, in its order
          Values,       \* what a cell of a record may hold
          tnum_of_row   \* rows of the table, the header included

Columns == {ColumnOrder[j] : j \in DOMAIN ColumnOrder}

ASSUME TableAssumption == /\ ColumnOrder \in Seq(Columns)
                          /\ tnum_of_row \in Nat \ {0}

RowNumbers == 0 .. tnum_of_row - 1
Header     == [c \in Columns |-> c]

\* get_table(): the header and any records.
Tables == {T \in [RowNumbers -> [Columns -> Values \cup Columns]] :
             /\ T[0] = Header
             /\ \A i \in RowNumbers \ {0} : T[i] \in [Columns -> Values]}

\* The columns a query names; one that is not in row 0 makes it invalid.
Named(q) == CASE q.type = "update" -> {q.set[j][1] : j \in DOMAIN q.set}
              [] q.type \in {"select_column", "select_distinct"} ->
                   {q.columns[j] : j \in DOMAIN q.columns}
              [] OTHER -> {}

Valid(q) == /\ q.type \in {"select_star", "select_column", "select_distinct",
                           "update"}
            /\ Named(q) \subseteq Columns

is_reader(q) == q.type # "update"

-------------------------------------------------------------------------------
(* update() *)

Where(q)       == q.set[Len(q.set)]
Assignments(q) == SubSeq(q.set, 1, Len(q.set) - 1)

Matches(q, row) == row[Where(q)[1]] = Where(q)[2]

\* strcpy of each value in turn: of two assignments to a column the later wins.
Assigned(q, row) ==
  [c \in Columns |->
     LET js == {j \in DOMAIN Assignments(q) : Assignments(q)[j][1] = c}
     IN IF js = {} THEN row[c]
        ELSE Assignments(q)[CHOOSE j \in js : \A k \in js : k <= j][2]]

\* Mutant: the WHERE condition is not tested.
UpdatesEveryRow(q, T, i) == q.type = "update" /\ i > 0

\* The effect of a query on row i, and on row i and all that follow.
UpdatesRow(q, T, i) == q.type = "update" /\ i > 0 /\ Matches(q, T[i])

Updated(q, T, i) ==
  [r \in RowNumbers |->
     IF r >= i /\ UpdatesRow(q, T, r) THEN Assigned(q, T[r]) ELSE T[r]]

-------------------------------------------------------------------------------
(* What is sent *)

Project(columns, row)  == [j \in DOMAIN columns |-> row[columns[j]]]
Projection(q, row)     == Project(q.columns, row)

\* Mutant: the loop starts at 2.
is_distinct_from_2(q, T, i) ==
  \A k \in 2 .. i - 1 : Projection(q, T[k]) # Projection(q, T[i])

\* is_distinct(): row i differs from every record before it; the header, in
\* row 0, is not compared.
is_distinct(q, T, i) ==
  \A k \in 1 .. i - 1 : Projection(q, T[k]) # Projection(q, T[i])

\* Is row i, as it stands when the loop reaches it, part of the response?
Sends(q, T, i) ==
  CASE q.type = "update"          -> i = 0 \/ Matches(q, T[i])
    [] q.type = "select_distinct" -> is_distinct(q, T, i)
    [] OTHER                      -> TRUE

Line(q, row) == IF q.type \in {"select_column", "select_distinct"}
                THEN Projection(q, row) ELSE Project(ColumnOrder, row)

\* What the loop sends from row i to the last.
ResponseFrom(q, T, i) ==
  LET after == Updated(q, T, i)
      sent  == {r \in i .. tnum_of_row - 1 : Sends(q, T, r)}
  IN [k \in 1 .. Cardinality(sent) |-> Line(q, after[Nth(sent, k)])]

Response(q, T) == ResponseFrom(q, T, 0)
===============================================================================
