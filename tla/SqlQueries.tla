----------------------------- MODULE SqlQueries -----------------------------
(***************************************************************************)
(* The database of the server without its threads: the dataset is loaded   *)
(* by CsvLoader, the text of a query taken apart by SqlWords and carried   *)
(* out by SqlTable.  What comes back has to be what a reader of the file   *)
(* and of the query expects.                                               *)
(***************************************************************************)
EXTENDS SqlTable, CsvLoader, SqlWords, FiniteSets

CONSTANTS Files,    \* datasets
          Queries   \* what clients mean

Without(chars) == {w \in Seq(STRING) : chars \cap Range(w) = {}}

\* Names in a query can be told from punctuation and keywords.
Names == Without({Blank, Comma, Equals}) \ {<<>>, <<"*">>, <<"DISTINCT">>}

\* The columns have different names, of which the first line of a dataset is
\* the list; the other lines are blank or have a field for each column.
ASSUME FileAssumption ==
  /\ ColumnOrder \in Seq(Without({Comma}) \ {<<>>})
  /\ \A i, j \in DOMAIN ColumnOrder : ColumnOrder[i] = ColumnOrder[j] => i = j
  /\ \A f \in Files :
        /\ f.lines \in Seq(Seq(STRING)) \ {<<>>} /\ f.newline \in BOOLEAN
        /\ Quote \notin Range(f.lines[1]) /\ Fields(f.lines[1]) = ColumnOrder
        /\ \A i \in DOMAIN f.lines :
              /\ WellQuoted(f.lines[i])
              /\ f.lines[i] # <<>> => Len(Fields(f.lines[i])) = Len(ColumnOrder)

\* A client asks for columns by names, and assigns values that are written
\* between '.
ASSUME QueryAssumption ==
  Queries \subseteq
    [type : {"select_star"}]
      \cup [type : {"select_column", "select_distinct"}, columns : Seq(Names) \ {<<>>}]
      \cup [type : {"update"},
            set : Seq(Names \X Without({Blank, Apostrophe})) \ {<<>>}]

VARIABLES file, process, table,
          style, meant, query,   \* how a query is written, what is meant, and taken
          answered

queryVars == <<file, process, table, style, meant, query, answered>>

NoQuery == [type |-> "none"]

Init == /\ file \in Files
        /\ process = "starting" /\ table = <<>>
        /\ style = "plain" /\ meant = NoQuery /\ query = NoQuery /\ answered = <<>>

\* Rows by the names of their columns instead of the numbers.
ByName(T) == [r \in DOMAIN T |->
                [c \in Columns |->
                   T[r][CHOOSE j \in DOMAIN ColumnOrder : ColumnOrder[j] = c]]]

\* main() of server.c: what is written past the table is lost or harmful.
Load == /\ process = "starting"
        /\ IF Overruns(file) THEN process' = "undefined" /\ UNCHANGED table
           ELSE /\ process' = "running"
                /\ \E garbage \in {<<>>, <<"?">>} :
                      table' = ByName(get_table(file, garbage))
        /\ UNCHANGED <<file, style, meant, query, answered>>

\* respond(): a client's query; an unknown type or column ends the server.
Ask(q, how) ==
  /\ process = "running" /\ DOMAIN table = RowNumbers
  /\ style' = how /\ meant' = Meant(q, how) /\ query' = QueryOf(Written(q, how))
  /\ IF Valid(query')
     THEN /\ answered' = Response(query', table)
          /\ table' = Updated(query', table, 0)
          /\ process' = "answered"
     ELSE process' = "exited" /\ UNCHANGED <<table, answered>>
  /\ UNCHANGED file

\* One query of each dataset: TableServer has many, of threads.
Next == Load \/ \E q \in Queries, how \in Styles : Ask(q, how)

Spec == Init /\ [][Next]_queryVars

-------------------------------------------------------------------------------
Rows == RowNumbers \ {0}

\* get_table(): every cell is what the file has in that place, but that an
\* empty cell at the end of a line may be anything; and the table is overrun
\* only by a file with a blank line before a record, or with a last line that
\* is not counted.
TableIsFile ==
  /\ process = "undefined" => BlankInside(file) \/ ShortEnd(file)
  /\ process = "running" =>
       LET lines == Records(file)
       IN /\ DOMAIN table = 0 .. Len(lines) - 1
          /\ \A r \in DOMAIN table, j \in DOMAIN ColumnOrder :
                \/ table[r][ColumnOrder[j]] = Fields(lines[r + 1])[j]
                \/ j = Len(ColumnOrder) /\ EmptyLastCell(lines[r + 1])

\* A query that is answered is the one the client means; a text that sql.c
\* cannot take apart ends the server.  Of the updates it misunderstands those
\* with a blank in a value, with assignments that are not separated by a
\* blank, of which all but the first are dropped, and without a condition,
\* for which the last assignment is taken.
UnderstoodOrRefused ==
  answered # <<>> =>
    \/ query = meant
    \/ meant.type = "update" /\ style \in {"blank", "no_where"}
    \/ meant.type = "update" /\ style = "tight" /\ Len(meant.set) > 2

\* select_distinct(): the header, then every combination of values some
\* record has, once only, in the order of their first occurrence.
DistinctIsRight ==
  answered # <<>> /\ query.type = "select_distinct" =>
    LET lines == Tail(answered)
        first(line) == CHOOSE i \in Rows :
                          /\ Projection(query, table[i]) = line
                          /\ \A j \in Rows :
                               Projection(query, table[j]) = line => i <= j
    IN /\ answered[1] = query.columns
       /\ {lines[k] : k \in DOMAIN lines}
            = {Projection(query, table[i]) : i \in Rows}
       /\ \A k, l \in DOMAIN lines : k < l => first(lines[k]) < first(lines[l])

\* update(): what comes back, after the header, is one line for each record
\* that met the condition, as it is now.  There every assignment is seen, and
\* of several to one column the last; no other record has changed.
UpdateIsRight ==
  [][process' = "answered" /\ query'.type = "update" =>
       LET hit == {i \in Rows : Matches(query', table[i])}
           sets == Assignments(query')
       IN /\ \A i \in Rows \ hit : table'[i] = table[i]
          /\ Len(answered') = 1 + Cardinality(hit)
          /\ {answered'[k] : k \in 2 .. Len(answered')}
               = {Project(ColumnOrder, table'[i]) : i \in hit}
          /\ \A i \in hit, j \in DOMAIN sets :
                \/ \E k \in j + 1 .. Len(sets) : sets[k][1] = sets[j][1]
                \/ table'[i][sets[j][1]] = sets[j][2]]_queryVars
=============================================================================
