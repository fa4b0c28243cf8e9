----------------------------- MODULE CsvLoader -----------------------------
(***************************************************************************)
(* How Final-Project/get_csv.c makes a table of the dataset, before any    *)
(* thread exists.                                                          *)
(*                                                                         *)
(* A file is the sequence of its lines without their '\n', and whether the *)
(* last of them has one; a line is a sequence of characters, of which      *)
(* comma and quote matter.  A cell nobody has written holds what malloc()  *)
(* returned.                                                               *)
(***************************************************************************)
EXTENDS Splitting, SequencesExt

Comma == ","
Quote == "\""

\* Mutant: lines are counted with their '\n', blank ones too.
count_all_lines(file) == Len(file.lines)

\* count_lines(): strlen() counts the '\n', so that blank lines are left out,
\* and a last line of a single character that does not end with a '\n'.
count_lines(file) ==
  LET strlen(i) == IF i < Len(file.lines) \/ file.newline
                   THEN Len(file.lines[i]) + 1 ELSE Len(file.lines[i])
  IN Cardinality({i \in DOMAIN file.lines : strlen(i) > 1})

\* count_columns(): the commas of the first line, within quotes or not.
count_columns(file) ==
  1 + Cardinality({i \in DOMAIN file.lines[1] : file.lines[1][i] = Comma})

\* get_cells(): at each turn of its loop i is at the first character of a
\* cell.  The comma after a cell is passed with it, so that nothing is left
\* for an empty cell after the last comma.
get_cells(line) ==
  LET from[i \in 1 .. Len(line) + 3] ==
        IF i > Len(line) THEN <<>>
        ELSE IF line[i] = Comma THEN <<<<>>>> \o from[i + 1]
        ELSE IF line[i] = Quote
        THEN LET close == NextOf(line, i + 1, {Quote})
             IN <<SubSeq(line, i + 1, close - 1)>>
                  \o from[IF close < Len(line) /\ line[close + 1] # Comma
                          THEN close + 1 ELSE close + 2]
        ELSE LET comma == NextOf(line, i, {Comma})
             IN <<SubSeq(line, i, comma - 1)>> \o from[comma + 1]
  IN from[1]

\* get_lines(): every line is stored, blank or not, in the row of its number.
\* It writes past the table when there are more rows than count_lines() found
\* or more cells than count_columns() did.
Overruns(file) ==
  \E i \in DOMAIN file.lines :
     \/ i > count_lines(file) /\ file.lines[i] # <<>>
     \/ Len(get_cells(file.lines[i])) > count_columns(file)

\* get_table(): the rows, from 0 as in the code.
get_table(file, garbage) ==
  [r \in 0 .. count_lines(file) - 1 |->
     LET cells == get_cells(file.lines[r + 1])
     IN [j \in 1 .. count_columns(file) |->
           IF j \in DOMAIN cells THEN cells[j] ELSE garbage]]

-------------------------------------------------------------------------------
(* What a reader of the file takes from a line: the commas that separate are *)
(* those outside quotes, and the quotes around a cell are not part of it.    *)

Separators(line) ==
  {i \in DOMAIN line :
     /\ line[i] = Comma
     /\ Cardinality({k \in 1 .. i - 1 : line[k] = Quote}) % 2 = 0}

Unquoted(cell) == IF cell # <<>> /\ cell[1] = Quote
                  THEN SubSeq(cell, 2, Len(cell) - 1) ELSE cell

Fields(line) ==
  LET cells == Split(line, Separators(line))
  IN [k \in DOMAIN cells |-> Unquoted(cells[k])]

Records(file) == Kept(file.lines, {i \in DOMAIN file.lines : file.lines[i] # <<>>})

\* A blank line with a record after it.
BlankInside(file) ==
  \E i, k \in DOMAIN file.lines :
     i < k /\ file.lines[i] = <<>> /\ file.lines[k] # <<>>

\* A last line of one character, and no '\n' after it: a record of two empty
\* cells, for one.
ShortEnd(file) == ~ file.newline /\ Len(Last(file.lines)) = 1

EmptyLastCell(line) == line # <<>> /\ Last(line) = Comma

\* Every quote opens a cell or closes one, and each that opens has one that
\* closes.
WellQuoted(line) ==
  LET quotes(i) == Cardinality({k \in 1 .. i - 1 : line[k] = Quote})
  IN /\ quotes(Len(line) + 1) % 2 = 0
     /\ \A i \in DOMAIN line : line[i] = Quote =>
           IF quotes(i) % 2 = 0 THEN i = 1 \/ line[i - 1] = Comma
           ELSE i = Len(line) \/ line[i + 1] = Comma
=============================================================================
