------------------------------ MODULE SqlWords ------------------------------
(***************************************************************************)
(* How Final-Project/sql.c takes the text of a query apart.                *)
(*                                                                         *)
(* A text is a sequence of pieces: the characters blank, comma, = and ',   *)
(* and between them keywords, names and values.  A word is the sequence of *)
(* pieces between two blanks.  The first word is the number of the client, *)
(* which client.c puts before the query.                                   *)
(***************************************************************************)
EXTENDS Splitting, SequencesExt

Blank == " "
Equals == "="
Apostrophe == "'"

\* parse(): each blank ends a word, an empty one after another blank.
parse(text) == Split(text, {i \in DOMAIN text : text[i] = Blank})

clear_comma(words) ==
  [i \in DOMAIN words |->
     IF words[i] # <<>> /\ Last(words[i]) = "," THEN Front(words[i])
     ELSE words[i]]

contains(word, ch) == ch \in Range(word)

\* get_type(), of the second and the third word.
get_type(words) ==
  CASE words[2] = <<"UPDATE">> -> "update"
    [] words[2] = <<"SELECT">> ->
         CASE words[3] = <<"*">>        -> "select_star"
           [] words[3] = <<"DISTINCT">> -> "select_distinct"
           [] OTHER                     -> "select_column"
    [] OTHER -> "undefined"

\* get_colname_value(): the name is what precedes the =, the value what stands
\* between the next two '.  A value with a blank in it has its end in another
\* word: the copy runs on behind the '\0' of this one, and what is compared
\* and stored, as a C string, ends where the word does.
get_colname_value(word) ==
  LET equals == NextOf(word, 1, {Equals})
      open   == NextOf(word, equals, {Apostrophe})
      close  == NextOf(word, open + 1, {Apostrophe})
  IN <<SubSeq(word, 1, equals - 1), SubSeq(word, open + 1, close - 1)>>

\* Mutant: the last column is taken for FROM.
ColumnWordsButLast(words, first) ==
  SubSeq(clear_comma(words), first, Len(words) - 3)

\* The column names of the two kinds of SELECT: the words after the keywords
\* and before the last two, which are taken to be FROM and the table.
ColumnWords(words, first) == SubSeq(clear_comma(words), first, Len(words) - 2)

\* update() looks at every word that has an =.
SetWords(words) == Kept(words, {i \in DOMAIN words : contains(words[i], Equals)})

\* The query respond() carries out for a text.
QueryOf(text) ==
  LET words == parse(text)
      type  == get_type(words)
  IN CASE type = "update" ->
            [type |-> type,
             set  |-> [j \in DOMAIN SetWords(words) |->
                         get_colname_value(SetWords(words)[j])]]
       [] type = "select_column" ->
            [type |-> type, columns |-> ColumnWords(words, 3)]
       [] type = "select_distinct" ->
            [type |-> type, columns |-> ColumnWords(words, 4)]
       [] OTHER -> [type |-> type]

-------------------------------------------------------------------------------
(* How a query is written: with a blank after each comma ("plain"), none     *)
(* ("tight") or two ("wide"), with values that have a blank in them          *)
(* ("blank"), or an UPDATE without its condition ("no_where").               *)

Styles == {"plain", "tight", "wide", "blank", "no_where"}

Between(style) == CASE style = "tight" -> <<",">>
                    [] style = "wide"  -> <<",", Blank, Blank>>
                    [] OTHER           -> <<",", Blank>>

\* The value a client means by w in that style.
MeantValue(w, style) == IF style = "blank" THEN w \o <<Blank, "x">> ELSE w

Assigning(a, style) ==
  a[1] \o <<Equals, Apostrophe>> \o MeantValue(a[2], style) \o <<Apostrophe>>

Listed(items, style) ==
  LET upto[k \in 0 .. Len(items)] ==
        IF k = 0 THEN <<>>
        ELSE IF k = 1 THEN items[1]
        ELSE upto[k - 1] \o Between(style) \o items[k]
  IN upto[Len(items)]

Written(q, style) ==
  LET select   == <<"1", Blank, "SELECT", Blank>>
      from     == <<Blank, "FROM", Blank, "TABLE;">>
      settings == [j \in DOMAIN q.set |-> Assigning(q.set[j], style)]
  IN CASE q.type = "select_star"     -> select \o <<"*">> \o from
       [] q.type = "select_column"   -> select \o Listed(q.columns, style) \o from
       [] q.type = "select_distinct" ->
            select \o <<"DISTINCT", Blank>> \o Listed(q.columns, style) \o from
       [] q.type = "update" ->
            <<"1", Blank, "UPDATE", Blank, "TABLE", Blank, "SET", Blank>>
              \o IF style = "no_where" THEN Listed(settings, style)
                 ELSE Listed(Front(settings), style)
                        \o <<Blank, "WHERE", Blank>> \o Last(settings)

\* The query a client means by it.
Meant(q, style) ==
  IF q.type = "update"
  THEN [q EXCEPT !.set = [j \in DOMAIN q.set |->
                            <<q.set[j][1], MeantValue(q.set[j][2], style)>>]]
  ELSE q
=============================================================================
