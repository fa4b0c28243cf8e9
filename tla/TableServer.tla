----------------------------- MODULE TableServer -----------------------------
(***************************************************************************)
(* The pool threads at work on the table: reader_writer() of               *)
(* Final-Project/reader_writer.c around respond() of sql.c, whose loops    *)
(* read, update and send one row at a time while other threads run.        *)
(***************************************************************************)
EXTENDS ReaderWriter, SqlTable

CONSTANT Queries        \* what clients may ask

VARIABLES table,        \* the table all threads share
          query,        \* the query each thread is at work on
          row,          \* the next row respond() looks at
          lines,        \* what it has sent of its response
          up            \* has the server process not called exit()?

tsVars == <<AR, AW, WR, WW, pc, table, query, row, lines, up>>

NoQuery == [type |-> "none"]

TSInit == /\ RWInit
          /\ table \in Tables
          /\ query = [t \in Threads |-> NoQuery]
          /\ row = [t \in Threads |-> 0]
          /\ lines = [t \in Threads |-> <<>>]
          /\ up = TRUE

-------------------------------------------------------------------------------
\* reader_writer() is called with a query: get_type() knows its type, and
\* it goes to reader() or to writer().
Arrives(t, q) ==
  /\ up
  /\ q.type # "undefined"
  /\ IF is_reader(q) THEN ReaderWaits(t) \/ ReaderEnters(t)
                     ELSE WriterWaits(t) \/ WriterEnters(t)
  /\ query' = [query EXCEPT ![t] = q]
  /\ UNCHANGED <<table, row, lines, up>>

\* Of a query of no known type get_type() makes exit( 0 ), before any lock.
ArrivesUndefined(t, q) ==
  /\ up /\ pc[t] = "idle"
  /\ q.type = "undefined"
  /\ up' = FALSE
  /\ UNCHANGED <<AR, AW, WR, WW, pc, table, query, row, lines>>

\* The while loops and the wakeups of ReaderWriter, respond() aside.
GetsOn(t) ==
  /\ up
  /\ \/ ReaderWaitsAgain(t) \/ ReaderEntersWoken(t)
     \/ WriterWaitsAgain(t) \/ WriterEntersWoken(t)
     \/ SpuriousWakeup(t)
  /\ UNCHANGED <<table, query, row, lines, up>>

InRespond(t) == pc[t] \in {"reading", "writing"}

\* A column the table does not have: exit( 0 ), with the lock held.
RespondFails(t) ==
  /\ up /\ InRespond(t)
  /\ ~Valid(query[t])
  /\ up' = FALSE
  /\ UNCHANGED <<AR, AW, WR, WW, pc, table, query, row, lines>>

\* One turn of the loop: test the row, update it, send it.
RespondRow(t) ==
  /\ up /\ InRespond(t)
  /\ Valid(query[t]) /\ row[t] < tnum_of_row
  /\ LET i == row[t]
         q == query[t]
         new == IF UpdatesRow(q, table, i) THEN Assigned(q, table[i])
                                           ELSE table[i]
     IN /\ table' = [table EXCEPT ![i] = new]
        /\ lines' = IF Sends(q, table, i)
                    THEN [lines EXCEPT ![t] = Append(@, Line(q, new))]
                    ELSE lines
  /\ row' = [row EXCEPT ![t] = @ + 1]
  /\ UNCHANGED <<AR, AW, WR, WW, pc, query, up>>

\* The zero length is sent and respond() returns: reader() or writer() leaves.
RespondEnds(t) ==
  /\ up /\ InRespond(t)
  /\ Valid(query[t]) /\ row[t] = tnum_of_row
  /\ ReaderLeaves(t) \/ WriterLeaves(t)
  /\ query' = [query EXCEPT ![t] = NoQuery]
  /\ row' = [row EXCEPT ![t] = 0]
  /\ lines' = [lines EXCEPT ![t] = <<>>]
  /\ UNCHANGED <<table, up>>

TSNext == \E t \in Threads :
            \/ \E q \in Queries : Arrives(t, q) \/ ArrivesUndefined(t, q)
            \/ GetsOn(t)
            \/ RespondFails(t)
            \/ RespondRow(t)
            \/ RespondEnds(t)

TSSpec == TSInit /\ [][TSNext]_tsVars

-------------------------------------------------------------------------------
(* What must hold.                                                         *)

\* The table as it will be when the writer inside it, if any, is done.
Settled ==
  IF At("writing") = {} THEN table
  ELSE LET w == CHOOSE t \in Threads : pc[t] = "writing"
       IN IF Valid(query[w]) THEN Updated(query[w], table, row[w]) ELSE table

\* The response a thread inside the table will have sent when it is done.
Promised == [t \in Threads |->
               IF InRespond(t) /\ Valid(query[t])
               THEN lines[t] \o ResponseFrom(query[t], table, row[t])
               ELSE <<>>]

Atomic == INSTANCE AtomicTable WITH data <- Settled, reply <- Promised

\* The threads, row by row and all at once, answer every query as if each
\* were carried out in one step when its thread enters the table.
ImplementsAtomic == Atomic!Spec
==============================================================================
