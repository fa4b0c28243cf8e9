----------------------------- MODULE AtomicTable -----------------------------
(***************************************************************************)
(* What the database server promises the clients of its pool threads: a    *)
(* query is answered from one state of the table, and an update is seen by *)
(* the others either not at all or in every row it changes.                *)
(***************************************************************************)
EXTENDS SqlTable

CONSTANTS Threads, Queries

VARIABLES data,         \* the table
          reply         \* the whole response each thread is giving, or <<>>

atomicVars == <<data, reply>>

Init == /\ data \in Tables
        /\ reply = [t \in Threads |-> <<>>]

\* A thread takes a query up and answers it, all in one step.
Answer(t, q) == /\ reply[t] = <<>>
                /\ reply' = [reply EXCEPT ![t] = Response(q, data)]
                /\ data' = Updated(q, data, 0)

Finish(t) == /\ reply[t] # <<>>
             /\ reply' = [reply EXCEPT ![t] = <<>>]
             /\ UNCHANGED data

Next == \E t \in Threads :
          \/ Finish(t)
          \/ \E q \in {r \in Queries : Valid(r)} : Answer(t, q)

Spec == Init /\ [][Next]_atomicVars
==============================================================================
