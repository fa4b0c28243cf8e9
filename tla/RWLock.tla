-------------------------------- MODULE RWLock --------------------------------
(***************************************************************************)
(* What the table lock of the database server promises its pool threads:   *)
(* any number of readers or one writer use the table, and a thread that    *)
(* comes to read while a writer waits is held back until that writer has   *)
(* had its turn.  It keeps no counters and no condition variables; the     *)
(* module ReaderWriter shows how reader_writer.c provides it with them.    *)
(***************************************************************************)
EXTENDS Naturals

CONSTANT Threads        \* the threads of the pool

VARIABLE state          \* where each thread stands with the lock

Idle    == {t \in Threads : state[t] = "idle"}
Reading == {t \in Threads : state[t] = "reading"}
Writing == {t \in Threads : state[t] = "writing"}
Queued(role) == {t \in Threads : state[t] = role}

Init == state = [t \in Threads |-> "idle"]

Become(t, s) == state' = [state EXCEPT ![t] = s]

\* A thread that may not use the table yet queues up.
AskRead(t)  == /\ t \in Idle
               /\ Writing \cup Queued("wantWrite") # {}
               /\ Become(t, "wantRead")
AskWrite(t) == /\ t \in Idle
               /\ Reading \cup Writing # {}
               /\ Become(t, "wantWrite")

\* Readers give way to the writer inside and to every writer in the queue.
BeginRead(t) == /\ t \in Idle \cup Queued("wantRead")
                /\ Writing \cup Queued("wantWrite") = {}
                /\ Become(t, "reading")

BeginWrite(t) == /\ t \in Idle \cup Queued("wantWrite")
                 /\ Reading \cup Writing = {}
                 /\ Become(t, "writing")

End(t) == /\ t \in Reading \cup Writing
          /\ Become(t, "idle")

Next == \E t \in Threads : \/ AskRead(t)
                           \/ AskWrite(t)
                           \/ BeginRead(t)
                           \/ BeginWrite(t)
                           \/ End(t)

Spec == Init /\ [][Next]_state
===============================================================================
