----------------------------- MODULE ReaderWriter -----------------------------
(***************************************************************************)
(* The table lock of the database server: Final-Project/reader_writer.c,   *)
(* with the globals it uses (server.c, lines 29 to 36).                    *)
(*                                                                         *)
(* AR, AW, WR and WW are touched only with the mutex m held, and nothing   *)
(* blocks inside a critical section but pthread_cond_wait, which gives m   *)
(* up.  So a critical section is one step, and m itself needs no variable. *)
(* A thread in pthread_cond_wait is in the wait set of its condition       *)
(* variable until a signal, a broadcast or a spurious wakeup takes it out; *)
(* it is then "woken" and runs its while test again once it holds m.       *)
(***************************************************************************)
EXTENDS Naturals, FiniteSets

CONSTANT Threads        \* the threads of the pool (server.c, thread_pool)

ASSUME ThreadsAssumption == IsFiniteSet(Threads)

VARIABLES AR,           \* threads using the table to read
          AW,           \* threads using the table to write
          WR,           \* threads waiting to read
          WW,           \* threads waiting to write
          pc            \* the point each thread has reached

rwVars == <<AR, AW, WR, WW, pc>>

At(label) == {t \in Threads : pc[t] = label}

\* The wait sets of the two condition variables, and the threads taken out
\* of them that have not run their while test again.
ok_to_read  == At("wait_read")
ok_to_write == At("wait_write")

RWInit == /\ AR = 0 /\ AW = 0 /\ WR = 0 /\ WW = 0
          /\ pc = [t \in Threads |-> "idle"]

\* pthread_cond_signal takes one thread out of a wait set, if there is one.
OneOf(waiters) == IF waiters = {} THEN {{}} ELSE {{w} : w \in waiters}

\* Thread t goes to label; the threads of W leave a wait set.
Goto(t, label, W) ==
  pc' = [u \in Threads |->
           IF u = t THEN label
           ELSE IF u \in W /\ pc[u] = "wait_read" THEN "woken_read"
           ELSE IF u \in W /\ pc[u] = "wait_write" THEN "woken_write"
           ELSE pc[u]]

-------------------------------------------------------------------------------
(* reader(): the while test, first on arrival and again after each wakeup.  *)

\* Mutant: readers do not give way to a waiting writer.
ReadersIgnoreWaitingWriters == AW > 0

MustNotRead == AW + WW > 0

ReaderWaits(t) ==
  /\ pc[t] = "idle" /\ MustNotRead
  /\ WR' = WR + 1
  /\ Goto(t, "wait_read", {})
  /\ UNCHANGED <<AR, AW, WW>>

ReaderEnters(t) ==
  /\ pc[t] = "idle" /\ ~MustNotRead
  /\ AR' = AR + 1
  /\ Goto(t, "reading", {})
  /\ UNCHANGED <<AW, WR, WW>>

\* WR-- on waking and WR++ on waiting again cancel out.
ReaderWaitsAgain(t) ==
  /\ pc[t] = "woken_read" /\ MustNotRead
  /\ Goto(t, "wait_read", {})
  /\ UNCHANGED <<AR, AW, WR, WW>>

\* Mutant: WR-- after the wait is forgotten.
EntersWokenStillCounted(t) ==
  /\ pc[t] = "woken_read" /\ ~MustNotRead
  /\ AR' = AR + 1
  /\ Goto(t, "reading", {})
  /\ UNCHANGED <<AW, WR, WW>>

ReaderEntersWoken(t) ==
  /\ pc[t] = "woken_read" /\ ~MustNotRead
  /\ WR' = WR - 1
  /\ AR' = AR + 1
  /\ Goto(t, "reading", {})
  /\ UNCHANGED <<AW, WW>>

\* After respond(): the last reader out wakes one waiting writer.
ReaderLeaves(t) ==
  /\ pc[t] = "reading"
  /\ AR' = AR - 1
  /\ \E W \in IF AR' = 0 /\ WW > 0 THEN OneOf(ok_to_write) ELSE {{}} :
        Goto(t, "idle", W)
  /\ UNCHANGED <<AW, WR, WW>>

-------------------------------------------------------------------------------
(* writer() *)

\* Mutant: a writer looks at writers only.
WritersIgnoreReaders == AW > 0

MustNotWrite == AW + AR > 0

WriterWaits(t) ==
  /\ pc[t] = "idle" /\ MustNotWrite
  /\ WW' = WW + 1
  /\ Goto(t, "wait_write", {})
  /\ UNCHANGED <<AR, AW, WR>>

WriterEnters(t) ==
  /\ pc[t] = "idle" /\ ~MustNotWrite
  /\ AW' = AW + 1
  /\ Goto(t, "writing", {})
  /\ UNCHANGED <<AR, WR, WW>>

WriterWaitsAgain(t) ==
  /\ pc[t] = "woken_write" /\ MustNotWrite
  /\ Goto(t, "wait_write", {})
  /\ UNCHANGED <<AR, AW, WR, WW>>

WriterEntersWoken(t) ==
  /\ pc[t] = "woken_write" /\ ~MustNotWrite
  /\ WW' = WW - 1
  /\ AW' = AW + 1
  /\ Goto(t, "writing", {})
  /\ UNCHANGED <<AR, WR>>

\* Mutant: pthread_cond_signal where the readers need a broadcast.
LeavingWriterSignals ==
  IF WW > 0 THEN OneOf(ok_to_write)
  ELSE IF WR > 0 THEN OneOf(ok_to_read)
  ELSE {{}}

\* A writer on its way out prefers a waiting writer to the waiting readers.
LeavingWriterWakes ==
  IF WW > 0 THEN OneOf(ok_to_write)
  ELSE IF WR > 0 THEN {ok_to_read}
  ELSE {{}}

WriterLeaves(t) ==
  /\ pc[t] = "writing"
  /\ AW' = AW - 1
  /\ \E W \in LeavingWriterWakes : Goto(t, "idle", W)
  /\ UNCHANGED <<AR, WR, WW>>

-------------------------------------------------------------------------------
\* POSIX lets pthread_cond_wait return without a signal.
SpuriousWakeup(t) ==
  /\ t \in ok_to_read \cup ok_to_write
  /\ pc' = [pc EXCEPT ![t] = IF @ = "wait_read" THEN "woken_read"
                                                ELSE "woken_write"]
  /\ UNCHANGED <<AR, AW, WR, WW>>

\* reader_writer() is called with a new query.
QueryArrives(t) == \/ ReaderWaits(t) \/ ReaderEnters(t)
                   \/ WriterWaits(t) \/ WriterEnters(t)

Proceeds(t) == \/ ReaderWaitsAgain(t) \/ ReaderEntersWoken(t) \/ ReaderLeaves(t)
               \/ WriterWaitsAgain(t) \/ WriterEntersWoken(t) \/ WriterLeaves(t)

RWNext == \E t \in Threads : \/ QueryArrives(t)
                             \/ Proceeds(t)
                             \/ SpuriousWakeup(t)

RWSpec == RWInit /\ [][RWNext]_rwVars

\* A thread that is inside the table or has been woken keeps running; no
\* query need ever arrive and no spurious wakeup need ever happen.
RWFairSpec == RWSpec /\ \A t \in Threads : WF_rwVars(Proceeds(t))

-------------------------------------------------------------------------------
(* What must hold.                                                         *)

Labels == {"idle", "wait_read", "woken_read", "reading",
           "wait_write", "woken_write", "writing"}

\* Type invariant.
RWTypeOK == /\ AR \in Nat /\ AW \in Nat /\ WR \in Nat /\ WW \in Nat
            /\ pc \in [Threads -> Labels]

WaitingReaders == At("wait_read") \cup At("woken_read")
WaitingWriters == At("wait_write") \cup At("woken_write")

\* The four counters count the threads they are named for at every release
\* of m, whatever wakeups, spurious ones included, have happened: reader()
\* and writer() decrement and increment them around pthread_cond_wait.
CountersExact == /\ AR = Cardinality(At("reading"))
                 /\ AW = Cardinality(At("writing"))
                 /\ WR = Cardinality(WaitingReaders)
                 /\ WW = Cardinality(WaitingWriters)

\* A thread that writes the table is the only one that uses it.
Exclusion == \A t, u \in Threads :
               pc[t] = "writing" /\ pc[u] \in {"reading", "writing"} => t = u

\* No wakeup is lost.  A thread asleep in pthread_cond_wait has somebody who
\* will signal its condition variable: for a writer a thread inside the table
\* or a writer already woken; for a reader a writer, inside or waiting.
NoLostWakeup ==
  /\ ok_to_write # {} =>
       At("reading") \cup At("writing") \cup At("woken_write") # {}
  /\ ok_to_read # {} => At("writing") \cup WaitingWriters # {}

\* reader_writer.c implements the lock of RWLock: being asleep or woken is
\* all the same to a caller.
lockState == [t \in Threads |->
                CASE pc[t] \in {"wait_read", "woken_read"}   -> "wantRead"
                  [] pc[t] \in {"wait_write", "woken_write"} -> "wantWrite"
                  [] OTHER -> pc[t]]

Lock == INSTANCE RWLock WITH state <- lockState

\* Every step of reader_writer.c is a step of the abstract lock: readers hold
\* back for waiting writers, and nobody enters against a writer.
ImplementsLock == Lock!Spec

\* A waiting writer is never starved by readers: somebody gets to write.
\* (Which writer is open: one that arrives may overtake one just woken.)
WritersServed == WaitingWriters # {} ~> At("writing") # {}

\* Every thread that waits gets the table, unless new queries keep arriving
\* for ever: readers may starve behind a stream of writers, but an end of
\* the stream frees everybody, for WriterLeaves then broadcasts.
QuietServes ==
  \A t \in Threads :
     \/ []<><<\E u \in Threads : QueryArrives(u)>>_rwVars
     \/ (t \in WaitingReaders \cup WaitingWriters
           ~> t \in At("reading") \cup At("writing"))
===============================================================================
