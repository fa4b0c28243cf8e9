------------------------------ MODULE ThreadPool ------------------------------
(***************************************************************************)
(* The server's main loop, its pool of threads and its SIGINT handler:     *)
(* Final-Project/server.c (main from line 190, handle_sigint) and t_pool.c.*)
(*                                                                         *)
(* What the pool shares (stack, num_of_busy, the wait sets of cond and     *)
(* cond_server) is guarded by the mutex lock.  A thread's critical section *)
(* is one step.  main's is split where the signal handler, which main runs *)
(* on its own stack, can interrupt it: main then keeps lock for ever.      *)
(*                                                                         *)
(* A connection is opened by a client, accepted by main, served by a       *)
(* thread until the client closes it, and never closed by the server.      *)
(***************************************************************************)
EXTENDS Naturals, Sequences, FiniteSets

CONSTANTS Threads,              \* thread_pool
          Connections,          \* the connections clients ever open
          None                  \* no connection

ASSUME PoolAssumption == /\ IsFiniteSet(Threads) /\ Threads # {}
                         /\ None \notin Connections

pool_size == Cardinality(Threads)

VARIABLES conn,         \* the client's side of each connection
          main,         \* the point main has reached
          accepted,     \* new_socket: what accept() returned, while main holds it
          lock,         \* "main" while main holds the mutex between two steps
          stack,        \* accepted connections no thread has taken
          num_of_busy,
          at,           \* the point each thread has reached
          socket,       \* the connection each thread popped
          terminate,
          temp_file,    \* does the single-instance file exist?
          process,      \* "running", or how the server process ended
          spurious      \* has a thread's pthread_cond_wait returned unsignalled?

poolVars == <<conn, main, accepted, lock, stack, num_of_busy, at, socket,
              terminate, temp_file, process, spurious>>

On(label) == {t \in Threads : at[t] = label}

\* The wait set of cond.
cond == On("cond_wait")

PoolInit ==
  /\ conn = [c \in Connections |-> "unopened"]
  /\ main = "accept" /\ accepted = None /\ lock = "free"
  /\ stack = <<>> /\ num_of_busy = 0
  /\ at = [t \in Threads |-> "start"]
  /\ socket = [t \in Threads |-> None]
  /\ terminate = FALSE /\ temp_file = TRUE /\ process = "running"
  /\ spurious = FALSE

-------------------------------------------------------------------------------
(* Clients, outside the server process. *)

ClientConnects(c) ==
  /\ process = "running"
  /\ conn[c] = "unopened"
  /\ conn' = [conn EXCEPT ![c] = "backlog"]
  /\ UNCHANGED <<main, accepted, lock, stack, num_of_busy, at, socket,
                 terminate, temp_file, process, spurious>>

ClientCloses(c) ==
  /\ process = "running"
  /\ conn[c] = "open"
  /\ conn' = [conn EXCEPT ![c] = "closed"]
  /\ UNCHANGED <<main, accepted, lock, stack, num_of_busy, at, socket,
                 terminate, temp_file, process, spurious>>

-------------------------------------------------------------------------------
(* main *)

\* accept() takes a connection off the backlog.
MainAccepts(c) ==
  /\ process = "running"
  /\ main = "accept" /\ conn[c] = "backlog"
  /\ conn' = [conn EXCEPT ![c] = "open"]
  /\ accepted' = c
  /\ main' = "accepted"
  /\ UNCHANGED <<lock, stack, num_of_busy, at, socket, terminate, temp_file,
                 process, spurious>>

MainLocks ==
  /\ process = "running"
  /\ main = "accepted" /\ lock = "free"
  /\ lock' = "main" /\ main' = "locked"
  /\ UNCHANGED <<conn, accepted, stack, num_of_busy, at, socket, terminate,
                 temp_file, process, spurious>>

\* Mutant: pthread_cond_broadcast for each connection.
BroadcastCond == at' = [t \in Threads |-> IF t \in cond THEN "woken" ELSE at[t]]

\* pthread_cond_signal(&cond): one waiter is woken, or none if none waits.
SignalCond ==
  IF cond = {} THEN at' = at
  ELSE \E t \in cond : at' = [at EXCEPT ![t] = "woken"]

\* push( new_socket ), num_of_busy++ and the signal: the handler may start
\* between any two of them.
MainPushes ==
  /\ process = "running"
  /\ main = "locked"
  /\ stack' = Append(stack, accepted)
  /\ accepted' = None
  /\ main' = "pushed"
  /\ UNCHANGED <<conn, lock, num_of_busy, at, socket, terminate, temp_file,
                 process, spurious>>

MainCounts ==
  /\ process = "running"
  /\ main = "pushed"
  /\ num_of_busy' = num_of_busy + 1
  /\ main' = "counted"
  /\ UNCHANGED <<conn, accepted, lock, stack, at, socket, terminate,
                 temp_file, process, spurious>>

MainSignals ==
  /\ process = "running"
  /\ main = "counted"
  /\ SignalCond
  /\ main' = "testing"
  /\ UNCHANGED <<conn, accepted, lock, stack, num_of_busy, socket, terminate,
                 temp_file, process, spurious>>

\* Mutant: while( num_of_busy > pool_size ).
MainTestsTooLate ==
  /\ process = "running"
  /\ main = "testing"
  /\ lock' = "free"
  /\ main' = IF num_of_busy > pool_size THEN "cs_wait" ELSE "accept"
  /\ UNCHANGED <<conn, accepted, stack, num_of_busy, at, socket, terminate,
                 temp_file, process, spurious>>

\* The while test: wait for cond_server, giving lock up, or unlock.
MainTests ==
  /\ process = "running"
  /\ main = "testing"
  /\ lock' = "free"
  /\ main' = IF num_of_busy >= pool_size THEN "cs_wait" ELSE "accept"
  /\ UNCHANGED <<conn, accepted, stack, num_of_busy, at, socket, terminate,
                 temp_file, process, spurious>>

\* pthread_cond_wait(&cond_server, &lock) returns with lock taken again.
MainWakes ==
  /\ process = "running"
  /\ main = "cs_woken" /\ lock = "free"
  /\ lock' = "main" /\ main' = "testing"
  /\ UNCHANGED <<conn, accepted, stack, num_of_busy, at, socket, terminate,
                 temp_file, process, spurious>>

-------------------------------------------------------------------------------
(* thread_of_pool *)

\* lock; pthread_cond_wait, with no test before it.
ThreadWaits(t) ==
  /\ process = "running" /\ lock = "free"
  /\ at[t] = "start"
  /\ at' = [at EXCEPT ![t] = "cond_wait"]
  /\ UNCHANGED <<conn, main, accepted, lock, stack, num_of_busy, socket,
                 terminate, temp_file, process, spurious>>

\* The woken thread has lock again: pop() the youngest connection; unlock.
ThreadPops(t) ==
  /\ process = "running" /\ lock = "free"
  /\ at[t] = "woken" /\ stack # <<>>
  /\ stack' = SubSeq(stack, 1, Len(stack) - 1)
  /\ socket' = [socket EXCEPT ![t] = stack[Len(stack)]]
  /\ at' = [at EXCEPT ![t] = "popped"]
  /\ UNCHANGED <<conn, main, accepted, lock, num_of_busy, terminate,
                 temp_file, process, spurious>>

\* pop() from an empty stack ends the process with exit( 0 ).
ThreadPopsEmpty(t) ==
  /\ process = "running" /\ lock = "free"
  /\ at[t] = "woken" /\ stack = <<>>
  /\ process' = "popped_empty"
  /\ UNCHANGED <<conn, main, accepted, lock, stack, num_of_busy, at, socket,
                 terminate, temp_file, spurious>>

ThreadTestsTerminate(t) ==
  /\ process = "running"
  /\ at[t] = "popped"
  /\ at' = [at EXCEPT ![t] = IF terminate THEN "exited" ELSE "serving"]
  /\ UNCHANGED <<conn, main, accepted, lock, stack, num_of_busy, socket,
                 terminate, temp_file, process, spurious>>

\* read() returns 0: the client has closed.
ThreadSeesEof(t) ==
  /\ process = "running"
  /\ at[t] = "serving" /\ conn[socket[t]] = "closed"
  /\ at' = [at EXCEPT ![t] = "served"]
  /\ UNCHANGED <<conn, main, accepted, lock, stack, num_of_busy, socket,
                 terminate, temp_file, process, spurious>>

\* Mutant: num_of_busy-- is forgotten.
ThreadFreesUncounted(t) ==
  /\ process = "running" /\ lock = "free"
  /\ at[t] = "served"
  /\ main' = IF main = "cs_wait" THEN "cs_woken" ELSE main
  /\ socket' = [socket EXCEPT ![t] = None]
  /\ at' = [at EXCEPT ![t] = "start"]
  /\ UNCHANGED <<conn, accepted, lock, stack, num_of_busy, terminate,
                 temp_file, process, spurious>>

\* Mutant: cond_server is not signalled.
ThreadFreesSilently(t) ==
  /\ process = "running" /\ lock = "free"
  /\ at[t] = "served"
  /\ num_of_busy' = num_of_busy - 1
  /\ socket' = [socket EXCEPT ![t] = None]
  /\ at' = [at EXCEPT ![t] = "start"]
  /\ UNCHANGED <<conn, main, accepted, lock, stack, terminate, temp_file,
                 process, spurious>>

\* lock; num_of_busy--; pthread_cond_signal(&cond_server); unlock.
ThreadFrees(t) ==
  /\ process = "running" /\ lock = "free"
  /\ at[t] = "served"
  /\ num_of_busy' = num_of_busy - 1
  /\ main' = IF main = "cs_wait" THEN "cs_woken" ELSE main
  /\ socket' = [socket EXCEPT ![t] = None]
  /\ at' = [at EXCEPT ![t] = "start"]
  /\ UNCHANGED <<conn, accepted, lock, stack, terminate, temp_file, process, spurious>>

\* POSIX lets pthread_cond_wait return without a signal.
SpuriousWakeup ==
  /\ process = "running"
  /\ \/ /\ \E t \in cond : at' = [at EXCEPT ![t] = "woken"]
        /\ spurious' = TRUE
        /\ main' = main
     \/ /\ main = "cs_wait"
        /\ main' = "cs_woken"
        /\ UNCHANGED <<at, spurious>>
  /\ UNCHANGED <<conn, accepted, lock, stack, num_of_busy, socket, terminate,
                 temp_file, process>>

-------------------------------------------------------------------------------
(* handle_sigint, which runs in main wherever main is (once: the handler    *)
(* blocks a second SIGINT in main).  It takes no lock and never returns.    *)

InHandler == main \in {"handler", "removed", "joining"}

HandlerStarts ==
  /\ process = "running" /\ ~InHandler
  /\ terminate' = TRUE
  /\ main' = "handler"
  /\ UNCHANGED <<conn, accepted, lock, stack, num_of_busy, at, socket,
                 temp_file, process, spurious>>

HandlerRemovesFile ==
  /\ process = "running"
  /\ main = "handler"
  /\ temp_file' = FALSE
  /\ main' = "removed"
  /\ UNCHANGED <<conn, accepted, lock, stack, num_of_busy, at, socket,
                 terminate, process, spurious>>

\* Mutant: pthread_cond_signal in place of the broadcast.
HandlerSignals ==
  /\ process = "running"
  /\ main = "removed"
  /\ SignalCond
  /\ main' = "joining"
  /\ UNCHANGED <<conn, accepted, lock, stack, num_of_busy, socket, terminate,
                 temp_file, process, spurious>>

HandlerBroadcasts ==
  /\ process = "running"
  /\ main = "removed"
  /\ at' = [t \in Threads |-> IF t \in cond THEN "woken" ELSE at[t]]
  /\ main' = "joining"
  /\ UNCHANGED <<conn, accepted, lock, stack, num_of_busy, socket, terminate,
                 temp_file, process, spurious>>

HandlerJoinsAll ==
  /\ process = "running"
  /\ main = "joining" /\ \A t \in Threads : at[t] = "exited"
  /\ process' = "shut_down"
  /\ UNCHANGED <<conn, main, accepted, lock, stack, num_of_busy, at, socket,
                 terminate, temp_file, spurious>>

-------------------------------------------------------------------------------
Client(c) == ClientConnects(c) \/ ClientCloses(c)

Main == \/ \E c \in Connections : MainAccepts(c)
        \/ MainLocks \/ MainPushes \/ MainCounts \/ MainSignals
        \/ MainTests \/ MainWakes

Thread(t) == \/ ThreadWaits(t) \/ ThreadPops(t) \/ ThreadPopsEmpty(t)
             \/ ThreadTestsTerminate(t) \/ ThreadSeesEof(t) \/ ThreadFrees(t)

Handler == \/ HandlerRemovesFile \/ HandlerBroadcasts \/ HandlerJoinsAll

\* The server left to serve, and the server that also gets a SIGINT.
ServeNext == \/ \E c \in Connections : Client(c)
             \/ Main
             \/ \E t \in Threads : Thread(t)
             \/ SpuriousWakeup

PoolNext == ServeNext \/ HandlerStarts \/ Handler

PoolSpec  == PoolInit /\ [][PoolNext]_poolVars

\* Threads run when they can, a connected client closes in the end; no client
\* need ever connect and no SIGINT need ever come.
PoolFairness ==
  /\ WF_poolVars(Main)
  /\ WF_poolVars(Handler)
  /\ \A t \in Threads : WF_poolVars(Thread(t))
  /\ \A c \in Connections : WF_poolVars(ClientCloses(c))

PoolFairSpec  == PoolSpec /\ PoolFairness

-------------------------------------------------------------------------------
(* What must hold.                                                         *)

\* Type invariant.
PoolTypeOK ==
  /\ conn \in [Connections -> {"unopened", "backlog", "open", "closed"}]
  /\ main \in {"accept", "accepted", "locked", "pushed", "counted", "testing",
               "cs_wait", "cs_woken", "handler", "removed", "joining"}
  /\ accepted \in Connections \cup {None}
  /\ lock \in {"free", "main"}
  /\ stack \in Seq(Connections)
  /\ num_of_busy \in Nat
  /\ at \in [Threads -> {"start", "cond_wait", "woken", "popped", "serving",
                         "served", "exited"}]
  /\ socket \in [Threads -> Connections \cup {None}]
  /\ terminate \in BOOLEAN /\ temp_file \in BOOLEAN /\ spurious \in BOOLEAN
  /\ process \in {"running", "popped_empty", "shut_down"}

Holding == {t \in Threads : socket[t] # None}

\* num_of_busy, counted up by main and down by the threads, is the number of
\* connections waiting on the stack or held by a thread, whenever a thread can
\* lock the mutex and whenever main tests it: main counts only after its push(),
\* but a handler that starts between the two keeps the mutex.
BusyExact == lock = "free" \/ main = "testing" =>
               num_of_busy = Len(stack) + Cardinality(Holding)

\* main never takes on more connections than there are threads (so stack,
\* an array of 2000, is never overrun by a pool it can hold), and it is not
\* left asleep on cond_server when a thread has become free.
BusyBounded == /\ num_of_busy <= pool_size
               /\ main = "cs_wait" => num_of_busy = pool_size
               /\ main \in {"accept", "accepted", "locked", "pushed"} =>
                    num_of_busy < pool_size

\* pop() finds a connection: as long as the handler has not broadcast and
\* threads are woken by signals only, there is one for every woken thread.
NoEmptyPop ==
  main # "joining" /\ ~spurious => /\ Cardinality(On("woken")) <= Len(stack)
                                   /\ process # "popped_empty"

\* pthread_cond_wait keeps returning without a signal.
WakesForEver == []<><<SpuriousWakeup>>_poolVars

Delegated(c) == \E t \in Threads : socket[t] = c

\* main signalled cond for a connection while no thread was asleep on it.
SignalLost == /\ main \notin {"pushed", "counted"}
              /\ Cardinality(On("woken")) < Len(stack)

\* A client that connects is served, provided every signal of cond finds a
\* thread asleep, no thread wakes without one and no SIGINT comes.
ServedUnlessSignalLost ==
  \/ <>(SignalLost \/ terminate \/ spurious) \/ WakesForEver
  \/ \A c \in Connections : conn[c] = "backlog" ~> Delegated(c)

\* What SIGINT does.  A thread that is idle then is woken, and returns or ends
\* the process by popping from the empty stack; the process ends and leaves no
\* single-instance file, unless a thread that was busy goes to wait after the
\* broadcast.  All this if the signal did not find main in its critical section,
\* for the handler runs there with lock taken and no thread gets on.
SigintEnds ==
  /\ \A t \in Threads :
       terminate /\ main # "joining" /\ at[t] = "cond_wait" ~>
         at[t] = "exited" \/ process # "running" \/ lock = "main"
  /\ terminate ~> \/ process # "running" /\ ~temp_file
                  \/ main = "joining" /\ cond # {}
                  \/ lock = "main" \/ spurious
===============================================================================
