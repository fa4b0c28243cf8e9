--------------------------- MODULE ThreadPoolProofs ---------------------------
(***************************************************************************)
(* The accounts of the pool, for every number of threads and connections,  *)
(* with spurious wakeups and with a SIGINT at any moment.                  *)
(***************************************************************************)
EXTENDS ThreadPool, FiniteSetTheorems, SequenceTheorems, TLAPS

\* A thread has a connection from pop() to the end of its loop.
SocketHeld ==
  \A t \in Threads :
    socket[t] # None <=> at[t] \in {"popped", "serving", "served", "exited"}

\* main has one to push between accept() and push().
AcceptedHeld == main \in {"accepted", "locked"} => accepted # None

\* main has the mutex from lock to unlock, unless it waits for cond_server.
MainLocked ==
  main \in {"locked", "pushed", "counted", "testing"} => lock = "main"

\* num_of_busy is one behind between main's push() and its num_of_busy++, and
\* exact at every other point that main reaches by itself.
Accounts ==
  /\ lock = "free" \/ main \in {"locked", "counted", "testing"} =>
       num_of_busy = Len(stack) + Cardinality(Holding)
  /\ main = "pushed" =>
       num_of_busy + 1 = Len(stack) + Cardinality(Holding)

PoolInv == /\ PoolTypeOK /\ SocketHeld /\ AcceptedHeld
           /\ MainLocked /\ Accounts /\ BusyBounded

-------------------------------------------------------------------------------
\* There are finitely many threads, at least one.
LEMMA PoolSize == pool_size \in Nat /\ pool_size > 0
<1>1. Cardinality(Threads) \in Nat /\ Cardinality(Threads) # 0
  BY PoolAssumption, FS_CardinalityType, FS_EmptySet
<1>2. QED  BY <1>1 DEF pool_size

LEMMA HoldingFinite == IsFiniteSet(Holding) /\ Cardinality(Holding) \in Nat
<1>1. IsFiniteSet(Holding)
  BY PoolAssumption, FS_Subset DEF Holding
<1>2. QED  BY <1>1, FS_CardinalityType

\* push() and pop() on the stack.
LEMMA PushPop ==
  ASSUME NEW s \in Seq(Connections)
  PROVE  /\ Len(s) \in Nat
         /\ \A c \in Connections : /\ Append(s, c) \in Seq(Connections)
                                   /\ Len(Append(s, c)) = Len(s) + 1
         /\ s # <<>> => /\ SubSeq(s, 1, Len(s) - 1) \in Seq(Connections)
                        /\ Len(SubSeq(s, 1, Len(s) - 1)) = Len(s) - 1
                        /\ s[Len(s)] \in Connections
                        /\ Len(s) > 0
<1>1. Len(s) \in Nat
  OBVIOUS
<1>2. \A c \in Connections : /\ Append(s, c) \in Seq(Connections)
                             /\ Len(Append(s, c)) = Len(s) + 1
  OBVIOUS
<1>3. ASSUME s # <<>>
      PROVE  /\ SubSeq(s, 1, Len(s) - 1) \in Seq(Connections)
             /\ Len(SubSeq(s, 1, Len(s) - 1)) = Len(s) - 1
             /\ s[Len(s)] \in Connections
             /\ Len(s) > 0
  <2>1. Len(s) > 0
    BY <1>3, EmptySeq
  <2>2. \A i \in 1 .. Len(s) : s[i] \in Connections
    OBVIOUS
  <2>3. PICK n \in Nat : n = Len(s) - 1
    BY <1>1, <2>1
  <2>4. /\ SubSeq(s, 1, n) \in Seq(Connections)
        /\ Len(SubSeq(s, 1, n)) = IF 1 <= n THEN n - 1 + 1 ELSE 0
    <3>1. \A i \in 1 .. n : s[i] \in Connections
      BY <1>1, <2>2, <2>3
    <3>2. QED  BY <3>1, SubSeqProperties
  <2>5. QED  BY <1>1, <2>1, <2>2, <2>3, <2>4
<1>4. QED  BY <1>1, <1>2, <1>3

-------------------------------------------------------------------------------
\* The threads with a connection change by the one that pops or frees it.
LEMMA HoldingMoves ==
  ASSUME NEW t \in Threads,
         \A u \in Threads \ {t} : socket'[u] = socket[u]
  PROVE  /\ socket[t] = None /\ socket'[t] # None =>
              Cardinality(Holding') = Cardinality(Holding) + 1
         /\ socket[t] # None /\ socket'[t] = None =>
              Cardinality(Holding') = Cardinality(Holding) - 1
<1>1. ASSUME socket[t] = None, socket'[t] # None
      PROVE  Cardinality(Holding') = Cardinality(Holding) + 1
  <2>1. t \notin Holding /\ Holding' = Holding \cup {t}
    BY <1>1 DEF Holding
  <2>2. QED  BY <2>1, HoldingFinite, FS_AddElement
<1>2. ASSUME socket[t] # None, socket'[t] = None
      PROVE  Cardinality(Holding') = Cardinality(Holding) - 1
  <2>1. t \in Holding /\ Holding' = Holding \ {t}
    BY <1>2 DEF Holding
  <2>2. QED  BY <2>1, HoldingFinite, FS_RemoveElement
<1>3. QED  BY <1>1, <1>2

LEMMA PoolInvInit == PoolInit => PoolInv
<1> SUFFICES ASSUME PoolInit PROVE PoolInv
  OBVIOUS
<1> USE DEF PoolInit
<1>1. PoolTypeOK
  BY PoolAssumption, EmptySeq DEF PoolTypeOK
<1>2. SocketHeld /\ AcceptedHeld /\ MainLocked
  BY DEF SocketHeld, AcceptedHeld, MainLocked
<1>3. Accounts
  <2>1. Holding = {}
    BY DEF Holding
  <2>2. QED  BY <2>1, FS_EmptySet DEF Accounts
<1>4. BusyBounded
  BY PoolSize DEF BusyBounded
<1>5. QED  BY <1>1, <1>2, <1>3, <1>4 DEF PoolInv

\* Most steps leave the stack and the sockets alone, and main where it is or
\* at a point where the count was exact before.
LEMMA KeepsHolding ==
  ASSUME PoolInv, UNCHANGED <<stack, num_of_busy, socket>>,
         lock' = "free" => lock = "free" \/ main = "testing",
         main' = "pushed" => main = "pushed",
         main' \in {"locked", "counted", "testing"} =>
           \/ main \in {"locked", "counted", "testing"}
           \/ lock = "free"
  PROVE  Accounts'
<1>1. Holding' = Holding
  BY DEF Holding
<1>2. QED  BY <1>1 DEF PoolInv, Accounts

LEMMA PoolInvStep ==
  ASSUME PoolInv, [PoolNext]_poolVars
  PROVE  PoolInv'
<1> USE DEF PoolInv
<1> pool_size \in Nat /\ pool_size > 0
  BY PoolSize
<1> num_of_busy \in Nat
  BY DEF PoolTypeOK
<1>1. ASSUME NEW c \in Connections, Client(c)
      PROVE  PoolInv'
  <2> USE DEF Client, ClientConnects, ClientCloses
  <2>1. PoolTypeOK'
    BY <1>1 DEF PoolTypeOK
  <2>2. SocketHeld' /\ AcceptedHeld' /\ MainLocked' /\ BusyBounded'
    BY <1>1 DEF SocketHeld, AcceptedHeld, MainLocked, BusyBounded,
         pool_size
  <2>3. Accounts'
    BY <1>1, KeepsHolding
  <2>4. QED  BY <2>1, <2>2, <2>3
<1>2. ASSUME NEW c \in Connections, MainAccepts(c)
      PROVE  PoolInv'
  <2> USE DEF MainAccepts
  <2>1. PoolTypeOK'
    BY <1>2 DEF PoolTypeOK
  <2>2. SocketHeld' /\ AcceptedHeld' /\ MainLocked' /\ BusyBounded'
    BY <1>2, PoolAssumption
       DEF SocketHeld, AcceptedHeld, MainLocked, BusyBounded, pool_size
  <2>3. Accounts'
    BY <1>2, KeepsHolding
  <2>4. QED  BY <2>1, <2>2, <2>3
<1>3. ASSUME MainLocks \/ MainTests \/ MainWakes
      PROVE  PoolInv'
  <2> USE DEF MainLocks, MainTests, MainWakes
  <2>1. PoolTypeOK'
    BY <1>3 DEF PoolTypeOK
  <2>2. SocketHeld' /\ AcceptedHeld' /\ MainLocked' /\ BusyBounded'
    BY <1>3 DEF SocketHeld, AcceptedHeld, MainLocked, BusyBounded,
         pool_size
  <2>3. Accounts'
    BY <1>3, KeepsHolding
  <2>4. QED  BY <2>1, <2>2, <2>3
<1>4. ASSUME MainPushes
      PROVE  PoolInv'
  <2> USE DEF MainPushes
  <2>1. accepted \in Connections
    BY <1>4 DEF PoolTypeOK, AcceptedHeld
  <2>2. stack' \in Seq(Connections) /\ Len(stack') = Len(stack) + 1
    BY <1>4, <2>1, PushPop DEF PoolTypeOK
  <2>3. PoolTypeOK'
    BY <1>4, <2>2 DEF PoolTypeOK
  <2>4. SocketHeld' /\ AcceptedHeld' /\ MainLocked' /\ BusyBounded'
    BY <1>4 DEF SocketHeld, AcceptedHeld, MainLocked, BusyBounded, pool_size
  <2>5. Accounts'
    <3>1. Len(stack) \in Nat
      BY DEF PoolTypeOK
    <3>2. Holding' = Holding
      BY <1>4 DEF Holding
    <3>3. lock' = "main" /\ main' = "pushed"
      BY <1>4 DEF MainLocked
    <3>4. num_of_busy' + 1 = Len(stack') + Cardinality(Holding')
      BY <1>4, <2>2, <3>1, <3>2, HoldingFinite DEF Accounts
    <3>5. QED  BY <3>3, <3>4 DEF Accounts
  <2>6. QED  BY <2>3, <2>4, <2>5
<1>5. ASSUME MainCounts
       PROVE  PoolInv'
  <2> USE DEF MainCounts
  <2>1. PoolTypeOK'
    BY <1>5 DEF PoolTypeOK
  <2>2. SocketHeld' /\ AcceptedHeld' /\ MainLocked' /\ BusyBounded'
    BY <1>5 DEF SocketHeld, AcceptedHeld, MainLocked, BusyBounded, pool_size
  <2>3. Accounts'
    <3>1. Holding' = Holding
      BY <1>5 DEF Holding
    <3>2. QED  BY <1>5, <3>1 DEF Accounts
  <2>4. QED  BY <2>1, <2>2, <2>3
<1>6. ASSUME MainSignals
       PROVE  PoolInv'
  <2> USE DEF MainSignals
  <2>1. /\ at' \in [Threads -> {"start", "cond_wait", "woken", "popped",
                                "serving", "served", "exited"}]
        /\ \A t \in Threads : \/ at'[t] = at[t]
                              \/ at[t] = "cond_wait" /\ at'[t] = "woken"
    BY <1>6 DEF SignalCond, PoolTypeOK, cond, On
  <2>2. PoolTypeOK'
    BY <1>6, <2>1 DEF PoolTypeOK
  <2>3. SocketHeld'
    BY <1>6, <2>1 DEF SocketHeld
  <2>4. AcceptedHeld' /\ MainLocked' /\ BusyBounded'
    BY <1>6 DEF AcceptedHeld, MainLocked, BusyBounded, pool_size
  <2>5. Accounts'
    BY <1>6, KeepsHolding DEF MainLocked
  <2>6. QED  BY <2>2, <2>3, <2>4, <2>5
<1>7. ASSUME NEW t \in Threads,
             ThreadWaits(t) \/ ThreadTestsTerminate(t) \/ ThreadSeesEof(t)
      PROVE  PoolInv'
  <2> USE DEF ThreadWaits, ThreadTestsTerminate, ThreadSeesEof
  <2>1. PoolTypeOK'
    BY <1>7 DEF PoolTypeOK
  <2>2. SocketHeld' /\ AcceptedHeld' /\ MainLocked' /\ BusyBounded'
    BY <1>7 DEF PoolTypeOK, SocketHeld, AcceptedHeld, MainLocked, BusyBounded,
         pool_size
  <2>3. Accounts'
    BY <1>7, KeepsHolding
  <2>4. QED  BY <2>1, <2>2, <2>3
<1>8. ASSUME NEW t \in Threads, ThreadPops(t)
      PROVE  PoolInv'
  <2> USE DEF ThreadPops
  <2>1. /\ stack' \in Seq(Connections) /\ Len(stack') = Len(stack) - 1
        /\ Len(stack) \in Nat
        /\ stack[Len(stack)] \in Connections
    BY <1>8, PushPop DEF PoolTypeOK
  <2>2. PoolTypeOK'
    BY <1>8, <2>1 DEF PoolTypeOK
  <2>3. socket[t] = None /\ socket'[t] # None
    BY <1>8, <2>1, PoolAssumption DEF PoolTypeOK, SocketHeld
  <2>4. SocketHeld'
    BY <1>8, <2>3 DEF PoolTypeOK, SocketHeld
  <2>5. AcceptedHeld' /\ MainLocked' /\ BusyBounded'
    BY <1>8 DEF AcceptedHeld, MainLocked, BusyBounded,
         pool_size
  <2>6. Accounts'
    <3>1. Cardinality(Holding') = Cardinality(Holding) + 1
      BY <1>8, <2>3, HoldingMoves DEF PoolTypeOK
    <3>2. num_of_busy' = num_of_busy /\ main' # "pushed"
      BY <1>8 DEF MainLocked
    <3>3. num_of_busy = Len(stack) + Cardinality(Holding)
      BY <1>8 DEF Accounts
    <3>4. num_of_busy' = Len(stack') + Cardinality(Holding')
      BY <2>1, <3>1, <3>2, <3>3, HoldingFinite
    <3>5. QED  BY <3>2, <3>4 DEF Accounts
  <2>7. QED  BY <2>2, <2>4, <2>5, <2>6
<1>9. ASSUME NEW t \in Threads, ThreadFrees(t)
      PROVE  PoolInv'
  <2> USE DEF ThreadFrees
  <2>1. socket[t] # None /\ socket'[t] = None
    BY <1>9 DEF PoolTypeOK, SocketHeld
  <2>2. Cardinality(Holding') = Cardinality(Holding) - 1
    BY <1>9, <2>1, HoldingMoves DEF PoolTypeOK
  <2>3. Cardinality(Holding) # 0
    BY <2>1, HoldingFinite, FS_EmptySet DEF Holding
  <2>4. Accounts' /\ num_of_busy > 0
    <3>1. Len(stack) \in Nat
      BY DEF PoolTypeOK
    <3>2. num_of_busy = Len(stack) + Cardinality(Holding)
      BY <1>9 DEF Accounts
    <3>3. main' # "pushed"
      BY <1>9 DEF MainLocked
    <3>4. QED
      BY <1>9, <2>2, <2>3, <3>1, <3>2, <3>3, HoldingFinite DEF Accounts
  <2>5. num_of_busy' = num_of_busy - 1 /\ num_of_busy' \in Nat
    BY <1>9, <2>4
  <2>6. PoolTypeOK'
    BY <1>9, <2>5 DEF PoolTypeOK
  <2>7. SocketHeld'
    BY <1>9, <2>1 DEF PoolTypeOK, SocketHeld
  <2>8. AcceptedHeld' /\ MainLocked' /\ BusyBounded'
    BY <1>9, <2>5 DEF AcceptedHeld, MainLocked, BusyBounded,
         pool_size
  <2>9. QED  BY <2>4, <2>6, <2>7, <2>8
<1>10. ASSUME \/ SpuriousWakeup \/ HandlerBroadcasts
      PROVE  PoolInv'
  <2> USE DEF SpuriousWakeup, HandlerBroadcasts, cond, On
  <2>1. /\ PoolTypeOK'
        /\ \A t \in Threads : \/ at'[t] = at[t]
                              \/ at[t] = "cond_wait" /\ at'[t] = "woken"
    BY <1>10 DEF PoolTypeOK
  <2>2. SocketHeld'
    BY <1>10, <2>1 DEF SocketHeld
  <2>3. AcceptedHeld' /\ MainLocked' /\ BusyBounded'
    BY <1>10 DEF AcceptedHeld, MainLocked, BusyBounded,
         pool_size
  <2>4. Accounts'
    BY <1>10, KeepsHolding
  <2>5. QED  BY <2>1, <2>2, <2>3, <2>4
<1>11. ASSUME \/ HandlerStarts \/ HandlerRemovesFile \/ HandlerJoinsAll
             \/ \E t \in Threads : ThreadPopsEmpty(t)
      PROVE  PoolInv'
  <2> USE DEF HandlerStarts, HandlerRemovesFile, HandlerJoinsAll,
              ThreadPopsEmpty
  <2>1. PoolTypeOK'
    BY <1>11 DEF PoolTypeOK
  <2>2. SocketHeld' /\ AcceptedHeld' /\ MainLocked' /\ BusyBounded'
    BY <1>11 DEF SocketHeld, AcceptedHeld, MainLocked, BusyBounded,
         pool_size
  <2>3. Accounts'
    BY <1>11, KeepsHolding
  <2>4. QED  BY <2>1, <2>2, <2>3
<1>12. CASE UNCHANGED poolVars
  <2> USE DEF poolVars
  <2>1. PoolTypeOK'
    BY <1>12 DEF PoolTypeOK
  <2>2. SocketHeld' /\ AcceptedHeld' /\ MainLocked' /\ BusyBounded'
    BY <1>12 DEF SocketHeld, AcceptedHeld, MainLocked, BusyBounded,
         pool_size
  <2>3. Accounts'
    BY <1>12, KeepsHolding
  <2>4. QED  BY <2>1, <2>2, <2>3
<1>13. QED
  BY <1>1, <1>2, <1>3, <1>4, <1>7, <1>8, <1>9, <1>10, <1>11, <1>12, <1>5,
     <1>6
     DEF PoolNext, ServeNext, Main, Thread, Handler

THEOREM PoolInvHolds == PoolSpec => []PoolInv
BY PoolInvInit, PoolInvStep, PTL DEF PoolSpec

\* The pool's variables keep their types.
THEOREM PoolTypeCorrect == PoolSpec => []PoolTypeOK
<1>1. PoolInv => PoolTypeOK
  BY DEF PoolInv
<1>2. QED  BY <1>1, PoolInvHolds, PTL

\* num_of_busy is the number of connections on the stack or with a thread,
\* whenever a thread can change it or main tests it.
THEOREM BusyIsExact == PoolSpec => []BusyExact
<1>1. PoolInv => BusyExact
  BY DEF PoolInv, Accounts, BusyExact
<1>2. QED  BY <1>1, PoolInvHolds, PTL

\* main never takes on more connections than the pool has threads, and does
\* not sleep on cond_server while a thread is free.
THEOREM BusyIsBounded == PoolSpec => []BusyBounded
<1>1. PoolInv => BusyBounded
  BY DEF PoolInv
<1>2. QED  BY <1>1, PoolInvHolds, PTL

-------------------------------------------------------------------------------
(* pop() from an empty stack                                               *)

Woken == On("woken")

LEMMA WokenFinite == IsFiniteSet(Woken) /\ Cardinality(Woken) \in Nat
<1>1. IsFiniteSet(Woken)
  BY PoolAssumption, FS_Subset DEF Woken, On
<1>2. QED  BY <1>1, FS_CardinalityType

\* When no thread is newly woken, no more threads are woken than before.
LEMMA FewerWoken ==
  ASSUME \A t \in Threads : at'[t] = "woken" => at[t] = "woken"
  PROVE  Cardinality(Woken') <= Cardinality(Woken)
<1>1. Woken' \subseteq Woken
  BY DEF Woken, On
<1>2. QED  BY <1>1, WokenFinite, FS_Subset

\* A connection that main has pushed and not yet signalled has woken nobody.
Unsignalled ==
  main \in {"pushed", "counted"} /\ ~spurious =>
    Cardinality(Woken) < Len(stack)

\* Before the handler's broadcast, only main's signals wake threads: one for
\* each connection it has pushed.
LEMMA NoEmptyPopStep ==
  ASSUME PoolInv, NoEmptyPop, Unsignalled, [PoolNext]_poolVars
  PROVE  NoEmptyPop' /\ Unsignalled'
<1> USE DEF PoolInv
<1> DEFINE Enough == Cardinality(Woken) <= Len(stack)
<1>0. /\ Len(stack) \in Nat
      /\ main # "joining" /\ ~spurious => Enough /\ process # "popped_empty"
  BY DEF PoolTypeOK, NoEmptyPop, Woken
<1>1. ASSUME UNCHANGED <<stack, process, spurious>>,
             main' # "joining" => main # "joining",
             main' \in {"pushed", "counted"} => main \in {"pushed", "counted"},
             \A t \in Threads : at'[t] = "woken" => at[t] = "woken"
      PROVE  NoEmptyPop' /\ Unsignalled'
  <2>1. Cardinality(Woken') <= Cardinality(Woken)
    BY <1>1, FewerWoken
  <2>2. Cardinality(Woken') \in Nat
    <3>1. Woken' \subseteq Threads
      BY DEF Woken, On
    <3>2. IsFiniteSet(Woken')
      BY <3>1, PoolAssumption, FS_Subset
    <3>3. QED  BY <3>2, FS_CardinalityType
  <2>3. NoEmptyPop'
    BY <1>0, <1>1, <2>1, <2>2, WokenFinite DEF NoEmptyPop, Woken
  <2>4. Unsignalled'
    BY <1>0, <1>1, <2>1, <2>2, WokenFinite DEF Unsignalled
  <2>5. QED  BY <2>3, <2>4
<1>2. ASSUME \E c \in Connections : Client(c) \/ MainAccepts(c)
      PROVE  NoEmptyPop' /\ Unsignalled'
  BY <1>1, <1>2 DEF Client, ClientConnects, ClientCloses, MainAccepts
<1>3. ASSUME MainLocks \/ MainTests \/ MainWakes
      PROVE  NoEmptyPop' /\ Unsignalled'
  BY <1>1, <1>3 DEF MainLocks, MainTests, MainWakes
<1>4. ASSUME MainPushes
      PROVE  NoEmptyPop' /\ Unsignalled'
  <2>1. Len(stack') = Len(stack) + 1 /\ main # "joining" /\ main' = "pushed"
      /\ process' = process /\ spurious' = spurious
    BY <1>4, PushPop DEF MainPushes, PoolTypeOK, AcceptedHeld
  <2>2. Woken' = Woken
    BY <1>4 DEF MainPushes, Woken, On
  <2>3. ~spurious => Cardinality(Woken') < Len(stack')
    BY <1>0, <2>1, <2>2, WokenFinite
  <2>4. NoEmptyPop'
    BY <1>0, <2>1, <2>2, <2>3, WokenFinite DEF NoEmptyPop, Woken
  <2>5. Unsignalled'
    BY <2>1, <2>3 DEF Unsignalled
  <2>6. QED  BY <2>4, <2>5
<1>5. ASSUME MainCounts
       PROVE  NoEmptyPop' /\ Unsignalled'
  BY <1>1, <1>5 DEF MainCounts
<1>6. ASSUME MainSignals
       PROVE  NoEmptyPop' /\ Unsignalled'
  <2>1. /\ main = "counted" /\ main' = "testing"
        /\ UNCHANGED <<stack, process, spurious>>
    BY <1>6 DEF MainSignals
  <2>2. Cardinality(Woken') \in Nat
    <3>1. Woken' \subseteq Threads
      BY DEF Woken, On
    <3>2. QED  BY <3>1, PoolAssumption, FS_Subset, FS_CardinalityType
  <2>3. Cardinality(Woken') <= Cardinality(Woken) + 1
    <3>1. CASE cond = {}
      <4>1. Woken' = Woken
        BY <1>6, <3>1 DEF MainSignals, SignalCond, Woken, On
      <4>2. QED  BY <4>1, WokenFinite
    <3>2. CASE cond # {}
      <4>1. PICK t \in cond : at' = [at EXCEPT ![t] = "woken"]
        BY <1>6, <3>2 DEF MainSignals, SignalCond
      <4>2. t \in Threads /\ t \notin Woken /\ Woken' = Woken \cup {t}
        BY <4>1 DEF cond, On, Woken, PoolTypeOK
      <4>3. Cardinality(Woken') = Cardinality(Woken) + 1
        BY <4>2, WokenFinite, FS_AddElement
      <4>4. QED  BY <4>3, WokenFinite
    <3>3. QED  BY <3>1, <3>2
  <2>4. ~spurious => Cardinality(Woken') <= Len(stack)
    BY <1>0, <2>1, <2>2, <2>3, WokenFinite DEF Unsignalled
  <2>5. main # "joining" /\ (~spurious => process # "popped_empty")
    BY <1>0, <2>1
  <2>6. NoEmptyPop'
    BY <2>1, <2>4, <2>5 DEF NoEmptyPop, Woken
  <2>7. Unsignalled'
    BY <2>1 DEF Unsignalled
  <2>8. QED  BY <2>6, <2>7
<1>7. ASSUME NEW t \in Threads,
             \/ ThreadWaits(t) \/ ThreadTestsTerminate(t)
             \/ ThreadSeesEof(t) \/ ThreadFrees(t)
      PROVE  NoEmptyPop' /\ Unsignalled'
  BY <1>1, <1>7 DEF ThreadWaits, ThreadTestsTerminate, ThreadSeesEof,
                    ThreadFrees, PoolTypeOK
<1>8. ASSUME NEW t \in Threads, ThreadPops(t)
      PROVE  NoEmptyPop' /\ Unsignalled'
  <2>1. /\ Len(stack') = Len(stack) - 1 /\ main' = main
        /\ process' = process /\ spurious' = spurious
    BY <1>8, PushPop DEF ThreadPops, PoolTypeOK
  <2>2. t \in Woken /\ Woken' = Woken \ {t}
    BY <1>8 DEF ThreadPops, Woken, On, PoolTypeOK
  <2>3. Cardinality(Woken') = Cardinality(Woken) - 1
    BY <2>2, WokenFinite, FS_RemoveElement
  <2>4. NoEmptyPop'
    BY <1>0, <2>1, <2>3, WokenFinite DEF NoEmptyPop, Woken
  <2>5. Unsignalled'
    BY <1>8, <2>1 DEF ThreadPops, MainLocked, Unsignalled
  <2>6. QED  BY <2>4, <2>5
<1>9. ASSUME NEW t \in Threads, ThreadPopsEmpty(t)
      PROVE  NoEmptyPop' /\ Unsignalled'
  <2>1. main = "joining" \/ spurious
    <3>1. Len(stack) = 0 /\ t \in Woken
      BY <1>9, EmptySeq DEF ThreadPopsEmpty, Woken, On
    <3>2. Cardinality(Woken) # 0
      BY <3>1, WokenFinite, FS_EmptySet
    <3>3. QED  BY <1>0, <3>1, <3>2, WokenFinite
  <2>2. NoEmptyPop'
    BY <1>9, <2>1 DEF ThreadPopsEmpty, NoEmptyPop
  <2>3. Unsignalled'
    BY <1>9 DEF ThreadPopsEmpty, MainLocked, Unsignalled
  <2>4. QED  BY <2>2, <2>3
<1>10. ASSUME HandlerStarts \/ HandlerRemovesFile
      PROVE  NoEmptyPop' /\ Unsignalled'
  BY <1>1, <1>10 DEF HandlerStarts, HandlerRemovesFile, InHandler
<1>11. ASSUME HandlerBroadcasts \/ HandlerJoinsAll
      PROVE  NoEmptyPop' /\ Unsignalled'
  BY <1>11 DEF HandlerBroadcasts, HandlerJoinsAll, NoEmptyPop, Unsignalled
<1>12. CASE UNCHANGED poolVars
  BY <1>1, <1>12 DEF poolVars
<1>13. ASSUME SpuriousWakeup
       PROVE  NoEmptyPop' /\ Unsignalled'
  <2>1. CASE spurious'
    BY <2>1 DEF NoEmptyPop, Unsignalled
  <2>2. CASE ~spurious'
    <3>1. UNCHANGED <<at, stack, process, spurious>>
      BY <1>13, <2>2 DEF SpuriousWakeup
    <3>2. main # "joining" /\ main' = "cs_woken"
      BY <1>13, <2>2 DEF SpuriousWakeup
    <3>3. QED  BY <1>1, <3>1, <3>2
  <2>3. QED  BY <2>1, <2>2
<1>14. QED
  BY <1>2, <1>3, <1>4, <1>7, <1>8, <1>9, <1>10, <1>11, <1>12, <1>13, <1>5,
     <1>6
     DEF PoolNext, ServeNext, Main, Thread, Handler

\* A thread that pops finds a connection, until the SIGINT handler wakes
\* everybody or pthread_cond_wait returns to a thread by itself.
THEOREM PopFindsAConnection == PoolSpec => []NoEmptyPop
<1>1. PoolInit => NoEmptyPop /\ Unsignalled
  <2> SUFFICES ASSUME PoolInit PROVE NoEmptyPop /\ Unsignalled
    OBVIOUS
  <2>1. On("woken") = {} /\ Len(stack) = 0 /\ process = "running"
    BY DEF PoolInit, On
  <2>2. main = "accept"
    BY DEF PoolInit
  <2>3. QED  BY <2>1, <2>2, FS_EmptySet DEF NoEmptyPop, Unsignalled
<1>2. PoolInv /\ NoEmptyPop /\ Unsignalled /\ [PoolNext]_poolVars
        => NoEmptyPop' /\ Unsignalled'
  BY NoEmptyPopStep
<1>3. QED  BY <1>1, <1>2, PoolInvHolds, PTL DEF PoolSpec
===============================================================================
