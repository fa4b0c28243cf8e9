-------------------------- MODULE TableServerProofs --------------------------
(***************************************************************************)
(* The threads of the pool at the table, for every number of threads, every *)
(* size of the table and every set of queries.  First the lock by itself:  *)
(* the safety of reader_writer.c, and that it implements RWLock.  Then the *)
(* loops of sql.c, one turn of which moves a row from what is left to do   *)
(* to what has been done.  At last the two together: the server implements *)
(* the table of AtomicTable, whose queries are answered in one step.       *)
(***************************************************************************)
EXTENDS TableServer, FiniteSetTheorems, SequenceTheorems, TLAPS

-------------------------------------------------------------------------------
(* Part 1: reader_writer.c                                                 *)

Count(f, L) == Cardinality({u \in Threads : f[u] \in L})

Readers        == {"reading"}
Writers        == {"writing"}
ReadersWaiting == {"wait_read", "woken_read"}
WritersWaiting == {"wait_write", "woken_write"}
Classes == {Readers, Writers, ReadersWaiting, WritersWaiting}

IndInv == RWTypeOK /\ CountersExact /\ Exclusion /\ NoLostWakeup

-------------------------------------------------------------------------------
(* Counting threads                                                        *)

\* The threads in a class are finitely many, so their number is a natural
\* number, zero exactly when there is none.
LEMMA CountFacts ==
  ASSUME NEW f, NEW L
  PROVE  /\ IsFiniteSet({u \in Threads : f[u] \in L})
         /\ Count(f, L) \in Nat
         /\ Count(f, L) = 0 <=> \A u \in Threads : f[u] \notin L
<1> DEFINE S == {u \in Threads : f[u] \in L}
<1>1. IsFiniteSet(S)
  BY ThreadsAssumption, FS_Subset
<1>2. Cardinality(S) \in Nat
  BY <1>1, FS_CardinalityType
<1>3. Cardinality(S) = 0 <=> S = {}
  BY <1>1, FS_EmptySet
<1>4. QED  BY <1>1, <1>2, <1>3 DEF Count

\* When one thread moves and no other crosses the border of a class, the
\* class gains or loses that thread or stays as large as it was.
LEMMA CountMoves ==
  ASSUME NEW f, NEW g, NEW L, NEW t \in Threads,
         \A u \in Threads \ {t} : f[u] \in L <=> g[u] \in L
  PROVE  /\ f[t] \notin L /\ g[t] \in L => Count(g, L) = Count(f, L) + 1
         /\ f[t] \in L /\ g[t] \notin L => Count(g, L) = Count(f, L) - 1
         /\ (f[t] \in L <=> g[t] \in L) => Count(g, L) = Count(f, L)
<1> DEFINE A == {u \in Threads : f[u] \in L}
           B == {u \in Threads : g[u] \in L}
<1>1. IsFiniteSet(A) /\ IsFiniteSet(B)
  BY CountFacts
<1>2. CASE f[t] \notin L /\ g[t] \in L
  <2>1. t \notin A /\ B = A \cup {t}
    BY <1>2
  <2>2. Cardinality(B) = Cardinality(A) + 1
    BY <1>1, <2>1, FS_AddElement
  <2>3. QED  BY <1>2, <2>2 DEF Count
<1>3. CASE f[t] \in L /\ g[t] \notin L
  <2>1. t \in A /\ B = A \ {t}
    BY <1>3
  <2>2. Cardinality(B) = Cardinality(A) - 1
    BY <1>1, <2>1, FS_RemoveElement
  <2>3. QED  BY <1>3, <2>2 DEF Count
<1>4. CASE f[t] \in L <=> g[t] \in L
  <2>1. A = B
    BY <1>4
  <2>2. QED  BY <1>4, <2>1 DEF Count
<1>5. QED  BY <1>2, <1>3, <1>4

\* The counters, in terms of Count.
LEMMA CountersAsCounts ==
  CountersExact <=> /\ AR = Count(pc, Readers)
                    /\ AW = Count(pc, Writers)
                    /\ WR = Count(pc, ReadersWaiting)
                    /\ WW = Count(pc, WritersWaiting)
<1>1. /\ At("reading") = {u \in Threads : pc[u] \in Readers}
      /\ At("writing") = {u \in Threads : pc[u] \in Writers}
      /\ WaitingReaders = {u \in Threads : pc[u] \in ReadersWaiting}
      /\ WaitingWriters = {u \in Threads : pc[u] \in WritersWaiting}
  BY DEF At, WaitingReaders, WaitingWriters, Readers, Writers,
         ReadersWaiting, WritersWaiting
<1>2. QED  BY <1>1 DEF CountersExact, Count

\* A counter is positive exactly when a thread is in its class.
LEMMA CountersPositive ==
  ASSUME RWTypeOK, CountersExact
  PROVE  /\ AR > 0 <=> At("reading") # {}
         /\ AW > 0 <=> At("writing") # {}
         /\ WR > 0 <=> WaitingReaders # {}
         /\ WW > 0 <=> WaitingWriters # {}
<1>1. /\ AR = 0 <=> \A u \in Threads : pc[u] \notin Readers
      /\ AW = 0 <=> \A u \in Threads : pc[u] \notin Writers
      /\ WR = 0 <=> \A u \in Threads : pc[u] \notin ReadersWaiting
      /\ WW = 0 <=> \A u \in Threads : pc[u] \notin WritersWaiting
  BY CountersAsCounts, CountFacts
<1>2. /\ AR > 0 <=> AR # 0
      /\ AW > 0 <=> AW # 0
      /\ WR > 0 <=> WR # 0
      /\ WW > 0 <=> WW # 0
  BY DEF RWTypeOK
<1>3. QED  BY <1>1, <1>2 DEF At, WaitingReaders, WaitingWriters, Readers,
                             Writers, ReadersWaiting, WritersWaiting

-------------------------------------------------------------------------------
(* What a thread's move does to the others                                 *)

\* Goto puts t where it says, and another thread at most goes from a wait set
\* to being woken from it: it stays in its class.
LEMMA GotoMoves ==
  ASSUME RWTypeOK, NEW t \in Threads, NEW label \in Labels, NEW W,
         Goto(t, label, W)
  PROVE  /\ pc' \in [Threads -> Labels]
         /\ pc'[t] = label
         /\ \A u \in Threads \ {t} :
              \/ pc'[u] = pc[u] /\ ~(u \in W /\ pc[u] \in {"wait_read", "wait_write"})
              \/ u \in W /\ pc[u] = "wait_read" /\ pc'[u] = "woken_read"
              \/ u \in W /\ pc[u] = "wait_write" /\ pc'[u] = "woken_write"
BY DEF RWTypeOK, Goto, Labels

\* So the counts of the four classes change by t alone.
LEMMA GotoCounts ==
  ASSUME RWTypeOK, NEW t \in Threads, NEW label \in Labels, NEW W,
         Goto(t, label, W), NEW L \in Classes
  PROVE  /\ pc[t] \notin L /\ label \in L => Count(pc', L) = Count(pc, L) + 1
         /\ pc[t] \in L /\ label \notin L => Count(pc', L) = Count(pc, L) - 1
         /\ (pc[t] \in L <=> label \in L) => Count(pc', L) = Count(pc, L)
<1>1. pc'[t] = label
  BY GotoMoves
<1>2. \A u \in Threads \ {t} : pc[u] \in L <=> pc'[u] \in L
  BY GotoMoves DEF Classes, Readers, Writers, ReadersWaiting, WritersWaiting
<1>3. QED  BY <1>1, <1>2, CountMoves

-------------------------------------------------------------------------------
(* One lemma for what all the actions but SpuriousWakeup share: t goes to    *)
(* label and the counters change by what t alone contributes.              *)

Contribution(label, L) == IF label \in L THEN 1 ELSE 0

LEMMA GotoCounters ==
  ASSUME RWTypeOK, CountersExact,
         NEW t \in Threads, NEW label \in Labels, NEW W, Goto(t, label, W),
         AR' = AR + Contribution(label, Readers) - Contribution(pc[t], Readers),
         AW' = AW + Contribution(label, Writers) - Contribution(pc[t], Writers),
         WR' = WR + Contribution(label, ReadersWaiting)
                  - Contribution(pc[t], ReadersWaiting),
         WW' = WW + Contribution(label, WritersWaiting)
                  - Contribution(pc[t], WritersWaiting)
  PROVE  RWTypeOK' /\ CountersExact'
<1>1. /\ AR = Count(pc, Readers) /\ AW = Count(pc, Writers)
      /\ WR = Count(pc, ReadersWaiting) /\ WW = Count(pc, WritersWaiting)
  BY CountersAsCounts
<1>2. \A L \in Classes :
        Count(pc', L) = Count(pc, L) + Contribution(label, L)
                                     - Contribution(pc[t], L)
  <2>1. TAKE L \in Classes
  <2>2. Count(pc, L) \in Nat
    BY CountFacts
  <2>3. QED  BY <2>2, GotoCounts DEF Contribution
<1>3. /\ AR' = Count(pc', Readers) /\ AW' = Count(pc', Writers)
      /\ WR' = Count(pc', ReadersWaiting) /\ WW' = Count(pc', WritersWaiting)
  BY <1>1, <1>2 DEF Classes
<1>4. CountersExact'
  <2>1. /\ At("reading")' = {u \in Threads : pc'[u] \in Readers}
        /\ At("writing")' = {u \in Threads : pc'[u] \in Writers}
        /\ WaitingReaders' = {u \in Threads : pc'[u] \in ReadersWaiting}
        /\ WaitingWriters' = {u \in Threads : pc'[u] \in WritersWaiting}
    BY DEF At, WaitingReaders, WaitingWriters, Readers, Writers,
           ReadersWaiting, WritersWaiting
  <2>2. QED  BY <1>3, <2>1 DEF CountersExact, Count
<1>5. pc' \in [Threads -> Labels]
  BY GotoMoves
<1>6. AR' \in Nat /\ AW' \in Nat /\ WR' \in Nat /\ WW' \in Nat
  <2>1. \A L : Count(pc', L) \in Nat
    BY CountFacts
  <2>2. QED  BY <1>3, <2>1
<1>7. QED  BY <1>4, <1>5, <1>6 DEF RWTypeOK

\* Every step keeps the types right and the counters exact.
LEMMA CountersStep ==
  ASSUME RWTypeOK, CountersExact, [RWNext]_rwVars
  PROVE  RWTypeOK' /\ CountersExact'
<1> USE DEF Contribution, Readers, Writers, ReadersWaiting, WritersWaiting, Labels
<1> AR \in Nat /\ AW \in Nat /\ WR \in Nat /\ WW \in Nat
  BY DEF RWTypeOK
<1>1. ASSUME NEW t \in Threads, QueryArrives(t)
      PROVE  RWTypeOK' /\ CountersExact'
  <2>1. CASE ReaderWaits(t)
    BY <2>1, GotoCounters DEF ReaderWaits
  <2>2. CASE ReaderEnters(t)
    BY <2>2, GotoCounters DEF ReaderEnters
  <2>3. CASE WriterWaits(t)
    BY <2>3, GotoCounters DEF WriterWaits
  <2>4. CASE WriterEnters(t)
    BY <2>4, GotoCounters DEF WriterEnters
  <2>5. QED  BY <1>1, <2>1, <2>2, <2>3, <2>4 DEF QueryArrives
<1>2. ASSUME NEW t \in Threads, Proceeds(t)
      PROVE  RWTypeOK' /\ CountersExact'
  <2>1. CASE ReaderWaitsAgain(t)
    BY <2>1, GotoCounters DEF ReaderWaitsAgain
  <2>2. CASE ReaderEntersWoken(t)
    BY <2>2, GotoCounters DEF ReaderEntersWoken
  <2>3. CASE ReaderLeaves(t)
    <3>1. PICK W : Goto(t, "idle", W)
      BY <2>3 DEF ReaderLeaves
    <3>2. QED  BY <2>3, <3>1, GotoCounters DEF ReaderLeaves
  <2>4. CASE WriterWaitsAgain(t)
    BY <2>4, GotoCounters DEF WriterWaitsAgain
  <2>5. CASE WriterEntersWoken(t)
    BY <2>5, GotoCounters DEF WriterEntersWoken
  <2>6. CASE WriterLeaves(t)
    <3>1. PICK W : Goto(t, "idle", W)
      BY <2>6 DEF WriterLeaves
    <3>2. QED  BY <2>6, <3>1, GotoCounters DEF WriterLeaves
  <2>7. QED  BY <1>2, <2>1, <2>2, <2>3, <2>4, <2>5, <2>6 DEF Proceeds
<1>3. ASSUME NEW t \in Threads, SpuriousWakeup(t)
      PROVE  RWTypeOK' /\ CountersExact'
  <2>1. pc' \in [Threads -> Labels]
    BY <1>3 DEF SpuriousWakeup, RWTypeOK
  <2>2. /\ At("reading")' = At("reading") /\ At("writing")' = At("writing")
        /\ WaitingReaders' = WaitingReaders
        /\ WaitingWriters' = WaitingWriters
    BY <1>3 DEF SpuriousWakeup, RWTypeOK, ok_to_read, ok_to_write, At,
                WaitingReaders, WaitingWriters
  <2>3. QED  BY <1>3, <2>1, <2>2 DEF SpuriousWakeup, RWTypeOK, CountersExact
<1>4. ASSUME UNCHANGED rwVars
      PROVE  RWTypeOK' /\ CountersExact'
  BY <1>4 DEF rwVars, RWTypeOK, CountersExact, At, WaitingReaders,
              WaitingWriters
<1>5. QED  BY <1>1, <1>2, <1>3, <1>4 DEF RWNext

-------------------------------------------------------------------------------
(* Exclusion                                                               *)

LEMMA ExclusionStep ==
  ASSUME RWTypeOK, CountersExact, Exclusion, [RWNext]_rwVars
  PROVE  Exclusion'
<1> USE DEF Labels, At
<1>0. /\ AR > 0 <=> At("reading") # {}
      /\ AW > 0 <=> At("writing") # {}
      /\ AR \in Nat /\ AW \in Nat /\ WW \in Nat
  BY CountersPositive DEF RWTypeOK
\* A thread that gets into the table.
<1>1. ASSUME NEW t \in Threads, ~MustNotRead, Goto(t, "reading", {})
      PROVE  Exclusion'
  <2>1. \A u \in Threads : pc[u] # "writing"
    BY <1>0, <1>1 DEF MustNotRead
  <2>2. QED  BY <1>1, <2>1, GotoMoves DEF Exclusion
<1>2. ASSUME NEW t \in Threads, ~MustNotWrite, Goto(t, "writing", {})
      PROVE  Exclusion'
  <2>1. \A u \in Threads : pc[u] \notin {"reading", "writing"}
    BY <1>0, <1>2 DEF MustNotWrite
  <2>2. QED  BY <1>2, <2>1, GotoMoves DEF Exclusion
\* Any other move.
<1>3. ASSUME NEW t \in Threads, NEW W, NEW label \in Labels,
             label \notin {"reading", "writing"}, Goto(t, label, W)
      PROVE  Exclusion'
  BY <1>3, GotoMoves DEF Exclusion
<1>4. ASSUME NEW t \in Threads, SpuriousWakeup(t)
      PROVE  Exclusion'
  BY <1>4 DEF SpuriousWakeup, RWTypeOK, Exclusion, ok_to_read, ok_to_write
<1>5. CASE UNCHANGED rwVars
  BY <1>5 DEF rwVars, Exclusion
<1>6. ASSUME NEW t \in Threads, QueryArrives(t)
      PROVE  Exclusion'
  BY <1>1, <1>2, <1>3, <1>6 DEF QueryArrives, ReaderWaits, ReaderEnters,
                                WriterWaits, WriterEnters
<1>7. ASSUME NEW t \in Threads, Proceeds(t)
      PROVE  Exclusion'
  BY <1>1, <1>2, <1>3, <1>7 DEF Proceeds, ReaderWaitsAgain, ReaderEntersWoken,
       ReaderLeaves, WriterWaitsAgain, WriterEntersWoken, WriterLeaves
<1>8. QED  BY <1>4, <1>5, <1>6, <1>7 DEF RWNext

-------------------------------------------------------------------------------
(* No lost wakeup                                                          *)

LEMMA NoLostWakeupStep ==
  ASSUME RWTypeOK, CountersExact, NoLostWakeup, [RWNext]_rwVars
  PROVE  NoLostWakeup'
<1> USE DEF At, WaitingReaders, WaitingWriters, ok_to_read, ok_to_write
<1> DEFINE InsideOrWoken  == At("reading") \cup At("writing") \cup At("woken_write")
           WriterAbout    == At("writing") \cup WaitingWriters
<1>0. /\ AR > 0 <=> At("reading") # {}
      /\ AW > 0 <=> At("writing") # {}
      /\ WR > 0 <=> WaitingReaders # {}
      /\ WW > 0 <=> WaitingWriters # {}
      /\ AR \in Nat /\ AW \in Nat /\ WR \in Nat /\ WW \in Nat
  BY CountersPositive DEF RWTypeOK
<1>1. ok_to_write # {} => InsideOrWoken # {}
  BY DEF NoLostWakeup
<1>2. ok_to_read # {} => WriterAbout # {}
  BY DEF NoLostWakeup
\* Readers arriving, waking and entering.
<1>3. ASSUME NEW t \in Threads, ReaderWaits(t) \/ ReaderWaitsAgain(t)
      PROVE  NoLostWakeup'
  <2>1. Goto(t, "wait_read", {}) /\ WriterAbout # {}
    BY <1>0, <1>3 DEF ReaderWaits, ReaderWaitsAgain, MustNotRead
  <2>2. /\ \A u \in Threads \ {t} : pc'[u] = pc[u]
        /\ pc'[t] = "wait_read"
        /\ pc[t] \in {"idle", "woken_read"}
    BY <1>3, <2>1, GotoMoves DEF Labels, ReaderWaits, ReaderWaitsAgain
  <2>3. QED  BY <1>1, <2>1, <2>2 DEF NoLostWakeup
<1>4. ASSUME NEW t \in Threads, ReaderEnters(t) \/ ReaderEntersWoken(t)
      PROVE  NoLostWakeup'
  <2>1. Goto(t, "reading", {}) /\ WriterAbout = {}
    BY <1>0, <1>4 DEF ReaderEnters, ReaderEntersWoken, MustNotRead
  <2>2. /\ \A u \in Threads \ {t} : pc'[u] = pc[u]
        /\ pc'[t] = "reading"
    BY <2>1, GotoMoves DEF Labels
  <2>3. QED  BY <1>2, <2>1, <2>2 DEF NoLostWakeup
\* A writer arriving, waking or entering.
<1>5. ASSUME NEW t \in Threads, WriterWaits(t) \/ WriterWaitsAgain(t)
      PROVE  NoLostWakeup'
  <2>1. Goto(t, "wait_write", {}) /\ At("reading") \cup At("writing") # {}
    BY <1>0, <1>5 DEF WriterWaits, WriterWaitsAgain, MustNotWrite
  <2>2. /\ \A u \in Threads \ {t} : pc'[u] = pc[u]
        /\ pc'[t] = "wait_write"
        /\ pc[t] \in {"idle", "woken_write"}
    BY <1>5, <2>1, GotoMoves DEF Labels, WriterWaits, WriterWaitsAgain
  <2>3. QED  BY <1>2, <2>1, <2>2 DEF NoLostWakeup
<1>6. ASSUME NEW t \in Threads, WriterEnters(t) \/ WriterEntersWoken(t)
      PROVE  NoLostWakeup'
  <2>1. Goto(t, "writing", {})
    BY <1>6 DEF WriterEnters, WriterEntersWoken
  <2>2. pc'[t] = "writing"
    BY <2>1, GotoMoves DEF Labels
  <2>3. QED  BY <2>2 DEF NoLostWakeup
\* The last reader out, and a writer on its way out, wake somebody.
<1>7. ASSUME NEW t \in Threads, ReaderLeaves(t)
      PROVE  NoLostWakeup'
  <2>1. PICK W \in IF AR' = 0 /\ WW > 0 THEN OneOf(ok_to_write) ELSE {{}} :
               Goto(t, "idle", W)
    BY <1>7 DEF ReaderLeaves
  <2>2. /\ pc'[t] = "idle" /\ pc[t] = "reading"
        /\ \A u \in Threads \ {t} :
              \/ pc'[u] = pc[u]
                   /\ ~(u \in W /\ pc[u] \in {"wait_read", "wait_write"})
              \/ u \in W /\ pc[u] = "wait_read" /\ pc'[u] = "woken_read"
              \/ u \in W /\ pc[u] = "wait_write" /\ pc'[u] = "woken_write"
    BY <1>7, <2>1, GotoMoves DEF Labels, ReaderLeaves
  <2>3. W \subseteq ok_to_write
    BY <2>1 DEF OneOf
  <2>4. ok_to_read' = ok_to_read /\ WriterAbout' = WriterAbout
    BY <2>2, <2>3
  <2>5. ok_to_write' \subseteq ok_to_write
    BY <2>2, <2>3
  <2>6. CASE ok_to_write = {}
    BY <1>2, <2>4, <2>5, <2>6 DEF NoLostWakeup
  <2>7. CASE ok_to_write # {} /\ AR' = 0
    <3>1. WW > 0
      BY <1>0, <2>7
    <3>2. PICK w \in ok_to_write : W = {w}
      BY <2>1, <2>7, <3>1 DEF OneOf
    <3>3. w \in At("woken_write")'
      BY <2>2, <3>2
    <3>4. QED  BY <1>2, <2>4, <3>3 DEF NoLostWakeup
  <2>8. CASE AR' # 0
    <3>1. RWTypeOK' /\ CountersExact'
      BY <1>7, CountersStep DEF RWNext, Proceeds
    <3>2. \E u \in Threads : pc'[u] = "reading"
      <4>1. AR' = Count(pc', Readers)
        BY <3>1 DEF CountersExact, Count, Readers
      <4>2. QED  BY <2>8, <4>1, CountFacts DEF Readers
    <3>3. QED  BY <1>2, <2>4, <3>2 DEF NoLostWakeup
  <2>9. QED  BY <2>6, <2>7, <2>8
<1>8. ASSUME NEW t \in Threads, WriterLeaves(t)
      PROVE  NoLostWakeup'
  <2>1. PICK W \in LeavingWriterWakes : Goto(t, "idle", W)
    BY <1>8 DEF WriterLeaves
  <2>2. /\ pc'[t] = "idle" /\ pc[t] = "writing"
        /\ \A u \in Threads \ {t} :
              \/ pc'[u] = pc[u]
                   /\ ~(u \in W /\ pc[u] \in {"wait_read", "wait_write"})
              \/ u \in W /\ pc[u] = "wait_read" /\ pc'[u] = "woken_read"
              \/ u \in W /\ pc[u] = "wait_write" /\ pc'[u] = "woken_write"
    BY <1>8, <2>1, GotoMoves DEF Labels, WriterLeaves
  <2>3. CASE WaitingWriters # {}
    <3>1. W \in OneOf(ok_to_write)
      BY <1>0, <2>1, <2>3 DEF LeavingWriterWakes
    <3>2. WaitingWriters' # {}
      BY <2>2, <2>3
    <3>3. ok_to_write' # {} => At("woken_write")' # {}
      <4>1. CASE ok_to_write = {}
        BY <2>2, <2>3, <4>1
      <4>2. CASE ok_to_write # {}
        <5>1. PICK w \in ok_to_write : W = {w}
          BY <3>1, <4>2 DEF OneOf
        <5>2. w \in At("woken_write")'
          BY <2>2, <5>1
        <5>3. QED  BY <5>2
      <4>3. QED  BY <4>1, <4>2
    <3>4. QED  BY <3>2, <3>3 DEF NoLostWakeup
  <2>4. CASE WaitingWriters = {}
    <3>1. ok_to_write' = {}
      BY <2>2, <2>4
    <3>2. ok_to_read' = {}
      <4>1. CASE WaitingReaders = {}
        BY <2>2, <4>1
      <4>2. CASE WaitingReaders # {}
        <5>1. W = ok_to_read
          BY <1>0, <2>1, <2>4, <4>2 DEF LeavingWriterWakes
        <5>2. QED  BY <2>2, <5>1
      <4>3. QED  BY <4>1, <4>2
    <3>3. QED  BY <3>1, <3>2 DEF NoLostWakeup
  <2>5. QED  BY <2>3, <2>4
<1>9. ASSUME NEW t \in Threads, SpuriousWakeup(t)
      PROVE  NoLostWakeup'
  <2>1. /\ \A u \in Threads \ {t} : pc'[u] = pc[u]
        /\ \/ pc[t] = "wait_read" /\ pc'[t] = "woken_read"
           \/ pc[t] = "wait_write" /\ pc'[t] = "woken_write"
    BY <1>9 DEF SpuriousWakeup, RWTypeOK
  <2>2. QED  BY <1>1, <1>2, <2>1 DEF NoLostWakeup
<1>10. CASE UNCHANGED rwVars
  BY <1>10 DEF rwVars, NoLostWakeup
<1>11. QED
  BY <1>3, <1>4, <1>5, <1>6, <1>7, <1>8, <1>9, <1>10
     DEF RWNext, QueryArrives, Proceeds

-------------------------------------------------------------------------------
(* The invariant of reader_writer.c                                        *)

LEMMA IndInvInit == RWInit => IndInv
<1> SUFFICES ASSUME RWInit PROVE IndInv
  OBVIOUS
<1>1. RWTypeOK
  BY DEF RWInit, RWTypeOK, Labels
<1>2. CountersExact
  <2>1. \A L \in Classes : Count(pc, L) = 0
    BY CountFacts DEF RWInit, Classes, Readers, Writers, ReadersWaiting,
                      WritersWaiting
  <2>2. QED  BY <2>1, CountersAsCounts DEF RWInit, Classes
<1>3. Exclusion /\ NoLostWakeup
  BY DEF RWInit, Exclusion, NoLostWakeup, ok_to_read, ok_to_write, At
<1>4. QED  BY <1>1, <1>2, <1>3 DEF IndInv

LEMMA IndInvStep == IndInv /\ [RWNext]_rwVars => IndInv'
BY CountersStep, ExclusionStep, NoLostWakeupStep DEF IndInv

THEOREM IndInvHolds == RWSpec => []IndInv
BY IndInvInit, IndInvStep, PTL DEF RWSpec

\* The variables keep their types.
THEOREM RWTypeCorrect == RWSpec => []RWTypeOK
<1>1. IndInv => RWTypeOK
  BY DEF IndInv
<1>2. QED  BY <1>1, IndInvHolds, PTL

\* AR, AW, WR and WW always count the threads they are named for.
THEOREM CountersAreExact == RWSpec => []CountersExact
<1>1. IndInv => CountersExact
  BY DEF IndInv
<1>2. QED  BY <1>1, IndInvHolds, PTL

\* reader() and writer() keep a writer alone in the table.
THEOREM WriterIsAlone == RWSpec => []Exclusion
<1>1. IndInv => Exclusion
  BY DEF IndInv
<1>2. QED  BY <1>1, IndInvHolds, PTL

\* A thread asleep in reader() or writer() always has somebody to wake it.
THEOREM NoWakeupIsLost == RWSpec => []NoLostWakeup
<1>1. IndInv => NoLostWakeup
  BY DEF IndInv
<1>2. QED  BY <1>1, IndInvHolds, PTL

-------------------------------------------------------------------------------
(* reader_writer.c implements the abstract lock                            *)

AbstractLabel(label) ==
  IF label \in ReadersWaiting THEN "wantRead"
  ELSE IF label \in WritersWaiting THEN "wantWrite" ELSE label

LEMMA LockStateIs ==
  RWTypeOK => lockState = [u \in Threads |-> AbstractLabel(pc[u])]
<1> SUFFICES ASSUME RWTypeOK, NEW u \in Threads
             PROVE  lockState[u] = AbstractLabel(pc[u])
  BY DEF lockState
<1>1. pc[u] \in Labels
  BY DEF RWTypeOK
<1>2. CASE pc[u] \in ReadersWaiting
  BY <1>2 DEF lockState, AbstractLabel, ReadersWaiting
<1>3. CASE pc[u] \in WritersWaiting
  BY <1>3 DEF lockState, AbstractLabel, ReadersWaiting, WritersWaiting
<1>4. CASE pc[u] \notin ReadersWaiting \cup WritersWaiting
  BY <1>4 DEF lockState, AbstractLabel, ReadersWaiting, WritersWaiting
<1>5. QED  BY <1>2, <1>3, <1>4

\* A move of one thread is a change of its abstract state only: the threads
\* it wakes stay in the queue.
LEMMA GotoBecomes ==
  ASSUME RWTypeOK, RWTypeOK', NEW t \in Threads, NEW label \in Labels, NEW W,
         Goto(t, label, W)
  PROVE  Lock!Become(t, AbstractLabel(label))
<1>1. /\ lockState = [u \in Threads |-> AbstractLabel(pc[u])]
      /\ lockState' = [u \in Threads |-> AbstractLabel(pc'[u])]
  <2>1. (RWTypeOK => lockState = [u \in Threads |-> AbstractLabel(pc[u])])'
    BY LockStateIs, PTL
  <2>2. QED  BY <2>1, LockStateIs
<1>2. pc'[t] = label
  BY GotoMoves
<1>3. \A u \in Threads \ {t} : AbstractLabel(pc'[u]) = AbstractLabel(pc[u])
  BY GotoMoves DEF AbstractLabel, ReadersWaiting, WritersWaiting
<1>4. QED  BY <1>1, <1>2, <1>3 DEF Lock!Become

LEMMA LockStep ==
  ASSUME IndInv, IndInv', [RWNext]_rwVars
  PROVE  [Lock!Next]_lockState
<1> USE DEF Labels
<1>0. RWTypeOK /\ RWTypeOK' /\ CountersExact
  BY DEF IndInv
<1>1. lockState = [u \in Threads |-> AbstractLabel(pc[u])]
  BY <1>0, LockStateIs
<1>2. /\ AW + WW > 0 <=> Lock!Writing \cup Lock!Queued("wantWrite") # {}
      /\ AW + AR > 0 <=> Lock!Reading \cup Lock!Writing # {}
  <2>1. /\ AR > 0 <=> At("reading") # {}
        /\ AW > 0 <=> At("writing") # {}
        /\ WW > 0 <=> WaitingWriters # {}
        /\ AR \in Nat /\ AW \in Nat /\ WW \in Nat
    BY <1>0, CountersPositive DEF RWTypeOK
  <2>2. /\ At("reading") = Lock!Reading
        /\ At("writing") = Lock!Writing
        /\ WaitingWriters = Lock!Queued("wantWrite")
    BY <1>0, <1>1 DEF RWTypeOK, AbstractLabel, ReadersWaiting, WritersWaiting,
         At, WaitingWriters, Lock!Reading, Lock!Writing, Lock!Queued
  <2>3. QED  BY <2>1, <2>2
<1>3. ASSUME NEW t \in Threads, NEW label \in Labels, NEW W, Goto(t, label, W)
      PROVE  Lock!Become(t, AbstractLabel(label))
  BY <1>0, <1>3, GotoBecomes
<1>4. \A t \in Threads :
        /\ t \in Lock!Idle <=> pc[t] = "idle"
        /\ t \in Lock!Queued("wantRead") <=> pc[t] \in ReadersWaiting
        /\ t \in Lock!Queued("wantWrite") <=> pc[t] \in WritersWaiting
        /\ t \in Lock!Reading <=> pc[t] = "reading"
        /\ t \in Lock!Writing <=> pc[t] = "writing"
  BY <1>0, <1>1 DEF RWTypeOK, AbstractLabel, ReadersWaiting, WritersWaiting,
       Lock!Idle, Lock!Queued, Lock!Reading, Lock!Writing
<1>5. ASSUME NEW t \in Threads, QueryArrives(t)
      PROVE  Lock!Next
  <2>1. CASE ReaderWaits(t)
    <3>1. Lock!AskRead(t)
      BY <1>2, <1>3, <1>4, <2>1
         DEF ReaderWaits, MustNotRead, Lock!AskRead, AbstractLabel, ReadersWaiting
    <3>2. QED  BY <3>1 DEF Lock!Next
  <2>2. CASE ReaderEnters(t)
    <3>1. Lock!BeginRead(t)
      BY <1>2, <1>3, <1>4, <2>2
         DEF ReaderEnters, MustNotRead, Lock!BeginRead, AbstractLabel,
             ReadersWaiting, WritersWaiting
    <3>2. QED  BY <3>1 DEF Lock!Next
  <2>3. CASE WriterWaits(t)
    <3>1. Lock!AskWrite(t)
      BY <1>2, <1>3, <1>4, <2>3
         DEF WriterWaits, MustNotWrite, Lock!AskWrite, AbstractLabel,
             ReadersWaiting, WritersWaiting
    <3>2. QED  BY <3>1 DEF Lock!Next
  <2>4. CASE WriterEnters(t)
    <3>1. Lock!BeginWrite(t)
      BY <1>2, <1>3, <1>4, <2>4
         DEF WriterEnters, MustNotWrite, Lock!BeginWrite, AbstractLabel,
             ReadersWaiting, WritersWaiting
    <3>2. QED  BY <3>1 DEF Lock!Next
  <2>5. QED  BY <1>5, <2>1, <2>2, <2>3, <2>4 DEF QueryArrives
<1>6. ASSUME NEW t \in Threads, Proceeds(t)
      PROVE  [Lock!Next]_lockState
  <2>1. CASE ReaderWaitsAgain(t) \/ WriterWaitsAgain(t)
    <3>1. lockState' = lockState
      BY <1>1, <1>3, <2>1
         DEF ReaderWaitsAgain, WriterWaitsAgain, Lock!Become, AbstractLabel,
             ReadersWaiting, WritersWaiting
    <3>2. QED  BY <3>1
  <2>2. CASE ReaderEntersWoken(t)
    <3>1. Lock!BeginRead(t)
      BY <1>2, <1>3, <1>4, <2>2
         DEF ReaderEntersWoken, MustNotRead, Lock!BeginRead, AbstractLabel,
             ReadersWaiting, WritersWaiting
    <3>2. QED  BY <3>1 DEF Lock!Next
  <2>3. CASE WriterEntersWoken(t)
    <3>1. Lock!BeginWrite(t)
      BY <1>2, <1>3, <1>4, <2>3
         DEF WriterEntersWoken, MustNotWrite, Lock!BeginWrite, AbstractLabel,
             ReadersWaiting, WritersWaiting
    <3>2. QED  BY <3>1 DEF Lock!Next
  <2>4. CASE ReaderLeaves(t) \/ WriterLeaves(t)
    <3>1. PICK W : Goto(t, "idle", W)
      BY <2>4 DEF ReaderLeaves, WriterLeaves
    <3>2. Lock!Become(t, "idle")
      BY <1>3, <3>1 DEF AbstractLabel, ReadersWaiting, WritersWaiting
    <3>3. Lock!End(t)
      BY <1>4, <2>4, <3>2 DEF ReaderLeaves, WriterLeaves, Lock!End
    <3>4. QED  BY <3>3 DEF Lock!Next
  <2>5. QED  BY <1>6, <2>1, <2>2, <2>3, <2>4 DEF Proceeds
<1>7. ASSUME NEW t \in Threads, SpuriousWakeup(t)
      PROVE  UNCHANGED lockState
  <2>1. \A u \in Threads : AbstractLabel(pc'[u]) = AbstractLabel(pc[u])
    BY <1>0, <1>7 DEF SpuriousWakeup, RWTypeOK, AbstractLabel, ReadersWaiting,
                      WritersWaiting, ok_to_read, ok_to_write, At
  <2>2. lockState' = [u \in Threads |-> AbstractLabel(pc'[u])]
    <3>1. (RWTypeOK => lockState = [u \in Threads |-> AbstractLabel(pc[u])])'
      BY LockStateIs, PTL
    <3>2. QED  BY <1>0, <3>1
  <2>3. QED  BY <1>1, <2>1, <2>2
<1>8. CASE UNCHANGED rwVars
  BY <1>8 DEF rwVars, lockState
<1>9. QED  BY <1>5, <1>6, <1>7, <1>8 DEF RWNext

\* Readers share the table and give way to writers, writers have it alone:
\* what RWLock says, step for step.
THEOREM LockIsImplemented == RWSpec => ImplementsLock
<1>1. RWInit => Lock!Init
  BY DEF RWInit, Lock!Init, lockState
<1>2. IndInv /\ IndInv' /\ [RWNext]_rwVars => [Lock!Next]_lockState
  BY LockStep
<1>3. QED  BY <1>1, <1>2, IndInvHolds, PTL DEF RWSpec, ImplementsLock, Lock!Spec
-------------------------------------------------------------------------------
(* Part 2: sql.c.  Lists of lines                                          *)

\* A list, whatever its elements.
IsList(s) == \E S : s \in Seq(S)

\* Two and three lists have a set of elements in common.
LEMMA CommonElements ==
  ASSUME NEW a, NEW b, NEW c, IsList(a), IsList(b), IsList(c)
  PROVE  \E S : a \in Seq(S) /\ b \in Seq(S) /\ c \in Seq(S)
<1>1. PICK A : a \in Seq(A)
  BY DEF IsList
<1>2. PICK B : b \in Seq(B)
  BY DEF IsList
<1>3. PICK C : c \in Seq(C)
  BY DEF IsList
<1> DEFINE S == A \cup B \cup C
<1>4. a \in Seq(S)
  BY <1>1
<1>5. b \in Seq(S)
  BY <1>2
<1>6. c \in Seq(S)
  BY <1>3
<1>7. QED  BY <1>4, <1>5, <1>6

\* What is sent next comes to the same, whether it is taken as the end of what
\* has been sent or as the beginning of what is still to be sent.
LEMMA AppendShifts ==
  ASSUME NEW a, NEW e, NEW b, IsList(a), IsList(b)
  PROVE  /\ Append(a, e) \o b = a \o (<<e>> \o b)
         /\ IsList(Append(a, e))
<1>1. IsList(<<e>>)
  <2>1. <<e>> \in Seq({e})
    OBVIOUS
  <2>2. QED  BY <2>1 DEF IsList
<1>2. PICK S : a \in Seq(S) /\ b \in Seq(S) /\ <<e>> \in Seq(S)
  BY <1>1, CommonElements
<1>3. e \in S
  <2>1. <<e>>[1] \in S
    BY <1>2, ElementOfSeq
  <2>2. QED  BY <2>1
<1>4. Append(a, e) = a \o <<e>>
  BY <1>2, <1>3, AppendIsConcat
<1>5. (a \o <<e>>) \o b = a \o (<<e>> \o b)
  BY <1>2, ConcatAssociative
<1>6. Append(a, e) \in Seq(S)
  BY <1>2, <1>3, AppendProperties
<1>7. QED  BY <1>4, <1>5, <1>6 DEF IsList

LEMMA EmptyList ==
  ASSUME NEW a, IsList(a)
  PROVE  /\ a \o <<>> = a
         /\ <<>> \o a = a
         /\ IsList(<<>>)
<1>1. PICK S : a \in Seq(S)
  BY DEF IsList
<1>2. a \o <<>> = a /\ <<>> \o a = a
  BY <1>1, ConcatEmptySeq
<1>3. <<>> \in Seq(S)
  OBVIOUS
<1>4. QED  BY <1>2, <1>3 DEF IsList

LEMMA FunctionIsList ==
  ASSUME NEW n \in Nat, NEW s, s = [k \in 1 .. n |-> s[k]]
  PROVE  IsList(s) /\ Len(s) = n
<1> DEFINE S == {s[k] : k \in 1 .. n}
<1>1. s \in [1 .. n -> S]
  OBVIOUS
<1>2. s \in Seq(S)
  BY <1>1
<1>3. Len(s) = n
  BY <1>1, <1>2
<1>4. QED  BY <1>2, <1>3 DEF IsList

-------------------------------------------------------------------------------
(* One turn of the loops of sql.c                                          *)

\* The table after the loop has dealt with row i.
After(q, T, i) ==
  [T EXCEPT ![i] = IF UpdatesRow(q, T, i) THEN Assigned(q, T[i]) ELSE T[i]]

\* The rows sent from row i on.
Sent(q, T, i) == {r \in i .. tnum_of_row - 1 : Sends(q, T, r)}

IsTable(T) == T = [r \in RowNumbers |-> T[r]]

\* A turn does not change what becomes of the rows ahead, nor whether they
\* are sent: an update looks at one row at a time, and a query that looks at
\* several changes none.
LEMMA RowsAhead ==
  ASSUME NEW q, NEW T, IsTable(T), NEW i \in RowNumbers
  PROVE  /\ IsTable(After(q, T, i))
         /\ is_reader(q) => After(q, T, i) = T
         /\ Updated(q, After(q, T, i), i + 1) = Updated(q, T, i)
         /\ \A r \in i + 1 .. tnum_of_row - 1 :
              Sends(q, After(q, T, i), r) <=> Sends(q, T, r)
         /\ Updated(q, T, i)[i] = After(q, T, i)[i]
<1> DEFINE U == After(q, T, i)
<1>1. IsTable(U)
  BY DEF IsTable, After
<1>2. /\ U[i] = IF UpdatesRow(q, T, i) THEN Assigned(q, T[i]) ELSE T[i]
      /\ \A r \in RowNumbers \ {i} : U[r] = T[r]
  BY DEF IsTable, After
<1>3. ASSUME is_reader(q) PROVE U = T
  <2>1. ~ UpdatesRow(q, T, i)
    BY <1>3 DEF is_reader, UpdatesRow
  <2>2. QED  BY <2>1 DEF IsTable, After
<1>4. RowNumbers \subseteq Int
  BY DEF RowNumbers
<1> HIDE DEF U
<1>5. \A r \in RowNumbers : r > i =>
        (UpdatesRow(q, U, r) <=> UpdatesRow(q, T, r))
  BY <1>2, <1>4 DEF UpdatesRow
<1>6. Updated(q, U, i + 1) = Updated(q, T, i)
  <2>1. ASSUME NEW r \in RowNumbers
        PROVE  (IF r >= i + 1 /\ UpdatesRow(q, U, r) THEN Assigned(q, U[r]) ELSE U[r])
             = (IF r >= i /\ UpdatesRow(q, T, r) THEN Assigned(q, T[r]) ELSE T[r])
    <3>0. r \in Int /\ i \in Int
      BY <1>4
    <3>1. CASE r = i
      <4>1. ~ (r >= i + 1) /\ r >= i
        BY <3>0, <3>1
      <4>2. QED  BY <1>2, <3>1, <4>1
    <3>2. CASE r > i
      <4>1. r >= i + 1 /\ r >= i /\ r # i
        BY <3>0, <3>2
      <4>2. QED  BY <1>2, <1>5, <3>2, <4>1
    <3>3. CASE r < i
      <4>1. ~ (r >= i + 1) /\ ~ (r >= i) /\ r # i
        BY <3>0, <3>3
      <4>2. QED  BY <1>2, <4>1
    <3>4. QED  BY <3>0, <3>1, <3>2, <3>3
  <2>2. QED  BY <2>1 DEF Updated
<1>7. ASSUME NEW r \in i + 1 .. tnum_of_row - 1
      PROVE  Sends(q, U, r) <=> Sends(q, T, r)
  <2>1. r \in RowNumbers \ {i}
    BY TableAssumption DEF RowNumbers
  <2>2. CASE q.type = "update"
    BY <1>2, <2>1, <2>2 DEF Sends
  <2>3. CASE q.type # "update"
    BY <1>3, <2>3 DEF is_reader
  <2>4. QED  BY <2>2, <2>3
<1>8. Updated(q, T, i)[i] = U[i]
  <2>1. i >= i
    BY <1>4
  <2>2. QED  BY <1>2, <2>1 DEF Updated
<1>9. QED  BY <1>1, <1>3, <1>6, <1>7, <1>8 DEF U

\* Of a set with a new least element that element is the first, and the kth of
\* the others comes one place later.
LEMMA NthOfMore ==
  ASSUME NEW i \in Int, NEW S \in SUBSET Int, IsFiniteSet(S), \A r \in S : i < r
  PROVE  /\ Cardinality({i} \cup S) = Cardinality(S) + 1
         /\ Nth({i} \cup S, 1) = i
         /\ \A k \in 1 .. Cardinality(S) : Nth({i} \cup S, k + 1) = Nth(S, k)
<1> DEFINE More == {i} \cup S
           Upto(A, r) == {s \in A : s <= r}
<1>1. i \notin S
  OBVIOUS
<1>2. Cardinality(More) = Cardinality(S) + 1
  <2>1. Cardinality(S \cup {i}) = Cardinality(S) + 1
    BY <1>1, FS_AddElement
  <2>2. S \cup {i} = More
    OBVIOUS
  <2>3. QED  BY <2>1, <2>2
<1>3. Cardinality(Upto(More, i)) = 1
  <2>1. \A s \in S : ~ (s <= i)
    OBVIOUS
  <2>2. i <= i
    OBVIOUS
  <2>3. Upto(More, i) = {i}
    BY <2>1, <2>2, Zenon
  <2>4. QED  BY <2>3, FS_Singleton
<1>4. ASSUME NEW r \in S
      PROVE  /\ Cardinality(Upto(More, r)) = Cardinality(Upto(S, r)) + 1
             /\ Cardinality(Upto(S, r)) \in Nat \ {0}
  <2>1. IsFiniteSet(Upto(S, r))
    BY FS_Subset
  <2>2. i \notin Upto(S, r) /\ Upto(More, r) = Upto(S, r) \cup {i}
    <3>1. i \in Int /\ r \in Int /\ i < r
      OBVIOUS
    <3>2. i <= r
      BY ONLY <3>1
    <3>3. Upto(More, r) = Upto(S, r) \cup {i}
      BY <3>2
    <3>4. QED  BY <1>1, <3>3
  <2>3. Cardinality(Upto(S, r) \cup {i}) = Cardinality(Upto(S, r)) + 1
    BY <2>1, <2>2, FS_AddElement
  <2>4. r \in Upto(S, r)
    OBVIOUS
  <2>5. Cardinality(Upto(S, r)) \in Nat /\ Cardinality(Upto(S, r)) # 0
    BY <2>1, <2>4, FS_CardinalityType, FS_EmptySet
  <2>6. QED  BY <2>2, <2>3, <2>5
<1>5. Nth(More, 1) = i
  <2>1. \A r \in More : Cardinality(Upto(More, r)) = 1 <=> r = i
    <3>1. ASSUME NEW r \in S PROVE Cardinality(Upto(More, r)) # 1 /\ r # i
      <4>1. PICK n \in Nat \ {0} : Cardinality(Upto(S, r)) = n
        BY <1>4
      <4>2. Cardinality(Upto(More, r)) = n + 1 /\ n + 1 # 1
        BY <1>4, <4>1
      <4>3. QED  BY <1>1, <4>2
    <3>2. QED  BY <1>3, <3>1
  <2>2. i \in More
    OBVIOUS
  <2> HIDE DEF More
  <2>3. (CHOOSE r \in More : Cardinality(Upto(More, r)) = 1) = i
    BY <2>1, <2>2
  <2>4. QED  BY <2>3 DEF Nth
<1>6. ASSUME NEW k \in 1 .. Cardinality(S)
      PROVE  Nth(More, k + 1) = Nth(S, k)
  <2>0. k \in Int /\ k >= 1
    <3>1. Cardinality(S) \in Nat
      BY FS_CardinalityType
    <3>2. QED  BY <3>1
  <2>1. \A r : r \in More /\ Cardinality(Upto(More, r)) = k + 1
                 <=> (r \in S /\ Cardinality(Upto(S, r)) = k)
    <3>1. ASSUME NEW r \in S
          PROVE  Cardinality(Upto(More, r)) = k + 1 <=> Cardinality(Upto(S, r)) = k
      BY <1>4, <2>0
    <3>2. Cardinality(Upto(More, i)) # k + 1
      BY <1>3, <2>0
    <3>3. QED  BY <3>1, <3>2, <1>1
  <2> HIDE DEF More
  <2>2. (CHOOSE r : r \in More /\ Cardinality(Upto(More, r)) = k + 1)
          = (CHOOSE r : r \in S /\ Cardinality(Upto(S, r)) = k)
    BY <2>1
  <2>3. QED  BY <2>2 DEF Nth
<1>7. QED  BY <1>2, <1>5, <1>6

LEMMA SentFacts ==
  ASSUME NEW q, NEW T, NEW i \in Nat
  PROVE  /\ IsFiniteSet(Sent(q, T, i)) /\ Sent(q, T, i) \in SUBSET Int
         /\ Cardinality(Sent(q, T, i)) \in Nat
         /\ \A r \in Sent(q, T, i) : r >= i
         /\ ResponseFrom(q, T, i) =
              [k \in 1 .. Cardinality(Sent(q, T, i)) |->
                 Line(q, Updated(q, T, i)[Nth(Sent(q, T, i), k)])]
         /\ IsList(ResponseFrom(q, T, i))
         /\ Len(ResponseFrom(q, T, i)) = Cardinality(Sent(q, T, i))
<1>1. i \in Int /\ tnum_of_row - 1 \in Int
  BY TableAssumption
<1>2. IsFiniteSet(i .. tnum_of_row - 1)
  BY <1>1, FS_Interval
<1>3. IsFiniteSet(Sent(q, T, i))
  BY <1>2, FS_Subset DEF Sent
<1>4. Cardinality(Sent(q, T, i)) \in Nat
  BY <1>3, FS_CardinalityType
<1>5. Sent(q, T, i) \in SUBSET Int /\ \A r \in Sent(q, T, i) : r >= i
  BY <1>1 DEF Sent
<1>6. ResponseFrom(q, T, i) =
        [k \in 1 .. Cardinality(Sent(q, T, i)) |->
           Line(q, Updated(q, T, i)[Nth(Sent(q, T, i), k)])]
  BY DEF ResponseFrom, Sent
<1>7. IsList(ResponseFrom(q, T, i)) /\ Len(ResponseFrom(q, T, i)) = Cardinality(Sent(q, T, i))
  BY <1>4, <1>6, FunctionIsList
<1>8. QED  BY <1>3, <1>4, <1>5, <1>6, <1>7

\* What is sent from row i on is the line of row i, if that is sent, and what
\* is sent from the next row on of the table as it then is.
LEMMA ResponseUnfolds ==
  ASSUME NEW q, NEW T, IsTable(T), NEW i \in RowNumbers
  PROVE  ResponseFrom(q, T, i) =
           IF Sends(q, T, i)
           THEN <<Line(q, After(q, T, i)[i])>> \o ResponseFrom(q, After(q, T, i), i + 1)
           ELSE ResponseFrom(q, After(q, T, i), i + 1)
<1> DEFINE U == After(q, T, i)
           V == Updated(q, T, i)
           S == Sent(q, T, i)
           R == Sent(q, U, i + 1)
<1>1. i \in Nat /\ i + 1 \in Nat /\ i \in Int /\ i <= tnum_of_row - 1
      /\ tnum_of_row \in Int
  BY TableAssumption DEF RowNumbers
<1>2. /\ Updated(q, U, i + 1) = V
      /\ V[i] = U[i]
      /\ \A r \in i + 1 .. tnum_of_row - 1 : Sends(q, U, r) <=> Sends(q, T, r)
  BY RowsAhead
<1>3. R = {r \in i + 1 .. tnum_of_row - 1 : Sends(q, T, r)}
  BY <1>2 DEF Sent
<1>4. /\ IsFiniteSet(R) /\ R \in SUBSET Int
      /\ Cardinality(R) \in Nat
      /\ \A r \in R : i < r
      /\ ResponseFrom(q, U, i + 1) =
           [k \in 1 .. Cardinality(R) |-> Line(q, V[Nth(R, k)])]
      /\ IsList(ResponseFrom(q, U, i + 1))
      /\ Len(ResponseFrom(q, U, i + 1)) = Cardinality(R)
  <2>1. \A r \in R : r >= i + 1
    BY <1>1, SentFacts
  <2>2. \A r \in R : i < r
    BY <1>1, <1>3, <2>1
  <2>3. QED  BY <1>1, <1>2, <2>2, SentFacts
<1>5. /\ ResponseFrom(q, T, i) =
           [k \in 1 .. Cardinality(S) |-> Line(q, V[Nth(S, k)])]
      /\ IsList(ResponseFrom(q, T, i))
      /\ Len(ResponseFrom(q, T, i)) = Cardinality(S)
  BY <1>1, SentFacts
<1>6. CASE Sends(q, T, i)
  <2>1. S = {i} \cup R
    <3>1. i .. tnum_of_row - 1 = {i} \cup (i + 1 .. tnum_of_row - 1)
      BY <1>1
    <3>2. QED  BY <3>1, <1>3, <1>6 DEF Sent
  <2>2. /\ Cardinality(S) = Cardinality(R) + 1
        /\ Nth(S, 1) = i
        /\ \A k \in 1 .. Cardinality(R) : Nth(S, k + 1) = Nth(R, k)
    <3>1. /\ Cardinality({i} \cup R) = Cardinality(R) + 1
          /\ Nth({i} \cup R, 1) = i
          /\ \A k \in 1 .. Cardinality(R) : Nth({i} \cup R, k + 1) = Nth(R, k)
      <4> HIDE DEF R
      <4>1. QED  BY <1>1, <1>4, NthOfMore
    <3>2. QED  BY <2>1, <3>1
  <2> DEFINE first == Line(q, U[i])
             rest  == ResponseFrom(q, U, i + 1)
             all   == ResponseFrom(q, T, i)
             n     == Cardinality(R)
  <2> HIDE DEF U, V, S, R, first, rest, all, n
  <2>3. /\ all = [k \in 1 .. n + 1 |-> Line(q, V[Nth(S, k)])]
        /\ rest = [k \in 1 .. n |-> Line(q, V[Nth(R, k)])]
        /\ n \in Nat
        /\ IsList(all) /\ IsList(rest) /\ Len(all) = n + 1 /\ Len(rest) = n
    BY <1>4, <1>5, <2>2 DEF all, rest, n
  <2>4. all = <<first>> \o rest
    <3>1. IsList(<<first>>)
      <4>1. <<first>> \in Seq({first})
        OBVIOUS
      <4>2. QED  BY <4>1 DEF IsList
    <3>2. PICK E : all \in Seq(E) /\ rest \in Seq(E) /\ <<first>> \in Seq(E)
      BY <2>3, <3>1, CommonElements
    <3>3. Len(<<first>>) = 1 /\ <<first>>[1] = first
      OBVIOUS
    <3>4. /\ <<first>> \o rest \in Seq(E)
          /\ Len(<<first>> \o rest) = 1 + n
          /\ \A k \in 1 .. 1 + n : (<<first>> \o rest)[k] =
                IF k <= 1 THEN <<first>>[k] ELSE rest[k - 1]
      BY <2>3, <3>2, <3>3, ConcatProperties
    <3>5. ASSUME NEW k \in 1 .. n + 1
          PROVE  all[k] = (<<first>> \o rest)[k]
      <4>1. CASE k = 1
        <5>1. all[1] = Line(q, V[i])
          BY <2>2, <2>3
        <5>2. (<<first>> \o rest)[1] = first
          BY <2>3, <3>3, <3>4
        <5>3. QED  BY <1>2, <4>1, <5>1, <5>2 DEF first, V, U
      <4>2. CASE k # 1
        <5>1. PICK m \in 1 .. n : k = m + 1
          <6>1. k - 1 \in 1 .. n /\ k = (k - 1) + 1
            BY <2>3, <4>2
          <6>2. QED  BY <6>1
        <5>2. k \in 1 .. 1 + n /\ ~ (k <= 1) /\ k - 1 = m
          BY <2>3, <4>2, <5>1
        <5>3. (<<first>> \o rest)[k] = rest[m]
          BY <3>4, <5>2
        <5>4. rest[m] = Line(q, V[Nth(R, m)])
          BY <2>3
        <5>5. Nth(S, k) = Nth(R, m)
          BY <2>2, <5>1 DEF n
        <5>6. QED  BY <2>3, <5>3, <5>4, <5>5
      <4>3. QED  BY <4>1, <4>2
    <3>6. Len(all) = Len(<<first>> \o rest)
      BY <2>3, <3>4
    <3>7. QED  BY <2>3, <3>2, <3>4, <3>5, <3>6, SeqEqual
  <2>5. QED  BY <1>6, <2>4 DEF all, first, rest, U
<1>7. CASE ~ Sends(q, T, i)
  <2>1. S = R
    <3>1. i .. tnum_of_row - 1 = {i} \cup (i + 1 .. tnum_of_row - 1)
      BY <1>1
    <3>2. QED  BY <3>1, <1>3, <1>7 DEF Sent
  <2>2. QED  BY <1>4, <1>5, <1>7, <2>1
<1>8. QED  BY <1>6, <1>7

\* After the last row nothing is sent and nothing updated.
LEMMA ResponseDone ==
  ASSUME NEW q, NEW T, IsTable(T)
  PROVE  /\ ResponseFrom(q, T, tnum_of_row) = <<>>
         /\ Updated(q, T, tnum_of_row) = T
<1>1. tnum_of_row \in Nat /\ tnum_of_row .. tnum_of_row - 1 = {}
  BY TableAssumption
<1>2. Sent(q, T, tnum_of_row) = {}
  BY <1>1 DEF Sent
<1>3. Cardinality({}) = 0
  BY FS_EmptySet
<1>4. /\ IsList(ResponseFrom(q, T, tnum_of_row))
      /\ Len(ResponseFrom(q, T, tnum_of_row)) = Cardinality(Sent(q, T, tnum_of_row))
  BY <1>1, SentFacts
<1>5. ResponseFrom(q, T, tnum_of_row) = <<>>
  <2>1. Len(ResponseFrom(q, T, tnum_of_row)) = 0
    BY <1>2, <1>3, <1>4
  <2>2. PICK S : ResponseFrom(q, T, tnum_of_row) \in Seq(S)
    BY <1>4 DEF IsList
  <2>3. QED  BY <2>1, <2>2, EmptySeq
<1>6. \A r \in RowNumbers : ~ (r >= tnum_of_row)
  BY <1>1 DEF RowNumbers
<1>7. Updated(q, T, tnum_of_row) = [r \in RowNumbers |-> T[r]]
  BY <1>6 DEF Updated
<1>8. QED  BY <1>5, <1>7 DEF IsTable

-------------------------------------------------------------------------------
(* AtomicTable speaks of the same queries and tables                       *)

LEMMA AtomicTerms ==
  /\ Atomic!Tables = Tables
  /\ \A q : Atomic!Valid(q) <=> Valid(q)
  /\ \A q, T, i : Atomic!Updated(q, T, i) = Updated(q, T, i)
  /\ \A q, T : Atomic!Response(q, T) = ResponseFrom(q, T, 0)
<1>1. Atomic!Columns = Columns /\ Atomic!RowNumbers = RowNumbers
  BY DEF Atomic!Columns, Columns, Atomic!RowNumbers, RowNumbers
<1>2. Atomic!Tables = Tables
  <2>1. Atomic!Header = Header
    BY <1>1 DEF Atomic!Header, Header
  <2>2. QED  BY <1>1, <2>1 DEF Atomic!Tables, Tables
<1>3. ASSUME NEW q PROVE Atomic!Valid(q) <=> Valid(q)
  <2>1. Atomic!Named(q) = Named(q)
    BY DEF Atomic!Named, Named
  <2>2. QED  BY <1>1, <2>1 DEF Atomic!Valid, Valid
<1>4. ASSUME NEW q, NEW r
      PROVE  /\ Atomic!Where(q) = Where(q)
             /\ Atomic!Assignments(q) = Assignments(q)
             /\ Atomic!Matches(q, r) <=> Matches(q, r)
             /\ Atomic!Assigned(q, r) = Assigned(q, r)
             /\ Atomic!Projection(q, r) = Projection(q, r)
             /\ Atomic!Line(q, r) = Line(q, r)
  <2>1. Atomic!Where(q) = Where(q)
    BY DEF Atomic!Where, Where
  <2>2. Atomic!Assignments(q) = Assignments(q)
    BY DEF Atomic!Assignments, Assignments
  <2>3. Atomic!Matches(q, r) <=> Matches(q, r)
    BY <2>1 DEF Atomic!Matches, Matches
  <2>4. Atomic!Assigned(q, r) = Assigned(q, r)
    BY <1>1, <2>2 DEF Atomic!Assigned, Assigned
  <2>5. \A cs : Atomic!Project(cs, r) = Project(cs, r)
    BY DEF Atomic!Project, Project
  <2>6. Atomic!Projection(q, r) = Projection(q, r)
    BY <2>5 DEF Atomic!Projection, Projection
  <2>7. Atomic!Line(q, r) = Line(q, r)
    BY <2>5, <2>6 DEF Atomic!Line, Line
  <2>8. QED  BY <2>1, <2>2, <2>3, <2>4, <2>6, <2>7
<1>5. ASSUME NEW q, NEW T, NEW i
      PROVE  /\ Atomic!Updated(q, T, i) = Updated(q, T, i)
             /\ Atomic!Sends(q, T, i) <=> Sends(q, T, i)
  <2>1. \A r : Atomic!UpdatesRow(q, T, r) <=> UpdatesRow(q, T, r)
    BY <1>4 DEF Atomic!UpdatesRow, UpdatesRow
  <2>2. Atomic!Updated(q, T, i) = Updated(q, T, i)
    BY <1>1, <1>4, <2>1 DEF Atomic!Updated, Updated
  <2>3. Atomic!is_distinct(q, T, i) <=> is_distinct(q, T, i)
    BY <1>4 DEF Atomic!is_distinct, is_distinct
  <2>4. Atomic!Sends(q, T, i) <=> Sends(q, T, i)
    <3>1. Atomic!Matches(q, T[i]) <=> Matches(q, T[i])
      BY <1>4
    <3>2. QED  BY <2>3, <3>1 DEF Atomic!Sends, Sends
  <2>5. QED  BY <2>2, <2>4
<1>6. ASSUME NEW q, NEW T
      PROVE  Atomic!Response(q, T) = ResponseFrom(q, T, 0)
  <2>0. \A S : Atomic!Cardinality(S) = Cardinality(S)
    BY DEF Atomic!Cardinality, Cardinality
  <2>1. \A S, k : Atomic!Nth(S, k) = Nth(S, k)
    BY <2>0 DEF Atomic!Nth, Nth
  <2>2. Atomic!Updated(q, T, 0) = Updated(q, T, 0)
    BY <1>5
  <2>3. {r \in 0 .. tnum_of_row - 1 : Atomic!Sends(q, T, r)}
          = {r \in 0 .. tnum_of_row - 1 : Sends(q, T, r)}
    BY <1>5
  <2>4. \A x : Atomic!Line(q, x) = Line(q, x)
    BY <1>4
  <2>5. QED
    BY <2>0, <2>1, <2>2, <2>3, <2>4
       DEF Atomic!Response, Atomic!ResponseFrom, ResponseFrom
<1>7. QED  BY <1>2, <1>3, <1>5, <1>6

-------------------------------------------------------------------------------
(* Part 3: the two together.  The threads keep to the lock                 *)

\* Every step of a thread is a step of reader_writer.c, or leaves the lock as
\* it is.
LEMMA LockSteps == [TSNext]_tsVars => [RWNext]_rwVars
<1> SUFFICES ASSUME [TSNext]_tsVars PROVE [RWNext]_rwVars
  OBVIOUS
<1>1. CASE UNCHANGED tsVars
  BY <1>1 DEF tsVars, rwVars
<1>2. ASSUME NEW t \in Threads, NEW q \in Queries,
             Arrives(t, q) \/ ArrivesUndefined(t, q)
      PROVE  [RWNext]_rwVars
  <2>1. CASE Arrives(t, q)
    BY <2>1 DEF Arrives, RWNext, QueryArrives
  <2>2. CASE ArrivesUndefined(t, q)
    BY <2>2 DEF ArrivesUndefined, rwVars
  <2>3. QED  BY <1>2, <2>1, <2>2
<1>3. ASSUME NEW t \in Threads, GetsOn(t)
      PROVE  RWNext
  BY <1>3 DEF GetsOn, RWNext, Proceeds
<1>4. ASSUME NEW t \in Threads, RespondFails(t) \/ RespondRow(t)
      PROVE  UNCHANGED rwVars
  BY <1>4 DEF RespondFails, RespondRow, rwVars
<1>5. ASSUME NEW t \in Threads, RespondEnds(t)
      PROVE  RWNext
  BY <1>5 DEF RespondEnds, RWNext, Proceeds
<1>6. QED  BY <1>1, <1>2, <1>3, <1>4, <1>5 DEF TSNext

\* So what reader_writer.c guarantees, it guarantees to the server's threads.
THEOREM LockInUse == TSSpec => RWSpec
<1>1. TSInit => RWInit
  BY DEF TSInit
<1>2. QED  BY <1>1, LockSteps, PTL DEF TSSpec, RWSpec

-------------------------------------------------------------------------------
(* The invariant of the threads at work                                    *)

ReaderLabels == {"wait_read", "woken_read", "reading"}
WriterLabels == {"wait_write", "woken_write", "writing"}

TableTypeOK == /\ IsTable(table)
               /\ query \in [Threads -> Queries \cup {NoQuery}]
               /\ row \in [Threads -> 0 .. tnum_of_row]
               /\ lines = [t \in Threads |-> lines[t]]
               /\ \A t \in Threads : IsList(lines[t])

\* A thread that goes through reader() has a query of the clients that reads,
\* one that goes through writer() an update.
QueryAtItsPlace ==
  \A t \in Threads :
    /\ pc[t] \in ReaderLabels => query[t] \in Queries /\ is_reader(query[t])
    /\ pc[t] \in WriterLabels => query[t] \in Queries /\ ~ is_reader(query[t])

\* A thread that is not in respond() starts it at row 0 with nothing sent.
FromTheTop ==
  \A t \in Threads : ~ InRespond(t) => row[t] = 0 /\ lines[t] = <<>>

TableInv == IndInv /\ TableTypeOK /\ QueryAtItsPlace /\ FromTheTop

LEMMA TableInvInit == TSInit => TableInv
<1> SUFFICES ASSUME TSInit PROVE TableInv
  OBVIOUS
<1>1. IndInv
  BY IndInvInit DEF TSInit
<1>2. pc = [t \in Threads |-> "idle"]
  BY DEF TSInit, RWInit
<1>3. TableTypeOK
  <2>1. IsTable(table)
    BY DEF TSInit, Tables, IsTable
  <2>2. \A t \in Threads : lines[t] = <<>>
    BY DEF TSInit
  <2>3. IsList(<<>>)
    <3>1. <<>> \in Seq({})
      OBVIOUS
    <3>2. QED  BY <3>1 DEF IsList
  <2>4. lines = [t \in Threads |-> lines[t]]
    BY DEF TSInit
  <2>5. 0 \in 0 .. tnum_of_row
    BY TableAssumption
  <2>6. row \in [Threads -> 0 .. tnum_of_row]
    BY <2>5 DEF TSInit
  <2>7. query \in [Threads -> Queries \cup {NoQuery}]
    BY DEF TSInit
  <2>8. QED  BY <2>1, <2>2, <2>3, <2>4, <2>6, <2>7 DEF TableTypeOK
<1>4. QueryAtItsPlace
  BY <1>2 DEF QueryAtItsPlace, ReaderLabels, WriterLabels
<1>5. FromTheTop
  BY DEF TSInit, FromTheTop
<1>6. QED  BY <1>1, <1>3, <1>4, <1>5 DEF TableInv

\* What a move of one thread leaves to the others: where they are in respond(),
\* and on which side of the lock.
LEMMA OthersStay ==
  ASSUME RWTypeOK, NEW t \in Threads, NEW label \in Labels, NEW W,
         Goto(t, label, W)
  PROVE  /\ pc'[t] = label
         /\ \A u \in Threads \ {t} :
              /\ pc'[u] = "reading" <=> pc[u] = "reading"
              /\ pc'[u] = "writing" <=> pc[u] = "writing"
              /\ pc'[u] \in ReaderLabels <=> pc[u] \in ReaderLabels
              /\ pc'[u] \in WriterLabels <=> pc[u] \in WriterLabels
BY GotoMoves DEF ReaderLabels, WriterLabels

\* When a thread moves with its query, and the work of the others stays.
LEMMA QueryInvKept ==
  ASSUME TableInv, NEW t \in Threads,
         \A u \in Threads \ {t} :
           /\ pc'[u] = "reading" <=> pc[u] = "reading"
           /\ pc'[u] = "writing" <=> pc[u] = "writing"
           /\ pc'[u] \in ReaderLabels <=> pc[u] \in ReaderLabels
           /\ pc'[u] \in WriterLabels <=> pc[u] \in WriterLabels
           /\ query'[u] = query[u]
           /\ row'[u] = row[u]
           /\ lines'[u] = lines[u],
         pc'[t] \in ReaderLabels => query'[t] \in Queries /\ is_reader(query'[t]),
         pc'[t] \in WriterLabels => query'[t] \in Queries /\ ~ is_reader(query'[t]),
         pc'[t] \notin {"reading", "writing"} => row'[t] = 0 /\ lines'[t] = <<>>
  PROVE  QueryAtItsPlace' /\ FromTheTop'
<1>1. QueryAtItsPlace'
  BY DEF TableInv, QueryAtItsPlace
<1>2. FromTheTop'
  BY DEF TableInv, FromTheTop, InRespond
<1>3. QED  BY <1>1, <1>2

-------------------------------------------------------------------------------
(* What the table and the responses come to                                *)

\* The value of Settled: only one thread writes.
SettledFact ==
  /\ (\A t \in Threads : pc[t] # "writing") => Settled = table
  /\ \A w \in Threads : pc[w] = "writing" =>
       Settled = IF Valid(query[w]) THEN Updated(query[w], table, row[w])
                                    ELSE table

LEMMA SettledIs == TableInv => SettledFact
<1> SUFFICES ASSUME TableInv PROVE SettledFact
  OBVIOUS
<1>1. ASSUME \A t \in Threads : pc[t] # "writing"
      PROVE  Settled = table
  <2>1. At("writing") = {}
    BY <1>1 DEF At
  <2>2. QED  BY <2>1 DEF Settled
<1>2. ASSUME NEW w \in Threads, pc[w] = "writing"
      PROVE  Settled = IF Valid(query[w]) THEN Updated(query[w], table, row[w])
                                          ELSE table
  <2>1. At("writing") # {}
    BY <1>2 DEF At
  <2>2. \A t \in Threads : pc[t] = "writing" <=> t = w
    BY <1>2 DEF TableInv, IndInv, Exclusion
  <2>3. (CHOOSE t \in Threads : pc[t] = "writing") = w
    BY <2>2
  <2> DEFINE v == CHOOSE t \in Threads : pc[t] = "writing"
  <2>4. Settled = IF Valid(query[v]) THEN Updated(query[v], table, row[v]) ELSE table
    BY <2>1 DEF Settled
  <2>5. v = w
    BY <2>3
  <2> HIDE DEF v
  <2>6. QED  BY <2>4, <2>5
<1>3. QED  BY <1>1, <1>2 DEF SettledFact

\* As long as nobody enters or leaves and nothing is looked at, neither changes.
LEMMA NothingDone ==
  ASSUME TableInv, TableInv', UNCHANGED <<table, row, lines>>,
         \A u \in Threads :
           /\ pc'[u] = "reading" <=> pc[u] = "reading"
           /\ pc'[u] = "writing" <=> pc[u] = "writing"
           /\ InRespond(u) => query'[u] = query[u]
  PROVE  UNCHANGED <<Settled, Promised>>
<1>1. SettledFact /\ SettledFact'
  <2>1. (TableInv => SettledFact)'
    BY SettledIs, PTL
  <2>2. QED  BY <2>1, SettledIs
<1>2. Settled' = Settled
  <2>1. CASE \A t \in Threads : pc[t] # "writing"
    BY <1>1, <2>1 DEF SettledFact
  <2>2. ASSUME NEW w \in Threads, pc[w] = "writing"
        PROVE  Settled' = Settled
    <3>1. pc'[w] = "writing" /\ query'[w] = query[w]
      BY <2>2 DEF InRespond
    <3>2. QED  BY <1>1, <2>2, <3>1 DEF SettledFact
  <2>3. QED  BY <2>1, <2>2
<1>3. \A u \in Threads : InRespond(u)' <=> InRespond(u)
  BY DEF InRespond
<1>4. Promised' = Promised
  BY <1>3 DEF Promised
<1>5. QED  BY <1>2, <1>4

LEMMA PromisedIs ==
  /\ Promised = [t \in Threads |-> Promised[t]]
  /\ \A t \in Threads :
       Promised[t] = IF InRespond(t) /\ Valid(query[t])
                     THEN lines[t] \o ResponseFrom(query[t], table, row[t])
                     ELSE <<>>
BY DEF Promised

\* A thread that enters takes up its query: all of the response it will give
\* and all of the changes it will make are there at once.
LEMMA EnteringAnswers ==
  ASSUME TableInv, TableInv', UNCHANGED <<table, row, lines>>, NEW t \in Threads,
         ~ InRespond(t), pc'[t] \in {"reading", "writing"},
         \A u \in Threads : pc[u] # "writing",
         \A u \in Threads \ {t} :
           /\ pc'[u] = "reading" <=> pc[u] = "reading"
           /\ pc'[u] = "writing" <=> pc[u] = "writing"
           /\ query'[u] = query[u]
  PROVE  [Atomic!Next]_Atomic!atomicVars
<1> DEFINE q == query'[t]
<1>1. q \in Queries /\ (is_reader(q) <=> pc'[t] = "reading")
  <2>1. pc'[t] \in ReaderLabels => q \in Queries /\ is_reader(q)
    BY DEF TableInv, QueryAtItsPlace
  <2>2. pc'[t] \in WriterLabels => q \in Queries /\ ~ is_reader(q)
    BY DEF TableInv, QueryAtItsPlace
  <2>3. QED  BY <2>1, <2>2 DEF ReaderLabels, WriterLabels
<1>2. row[t] = 0 /\ lines[t] = <<>> /\ row'[t] = 0 /\ lines'[t] = <<>>
  BY DEF TableInv, FromTheTop
<1>3. IsTable(table)
  BY DEF TableInv, TableTypeOK
<1>4. Settled = table
  BY SettledIs DEF SettledFact
<1>5. SettledFact'
  <2>1. (TableInv => SettledFact)'
    BY SettledIs, PTL
  <2>2. QED  BY <2>1
<1>6. Settled' = IF Valid(q) THEN Updated(q, table, 0) ELSE table
  <2>1. CASE pc'[t] = "writing"
    BY <1>2, <1>5, <2>1 DEF SettledFact
  <2>2. CASE pc'[t] = "reading"
    <3>1. \A u \in Threads : pc'[u] # "writing"
      BY <2>2
    <3>2. Settled' = table
      BY <1>5, <3>1 DEF SettledFact
    <3>3. \A r \in RowNumbers : ~ UpdatesRow(q, table, r)
      BY <1>1, <2>2 DEF is_reader, UpdatesRow
    <3>4. Updated(q, table, 0) = table
      BY <1>3, <3>3 DEF Updated, IsTable
    <3>5. QED  BY <3>2, <3>4
  <2>3. QED  BY <2>1, <2>2
<1>7. /\ Promised[t] = <<>>
      /\ Promised'[t] = IF Valid(q) THEN ResponseFrom(q, table, 0) ELSE <<>>
      /\ \A u \in Threads \ {t} : Promised'[u] = Promised[u]
      /\ Promised' = [u \in Threads |-> Promised'[u]]
  <2>1. Promised[t] = <<>>
    BY PromisedIs
  <2>2. Promised'[t] = IF Valid(q) THEN <<>> \o ResponseFrom(q, table, 0) ELSE <<>>
    BY <1>2 DEF Promised, InRespond
  <2>3. <<>> \o ResponseFrom(q, table, 0) = ResponseFrom(q, table, 0)
    <3>1. IsList(ResponseFrom(q, table, 0))
      BY SentFacts
    <3>2. QED  BY <3>1, EmptyList
  <2>4. \A u \in Threads \ {t} : Promised'[u] = Promised[u]
    BY DEF Promised, InRespond
  <2>5. Promised' = [u \in Threads |-> Promised'[u]]
    BY DEF Promised
  <2>6. QED  BY <2>1, <2>2, <2>3, <2>4, <2>5
<1>8. CASE Valid(q)
  <2>1. Promised' = [Promised EXCEPT ![t] = ResponseFrom(q, table, 0)]
    BY <1>7, <1>8, PromisedIs
  <2>2. Settled' = Updated(q, table, 0)
    BY <1>6, <1>8
  <2>3. /\ Atomic!Response(q, Settled) = ResponseFrom(q, table, 0)
        /\ Atomic!Updated(q, Settled, 0) = Updated(q, table, 0)
        /\ Atomic!Valid(q)
    BY <1>4, <1>8, AtomicTerms
  <2>4. Atomic!Answer(t, q)
    BY <1>7, <2>1, <2>2, <2>3 DEF Atomic!Answer
  <2>5. q \in {r \in Queries : Atomic!Valid(r)}
    BY <1>1, <2>3
  <2>6. Atomic!Next
    BY <2>4, <2>5 DEF Atomic!Next
  <2>7. QED  BY <2>6
<1>9. CASE ~ Valid(q)
  <2>1. Settled' = Settled
    BY <1>4, <1>6, <1>9
  <2>2. Promised' = Promised
    BY <1>7, <1>9, PromisedIs
  <2>3. QED  BY <2>1, <2>2 DEF Atomic!atomicVars
<1>10. QED  BY <1>8, <1>9

\* One turn of the loop changes what has been done and what is left to do, but
\* not the two together.
LEMMA RowStutters ==
  ASSUME TableInv, TableInv', NEW t \in Threads, RespondRow(t)
  PROVE  UNCHANGED <<Settled, Promised>>
<1> DEFINE i == row[t]
           q == query[t]
           U == After(q, table, i)
<1>1. /\ InRespond(t) /\ Valid(q)
      /\ row[t] \in 0 .. tnum_of_row /\ row[t] < tnum_of_row
      /\ lines' = IF Sends(q, table, i)
                  THEN [lines EXCEPT ![t] = Append(@, Line(q,
                          IF UpdatesRow(q, table, i) THEN Assigned(q, table[i])
                                                     ELSE table[i]))]
                  ELSE lines
      /\ table' = U
      /\ row' = [row EXCEPT ![t] = @ + 1]
      /\ UNCHANGED <<pc, query>>
  BY DEF RespondRow, After, TableInv, TableTypeOK
<1>2. i \in RowNumbers /\ i \in Nat
  BY <1>1, TableAssumption DEF RowNumbers
<1>3. IsTable(table) /\ IsList(lines[t])
      /\ row \in [Threads -> 0 .. tnum_of_row]
      /\ lines = [u \in Threads |-> lines[u]]
  BY DEF TableInv, TableTypeOK
<1>4. U[i] = IF UpdatesRow(q, table, i) THEN Assigned(q, table[i]) ELSE table[i]
  BY <1>2, <1>3 DEF After, IsTable
<1>5. /\ IsTable(U)
      /\ is_reader(q) => U = table
      /\ Updated(q, U, i + 1) = Updated(q, table, i)
  BY <1>2, <1>3, RowsAhead
<1>6. ResponseFrom(q, table, i) =
        IF Sends(q, table, i) THEN <<Line(q, U[i])>> \o ResponseFrom(q, U, i + 1)
                              ELSE ResponseFrom(q, U, i + 1)
  BY <1>2, <1>3, ResponseUnfolds
<1>7. row'[t] = i + 1 /\ \A u \in Threads \ {t} : row'[u] = row[u]
  BY <1>1, <1>3
<1>8. /\ lines'[t] = IF Sends(q, table, i) THEN Append(lines[t], Line(q, U[i]))
                                           ELSE lines[t]
      /\ \A u \in Threads \ {t} : lines'[u] = lines[u]
  BY <1>1, <1>3, <1>4
<1>9. is_reader(q) <=> pc[t] = "reading"
  BY <1>1 DEF TableInv, QueryAtItsPlace, InRespond, ReaderLabels, WriterLabels
<1> HIDE DEF U
<1>10. Settled' = Settled
  <2>1. SettledFact /\ SettledFact'
    <3>1. (TableInv => SettledFact)'
      BY SettledIs, PTL
    <3>2. QED  BY <3>1, SettledIs
  <2>2. CASE pc[t] = "writing"
    BY <1>1, <1>5, <1>7, <2>1, <2>2 DEF SettledFact
  <2>3. CASE pc[t] = "reading"
    <3>1. \A u \in Threads : pc[u] # "writing"
      BY <2>3 DEF TableInv, IndInv, Exclusion
    <3>2. QED  BY <1>1, <1>5, <1>9, <2>1, <2>3, <3>1 DEF SettledFact
  <2>4. QED  BY <1>1, <2>2, <2>3 DEF InRespond
<1>11. Promised'[t] = Promised[t]
  <2>1. Promised[t] = lines[t] \o ResponseFrom(q, table, i)
    BY <1>1, PromisedIs
  <2>2. Promised'[t] = lines'[t] \o ResponseFrom(q, U, i + 1)
    BY <1>1, <1>7 DEF Promised, InRespond
  <2>3. CASE Sends(q, table, i)
    <3>1. IsList(ResponseFrom(q, U, i + 1))
      BY <1>2, SentFacts
    <3>2. Append(lines[t], Line(q, U[i])) \o ResponseFrom(q, U, i + 1)
            = lines[t] \o (<<Line(q, U[i])>> \o ResponseFrom(q, U, i + 1))
      BY <1>3, <3>1, AppendShifts
    <3>3. QED  BY <1>6, <1>8, <2>1, <2>2, <2>3, <3>2
  <2>4. CASE ~ Sends(q, table, i)
    BY <1>6, <1>8, <2>1, <2>2, <2>4
  <2>5. QED  BY <2>3, <2>4
<1>12. ASSUME NEW u \in Threads \ {t}
       PROVE  Promised'[u] = Promised[u]
  <2>1. /\ lines'[u] = lines[u] /\ row'[u] = row[u] /\ query'[u] = query[u]
        /\ InRespond(u)' <=> InRespond(u)
    BY <1>1, <1>7, <1>8 DEF InRespond
  <2>2. CASE InRespond(u)
    <3>1. pc[t] = "reading"
      BY <1>1, <2>2 DEF TableInv, IndInv, Exclusion, InRespond
    <3>2. table' = table
      BY <1>1, <1>5, <1>9, <3>1
    <3>3. QED  BY <2>1, <3>2 DEF Promised
  <2>3. CASE ~ InRespond(u)
    BY <2>1, <2>3 DEF Promised
  <2>4. QED  BY <2>2, <2>3
<1>13. Promised' = [u \in Threads |-> Promised'[u]]
  BY DEF Promised
<1>14. QED  BY <1>10, <1>11, <1>12, <1>13, PromisedIs

-------------------------------------------------------------------------------
(* Every step keeps the invariant                                          *)

\* Reader or writer, a thread that enters the table does so by a move alone
\* and finds no writer in it.
Enters(t) == \/ ReaderEnters(t) \/ WriterEnters(t)
             \/ ReaderEntersWoken(t) \/ WriterEntersWoken(t)

Waits(t) == \/ ReaderWaits(t) \/ WriterWaits(t)
            \/ ReaderWaitsAgain(t) \/ WriterWaitsAgain(t) \/ SpuriousWakeup(t)

LEMMA EntersFacts ==
  ASSUME TableInv, NEW t \in Threads, Enters(t)
  PROVE  /\ ~ InRespond(t)
         /\ pc'[t] = IF ReaderEnters(t) \/ ReaderEntersWoken(t) THEN "reading" ELSE "writing"
         /\ \A u \in Threads : pc[u] # "writing"
         /\ \A u \in Threads \ {t} :
              /\ pc'[u] = "reading" <=> pc[u] = "reading"
              /\ pc'[u] = "writing" <=> pc[u] = "writing"
              /\ pc'[u] \in ReaderLabels <=> pc[u] \in ReaderLabels
              /\ pc'[u] \in WriterLabels <=> pc[u] \in WriterLabels
<1>0. RWTypeOK /\ CountersExact
  BY DEF TableInv, IndInv
<1>1. \A u \in Threads : AW = 0 => pc[u] # "writing"
  <2>1. AW > 0 <=> At("writing") # {}
    BY <1>0, CountersPositive
  <2>2. QED  BY <1>0, <2>1 DEF RWTypeOK, At
<1>2. AW = 0
  BY <1>0 DEF Enters, ReaderEnters, WriterEnters, ReaderEntersWoken,
              WriterEntersWoken, MustNotRead, MustNotWrite, RWTypeOK
<1>3. CASE ReaderEnters(t) \/ ReaderEntersWoken(t)
  <2>1. Goto(t, "reading", {}) /\ pc[t] \in {"idle", "woken_read"}
    BY <1>3 DEF ReaderEnters, ReaderEntersWoken
  <2>2. "reading" \in Labels
    BY DEF Labels
  <2>3. QED  BY <1>0, <1>1, <1>2, <1>3, <2>1, <2>2, OthersStay DEF InRespond
<1>4. CASE WriterEnters(t) \/ WriterEntersWoken(t)
  <2>1. Goto(t, "writing", {}) /\ pc[t] \in {"idle", "woken_write"}
    BY <1>4 DEF WriterEnters, WriterEntersWoken
  <2>2. "writing" \in Labels
    BY DEF Labels
  <2>3. pc'[t] = "writing"
    BY <1>0, <2>1, <2>2, OthersStay
  <2>4. ~ (ReaderEnters(t) \/ ReaderEntersWoken(t))
    <3>1. ASSUME ReaderEnters(t) \/ ReaderEntersWoken(t) PROVE FALSE
      <4>1. Goto(t, "reading", {}) /\ "reading" \in Labels
        BY <3>1 DEF ReaderEnters, ReaderEntersWoken, Labels
      <4>2. pc'[t] = "reading"
        BY <1>0, <4>1, OthersStay
      <4>3. QED  BY <2>3, <4>2
    <3>2. QED  BY <3>1
  <2>5. QED  BY <1>0, <1>1, <1>2, <2>1, <2>2, <2>3, <2>4, OthersStay DEF InRespond
<1>5. QED  BY <1>3, <1>4 DEF Enters

LEMMA WaitsFacts ==
  ASSUME TableInv, NEW t \in Threads, Waits(t)
  PROVE  /\ ~ InRespond(t)
         /\ pc'[t] \in ReaderLabels \cup WriterLabels
         /\ pc'[t] \notin {"reading", "writing"}
         /\ ReaderWaits(t) => pc'[t] \in ReaderLabels /\ pc[t] = "idle"
         /\ WriterWaits(t) => pc'[t] \in WriterLabels /\ pc[t] = "idle"
         /\ pc[t] # "idle" => /\ pc'[t] \in ReaderLabels <=> pc[t] \in ReaderLabels
                              /\ pc'[t] \in WriterLabels <=> pc[t] \in WriterLabels
         /\ \A u \in Threads \ {t} :
              /\ pc'[u] = "reading" <=> pc[u] = "reading"
              /\ pc'[u] = "writing" <=> pc[u] = "writing"
              /\ pc'[u] \in ReaderLabels <=> pc[u] \in ReaderLabels
              /\ pc'[u] \in WriterLabels <=> pc[u] \in WriterLabels
<1>0. RWTypeOK
  BY DEF TableInv, IndInv
<1>1. CASE ReaderWaits(t) \/ ReaderWaitsAgain(t)
  <2>1. Goto(t, "wait_read", {}) /\ pc[t] \in {"idle", "woken_read"}
    BY <1>1 DEF ReaderWaits, ReaderWaitsAgain
  <2>2. "wait_read" \in Labels
    BY DEF Labels
  <2>3. pc'[t] = "wait_read"
    BY <1>0, <2>1, <2>2, OthersStay
  <2>4. ~ WriterWaits(t) /\ (ReaderWaits(t) => pc[t] = "idle")
    <3>1. ASSUME WriterWaits(t) PROVE FALSE
      <4>1. Goto(t, "wait_write", {}) /\ "wait_write" \in Labels
        BY <3>1 DEF WriterWaits, Labels
      <4>2. pc'[t] = "wait_write"
        BY <1>0, <4>1, OthersStay
      <4>3. QED  BY <2>3, <4>2
    <3>2. QED  BY <3>1 DEF ReaderWaits
  <2>5. QED  BY <1>0, <2>1, <2>2, <2>3, <2>4, OthersStay
             DEF InRespond, ReaderLabels, WriterLabels
<1>2. CASE WriterWaits(t) \/ WriterWaitsAgain(t)
  <2>1. Goto(t, "wait_write", {}) /\ pc[t] \in {"idle", "woken_write"}
    BY <1>2 DEF WriterWaits, WriterWaitsAgain
  <2>2. "wait_write" \in Labels
    BY DEF Labels
  <2>3. pc'[t] = "wait_write"
    BY <1>0, <2>1, <2>2, OthersStay
  <2>4. ~ ReaderWaits(t) /\ (WriterWaits(t) => pc[t] = "idle")
    <3>1. ASSUME ReaderWaits(t) PROVE FALSE
      <4>1. Goto(t, "wait_read", {}) /\ "wait_read" \in Labels
        BY <3>1 DEF ReaderWaits, Labels
      <4>2. pc'[t] = "wait_read"
        BY <1>0, <4>1, OthersStay
      <4>3. QED  BY <2>3, <4>2
    <3>2. QED  BY <3>1 DEF WriterWaits
  <2>5. QED  BY <1>0, <2>1, <2>2, <2>3, <2>4, OthersStay
             DEF InRespond, ReaderLabels, WriterLabels
<1>3. CASE SpuriousWakeup(t)
  <2>1. /\ \A u \in Threads \ {t} : pc'[u] = pc[u]
        /\ \/ pc[t] = "wait_read" /\ pc'[t] = "woken_read"
           \/ pc[t] = "wait_write" /\ pc'[t] = "woken_write"
    BY <1>0, <1>3 DEF SpuriousWakeup, RWTypeOK, ok_to_read, ok_to_write, At
  <2>2. ~ ReaderWaits(t) /\ ~ WriterWaits(t)
    BY <2>1 DEF ReaderWaits, WriterWaits
  <2>3. QED  BY <2>1, <2>2 DEF InRespond, ReaderLabels, WriterLabels
<1>4. QED  BY <1>1, <1>2, <1>3 DEF Waits

LEMMA LeavesFacts ==
  ASSUME TableInv, NEW t \in Threads, ReaderLeaves(t) \/ WriterLeaves(t)
  PROVE  /\ pc[t] = IF ReaderLeaves(t) THEN "reading" ELSE "writing"
         /\ pc'[t] = "idle"
         /\ \A u \in Threads \ {t} :
              /\ pc'[u] = "reading" <=> pc[u] = "reading"
              /\ pc'[u] = "writing" <=> pc[u] = "writing"
              /\ pc'[u] \in ReaderLabels <=> pc[u] \in ReaderLabels
              /\ pc'[u] \in WriterLabels <=> pc[u] \in WriterLabels
<1>0. RWTypeOK
  BY DEF TableInv, IndInv
<1>1. PICK W : Goto(t, "idle", W)
  BY DEF ReaderLeaves, WriterLeaves
<1>2. "idle" \in Labels
  BY DEF Labels
<1>3. pc[t] = IF ReaderLeaves(t) THEN "reading" ELSE "writing"
  BY DEF ReaderLeaves, WriterLeaves
<1>4. QED  BY <1>0, <1>1, <1>2, <1>3, OthersStay

LEMMA TableInvStep == TableInv /\ [TSNext]_tsVars => TableInv'
<1> SUFFICES ASSUME TableInv, [TSNext]_tsVars PROVE TableInv'
  OBVIOUS
<1>0. IndInv' /\ RWTypeOK
  BY LockSteps, IndInvStep DEF TableInv, IndInv
<1>1. TableTypeOK /\ QueryAtItsPlace /\ FromTheTop
  BY DEF TableInv
<1>2. CASE UNCHANGED tsVars
  <2>1. UNCHANGED <<pc, table, query, row, lines>>
    BY <1>2 DEF tsVars
  <2>2. TableTypeOK' /\ QueryAtItsPlace' /\ FromTheTop'
    BY <1>1, <2>1 DEF TableTypeOK, IsTable, QueryAtItsPlace, FromTheTop, InRespond
  <2>3. QED  BY <1>0, <2>2 DEF TableInv
<1>3. ASSUME NEW t \in Threads, NEW q \in Queries, Arrives(t, q)
      PROVE  TableInv'
  <2>1. /\ IF is_reader(q) THEN ReaderWaits(t) \/ ReaderEnters(t)
                           ELSE WriterWaits(t) \/ WriterEnters(t)
        /\ query' = [query EXCEPT ![t] = q]
        /\ UNCHANGED <<table, row, lines>>
    BY <1>3 DEF Arrives
  <2>2. TableTypeOK'
    BY <1>1, <2>1 DEF TableTypeOK, IsTable
  <2>3. query'[t] = q /\ \A u \in Threads \ {t} : query'[u] = query[u]
    BY <1>1, <2>1 DEF TableTypeOK
  <2>4. CASE Waits(t)
    <3>1. /\ pc'[t] \in ReaderLabels => is_reader(q)
          /\ pc'[t] \in WriterLabels => ~ is_reader(q)
      <4>1. ReaderLabels \cap WriterLabels = {}
        BY DEF ReaderLabels, WriterLabels
      <4>2. CASE is_reader(q)
        <5>1. ReaderWaits(t) \/ ReaderEnters(t)
          BY <2>1, <4>2
        <5>2. CASE ReaderWaits(t)
          BY <2>4, <4>1, <4>2, <5>2, WaitsFacts
        <5>3. CASE ReaderEnters(t)
          <6>1. pc'[t] = "reading"
            BY <5>3, EntersFacts DEF Enters
          <6>2. QED  BY <4>1, <4>2, <6>1 DEF ReaderLabels
        <5>4. QED  BY <5>1, <5>2, <5>3
      <4>3. CASE ~ is_reader(q)
        <5>1. WriterWaits(t) \/ WriterEnters(t)
          BY <2>1, <4>3
        <5>2. CASE WriterWaits(t)
          BY <2>4, <4>1, <4>3, <5>2, WaitsFacts
        <5>3. CASE WriterEnters(t)
          <6>1. pc[t] = "idle"
            BY <5>3 DEF WriterEnters
          <6>2. Goto(t, "writing", {}) /\ "writing" \in Labels
            BY <5>3 DEF WriterEnters, Labels
          <6>3. pc'[t] = "writing"
            BY <1>0, <6>2, OthersStay
          <6>4. QED  BY <4>1, <4>3, <6>3 DEF WriterLabels
        <5>4. QED  BY <5>1, <5>2, <5>3
      <4>4. QED  BY <4>2, <4>3
    <3>2. row'[t] = 0 /\ lines'[t] = <<>>
      BY <1>1, <2>1, <2>4, WaitsFacts DEF FromTheTop
    <3>3. QueryAtItsPlace' /\ FromTheTop'
      BY <2>1, <2>3, <2>4, <3>1, <3>2, WaitsFacts, QueryInvKept
    <3>4. QED  BY <1>0, <2>2, <3>3 DEF TableInv
  <2>5. CASE Enters(t)
    <3>1. /\ pc'[t] \in ReaderLabels => is_reader(q)
          /\ pc'[t] \in WriterLabels => ~ is_reader(q)
      <4>1. CASE is_reader(q)
        <5>1. Goto(t, "reading", {}) \/ Goto(t, "wait_read", {})
          BY <2>1, <4>1 DEF ReaderEnters, ReaderWaits
        <5>2. pc'[t] \in {"reading", "wait_read"}
          BY <1>0, <5>1, OthersStay DEF Labels
        <5>3. QED  BY <4>1, <5>2 DEF WriterLabels
      <4>2. CASE ~ is_reader(q)
        <5>1. Goto(t, "writing", {}) \/ Goto(t, "wait_write", {})
          BY <2>1, <4>2 DEF WriterEnters, WriterWaits
        <5>2. pc'[t] \in {"writing", "wait_write"}
          BY <1>0, <5>1, OthersStay DEF Labels
        <5>3. QED  BY <4>2, <5>2 DEF ReaderLabels
      <4>3. QED  BY <4>1, <4>2
    <3>2. pc'[t] \in {"reading", "writing"}
      BY <2>5, EntersFacts
    <3>3. QueryAtItsPlace' /\ FromTheTop'
      BY <2>1, <2>3, <2>5, <3>1, <3>2, EntersFacts, QueryInvKept
    <3>4. QED  BY <1>0, <2>2, <3>3 DEF TableInv
  <2>6. QED  BY <2>1, <2>4, <2>5 DEF Waits, Enters
<1>4. ASSUME NEW t \in Threads, GetsOn(t)
      PROVE  TableInv'
  <2>1. UNCHANGED <<table, query, row, lines>>
    BY <1>4 DEF GetsOn
  <2>2. TableTypeOK'
    BY <1>1, <2>1 DEF TableTypeOK, IsTable
  <2>3. pc[t] # "idle"
    BY <1>4 DEF GetsOn, ReaderWaitsAgain, ReaderEntersWoken, WriterWaitsAgain,
                WriterEntersWoken, SpuriousWakeup, ok_to_read, ok_to_write, At
  <2>4. CASE Waits(t)
    <3>1. row'[t] = 0 /\ lines'[t] = <<>>
      BY <1>1, <2>1, <2>4, WaitsFacts DEF FromTheTop
    <3>2. /\ pc'[t] \in ReaderLabels => query'[t] \in Queries /\ is_reader(query'[t])
          /\ pc'[t] \in WriterLabels => query'[t] \in Queries /\ ~ is_reader(query'[t])
      BY <1>1, <2>1, <2>3, <2>4, WaitsFacts DEF QueryAtItsPlace
    <3>3. QueryAtItsPlace' /\ FromTheTop'
      BY <2>1, <2>4, <3>1, <3>2, WaitsFacts, QueryInvKept
    <3>4. QED  BY <1>0, <2>2, <3>3 DEF TableInv
  <2>5. CASE Enters(t)
    <3>1. pc'[t] \in {"reading", "writing"}
      BY <2>5, EntersFacts
    <3>2. /\ pc'[t] \in ReaderLabels => pc[t] \in ReaderLabels
          /\ pc'[t] \in WriterLabels => pc[t] \in WriterLabels
      <4>1. CASE ReaderEnters(t) \/ ReaderEntersWoken(t)
        <5>1. pc'[t] = "reading"
          BY <2>5, <4>1, EntersFacts
        <5>2. pc[t] \in {"idle", "woken_read"}
          BY <4>1 DEF ReaderEnters, ReaderEntersWoken
        <5>3. QED  BY <2>3, <5>1, <5>2 DEF ReaderLabels, WriterLabels
      <4>2. CASE ~ (ReaderEnters(t) \/ ReaderEntersWoken(t))
        <5>1. pc'[t] = "writing"
          BY <2>5, <4>2, EntersFacts
        <5>2. pc[t] \in {"idle", "woken_write"}
          BY <2>5, <4>2 DEF Enters, WriterEnters, WriterEntersWoken
        <5>3. QED  BY <2>3, <5>1, <5>2 DEF ReaderLabels, WriterLabels
      <4>3. QED  BY <4>1, <4>2
    <3>3. /\ pc'[t] \in ReaderLabels => query'[t] \in Queries /\ is_reader(query'[t])
          /\ pc'[t] \in WriterLabels => query'[t] \in Queries /\ ~ is_reader(query'[t])
      BY <1>1, <2>1, <3>2 DEF QueryAtItsPlace
    <3>4. QueryAtItsPlace' /\ FromTheTop'
      BY <2>1, <2>5, <3>1, <3>3, EntersFacts, QueryInvKept
    <3>5. QED  BY <1>0, <2>2, <3>4 DEF TableInv
  <2>6. QED  BY <1>4, <2>4, <2>5 DEF GetsOn, Waits, Enters
<1>5. ASSUME NEW t \in Threads, \/ RespondFails(t)
                                \/ \E q \in Queries : ArrivesUndefined(t, q)
      PROVE  TableInv'
  <2>1. UNCHANGED <<pc, table, query, row, lines>>
    BY <1>5 DEF RespondFails, ArrivesUndefined
  <2>2. TableTypeOK' /\ QueryAtItsPlace' /\ FromTheTop'
    BY <1>1, <2>1 DEF TableTypeOK, IsTable, QueryAtItsPlace, FromTheTop, InRespond
  <2>3. QED  BY <1>0, <2>2 DEF TableInv
<1>6. ASSUME NEW t \in Threads, RespondRow(t)
      PROVE  TableInv'
  <2>1. PICK new, e :
          /\ InRespond(t) /\ row[t] < tnum_of_row
          /\ table' = [table EXCEPT ![row[t]] = new]
          /\ lines' = [lines EXCEPT ![t] = Append(@, e)] \/ lines' = lines
          /\ row' = [row EXCEPT ![t] = @ + 1]
          /\ UNCHANGED <<pc, query>>
    BY <1>6 DEF RespondRow
  <2>2. IsTable(table')
    BY <1>1, <2>1 DEF TableTypeOK, IsTable
  <2>3. row' \in [Threads -> 0 .. tnum_of_row]
    <3>1. row[t] + 1 \in 0 .. tnum_of_row
      BY <1>1, <2>1, TableAssumption DEF TableTypeOK
    <3>2. QED  BY <1>1, <2>1, <3>1 DEF TableTypeOK
  <2>4. IsList(Append(lines[t], e))
    <3>1. IsList(lines[t])
      BY <1>1 DEF TableTypeOK
    <3>2. QED  BY <3>1, AppendShifts
  <2>5. /\ lines' = [u \in Threads |-> lines'[u]]
        /\ \A u \in Threads : IsList(lines'[u])
        /\ \A u \in Threads \ {t} : lines'[u] = lines[u] /\ row'[u] = row[u]
    BY <1>1, <2>1, <2>4 DEF TableTypeOK
  <2>6. TableTypeOK'
    BY <1>1, <2>1, <2>2, <2>3, <2>5 DEF TableTypeOK, IsTable
  <2>7. QueryAtItsPlace'
    BY <1>1, <2>1 DEF QueryAtItsPlace
  <2>8. FromTheTop'
    BY <1>1, <2>1, <2>5 DEF FromTheTop, InRespond
  <2>9. QED  BY <1>0, <2>6, <2>7, <2>8 DEF TableInv
<1>7. ASSUME NEW t \in Threads, RespondEnds(t)
      PROVE  TableInv'
  <2>1. /\ ReaderLeaves(t) \/ WriterLeaves(t)
        /\ query' = [query EXCEPT ![t] = NoQuery]
        /\ row' = [row EXCEPT ![t] = 0]
        /\ lines' = [lines EXCEPT ![t] = <<>>]
        /\ UNCHANGED table
    BY <1>7 DEF RespondEnds
  <2>2. /\ row'[t] = 0 /\ lines'[t] = <<>>
        /\ \A u \in Threads \ {t} :
             query'[u] = query[u] /\ row'[u] = row[u] /\ lines'[u] = lines[u]
    BY <1>1, <2>1 DEF TableTypeOK
  <2>3. IsList(<<>>)
    <3>1. <<>> \in Seq({})
      OBVIOUS
    <3>2. QED  BY <3>1 DEF IsList
  <2>4. TableTypeOK'
    <3>1. 0 \in 0 .. tnum_of_row
      BY TableAssumption
    <3>2. row' \in [Threads -> 0 .. tnum_of_row]
      BY <1>1, <2>1, <3>1 DEF TableTypeOK
    <3>3. query' \in [Threads -> Queries \cup {NoQuery}]
      BY <1>1, <2>1 DEF TableTypeOK
    <3>4. lines' = [u \in Threads |-> lines'[u]]
      BY <1>1, <2>1 DEF TableTypeOK
    <3>5. \A u \in Threads : IsList(lines'[u])
      BY <1>1, <2>2, <2>3 DEF TableTypeOK
    <3>6. IsTable(table')
      BY <1>1, <2>1 DEF TableTypeOK
    <3>7. QED  BY <3>2, <3>3, <3>4, <3>5, <3>6 DEF TableTypeOK, IsTable
  <2>5. pc'[t] \notin ReaderLabels \cup WriterLabels
    BY <2>1, LeavesFacts DEF ReaderLabels, WriterLabels
  <2>6. QueryAtItsPlace' /\ FromTheTop'
    BY <2>1, <2>2, <2>5, LeavesFacts, QueryInvKept
  <2>7. QED  BY <1>0, <2>4, <2>6 DEF TableInv
<1>8. QED  BY <1>2, <1>3, <1>4, <1>5, <1>6, <1>7 DEF TSNext

LEMMA TableInvHolds == TSSpec => []TableInv
  BY TableInvInit, TableInvStep, PTL DEF TSSpec

-------------------------------------------------------------------------------
(* The server implements the atomic table                                  *)

\* At the end of the loop all of the response has been sent.
LEMMA EndFinishes ==
  ASSUME TableInv, TableInv', NEW t \in Threads, RespondEnds(t)
  PROVE  [Atomic!Next]_Atomic!atomicVars
<1> DEFINE q == query[t]
<1>1. /\ InRespond(t) /\ Valid(q) /\ row[t] = tnum_of_row
      /\ ReaderLeaves(t) \/ WriterLeaves(t)
      /\ UNCHANGED table
    BY DEF RespondEnds
<1>2. \A u \in Threads \ {t} :
         query'[u] = query[u] /\ row'[u] = row[u] /\ lines'[u] = lines[u]
  BY DEF RespondEnds, TableInv, TableTypeOK
<1>3. /\ pc'[t] = "idle"
      /\ \A u \in Threads \ {t} : /\ pc'[u] = "reading" <=> pc[u] = "reading"
                                  /\ pc'[u] = "writing" <=> pc[u] = "writing"
  BY <1>1, LeavesFacts
<1>4. /\ ResponseFrom(q, table, tnum_of_row) = <<>>
      /\ Updated(q, table, tnum_of_row) = table
  <2>1. IsTable(table)
    BY DEF TableInv, TableTypeOK
  <2>2. QED  BY <2>1, ResponseDone
<1>5. Settled' = Settled
  <2>1. SettledFact /\ SettledFact'
    <3>1. (TableInv => SettledFact)'
      BY SettledIs, PTL
    <3>2. QED  BY <3>1, SettledIs
  <2>2. CASE pc[t] = "writing"
    <3>1. Settled = table
      BY <1>1, <1>4, <2>1, <2>2 DEF SettledFact
    <3>2. \A u \in Threads : pc'[u] # "writing"
      BY <1>3, <2>2 DEF TableInv, IndInv, Exclusion
    <3>3. QED  BY <1>1, <2>1, <3>1, <3>2 DEF SettledFact
  <2>3. CASE pc[t] = "reading"
    <3>1. \A u \in Threads : pc[u] # "writing"
      BY <2>3 DEF TableInv, IndInv, Exclusion
    <3>2. \A u \in Threads : pc'[u] # "writing"
      BY <1>3, <3>1
    <3>3. QED  BY <1>1, <2>1, <3>1, <3>2 DEF SettledFact
  <2>4. QED  BY <1>1, <2>2, <2>3 DEF InRespond
<1>6. /\ Promised'[t] = <<>>
      /\ \A u \in Threads \ {t} : Promised'[u] = Promised[u]
      /\ Promised' = [u \in Threads |-> Promised'[u]]
  BY <1>1, <1>2, <1>3 DEF Promised, InRespond
<1>7. CASE Promised[t] # <<>>
  <2>1. Promised' = [Promised EXCEPT ![t] = <<>>]
    BY <1>6, PromisedIs
  <2>2. Atomic!Finish(t)
    BY <1>5, <1>7, <2>1 DEF Atomic!Finish
  <2>3. QED  BY <2>2 DEF Atomic!Next
<1>8. CASE Promised[t] = <<>>
  <2>1. Promised' = Promised
    BY <1>6, <1>8, PromisedIs
  <2>2. QED  BY <1>5, <2>1 DEF Atomic!atomicVars
<1>9. QED  BY <1>7, <1>8

LEMMA AtomicStep ==
  ASSUME TableInv, TableInv', [TSNext]_tsVars
  PROVE  [Atomic!Next]_Atomic!atomicVars
<1>1. ASSUME UNCHANGED <<Settled, Promised>>
      PROVE  [Atomic!Next]_Atomic!atomicVars
  BY <1>1 DEF Atomic!atomicVars
<1>2. CASE UNCHANGED tsVars
  <2>1. UNCHANGED <<pc, table, query, row, lines>>
    BY <1>2 DEF tsVars
  <2>2. QED  BY <1>1, <2>1, NothingDone
<1>3. ASSUME NEW t \in Threads, Waits(t), UNCHANGED <<table, row, lines>>,
             \A u \in Threads \ {t} : query'[u] = query[u]
      PROVE  [Atomic!Next]_Atomic!atomicVars
  <2>1. \A u \in Threads :
           /\ pc'[u] = "reading" <=> pc[u] = "reading"
           /\ pc'[u] = "writing" <=> pc[u] = "writing"
           /\ InRespond(u) => query'[u] = query[u]
    BY <1>3, WaitsFacts DEF InRespond
  <2>2. QED  BY <1>1, <1>3, <2>1, NothingDone
<1>4. ASSUME NEW t \in Threads, Enters(t), UNCHANGED <<table, row, lines>>,
             \A u \in Threads \ {t} : query'[u] = query[u]
      PROVE  [Atomic!Next]_Atomic!atomicVars
  BY <1>4, EntersFacts, EnteringAnswers
<1>5. ASSUME NEW t \in Threads, NEW q \in Queries, Arrives(t, q)
      PROVE  [Atomic!Next]_Atomic!atomicVars
  <2>1. UNCHANGED <<table, row, lines>>
    BY <1>5 DEF Arrives
  <2>2. \A u \in Threads \ {t} : query'[u] = query[u]
    BY <1>5 DEF Arrives, TableInv, TableTypeOK
  <2>3. Waits(t) \/ Enters(t)
    BY <1>5 DEF Arrives, Waits, Enters
  <2>4. QED  BY <1>3, <1>4, <2>1, <2>2, <2>3
<1>6. ASSUME NEW t \in Threads, GetsOn(t)
      PROVE  [Atomic!Next]_Atomic!atomicVars
  <2>1. UNCHANGED <<table, query, row, lines>>
    BY <1>6 DEF GetsOn
  <2>2. Waits(t) \/ Enters(t)
    BY <1>6 DEF GetsOn, Waits, Enters
  <2>3. QED  BY <1>3, <1>4, <2>1, <2>2
<1>7. ASSUME NEW t \in Threads, \/ RespondFails(t)
                                \/ \E q \in Queries : ArrivesUndefined(t, q)
      PROVE  [Atomic!Next]_Atomic!atomicVars
  <2>1. UNCHANGED <<pc, table, query, row, lines>>
    BY <1>7 DEF RespondFails, ArrivesUndefined
  <2>2. QED  BY <1>1, <2>1, NothingDone
<1>8. ASSUME NEW t \in Threads, RespondRow(t)
      PROVE  [Atomic!Next]_Atomic!atomicVars
  BY <1>1, <1>8, RowStutters
<1>9. ASSUME NEW t \in Threads, RespondEnds(t)
      PROVE  [Atomic!Next]_Atomic!atomicVars
  BY <1>9, EndFinishes
<1>10. QED  BY <1>2, <1>5, <1>6, <1>7, <1>8, <1>9 DEF TSNext

\* t_pool.c, reader_writer.c and sql.c together: however the row by row loops
\* of the threads interleave, every query is answered, and every update made,
\* as if all at once when its thread enters the table.
THEOREM TableIsAtomic == TSSpec => ImplementsAtomic
<1>1. TSInit => Atomic!Init
  <2> SUFFICES ASSUME TSInit PROVE Atomic!Init
    OBVIOUS
  <2>1. pc = [t \in Threads |-> "idle"] /\ table \in Tables
    BY DEF TSInit, RWInit
  <2>2. Settled = table
    BY <2>1 DEF Settled, At
  <2>3. Promised = [t \in Threads |-> <<>>]
    BY <2>1 DEF Promised, InRespond
  <2>4. QED  BY <2>1, <2>2, <2>3, AtomicTerms DEF Atomic!Init
<1>2. TableInv /\ TableInv' /\ [TSNext]_tsVars => [Atomic!Next]_Atomic!atomicVars
  BY AtomicStep
<1>3. QED
  BY <1>1, <1>2, TableInvHolds, PTL DEF TSSpec, ImplementsAtomic, Atomic!Spec
===============================================================================
