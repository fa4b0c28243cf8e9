----------------------------- MODULE HomeworkProofs -----------------------------
(***************************************************************************)
(* The safety of the two homework programs that pass things from hand to   *)
(* hand, for any number of hands.                                          *)
(*                                                                         *)
(* Part 1, hw3: for any number of players and any temperatures.  That a    *)
(* potato is in one place, that the count is never ahead of the cold       *)
(* potatoes and that the winner speaks the truth need each other: a throw  *)
(* kills nobody because the game is on while a potato is hot, the game is  *)
(* on because the count is not ahead, and the count is not because a       *)
(* potato becomes cold once, in one hand.                                  *)
(*                                                                         *)
(* Part 2, hw4: for every students file, homework file and sum of money.   *)
(* Three invariants rest on a fourth, Handover: where a homework can be    *)
(* between main's assignment and the student's return.                     *)
(***************************************************************************)
EXTENDS HotPotato, HomeworkMarket, DataTheorems

-------------------------------------------------------------------------------
(* Part 1: hw3.  The invariant of the game                                 *)

Points == {"start", "open", "count", "increment", "loop", "read", "received",
           "update", "tell", "post", "posted_over", "ended", "killed"}

PotatoTypeOK ==
  /\ at \in [Players -> Points] /\ opened \in [Players -> 0 .. num_of_line]
  /\ fifo \in [Players -> Seq(Players \cup {Over})]
  /\ hotness \in [Players -> Int] /\ cool_count \in Int
  /\ number_of_cool \in [Players -> Int] /\ sem \in {0, 1}
  /\ patato_id \in [Players -> Players]
  /\ current_patatoe_hot \in SUBSET Players

\* Who plays has opened all FIFOs.
Opening == \A p \in Players :
             /\ at[p] = "start" => opened[p] = 0
             /\ at[p] = "open" => opened[p] < num_of_line
             /\ at[p] \notin {"start", "open"} => opened[p] = num_of_line

\* A FIFO that is open at one end has been opened at the other.
Rendezvous ==
  \A p, i \in Players : opened[p] > i =>
    /\ p # i => at[i] # "start" /\ opened[i] >= i
    /\ p = i => \E q \in Players \ {p} : at[q] # "start" /\ opened[q] >= i

\* The semaphore lets one player at a time cool its potato.
AtSemaphore(p) == at[p] \in {"update", "tell", "post", "posted_over"}

OneAtSemaphore ==
  /\ sem = 1 => \A p \in Players : ~ AtSemaphore(p)
  /\ \A p, q \in Players : AtSemaphore(p) /\ AtSemaphore(q) => p = q

Hot(q)   == hotness[q] > 0
Holds(p) == p \in current_patatoe_hot /\ at[p] \notin {"read", "ended", "killed"}

\* A player brings its own potato, and does not join the game before the count
\* unless that is hot.
BeforeGame(p) ==
  /\ at[p] \in {"start", "open"} =>
       patato_id[p] = p /\ (p \in current_patatoe_hot <=> Hot(p))
  /\ at[p] \in {"count", "increment"} => p \notin current_patatoe_hot /\ ~ Hot(p)

\* No potato is in two places, a hot one is somewhere, a cold one nowhere.
Places ==
  /\ \A p \in Players : BeforeGame(p)
  /\ \A p \in Players : at[p] = "received" => p \in current_patatoe_hot
  /\ \A p \in Players : Holds(p) => Hot(patato_id[p])
  /\ \A p, r \in Players :
       Holds(p) /\ Holds(r) /\ patato_id[p] = patato_id[r] => p = r
  /\ \A p \in Players : \A i \in DOMAIN fifo[p] : fifo[p][i] # Over =>
       /\ Hot(fifo[p][i])
       /\ \A r \in Players : Holds(r) => patato_id[r] # fifo[p][i]
  /\ \A p, r \in Players : \A i \in DOMAIN fifo[p], j \in DOMAIN fifo[r] :
       fifo[p][i] # Over /\ fifo[p][i] = fifo[r][j] => p = r /\ i = j
  /\ \A q \in Players : Hot(q) =>
       \/ \E p \in Players : Holds(p) /\ patato_id[p] = q
       \/ \E p \in Players : \E i \in DOMAIN fifo[p] : fifo[p][i] = q

\* Potatoes that are cold and have been counted by whoever has seen them cool.
Counted == Cardinality(Cold) - Cardinality(BeingCounted)

\* Whoever has read the count and not written it back yet.
Counting(p) == \/ at[p] = "increment"
               \/ at[p] = "update" /\ p \notin current_patatoe_hot

Counts ==
  /\ cool_count <= Counted
  /\ trouble = {} => cool_count = Counted
  /\ \A p \in Players : Counting(p) => number_of_cool[p] <= Counted + 1
  /\ \A p \in Players : \/ number_of_cool[p] \in {Unset, num_of_line + 1}
                        \/ number_of_cool[p] <= Cardinality(Cold)

Done(p) == at[p] \in {"tell", "posted_over", "ended", "killed"}

\* The game is on, or the player w has found all potatoes cold and tells the
\* others, or has told them.
OnGoing ==
  \A p \in Players : ~ Done(p) /\ \A i \in DOMAIN fifo[p] : fifo[p][i] # Over

Finished(w) ==
  /\ Cold = Players /\ BeingCounted = {}
  /\ fifo[w] = <<>>
  /\ \/ /\ at[w] = "tell"
        /\ \A q \in Players \ {w} : ~ Done(q) /\ fifo[q] = <<>>
     \/ /\ at[w] \in {"posted_over", "ended"}
        /\ \A q \in Players \ {w} : \/ at[q] = "ended"
                                    \/ ~ Done(q) /\ fifo[q] = <<Over>>

Ending == OnGoing \/ \E w \in Players : Finished(w)

Game == /\ interrupt = {}
        /\ Rendezvous /\ OneAtSemaphore /\ Places /\ Counts /\ Ending

PotatoInv == PotatoTypeOK /\ Opening /\ (NobodyLeft => Game)

-------------------------------------------------------------------------------
(* Sequences, sets and counts                                              *)

LEMMA AppendAt ==
  ASSUME NEW S, NEW s \in Seq(S), NEW e \in S
  PROVE  /\ Append(s, e) \in Seq(S) /\ Append(s, e) # <<>>
         /\ Len(s) \in Nat /\ DOMAIN s = 1 .. Len(s)
         /\ DOMAIN Append(s, e) = 1 .. Len(s) + 1
         /\ \A i \in 1 .. Len(s) : Append(s, e)[i] = s[i]
         /\ Append(s, e)[Len(s) + 1] = e
  OBVIOUS

LEMMA TailAt ==
  ASSUME NEW S, NEW s \in Seq(S), s # <<>>
  PROVE  /\ Tail(s) \in Seq(S) /\ Head(s) \in S /\ Head(s) = s[1]
         /\ Len(s) \in Nat \ {0} /\ DOMAIN s = 1 .. Len(s)
         /\ DOMAIN Tail(s) = 1 .. Len(s) - 1
         /\ \A i \in 1 .. Len(s) - 1 : i + 1 \in DOMAIN s /\ Tail(s)[i] = s[i + 1]
  OBVIOUS

LEMMA InFifo ==
  ASSUME PotatoTypeOK, NEW r \in Players, NEW i \in DOMAIN fifo[r]
  PROVE  fifo[r][i] \in Players \cup {Over}
<1>1. fifo[r] \in Seq(Players \cup {Over})
  BY DEF PotatoTypeOK
<1>2. QED  BY <1>1

LEMMA PlayersFinite ==
  /\ IsFiniteSet(Players) /\ Cardinality(Players) = num_of_line
  /\ \A p \in Players : p \in Int /\ p >= 0 /\ p < num_of_line
  /\ num_of_line \in Nat /\ num_of_line >= 2
<1>1. num_of_line \in Nat /\ num_of_line >= 2
  BY PotatoAssumption
<1>2. IsFiniteSet(0 .. num_of_line - 1)
      /\ Cardinality(0 .. num_of_line - 1) = num_of_line
  <2>1. 0 \in Int /\ num_of_line - 1 \in Int /\ num_of_line - 1 - 0 + 1 = num_of_line
    BY <1>1
  <2>2. ~ (0 > num_of_line - 1)
    BY <1>1
  <2>3. QED  BY <2>1, <2>2, FS_Interval
<1>3. QED  BY <1>1, <1>2 DEF Players

LEMMA ColdFacts ==
  /\ IsFiniteSet(Cold) /\ IsFiniteSet(BeingCounted)
  /\ Cardinality(Cold) \in Nat /\ Cardinality(BeingCounted) \in Nat
  /\ Cardinality(Cold) <= num_of_line
  /\ Cardinality(Cold) = num_of_line => Cold = Players
  /\ BeingCounted # {} => Cardinality(BeingCounted) >= 1
  /\ \A p \in BeingCounted : Cardinality(BeingCounted) <= 1 => BeingCounted = {p}
  /\ Counted \in Int /\ Counted <= Cardinality(Cold)
<1>1. IsFiniteSet(Cold) /\ Cardinality(Cold) <= num_of_line
      /\ (Cardinality(Cold) = num_of_line => Cold = Players)
  <2>1. Cold \in SUBSET Players
    BY DEF Cold
  <2>2. QED  BY <2>1, PlayersFinite, FS_Subset
<1>2. IsFiniteSet(BeingCounted)
  <2>1. BeingCounted \in SUBSET Players
    BY DEF BeingCounted
  <2>2. QED  BY <2>1, PlayersFinite, FS_Subset
<1>3. Cardinality(Cold) \in Nat /\ Cardinality(BeingCounted) \in Nat
  BY <1>1, <1>2, FS_CardinalityType
<1>4. BeingCounted # {} => Cardinality(BeingCounted) # 0
  BY <1>2, FS_EmptySet
<1>5. ASSUME NEW p \in BeingCounted, Cardinality(BeingCounted) <= 1
      PROVE  BeingCounted = {p}
  <2>1. {p} \in SUBSET BeingCounted
    BY <1>5
  <2>2. Cardinality({p}) = 1
    BY FS_Singleton
  <2>3. Cardinality(BeingCounted) = 1
    BY <1>3, <1>4, <1>5
  <2>4. QED  BY <1>2, <2>1, <2>2, <2>3, FS_Subset
<1>6. QED  BY <1>1, <1>2, <1>3, <1>4, <1>5 DEF Counted

-------------------------------------------------------------------------------
(* Types, and who has opened what                                          *)

LEMMA PotatoTypeInit == PotatoInit => PotatoTypeOK /\ Opening
<1> SUFFICES ASSUME PotatoInit PROVE PotatoTypeOK /\ Opening
  OBVIOUS
<1>1. hotness \in [Players -> Int]
  BY PotatoAssumption DEF PotatoInit
<1>2. 0 \in 0 .. num_of_line
  BY PlayersFinite
<1>3. PotatoTypeOK
  <2>1. fifo \in [Players -> Seq(Players \cup {Over})]
    <3>1. <<>> \in Seq(Players \cup {Over})
      OBVIOUS
    <3>2. QED  BY <3>1 DEF PotatoInit
  <2>2. Unset \in Int
    BY DEF Unset
  <2>3. QED  BY <1>1, <1>2, <2>1, <2>2 DEF PotatoInit, PotatoTypeOK, Points
<1>4. Opening
  BY DEF PotatoInit, Opening
<1>5. QED  BY <1>3, <1>4

\* From one point of the game to another.
LEMMA Moves ==
  ASSUME PotatoTypeOK, Opening, opened' = opened, NEW p \in Players,
         NEW s \in Points \ {"start", "open"}, at[p] \notin {"start", "open"},
         at' = [at EXCEPT ![p] = s]
  PROVE  at' \in [Players -> Points] /\ Opening'
  BY DEF PotatoTypeOK, Opening

LEMMA PotatoTypeStep ==
  PotatoTypeOK /\ Opening /\ [PotatoNext]_potatoVars => PotatoTypeOK' /\ Opening'
<1> SUFFICES ASSUME PotatoTypeOK, Opening, [PotatoNext]_potatoVars
             PROVE  PotatoTypeOK' /\ Opening'
  OBVIOUS
<1> USE DEF PotatoTypeOK, Opening, shmVars, playerVars
<1>1. CASE UNCHANGED potatoVars
  BY <1>1 DEF potatoVars
<1>2. ASSUME NEW p \in Players, GetsSigint(p) PROVE PotatoTypeOK' /\ Opening'
  BY <1>2 DEF GetsSigint
<1>3. ASSUME NEW p \in Players, TakesFifo(p) PROVE PotatoTypeOK' /\ Opening'
  <2>1. opened[p] = 0 /\ 0 < num_of_line
    BY <1>3, PlayersFinite DEF TakesFifo, Goes
  <2>2. QED  BY <1>3, <2>1 DEF TakesFifo, Goes, Points
<1>4. ASSUME NEW p \in Players, OpensFifo(p) PROVE PotatoTypeOK' /\ Opening'
  <2>1. opened[p] < num_of_line /\ opened[p] \in 0 .. num_of_line
    BY <1>4 DEF OpensFifo
  <2>2. /\ opened[p] + 1 \in 0 .. num_of_line
        /\ ~ (opened[p] + 1 < num_of_line) => opened[p] + 1 = num_of_line
    BY <2>1, PlayersFinite
  <2>3. opened'[p] = opened[p] + 1 /\ opened' \in [Players -> 0 .. num_of_line]
        /\ \A q \in Players \ {p} : opened'[q] = opened[q]
    BY <1>4, <2>2 DEF OpensFifo
  <2>4. \/ opened'[p] < num_of_line /\ at' = [at EXCEPT ![p] = "open"]
        \/ /\ opened'[p] = num_of_line
           /\ \/ p \in current_patatoe_hot /\ at' = [at EXCEPT ![p] = "loop"]
              \/ p \notin current_patatoe_hot /\ at' = [at EXCEPT ![p] = "count"]
    <3>1. CASE opened'[p] < num_of_line
      BY <1>4, <3>1 DEF OpensFifo
    <3>2. CASE ~ (opened'[p] < num_of_line)
      BY <1>4, <2>2, <2>3, <3>2 DEF OpensFifo
    <3>3. QED  BY <3>1, <3>2
  <2>5. at' \in [Players -> Points]
        /\ \A q \in Players \ {p} : at'[q] = at[q]
    BY <2>4 DEF Points
  <2>6. Opening'
    BY <2>3, <2>4, <2>5
  <2>7. QED  BY <1>4, <2>3, <2>5, <2>6 DEF OpensFifo
<1>5. ASSUME NEW p \in Players, ReadsCount(p) \/ WritesCount(p)
      PROVE  PotatoTypeOK' /\ Opening'
  <2>1. CASE ReadsCount(p)
    <3>1. at' \in [Players -> Points] /\ Opening'
      BY <2>1, Moves DEF ReadsCount, Goes, Points
    <3>2. number_of_cool' \in [Players -> Int]
      BY <2>1 DEF ReadsCount
    <3>3. QED  BY <2>1, <3>1, <3>2 DEF ReadsCount
  <2>2. CASE WritesCount(p)
    <3>1. at' \in [Players -> Points] /\ Opening'
      BY <2>2, Moves DEF WritesCount, Goes, Points
    <3>2. QED  BY <2>2, <3>1 DEF WritesCount
  <2>3. QED  BY <1>5, <2>1, <2>2
<1>6. ASSUME NEW p \in Players, SeesInterrupt(p) \/ Posts(p)
      PROVE  PotatoTypeOK' /\ Opening'
  <2>1. <<>> \in Seq(Players \cup {Over})
    OBVIOUS
  <2>2. at' \in [Players -> Points] /\ Opening'
    BY <1>6, Moves DEF SeesInterrupt, Posts, Terminates, Goes, Points
  <2>3. fifo' = fifo \/ fifo' = [fifo EXCEPT ![p] = <<>>]
    BY <1>6 DEF SeesInterrupt, Posts, Terminates
  <2>4. fifo' \in [Players -> Seq(Players \cup {Over})]
    BY <2>1, <2>3
  <2>5. sem' \in {0, 1}
    BY <1>6 DEF SeesInterrupt, Posts
  <2>6. QED  BY <1>6, <2>2, <2>4, <2>5 DEF SeesInterrupt, Posts
<1>7. ASSUME NEW p \in Players, Throws(p) PROVE PotatoTypeOK' /\ Opening'
  <2>1. PICK q \in Players \ {p} :
          \/ /\ fifo' = [fifo EXCEPT ![q] = Append(@, patato_id[p])]
             /\ at' = [at EXCEPT ![p] = "read"]
          \/ /\ fifo' = [fifo EXCEPT ![p] = <<>>]
             /\ at' = [at EXCEPT ![p] = "killed"]
    BY <1>7 DEF Throws
  <2>2. /\ <<>> \in Seq(Players \cup {Over})
        /\ Append(fifo[q], patato_id[p]) \in Seq(Players \cup {Over})
    OBVIOUS
  <2>3. fifo' \in [Players -> Seq(Players \cup {Over})]
    BY <2>1, <2>2
  <2>4. at' \in [Players -> Points] /\ Opening'
    BY <1>7, <2>1, Moves DEF Throws, Points
  <2>5. QED  BY <1>7, <2>3, <2>4 DEF Throws
<1>8. ASSUME NEW p \in Players, ThrowsNothing(p) \/ ReadsEof(p)
      PROVE  PotatoTypeOK' /\ Opening'
  <2>1. CASE ThrowsNothing(p)
    <3>1. at' \in [Players -> Points] /\ Opening'
      BY <2>1, Moves DEF ThrowsNothing, Goes, Points
    <3>2. QED  BY <2>1, <3>1 DEF ThrowsNothing
  <2>2. CASE ReadsEof(p)
    <3>1. at' \in [Players -> Points] /\ Opening'
      BY <2>2, Moves DEF ReadsEof, Points
    <3>2. current_patatoe_hot' \in SUBSET Players
      BY <2>2 DEF ReadsEof
    <3>3. QED  BY <2>2, <3>1, <3>2 DEF ReadsEof
  <2>3. QED  BY <1>8, <2>1, <2>2
<1>9. ASSUME NEW p \in Players, ReadsFifo(p) PROVE PotatoTypeOK' /\ Opening'
  <2>1. /\ Tail(fifo[p]) \in Seq(Players \cup {Over})
        /\ Head(fifo[p]) \in Players \cup {Over}
        /\ <<>> \in Seq(Players \cup {Over})
    BY <1>9, TailAt DEF ReadsFifo
  <2>2. fifo' \in [Players -> Seq(Players \cup {Over})]
    <3>1. \/ fifo' = [fifo EXCEPT ![p] = Tail(fifo[p])]
          \/ fifo' = [fifo EXCEPT ![p] = <<>>]
      BY <1>9 DEF ReadsFifo, Terminates
    <3>2. QED  BY <2>1, <3>1
  <2>3. /\ patato_id' \in [Players -> Players]
        /\ current_patatoe_hot' \in SUBSET Players
    <3>1. CASE Head(fifo[p]) = Over
      BY <1>9, <3>1 DEF ReadsFifo
    <3>2. CASE Head(fifo[p]) # Over
      <4>1. Head(fifo[p]) \in Players
        BY <2>1, <3>2
      <4>2. /\ patato_id' = [patato_id EXCEPT ![p] = Head(fifo[p])]
            /\ current_patatoe_hot' = current_patatoe_hot \cup {p}
        BY <1>9, <3>2 DEF ReadsFifo
      <4>3. QED  BY <4>1, <4>2
    <3>3. QED  BY <3>1, <3>2
  <2>4. at' \in [Players -> Points] /\ Opening'
    BY <1>9 DEF ReadsFifo, Terminates, Points
  <2>5. QED  BY <1>9, <2>2, <2>3, <2>4 DEF ReadsFifo
<1>10. ASSUME NEW p \in Players, Cools(p) PROVE PotatoTypeOK' /\ Opening'
  <2>1. at' \in [Players -> Points] /\ Opening'
    BY <1>10, Moves DEF Cools, Goes, Points
  <2>2. hotness' \in [Players -> Int] /\ number_of_cool' \in [Players -> Int]
    <3>1. /\ hotness' = [hotness EXCEPT ![patato_id[p]] = @ - 1]
          /\ \/ number_of_cool' = number_of_cool
             \/ number_of_cool' = [number_of_cool EXCEPT ![p] = cool_count + 1]
      BY <1>10 DEF Cools
    <3>2. hotness[patato_id[p]] - 1 \in Int /\ cool_count + 1 \in Int
      OBVIOUS
    <3>3. QED  BY <3>1, <3>2
  <2>3. current_patatoe_hot' \in SUBSET Players /\ sem' \in {0, 1}
    BY <1>10 DEF Cools
  <2>4. QED  BY <1>10, <2>1, <2>2, <2>3 DEF Cools
<1>11. ASSUME NEW p \in Players, Updates(p) \/ ComparesUninitialised(p)
       PROVE  PotatoTypeOK' /\ Opening'
  <2>1. num_of_line \in Int /\ num_of_line + 1 \in Int
    BY PlayersFinite
  <2>2. at' \in [Players -> Points] /\ Opening'
    BY <1>11, Moves DEF Updates, ComparesUninitialised, Goes, Points
  <2>3. /\ number_of_cool' \in [Players -> Int] /\ cool_count' \in Int
        /\ sem' \in {0, 1}
    <3>1. CASE Updates(p)
      BY <2>1, <3>1 DEF Updates, StoresCount, Seen
    <3>2. CASE ComparesUninitialised(p)
      BY <2>1, <3>2 DEF ComparesUninitialised
    <3>3. QED  BY <1>11, <3>1, <3>2
  <2>4. QED  BY <1>11, <2>2, <2>3 DEF Updates, ComparesUninitialised
<1>12. ASSUME NEW p \in Players, TellsAll(p) PROVE PotatoTypeOK' /\ Opening'
  <2>1. \A q \in Players : /\ Append(fifo[q], Over) \in Seq(Players \cup {Over})
                           /\ <<>> \in Seq(Players \cup {Over})
    OBVIOUS
  <2>2. fifo' \in [Players -> Seq(Players \cup {Over})]
    BY <1>12, <2>1 DEF TellsAll
  <2>3. at' \in [Players -> Points] /\ Opening'
    BY <1>12 DEF TellsAll, Points
  <2>4. QED  BY <1>12, <2>2, <2>3 DEF TellsAll
<1>13. QED
  BY <1>1, <1>2, <1>3, <1>4, <1>5, <1>6, <1>7, <1>8, <1>9, <1>10, <1>11, <1>12
     DEF PotatoNext, Player

-------------------------------------------------------------------------------
(* What a step can do while nobody is gone                                 *)

\* With a hot potato about, the game is on.
LEMMA HotMeansOn ==
  ASSUME PotatoTypeOK, Game, NEW q \in Players, Hot(q)
  PROVE  OnGoing /\ Cold # Players
<1>1. q \notin Cold
  BY DEF PotatoTypeOK, Hot, Cold
<1>2. QED  BY <1>1 DEF Game, Ending, Finished

\* Only a -1 is in the FIFO.
LEMMA OverAlone ==
  /\ <<Over>> # <<>> /\ Head(<<Over>>) = Over /\ Tail(<<Over>>) = <<>>
  /\ DOMAIN <<Over>> = {1} /\ <<Over>>[1] = Over
  /\ Append(<<>>, Over) = <<Over>> /\ DOMAIN <<>> = {}
  /\ Over \notin Players
<1>1. <<Over>> # <<>>
  <2>1. Len(<<Over>>) = 1 /\ Len(<<>>) = 0
    OBVIOUS
  <2>2. QED  BY <2>1
<1>2. Over \notin Players
  BY DEF Over, Players
<1>3. DOMAIN <<Over>> = {1} /\ DOMAIN <<>> = {}
  OBVIOUS
<1>4. Append(<<>>, Over) = <<Over>> /\ Tail(<<Over>>) = <<>>
  OBVIOUS
<1>5. QED  BY <1>1, <1>2, <1>3, <1>4

\* Whoever tells the others has found all potatoes cold.
LEMMA Winner ==
  ASSUME Game, NEW p \in Players, at[p] \in {"tell", "posted_over"}
  PROVE  Finished(p)
<1>1. Done(p)
  BY DEF Done
<1>2. PICK w \in Players : Finished(w)
  BY <1>1 DEF Game, Ending, OnGoing
<1>3. w = p
  BY <1>1, <1>2 DEF Finished
<1>4. QED  BY <1>2, <1>3

\* A player that is in the game has a reader for each other FIFO, and a writer
\* for its own.
LEMMA Others ==
  ASSUME PotatoTypeOK, Opening, Rendezvous, NEW p \in Players,
         at[p] \notin {"start", "open"}
  PROVE  /\ \A q \in Players \ {p} : at[q] # "start" /\ opened[q] >= q
         /\ \E q \in Players \ {p} : at[q] # "start" /\ opened[q] >= p
<1>1. \A q \in Players : opened[p] > q
  BY PlayersFinite DEF Opening
<1>2. QED  BY <1>1 DEF Rendezvous

LEMMA ThrowIsRead ==
  ASSUME PotatoTypeOK, Opening, Game, NEW p \in Players, Throws(p)
  PROVE  /\ Holds(p) /\ Hot(patato_id[p])
         /\ \E q \in Players \ {p} :
              /\ fifo' = [fifo EXCEPT ![q] = Append(fifo[q], patato_id[p])]
              /\ at' = [at EXCEPT ![p] = "read"]
<1>1. Holds(p)
  BY DEF Throws, Holds
<1>2. Hot(patato_id[p]) /\ patato_id[p] \in Players
  BY <1>1 DEF Game, Places, PotatoTypeOK
<1>3. OnGoing
  BY <1>2, HotMeansOn
<1>4. \A q \in Players \ {p} : HasReader(q)
  <2>1. at[p] \notin {"start", "open"}
    BY DEF Throws
  <2>2. \A q \in Players \ {p} : at[q] # "start" /\ opened[q] >= q
    BY <2>1, Others DEF Game
  <2>3. QED  BY <2>2, <1>3 DEF HasReader, Alive, OnGoing, Done
<1>5. QED  BY <1>1, <1>2, <1>4 DEF Throws

LEMMA NoEof ==
  ASSUME PotatoTypeOK, Opening, Game, NEW p \in Players, ReadsEof(p)
  PROVE  FALSE
<1>1. at[p] = "read" /\ fifo[p] = <<>> /\ ~ HasWriter(p)
  BY DEF ReadsEof
<1>2. PICK q \in Players \ {p} : at[q] # "start" /\ opened[q] >= p
  BY <1>1, Others DEF Game
<1>3. at[q] \in {"ended", "killed"}
  BY <1>1, <1>2 DEF HasWriter, Alive
<1>4. ~ OnGoing
  BY <1>3 DEF OnGoing, Done
<1>5. PICK w \in Players : Finished(w)
  BY <1>4 DEF Game, Ending
<1>6. p # w /\ ~ Done(p)
  BY <1>1, <1>5 DEF Finished, Done
<1>7. CASE at[w] = "tell"
  BY <1>3, <1>5, <1>7 DEF Finished, Done
<1>8. CASE at[w] # "tell"
  <2>1. fifo[p] = <<Over>>
    BY <1>1, <1>5, <1>6, <1>8 DEF Finished
  <2>2. QED  BY <1>1, <2>1, OverAlone
<1>9. QED  BY <1>7, <1>8

LEMMA AllAreTold ==
  ASSUME PotatoTypeOK, Opening, Game, NEW p \in Players, TellsAll(p)
  PROVE  /\ Finished(p) /\ at[p] = "tell"
         /\ at' = [at EXCEPT ![p] = "posted_over"]
         /\ fifo' = [q \in Players |-> IF q = p THEN fifo[q]
                                       ELSE Append(fifo[q], Over)]
<1>1. at[p] = "tell"
  BY DEF TellsAll
<1>2. Finished(p)
  BY <1>1, Winner
<1>3. {q \in Players \ {p} : ~ HasReader(q)} = {}
  <2>1. \A q \in Players \ {p} : at[q] # "start" /\ opened[q] >= q
    BY <1>1, Others DEF Game
  <2>2. \A q \in Players \ {p} : ~ Done(q)
    BY <1>1, <1>2 DEF Finished
  <2>3. QED  BY <2>1, <2>2 DEF HasReader, Alive, Done
<1>4. at' = [at EXCEPT ![p] = "posted_over"]
  BY <1>3 DEF TellsAll
<1>5. {q \in Players \ {p} : \A g \in {r \in Players \ {p} : ~ HasReader(r)} : q < g}
        = Players \ {p}
  BY <1>3
<1>6. fifo' = [q \in Players |->
                 IF q \in Players \ {p} THEN Append(fifo[q], Over)
                 ELSE IF q = p /\ {} # {} THEN <<>> ELSE fifo[q]]
  BY <1>3, <1>5, Zenon DEF TellsAll
<1>7. fifo' = [q \in Players |-> IF q = p THEN fifo[q] ELSE Append(fifo[q], Over)]
  BY <1>6
<1>8. QED  BY <1>1, <1>2, <1>4, <1>7

\* What the players do while nobody is gone.
CalmStep(p) == \/ TakesFifo(p) \/ OpensFifo(p) \/ ReadsCount(p) \/ WritesCount(p)
               \/ Throws(p) \/ ThrowsNothing(p) \/ ReadsFifo(p) \/ Cools(p)
               \/ Updates(p) \/ TellsAll(p) \/ Posts(p)

LEMMA CalmSteps ==
  ASSUME PotatoTypeOK, Opening, Game, PotatoNext, NobodyLeft'
  PROVE  /\ \E p \in Players : CalmStep(p)
         /\ interrupt' = {}
<1>1. interrupt = {}
  BY DEF Game
<1>2. PICK p \in Players : Player(p) \/ GetsSigint(p)
  BY DEF PotatoNext
<1>3. ~ GetsSigint(p) /\ ~ ComparesUninitialised(p)
  BY DEF GetsSigint, ComparesUninitialised, NobodyLeft
<1>4. ~ SeesInterrupt(p)
  BY <1>1 DEF SeesInterrupt
<1>5. ~ ReadsEof(p)
  BY NoEof
<1>6. CalmStep(p)
  BY <1>2, <1>3, <1>4, <1>5 DEF Player, CalmStep
<1>7. interrupt' = interrupt
  BY <1>6 DEF CalmStep, TakesFifo, OpensFifo, ReadsCount, WritesCount, Throws,
              ThrowsNothing, ReadsFifo, Cools, Updates, TellsAll, Posts
<1>8. QED  BY <1>1, <1>6, <1>7

-------------------------------------------------------------------------------
(* The FIFOs' ends and the semaphore                                       *)

LEMMA RendezvousFrame ==
  ASSUME Rendezvous, opened' = opened,
         \A p \in Players : at[p] # "start" => at'[p] # "start"
  PROVE  Rendezvous'
  BY DEF Rendezvous

LEMMA RendezvousStep ==
  ASSUME PotatoTypeOK, Opening, Game, NEW p \in Players, CalmStep(p)
  PROVE  Rendezvous'
<1>1. Rendezvous
  BY DEF Game
<1>2. CASE OpensFifo(p)
  <2>1. PICK q \in Players \ {p} :
          /\ q = opened[p] \/ p = opened[p]
          /\ at[q] # "start" /\ opened[q] >= opened[p]
    BY <1>2 DEF OpensFifo
  <2>2. /\ opened'[p] = opened[p] + 1
        /\ \A r \in Players \ {p} : opened'[r] = opened[r]
        /\ \A r \in Players : opened'[r] >= opened[r]
        /\ \A r \in Players : opened[r] \in Int
    <3>1. opened' = [opened EXCEPT ![p] = @ + 1]
      BY <1>2 DEF OpensFifo
    <3>2. \A r \in Players : opened[r] \in Int /\ r \in DOMAIN opened
      BY DEF PotatoTypeOK
    <3>3. /\ opened'[p] = opened[p] + 1
          /\ \A r \in Players \ {p} : opened'[r] = opened[r]
      BY <3>1, <3>2
    <3>4. QED  BY <3>2, <3>3
  <2>3. \A r \in Players : at[r] # "start" => at'[r] # "start"
    BY <1>2 DEF OpensFifo, PotatoTypeOK
  <2>4. ASSUME NEW r \in Players, NEW i \in Players, opened'[r] > i
        PROVE  /\ r # i => at'[i] # "start" /\ opened'[i] >= i
               /\ r = i => \E s \in Players \ {r} :
                             at'[s] # "start" /\ opened'[s] >= i
    <3>1. i \in Int
      BY PlayersFinite
    <3>2. CASE opened[r] > i
      <4>1. r # i => at[i] # "start" /\ opened[i] >= i
        BY <1>1, <3>2 DEF Rendezvous
      <4>2. r = i => \E s \in Players \ {r} : at[s] # "start" /\ opened[s] >= i
        BY <1>1, <3>2 DEF Rendezvous
      <4>3. \A s \in Players : opened[s] >= i => opened'[s] >= i
        <5>1. \A s \in Players : opened'[s] \in Int
          BY <2>2
        <5>2. QED  BY <2>2, <3>1, <5>1
      <4>4. QED  BY <2>3, <4>1, <4>2, <4>3
    <3>3. CASE ~ (opened[r] > i)
      <4>1. r = p /\ i = opened[p]
        BY <2>2, <2>4, <3>1, <3>3
      <4>2. at'[q] # "start" /\ opened'[q] >= i
        BY <2>1, <2>2, <2>3, <4>1
      <4>3. QED  BY <2>1, <4>1, <4>2
    <3>4. QED  BY <3>2, <3>3
  <2>5. QED  BY <2>4 DEF Rendezvous
<1>3. CASE ~ OpensFifo(p)
  <2>1. opened' = opened
    BY <1>3 DEF CalmStep, TakesFifo, ReadsCount, WritesCount, Throws,
                ThrowsNothing, ReadsFifo, Cools, Updates, TellsAll, Posts
  <2>2. \E s \in Points \ {"start"} : at' = [at EXCEPT ![p] = s]
    <3>1. CASE Throws(p)
      BY <3>1, ThrowIsRead DEF Points
    <3>2. CASE TellsAll(p)
      BY <3>2, AllAreTold DEF Points
    <3>3. CASE ~ Throws(p) /\ ~ TellsAll(p)
      BY <1>3, <3>3 DEF CalmStep, TakesFifo, ReadsCount, WritesCount, Terminates,
            ThrowsNothing, ReadsFifo, Cools, Updates, Posts, Goes, Points
    <3>4. QED  BY <3>1, <3>2, <3>3
  <2>3. \A r \in Players : at[r] # "start" => at'[r] # "start"
    BY <2>2 DEF PotatoTypeOK
  <2>4. QED  BY <1>1, <2>1, <2>3, RendezvousFrame
<1>4. QED  BY <1>2, <1>3

LEMMA SemaphoreFrame ==
  ASSUME OneAtSemaphore, sem' = sem,
         \A p \in Players : AtSemaphore(p)' => AtSemaphore(p)
  PROVE  OneAtSemaphore'
  BY DEF OneAtSemaphore

LEMMA SemaphoreStep ==
  ASSUME PotatoTypeOK, Opening, Game, NEW p \in Players, CalmStep(p)
  PROVE  OneAtSemaphore'
<1> USE DEF PotatoTypeOK
<1>1. OneAtSemaphore
  BY DEF Game
<1>2. CASE Cools(p)
  <2>1. sem = 1 /\ sem' = 0 /\ at' = [at EXCEPT ![p] = "update"]
    BY <1>2 DEF Cools, Goes
  <2>2. \A q \in Players \ {p} : ~ AtSemaphore(q)'
    BY <1>1, <2>1 DEF OneAtSemaphore, AtSemaphore
  <2>3. QED  BY <2>1, <2>2 DEF OneAtSemaphore
<1>3. CASE Posts(p)
  <2>1. /\ AtSemaphore(p)
        /\ \E s \in {"loop", "ended"} : at' = [at EXCEPT ![p] = s]
    BY <1>3 DEF Posts, Goes, Terminates, AtSemaphore
  <2>2. \A q \in Players : ~ AtSemaphore(q)'
    BY <1>1, <2>1 DEF OneAtSemaphore, AtSemaphore
  <2>3. QED  BY <2>2 DEF OneAtSemaphore
<1>4. CASE ~ Cools(p) /\ ~ Posts(p)
  <2>1. sem' = sem
    BY <1>4 DEF CalmStep, TakesFifo, OpensFifo, ReadsCount, WritesCount, Throws,
                ThrowsNothing, ReadsFifo, Updates, TellsAll
  <2>2. CASE Updates(p) \/ TellsAll(p)
    <3>1. AtSemaphore(p) /\ \E s \in Points : at' = [at EXCEPT ![p] = s]
      <4>1. CASE Updates(p)
        BY <4>1 DEF Updates, Goes, AtSemaphore, Points
      <4>2. CASE TellsAll(p)
        BY <4>2, AllAreTold DEF AtSemaphore, Points
      <4>3. QED  BY <2>2, <4>1, <4>2
    <3>2. \A q \in Players : AtSemaphore(q)' => AtSemaphore(q)
      BY <3>1 DEF AtSemaphore
    <3>3. QED  BY <1>1, <2>1, <3>2, SemaphoreFrame
  <2>3. CASE ~ Updates(p) /\ ~ TellsAll(p)
    <3>1. \E s \in {"open", "count", "increment", "loop", "read", "received",
                    "ended"} : at' = [at EXCEPT ![p] = s]
      <4>1. CASE Throws(p)
        BY <4>1, ThrowIsRead
      <4>2. CASE ~ Throws(p)
        BY <1>4, <2>3, <4>2 DEF CalmStep, TakesFifo, OpensFifo, ReadsCount,
              WritesCount, ThrowsNothing, ReadsFifo, Terminates, Goes
      <4>3. QED  BY <4>1, <4>2
    <3>2. \A q \in Players : AtSemaphore(q)' => AtSemaphore(q)
      BY <3>1 DEF AtSemaphore
    <3>3. QED  BY <1>1, <2>1, <3>2, SemaphoreFrame
  <2>4. QED  BY <2>2, <2>3
<1>5. QED  BY <1>2, <1>3, <1>4

-------------------------------------------------------------------------------
(* Where the potatoes are                                                  *)

\* Steps that leave every potato where it is.
LEMMA PlacesFrame ==
  ASSUME PotatoTypeOK, Places, patato_id' = patato_id,
         \A q \in Players : hotness'[q] > 0 <=> Hot(q),
         \A r \in Players : Holds(r)' <=> Holds(r),
         \A r \in Players : BeforeGame(r)',
         \A r \in Players : at'[r] = "received" => r \in current_patatoe_hot',
         \A r \in Players : \A i \in DOMAIN fifo'[r] :
           fifo'[r][i] # Over => i \in DOMAIN fifo[r] /\ fifo[r][i] = fifo'[r][i],
         \A r \in Players : \A i \in DOMAIN fifo[r] :
           fifo[r][i] # Over => i \in DOMAIN fifo'[r] /\ fifo'[r][i] = fifo[r][i]
  PROVE  Places'
<1>1. /\ \A r \in Players : patato_id[r] \in Players
      /\ \A r \in Players : \A i \in DOMAIN fifo[r] :
           fifo[r][i] \in Players \cup {Over}
  BY InFifo DEF PotatoTypeOK
<1>2. \A r \in Players : Holds(r)' => hotness'[patato_id'[r]] > 0
  BY <1>1 DEF Places
<1>3. \A r, s \in Players :
        Holds(r)' /\ Holds(s)' /\ patato_id'[r] = patato_id'[s] => r = s
  BY DEF Places
<1>4. \A r \in Players : \A i \in DOMAIN fifo'[r] : fifo'[r][i] # Over =>
        /\ hotness'[fifo'[r][i]] > 0
        /\ \A s \in Players : Holds(s)' => patato_id'[s] # fifo'[r][i]
  BY <1>1 DEF Places
<1>5. \A r, s \in Players : \A i \in DOMAIN fifo'[r], j \in DOMAIN fifo'[s] :
        fifo'[r][i] # Over /\ fifo'[r][i] = fifo'[s][j] => r = s /\ i = j
  BY DEF Places
<1>6. ASSUME NEW q \in Players, hotness'[q] > 0
      PROVE  \/ \E r \in Players : Holds(r)' /\ patato_id'[r] = q
             \/ \E r \in Players : \E i \in DOMAIN fifo'[r] : fifo'[r][i] = q
  <2>1. q # Over
    BY OverAlone
  <2>2. \/ \E r \in Players : Holds(r) /\ patato_id[r] = q
        \/ \E r \in Players : \E i \in DOMAIN fifo[r] : fifo[r][i] = q
    BY <1>1, <1>6 DEF Places
  <2>3. QED  BY <2>1, <2>2
<1>7. QED  BY <1>2, <1>3, <1>4, <1>5, <1>6 DEF Places, Hot

\* The potato flies: it leaves the hand for the end of a FIFO.
LEMMA PlacesThrow ==
  ASSUME PotatoTypeOK, Opening, Game, NEW p \in Players, Throws(p)
  PROVE  Places'
<1>1. Places
  BY DEF Game
<1>0. \A r \in Players : \A i \in DOMAIN fifo[r] : fifo[r][i] # Over =>
        \A s \in Players : Holds(s) => patato_id[s] # fifo[r][i]
  BY <1>1 DEF Places
<1> USE DEF PotatoTypeOK
<1> DEFINE x == patato_id[p]
<1>2. PICK q \in Players \ {p} :
        /\ fifo' = [fifo EXCEPT ![q] = Append(fifo[q], x)]
        /\ at' = [at EXCEPT ![p] = "read"]
  BY ThrowIsRead
<1>3. Holds(p) /\ Hot(x) /\ x \in Players /\ x # Over
  BY ThrowIsRead, OverAlone
<1>4. at[p] = "loop" /\ patato_id' = patato_id /\ hotness' = hotness
      /\ current_patatoe_hot' = current_patatoe_hot
  BY DEF Throws, shmVars, playerVars
<1>5. \A r \in Players : Holds(r)' <=> Holds(r) /\ r # p
  BY <1>2, <1>4 DEF Holds
<1>6. \A r : hotness'[r] > 0 <=> Hot(r)
  BY <1>4 DEF Hot
<1>7. ASSUME NEW r \in Players, NEW i \in DOMAIN fifo[r] PROVE fifo[r][i] # x
  <2>1. fifo[r][i] # Over =>
          \A s \in Players : Holds(s) => patato_id[s] # fifo[r][i]
    BY <1>0
  <2>2. QED  BY <1>3, <2>1
<1>8. /\ \A i \in DOMAIN fifo'[q] :
           \/ i \in DOMAIN fifo[q] /\ fifo'[q][i] = fifo[q][i]
           \/ i = Len(fifo[q]) + 1 /\ fifo'[q][i] = x
      /\ \A i \in DOMAIN fifo[q] :
           i \in DOMAIN fifo'[q] /\ fifo'[q][i] = fifo[q][i]
      /\ Len(fifo[q]) + 1 \in DOMAIN fifo'[q]
      /\ fifo'[q][Len(fifo[q]) + 1] = x
  <2>1. fifo'[q] = Append(fifo[q], x)
    BY <1>2
  <2>2. /\ DOMAIN Append(fifo[q], x) = 1 .. Len(fifo[q]) + 1
        /\ DOMAIN fifo[q] = 1 .. Len(fifo[q]) /\ Len(fifo[q]) \in Nat
        /\ \A i \in 1 .. Len(fifo[q]) : Append(fifo[q], x)[i] = fifo[q][i]
        /\ Append(fifo[q], x)[Len(fifo[q]) + 1] = x
    BY <1>3, AppendAt
  <2>3. QED  BY <2>1, <2>2
<1>9. \A r \in Players \ {q} : fifo'[r] = fifo[r]
  BY <1>2
<1> HIDE DEF x, PotatoTypeOK
<1>10. \A r \in Players : BeforeGame(r)'
  <2>1. \A r \in Players : at'[r] = at[r] \/ at'[r] = "read"
    BY <1>2 DEF PotatoTypeOK
  <2>2. QED  BY <1>1, <1>4, <1>6, <2>1 DEF Places, BeforeGame, Hot
<1>11. \A r \in Players : at'[r] = "received" => r \in current_patatoe_hot'
  BY <1>1, <1>2, <1>4 DEF Places, PotatoTypeOK
<1>12. \A r \in Players : Holds(r)' => hotness'[patato_id'[r]] > 0
  BY <1>1, <1>4, <1>5, <1>6 DEF Places
<1>13. \A r, s \in Players :
         Holds(r)' /\ Holds(s)' /\ patato_id'[r] = patato_id'[s] => r = s
  BY <1>1, <1>4, <1>5 DEF Places
<1>14. ASSUME NEW r \in Players, NEW i \in DOMAIN fifo'[r], fifo'[r][i] # Over
       PROVE  /\ hotness'[fifo'[r][i]] > 0
              /\ \A s \in Players : Holds(s)' => patato_id'[s] # fifo'[r][i]
  <2>1. CASE i \in DOMAIN fifo[r] /\ fifo'[r][i] = fifo[r][i]
    BY <1>1, <1>4, <1>5, <1>6, <1>14, <2>1 DEF Places
  <2>2. CASE fifo'[r][i] = x
    <3>1. \A s \in Players : Holds(s) /\ patato_id[s] = x => s = p
      BY <1>1, <1>3 DEF Places, x
    <3>2. QED  BY <1>3, <1>4, <1>5, <1>6, <2>2, <3>1
  <2>3. QED  BY <1>8, <1>9, <2>1, <2>2
<1>15. \A r, s \in Players : \A i \in DOMAIN fifo'[r], j \in DOMAIN fifo'[s] :
         fifo'[r][i] # Over /\ fifo'[r][i] = fifo'[s][j] => r = s /\ i = j
  BY <1>1, <1>7, <1>8, <1>9 DEF Places
<1>16. ASSUME NEW k \in Players, hotness'[k] > 0
       PROVE  \/ \E r \in Players : Holds(r)' /\ patato_id'[r] = k
              \/ \E r \in Players : \E i \in DOMAIN fifo'[r] : fifo'[r][i] = k
  <2>1. \/ \E r \in Players : Holds(r) /\ patato_id[r] = k
        \/ \E r \in Players : \E i \in DOMAIN fifo[r] : fifo[r][i] = k
    BY <1>1, <1>6, <1>16 DEF Places, Hot
  <2>2. CASE k = x
    BY <1>8, <2>2
  <2>3. CASE k # x
    BY <1>4, <1>5, <1>8, <1>9, <2>1, <2>3 DEF x
  <2>4. QED  BY <2>2, <2>3
<1>17. QED  BY <1>10, <1>11, <1>12, <1>13, <1>14, <1>15, <1>16 DEF Places, Hot

\* It is caught: from the head of the FIFO to the hand.
LEMMA PlacesCatch ==
  ASSUME PotatoTypeOK, Opening, Game, NEW p \in Players, ReadsFifo(p),
         Head(fifo[p]) # Over
  PROVE  Places'
<1> USE DEF PotatoTypeOK
<1> DEFINE x == Head(fifo[p])
<1>1. Places
  BY DEF Game
<1>2. /\ at[p] = "read" /\ fifo[p] # <<>> /\ hotness' = hotness
      /\ fifo' = [fifo EXCEPT ![p] = Tail(fifo[p])]
      /\ patato_id' = [patato_id EXCEPT ![p] = x]
      /\ current_patatoe_hot' = current_patatoe_hot \cup {p}
      /\ at' = [at EXCEPT ![p] = "received"]
  BY DEF ReadsFifo, shmVars
<1>3. /\ x \in Players /\ x # Over
      /\ 1 \in DOMAIN fifo[p] /\ fifo[p][1] = x
      /\ \A i \in DOMAIN fifo'[p] :
           i + 1 \in DOMAIN fifo[p] /\ fifo'[p][i] = fifo[p][i + 1]
           /\ i + 1 # 1 /\ i \in Int
      /\ \A i \in DOMAIN fifo[p] :
           i # 1 => i - 1 \in DOMAIN fifo'[p] /\ fifo'[p][i - 1] = fifo[p][i]
  <2>1. /\ Head(fifo[p]) \in Players \cup {Over} /\ Head(fifo[p]) = fifo[p][1]
        /\ Len(fifo[p]) \in Nat \ {0} /\ DOMAIN fifo[p] = 1 .. Len(fifo[p])
        /\ DOMAIN Tail(fifo[p]) = 1 .. Len(fifo[p]) - 1
        /\ \A i \in 1 .. Len(fifo[p]) - 1 :
             i + 1 \in DOMAIN fifo[p] /\ Tail(fifo[p])[i] = fifo[p][i + 1]
    BY <1>2, TailAt
  <2>2. fifo'[p] = Tail(fifo[p])
    BY <1>2
  <2>3. \A i \in 1 .. Len(fifo[p]) :
          i # 1 => i - 1 \in 1 .. Len(fifo[p]) - 1 /\ (i - 1) + 1 = i
    BY <2>1
  <2>4. /\ 1 \in 1 .. Len(fifo[p])
        /\ \A i \in 1 .. Len(fifo[p]) - 1 : i + 1 # 1 /\ i \in Int
    BY <2>1
  <2>5. x \in Players /\ x # Over
    BY <2>1
  <2>6. 1 \in DOMAIN fifo[p] /\ fifo[p][1] = x
    BY <2>1, <2>4
  <2>7. \A i \in DOMAIN fifo'[p] :
           i + 1 \in DOMAIN fifo[p] /\ fifo'[p][i] = fifo[p][i + 1]
           /\ i + 1 # 1 /\ i \in Int
    BY <2>1, <2>2, <2>4
  <2>8. ASSUME NEW i \in DOMAIN fifo[p], i # 1
        PROVE  i - 1 \in DOMAIN fifo'[p] /\ fifo'[p][i - 1] = fifo[p][i]
    <3>1. i - 1 \in 1 .. Len(fifo[p]) - 1 /\ (i - 1) + 1 = i
      BY <2>1, <2>3, <2>8
    <3>2. Tail(fifo[p])[i - 1] = fifo[p][(i - 1) + 1]
      BY <2>1, <3>1
    <3>3. QED  BY <2>1, <2>2, <3>1, <3>2
  <2>9. QED  BY <2>5, <2>6, <2>7, <2>8, Zenon
<1>4. \A r \in Players \ {p} : fifo'[r] = fifo[r] /\ at'[r] = at[r]
        /\ patato_id'[r] = patato_id[r]
  BY <1>2
<1>5. at'[p] = "received" /\ patato_id'[p] = x
  BY <1>2
<1>6. /\ \A r \in Players : Holds(r)' <=> Holds(r) \/ r = p
      /\ ~ Holds(p)
  BY <1>2 DEF Holds
<1>7. \A r : hotness'[r] > 0 <=> Hot(r)
  BY <1>2 DEF Hot
<1>8. Hot(x) /\ \A s \in Players : Holds(s) => patato_id[s] # x
  BY <1>1, <1>3 DEF Places
<1>9. \A r \in Players : \A i \in DOMAIN fifo[r] :
        fifo[r][i] = x => r = p /\ i = 1
  BY <1>1, <1>3 DEF Places
<1> HIDE DEF x, PotatoTypeOK
<1>10. \A r \in Players : BeforeGame(r)'
  <2>1. BeforeGame(p)'
    BY <1>5 DEF BeforeGame
  <2>2. ASSUME NEW r \in Players \ {p} PROVE BeforeGame(r)'
    <3>1. r \in current_patatoe_hot' <=> r \in current_patatoe_hot
      BY <1>2
    <3>2. BeforeGame(r)
      BY <1>1 DEF Places
    <3>3. QED  BY <1>4, <1>7, <3>1, <3>2 DEF BeforeGame, Hot
  <2>3. QED  BY <2>1, <2>2
<1>11. \A r \in Players : at'[r] = "received" => r \in current_patatoe_hot'
  BY <1>1, <1>2, <1>4 DEF Places
<1>12. \A r \in Players : Holds(r)' => hotness'[patato_id'[r]] > 0
  BY <1>1, <1>4, <1>5, <1>6, <1>7, <1>8 DEF Places
<1>13. \A r, s \in Players :
         Holds(r)' /\ Holds(s)' /\ patato_id'[r] = patato_id'[s] => r = s
  BY <1>1, <1>4, <1>5, <1>6, <1>8 DEF Places
<1>14. ASSUME NEW r \in Players, NEW i \in DOMAIN fifo'[r], fifo'[r][i] # Over
       PROVE  /\ hotness'[fifo'[r][i]] > 0
              /\ \A s \in Players : Holds(s)' => patato_id'[s] # fifo'[r][i]
  <2>1. \E j \in DOMAIN fifo[r] : fifo[r][j] = fifo'[r][i] /\ (r = p => j # 1)
    BY <1>3, <1>4
  <2>2. PICK j \in DOMAIN fifo[r] : fifo[r][j] = fifo'[r][i] /\ (r = p => j # 1)
    BY <2>1
  <2>3. Hot(fifo[r][j]) /\ \A s \in Players : Holds(s) => patato_id[s] # fifo[r][j]
    BY <1>1, <1>14, <2>2 DEF Places
  <2>4. fifo[r][j] # x
    BY <1>9, <2>2
  <2>5. QED  BY <1>4, <1>5, <1>6, <1>7, <2>2, <2>3, <2>4
<1>15. ASSUME NEW r \in Players, NEW s \in Players,
              NEW i \in DOMAIN fifo'[r], NEW j \in DOMAIN fifo'[s],
              fifo'[r][i] # Over, fifo'[r][i] = fifo'[s][j]
       PROVE  r = s /\ i = j
  <2>1. PICK k \in DOMAIN fifo[r] : /\ fifo[r][k] = fifo'[r][i]
                                    /\ IF r = p THEN k = i + 1 /\ i \in Int
                                       ELSE k = i
    BY <1>3, <1>4
  <2>2. PICK l \in DOMAIN fifo[s] : /\ fifo[s][l] = fifo'[s][j]
                                    /\ IF s = p THEN l = j + 1 /\ j \in Int
                                       ELSE l = j
    BY <1>3, <1>4
  <2>3. r = s /\ k = l
    BY <1>1, <1>15, <2>1, <2>2 DEF Places
  <2>4. QED  BY <2>1, <2>2, <2>3
<1>16. ASSUME NEW k \in Players, hotness'[k] > 0
       PROVE  \/ \E r \in Players : Holds(r)' /\ patato_id'[r] = k
              \/ \E r \in Players : \E i \in DOMAIN fifo'[r] : fifo'[r][i] = k
  <2>1. \/ \E r \in Players : Holds(r) /\ patato_id[r] = k
        \/ \E r \in Players : \E i \in DOMAIN fifo[r] : fifo[r][i] = k
    BY <1>1, <1>7, <1>16 DEF Places, Hot
  <2>2. CASE k = x
    BY <1>5, <1>6, <2>2
  <2>3. CASE k # x
    BY <1>3, <1>4, <1>6, <2>1, <2>3
  <2>4. QED  BY <2>2, <2>3
<1>17. QED  BY <1>10, <1>11, <1>12, <1>13, <1>14, <1>15, <1>16 DEF Places, Hot

\* It cools in the hand, and is put down if it is cold.
LEMMA CoolsOne ==
  ASSUME PotatoTypeOK, Opening, Game, NEW p \in Players, Cools(p)
  PROVE  /\ at[p] = "received" /\ at' = [at EXCEPT ![p] = "update"]
         /\ patato_id[p] \in Players /\ Hot(patato_id[p])
         /\ \A q \in Players \ {patato_id[p]} : hotness'[q] = hotness[q]
         /\ \A q \in Players : hotness'[q] \in Int /\ hotness'[q] <= hotness[q]
         /\ \/ /\ hotness'[patato_id[p]] <= 0
               /\ current_patatoe_hot' = current_patatoe_hot \ {p}
               /\ number_of_cool' = [number_of_cool EXCEPT ![p] = cool_count + 1]
            \/ /\ hotness'[patato_id[p]] > 0
               /\ current_patatoe_hot' = current_patatoe_hot
               /\ number_of_cool' = number_of_cool
         /\ Holds(p)
         /\ \A r \in Players : at[r] \in {"start", "open", "count", "increment"}
              => r # patato_id[p]
<1> USE DEF PotatoTypeOK
<1>1. at[p] = "received" /\ at' = [at EXCEPT ![p] = "update"]
  BY DEF Cools, Goes
<1>2. Places
  BY DEF Game
<1>3. Holds(p)
  BY <1>1, <1>2 DEF Places, Holds
<1>4. patato_id[p] \in Players /\ Hot(patato_id[p])
  BY <1>2, <1>3 DEF Places
<1>5. /\ hotness'[patato_id[p]] = hotness[patato_id[p]] - 1
      /\ \A q \in Players \ {patato_id[p]} : hotness'[q] = hotness[q]
      /\ \A q \in Players : hotness[q] \in Int
  BY <1>4 DEF Cools
<1>6. \A q \in Players : hotness'[q] \in Int /\ hotness'[q] <= hotness[q]
  <2>1. ASSUME NEW q \in Players PROVE hotness'[q] \in Int /\ hotness'[q] <= hotness[q]
    <3>1. hotness[q] \in Int
      BY <1>5
    <3>2. CASE q = patato_id[p]
      BY <1>5, <3>1, <3>2
    <3>3. CASE q # patato_id[p]
      BY <1>5, <3>1, <3>3
    <3>4. QED  BY <3>2, <3>3
  <2>2. QED  BY <2>1
<1>7. \/ /\ hotness'[patato_id[p]] <= 0
         /\ current_patatoe_hot' = current_patatoe_hot \ {p}
         /\ number_of_cool' = [number_of_cool EXCEPT ![p] = cool_count + 1]
      \/ /\ ~ (hotness'[patato_id[p]] <= 0)
         /\ current_patatoe_hot' = current_patatoe_hot
         /\ number_of_cool' = number_of_cool
  BY DEF Cools
<1>8. ASSUME NEW r \in Players, r = patato_id[p],
             at[r] \in {"start", "open", "count", "increment"}
      PROVE  FALSE
  <2>1. BeforeGame(r) /\ Hot(r)
    BY <1>2, <1>4, <1>8 DEF Places
  <2>2. Holds(r) /\ patato_id[r] = r
    BY <1>8, <2>1 DEF BeforeGame, Holds
  <2>3. r = p
    BY <1>2, <1>3, <1>8, <2>2 DEF Places
  <2>4. QED  BY <1>1, <1>8, <2>3
<1>9. hotness'[patato_id[p]] \in Int
  BY <1>4, <1>6
<1>10. QED  BY <1>1, <1>3, <1>4, <1>5, <1>6, <1>7, <1>8, <1>9

LEMMA PlacesCool ==
  ASSUME PotatoTypeOK, Opening, Game, NEW p \in Players, Cools(p)
  PROVE  Places'
<1> DEFINE x == patato_id[p]
<1>1. Places
  BY DEF Game
<1>2. /\ at[p] = "received" /\ at' = [at EXCEPT ![p] = "update"]
      /\ x \in Players /\ Hot(x) /\ Holds(p)
      /\ \A q \in Players \ {x} : hotness'[q] = hotness[q]
      /\ \A r \in Players : at[r] \in {"start", "open", "count", "increment"}
           => r # x
      /\ \/ hotness'[x] <= 0 /\ current_patatoe_hot' = current_patatoe_hot \ {p}
         \/ hotness'[x] > 0 /\ current_patatoe_hot' = current_patatoe_hot
      /\ hotness'[x] \in Int
  BY CoolsOne
<1>3. fifo' = fifo /\ patato_id' = patato_id
  BY DEF Cools
<1>4. \A r \in Players : r # p => at'[r] = at[r]
  BY <1>2 DEF PotatoTypeOK
<1>5. at'[p] = "update"
  BY <1>2 DEF PotatoTypeOK
<1> HIDE DEF x
<1>6. \A r \in Players : BeforeGame(r)'
  <2>1. BeforeGame(p)'
    BY <1>5 DEF BeforeGame
  <2>2. ASSUME NEW r \in Players, r # p PROVE BeforeGame(r)'
    <3>1. r \in current_patatoe_hot' <=> r \in current_patatoe_hot
      BY <1>2, <2>2
    <3>2. BeforeGame(r)
      BY <1>1 DEF Places
    <3>3. CASE at[r] \in {"start", "open", "count", "increment"}
      <4>1. hotness'[r] = hotness[r]
        BY <1>2, <3>3
      <4>2. QED  BY <1>3, <1>4, <2>2, <3>1, <3>2, <4>1 DEF BeforeGame, Hot
    <3>4. CASE at[r] \notin {"start", "open", "count", "increment"}
      BY <1>4, <2>2, <3>4 DEF BeforeGame
    <3>5. QED  BY <3>3, <3>4
  <2>3. QED  BY <2>1, <2>2
<1>7. \A r \in Players : at'[r] = "received" => r \in current_patatoe_hot'
  BY <1>1, <1>2, <1>4, <1>5 DEF Places
<1>8. CASE hotness'[x] > 0 /\ current_patatoe_hot' = current_patatoe_hot
  <2>1. \A q \in Players : hotness'[q] > 0 <=> Hot(q)
    BY <1>2, <1>8 DEF Hot
  <2>2. \A r \in Players : Holds(r)' <=> Holds(r)
    BY <1>2, <1>4, <1>5, <1>8 DEF Holds
  <2>3. QED  BY <1>1, <1>3, <1>6, <1>7, <2>1, <2>2, PlacesFrame
<1>9. CASE hotness'[x] <= 0 /\ current_patatoe_hot' = current_patatoe_hot \ {p}
  <2>1. \A q \in Players : hotness'[q] > 0 <=> Hot(q) /\ q # x
    BY <1>2, <1>9 DEF Hot
  <2>2. \A r \in Players : Holds(r)' <=> Holds(r) /\ r # p
    BY <1>2, <1>4, <1>5, <1>9 DEF Holds
  <2>3. \A s \in Players : Holds(s) /\ patato_id[s] = x => s = p
    BY <1>1, <1>2 DEF Places, x
  <2>4. \A r \in Players : \A i \in DOMAIN fifo[r] : fifo[r][i] # x
    <3>1. x # Over
      BY <1>2, OverAlone
    <3>2. QED  BY <1>1, <1>2, <3>1 DEF Places, x
  <2>5. /\ \A r \in Players : patato_id[r] \in Players
        /\ \A r \in Players : \A i \in DOMAIN fifo[r] :
             fifo[r][i] \in Players \cup {Over}
    BY InFifo DEF PotatoTypeOK
  <2>6. \A r \in Players : Holds(r)' => hotness'[patato_id'[r]] > 0
    BY <1>1, <1>3, <2>1, <2>2, <2>3, <2>5 DEF Places
  <2>7. \A r, s \in Players :
          Holds(r)' /\ Holds(s)' /\ patato_id'[r] = patato_id'[s] => r = s
    BY <1>1, <1>3, <2>2 DEF Places
  <2>8. \A r \in Players : \A i \in DOMAIN fifo'[r] : fifo'[r][i] # Over =>
          /\ hotness'[fifo'[r][i]] > 0
          /\ \A s \in Players : Holds(s)' => patato_id'[s] # fifo'[r][i]
    BY <1>1, <1>3, <2>1, <2>2, <2>4, <2>5 DEF Places
  <2>9. \A r, s \in Players : \A i \in DOMAIN fifo'[r], j \in DOMAIN fifo'[s] :
          fifo'[r][i] # Over /\ fifo'[r][i] = fifo'[s][j] => r = s /\ i = j
    BY <1>1, <1>3 DEF Places
  <2>10. \A k \in Players : hotness'[k] > 0 =>
           \/ \E r \in Players : Holds(r)' /\ patato_id'[r] = k
           \/ \E r \in Players : \E i \in DOMAIN fifo'[r] : fifo'[r][i] = k
    BY <1>1, <1>3, <2>1, <2>2 DEF Places, x
  <2>11. QED  BY <1>6, <1>7, <2>6, <2>7, <2>8, <2>9, <2>10 DEF Places, Hot
<1>10. QED  BY <1>2, <1>8, <1>9

\* A player that reads the -1 has been told by the winner.
LEMMA OverRead ==
  ASSUME PotatoTypeOK, Game, NEW p \in Players, ReadsFifo(p),
         Head(fifo[p]) = Over
  PROVE  /\ fifo[p] = <<Over>> /\ ~ OnGoing
         /\ \E w \in Players \ {p} :
              Finished(w) /\ at[w] \in {"posted_over", "ended"}
<1>1. at[p] = "read" /\ fifo[p] # <<>>
  BY DEF ReadsFifo
<1>2. 1 \in DOMAIN fifo[p] /\ fifo[p][1] = Over
  <2>1. fifo[p] \in Seq(Players \cup {Over})
    BY DEF PotatoTypeOK
  <2>2. QED  BY <1>1, <2>1, TailAt
<1>3. ~ OnGoing
  BY <1>2 DEF OnGoing
<1>4. PICK w \in Players : Finished(w)
  BY <1>3 DEF Game, Ending
<1>5. w # p
  BY <1>1, <1>4 DEF Finished
<1>6. at[w] # "tell"
  BY <1>1, <1>4, <1>5 DEF Finished
<1>7. QED  BY <1>1, <1>3, <1>4, <1>5, <1>6 DEF Finished

\* A player moves on, and no potato with it.
LEMMA PlacesMove ==
  ASSUME PotatoTypeOK, Places, NEW p \in Players, NEW s \in Points \ {"received"},
         at' = [at EXCEPT ![p] = s], UNCHANGED <<patato_id, hotness>>,
         current_patatoe_hot' = current_patatoe_hot, BeforeGame(p)',
         Holds(p)' <=> Holds(p),
         \A r \in Players : \A i \in DOMAIN fifo'[r] :
           fifo'[r][i] # Over => i \in DOMAIN fifo[r] /\ fifo[r][i] = fifo'[r][i],
         \A r \in Players : \A i \in DOMAIN fifo[r] :
           fifo[r][i] # Over => i \in DOMAIN fifo'[r] /\ fifo'[r][i] = fifo[r][i]
  PROVE  Places'
<1>1. \A r \in Players : r # p => at'[r] = at[r]
  BY DEF PotatoTypeOK
<1>2. \A q \in Players : hotness'[q] > 0 <=> Hot(q)
  BY DEF Hot
<1>3. \A r \in Players : Holds(r)' <=> Holds(r)
  BY <1>1 DEF Holds
<1>4. ASSUME NEW r \in Players, r # p PROVE BeforeGame(r)'
  <2>1. BeforeGame(r)
    BY DEF Places
  <2>2. at'[r] = at[r]
    BY <1>1, <1>4
  <2>3. QED  BY <2>1, <2>2 DEF BeforeGame, Hot
<1>5. \A r \in Players : BeforeGame(r)'
  BY <1>4
<1>6. \A r \in Players : at'[r] = "received" => r \in current_patatoe_hot'
  <2>1. at'[p] # "received"
    BY DEF PotatoTypeOK
  <2>2. QED  BY <1>1, <2>1 DEF Places
<1>7. QED  BY <1>2, <1>3, <1>5, <1>6, PlacesFrame

LEMMA PlacesStep ==
  ASSUME PotatoTypeOK, Opening, Game, NEW p \in Players, CalmStep(p)
  PROVE  Places'
<1>1. Places /\ BeforeGame(p)
  BY DEF Game, Places
<1>2. CASE Throws(p)
  BY <1>2, PlacesThrow
<1>3. CASE Cools(p)
  BY <1>3, PlacesCool
<1>4. CASE ReadsFifo(p) /\ Head(fifo[p]) # Over
  BY <1>4, PlacesCatch
<1>5. CASE ReadsFifo(p) /\ Head(fifo[p]) = Over
  <2>1. fifo[p] = <<Over>>
    BY <1>5, OverRead
  <2>2. /\ at[p] = "read" /\ at' = [at EXCEPT ![p] = "ended"]
        /\ fifo' = [fifo EXCEPT ![p] = <<>>]
        /\ UNCHANGED <<patato_id, hotness, current_patatoe_hot>>
    BY <1>5 DEF ReadsFifo, Terminates, shmVars, playerVars
  <2>3. BeforeGame(p)' /\ (Holds(p)' <=> Holds(p))
    BY <2>2 DEF BeforeGame, Holds, PotatoTypeOK
  <2>4. /\ fifo'[p] = <<>> /\ \A r \in Players \ {p} : fifo'[r] = fifo[r]
    BY <2>2 DEF PotatoTypeOK
  <2>5. /\ \A i \in DOMAIN fifo'[p] : FALSE
        /\ \A i \in DOMAIN fifo[p] : fifo[p][i] = Over
    BY <2>1, <2>4, OverAlone
  <2>6. "ended" \in Points \ {"received"}
    BY DEF Points
  <2>7. QED  BY <1>1, <2>2, <2>3, <2>4, <2>5, <2>6, PlacesMove
<1>6. CASE TellsAll(p)
  <2>1. /\ Finished(p) /\ at[p] = "tell"
        /\ at' = [at EXCEPT ![p] = "posted_over"]
        /\ fifo' = [q \in Players |-> IF q = p THEN fifo[q]
                                      ELSE Append(fifo[q], Over)]
    BY <1>6, AllAreTold
  <2>2. UNCHANGED <<patato_id, hotness, current_patatoe_hot>>
    BY <1>6 DEF TellsAll, shmVars, playerVars
  <2>3. BeforeGame(p)' /\ (Holds(p)' <=> Holds(p))
    BY <2>1, <2>2 DEF BeforeGame, Holds, PotatoTypeOK
  <2>4. /\ fifo'[p] = fifo[p]
        /\ \A r \in Players \ {p} : fifo[r] = <<>> /\ fifo'[r] = <<Over>>
    BY <2>1, OverAlone DEF Finished
  <2>5. \A r \in Players \ {p} :
          /\ \A i \in DOMAIN fifo'[r] : fifo'[r][i] = Over
          /\ \A i \in DOMAIN fifo[r] : FALSE
    BY <2>4, OverAlone
  <2>6. /\ \A r \in Players : \A i \in DOMAIN fifo'[r] : fifo'[r][i] # Over =>
             i \in DOMAIN fifo[r] /\ fifo[r][i] = fifo'[r][i]
        /\ \A r \in Players : \A i \in DOMAIN fifo[r] : fifo[r][i] # Over =>
             i \in DOMAIN fifo'[r] /\ fifo'[r][i] = fifo[r][i]
    BY <2>4, <2>5
  <2>7. "posted_over" \in Points \ {"received"}
    BY DEF Points
  <2>8. QED  BY <1>1, <2>1, <2>2, <2>3, <2>6, <2>7, PlacesMove
<1>7. CASE Posts(p) /\ at[p] = "posted_over"
  <2>1. /\ at' = [at EXCEPT ![p] = "ended"] /\ fifo' = [fifo EXCEPT ![p] = <<>>]
        /\ UNCHANGED <<patato_id, hotness, current_patatoe_hot>>
    BY <1>7 DEF Posts, Goes, Terminates, shmVars, playerVars
  <2>2. Finished(p)
    BY <1>7, Winner
  <2>3. fifo' = fifo
    BY <2>1, <2>2 DEF Finished, PotatoTypeOK
  <2>4. ~ Holds(p)
    <3>1. patato_id[p] \in Players
      BY DEF PotatoTypeOK
    <3>2. ~ Hot(patato_id[p])
      BY <2>2, <3>1 DEF Finished, Cold, Hot, PotatoTypeOK
    <3>3. QED  BY <1>1, <3>2 DEF Places
  <2>5. BeforeGame(p)' /\ ~ Holds(p)'
    BY <2>1 DEF BeforeGame, Holds, PotatoTypeOK
  <2>6. "ended" \in Points \ {"received"}
    BY DEF Points
  <2>7. QED  BY <1>1, <2>1, <2>3, <2>4, <2>5, <2>6, PlacesMove
<1>8. CASE \/ TakesFifo(p) \/ OpensFifo(p) \/ ReadsCount(p) \/ WritesCount(p)
           \/ ThrowsNothing(p) \/ Updates(p)
           \/ Posts(p) /\ at[p] # "posted_over"
  <2> DEFINE Stays(s) == /\ at' = [at EXCEPT ![p] = s]
                         /\ BeforeGame(p)' /\ (Holds(p)' <=> Holds(p))
  <2>1. /\ fifo' = fifo /\ UNCHANGED <<patato_id, hotness>>
        /\ current_patatoe_hot' = current_patatoe_hot
    BY <1>8 DEF TakesFifo, OpensFifo, ReadsCount, WritesCount, ThrowsNothing,
                Updates, Posts, Terminates, shmVars, playerVars
  <2>2. \E s \in Points \ {"received"} : Stays(s)
    <3> USE DEF PotatoTypeOK, Points, BeforeGame, Holds, Hot
    <3>1. CASE TakesFifo(p)
      BY <1>1, <2>1, <3>1 DEF TakesFifo, Goes
    <3>2. CASE OpensFifo(p)
      BY <1>1, <2>1, <3>2 DEF OpensFifo
    <3>3. CASE ReadsCount(p)
      BY <1>1, <2>1, <3>3 DEF ReadsCount, Goes
    <3>4. CASE WritesCount(p)
      BY <1>1, <2>1, <3>4 DEF WritesCount, Goes
    <3>5. CASE ThrowsNothing(p)
      BY <1>1, <2>1, <3>5 DEF ThrowsNothing, Goes
    <3>6. CASE Updates(p)
      BY <1>1, <2>1, <3>6 DEF Updates, Goes
    <3>7. CASE Posts(p) /\ at[p] # "posted_over"
      <4>1. at[p] = "post" /\ at' = [at EXCEPT ![p] = "loop"]
        BY <3>7 DEF Posts, Goes
      <4>2. QED  BY <1>1, <2>1, <4>1
    <3>8. QED  BY <1>8, <3>1, <3>2, <3>3, <3>4, <3>5, <3>6, <3>7
  <2>3. PICK s \in Points \ {"received"} : Stays(s)
    BY <2>2
  <2>4. QED  BY <1>1, <2>1, <2>3, PlacesMove
<1>9. QED  BY <1>2, <1>3, <1>4, <1>5, <1>6, <1>7, <1>8 DEF CalmStep

-------------------------------------------------------------------------------
(* How many potatoes have been counted                                     *)

Uncounted(p) == \/ at[p] \in {"start", "open", "count", "increment"}
                     /\ hotness[p] <= 0
                \/ at[p] = "update" /\ p \notin current_patatoe_hot

UncountedFact ==
  /\ BeingCounted = {p \in Players : Uncounted(p)}
  /\ IsFiniteSet(Cold) /\ IsFiniteSet(BeingCounted)
  /\ Cardinality(Cold) \in Nat /\ Cardinality(BeingCounted) \in Nat
  /\ Counted = Cardinality(Cold) - Cardinality(BeingCounted)
  /\ Cardinality(Cold) <= num_of_line
  /\ BeingCounted # {} => Cardinality(BeingCounted) >= 1

LEMMA UncountedIsFact == UncountedFact
<1>1. BeingCounted = {p \in Players : Uncounted(p)}
  BY DEF BeingCounted, Uncounted
<1>2. QED  BY <1>1, ColdFacts DEF UncountedFact, Counted

LEMMA UncountedIsFactNext == UncountedFact'
  BY UncountedIsFact, PTL

\* Steps after which the same potatoes are counted.
LEMMA CountsFrame ==
  ASSUME PotatoTypeOK, Counts, cool_count' = cool_count, trouble' = trouble,
         \A q \in Players : hotness'[q] <= 0 <=> hotness[q] <= 0,
         \A q \in Players : Uncounted(q)' <=> Uncounted(q),
         \A q \in Players : Counting(q)' =>
           Counting(q) /\ number_of_cool'[q] = number_of_cool[q],
         \A q \in Players : \/ number_of_cool'[q] = number_of_cool[q]
                            \/ number_of_cool'[q] = num_of_line + 1
  PROVE  Counts'
<1>1. Cold' = Cold
  BY DEF Cold
<1>2. BeingCounted' = BeingCounted
  BY UncountedIsFact, UncountedIsFactNext, Zenon DEF UncountedFact
<1>3. Counted' = Counted
  BY <1>1, <1>2, UncountedIsFact, UncountedIsFactNext DEF UncountedFact
<1>4. QED  BY <1>1, <1>3 DEF Counts

\* The count is written back, by who has read it.
LEMMA CountsWrite ==
  ASSUME PotatoTypeOK, Counts, NEW p \in Players, Counting(p), Uncounted(p),
         cool_count' = number_of_cool[p],
         trouble' = {} => trouble = {} /\ LostUpdate(p) = {},
         hotness' = hotness,
         \A q \in Players : Uncounted(q)' <=> Uncounted(q) /\ q # p,
         \A q \in Players : Counting(q)' =>
           Counting(q) /\ number_of_cool'[q] = number_of_cool[q],
         \A q \in Players : \/ number_of_cool'[q] = number_of_cool[q]
                            \/ number_of_cool'[q] = num_of_line + 1
  PROVE  Counts' /\ Counted' = Counted + 1
<1>1. Cold' = Cold
  BY DEF Cold
<1>2. BeingCounted' = BeingCounted \ {p} /\ p \in BeingCounted
  BY UncountedIsFact, UncountedIsFactNext DEF UncountedFact
<1>3. Cardinality(BeingCounted') = Cardinality(BeingCounted) - 1
  BY <1>2, UncountedIsFact, FS_RemoveElement DEF UncountedFact
<1>4. Counted' = Counted + 1
  <2>1. Counted' = Cardinality(Cold') - Cardinality(BeingCounted')
    BY UncountedIsFactNext DEF UncountedFact
  <2>2. /\ Counted = Cardinality(Cold) - Cardinality(BeingCounted)
        /\ Cardinality(Cold) \in Nat /\ Cardinality(BeingCounted) \in Nat
    BY UncountedIsFact DEF UncountedFact
  <2>3. Cardinality(Cold') = Cardinality(Cold)
    BY <1>1
  <2>4. QED  BY <1>3, <2>1, <2>2, <2>3
<1>5. Counted \in Int
  BY ColdFacts
<1>6. cool_count' <= Counted'
  BY <1>4 DEF Counts
<1>7. trouble' = {} => cool_count' = Counted'
  <2>1. ASSUME trouble' = {} PROVE cool_count' = Counted'
    <3>1. number_of_cool[p] = cool_count + 1
      BY <2>1 DEF LostUpdate
    <3>2. cool_count = Counted
      BY <2>1 DEF Counts
    <3>3. QED  BY <1>4, <3>1, <3>2
  <2>2. QED  BY <2>1
<1>8. \A q \in Players : Counting(q)' => number_of_cool'[q] <= Counted' + 1
  <2>1. ASSUME NEW q \in Players, Counting(q)'
        PROVE  number_of_cool'[q] <= Counted' + 1
    <3>1. number_of_cool[q] <= Counted + 1 /\ number_of_cool[q] \in Int
      BY <2>1 DEF Counts, PotatoTypeOK
    <3>2. number_of_cool'[q] = number_of_cool[q]
      BY <2>1
    <3>3. QED  BY <1>4, <1>5, <3>1, <3>2
  <2>2. QED  BY <2>1
<1>9. \A q \in Players : \/ number_of_cool'[q] \in {Unset, num_of_line + 1}
                         \/ number_of_cool'[q] <= Cardinality(Cold')
  BY <1>1 DEF Counts
<1>10. QED  BY <1>4, <1>6, <1>7, <1>8, <1>9 DEF Counts

LEMMA CountsRead ==
  ASSUME PotatoTypeOK, Opening, Game, NEW p \in Players, ReadsCount(p)
  PROVE  Counts'
<1>1. Counts /\ BeforeGame(p)
  BY DEF Game, Places
<1>2. /\ at[p] = "count" /\ at' = [at EXCEPT ![p] = "increment"]
      /\ number_of_cool' = [number_of_cool EXCEPT ![p] = cool_count + 1]
      /\ UNCHANGED <<hotness, cool_count, current_patatoe_hot, trouble>>
  BY DEF ReadsCount, Goes, shmVars, playerVars
<1>3. hotness[p] <= 0
  BY <1>1, <1>2 DEF BeforeGame, Hot, PotatoTypeOK
<1>4. Cold' = Cold
  BY <1>2 DEF Cold
<1>5. Uncounted(p) /\ \A q \in Players : Uncounted(q)' <=> Uncounted(q)
  BY <1>2, <1>3 DEF Uncounted, PotatoTypeOK
<1>6. BeingCounted' = BeingCounted /\ BeingCounted # {}
  BY <1>5, UncountedIsFact, UncountedIsFactNext DEF UncountedFact
<1>7. Counted' = Counted /\ Counted + 1 <= Cardinality(Cold)
  <2>1. Counted' = Cardinality(Cold') - Cardinality(BeingCounted')
    BY UncountedIsFactNext DEF UncountedFact
  <2>2. /\ Counted = Cardinality(Cold) - Cardinality(BeingCounted)
        /\ Cardinality(Cold) \in Nat /\ Cardinality(BeingCounted) \in Nat
        /\ Cardinality(BeingCounted) >= 1
    BY <1>6, UncountedIsFact DEF UncountedFact
  <2>3. /\ Cardinality(Cold') = Cardinality(Cold)
        /\ Cardinality(BeingCounted') = Cardinality(BeingCounted)
    BY <1>4, <1>6
  <2>4. QED  BY <2>1, <2>2, <2>3
<1>8. number_of_cool'[p] = cool_count + 1
  BY <1>2 DEF PotatoTypeOK
<1>9. \A q \in Players : q # p =>
        /\ number_of_cool'[q] = number_of_cool[q]
        /\ Counting(q)' <=> Counting(q)
  BY <1>2 DEF PotatoTypeOK, Counting
<1>10. number_of_cool'[p] <= Counted + 1 /\ number_of_cool'[p] <= Cardinality(Cold)
  <2>1. cool_count \in Int /\ cool_count <= Counted
    BY <1>1 DEF Counts, PotatoTypeOK
  <2>2. Counted \in Int /\ Cardinality(Cold) \in Nat
    BY ColdFacts
  <2>3. QED  BY <1>7, <1>8, <2>1, <2>2
<1>11. QED  BY <1>1, <1>2, <1>4, <1>7, <1>9, <1>10 DEF Counts

\* The potato that has become cold is counted next.
LEMMA CountsCool ==
  ASSUME PotatoTypeOK, Opening, Game, NEW p \in Players, Cools(p)
  PROVE  Counts'
<1> DEFINE x == patato_id[p]
<1>1. Counts
  BY DEF Game
<1>2. /\ at[p] = "received" /\ at' = [at EXCEPT ![p] = "update"]
      /\ x \in Players /\ Hot(x) /\ Holds(p)
      /\ \A q \in Players \ {x} : hotness'[q] = hotness[q]
      /\ \A r \in Players : at[r] \in {"start", "open", "count", "increment"}
           => r # x
      /\ \/ /\ hotness'[x] <= 0
            /\ current_patatoe_hot' = current_patatoe_hot \ {p}
            /\ number_of_cool' = [number_of_cool EXCEPT ![p] = cool_count + 1]
         \/ /\ hotness'[x] > 0
            /\ current_patatoe_hot' = current_patatoe_hot
            /\ number_of_cool' = number_of_cool
      /\ hotness'[x] \in Int
  BY CoolsOne
<1>3. cool_count' = cool_count /\ trouble' = trouble
  BY DEF Cools
<1>4. at'[p] = "update" /\ \A r \in Players : r # p => at'[r] = at[r]
  BY <1>2 DEF PotatoTypeOK
<1>5. p \in current_patatoe_hot /\ ~ Uncounted(p)
  BY <1>2 DEF Holds, Uncounted
<1>6. ~ (hotness[x] <= 0)
  BY <1>2 DEF Hot, PotatoTypeOK
<1> HIDE DEF x
<1>7. ASSUME NEW r \in Players, r # p PROVE Uncounted(r)' <=> Uncounted(r)
  <2>1. r \in current_patatoe_hot' <=> r \in current_patatoe_hot
    BY <1>2, <1>7
  <2>2. CASE at[r] \in {"start", "open", "count", "increment"}
    <3>1. hotness'[r] = hotness[r]
      BY <1>2, <2>2
    <3>2. QED  BY <1>4, <1>7, <2>1, <3>1 DEF Uncounted
  <2>3. CASE at[r] \notin {"start", "open", "count", "increment"}
    BY <1>4, <1>7, <2>1, <2>3 DEF Uncounted
  <2>4. QED  BY <2>2, <2>3
<1>8. CASE hotness'[x] > 0
  <2>1. current_patatoe_hot' = current_patatoe_hot /\ number_of_cool' = number_of_cool
        /\ ~ (hotness'[x] <= 0)
    BY <1>2, <1>8
  <2>2. \A q \in Players : hotness'[q] <= 0 <=> hotness[q] <= 0
    BY <1>2, <1>6, <2>1
  <2>3. ~ Uncounted(p)'
    BY <1>4, <1>5, <2>1 DEF Uncounted
  <2>4. \A q \in Players : Uncounted(q)' <=> Uncounted(q)
    BY <1>5, <1>7, <2>3
  <2>5. \A q \in Players : Counting(q)' => Counting(q)
    BY <1>4, <1>5, <2>1 DEF Counting
  <2>6. QED  BY <1>1, <1>3, <2>1, <2>2, <2>4, <2>5, CountsFrame
<1>9. CASE ~ (hotness'[x] > 0)
  <2>1. /\ hotness'[x] <= 0 /\ current_patatoe_hot' = current_patatoe_hot \ {p}
        /\ number_of_cool' = [number_of_cool EXCEPT ![p] = cool_count + 1]
    BY <1>2, <1>9
  <2>2. Cold' = Cold \cup {x} /\ x \notin Cold
    BY <1>2, <1>6, <2>1 DEF Cold
  <2>3. Uncounted(p)'
    BY <1>4, <2>1 DEF Uncounted
  <2>4. BeingCounted' = BeingCounted \cup {p} /\ p \notin BeingCounted
    BY <1>5, <1>7, <2>3, UncountedIsFact, UncountedIsFactNext DEF UncountedFact
  <2>5. /\ Cardinality(Cold') = Cardinality(Cold) + 1
        /\ Cardinality(BeingCounted') = Cardinality(BeingCounted) + 1
    BY <2>2, <2>4, UncountedIsFact, FS_AddElement DEF UncountedFact
  <2>6. Counted' = Counted /\ Counted \in Int /\ Counted <= Cardinality(Cold)
        /\ Cardinality(Cold) \in Nat
    <3>1. Counted' = Cardinality(Cold') - Cardinality(BeingCounted')
      BY UncountedIsFactNext DEF UncountedFact
    <3>2. /\ Counted = Cardinality(Cold) - Cardinality(BeingCounted)
          /\ Cardinality(Cold) \in Nat /\ Cardinality(BeingCounted) \in Nat
      BY UncountedIsFact DEF UncountedFact
    <3>3. QED  BY <2>5, <3>1, <3>2
  <2>7. number_of_cool'[p] = cool_count + 1
        /\ \A q \in Players : q # p => /\ number_of_cool'[q] = number_of_cool[q]
                                       /\ Counting(q)' <=> Counting(q)
    <3>1. number_of_cool'[p] = cool_count + 1
          /\ \A q \in Players : q # p => number_of_cool'[q] = number_of_cool[q]
      BY <2>1 DEF PotatoTypeOK
    <3>2. \A q \in Players : q # p => (Counting(q)' <=> Counting(q))
      BY <1>4, <2>1 DEF Counting
    <3>3. QED  BY <3>1, <3>2
  <2>8. cool_count \in Int /\ cool_count <= Counted
    BY <1>1 DEF Counts, PotatoTypeOK
  <2>9. /\ number_of_cool'[p] <= Counted + 1
        /\ number_of_cool'[p] <= Cardinality(Cold')
    BY <2>5, <2>6, <2>7, <2>8
  <2>10. \A q \in Players : \/ number_of_cool'[q] \in {Unset, num_of_line + 1}
                            \/ number_of_cool'[q] <= Cardinality(Cold')
    <3>1. ASSUME NEW q \in Players, q # p
          PROVE  \/ number_of_cool'[q] \in {Unset, num_of_line + 1}
                 \/ number_of_cool'[q] <= Cardinality(Cold')
      <4>1. number_of_cool[q] \in Int
        BY DEF PotatoTypeOK
      <4>2. \/ number_of_cool[q] \in {Unset, num_of_line + 1}
            \/ number_of_cool[q] <= Cardinality(Cold)
        BY <1>1 DEF Counts
      <4>3. number_of_cool'[q] = number_of_cool[q]
        BY <2>7, <3>1
      <4>4. number_of_cool[q] <= Cardinality(Cold) =>
              number_of_cool[q] <= Cardinality(Cold')
        BY <2>5, <2>6, <4>1
      <4>5. QED  BY <4>2, <4>3, <4>4
    <3>2. QED  BY <2>9, <3>1
  <2>11. \A q \in Players : Counting(q)' => number_of_cool'[q] <= Counted' + 1
    BY <1>1, <2>6, <2>7, <2>9 DEF Counts
  <2>12. QED  BY <1>1, <1>3, <2>6, <2>10, <2>11 DEF Counts
<1>10. QED  BY <1>8, <1>9

LEMMA CountsStep ==
  ASSUME PotatoTypeOK, Opening, Game, NEW p \in Players, CalmStep(p)
  PROVE  Counts'
<1>1. Counts /\ BeforeGame(p)
  BY DEF Game, Places
<1>2. CASE ReadsCount(p)
  BY <1>2, CountsRead
<1>3. CASE Cools(p)
  BY <1>3, CountsCool
<1>4. CASE WritesCount(p)
  <2>1. /\ at[p] = "increment" /\ at' = [at EXCEPT ![p] = "loop"]
        /\ UNCHANGED <<hotness, number_of_cool, current_patatoe_hot>>
        /\ cool_count' = number_of_cool[p]
        /\ trouble' = {} => trouble = {} /\ LostUpdate(p) = {}
    BY <1>4 DEF WritesCount, Goes, playerVars
  <2>2. hotness[p] <= 0
    BY <1>1, <2>1 DEF BeforeGame, Hot, PotatoTypeOK
  <2>3. Counting(p) /\ Uncounted(p)
    BY <2>1, <2>2 DEF Counting, Uncounted
  <2>4. /\ \A q \in Players : Uncounted(q)' <=> Uncounted(q) /\ q # p
        /\ \A q \in Players : Counting(q)' => Counting(q)
    BY <2>1 DEF Uncounted, Counting, PotatoTypeOK
  <2>5. QED  BY <1>1, <2>1, <2>3, <2>4, CountsWrite
<1>5. CASE Updates(p) /\ p \notin current_patatoe_hot
  <2>1. /\ at[p] = "update"
        /\ \E s \in {"tell", "post"} : at' = [at EXCEPT ![p] = s]
        /\ UNCHANGED <<hotness, current_patatoe_hot>>
        /\ cool_count' = number_of_cool[p]
        /\ trouble' = {} => trouble = {} /\ LostUpdate(p) = {}
        /\ number_of_cool' = [number_of_cool EXCEPT ![p] = Seen(number_of_cool[p])]
    BY <1>5 DEF Updates, StoresCount, Goes, playerVars
  <2>2. Counting(p) /\ Uncounted(p)
    BY <1>5, <2>1 DEF Counting, Uncounted
  <2>3. /\ \A q \in Players : Uncounted(q)' <=> Uncounted(q) /\ q # p
        /\ \A q \in Players : Counting(q)' => Counting(q) /\ q # p
    BY <2>1 DEF Uncounted, Counting, PotatoTypeOK
  <2>4. /\ \A q \in Players : q # p => number_of_cool'[q] = number_of_cool[q]
        /\ number_of_cool'[p] = number_of_cool[p]
           \/ number_of_cool'[p] = num_of_line + 1
    BY <2>1 DEF Seen, PotatoTypeOK
  <2>5. QED  BY <1>1, <2>1, <2>2, <2>3, <2>4, CountsWrite
<1>6. CASE Updates(p) /\ p \in current_patatoe_hot
  <2>1. /\ at[p] = "update"
        /\ \E s \in {"tell", "post"} : at' = [at EXCEPT ![p] = s]
        /\ UNCHANGED <<hotness, current_patatoe_hot, cool_count, trouble>>
        /\ number_of_cool' = [number_of_cool EXCEPT ![p] = Seen(number_of_cool[p])]
    BY <1>6 DEF Updates, StoresCount, Goes, playerVars
  <2>2. /\ \A q \in Players : Uncounted(q)' <=> Uncounted(q)
        /\ \A q \in Players : Counting(q)' => Counting(q) /\ q # p
    BY <1>6, <2>1 DEF Uncounted, Counting, PotatoTypeOK
  <2>3. /\ \A q \in Players : q # p => number_of_cool'[q] = number_of_cool[q]
        /\ number_of_cool'[p] = number_of_cool[p]
           \/ number_of_cool'[p] = num_of_line + 1
    BY <2>1 DEF Seen, PotatoTypeOK
  <2>4. QED  BY <1>1, <2>1, <2>2, <2>3, CountsFrame
<1>7. CASE \/ TakesFifo(p) \/ OpensFifo(p) \/ Throws(p) \/ ThrowsNothing(p)
           \/ ReadsFifo(p) \/ TellsAll(p) \/ Posts(p)
  <2>1. UNCHANGED <<hotness, cool_count, number_of_cool, trouble>>
    BY <1>7 DEF TakesFifo, OpensFifo, Throws, ThrowsNothing, ReadsFifo, TellsAll,
                Posts, shmVars
  <2>2. \A q \in Players : q # p =>
          (q \in current_patatoe_hot' <=> q \in current_patatoe_hot)
    BY <1>7 DEF TakesFifo, OpensFifo, Throws, ThrowsNothing, ReadsFifo, TellsAll,
                Posts, playerVars
  <2> DEFINE Stays(s) == /\ at' = [at EXCEPT ![p] = s]
                         /\ Uncounted(p)' <=> Uncounted(p)
                         /\ ~ Counting(p)'
  <2>3. \E s \in Points : Stays(s)
    <3> USE DEF PotatoTypeOK, Points, Uncounted, Counting
    <3>1. CASE TakesFifo(p)
      BY <2>1, <3>1 DEF TakesFifo, Goes
    <3>2. CASE OpensFifo(p)
      <4>1. p \in current_patatoe_hot <=> ~ (hotness[p] <= 0)
        BY <1>1, <3>2 DEF OpensFifo, BeforeGame, Hot
      <4>2. current_patatoe_hot' = current_patatoe_hot
        BY <3>2 DEF OpensFifo, playerVars
      <4>3. QED  BY <2>1, <3>2, <4>1, <4>2 DEF OpensFifo
    <3>3. CASE Throws(p)
      <4>1. at[p] = "loop"
        BY <3>3 DEF Throws
      <4>2. at' = [at EXCEPT ![p] = "read"]
        BY <3>3, ThrowIsRead
      <4>3. QED  BY <2>1, <4>1, <4>2
    <3>4. CASE ThrowsNothing(p)
      BY <2>1, <3>4 DEF ThrowsNothing, Goes
    <3>5. CASE ReadsFifo(p)
      BY <2>1, <3>5 DEF ReadsFifo, Terminates
    <3>6. CASE TellsAll(p)
      BY <2>1, <3>6, AllAreTold
    <3>7. CASE Posts(p)
      <4>1. /\ at[p] \in {"post", "posted_over"}
            /\ \E s \in {"loop", "ended"} : at' = [at EXCEPT ![p] = s]
        BY <3>7 DEF Posts, Goes, Terminates
      <4>2. QED  BY <2>1, <4>1
    <3>8. QED  BY <1>7, <3>1, <3>2, <3>3, <3>4, <3>5, <3>6, <3>7
  <2>4. PICK s \in Points : Stays(s)
    BY <2>3
  <2>5. \A q \in Players : q # p => at'[q] = at[q]
    BY <2>4 DEF PotatoTypeOK
  <2>6. ASSUME NEW q \in Players, q # p
        PROVE  (Uncounted(q)' <=> Uncounted(q)) /\ (Counting(q)' => Counting(q))
    <3>1. at'[q] = at[q] /\ (q \in current_patatoe_hot' <=> q \in current_patatoe_hot)
      BY <2>2, <2>5, <2>6
    <3>2. QED  BY <2>1, <3>1 DEF Uncounted, Counting
  <2>7. (Uncounted(p)' <=> Uncounted(p)) /\ ~ Counting(p)'
    BY <2>4
  <2>8. QED  BY <1>1, <2>1, <2>6, <2>7, CountsFrame
<1>8. QED  BY <1>2, <1>3, <1>4, <1>5, <1>6, <1>7 DEF CalmStep

-------------------------------------------------------------------------------
(* The end of the game                                                     *)

LEMMA OnGoingFrame ==
  ASSUME PotatoTypeOK, OnGoing, NEW p \in Players, NEW s \in Points, ~ Done(p)',
         at' = [at EXCEPT ![p] = s],
         \A r \in Players : \A i \in DOMAIN fifo'[r] : fifo'[r][i] # Over
  PROVE  OnGoing'
<1>1. \A q \in Players : q # p => at'[q] = at[q]
  BY DEF PotatoTypeOK
<1>2. \A q \in Players : ~ Done(q)'
  BY <1>1 DEF OnGoing, Done
<1>3. QED  BY <1>2 DEF OnGoing

\* With the last potato the game is over: no potato is left in a FIFO, and
\* nobody but the winner is still to count one.
LEMMA LastPotato ==
  ASSUME PotatoTypeOK, Opening, Game, NEW p \in Players, Updates(p),
         number_of_cool[p] = num_of_line
  PROVE  Finished(p)'
<1>1. Counts /\ Places
  BY DEF Game
<1>2. /\ at[p] = "update" /\ at' = [at EXCEPT ![p] = "tell"]
      /\ UNCHANGED <<hotness, current_patatoe_hot, fifo>>
  BY DEF Updates, Goes, playerVars
<1>3. /\ num_of_line \in Nat /\ Cardinality(Cold) \in Nat
      /\ Cardinality(Cold) <= num_of_line
      /\ Cardinality(Cold) = num_of_line => Cold = Players
  BY PlayersFinite, ColdFacts
<1>4. num_of_line <= Cardinality(Cold)
  <2>1. num_of_line # Unset /\ num_of_line # num_of_line + 1
    BY <1>3 DEF Unset
  <2>2. QED  BY <1>1, <2>1 DEF Counts
<1>5. Cold = Players
  BY <1>3, <1>4
<1>6. p \notin current_patatoe_hot
  <2>1. SUFFICES ASSUME p \in current_patatoe_hot PROVE FALSE
    OBVIOUS
  <2>2. Hot(patato_id[p]) /\ patato_id[p] \in Players
    BY <1>1, <1>2, <2>1 DEF Places, Holds, PotatoTypeOK
  <2>3. QED  BY <1>5, <2>2, HotMeansOn
<1>7. p \in BeingCounted /\ Cardinality(BeingCounted) <= 1
  <2>1. p \in BeingCounted
    BY <1>2, <1>6 DEF BeingCounted
  <2>2. number_of_cool[p] <= Counted + 1
    BY <1>1, <1>2, <1>6 DEF Counts, Counting
  <2>3. /\ Counted = Cardinality(Cold) - Cardinality(BeingCounted)
        /\ Cardinality(BeingCounted) \in Nat
    BY ColdFacts DEF Counted
  <2>4. QED  BY <1>3, <2>1, <2>2, <2>3
<1>8. BeingCounted = {p}
  BY <1>7, ColdFacts
<1>9. BeingCounted' = {} /\ Cold' = Players
  <2>1. \A q \in Players : q # p => at'[q] = at[q]
    BY <1>2 DEF PotatoTypeOK
  <2>2. at'[p] = "tell"
    BY <1>2 DEF PotatoTypeOK
  <2>3. \A q \in Players : q \notin BeingCounted'
    BY <1>2, <1>8, <2>1, <2>2 DEF BeingCounted
  <2>4. BeingCounted' \subseteq Players
    BY DEF BeingCounted
  <2>5. QED  BY <1>2, <1>5, <2>3, <2>4 DEF Cold
<1>10. OnGoing
  <2>1. SUFFICES ASSUME ~ OnGoing PROVE FALSE
    OBVIOUS
  <2>2. QED  BY <1>7, <2>1 DEF Game, Ending, Finished
<1>11. ASSUME NEW r \in Players PROVE fifo[r] = <<>>
  <2>1. SUFFICES ASSUME fifo[r] # <<>> PROVE FALSE
    OBVIOUS
  <2>2. /\ 1 \in DOMAIN fifo[r] /\ fifo[r][1] \in Players \cup {Over}
    <3>1. fifo[r] \in Seq(Players \cup {Over})
      BY DEF PotatoTypeOK
    <3>2. QED  BY <2>1, <3>1, TailAt
  <2>3. fifo[r][1] # Over
    BY <1>10, <2>2 DEF OnGoing
  <2>4. Hot(fifo[r][1]) /\ fifo[r][1] \in Players
    BY <1>1, <2>2, <2>3 DEF Places
  <2>5. QED  BY <1>5, <2>4, HotMeansOn
<1>12. at'[p] = "tell" /\ \A q \in Players \ {p} : ~ Done(q)'
  <2>1. \A q \in Players \ {p} : at'[q] = at[q]
    BY <1>2 DEF PotatoTypeOK
  <2>2. QED  BY <1>2, <1>10, <2>1 DEF OnGoing, Done, PotatoTypeOK
<1>13. QED  BY <1>2, <1>9, <1>11, <1>12 DEF Finished

\* Nobody has a potato any more.
LEMMA NoneLeft ==
  ASSUME PotatoTypeOK, Opening, Game, NEW w \in Players, Finished(w),
         NEW q \in Players
  PROVE  /\ at[q] \notin {"start", "open", "count", "increment", "received",
                          "update"}
         /\ ~ Holds(q)
<1>1. ~ Holds(q)
  <2>1. patato_id[q] \in Players
    BY DEF PotatoTypeOK
  <2>2. ~ Hot(patato_id[q])
    BY <2>1 DEF Finished, Cold, Hot, PotatoTypeOK
  <2>3. QED  BY <2>2 DEF Game, Places
<1>2. q \notin BeingCounted /\ hotness[q] <= 0
  BY DEF Finished, Cold
<1>3. at[q] = "received" => q \in current_patatoe_hot
  BY DEF Game, Places
<1>4. QED  BY <1>1, <1>2, <1>3 DEF BeingCounted, Holds

\* What can be in a FIFO after a step of the game.
LEMMA FifosWithoutOver ==
  ASSUME PotatoTypeOK, Opening, Game, OnGoing, NEW p \in Players,
         Throws(p) \/ ReadsFifo(p)
  PROVE  \A r \in Players : \A i \in DOMAIN fifo'[r] : fifo'[r][i] # Over
<1>1. CASE Throws(p)
  <2>1. PICK q \in Players \ {p} :
          fifo' = [fifo EXCEPT ![q] = Append(fifo[q], patato_id[p])]
    BY <1>1, ThrowIsRead
  <2>2. patato_id[p] \in Players /\ patato_id[p] # Over
    BY OverAlone DEF PotatoTypeOK
  <2>3. /\ fifo'[q] = Append(fifo[q], patato_id[p])
        /\ \A r \in Players \ {q} : fifo'[r] = fifo[r]
    BY <2>1 DEF PotatoTypeOK
  <2>4. \A i \in DOMAIN fifo'[q] : fifo'[q][i] # Over
    <3>1. fifo[q] \in Seq(Players \cup {Over})
      BY DEF PotatoTypeOK
    <3>2. /\ Len(fifo[q]) \in Nat /\ DOMAIN fifo[q] = 1 .. Len(fifo[q])
          /\ DOMAIN Append(fifo[q], patato_id[p]) = 1 .. Len(fifo[q]) + 1
          /\ \A i \in 1 .. Len(fifo[q]) :
               Append(fifo[q], patato_id[p])[i] = fifo[q][i]
          /\ Append(fifo[q], patato_id[p])[Len(fifo[q]) + 1] = patato_id[p]
      BY <2>2, <3>1, AppendAt
    <3>3. \A i \in 1 .. Len(fifo[q]) : fifo[q][i] # Over
      BY <3>2 DEF OnGoing
    <3>4. \A i \in 1 .. Len(fifo[q]) + 1 :
            i \in 1 .. Len(fifo[q]) \/ i = Len(fifo[q]) + 1
      BY <3>2
    <3>5. QED  BY <2>2, <2>3, <3>2, <3>3, <3>4
  <2>5. QED  BY <2>3, <2>4 DEF OnGoing
<1>2. CASE ReadsFifo(p)
  <2>1. Head(fifo[p]) # Over
    BY <1>2, OverRead
  <2>2. fifo' = [fifo EXCEPT ![p] = Tail(fifo[p])] /\ fifo[p] # <<>>
    BY <1>2, <2>1 DEF ReadsFifo
  <2>3. /\ fifo'[p] = Tail(fifo[p])
        /\ \A r \in Players \ {p} : fifo'[r] = fifo[r]
    BY <2>2 DEF PotatoTypeOK
  <2>4. \A i \in DOMAIN Tail(fifo[p]) :
          i + 1 \in DOMAIN fifo[p] /\ Tail(fifo[p])[i] = fifo[p][i + 1]
    <3>1. fifo[p] \in Seq(Players \cup {Over})
      BY DEF PotatoTypeOK
    <3>2. QED  BY <2>2, <3>1, TailAt
  <2>5. \A r \in Players : \A i \in DOMAIN fifo[r] : fifo[r][i] # Over
    BY DEF OnGoing
  <2>6. \A i \in DOMAIN fifo'[p] : fifo'[p][i] # Over
    BY <2>3, <2>4, <2>5
  <2>7. QED  BY <2>3, <2>5, <2>6
<1>3. QED  BY <1>1, <1>2

LEMMA EndingStep ==
  ASSUME PotatoTypeOK, Opening, Game, NEW p \in Players, CalmStep(p)
  PROVE  Ending'
<1>1. CASE OnGoing
  <2>1. ~ Done(p)
    BY <1>1 DEF OnGoing
  <2>2. CASE Updates(p) /\ number_of_cool[p] = num_of_line
    BY <2>2, LastPotato DEF Ending
  <2>3. CASE ~ (Updates(p) /\ number_of_cool[p] = num_of_line)
    <3>1. \E s \in Points : at' = [at EXCEPT ![p] = s] /\ ~ Done(p)'
      <4> USE DEF PotatoTypeOK, Done, Points
      <4>1. CASE TakesFifo(p)
        BY <4>1 DEF TakesFifo, Goes
      <4>2. CASE OpensFifo(p)
        BY <4>2 DEF OpensFifo
      <4>3. CASE ReadsCount(p) \/ WritesCount(p) \/ ThrowsNothing(p) \/ Cools(p)
        BY <4>3 DEF ReadsCount, WritesCount, ThrowsNothing, Cools, Goes
      <4>4. CASE Throws(p)
        <5>1. at' = [at EXCEPT ![p] = "read"]
          BY <4>4, ThrowIsRead
        <5>2. QED  BY <5>1
      <4>5. CASE ReadsFifo(p)
        BY <1>1, <4>5, OverRead DEF ReadsFifo
      <4>6. CASE Updates(p)
        BY <2>3, <4>6 DEF Updates, Goes
      <4>7. CASE TellsAll(p)
        BY <2>1, <4>7, AllAreTold
      <4>8. CASE Posts(p)
        BY <2>1, <4>8 DEF Posts, Goes
      <4>9. QED  BY <4>1, <4>2, <4>3, <4>4, <4>5, <4>6, <4>7, <4>8 DEF CalmStep
    <3>2. \A r \in Players : \A i \in DOMAIN fifo'[r] : fifo'[r][i] # Over
      <4>1. CASE Throws(p) \/ ReadsFifo(p)
        BY <1>1, <4>1, FifosWithoutOver
      <4>2. CASE ~ Throws(p) /\ ~ ReadsFifo(p)
        <5>1. ~ TellsAll(p) /\ at[p] # "posted_over"
          BY <2>1, AllAreTold DEF Done
        <5>2. fifo' = fifo
          BY <4>2, <5>1 DEF CalmStep, TakesFifo, OpensFifo, ReadsCount,
             WritesCount, ThrowsNothing, Cools, Updates, Posts
        <5>3. QED  BY <1>1, <5>2 DEF OnGoing
      <4>3. QED  BY <4>1, <4>2
    <3>3. PICK s \in Points : at' = [at EXCEPT ![p] = s] /\ ~ Done(p)'
      BY <3>1
    <3>4. OnGoing'
      BY <1>1, <3>2, <3>3, OnGoingFrame
    <3>5. QED  BY <3>4 DEF Ending
  <2>4. QED  BY <2>2, <2>3
<1>2. ASSUME NEW w \in Players, Finished(w) PROVE Finished(w)'
  <2>1. \A q \in Players :
          /\ at[q] \notin {"start", "open", "count", "increment", "received",
                           "update"}
          /\ ~ Holds(q)
    BY <1>2, NoneLeft
  <2>2. /\ ~ TakesFifo(p) /\ ~ OpensFifo(p) /\ ~ ReadsCount(p)
        /\ ~ WritesCount(p) /\ ~ Cools(p) /\ ~ Updates(p)
    BY <2>1 DEF TakesFifo, OpensFifo, ReadsCount, WritesCount, Cools, Updates, Goes
  <2>3. ~ Throws(p)
    BY <2>1, ThrowIsRead
  <2>4. ThrowsNothing(p) \/ ReadsFifo(p) \/ TellsAll(p) \/ Posts(p)
    BY <2>2, <2>3 DEF CalmStep
  <2>5. hotness' = hotness
    BY <2>4 DEF ThrowsNothing, ReadsFifo, TellsAll, Posts, shmVars
  <2>6. ASSUME NEW s \in {"loop", "read", "posted_over", "ended"},
               at' = [at EXCEPT ![p] = s]
        PROVE  Cold' = Players /\ BeingCounted' = {}
    <3>1. Cold' = Players
      BY <1>2, <2>5 DEF Cold, Finished
    <3>2. \A q \in Players : at'[q] \notin {"start", "open", "count", "increment",
                                            "update"}
      BY <2>1, <2>6 DEF PotatoTypeOK
    <3>3. QED  BY <3>1, <3>2 DEF BeingCounted
  <2>7. CASE ThrowsNothing(p)
    <3>1. at[p] = "loop" /\ at' = [at EXCEPT ![p] = "read"] /\ fifo' = fifo
      BY <2>7 DEF ThrowsNothing, Goes
    <3>2. p # w /\ ~ Done(p)
      BY <1>2, <3>1 DEF Finished, Done
    <3>3. /\ at'[w] = at[w] /\ ~ Done(p)'
          /\ \A q \in Players \ {w} : q # p => at'[q] = at[q]
      BY <3>1, <3>2 DEF Done, PotatoTypeOK
    <3>4. \A q \in Players \ {w} : /\ ~ Done(q) => ~ Done(q)'
                                   /\ at[q] = "ended" => at'[q] = "ended"
      BY <3>1, <3>2, <3>3 DEF Done
    <3>5. Cold' = Players /\ BeingCounted' = {}
      BY <2>6, <3>1
    <3>6. QED  BY <1>2, <3>1, <3>3, <3>4, <3>5 DEF Finished
  <2>8. CASE Posts(p) /\ at[p] = "post"
    <3>1. at[p] = "post" /\ at' = [at EXCEPT ![p] = "loop"] /\ fifo' = fifo
      BY <2>8 DEF Posts, Goes
    <3>2. p # w /\ ~ Done(p)
      BY <1>2, <3>1 DEF Finished, Done
    <3>3. /\ at'[w] = at[w] /\ ~ Done(p)'
          /\ \A q \in Players \ {w} : q # p => at'[q] = at[q]
      BY <3>1, <3>2 DEF Done, PotatoTypeOK
    <3>4. \A q \in Players \ {w} : /\ ~ Done(q) => ~ Done(q)'
                                   /\ at[q] = "ended" => at'[q] = "ended"
      BY <3>1, <3>2, <3>3 DEF Done
    <3>5. Cold' = Players /\ BeingCounted' = {}
      BY <2>6, <3>1
    <3>6. QED  BY <1>2, <3>1, <3>3, <3>4, <3>5 DEF Finished
  <2>9. CASE Posts(p) /\ at[p] # "post"
    <3>1. at[p] = "posted_over" /\ at' = [at EXCEPT ![p] = "ended"]
          /\ fifo' = [fifo EXCEPT ![p] = <<>>]
      BY <2>9 DEF Posts, Goes, Terminates
    <3>2. p = w
      BY <1>2, <3>1 DEF Finished, Done
    <3>3. fifo' = fifo
      BY <1>2, <3>1, <3>2 DEF Finished, PotatoTypeOK
    <3>4. at'[w] = "ended" /\ \A q \in Players \ {w} : at'[q] = at[q]
      BY <3>1, <3>2 DEF PotatoTypeOK
    <3>5. Cold' = Players /\ BeingCounted' = {}
      BY <2>6, <3>1
    <3>6. QED  BY <1>2, <3>1, <3>2, <3>3, <3>4, <3>5 DEF Finished, Done
  <2>10. CASE TellsAll(p)
    <3>1. /\ Finished(p) /\ at[p] = "tell"
          /\ at' = [at EXCEPT ![p] = "posted_over"]
          /\ fifo' = [q \in Players |-> IF q = p THEN fifo[q]
                                        ELSE Append(fifo[q], Over)]
      BY <2>10, AllAreTold
    <3>2. p = w
      BY <1>2, <3>1 DEF Finished, Done
    <3>3. /\ fifo'[w] = <<>>
          /\ \A q \in Players \ {w} : fifo'[q] = <<Over>>
      BY <3>1, <3>2, OverAlone DEF Finished
    <3>4. at'[w] = "posted_over" /\ \A q \in Players \ {w} : ~ Done(q)'
      BY <3>1, <3>2 DEF Finished, Done, PotatoTypeOK
    <3>5. Cold' = Players /\ BeingCounted' = {}
      BY <2>6, <3>1
    <3>6. QED  BY <3>3, <3>4, <3>5 DEF Finished
  <2>11. CASE ReadsFifo(p)
    <3>1. Head(fifo[p]) = Over
      <4>1. SUFFICES ASSUME Head(fifo[p]) # Over PROVE FALSE
        OBVIOUS
      <4>2. fifo[p] # <<>> /\ at[p] = "read"
        BY <2>11 DEF ReadsFifo
      <4>3. fifo[p] = <<Over>>
        BY <1>2, <4>2 DEF Finished
      <4>4. QED  BY <4>1, <4>3, OverAlone
    <3>2. /\ at[p] = "read" /\ at' = [at EXCEPT ![p] = "ended"]
          /\ fifo' = [fifo EXCEPT ![p] = <<>>]
      BY <2>11, <3>1 DEF ReadsFifo, Terminates
    <3>3. p # w /\ fifo[p] # <<>>
      BY <1>2, <2>11, <3>2 DEF Finished, ReadsFifo
    <3>4. at[w] \in {"posted_over", "ended"}
      BY <1>2, <2>11, <3>3 DEF Finished, ReadsFifo
    <3>5. /\ at'[w] = at[w] /\ at'[p] = "ended" /\ fifo'[w] = fifo[w]
          /\ \A q \in Players \ {p} : at'[q] = at[q] /\ fifo'[q] = fifo[q]
      BY <3>2, <3>3 DEF PotatoTypeOK
    <3>6. Cold' = Players /\ BeingCounted' = {}
      BY <2>6, <3>2
    <3>7. \A q \in Players \ {w} : \/ at'[q] = "ended"
                                   \/ ~ Done(q)' /\ fifo'[q] = <<Over>>
      BY <1>2, <3>4, <3>5 DEF Finished, Done
    <3>8. QED  BY <1>2, <3>4, <3>5, <3>6, <3>7 DEF Finished
  <2>12. QED  BY <2>4, <2>7, <2>8, <2>9, <2>10, <2>11
<1>3. QED
  <2>1. CASE \E w \in Players : Finished(w)
    BY <1>2, <2>1 DEF Ending
  <2>2. QED  BY <1>1, <2>1 DEF Game, Ending

-------------------------------------------------------------------------------
(* The theorems                                                            *)

LEMMA GameInit == PotatoInit => Game
<1> SUFFICES ASSUME PotatoInit PROVE Game
  OBVIOUS
<1>1. /\ \A p \in Players : /\ at[p] = "start" /\ opened[p] = 0
                            /\ fifo[p] = <<>> /\ patato_id[p] = p
                            /\ number_of_cool[p] = Unset
      /\ interrupt = {} /\ cool_count = 0 /\ sem = 1
      /\ current_patatoe_hot = {p \in Players : hotness[p] > 0}
  BY DEF PotatoInit
<1>2. \A p \in Players : hotness[p] \in Int
  BY PotatoTypeInit DEF PotatoTypeOK
<1>3. Rendezvous
  <2>1. \A p, i \in Players : ~ (opened[p] > i)
    BY <1>1, PlayersFinite
  <2>2. QED  BY <2>1 DEF Rendezvous
<1>4. OneAtSemaphore
  BY <1>1 DEF OneAtSemaphore, AtSemaphore
<1>5. \A p \in Players : DOMAIN fifo[p] = {}
  BY <1>1, OverAlone
<1>6. \A p \in Players : /\ Holds(p) <=> Hot(p)
                         /\ p \in current_patatoe_hot <=> Hot(p)
  BY <1>1 DEF Holds, Hot
<1>7. Places
  BY <1>1, <1>5, <1>6 DEF Places, BeforeGame
<1>8. Counts
  <2>1. BeingCounted = Cold
    BY <1>1 DEF BeingCounted, Cold
  <2>2. Counted = 0
    BY <2>1, ColdFacts DEF Counted
  <2>3. QED  BY <1>1, <2>2 DEF Counts, Counting
<1>9. OnGoing
  BY <1>1, <1>5 DEF OnGoing, Done
<1>10. QED  BY <1>1, <1>3, <1>4, <1>7, <1>8, <1>9 DEF Game, Ending

LEMMA PotatoStep ==
  PotatoInv /\ [PotatoNext]_potatoVars => PotatoInv'
<1> SUFFICES ASSUME PotatoInv, [PotatoNext]_potatoVars PROVE PotatoInv'
  OBVIOUS
<1>1. PotatoTypeOK /\ Opening
  BY DEF PotatoInv
<1>2. PotatoTypeOK' /\ Opening'
  BY <1>1, PotatoTypeStep
<1>3. CASE UNCHANGED potatoVars
  <2> USE <1>3 DEF potatoVars, shmVars, playerVars
  <2>1. (NobodyLeft' <=> NobodyLeft) /\ interrupt' = interrupt
    BY DEF NobodyLeft
  <2>2. (Rendezvous' <=> Rendezvous) /\ (OneAtSemaphore' <=> OneAtSemaphore)
    BY DEF Rendezvous, OneAtSemaphore, AtSemaphore
  <2>3. Places' <=> Places
    BY DEF Places, BeforeGame, Holds, Hot
  <2>4. Cold' = Cold /\ BeingCounted' = BeingCounted
    BY DEF Cold, BeingCounted
  <2>5. Counts' <=> Counts
    BY <2>4 DEF Counts, Counted, Counting
  <2>6. Ending' <=> Ending
    BY <2>4 DEF Ending, OnGoing, Finished, Done
  <2>7. QED  BY <1>2, <2>1, <2>2, <2>3, <2>5, <2>6 DEF PotatoInv, Game
<1>4. CASE PotatoNext
  <2>1. SUFFICES ASSUME NobodyLeft' PROVE Game'
    BY <1>2 DEF PotatoInv
  <2>2. trouble \subseteq trouble'
    BY <1>4 DEF PotatoNext, Player, GetsSigint, TakesFifo, OpensFifo, ReadsCount,
       WritesCount, SeesInterrupt, Throws, ThrowsNothing, ReadsFifo, ReadsEof,
       Cools, Updates, StoresCount, ComparesUninitialised, TellsAll, Posts
  <2>3. Game
    BY <2>1, <2>2 DEF PotatoInv, NobodyLeft
  <2>4. interrupt' = {} /\ \E p \in Players : CalmStep(p)
    BY <1>1, <1>4, <2>1, <2>3, CalmSteps
  <2>5. PICK p \in Players : CalmStep(p)
    BY <2>4
  <2>6. Rendezvous' /\ OneAtSemaphore' /\ Places' /\ Counts' /\ Ending'
    BY <1>1, <2>3, <2>5, RendezvousStep, SemaphoreStep, PlacesStep, CountsStep,
       EndingStep
  <2>7. QED  BY <2>4, <2>6 DEF Game
<1>5. QED  BY <1>3, <1>4

\* For every number of players and all temperatures: ends of FIFOs, the
\* semaphore, the places of the potatoes, their count and the end of the game
\* agree with each other until a player is interrupted or stops the game by an
\* uninitialised number.
THEOREM PotatoesAgree == PotatoSpec => []PotatoInv
<1>1. PotatoInit => PotatoInv
  BY PotatoTypeInit, GameInit DEF PotatoInv
<1>2. QED  BY <1>1, PotatoStep, PTL DEF PotatoSpec

LEMMA InOnePlace == PotatoInv => PotatoInOnePlace
<1> SUFFICES ASSUME PotatoInv, NobodyLeft, NEW q \in Players
             PROVE  Cardinality(Holders(q)) + Cardinality(InFifos(q))
                      = IF q \in Cold THEN 0 ELSE 1
  BY DEF PotatoInOnePlace
<1>1. PotatoTypeOK /\ Places
  BY DEF PotatoInv, Game
<1>2. q # Over /\ (q \in Cold <=> ~ Hot(q))
  BY <1>1, OverAlone DEF Cold, Hot, PotatoTypeOK
<1>3. Holders(q) = {p \in Players : Holds(p) /\ patato_id[p] = q}
  BY <1>1 DEF Holders, Holds, PotatoTypeOK
<1>4. \A e : e \in InFifos(q) <=>
        \E p \in Players : \E i \in DOMAIN fifo[p] : fifo[p][i] = q /\ e = <<p, i>>
  BY DEF InFifos
<1>5. /\ Cardinality({}) = 0
      /\ \A e : Cardinality({e}) = 1
  BY FS_EmptySet, FS_Singleton
<1>6. CASE \E p \in Players : Holds(p) /\ patato_id[p] = q
  <2>1. PICK p \in Players : Holds(p) /\ patato_id[p] = q
    BY <1>6
  <2>2. Hot(q)
    BY <1>1, <2>1 DEF Places
  <2>3. Holders(q) = {p}
    BY <1>1, <1>3, <2>1 DEF Places
  <2>4. \A r \in Players : \A i \in DOMAIN fifo[r] : fifo[r][i] # q
    BY <1>1, <1>2, <2>1 DEF Places
  <2>5. InFifos(q) = {}
    BY <1>4, <2>4
  <2>6. QED  BY <1>2, <1>5, <2>2, <2>3, <2>5
<1>7. CASE ~ \E p \in Players : Holds(p) /\ patato_id[p] = q
  <2>1. Holders(q) = {}
    BY <1>3, <1>7
  <2>2. CASE \E p \in Players : \E i \in DOMAIN fifo[p] : fifo[p][i] = q
    <3>1. PICK p \in Players : \E i \in DOMAIN fifo[p] : fifo[p][i] = q
      BY <2>2
    <3>2. PICK i \in DOMAIN fifo[p] : fifo[p][i] = q
      BY <3>1
    <3>3. Hot(q)
      BY <1>1, <1>2, <3>2 DEF Places
    <3>4. \A r \in Players : \A j \in DOMAIN fifo[r] :
            fifo[r][j] = q => r = p /\ j = i
      BY <1>1, <1>2, <3>2 DEF Places
    <3>5. \A e : e \in InFifos(q) <=> e = <<p, i>>
      BY <1>4, <3>2, <3>4
    <3>6. InFifos(q) = {<<p, i>>}
      BY <3>5
    <3>7. Cardinality(InFifos(q)) = 1 /\ Cardinality(Holders(q)) = 0
      BY <1>5, <2>1, <3>6, Zenon
    <3>8. QED  BY <1>2, <3>3, <3>7
  <2>3. CASE ~ \E p \in Players : \E i \in DOMAIN fifo[p] : fifo[p][i] = q
    <3>1. InFifos(q) = {}
      BY <1>4, <2>3
    <3>2. ~ Hot(q)
      BY <1>1, <1>7, <2>3 DEF Places
    <3>3. QED  BY <1>2, <1>5, <2>1, <3>1, <3>2
  <2>4. QED  BY <2>2, <2>3
<1>8. QED  BY <1>6, <1>7

\* A hot potato is always in exactly one place: no throw loses or doubles it.
THEOREM PotatoesKept == PotatoSpec => []PotatoInOnePlace
  BY PotatoesAgree, InOnePlace, PTL

\* The shared count is never above the number of cold potatoes, and exact
\* without a lost update.
THEOREM CountNeverAhead == PotatoSpec => []CountFollowsPotatoes
<1>1. PotatoInv => CountFollowsPotatoes
  <2> SUFFICES ASSUME PotatoInv PROVE CountFollowsPotatoes
    OBVIOUS
  <2>1. trouble = {} => NobodyLeft
    BY DEF NobodyLeft
  <2>2. NobodyLeft => /\ cool_count <= Counted
                      /\ trouble = {} => cool_count = Counted
    BY DEF PotatoInv, Game, Counts
  <2>3. /\ cool_count \in Int /\ Counted \in Int
        /\ Cardinality(Cold) \in Nat /\ Counted <= Cardinality(Cold)
    BY ColdFacts DEF PotatoInv, PotatoTypeOK
  <2>4. NobodyLeft => cool_count <= Cardinality(Cold)
    BY <2>2, <2>3
  <2>5. trouble = {} => cool_count = Cardinality(Cold) - Cardinality(BeingCounted)
    BY <2>1, <2>2 DEF Counted
  <2>6. QED  BY <2>4, <2>5 DEF CountFollowsPotatoes
<1>2. QED  BY <1>1, PotatoesAgree, PTL

\* Nobody says that all potatoes are cold, or leaves, before they are, and no
\* throw kills its player.
THEOREM OverIsTrue == PotatoSpec => []OverWhenAllCold
<1>1. PotatoInv => OverWhenAllCold
  <2> SUFFICES ASSUME PotatoInv, NobodyLeft, NEW p \in Players
               PROVE  /\ at[p] \in {"tell", "posted_over", "ended"} => Cold = Players
                      /\ at[p] # "killed"
    BY DEF OverWhenAllCold
  <2>1. CASE Done(p)
    <3>1. PICK w \in Players : Finished(w)
      BY <2>1 DEF PotatoInv, Game, Ending, OnGoing
    <3>2. Cold = Players
      BY <3>1 DEF Finished
    <3>3. at[p] # "killed"
      BY <3>1 DEF Finished, Done
    <3>4. QED  BY <3>2, <3>3
  <2>2. CASE ~ Done(p)
    BY <2>2 DEF Done
  <2>3. QED  BY <2>1, <2>2
<1>2. QED  BY <1>1, PotatoesAgree, PTL

-------------------------------------------------------------------------------
(* Part 2: hw4.  The invariant of the market                               *)

MarketTypeOK ==
  /\ main \in {"poll", "wait_std", "find", "wait_taken", "close", "join",
               "reported", "exited"}
  /\ sfh \in [Lines -> {"wait", "woken", "taken", "solving", "free", "exited"}]
  /\ suit_index \in Lines \cup {NoStudent} /\ line \in 0 .. std_table_size
  /\ sem_available_std \in Nat /\ hw_taken \in Nat
  /\ sfh_sems \in [Lines -> Nat] /\ completed_hw \in [Lines -> Nat]
  /\ available \in SUBSET Students
  /\ remaining_money \in Nat
  /\ wait_for_assignment \in {0, 1} /\ no_monney \in {0, 1}

\* The flags of the end are set at their points of main.
Ends ==
  /\ wait_for_assignment = 0 <=> main \in {"join", "reported"}
  /\ no_monney = 1 => main \in {"close", "join", "reported"}
  /\ main = "reported" => \A s \in Lines : sfh[s] = "exited"

\* Whom main has chosen, it can still choose: only main takes marks and money.
Choice ==
  main = "find" /\ suit_index # NoStudent =>
    suit_index \in available /\ monney[suit_index] < remaining_money

\* The homework main has assigned is in sfh_sems, with a student that woke, or
\* in hw_taken ...
Handing(s) ==
  \/ sfh_sems[s] = 1 /\ sfh[s] \in {"wait", "free"} /\ hw_taken = 0
  \/ sfh_sems[s] = 0 /\ sfh[s] = "woken" /\ hw_taken = 0
  \/ /\ sfh_sems[s] = 0 /\ hw_taken = 1
     /\ sfh[s] \in {"taken", "solving", "free", "wait"}

\* ... and there is no other.
Idle(s) == sfh_sems[s] = 0 /\ sfh[s] \in {"wait", "taken", "solving", "free"}

\* At the end every student is posted once more.
Leaving(s) == \/ /\ sfh_sems[s] = 1
                 /\ sfh[s] \in {"wait", "taken", "solving", "free"}
              \/ sfh_sems[s] = 0 /\ sfh[s] \in {"woken", "exited"}

Handover ==
  /\ main = "wait_taken" =>
       suit_index \in Students /\ Handing(suit_index)
  /\ main # "wait_taken" => hw_taken = 0
  /\ \A s \in Lines :
       IF wait_for_assignment = 0 THEN Leaving(s)
       ELSE (main = "wait_taken" /\ s = suit_index) \/ Idle(s)

\* available marks the students who have nothing to do.
Busy(s) == \/ sfh[s] \in {"taken", "solving"}
           \/ wait_for_assignment = 1 /\ (sfh_sems[s] = 1 \/ sfh[s] = "woken")

Marks ==
  /\ \A s \in Students : s \in available <=> ~Busy(s)
  /\ \A s \in BlankLines : sfh[s] \notin {"taken", "solving", "free"}

MarketInv == MarketTypeOK /\ Ends /\ Choice /\ Handover /\ Marks

\* Every homework that main polled is assigned, or it is the one main has not
\* found a student for, or the end of the queue.
Accounts ==
  /\ remaining_money + SumFunction(Earned) = initial_money
  /\ initial_money > 0 => remaining_money > 0
  /\ head = SumFunction(Assigned)
              + (IF main \in {"poll", "wait_taken"} THEN 0 ELSE 1)

AtTheEnd == main \in {"close", "join", "reported"} /\ no_monney = 0

\* The queue holds the bytes read and, last, a D.  Of those main has polled none
\* but the last may be a D, and that is so when it closes with money left.
Queued ==
  /\ h \in {"read", "test", "exited"}
  /\ file \in Seq(Bytes) /\ read \in 0 .. Len(file)
  /\ queue \in Seq(Bytes) /\ head \in Nat /\ sem_has_hw \in Nat
  /\ Len(queue) = head + sem_has_hw
  /\ Len(queue) = read + (IF h = "exited" THEN 1 ELSE 0)
  /\ \A i \in 1 .. read : queue[i] = file[i]
  /\ h = "exited" => queue[read + 1] = "D"
  /\ h = "exited" /\ no_monney = 0 => read = Len(file)
  /\ \A i \in 1 .. head - 1 : queue[i] # "D"
  /\ IF AtTheEnd THEN head > 0 /\ queue[head] = "D"
     ELSE head > 0 => queue[head] # "D"

-------------------------------------------------------------------------------
LEMMA Attributes ==
  /\ std_table_size \in Nat /\ initial_money \in Nat
  /\ monney \in [Lines -> Nat]
  /\ Students \subseteq Lines /\ BlankLines \subseteq Lines
  /\ \A s \in Lines : s \in Int /\ 0 <= s /\ s + 1 <= std_table_size
  /\ \A s \in Lines : s \in Students <=> s \notin BlankLines
  /\ NoStudent \notin Lines
<1>1. /\ std_table_size \in Nat /\ initial_money \in Nat
      /\ monney \in [Lines -> Nat] /\ BlankLines \subseteq Lines
  BY MarketAssumption
<1>2. \A s \in Lines : s \in Int /\ 0 <= s /\ s + 1 <= std_table_size
  BY <1>1 DEF Lines
<1>3. Students \subseteq Lines /\ \A s \in Lines : s \in Students <=> s \notin BlankLines
  BY DEF Students
<1>4. NoStudent \notin Lines
  BY <1>2 DEF NoStudent
<1>5. QED  BY <1>1, <1>2, <1>3, <1>4

\* Whatever the comparison says, the scan keeps its choice or takes this line.
LEMMA ScanChooses ==
  MainScans => \/ suit_index' = suit_index
               \/ suit_index' = line /\ Candidate(line)
<1> SUFFICES ASSUME MainScans
             PROVE  \/ suit_index' = suit_index
                    \/ suit_index' = line /\ Candidate(line)
  OBVIOUS
<1>1. CASE ~Candidate(line)
  BY <1>1 DEF MainScans
<1>2. CASE Candidate(line) /\ suit_index = NoStudent
  BY <1>2 DEF MainScans
<1>3. CASE Candidate(line) /\ suit_index # NoStudent
  <2> DEFINE better == Better(ch, line, suit_index)
  <2>1. suit_index' = IF better THEN line ELSE suit_index
    BY <1>3 DEF MainScans
  <2> HIDE DEF better
  <2>2. QED  BY <1>3, <2>1
<1>4. QED  BY <1>1, <1>2, <1>3

\* MarketInv is inductive, one step for every action.
LEMMA InvInit == MarketInit => MarketInv
  BY Attributes DEF MarketInit, MarketInv, MarketTypeOK, Ends, Choice, Handover,
     Idle, Marks, Busy, Leaving

LEMMA InvStep == MarketInv /\ [MarketNext]_marketVars => MarketInv'
<1> SUFFICES ASSUME MarketInv, [MarketNext]_marketVars PROVE MarketInv'
  OBVIOUS
<1> USE Attributes
       DEF MarketInv, MarketTypeOK, Ends, Choice, Handover, Handing, Idle,
           Leaving, Marks, Busy, hVars, queueVars, tableVars, handVars
<1>1. CASE HReads
  BY <1>1 DEF HReads
<1>2. CASE HTests
  BY <1>2 DEF HTests
<1>3. CASE MainPolls
  BY <1>3 DEF MainPolls
<1>4. CASE MainWaitsStudent
  BY <1>4 DEF MainWaitsStudent
<1>5. CASE MainScans
  <2>1. line \in Lines /\ line' \in 0 .. std_table_size
    BY <1>5 DEF MainScans, Lines
  <2>2. \/ suit_index' = suit_index
        \/ suit_index' = line /\ Candidate(line)
    BY <1>5, ScanChooses
  <2>3. QED  BY <1>5, <2>1, <2>2 DEF MainScans, Candidate
<1>6. CASE MainExits
  BY <1>6 DEF MainExits
<1>7. CASE MainAssigns
  BY <1>7 DEF MainAssigns
<1>8. CASE MainFindsNobody
  BY <1>8 DEF MainFindsNobody
<1>9. CASE MainWaitsTaken
  BY <1>9 DEF MainWaitsTaken
<1>10. CASE MainCloses
  BY <1>10 DEF MainCloses
<1>11. CASE MainJoins
  BY <1>11 DEF MainJoins
<1>12. ASSUME NEW s \in Lines, StudentWakes(s) PROVE MarketInv'
  BY <1>12 DEF StudentWakes
<1>13. ASSUME NEW s \in Lines, StudentTests(s) PROVE MarketInv'
  BY <1>13 DEF StudentTests
<1>14. ASSUME NEW s \in Lines, StudentSolves(s) PROVE MarketInv'
  BY <1>14 DEF StudentSolves
<1>15. ASSUME NEW s \in Lines, StudentIsFree(s) PROVE MarketInv'
  BY <1>15 DEF StudentIsFree
<1>16. ASSUME NEW s \in Lines, StudentPosts(s) PROVE MarketInv'
  BY <1>16 DEF StudentPosts
<1>17. CASE UNCHANGED marketVars
  BY <1>17 DEF marketVars
<1>18. QED
  BY <1>1, <1>2, <1>3, <1>4, <1>5, <1>6, <1>7, <1>8, <1>9, <1>10, <1>11, <1>12, <1>13, <1>14, <1>15, <1>16, <1>17 DEF MarketNext, H, Student, Main

-------------------------------------------------------------------------------
(* Homework and money.                                                     *)

LEMMA LinesFinite ==
  /\ IsFiniteSet(Lines) /\ Cardinality(Lines) = std_table_size
  /\ IsFiniteSet(Students) /\ IsFiniteSet(BlankLines)
<1>1. IsFiniteSet(Lines) /\ Cardinality(Lines) = std_table_size
  BY Attributes, FS_Interval DEF Lines
<1>2. QED  BY <1>1, Attributes, FS_Subset

LEMMA AssignedType ==
  ASSUME MarketTypeOK
  PROVE  Assigned \in [Lines -> Int] /\ Earned \in [Lines -> Int]
<1>1. Assigned \in [Lines -> Nat]
  BY DEF MarketTypeOK, Assigned
<1>2. QED  BY <1>1, Attributes DEF Earned

\* Once assigned, a homework stays counted as it goes from hand to hand: that
\* is, nothing but the assignment changes what a student has been given.
LEMMA AssignedStands ==
  ASSUME MarketInv, [MarketNext]_marketVars, ~MainAssigns
  PROVE  Assigned' = Assigned
<1> SUFFICES \A s \in Lines :
               (completed_hw[s] + IF Unfinished(s) THEN 1 ELSE 0)'
                 = completed_hw[s] + IF Unfinished(s) THEN 1 ELSE 0
  BY DEF Assigned
<1> USE Attributes
       DEF MarketInv, MarketTypeOK, Handover, Handing, Idle, Leaving, Ends,
           Unfinished, hVars, queueVars, tableVars, handVars
<1>1. CASE HReads
  BY <1>1 DEF HReads
<1>2. CASE HTests
  BY <1>2 DEF HTests
<1>3. CASE MainPolls
  BY <1>3 DEF MainPolls
<1>4. CASE MainWaitsStudent
  BY <1>4 DEF MainWaitsStudent
<1>5. CASE MainScans
  BY <1>5 DEF MainScans
<1>6. CASE MainExits
  BY <1>6 DEF MainExits
<1>7. CASE MainFindsNobody
  BY <1>7 DEF MainFindsNobody
<1>8. CASE MainWaitsTaken
  BY <1>8 DEF MainWaitsTaken
<1>9. CASE MainCloses
  BY <1>9 DEF MainCloses
<1>10. CASE MainJoins
  BY <1>10 DEF MainJoins
<1>11. ASSUME NEW u \in Lines, StudentWakes(u)
      PROVE  \A s \in Lines :
               (completed_hw[s] + IF Unfinished(s) THEN 1 ELSE 0)'
                 = completed_hw[s] + IF Unfinished(s) THEN 1 ELSE 0
  BY <1>11 DEF StudentWakes
<1>12. ASSUME NEW u \in Lines, StudentTests(u)
      PROVE  \A s \in Lines :
               (completed_hw[s] + IF Unfinished(s) THEN 1 ELSE 0)'
                 = completed_hw[s] + IF Unfinished(s) THEN 1 ELSE 0
  BY <1>12 DEF StudentTests
<1>13. ASSUME NEW u \in Lines, StudentSolves(u)
      PROVE  \A s \in Lines :
               (completed_hw[s] + IF Unfinished(s) THEN 1 ELSE 0)'
                 = completed_hw[s] + IF Unfinished(s) THEN 1 ELSE 0
  BY <1>13 DEF StudentSolves
<1>14. ASSUME NEW u \in Lines, StudentIsFree(u)
      PROVE  \A s \in Lines :
               (completed_hw[s] + IF Unfinished(s) THEN 1 ELSE 0)'
                 = completed_hw[s] + IF Unfinished(s) THEN 1 ELSE 0
  BY <1>14 DEF StudentIsFree
<1>15. ASSUME NEW u \in Lines, StudentPosts(u)
      PROVE  \A s \in Lines :
               (completed_hw[s] + IF Unfinished(s) THEN 1 ELSE 0)'
                 = completed_hw[s] + IF Unfinished(s) THEN 1 ELSE 0
  BY <1>15 DEF StudentPosts
<1>16. CASE UNCHANGED marketVars
  BY <1>16 DEF marketVars
<1>17. QED
  BY <1>1, <1>2, <1>3, <1>4, <1>5, <1>6, <1>7, <1>8, <1>9, <1>10, <1>11, <1>12, <1>13, <1>14, <1>15, <1>16
     DEF MarketNext, H, Student, Main

LEMMA AssignedGrows ==
  ASSUME MarketInv, MainAssigns
  PROVE  Assigned' = [Assigned EXCEPT ![suit_index] = @ + 1]
<1>1. suit_index \in Lines /\ sfh[suit_index] # "taken"
  BY Attributes DEF MarketInv, MarketTypeOK, Choice, Marks, Busy, MainAssigns
<1>2. Assigned[suit_index] = completed_hw[suit_index]
  BY <1>1 DEF Assigned, Unfinished, MainAssigns, MarketInv, MarketTypeOK
<1>3. Assigned'[suit_index] = completed_hw[suit_index] + 1
  <2>1. Unfinished(suit_index)'
    BY DEF MarketInv, Handover, Unfinished, MainAssigns, handVars
  <2>2. QED  BY <1>1, <2>1 DEF Assigned, MainAssigns
<1>4. \A s \in Lines \ {suit_index} : Assigned'[s] = Assigned[s]
  BY DEF Assigned, Unfinished, MainAssigns
<1>5. QED  BY <1>1, <1>2, <1>3, <1>4 DEF Assigned

LEMMA AccountsInit == MarketInit => Accounts
<1> SUFFICES ASSUME MarketInit PROVE Accounts
  OBVIOUS
<1>1. \A s \in Lines : Assigned[s] = 0 /\ Earned[s] = 0
  <2>1. \A s \in Lines : ~Unfinished(s)
    BY DEF MarketInit, Unfinished
  <2>2. \A s \in Lines : Assigned[s] = 0
    BY <2>1 DEF MarketInit, Assigned
  <2>3. QED  BY <2>2, Attributes DEF Earned
<1>2. SumFunction(Assigned) = 0 /\ SumFunction(Earned) = 0
  <2>1. Assigned \in [Lines -> Int] /\ Earned \in [Lines -> Int]
    BY AssignedType, InvInit DEF MarketInv
  <2>2. \A f \in [Lines -> Int] :
          (\A s \in Lines : f[s] = 0) => SumFunction(f) = 0
    BY LinesFinite, TotalOfEqualTerms, FS_CardinalityType
  <2>3. QED  BY <1>1, <2>1, <2>2
<1>3. QED  BY <1>2, Attributes DEF MarketInit, Accounts

LEMMA AccountsStep ==
  MarketInv /\ MarketInv' /\ Accounts /\ Queued /\ [MarketNext]_marketVars
    => Accounts'
<1> SUFFICES ASSUME MarketInv, MarketInv', Accounts, Queued,
                    [MarketNext]_marketVars
             PROVE  Accounts'
  OBVIOUS
<1>1. /\ Assigned \in [Lines -> Int] /\ Earned \in [Lines -> Int]
      /\ SumFunction(Assigned) \in Int /\ SumFunction(Earned) \in Int
  BY AssignedType, LinesFinite, TotalType DEF MarketInv
<1>2. CASE MainAssigns
  <2> DEFINE s == suit_index
  <2>1. s \in Lines /\ monney[s] \in Nat /\ monney[s] < remaining_money
    BY <1>2, Attributes DEF MarketInv, MarketTypeOK, Choice, MainAssigns
  <2>2. Assigned' = [Assigned EXCEPT ![s] = @ + 1]
    BY <1>2, AssignedGrows
  <2>3. /\ Earned'[s] = Earned[s] + monney[s]
        /\ \A u \in Lines \ {s} : Earned'[u] = Earned[u]
    <3>1. Assigned'[s] = Assigned[s] + 1 /\ Assigned[s] \in Int
      BY <1>1, <2>1, <2>2
    <3>2. monney[s] * (Assigned[s] + 1) = monney[s] * Assigned[s] + monney[s]
      BY <2>1, <3>1
    <3>3. /\ Earned[s] = monney[s] * Assigned[s]
          /\ Earned'[s] = monney[s] * (Assigned[s] + 1)
      BY <2>1, <3>1 DEF Earned
    <3>4. QED  BY <1>1, <2>2, <3>2, <3>3 DEF Earned
  <2>4. Assigned' \in [Lines -> Int] /\ Earned' \in [Lines -> Int]
    <3>1. \A u \in Lines : Earned'[u] \in Int
      BY <1>1, <2>1, <2>3
    <3>2. QED  BY <1>1, <2>1, <2>2, <3>1 DEF Earned
  <2>5. SumFunction(Assigned') = SumFunction(Assigned) + 1
    <3>1. \A u \in Lines \ {s} : Assigned'[u] = Assigned[u]
      BY <1>1, <2>2
    <3>2. SumFunction(Assigned')
            = SumFunction(Assigned) + Assigned'[s] - Assigned[s]
      BY <1>1, <2>1, <2>4, <3>1, LinesFinite, TotalChanges
    <3>3. Assigned'[s] = Assigned[s] + 1 /\ Assigned[s] \in Int
      BY <1>1, <2>1, <2>2
    <3>4. QED  BY <1>1, <3>2, <3>3
  <2>6. SumFunction(Earned') = SumFunction(Earned) + monney[s]
    <3>1. SumFunction(Earned') = SumFunction(Earned) + Earned'[s] - Earned[s]
      BY <1>1, <2>1, <2>3, <2>4, LinesFinite, TotalChanges
    <3>2. Earned[s] \in Int
      BY <1>1, <2>1
    <3>3. QED  BY <1>1, <2>1, <2>3, <3>1, <3>2
  <2>7. /\ main = "find" /\ main' = "wait_taken" /\ head' = head
        /\ remaining_money' = remaining_money - monney[s]
        /\ remaining_money \in Nat
    BY <1>2 DEF MainAssigns, queueVars, MarketInv, MarketTypeOK
  <2> HIDE DEF s
  <2>8. QED  BY <1>1, <2>1, <2>5, <2>6, <2>7, Attributes DEF Accounts
<1>3. CASE ~MainAssigns
  <2>1. Assigned' = Assigned /\ Earned' = Earned
    BY <1>3, AssignedStands DEF Earned
  <2>2. remaining_money' = remaining_money
    BY <1>3 DEF MarketNext, H, Student, Main, HReads, HTests, StudentWakes,
       StudentTests, StudentSolves, StudentIsFree, StudentPosts, MainPolls,
       MainWaitsStudent, MainScans, MainExits, MainFindsNobody,
       MainWaitsTaken, MainCloses, MainJoins, marketVars
  <2>3. head' = (head - IF main \in {"poll", "wait_taken"} THEN 0 ELSE 1)
                  + IF main' \in {"poll", "wait_taken"} THEN 0 ELSE 1
    BY <1>3 DEF MarketNext, H, Student, Main, HReads, HTests, StudentWakes,
       StudentTests, StudentSolves, StudentIsFree, StudentPosts, MainPolls,
       MainWaitsStudent, MainScans, MainExits, MainFindsNobody,
       MainWaitsTaken, MainCloses, MainJoins, marketVars, queueVars, Queued
  <2>4. QED  BY <1>1, <2>1, <2>2, <2>3 DEF Accounts
<1>4. QED  BY <1>2, <1>3

-------------------------------------------------------------------------------
(* The queue between student_h and main.                                   *)

LEMMA QueuedInit == MarketInit => Queued
<1> SUFFICES ASSUME MarketInit PROVE Queued
  OBVIOUS
<1>1. file \in Seq(Bytes) /\ Len(file) \in Nat
  BY MarketAssumption DEF MarketInit
<1>2. queue \in Seq(Bytes) /\ Len(queue) = 0
  BY DEF MarketInit
<1>3. QED  BY <1>1, <1>2 DEF MarketInit, Queued, AtTheEnd

LEMMA QueuedStep ==
  MarketInv /\ Queued /\ [MarketNext]_marketVars => Queued'
<1> SUFFICES ASSUME MarketInv, Queued, [MarketNext]_marketVars PROVE Queued'
  OBVIOUS
<1>1. /\ Len(file) \in Nat /\ Len(queue) \in Nat
      /\ \A i \in 1 .. Len(file) : file[i] \in Bytes
      /\ "D" \in Bytes
  BY DEF Queued, Bytes
<1>2. ASSUME NEW hw \in Bytes, queue' = Append(queue, hw)
      PROVE  /\ queue' \in Seq(Bytes)
             /\ Len(queue') = Len(queue) + 1
             /\ \A i \in 1 .. Len(queue) : queue'[i] = queue[i]
             /\ queue'[Len(queue) + 1] = hw
  BY <1>2 DEF Queued
\* What is added is behind what main has polled.
<1>3. ASSUME NEW hw \in Bytes, Adds(hw), h # "exited", file' = file,
             h' \in {"read", "test", "exited"},
             UNCHANGED <<main, head, no_monney>>,
             \/ hw = file[read + 1] /\ read' = read + 1 /\ h' # "exited"
                /\ read < Len(file)
             \/ /\ hw = "D" /\ read' = read /\ h' = "exited"
                /\ no_monney = 0 => read = Len(file)
      PROVE  Queued'
  <2>1. /\ queue' \in Seq(Bytes) /\ Len(queue') = Len(queue) + 1
        /\ \A i \in 1 .. Len(queue) : queue'[i] = queue[i]
        /\ queue'[Len(queue) + 1] = hw
    BY <1>2, <1>3 DEF Adds
  <2>2. Len(queue) = read /\ head <= read /\ head \in Nat /\ read \in Nat
    BY <1>1, <1>3 DEF Queued
  <2>3. /\ \A i \in 1 .. head - 1 : queue'[i] # "D"
        /\ head > 0 => queue'[head] = queue[head]
    BY <2>1, <2>2 DEF Queued
  <2>4. IF AtTheEnd' THEN head' > 0 /\ queue'[head'] = "D"
        ELSE head' > 0 => queue'[head'] # "D"
    BY <1>3, <2>2, <2>3 DEF Queued, AtTheEnd
  <2>5. /\ Len(queue') = head' + sem_has_hw' /\ sem_has_hw' \in Nat
        /\ head' \in Nat
        /\ file' \in Seq(Bytes) /\ read' \in 0 .. Len(file')
        /\ Len(queue') = read' + (IF h' = "exited" THEN 1 ELSE 0)
    BY <1>1, <1>3, <2>1, <2>2 DEF Adds, Queued
  <2>6. \A i \in 1 .. read' : queue'[i] = file'[i]
    BY <1>3, <2>1, <2>2 DEF Queued
  <2>7. /\ h' = "exited" => queue'[read' + 1] = "D"
        /\ h' = "exited" /\ no_monney' = 0 => read' = Len(file')
    BY <1>3, <2>1, <2>2
  <2>8. \A i \in 1 .. head' - 1 : queue'[i] # "D"
    BY <1>3, <2>3
  <2>9. QED  BY <1>3, <2>1, <2>4, <2>5, <2>6, <2>7, <2>8 DEF Queued
<1>4. CASE HReads
  <2>1. CASE read < Len(file)
    <3>1. file[read + 1] \in Bytes
      BY <1>1, <2>1 DEF Queued
    <3>2. QED  BY <1>3, <1>4, <2>1, <3>1 DEF HReads
  <2>2. CASE ~(read < Len(file))
    <3>1. read = Len(file)
      BY <1>1, <2>2 DEF Queued
    <3>2. QED  BY <1>1, <1>3, <1>4, <2>2, <3>1 DEF HReads
  <2>3. QED  BY <2>1, <2>2
<1>5. CASE HTests
  <2>1. CASE no_monney = 1
    BY <1>1, <1>3, <1>5, <2>1 DEF HTests
  <2>2. CASE no_monney # 1
    BY <1>5, <2>2 DEF HTests, Queued, AtTheEnd
  <2>3. QED  BY <2>1, <2>2
<1>6. CASE MainPolls
  <2>1. /\ head + 1 \in 1 .. Len(queue) /\ head' = head + 1 /\ head \in Nat
        /\ sem_has_hw' = sem_has_hw - 1 /\ sem_has_hw' \in Nat
        /\ queue' = queue
    BY <1>1, <1>6 DEF MainPolls, Queued
  <2>2. \A i \in 1 .. head' - 1 : queue'[i] # "D"
    BY <1>6, <2>1 DEF MainPolls, Queued, AtTheEnd
  <2>3. no_monney' = 0
    BY <1>6 DEF MainPolls, MarketInv, MarketTypeOK, Ends
  <2>4. IF AtTheEnd' THEN head' > 0 /\ queue'[head'] = "D"
        ELSE head' > 0 => queue'[head'] # "D"
    BY <1>6, <2>1, <2>3 DEF MainPolls, AtTheEnd
  <2>5. QED  BY <1>6, <2>1, <2>2, <2>4 DEF MainPolls, Queued, hVars
<1>7. CASE UNCHANGED <<h, file, read, queue, head, sem_has_hw>>
  <2>1. no_monney' = no_monney \/ no_monney' = 1
    BY DEF MarketNext, H, Student, Main, HReads, HTests, StudentWakes,
       StudentTests, StudentSolves, StudentIsFree, StudentPosts, MainPolls,
       MainWaitsStudent, MainScans, MainExits, MainAssigns, MainFindsNobody,
       MainWaitsTaken, MainCloses, MainJoins, marketVars
  <2>2. main' \in {"close", "join", "reported"} /\ no_monney' = 0 <=>
          main \in {"close", "join", "reported"} /\ no_monney = 0
    BY <1>7 DEF MarketNext, H, Student, Main, HReads, HTests, StudentWakes,
       StudentTests, StudentSolves, StudentIsFree, StudentPosts, MainPolls,
       MainWaitsStudent, MainScans, MainExits, MainAssigns, MainFindsNobody,
       MainWaitsTaken, MainCloses, MainJoins, marketVars, Queued
  <2>3. QED  BY <1>7, <2>1, <2>2 DEF Queued, MarketInv, MarketTypeOK, AtTheEnd
<1>8. QED
  BY <1>4, <1>5, <1>6, <1>7
     DEF MarketNext, H, Student, Main, StudentWakes, StudentTests,
       StudentSolves, StudentIsFree, StudentPosts, MainWaitsStudent,
       MainScans, MainExits, MainAssigns, MainFindsNobody, MainWaitsTaken,
       MainCloses, MainJoins, marketVars, hVars, queueVars

-------------------------------------------------------------------------------
(* Tokens and flags.                                                       *)

\* What TokensMatchFlags counts besides the marks and the semaphore.
Freeing == {s \in Lines : sfh[s] = "free"}

MainsToken == IF main \in {"find", "exited"} \/ no_monney = 1 THEN 1 ELSE 0

LEMMA TokensInit == MarketInit => TokensMatchFlags
<1> SUFFICES ASSUME MarketInit PROVE TokensMatchFlags
  OBVIOUS
<1>1. Cardinality(Students) + Cardinality(BlankLines) = std_table_size
  <2>1. Students = Lines \ BlankLines /\ BlankLines \cap Lines = BlankLines
    BY Attributes DEF Students
  <2>2. Cardinality(Students) = Cardinality(Lines) - Cardinality(BlankLines)
    BY <2>1, LinesFinite, FS_Difference
  <2>3. QED  BY <2>2, LinesFinite, Attributes, FS_CardinalityType
<1>2. {s \in Lines : sfh[s] = "free"} = {}
  BY DEF MarketInit
<1>3. Cardinality({s \in Lines : sfh[s] = "free"}) = 0
  BY <1>2, FS_EmptySet
<1>4. QED
  BY <1>1, <1>3, Attributes DEF MarketInit, TokensMatchFlags

LEMMA TokensStep ==
  MarketInv /\ TokensMatchFlags /\ [MarketNext]_marketVars
    => TokensMatchFlags'
<1> SUFFICES ASSUME MarketInv, TokensMatchFlags, [MarketNext]_marketVars
             PROVE  TokensMatchFlags'
  OBVIOUS
<1> DEFINE Balance == Cardinality(available) + Cardinality(BlankLines)
                        = sem_available_std + Cardinality(Freeing) + MainsToken
<1>1. (TokensMatchFlags <=> Balance) /\ (TokensMatchFlags' <=> Balance')
  BY DEF TokensMatchFlags, Freeing, MainsToken
<1>2. /\ IsFiniteSet(available) /\ Cardinality(available) \in Nat
      /\ IsFiniteSet(Freeing) /\ Cardinality(Freeing) \in Nat
      /\ Cardinality(BlankLines) \in Nat
  <2>1. available \subseteq Students /\ Freeing \subseteq Lines
    BY DEF MarketInv, MarketTypeOK, Freeing
  <2>2. QED  BY <2>1, LinesFinite, FS_Subset, FS_CardinalityType
<1>3. /\ sem_available_std \in Nat /\ MainsToken \in Nat
      /\ no_monney = 1 => main \notin {"wait_std", "find"}
  BY DEF MarketInv, MarketTypeOK, Ends, MainsToken
<1>4. ASSUME NEW s \in Lines, StudentIsFree(s) PROVE Balance'
  <2>1. s \notin available /\ s \notin Freeing
    BY <1>4, Attributes
       DEF StudentIsFree, MarketInv, MarketTypeOK, Marks, Busy, Freeing
  <2>2. available' = available \cup {s} /\ Freeing' = Freeing \cup {s}
    BY <1>4 DEF StudentIsFree, Freeing, MarketInv, MarketTypeOK
  <2>3. /\ Cardinality(available') = Cardinality(available) + 1
        /\ Cardinality(Freeing') = Cardinality(Freeing) + 1
    BY <1>2, <2>1, <2>2, FS_AddElement
  <2>4. sem_available_std' = sem_available_std /\ MainsToken' = MainsToken
    BY <1>4 DEF StudentIsFree, MainsToken
  <2>5. QED  BY <1>1, <1>2, <1>3, <2>3, <2>4
<1>5. ASSUME NEW s \in Lines, StudentPosts(s) PROVE Balance'
  <2>1. s \in Freeing /\ Freeing' = Freeing \ {s}
    BY <1>5 DEF StudentPosts, Freeing, MarketInv, MarketTypeOK
  <2>2. Cardinality(Freeing') = Cardinality(Freeing) - 1
    BY <1>2, <2>1, FS_RemoveElement
  <2>3. /\ available' = available /\ MainsToken' = MainsToken
        /\ sem_available_std' = sem_available_std + 1
    BY <1>5 DEF StudentPosts, MainsToken, tableVars
  <2>4. QED  BY <1>1, <1>2, <1>3, <2>2, <2>3
<1>6. CASE MainAssigns
  <2>1. suit_index \in available /\ available' = available \ {suit_index}
    BY <1>6 DEF MainAssigns, MarketInv, Choice
  <2>2. Cardinality(available') = Cardinality(available) - 1
    BY <1>2, <2>1, FS_RemoveElement
  <2>3. MainsToken = 1 /\ MainsToken' = 0
    BY <1>3, <1>6 DEF MainAssigns, MainsToken
  <2>4. Freeing' = Freeing /\ sem_available_std' = sem_available_std
    BY <1>6 DEF MainAssigns, Freeing
  <2>5. QED  BY <1>1, <1>2, <1>3, <2>2, <2>3, <2>4
<1>7. CASE MainWaitsStudent
  <2>1. MainsToken = 0 /\ MainsToken' = 1
    BY <1>3, <1>7 DEF MainWaitsStudent, MainsToken
  <2>2. /\ Freeing' = Freeing /\ available' = available
        /\ sem_available_std' = sem_available_std - 1
    BY <1>7 DEF MainWaitsStudent, Freeing, tableVars
  <2>3. QED  BY <1>1, <1>2, <1>3, <2>1, <2>2
<1>8. CASE /\ available' = available /\ MainsToken' = MainsToken
           /\ sem_available_std' = sem_available_std /\ Freeing' = Freeing
  BY <1>1, <1>8
<1>9. ASSUME NEW s \in Lines,
             StudentWakes(s) \/ StudentTests(s) \/ StudentSolves(s)
      PROVE  Balance'
  <2>1. Freeing' = Freeing
    BY <1>9 DEF StudentWakes, StudentTests, StudentSolves, Freeing, MarketInv,
       MarketTypeOK
  <2>2. /\ available' = available /\ MainsToken' = MainsToken
        /\ sem_available_std' = sem_available_std
    BY <1>9 DEF StudentWakes, StudentTests, StudentSolves, MainsToken,
       tableVars
  <2>3. QED  BY <1>1, <2>1, <2>2
<1>10. CASE \/ H \/ MainPolls \/ MainScans \/ MainExits \/ MainFindsNobody
            \/ MainWaitsTaken \/ MainCloses \/ MainJoins
            \/ UNCHANGED marketVars
  <2>1. Freeing' = Freeing /\ MainsToken' = MainsToken
    BY <1>10 DEF H, HReads, HTests, MainPolls, MainScans, MainExits,
       MainFindsNobody, MainWaitsTaken, MainCloses, MainJoins, marketVars,
       Freeing, MainsToken
  <2>2. QED
    BY <1>8, <1>10, <2>1 DEF H, HReads, HTests, MainPolls, MainScans,
       MainExits, MainFindsNobody, MainWaitsTaken, MainCloses, MainJoins,
       marketVars, tableVars
<1> HIDE DEF Balance
<1>11. QED
  BY <1>1, <1>4, <1>5, <1>6, <1>7, <1>9, <1>10 DEF MarketNext, Student, Main

-------------------------------------------------------------------------------
(* The theorems.                                                           *)

LEMMA MarketInvariant == MarketSpec => [](MarketInv /\ Queued /\ Accounts)
<1>1. MarketInit => MarketInv /\ Queued /\ Accounts
  BY InvInit, QueuedInit, AccountsInit
<1>2. MarketInv /\ Queued /\ Accounts /\ [MarketNext]_marketVars
        => (MarketInv /\ Queued /\ Accounts)'
  BY InvStep, QueuedStep, AccountsStep
<1>3. QED  BY <1>1, <1>2, PTL DEF MarketSpec

\* Nobody is sent to work but the student main waits for, who is marked busy.
THEOREM HandsOverOneHomework == MarketSpec => []OneHandover
<1>1. MarketInv => OneHandover
  BY Attributes DEF MarketInv, MarketTypeOK, Ends, Handover, Handing, Idle,
     Leaving, Marks, Busy, OneHandover
<1>2. QED  BY <1>1, MarketInvariant, PTL

\* What main paid and what the students earned is what H started with, and H
\* never spends the last of it.
THEOREM MoneyIsConserved == MarketSpec => []MoneyConserved
<1>1. Accounts => MoneyConserved
  BY DEF Accounts, MoneyConserved
<1>2. QED  BY <1>1, MarketInvariant, PTL

\* The tokens of sem_available_std follow the marks main reads without a lock.
THEOREM TokensFollowMarks == MarketSpec => []TokensMatchFlags
<1>1. QED  BY TokensInit, TokensStep, MarketInvariant, PTL DEF MarketSpec

\* When main has joined all threads, every homework it polled is solved, and
\* with money left that is the whole file, or what there is before a D.
THEOREM AllHomeworkIsSolved == MarketSpec => []HomeworksSolved
<1>1. ASSUME MarketInv, Queued, Accounts PROVE HomeworksSolved
  <2> SUFFICES ASSUME main = "reported" PROVE HomeworksSolved
    BY DEF HomeworksSolved
  <2>1. \A s \in Lines : ~Unfinished(s)
    BY <1>1 DEF MarketInv, Ends, Unfinished
  <2>2. Assigned = completed_hw
    BY <1>1, <2>1 DEF Assigned, MarketInv, MarketTypeOK
  <2>3. SumFunction(completed_hw) \in Int
    BY <1>1, <2>2, AssignedType, LinesFinite, TotalType DEF MarketInv
  <2>4. head = SumFunction(completed_hw) + 1
    BY <1>1, <2>2 DEF Accounts
  <2>5. CASE no_monney = 0
    <3>1. /\ head \in Nat /\ head > 0 /\ queue[head] = "D"
          /\ \A i \in 1 .. head - 1 : queue[i] # "D"
      BY <1>1, <2>5 DEF Queued, AtTheEnd
    <3>2. /\ read \in Nat /\ read <= Len(file) /\ Len(file) \in Nat
          /\ Len(queue) = read + (IF h = "exited" THEN 1 ELSE 0)
          /\ head <= Len(queue)
          /\ h = "exited" => read = Len(file)
          /\ \A i \in 1 .. read : queue[i] = file[i]
      BY <1>1, <2>5 DEF Queued
    <3>3. head = Len(file) + 1 \/ file[head] = "D"
      BY <3>1, <3>2
    <3>4. \A i \in 1 .. head - 1 : file[i] # "D"
      BY <3>1, <3>2
    <3>5. QED  BY <2>3, <2>4, <3>2, <3>3, <3>4 DEF HomeworksSolved
  <2>6. CASE no_monney # 0
    BY <2>3, <2>4, <2>6 DEF HomeworksSolved
  <2>7. QED  BY <2>5, <2>6
<1>2. QED  BY <1>1, MarketInvariant, PTL
================================================================================
