------------------------------- MODULE HotPotato -------------------------------
(***************************************************************************)
(* hw3: players pass potatoes through named FIFOs.  A potato cools by one   *)
(* at each throw; the temperatures and the number of cold potatoes are in  *)
(* shared memory.  The player that cools the last one tells all others,    *)
(* by a -1 in their FIFOs, that the game is over.                          *)
(*                                                                         *)
(* A player is named by the fifo_index it takes, and a potato by the       *)
(* player that brings it.  SIGINT, to any player at any time, only sets a  *)
(* flag; a write to a FIFO without reader kills the writer (SIGPIPE).      *)
(***************************************************************************)
EXTENDS Integers, Sequences, FiniteSets

CONSTANTS num_of_line,          \* FIFOs, players and potatoes
          Temperatures,         \* possible haspotatoornot, player by player
          Interrupts            \* may SIGINT come?

Players == 0 .. num_of_line - 1

ASSUME PotatoAssumption ==
  /\ num_of_line \in Nat /\ num_of_line >= 2
  /\ Temperatures \subseteq [Players -> Nat]
  /\ Interrupts \in BOOLEAN

VARIABLES at,                   \* the point each player has reached
          opened,               \* the FIFOs it has opened, or is opening
          fifo,                 \* what each FIFO holds: potatoes and Over
          hotness,              \* shared: the potatoes' temperatures
          cool_count,           \* shared: number_of_cool
          number_of_cool,       \* each player's copy of it, once it has one
          sem,
          patato_id,            \* the potato each player had last
          current_patatoe_hot,  \* is it hot, and with the player?
          interrupt,
          trouble               \* what has gone wrong so far

shmVars    == <<hotness, cool_count>>
playerVars == <<patato_id, current_patatoe_hot>>
potatoVars == <<at, opened, fifo, shmVars, number_of_cool, sem, playerVars,
                interrupt, trouble>>

Over  == -1
Unset == -1             \* an uninitialised int

PotatoInit ==
  /\ at = [p \in Players |-> "start"] /\ opened = [p \in Players |-> 0]
  /\ fifo = [p \in Players |-> <<>>]
  /\ hotness \in Temperatures /\ cool_count = 0
  /\ number_of_cool = [p \in Players |-> Unset]
  /\ sem = 1
  /\ patato_id = [p \in Players |-> p]
  /\ current_patatoe_hot = {p \in Players : hotness[p] > 0}
  /\ interrupt = {} /\ trouble = {}

Alive(p) == at[p] \notin {"start", "ended", "killed"}

\* Who has a FIFO open, or is in the open() that lets the other end proceed.
HasReader(i) == Alive(i) /\ opened[i] >= i
HasWriter(i) == \E p \in Players \ {i} : Alive(p) /\ opened[p] >= i

Goes(p, from, to) == at[p] = from /\ at' = [at EXCEPT ![p] = to]

-------------------------------------------------------------------------------
(* Before the game *)

\* Under the semaphore a player takes the first free FIFO; the player of the
\* first creates them all.
TakesFifo(p) ==
  /\ Goes(p, "start", "open")
  /\ sem = 1 /\ \A q \in 0 .. p - 1 : at[q] # "start"
  /\ UNCHANGED <<opened, fifo, shmVars, number_of_cool, sem, playerVars,
                 interrupt, trouble>>

\* open() waits until the other end is opened too: by the reader, or by some
\* writer if the FIFO is the player's own.
OpensFifo(p) ==
  /\ at[p] = "open"
  /\ \E q \in Players \ {p} :
       /\ q = opened[p] \/ p = opened[p]
       /\ at[q] # "start" /\ opened[q] >= opened[p]
  /\ opened' = [opened EXCEPT ![p] = @ + 1]
  /\ at' = [at EXCEPT ![p] = IF opened'[p] < num_of_line    THEN "open"
                             ELSE IF p \in current_patatoe_hot THEN "loop"
                             ELSE "count"]
  /\ UNCHANGED <<fifo, shmVars, number_of_cool, sem, playerVars, interrupt,
                 trouble>>

\* Without a hot potato, number_of_cool is read, without the semaphore, ...
ReadsCount(p) ==
  /\ Goes(p, "count", "increment")
  /\ number_of_cool' = [number_of_cool EXCEPT ![p] = cool_count + 1]
  /\ UNCHANGED <<opened, fifo, shmVars, sem, playerVars, interrupt, trouble>>

LostUpdate(p) ==
  IF number_of_cool[p] # cool_count + 1 THEN {"lost_update"} ELSE {}

\* ... and written back one larger.  Nobody looks whether it is the last.
WritesCount(p) ==
  /\ Goes(p, "increment", "loop")
  /\ cool_count' = number_of_cool[p]
  /\ trouble' = trouble \cup LostUpdate(p)
                  \cup (IF cool_count' = num_of_line THEN {"last_at_start"}
                                                     ELSE {})
  /\ UNCHANGED <<opened, fifo, hotness, number_of_cool, sem, playerVars,
                 interrupt>>

-------------------------------------------------------------------------------
(* The game *)

\* handle_sigint
GetsSigint(p) ==
  /\ Interrupts /\ Alive(p) /\ p \notin interrupt
  /\ interrupt' = interrupt \cup {p}
  /\ trouble' = trouble \cup {"interrupted"}
  /\ UNCHANGED <<at, opened, fifo, shmVars, number_of_cool, sem, playerVars>>

\* terminate() closes the FIFOs before it writes -1 to them: nobody is told.
Terminates(p) ==
  /\ at' = [at EXCEPT ![p] = "ended"]
  /\ fifo' = [fifo EXCEPT ![p] = <<>>]

\* The head of the loop sees the flag.
SeesInterrupt(p) ==
  /\ at[p] = "loop" /\ p \in interrupt
  /\ Terminates(p)
  /\ UNCHANGED <<opened, shmVars, number_of_cool, sem, playerVars, interrupt,
                 trouble>>

\* Mutant: the potato is thrown but kept.
ThrowsAndKeeps(p) ==
  /\ at[p] = "loop" /\ p \notin interrupt /\ p \in current_patatoe_hot
  /\ \E q \in Players \ {p} :
       /\ HasReader(q) /\ fifo[q] = <<>>
       /\ fifo' = [fifo EXCEPT ![q] = Append(@, patato_id[p])]
  /\ UNCHANGED <<at, opened, shmVars, number_of_cool, sem, playerVars,
                 interrupt, trouble>>

\* A hot potato is thrown to any other player; SIGPIPE if that player is gone.
Throws(p) ==
  /\ at[p] = "loop" /\ p \notin interrupt /\ p \in current_patatoe_hot
  /\ \E q \in Players \ {p} :
       \/ /\ HasReader(q)
          /\ fifo' = [fifo EXCEPT ![q] = Append(@, patato_id[p])]
          /\ at' = [at EXCEPT ![p] = "read"]
       \/ /\ ~HasReader(q)
          /\ fifo' = [fifo EXCEPT ![p] = <<>>]
          /\ at' = [at EXCEPT ![p] = "killed"]
  /\ UNCHANGED <<opened, shmVars, number_of_cool, sem, playerVars, interrupt,
                 trouble>>

ThrowsNothing(p) ==
  /\ p \notin interrupt /\ p \notin current_patatoe_hot
  /\ Goes(p, "loop", "read")
  /\ UNCHANGED <<opened, fifo, shmVars, number_of_cool, sem, playerVars,
                 interrupt, trouble>>

\* read() gets a potato, or -1, which ends the game for p.
ReadsFifo(p) ==
  /\ at[p] = "read" /\ fifo[p] # <<>>
  /\ IF Head(fifo[p]) = Over
     THEN Terminates(p) /\ UNCHANGED playerVars
     ELSE /\ fifo' = [fifo EXCEPT ![p] = Tail(@)]
          /\ patato_id' = [patato_id EXCEPT ![p] = Head(fifo[p])]
          /\ current_patatoe_hot' = current_patatoe_hot \cup {p}
          /\ at' = [at EXCEPT ![p] = "received"]
  /\ UNCHANGED <<opened, shmVars, number_of_cool, sem, interrupt, trouble>>

\* When all writers are gone read() returns 0, which the code does not test:
\* it receives the potato it had last once more.
ReadsEof(p) ==
  /\ at[p] = "read" /\ fifo[p] = <<>> /\ ~HasWriter(p)
  /\ cool_count <= num_of_line  \* bound: alone, it would count for ever
  /\ current_patatoe_hot' = current_patatoe_hot \cup {p}
  /\ at' = [at EXCEPT ![p] = "received"]
  /\ UNCHANGED <<opened, fifo, shmVars, number_of_cool, sem, patato_id,
                 interrupt, trouble>>

\* Mutant: if( hotness < 0 ).
CoolsTooLate(p) ==
  /\ sem = 1 /\ sem' = 0
  /\ Goes(p, "received", "update")
  /\ hotness' = [hotness EXCEPT ![patato_id[p]] = @ - 1]
  /\ IF hotness'[patato_id[p]] < 0
     THEN /\ current_patatoe_hot' = current_patatoe_hot \ {p}
          /\ number_of_cool' = [number_of_cool EXCEPT ![p] = cool_count + 1]
     ELSE UNCHANGED <<current_patatoe_hot, number_of_cool>>
  /\ UNCHANGED <<opened, fifo, cool_count, patato_id, interrupt, trouble>>

\* sem_wait; hotness--; if the potato is cold now, number_of_cool is read.
Cools(p) ==
  /\ sem = 1 /\ sem' = 0
  /\ Goes(p, "received", "update")
  /\ hotness' = [hotness EXCEPT ![patato_id[p]] = @ - 1]
  /\ IF hotness'[patato_id[p]] <= 0
     THEN /\ current_patatoe_hot' = current_patatoe_hot \ {p}
          /\ number_of_cool' = [number_of_cool EXCEPT ![p] = cool_count + 1]
     ELSE UNCHANGED <<current_patatoe_hot, number_of_cool>>
  /\ UNCHANGED <<opened, fifo, cool_count, patato_id, interrupt, trouble>>

\* The write of the count the potato has just added to.
StoresCount(p) ==
  IF p \in current_patatoe_hot
  THEN UNCHANGED <<cool_count, trouble>>
  ELSE /\ cool_count' = number_of_cool[p]
       /\ trouble' = trouble \cup LostUpdate(p)

\* What an uninitialised number_of_cool turns out to be if it is not the number
\* of players: a number that is never it.
Seen(n) == IF n = Unset THEN num_of_line + 1 ELSE n

\* Mutant: the game is over when one potato less is cold.
UpdatesTooEarly(p) ==
  /\ Goes(p, "update", IF number_of_cool[p] = num_of_line - 1 THEN "tell"
                                                             ELSE "post")
  /\ StoresCount(p)
  /\ UNCHANGED <<opened, fifo, hotness, number_of_cool, sem, playerVars,
                 interrupt>>

\* number_of_cool == num_of_line?
Updates(p) ==
  /\ Goes(p, "update", IF number_of_cool[p] = num_of_line THEN "tell" ELSE "post")
  /\ number_of_cool' = [number_of_cool EXCEPT ![p] = Seen(@)]
  /\ StoresCount(p)
  /\ UNCHANGED <<opened, fifo, hotness, sem, playerVars, interrupt>>

\* A player that has not yet counted compares an uninitialised variable, which
\* may hold any number.
ComparesUninitialised(p) ==
  /\ number_of_cool[p] = Unset
  /\ Goes(p, "update", "tell")
  /\ number_of_cool' = [number_of_cool EXCEPT ![p] = num_of_line]
  /\ trouble' = trouble \cup {"uninitialised"}
  /\ UNCHANGED <<opened, fifo, shmVars, sem, playerVars, interrupt>>

\* Mutant: the first player is forgotten.
TellsAllButFirst(p) ==
  /\ Goes(p, "tell", "posted_over")
  /\ fifo' = [q \in Players |-> IF q \in {0, p} THEN fifo[q]
                                                ELSE Append(fifo[q], Over)]
  /\ UNCHANGED <<opened, shmVars, number_of_cool, sem, playerVars, interrupt,
                 trouble>>

\* "All the potatoes are cold now.": -1 to all others, in order, up to one
\* whose FIFO has no reader; the semaphore is then never posted.
TellsAll(p) ==
  LET Gone == {q \in Players \ {p} : ~HasReader(q)}
      Told == {q \in Players \ {p} : \A g \in Gone : q < g}
  IN  /\ at[p] = "tell"
      /\ at' = [at EXCEPT ![p] = IF Gone = {} THEN "posted_over" ELSE "killed"]
      /\ fifo' = [q \in Players |->
                    IF q \in Told THEN Append(fifo[q], Over)
                    ELSE IF q = p /\ Gone # {} THEN <<>> ELSE fifo[q]]
      /\ UNCHANGED <<opened, shmVars, number_of_cool, sem, playerVars,
                     interrupt, trouble>>

\* sem_post, and another round unless the game is over.
Posts(p) ==
  /\ sem' = 1
  /\ \/ Goes(p, "post", "loop") /\ fifo' = fifo
     \/ at[p] = "posted_over" /\ Terminates(p)
  /\ UNCHANGED <<opened, shmVars, number_of_cool, playerVars, interrupt,
                 trouble>>

-------------------------------------------------------------------------------
Player(p) == \/ TakesFifo(p) \/ OpensFifo(p) \/ ReadsCount(p) \/ WritesCount(p)
             \/ SeesInterrupt(p) \/ Throws(p) \/ ThrowsNothing(p)
             \/ ReadsFifo(p) \/ ReadsEof(p) \/ Cools(p) \/ Updates(p)
             \/ ComparesUninitialised(p) \/ TellsAll(p) \/ Posts(p)

PotatoNext == \E p \in Players : Player(p) \/ GetsSigint(p)

PotatoSpec == PotatoInit /\ [][PotatoNext]_potatoVars

\* Every player keeps running.
PotatoFairSpec ==
  PotatoSpec /\ \A p \in Players : WF_potatoVars(Player(p))

-------------------------------------------------------------------------------
(* What must hold.                                                         *)

Cold == {q \in Players : hotness[q] <= 0}

\* Where a potato is: with the players that would throw it, and in FIFOs.
Holders(q) == {p \in current_patatoe_hot :
                 patato_id[p] = q /\ at[p] \notin {"read", "ended", "killed"}}
InFifos(q) == UNION {{<<p, i>> : i \in {j \in DOMAIN fifo[p] : fifo[p][j] = q}} :
                       p \in Players}

\* Nobody was interrupted and no uninitialised variable stopped the game.
NobodyLeft == trouble \subseteq {"lost_update", "last_at_start"}

\* A hot potato is in one place, with one player or in one FIFO, from the first
\* throw to the last; a cold one has been put down.
PotatoInOnePlace ==
  NobodyLeft =>
    \A q \in Players : Cardinality(Holders(q)) + Cardinality(InFifos(q))
                         = IF q \in Cold THEN 0 ELSE 1

\* Cold potatoes some player is just about to add to the shared count.
BeingCounted ==
  {p \in Players : \/ at[p] \in {"start", "open", "count", "increment"}
                       /\ hotness[p] <= 0
                   \/ at[p] = "update" /\ p \notin current_patatoe_hot}

\* A race at the start can make the shared count too small, never too large:
\* without one, the count is exact.
CountFollowsPotatoes ==
  LET counted == Cardinality(Cold) - Cardinality(BeingCounted)
  IN  /\ trouble = {} => cool_count = counted
      /\ NobodyLeft => cool_count <= Cardinality(Cold)

\* "All the potatoes are cold now." (151044046.c:338): when a player says so or
\* leaves, all are; and nobody is killed by a throw to one that has left.
OverWhenAllCold ==
  NobodyLeft =>
    \A p \in Players :
      /\ at[p] \in {"tell", "posted_over", "ended"} => Cold = Players
      /\ at[p] # "killed"

\* The game ends for every player, unless one is interrupted, the count of the
\* cold potatoes loses an update, its last one comes from a player that does
\* not look at it, or it is compared before it is read.
GameEnds == <>(trouble # {}) \/ <>(\A p \in Players : at[p] = "ended")
===============================================================================
