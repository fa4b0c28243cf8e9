---------------------------- MODULE LagrangeRounds ----------------------------
(***************************************************************************)
(* hw2: the parent (main.c) and its children (lagrange.c) take turns on one *)
(* file by signals alone.  Twice, each child computes a number, reports    *)
(* with SIGUSR2 and sleeps until SIGUSR1 lets it append the number to its   *)
(* line; the parent lets one child write at a time.                        *)
(*                                                                         *)
(* Every process unblocks the other's signal only in sigsuspend(), and a   *)
(* signal that is already pending is not queued a second time.             *)
(***************************************************************************)
EXTENDS Naturals, FiniteSets

CONSTANT N              \* children, and lines of the file (8 in the code)

ASSUME LagrangeAssumption == N \in Nat \ {0}

Children == 0 .. N - 1

VARIABLES main, index, round,   \* the point the parent is at, its loop, its round
          handled_signals,
          usr2,                 \* is SIGUSR2 pending for the parent?
          child, turn,          \* the point each child is at, and its round
          usr1,                 \* the children SIGUSR1 is pending for
          file,                 \* the numbers appended to each line
          file_content,         \* what add_num() has read of it
          coalesced             \* has a SIGUSR2 met one still pending?

lagrangeVars == <<main, index, round, handled_signals, usr2, child, turn,
                  usr1, file, file_content, coalesced>>
childVars    == <<child, turn, file, file_content, coalesced>>

LagrangeInit ==
  /\ main = "fork" /\ index = 0 /\ round = 1 /\ handled_signals = 0
  /\ usr2 = FALSE /\ usr1 = {} /\ coalesced = FALSE
  /\ child = [c \in Children |-> "unborn"]
  /\ turn = [c \in Children |-> 1]
  /\ file = [c \in Children |-> 0]
  /\ file_content = [c \in Children |-> file]

-------------------------------------------------------------------------------
(* The parent *)

\* A for loop over the children, and where the parent goes after it.
Advance(inside, after) ==
  IF index < N - 1 THEN index' = index + 1 /\ main' = inside
                   ELSE index' = 0 /\ main' = after

ParentForks ==
  /\ main = "fork"
  /\ child' = [child EXCEPT ![index] = "read"]
  /\ Advance("fork", "suspended")
  /\ UNCHANGED <<round, handled_signals, usr2, turn, usr1, file, file_content,
                 coalesced>>

\* sigsuspend() returns after the handler has counted a SIGUSR2.
ParentHandles ==
  /\ main \in {"suspended", "yielded"} /\ usr2
  /\ usr2' = FALSE
  /\ handled_signals' = handled_signals + 1
  /\ IF main = "suspended" THEN main' = "test" /\ index' = index
                           ELSE Advance("let", "error")
  /\ UNCHANGED <<round, usr1, childVars>>

ParentTests ==
  /\ main = "test"
  /\ main' = IF handled_signals = N THEN "let" ELSE "suspended"
  /\ UNCHANGED <<index, round, handled_signals, usr2, usr1, childVars>>

\* Mutant: the parent lets the children write without waiting for each.
ParentLetsAll ==
  /\ main = "let"
  /\ usr1' = usr1 \cup {index}
  /\ Advance("let", "error")
  /\ UNCHANGED <<round, handled_signals, usr2, childVars>>

\* kill( child_pids[i], SIGUSR1 ), then sigsuspend().
ParentLets ==
  /\ main = "let"
  /\ usr1' = usr1 \cup {index}
  /\ main' = "yielded"
  /\ UNCHANGED <<index, round, handled_signals, usr2, childVars>>

\* calc_error( round ) has read every line.
ParentCalculates ==
  /\ main = "error"
  /\ main' = IF round = 1 THEN "awake" ELSE "reap"
  /\ UNCHANGED <<index, round, handled_signals, usr2, usr1, childVars>>

ParentAwakes ==
  /\ main = "awake"
  /\ usr1' = usr1 \cup {index}
  /\ Advance("awake", "suspended")
  /\ IF index = N - 1 THEN round' = 2 /\ handled_signals' = 0
                      ELSE UNCHANGED <<round, handled_signals>>
  /\ UNCHANGED <<usr2, childVars>>

\* wait( NULL ), for as many children as were forked.
ParentReaps ==
  /\ main = "reap" /\ Cardinality({c \in Children : child[c] = "exited"}) > index
  /\ Advance("reap", "ended")
  /\ UNCHANGED <<round, handled_signals, usr2, usr1, childVars>>

-------------------------------------------------------------------------------
(* The children *)

Goes(c, from, to) == child[c] = from /\ child' = [child EXCEPT ![c] = to]

\* kill( getppid(), SIGUSR2 )
TellsParent == /\ usr2' = TRUE
               /\ coalesced' = (coalesced \/ usr2)
               /\ UNCHANGED <<main, index, round, handled_signals, usr1>>

\* get_line() reads the child's line.
ChildReads(c) ==
  /\ Goes(c, "read", "ready")
  /\ UNCHANGED <<main, index, round, handled_signals, usr2, usr1, turn, file,
                 file_content, coalesced>>

ChildReports(c) ==
  /\ Goes(c, "ready", "asleep")
  /\ TellsParent
  /\ UNCHANGED <<turn, file, file_content>>

\* sigsuspend() returns: to write, or after the first round to calculate.
ChildWakes(c) ==
  /\ c \in usr1
  /\ usr1' = usr1 \ {c}
  /\ \/ Goes(c, "asleep", "add") /\ turn' = turn
     \/ Goes(c, "rest", "ready") /\ turn' = [turn EXCEPT ![c] = 2]
  /\ UNCHANGED <<main, index, round, handled_signals, usr2, file, file_content,
                 coalesced>>

\* add_num() copies the file ...
ChildCopies(c) ==
  /\ Goes(c, "add", "store")
  /\ file_content' = [file_content EXCEPT ![c] = file]
  /\ UNCHANGED <<main, index, round, handled_signals, usr2, usr1, turn, file,
                 coalesced>>

\* ... and writes it back with one more number on its own line.
ChildStores(c) ==
  /\ Goes(c, "store", "wrote")
  /\ file' = [file_content[c] EXCEPT ![c] = @ + 1]
  /\ UNCHANGED <<main, index, round, handled_signals, usr2, usr1, turn,
                 file_content, coalesced>>

\* Mutant: the last report is forgotten.
ChildLeavesSilently(c) ==
  /\ Goes(c, "wrote", IF turn[c] = 1 THEN "rest" ELSE "exited")
  /\ IF turn[c] = 1
     THEN TellsParent
     ELSE UNCHANGED <<main, index, round, handled_signals, usr2, usr1, coalesced>>
  /\ UNCHANGED <<turn, file, file_content>>

ChildTellsWritten(c) ==
  /\ Goes(c, "wrote", IF turn[c] = 1 THEN "rest" ELSE "exited")
  /\ TellsParent
  /\ UNCHANGED <<turn, file, file_content>>

-------------------------------------------------------------------------------
Parent == \/ ParentForks \/ ParentHandles \/ ParentTests \/ ParentLets
          \/ ParentCalculates \/ ParentAwakes \/ ParentReaps

Child(c) == \/ ChildReads(c) \/ ChildReports(c) \/ ChildWakes(c)
            \/ ChildCopies(c) \/ ChildStores(c) \/ ChildTellsWritten(c)

LagrangeNext == Parent \/ \E c \in Children : Child(c)

LagrangeSpec == LagrangeInit /\ [][LagrangeNext]_lagrangeVars

\* Every process keeps running.
LagrangeFairSpec == /\ LagrangeSpec
                    /\ WF_lagrangeVars(Parent)
                    /\ \A c \in Children : WF_lagrangeVars(Child(c))

-------------------------------------------------------------------------------
(* What must hold.                                                         *)

Reading == {c \in Children : child[c] = "read"}
Writing == {c \in Children : child[c] \in {"add", "store"}}

\* add_num() rewrites the whole file, so a child that is in it is the only
\* process that uses the file: it shares it with no other writer, no child that
\* still reads its line, and not with the parent's calc_error().
WriterAlone ==
  Writing # {} => /\ Cardinality(Writing) = 1
                  /\ Reading = {}
                  /\ main = "yielded" /\ Writing = {index}

\* calc_error( round ) finds the round's number, and no later one, on every
\* line (it takes field 15 + round of each).
ErrorOfWholeRound == main = "error" => \A c \in Children : file[c] = round

\* All children write both numbers and the parent ends, unless two reports of
\* SIGUSR2 were merged into one ("HEPSININ SINYALI ALMAK ICIN HAZIR OLDUGU NE
\* MALUM", main.c:162: how is it known that all are ready for the signal).
EndsUnlessCoalesced ==
  <>coalesced \/ <>(main = "ended" /\ \A c \in Children : file[c] = 2)
===============================================================================
