---------------------------- MODULE HomeworkMarket ----------------------------
(***************************************************************************)
(* hw4: the thread student_h puts the homeworks of a file on a queue, main *)
(* hands each to the most suitable student for hire it can pay, and every  *)
(* student for hire is a thread that solves what it is given.              *)
(*                                                                         *)
(* available is a plain int that students set and main reads without a     *)
(* lock, so main's scan of the table is a step for each line of it.        *)
(* add() and poll() are one step each, under sem_queue.                    *)
(***************************************************************************)
EXTENDS Integers, Sequences, FiniteSets, Functions

CONSTANTS std_table_size,       \* lines of the students file
          BlankLines,           \* those of them too short to be a student
          quality, speed, monney,       \* the students' attributes
          HomeworkFiles,        \* homework files: sequences of bytes
          initial_money         \* what H starts with

Lines    == 0 .. std_table_size - 1
Students == Lines \ BlankLines

\* A byte of a homework file is a priority, or D, or anything else.
Bytes == {"Q", "S", "C", "D", "other"}

ASSUME MarketAssumption ==
  /\ std_table_size \in Nat /\ BlankLines \subseteq Lines
  /\ initial_money \in Nat
  /\ \A attribute \in {quality, speed, monney} : attribute \in [Lines -> Nat]
  /\ HomeworkFiles \subseteq Seq(Bytes)

VARIABLES main, h, sfh,         \* the points main, student_h, students are at
          file, read,           \* the homeworks, how many student_h has read
          queue, head,          \* the homeworks queued, and the next to poll
          ch, suit_index,       \* main's homework, and whom it chose
          line,                 \* the line of the table main's scan is at
          sem_has_hw, sem_available_std, hw_taken, sfh_sems,
          available,            \* the students marked as free
          completed_hw,
          remaining_money,
          wait_for_assignment, no_monney

hVars     == <<h, file, read>>
queueVars == <<queue, head, sem_has_hw>>
tableVars == <<available, completed_hw>>
handVars  == <<sfh_sems, hw_taken>>
marketVars == <<main, hVars, sfh, queueVars, ch, suit_index, line,
                handVars, sem_available_std, tableVars, remaining_money,
                wait_for_assignment, no_monney>>

NoStudent == -1

MarketInit ==
  /\ main = "poll" /\ h = "read" /\ sfh = [s \in Lines |-> "wait"]
  /\ file \in HomeworkFiles /\ read = 0
  /\ queue = <<>> /\ head = 0 /\ ch = "none" /\ suit_index = NoStudent
  /\ line = 0
  /\ sem_has_hw = 0 /\ hw_taken = 0 /\ sfh_sems = [s \in Lines |-> 0]
  /\ sem_available_std = std_table_size
  /\ available = Students
  /\ completed_hw = [s \in Lines |-> 0]
  /\ remaining_money = initial_money
  /\ wait_for_assignment = 1 /\ no_monney = 0

-------------------------------------------------------------------------------
(* student_h: read_hws() *)

Adds(hw) == queue' = Append(queue, hw) /\ sem_has_hw' = sem_has_hw + 1

HReads ==
  /\ main # "exited"
  /\ h = "read"
  /\ IF read < Len(file)
     THEN Adds(file[read + 1]) /\ read' = read + 1 /\ h' = "test"
     ELSE Adds("D") /\ read' = read /\ h' = "exited"
  /\ UNCHANGED <<main, file, sfh, head, ch, suit_index, line, handVars,
                 sem_available_std, tableVars, remaining_money,
                 wait_for_assignment, no_monney>>

\* It stops reading when main has run out of money.
HTests ==
  /\ main # "exited"
  /\ h = "test"
  /\ IF no_monney = 1 THEN Adds("D") /\ h' = "exited"
                      ELSE h' = "read" /\ UNCHANGED <<queue, sem_has_hw>>
  /\ UNCHANGED <<main, sfh, file, read, head, ch, suit_index, line, handVars,
                 sem_available_std, tableVars, remaining_money,
                 wait_for_assignment, no_monney>>

-------------------------------------------------------------------------------
(* student_for_hire *)

StudentWakes(s) ==
  /\ main # "exited"
  /\ sfh[s] = "wait" /\ sfh_sems[s] > 0
  /\ sfh_sems' = [sfh_sems EXCEPT ![s] = @ - 1]
  /\ sfh' = [sfh EXCEPT ![s] = "woken"]
  /\ UNCHANGED <<main, hVars, queueVars, ch, suit_index, line, hw_taken,
                 sem_available_std, tableVars, remaining_money,
                 wait_for_assignment, no_monney>>

\* Homework, or the end of the program?
StudentTests(s) ==
  /\ main # "exited"
  /\ sfh[s] = "woken"
  /\ IF wait_for_assignment = 1
     THEN sfh' = [sfh EXCEPT ![s] = "taken"] /\ hw_taken' = hw_taken + 1
     ELSE sfh' = [sfh EXCEPT ![s] = "exited"] /\ hw_taken' = hw_taken
  /\ UNCHANGED <<main, hVars, queueVars, ch, suit_index, line, sfh_sems,
                 sem_available_std, tableVars, remaining_money,
                 wait_for_assignment, no_monney>>

StudentSolves(s) ==
  /\ main # "exited"
  /\ sfh[s] = "taken"
  /\ completed_hw' = [completed_hw EXCEPT ![s] = @ + 1]
  /\ sfh' = [sfh EXCEPT ![s] = "solving"]
  /\ UNCHANGED <<main, hVars, queueVars, ch, suit_index, line, handVars,
                 sem_available_std, available, remaining_money,
                 wait_for_assignment, no_monney>>

StudentIsFree(s) ==
  /\ main # "exited"
  /\ sfh[s] = "solving"
  /\ available' = available \cup {s}
  /\ sfh' = [sfh EXCEPT ![s] = "free"]
  /\ UNCHANGED <<main, hVars, queueVars, ch, suit_index, line, handVars,
                 sem_available_std, completed_hw, remaining_money,
                 wait_for_assignment, no_monney>>

StudentPosts(s) ==
  /\ main # "exited"
  /\ sfh[s] = "free"
  /\ sem_available_std' = sem_available_std + 1
  /\ sfh' = [sfh EXCEPT ![s] = "wait"]
  /\ UNCHANGED <<main, hVars, queueVars, ch, suit_index, line, handVars,
                 tableVars, remaining_money, wait_for_assignment, no_monney>>

-------------------------------------------------------------------------------
(* main *)

\* poll(): 'D' ends the loop, whoever put it in the queue.
MainPolls ==
  /\ main = "poll" /\ sem_has_hw > 0
  /\ sem_has_hw' = sem_has_hw - 1
  /\ ch' = queue[head + 1] /\ head' = head + 1
  /\ main' = IF ch' = "D" THEN "close" ELSE "wait_std"
  /\ UNCHANGED <<hVars, sfh, queue, suit_index, line, handVars,
                 sem_available_std, tableVars, remaining_money,
                 wait_for_assignment, no_monney>>

MainWaitsStudent ==
  /\ main = "wait_std" /\ sem_available_std > 0
  /\ sem_available_std' = sem_available_std - 1
  /\ suit_index' = NoStudent /\ line' = 0
  /\ main' = "find"
  /\ UNCHANGED <<hVars, sfh, queueVars, ch, handVars, tableVars,
                 remaining_money, wait_for_assignment, no_monney>>

\* find_suitable_std(): the first of the best of those main can pay.
Better(priority, s, u) ==
  CASE priority = "Q" -> quality[s] > quality[u]
    [] priority = "S" -> speed[s] > speed[u]
    [] priority = "C" -> monney[s] < monney[u]

\* Mutant: H may spend the last of its money.
CandidateForAll(s) == s \in available /\ monney[s] <= remaining_money

Candidate(s) == s \in available /\ monney[s] < remaining_money

MainScans ==
  /\ main = "find" /\ line < std_table_size
  /\ \/ /\ ~Candidate(line)
        /\ suit_index' = suit_index
     \/ /\ Candidate(line) /\ suit_index = NoStudent
        /\ suit_index' = line
     \/ /\ Candidate(line) /\ suit_index # NoStudent /\ ch # "other"
        /\ suit_index' = IF Better(ch, line, suit_index) THEN line
                                                        ELSE suit_index
  /\ line' = line + 1
  /\ UNCHANGED <<main, hVars, sfh, queueVars, ch, handVars, sem_available_std,
                 tableVars, remaining_money, wait_for_assignment, no_monney>>

\* A priority that is none of the three: my_exit(), the process ends at once.
MainExits ==
  /\ main = "find" /\ line < std_table_size
  /\ Candidate(line) /\ suit_index # NoStudent /\ ch = "other"
  /\ main' = "exited"
  /\ UNCHANGED <<hVars, sfh, queueVars, ch, suit_index, line, handVars,
                 sem_available_std, tableVars, remaining_money,
                 wait_for_assignment, no_monney>>

\* Mutant: the student is not marked busy.
MainAssignsUnmarked ==
  /\ main = "find" /\ line = std_table_size /\ suit_index # NoStudent
  /\ remaining_money' = remaining_money - monney[suit_index]
  /\ sfh_sems' = [sfh_sems EXCEPT ![suit_index] = @ + 1]
  /\ main' = "wait_taken"
  /\ UNCHANGED <<hVars, sfh, queueVars, ch, suit_index, line, hw_taken,
                 sem_available_std, tableVars, wait_for_assignment, no_monney>>

\* Mutant: main does not wait until the student has taken the homework.
MainAssignsAndPolls ==
  /\ main = "find" /\ line = std_table_size /\ suit_index # NoStudent
  /\ available' = available \ {suit_index}
  /\ remaining_money' = remaining_money - monney[suit_index]
  /\ sfh_sems' = [sfh_sems EXCEPT ![suit_index] = @ + 1]
  /\ main' = "poll"
  /\ UNCHANGED <<hVars, sfh, queueVars, ch, suit_index, line, hw_taken,
                 sem_available_std, completed_hw, wait_for_assignment,
                 no_monney>>

MainAssigns ==
  /\ main = "find" /\ line = std_table_size /\ suit_index # NoStudent
  /\ available' = available \ {suit_index}
  /\ remaining_money' = remaining_money - monney[suit_index]
  /\ sfh_sems' = [sfh_sems EXCEPT ![suit_index] = @ + 1]
  /\ main' = "wait_taken"
  /\ UNCHANGED <<hVars, sfh, queueVars, ch, suit_index, line, hw_taken,
                 sem_available_std, completed_hw, wait_for_assignment,
                 no_monney>>

\* "Money is over, closing."
MainFindsNobody ==
  /\ main = "find" /\ line = std_table_size /\ suit_index = NoStudent
  /\ no_monney' = 1
  /\ main' = "close"
  /\ UNCHANGED <<hVars, sfh, queueVars, ch, suit_index, line, handVars,
                 sem_available_std, tableVars, remaining_money,
                 wait_for_assignment>>

MainWaitsTaken ==
  /\ main = "wait_taken" /\ hw_taken > 0
  /\ hw_taken' = hw_taken - 1
  /\ main' = "poll"
  /\ UNCHANGED <<hVars, sfh, queueVars, ch, suit_index, line, sfh_sems,
                 sem_available_std, tableVars, remaining_money,
                 wait_for_assignment, no_monney>>

\* Mutant: the waiting students are not woken.
MainClosesSilently ==
  /\ main = "close"
  /\ wait_for_assignment' = 0
  /\ main' = "join"
  /\ UNCHANGED <<hVars, sfh, queueVars, ch, suit_index, line, handVars,
                 sem_available_std, tableVars, remaining_money, no_monney>>

MainCloses ==
  /\ main = "close"
  /\ wait_for_assignment' = 0
  /\ sfh_sems' = [s \in Lines |-> sfh_sems[s] + 1]
  /\ main' = "join"
  /\ UNCHANGED <<hVars, sfh, queueVars, ch, suit_index, line, hw_taken,
                 sem_available_std, tableVars, remaining_money, no_monney>>

MainJoins ==
  /\ main = "join"
  /\ h = "exited" /\ \A s \in Lines : sfh[s] = "exited"
  /\ main' = "reported"
  /\ UNCHANGED <<hVars, sfh, queueVars, ch, suit_index, line, handVars,
                 sem_available_std, tableVars, remaining_money,
                 wait_for_assignment, no_monney>>

-------------------------------------------------------------------------------
H == HReads \/ HTests

Student(s) == \/ StudentWakes(s) \/ StudentTests(s) \/ StudentSolves(s)
              \/ StudentIsFree(s) \/ StudentPosts(s)

Main == \/ MainPolls \/ MainWaitsStudent \/ MainScans \/ MainExits
        \/ MainAssigns \/ MainFindsNobody \/ MainWaitsTaken \/ MainCloses
        \/ MainJoins

MarketNext == H \/ (\E s \in Lines : Student(s)) \/ Main

MarketSpec == MarketInit /\ [][MarketNext]_marketVars

\* Every thread keeps running.
MarketFairSpec == /\ MarketSpec
                  /\ WF_marketVars(H) /\ WF_marketVars(Main)
                  /\ \A s \in Lines : WF_marketVars(Student(s))

-------------------------------------------------------------------------------
(* What must hold.                                                         *)

\* The student main has chosen and that has not counted its homework yet.
Unfinished(s) == \/ main = "wait_taken" /\ suit_index = s /\ hw_taken = 0
                 \/ sfh[s] = "taken"

Assigned == [s \in Lines |->
               completed_hw[s] + IF Unfinished(s) THEN 1 ELSE 0]

Earned == [s \in Lines |-> monney[s] * Assigned[s]]

\* No money is lost between main, who pays when it assigns, and a student, who
\* counts the homework later; and H never spends the last of its money.
MoneyConserved ==
  /\ remaining_money + SumFunction(Earned) = initial_money
  /\ initial_money > 0 => remaining_money > 0

\* Semaphore and flags agree: there is a token for every student marked free
\* that has told so and, since sem_available_std starts at std_table_size, one
\* for every blank line; main's is one of them.
TokensMatchFlags ==
  Cardinality(available) + Cardinality(BlankLines)
    = sem_available_std
        + Cardinality({s \in Lines : sfh[s] = "free"})
        + (IF main \in {"find", "exited"} \/ no_monney = 1 THEN 1 ELSE 0)

\* One homework is handed over at a time: while homework is assigned, nobody is
\* sent to work but the student main waits for, and it is no longer marked free.
OneHandover ==
  /\ hw_taken <= 1
  /\ wait_for_assignment = 1 =>
       \A s \in Lines : sfh_sems[s] > 0 \/ sfh[s] = "woken" =>
         main = "wait_taken" /\ suit_index = s /\ s \notin available
  /\ \A s \in Lines : sfh_sems[s] <= 1

\* When all threads are joined every homework that main took from the queue is
\* solved, whatever was in progress when it closed; with money left that is the
\* whole file, or what there is of it before a D, which main takes for the end
\* of the queue.
HomeworksSolved ==
  main = "reported" =>
    LET solved == SumFunction(completed_hw)
    IN /\ solved = head - 1
       /\ no_monney = 0 => /\ \A i \in 1 .. solved : file[i] # "D"
                           /\ solved = Len(file) \/ file[solved + 1] = "D"

\* The program ends: nobody waits for a semaphore nobody will post.
ProgramEnds == <>(main \in {"reported", "exited"})
===============================================================================
