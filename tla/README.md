# A formal model of System-Programming-Homeworks

The repository holds six C programs of a systems programming course.  Each is a
set of threads or processes that share memory, files, FIFOs or signals, and
whether they work is a question of the order in which those meet.  This
directory holds TLA+ modules of that order, TLC configurations that check them
on small instances, and TLAPS proofs of the most important facts for instances
of every size.

Run `tlc -config X.cfg MCX.tla` for a configuration, `tlapm XProofs.tla` for a
proof module.  `PROJECT.json` lists the runs, maps each definition to the lines
it models, and lists the hazards the properties are for.

## The system

| Program | Parts | What they share |
|---|---|---|
| Final-Project | a database server (`server.c`, `t_pool.c`, `reader_writer.c`, `sql.c`, `get_csv.c`) and its `client.c` | a table in memory, a stack of connections, a lock, sockets |
| Midterm-Project | `151044046.c` (main), `nurse.c`, `vaccinator.c`, `citizen.c` | shared memory, seven named semaphores, two FIFOs, signals |
| hw4 | `main.c`, `functions.c`: main, student_h, students for hire | a queue, a table of students, semaphores |
| hw3 | `151044046.c`: players of hot potato | FIFOs, shared memory, one semaphore, SIGINT |
| hw2 | `main.c` and eight `lagrange.c` | one file, SIGUSR1 and SIGUSR2 |
| hw1 | `HW1_151044046.c`: a file search | its tree with the handler of SIGINT |

### Inventory

**Table lock (`reader_writer.c`).**  State: the counters AR, AW, WR, WW, the
mutex `m` and the condition variables `okToRead` and `okToWrite`.  Operations:
`reader()` and `writer()`, called by `reader_writer()` for each query.  Hard:
wakeups that go to nobody, threads that barge in before a woken one, spurious
wakeups.  Right when a writer is alone, when the counters are exact, when no
thread sleeps without somebody to wake it, and when readers hold back for a
waiting writer.

**Thread pool and accept loop (`server.c`, `t_pool.c`).**  State: the stack of
accepted sockets, `num_of_busy`, the mutex `lock`, `cond` (threads wait for
connections) and `cond_server` (main waits for a free thread), `terminate`, the
single-instance file.  Operations: accept, push and signal; wait, pop, serve and
free; the SIGINT handler, which runs on main's stack.  Hard: `cond` is waited
for without a predicate; the handler interrupts main anywhere, even while it
holds `lock`; `exit( 0 )` in one thread ends all.

**Queries (`sql.c`).**  State: the table.  Operations: `select *`, `select
columns`, `select distinct`, `update`, row by row, sending as they go.  Hard:
the duplicate test of `select distinct`, assignments and the WHERE condition of
one `update`, and all of it while other threads run.

**Start and end of a server (`server.c`).**  State: the file `151044046_temp` that is
to keep a second server away, the descriptors.  Operations: look for the file,
create it, become a daemon, load, listen; SIGINT removes the file; every other end
leaves it.  Hard: the two `open`s are not atomic; `my_daemon()` closes all
descriptors, so that the number the handler closes is by then a client's socket;
the file goes before the threads have ended.

**Dataset loader (`get_csv.c`; `alloc.c` is an older copy of its allocation).**
State: the table it fills.  Operations: count the lines and the columns, cut each
line into cells.  Hard: the same file is read three times with three notions of a
line; quotes; empty cells.

**Client (`client.c`, `exec.c`).**  State: its queries, the length and the line it
read last.  Operations: pick its lines of `queries.txt`, connect, write a query, read
lines until a length of zero.  Hard: `read` returns what has arrived, or nothing at
the end of the stream, and its result is not looked at, here nor in the thread.

**Clinic (Midterm-Project).**  State: the input file and its offset, the counters
of the buffer, the citizen in the room, the totals, the semaphores, what was
written to each FIFO, pending signals.  Operations: a nurse fetches and puts a
vaccine; a vaccinator takes one of each kind, invites a citizen, gives the dose;
a citizen enters, counts itself off, reports its end; main counts the reports,
stops the vaccinators with SIGUSR1 and prints the table; CTRL-C passes SIGINT to
everybody.  Hard: reads of a FIFO that has no writer, signals that arrive in
critical sections, a buffer that fills up with one kind.

**Homework market (hw4).**  State: the queue, the table of students, the money,
`wait_for_assignment`, `no_monney`, five kinds of semaphores.  Operations:
student_h queues homeworks; main takes one, scans for the best free student it
can pay, hands over, waits until the student took it; a student solves, marks
itself free, posts.  Hard: flags and semaphores that must agree although no
lock protects both; ending while work is in progress.

**Hot potato (hw3).**  State: FIFOs, the temperature of each potato and the
number of cold ones in shared memory, each player's potato.  Operations: take a
FIFO, open all, throw, read, cool, tell everybody that all are cold.  Hard: the
counter is incremented without the semaphore at the start and compared before
it was read; `read()` at end of file; SIGPIPE.

**Lagrange processes (hw2).**  State: the file, `handled_signals`, the pending
signals.  Operations: two rounds of compute, report, write in turn, and the
error over all lines.  Hard: a signal that is pending is not queued twice.

**File search (hw1).**  State: the frames of the recursion, the tree of what was
found.  Operations: read the options, walk, test an entry, add its path to the
tree, print, free; SIGINT frees and exits.  Hard: the loop that matches names with
`+`; what `stat` leaves when it fails; the tree while it grows.

## Modules

| Module | Models | Right-hand side |
|---|---|---|
| `ReaderWriter` | `reader_writer.c` | implements `RWLock` |
| `RWLock` | the abstract lock: readers or one writer, readers hold back | |
| `ThreadPool` | `server.c` (main loop and handler), `t_pool.c` | |
| `ThreadPoolProofs` | proofs about `ThreadPool` | |
| `Sessions` | `server.c` from start to end, and a client and its thread on a connection | |
| `SessionsProofs` | proofs about `Sessions` | |
| `Splitting` | places of a sequence and what stands between them | used by the next three and `Sessions` |
| `CsvLoader` | `get_csv.c` as operators on files, and what a reader takes from a line | used by `SqlQueries` |
| `SqlWords` | the words of a query text, and what a client means by it | used by `SqlQueries` |
| `SqlTable` | the loops of `sql.c` as operators on tables | used by the next two |
| `SqlQueries` | file, table, text, query and response of one session | |
| `TableServer` | `reader_writer()` around `respond()`: extends `ReaderWriter` and `SqlTable` | implements `AtomicTable` |
| `AtomicTable` | the abstract server: a query is answered in one step | |
| `TableServerProofs` | proofs about `ReaderWriter`, `SqlTable` and `TableServer` | |
| `Clinic` | the four programs of Midterm-Project | |
| `ClinicProofs` | proofs about `Clinic` | |
| `HomeworkMarket` | hw4 | |
| `HotPotato` | hw3 | |
| `HomeworkProofs` | proofs about `HotPotato` and `HomeworkMarket` | |
| `LagrangeRounds` | hw2 | |
| `LagrangeProofs` | proofs about `LagrangeRounds` | |
| `NameMatch` | `is_match()` of hw1, one turn of its loop at a time | |
| `FileSearch` | hw1: extends `NameMatch` | |
| `SequentialProofs` | proofs about `NameMatch`, `FileSearch` and `SqlQueries` | |
| `DataTheorems` | facts about data: totals, numbered sets, the words of a text, the cells of a line | used by four proof modules |

`MCX` gives the constants of `X` their values for TLC.

### How steps correspond to code

*ReaderWriter.*  `m` is held from `lock` to `wait` or `unlock`, so each stretch
between those is one action: `ReaderEnters` is lock, the `while` test and
`AR++`; `ReaderWaits` the same with a true test, up to `wait`, with `WR`
incremented; `ReaderEntersWoken` and `ReaderWaitsAgain` are the return of
`wait`.  `OneOf` is `pthread_cond_signal`: any one sleeper, or nothing.
`SpuriousWakeup` is always possible.  A thread's place is `pc`; the sets
`wait_read` and `wait_write` are the wait sets of the condition variables.

*ThreadPool.*  A pool thread's critical section is one step.  main's is split
(`MainLocks`, `MainPushes`, `MainCounts`, `MainSignals`, `MainTests`), because
`handle_sigint` may interrupt it between any two of these, in the middle of the push,
the count and the signal too, and then keeps whatever main holds: `HandlerStarts`
puts main in the handler and leaves `lock` as it is.  `process` says how the
server ended: by the handler (`shut_down`) or by `pop()` on an empty stack
(`popped_empty`).  A client connects, stays, and closes; what it asks is the
business of `TableServer`.  `spurious` is a history variable: a thread's
`pthread_cond_wait` has returned without a signal.

*Sessions.*  The pool, which `ThreadPool` has, is abstracted from: an accepted
connection has a thread.  A query is the number of lines of its response.  A server
goes from `off` to `checked`, `created`, `running`, and by SIGINT to `interrupted` and
`draining`: the file is gone, threads still work, and the socket still listens, so that
connections to the backlog succeed until the last join.  A SIGINT that comes after the
handler is installed and before `listen()` removes the file too (`RemovesEarly`, phase
`leaving`); one that comes before leaves it (`StartFails`).  A server ends at once where
a thread calls `exit` or gets a SIGPIPE (`Dies`).

Streams deliver in any portions, both ways.  A client's line is on the `wire` until it
arrives, whole or in part; a client that read a part goes `astray`, for the next length
is then taken from text, and is not followed further.  A thread that reads a part of a
query (`read( socket , query, 1024)`, t_pool.c:51), or a blank line, takes apart words
that nobody has assigned: it is `garbled` (`ReadsGarbled`), sends lines and zeros that
answer nothing, or ends the process (`SendsOther`); a client that gets such a line goes
`astray`.  A reset client makes `read` return -1: `ReadsReset` carries the old query out
again.

`Open` is false for the connection whose number is that of `instantiation_fd` once the
handler runs, `CutNth`.  A server started with descriptors 0, 1 and 2 opens the file as
3; `my_daemon()` closes all; then the log is 0, the dataset, which `count_columns()`
opens and never closes (get_csv.c:139), 1, the listening socket 2, and the first
connection 3.  So the first client is cut off, and the run has `CutNth = 1`; with
other descriptors open at the start it is a later one, and the theorems hold for any.
The thread of that connection runs on over the query in its buffer (`RunsOn`).

*CsvLoader, SqlWords, SqlQueries.*  A line of a file is a sequence of characters, of
which comma and quote matter; a text of a query is a sequence of pieces: the characters
blank, comma, = and ', and between them keywords, names and values.  `Load` is
`get_table()`, where a cell nobody wrote is any garbage; `Ask` writes a query in one of
five styles, takes the text apart as `sql.c` does, and carries out what that gives.

*SqlTable, TableServer.*  A query is what `parse()`, `get_type()` and
`get_colname_value()` make of its text: a type, columns, assignments; the last
word with a `=` is the condition.  The table is a function from row numbers to
rows, row 0 the header.  `RespondRow` is one turn of the loop of whichever
function answers; the others run between two turns.  A query of unknown type or
with an unknown column ends the server process, as `exit( 0 )` does.

*NameMatch, FileSearch.*  A turn of the loop of `is_match()` is a step, the test of
the other criteria another.  Names and patterns are any sequences of characters, with
a `+` wherever it may be; what stands before a `+` that leads the pattern,
`lower_syntax[-1]`, is any character or none (`Repeats`, `RepeatsNot`).  `frames` is the
stack of `walk_in_dir()`, each with an `f_stat` that starts as garbage.

`add_entry()` is split where SIGINT may come between: room is there (`HasRoom`), or
`malloc()` or `realloc()` return a block (`Allocates`, `Reallocs`) and it is stored in
`sub_entries` (`StoresBlock`); the entry is counted (`PlacesEntry`) and its pointer set
(`Clears`).  Blocks are counted in entries.  `freed` says how often the block that each
`sub_entries` points to has been given back: a `realloc()` that moved it has done so
until its result is stored, and whoever runs `free_tree()` does so for each way by which
its recursion over `size` and `sub_entries` comes to the node (`Visits`).  main frees
block by block; what the handler does is one step, as it exits after it and has the
process for itself.

*Clinic.*  A step lies between two calls that can block or that another process
can see.  `sem_csection` is taken and given back by separate steps, for a
process may be killed while it holds it.  Processes start after main has forked
them all.  `writers` and `opened` say who has a FIFO open for writing and whether
anybody ever had, which is what `open` and `read` of a FIFO depend on; `eof` is a
history variable set when main counts a `read` that returned 0.

*HomeworkMarket.*  `available` is a plain `int` written by students and read by
main without a lock, so main's scan is one step for each line of the table.
`add` and `poll` run under `sem_queue` and are one step each.  A blank line of
the students file has a thread and a semaphore token but is never available.

*HotPotato.*  A player is named by the FIFO it takes, a potato by its owner.
`open` of a FIFO waits for the other end.  The section under the semaphore is
three steps (`Cools`, `Updates`, `TellsAll` or `Posts`), because the increments at
the start do not take the semaphore.  A write to a FIFO whose reader is gone
kills the writer; a read when all writers are gone returns 0, and the code takes
its last potato for a new one.  `trouble` is a history variable that names what
has happened.

*LagrangeRounds.*  `usr2` is the pending SIGUSR2 of the parent, `usr1` the children
SIGUSR1 is pending for: booleans, since pending signals are not queued.  Both
are handled in `sigsuspend` only.  `add_num` is two steps, the copy of the whole
file and its rewrite.  `coalesced` is a history variable.

## Runs

| Run | Instance | Question | States |
|---|---|---|---|
| `rw` | 4 threads | exact counters, no lost wakeup, implementation of `RWLock`, writers not starved by readers, everyone served once queries stop | 1 430 |
| `pool` | 2 threads, 3 connections, SIGINT, spurious wakeups | accounts of connections, no empty pop before the broadcast, clients served, what SIGINT ends | 122 799 |
| `sessions` | 2 servers, 2 clients, one of which may be killed; 3 lines of queries, one of them blank | who is up beside whom, the file, whole responses, clients that get through | 535 076 |
| `table` | 3 threads, 7 queries, 2 records of 2 columns | implementation of `AtomicTable` | 51 848 |
| `sql` | 200 datasets of up to 3 records, every query of up to 2 columns or assignments in 5 styles | the table is the file, the query what is meant, the answer that of SQL | 31 071 |
| `clinic` | 2 nurses, 2 vaccinators, 2 citizens, 1 dose | buffer, room and totals | 366 860 |
| `clinic_live` | 1 nurse, 2 vaccinators, 1 citizen, 2 doses, CTRL-C | the buffer is protected, the clinic closes, everyone is served or ends | 185 086 |
| `clinic_late_citizen` | 1 nurse, 1 vaccinator, 2 citizens | *violated*: all citizens are vaccinated when main says so | |
| `market` | 3 students and a blank line, 4 homework files | money, tokens, handover, all homework solved, the program ends | 8 780 |
| `potato` | 3 players, temperatures 0 to 2, SIGINT | potatoes, the count and the end of the game | 148 178 |
| `lagrange` | 8 children, as in the code | one process at the file, complete rounds, the end | 134 535 |
| `find` | 36 directories of up to 3 levels, 6 patterns, 8 command lines, SIGINT | what is found, the blocks of the tree, the end | 1 085 498 |

### Bounds and why they are enough

The smallest instance in which the interesting case exists, plus one where the state
space allows it.  In `rw` four threads give a reader and a writer inside or asleep with
one more of each role to interfere.  In `pool` the third connection finds both threads
busy and main asleep on `cond_server`.  In `table` two threads conflict and the third
sees the result; two records are enough for a reader to be between an updated and an old
row, and the two updates test the column the other one sets.  In `sql` three records can
hold a duplicate that is not adjacent; the datasets have a quoted comma, an empty cell
and a blank line in every place, first, last and between.  In `sessions` two servers
meet at the file, one starts beside another that drains, and the first connection of a
server is the one whose descriptor the handler closes: either client may have it; a
response of one line and a zero is the shortest that can be cut, lost half way and sent
again.  In `find` blocks hold one entry instead of 20 and paths two names instead of
100, so that blocks grow and paths are too long; the patterns are those with no `+`,
one, several, one that would have to go back and one that begins with it, and a name has
a `+` of its own.  In `clinic` two of each process race for every semaphore; the buffer
has its smallest legal size, t * c + 1.  In `market` the third student is the cheapest
and works when the fourth homework is assigned; the four files exhaust the money, end
early, ask for an unknown priority, and have a `D` before the end.  In `potato` three
players are the fewest with a bystander.  `lagrange` has the size of the code.  The only
unbounded quantities are the count of `HotPotato` when one player is left alone at end
of file, which `ReadsEof` stops above `num_of_line`; the lines a garbled thread of
`Sessions` sends, of which one at a time is on its way (`SendsOther`); and how far a
leading `+` reads behind the end of a name, which is once (`Repeats`).

Deadlock is checked where the program serves for ever (`rw`).  The other systems end,
so their runs say `CHECK_DEADLOCK FALSE` and a liveness property states the end
they must reach; in `table` and
`sessions` a query may end the process, and `sql` asks once.

### Fairness

Weak fairness of each thread or process (each pool thread, main, each nurse and
so on), that is, a scheduler that runs what can run.  A mutex that is free and
wanted is enough for the weak form because no thread can take it for ever
without end: `WakesForEver` excludes a `pthread_cond_wait` that never stops
returning by itself.  Clients that connected close in the end; that any client
connects, that a query arrives or that SIGINT comes is not assumed.  In `Clinic`
a signal sent is delivered once it is not blocked.  In `Sessions` fairness is that of a
connection as a whole, its thread, its client and the network: within one connection
they wait for each other in turn, so that some step of it being possible for ever means
that one is taken.  `FileSearch` is one process.

## What the code promises and does not keep

One disagreement between the code and the repository's own words is a run that is
violated.

* `clinic_late_citizen`: "All citizens have been vaccinated ." (151044046.c:256).
  main counts a `read` that returns 0 as a citizen who has finished.

Others are stated the other way round, as properties that hold and name every
exception.

* "The server run as a single instance.", "No possible double instantiation"
  (Report-Latex/main.tex:141-142): not if two servers look before either creates the
  file, and not after a SIGINT, when the handler removes the file and then waits for its
  threads: a second server starts beside one that still serves, and whose socket still
  takes connections.  `OneServerButParting` shows that there is no third way.  Nor can a
  server always be started again: `FileFollowsServer` allows the file to stay behind when
  a server ends in `pop()`, at an unknown type or column, by SIGPIPE, or before it listens.
* "Thread pool works as expected" (Report-Latex/main.tex:144): `thread_of_pool` waits on
  `cond` before it looks at the stack, so a connection pushed while no thread sleeps on
  `cond` is signalled to nobody and stays on the stack while threads are idle.
  `ServedUnlessSignalLost` shows that there is no other way for a client to go unserved.
* "waiting for ongoing threads to complete", "All threads have terminated"
  (server.c:238, 253): the broadcast wakes idle threads, which pop from the empty stack
  and `exit( 0 )` under those that serve; a thread that was busy waits on `cond` again
  and is never joined; and if SIGINT finds main between `lock` and `unlock` no thread
  gets on at all.  `SigintEnds` has these exceptions and no others.
* A client prints its last line for ever when the server goes away, or takes the
  response for complete if `size` was never assigned; it is led astray by a line that
  arrives in parts; a query that arrives in parts is taken apart for a whole one; a blank
  line of `queries.txt` is sent as a query of its own; and SIGINT cuts the first connection
  off instead of closing the file.  `ResponseExact` and `ClientEnds` allow these.
* A file overruns the table if it has a blank line before a record, or a last line of one
  character without a newline, which is not counted; and an empty last cell is left as
  `malloc` gave it (`TableIsFile`).  An `UPDATE` with a blank in a value,
  without a blank between assignments, or without a condition is carried out as another
  one (`UnderstoodOrRefused`).
* hw1 does not go back after a `+`: `a+a` does not find `aa`; it finds a file named `a+`
  for the pattern `a+`, and compares a `+` that leads the pattern with what lies before
  the string (`MatchIsRight`).  It judges
  an entry whose `stat` fails by the entry before (`FoundExactly`); `-w` twice passes for
  a criterion; where the file system does not tell the type, directories are not entered.
* "all resources returned to the system" (HW1_151044046.c:210): a SIGINT that finds a
  block moved by `realloc()` and not yet stored frees it a second time; one that finds an
  entry counted whose pointer is not set frees what the pointer happens to say; one that
  finds main freeing frees again.  `BlocksSound` shows that these are the only moments
  (`Misplaced`).
* A `D` in a homework file of hw4 ends the program, since main takes it for the mark
  that student_h puts last (main.c:115): what follows is never assigned, with "No more
  homeworks left" on the screen (`HomeworksSolved`).

In the other programs:

* After a citizen counted at end of file, main's SIGUSR1 can stop a vaccinator that
  holds `sem_csection`, and the rest wait for ever (`ClinicCloses` says "unless `eof`").
* A vaccinator in `vaccinate()` blocks SIGINT; if CTRL-C kills the citizen it waits
  for, it waits for ever, against Latex-Report/main.tex:152; `ClinicCloses` shows that all
  others end.
* `update()` does not count the header it sends but takes one off all the same: the
  log of sql.c:370 is one record short.
* `sem_available_std` starts at the number of lines, blank ones included, so with a
  blank line main may find nobody free and close with "Money is over" although
  there is money; and it closes when only a busy student is cheap enough.
* In hw3 a cold potato counted at the start is not compared with the total, so if
  it is the last the players wait for ever; two such counts may merge into one; a
  player compares `number_of_cool` before it was ever read; an interrupted player
  tells nobody, because it closes the FIFOs first.  `GameEnds` lists these cases,
  and shows that there are no others.
* In hw2 two reports that arrive together are one signal, and the parent waits for
  ever.  `EndsUnlessCoalesced` shows that this is the only way not to end.

## Proofs

Every safety property that a passing run checks is also proved, for instances of every
size.  A proof module has the invariant first, then lemmas about data, then one lemma
for each step, then the theorems.  What several of them say of data is in
`DataTheorems`.

**`TableServerProofs`**, for every finite set of threads.

*The lock.*  Type correctness, exact counters, exclusion, no lost wakeup, and that
every behaviour is one of `RWLock`.  None is inductive alone: `Exclusion` needs the
counters to be exact, since the tests look at counters and the claim is about
threads; exactness needs the types; the wakeups need exclusion to know who else is
inside.  `IndInv` is their conjunction.  Counting is the work of `CountFacts` and
`CountMoves`: when one thread moves, each class of threads gains it, loses it or
keeps its size.  The implementation follows step by step, with `IndInv` to turn a
test of counters into the abstract guard.

*The server.*  `LockInUse`: the threads at the table use the lock as `ReaderWriter`
has it, so all of the above holds of them.  `TableIsAtomic`: `TableServer`
implements `AtomicTable`, for every table and every set of queries.  The abstract
answer is given when a thread gets past the lock (`Answer`), the abstract response
is complete when its loop has ended (`Finish`), and what lies between stutters.
`TableInv` says for each thread that what it has sent, followed by what the loop
would send of the table as it is now, is the promised response; and the same of
the rows an update has yet to change.  `ResponseUnfolds` is the turn of the loop: it
moves one row from what is left to do to what has been done.  That nobody else
moves rows in between is the lock's `Exclusion`.

**`ThreadPoolProofs`**, for every finite set of threads and any connections, with
spurious wakeups and SIGINT anywhere: type correctness, `BusyExact`, `BusyBounded`
and `NoEmptyPop`.  `PoolInv` adds `SocketHeld` (a thread has a connection exactly
from `pop()` to the end of its loop) and `AcceptedHeld` (main has one between
`accept()` and `push()`); without the first `num_of_busy - 1` might leave the
natural numbers, without the second the stack might receive no connection.
`Accounts` says by how much `num_of_busy` is behind at each point of main's critical
section, and `MainLocked` that nobody else can look there.  `NoEmptyPop` follows with
`Unsignalled`: between its push and its signal main owes one wakeup to nobody yet.

**`SessionsProofs`**, for any number of servers, clients and queries.

*The file.*  `OneServerButParting` and `FileFollowsServer` need
`NobodyAboutToJoin`: without a race nobody has looked for the file and not yet
created it while another server holds it.  All steps on connections are shown to leave
file and servers alone or to be a death of the process.

*The responses.*  `ResponseExact` rests on `TalkInv`, which follows one query
around a connection: it is on the way to the server, or the thread has written some
lines of it, or all and the zero (`Turn`); and the lines on the way back are
those between what the client has printed and what the thread has written
(`Coming`).  When the connection breaks, what has been printed no longer changes
but at its end, and a closed connection never opens again (`NeverReopens`).  A thread
that has once read a part of a query stays `garbled` (`GarbledStays`), and of its client
nothing is claimed.  That each
query of a client has a number of lines, the blank ones included, is `RowsTyped`: a
client's first line is no blank one, since a blank line belongs to the client of the
line before it (`FirstIsText`).

**`ClinicProofs`**, for any numbers of nurses, vaccinators, citizens and doses, any
file, any buffer main accepts.

*The buffer.*  Each semaphore is compared with what it should count: `LostKey`,
`LostPlaces` and `Lost(k)` are what is missing from the key, the free places and the
vaccines of kind k.  `BufferInv`: they are never negative, whoever is killed where,
and this is all that `BufferProtected` needs; `Exact`: they stay 0 while nobody is
killed with something in hand, from which `BufferExact`.

*The room.*  `RoomExact` has `OneInRoom` and `OneVisit` (at most one vaccinator and
one citizen are between invitation and goodbye, and the semaphores say how far they
have come), `Loop` (where a citizen's number of shots puts it) and `Dose`.  A process
killed in the room leaves it `Stuck`: nobody enters any more.

*The end.*  `TotalsAddUp` adds `DosesGiven` (the vaccinators' totals, and the doses
on their way there, are what the citizens had), `Supply` (no more vaccines are given
than read) and `Told` (main has read one report of each citizen that ended, unless it
took the end of a FIFO for one).  Sums over the processes change by what one
process does (`TotalChanges`).

**`HomeworkProofs`**.

*hw3*, for any number of players: `PotatoInOnePlace`, `CountFollowsPotatoes` and
`OverWhenAllCold` need each other, so that one invariant, `PotatoInv`, holds all.  A
throw kills nobody because the game is on while a potato is hot; the game is on
because the count is not ahead of the cold potatoes; and the count is not ahead
because a potato becomes cold once, in one hand.  It is claimed while nobody has
left; what remains true afterwards follows from what was true then.

*hw4*, for any students, homework and money: `MarketInv` says where a homework can be
between main's assignment and the student's return (`Handover`), which gives
`OneHandover`; that the marks in the table are those of idle students (`Marks`), which
with a sum over the students gives `TokensMatchFlags`; `Accounts` gives
`MoneyConserved`; `Queued` says that the queue holds what has been read of the file and,
last, the mark that ends main's loop, and that main has met no such mark before, which
gives `HomeworksSolved`.

**`LagrangeProofs`**, for any number of children: `WriterAlone` and
`ErrorOfWholeRound`.  The parent counts signals, and signals merge.  The invariant
has one part for each place of the parent's loop; what keeps them together is
`HandledBehind`: SIGUSR2 is handled, or pending, at most once for each child that
has reported and sleeps.  So a merged signal makes the parent wait, never go ahead.

**`SequentialProofs`**.

*`is_match()`*, for every set of patterns and names: it answers yes only to names that
the pattern denotes, unless a `+` of the name was taken for one of the pattern, and no
only to others, unless the pattern has a `+` followed by the character it repeats; of a
pattern that begins with `+` nothing is claimed.  The invariant has two halves.
`ReadSoFar`: the part of the name before `e_index` has a reading by the part of the
pattern before `s_index`, which at the end is a reading of the whole.  `AllBehind`:
every reading of the whole name places what has been passed within what has been passed,
which is where going back would be needed; when a character differs it leaves no
reading.

*The tree of hw1*, for every directory, all options and every size of blocks:
`BlocksSound`.  `TreeInv` says that entries lead to nodes, that blocks have room for
what is counted, and where a pointer may be unset; `PlaceInv` that there is room for
one more where the next entry goes, which is not obvious since `capacity` stays what
it was when the block was first allocated; `FreedInv` and `OnceInv` what has been freed.
That the recursion of `free_tree()` comes to each node by one way only (`VisitedOnce`)
is a fact about the tree: no name is listed twice in a node (`ListedOnce`), since
`get_index()` has looked for it before `add_entry()`.  It needs the invariant of the
search (`ShapeInv`), below.

*What hw1 finds*, for every directory, all options and all patterns: `FoundExactly`.
The invariant `Found` is written after the way of an entry from the directory to the
output.  `CompleteInv`: what is surely to be found is in the tree, or below an entry
that a call of `walk_in_dir()` has not read, or below the one at hand (`ToCome`); so
nothing is left when the last call returns.  `EntryInv` and `NameRead`: what is tested is
reached through directories that open, and name, type and `f_stat` are its own unless
its `stat` failed; with `MatchInv` of `is_match()` the test is right (`TestIsRight`).
`ShapeInv`: the nodes are closed under parents, and each node but the root is named once
in its parent's entries.  `SoundInv`: each node leads to something that may be found.
`PrintInv`: each node has been printed or is below exactly one of the paths on the
stack of `print_output_tree()`, whose parent has been printed; so at the end each has
been printed once, and after its parent.  Paths are ordered by `Under`, and what is
said of sequences and their beginnings is proved first, without induction.

*The queries*, for every dataset, any names and values, and texts and lines of any
length.  `SqlInv` says that the table has the rows and columns it should, and carries
`TableIsFile` and `UnderstoodOrRefused` from one step to the next.

`TableIsFile`: on a line whose quotes open and close cells, `get_cells()` finds the fields
a reader finds, but for an empty one at the end (`LineRead`).  The loop goes forwards and
the argument backwards: at the character after the kth separator, what it still finds
are the fields from k + 1 on.  `PlainCellRead` and `QuotedCellRead` are one turn of it:
that it stops at the next comma outside quotes is a count of the quotes before that
comma (`QuotesAre`).  The rest is which lines are counted: without a blank line before a
record, and with the last line counted, line r + 1 is record r.

`UnderstoodOrRefused`: `ReadsAs(S, t, ws, w)` says that the text t so far is the words ws
and, being written, the word w.  `PieceRead` is what one more piece does, `CommaRead` what
stands between two items in each style does, and so on up to a list of any length
(`ListRead`), a whole `SELECT` (`SelectRead`) and a whole `UPDATE` (`UpdateRead`).  A list
of several columns that no blank separates is a single word, which is no column's name
(`NotAColumn`), so the server exits.  For an `UPDATE` the words with an = are one for each
assignment (`AssignmentsRead`), and `get_colname_value()` finds name and value in each
(`AssignedIs`).

`DistinctIsRight` and `UpdateIsRight`: the response is defined by the order of the rows
sent, so the work is in `NthCounts` and `FirstRow`; that each combination of values of
`select distinct` is sent at its first row, and that of several assignments to a column the
last one stays, follow.

**`DataTheorems`** has facts about data that several proofs cite and that neither the
community modules nor the library state: totals over a finite set (`TotalChanges`: when
one term changes), the kth of a set of numbers (`NthCounts`: `Nth` counts through the set
in increasing order), and the words and cells above.  A total is a recursive function on
subsets, a list in a text one on numbers, the cells of a line one on its places.  The
library's induction theorems take an operator, which cannot be instantiated here; so the
induction is over a set, of subsets (`SubsetInduction`) or of numbers (`UpTo`): a smallest
one outside of it would be in it.

### Assumptions

Those on the constants, named in the modules that declare them, and evaluated by TLC
in the runs: finite sets of threads and players, processes of different kinds that
are different, a value `None` that is no connection, lower case that leaves `+` alone
(`NameAssumption`), directories in which what is at a path is in directories
(`DirectoryAssumption`), a file of queries that begins with one (`SessionAssumption`).

Of datasets (`FileAssumption`): the first line is the list of the columns, unquoted and all
different; the other lines are blank or have a field for each column; quotes open and
close cells.  Of what clients ask (`QueryAssumption`): the names of columns have no
blank, comma or =, and are not the words `*` and `DISTINCT`; values have no ' and no blank,
but in the style that puts a blank into each.  A client may ask for columns the dataset
does not have.

Writing the proofs changed the model where it was wrong or could not be reasoned about.
Lines of a file were sequences of cells and commas, and are now sequences of characters,
which showed the last line that is not counted.  The words of a text, the cells of a line
and a client's queries were folds and are now taken from the places where they are cut
(`Splitting`), and `get_cells()` is a function on the places of the line.
`OpensFifo` of `HotPotato` had cases that overlapped; functions written with `:>` and `@@`,
which the prover does not know, are written out, as is the record of a call in
`ReadsEntry` of `FileSearch`.

### Only model-checked

* All liveness and `ENABLED`, which are out of the prover's reach: what must
  eventually happen in each run.

## Not modelled

* Failing system calls other than those named: `open`, `read` and `write` on
  connections, `stat` and `opendir` of a directory below the first.
* Descriptors: no thread closes its socket, and a server runs out of them.
* Buffers of fixed length: lines of 1000 characters, 30 words in a query, 100
  characters in a word, 1024 in a response.
* The values of options (ports, paths) and their parsing in the server and the client.
* A second run of the clinic over semaphores left behind by a killed one; main's
  forks; input files with the wrong number of doses.
* SIGINT in hw4 (the process ends anywhere) and in hw2; the arithmetic of hw2 (`calc`,
  `find_coeffs.c`) and a failing `execve` there, after which a child goes on as a parent.
* More players than FIFOs in hw3: one too many leaves at once.
* In hw1 a signal inside `malloc`, `realloc` or `free`.
* Build files.

## Plan

Done, in this order: the table lock with its abstract lock and proofs; the pool with
proofs; queries and the table server with its abstract server; the clinic; the
homework market; hot potato; the Lagrange rounds; name matching with proofs and the file
search; the loader and the texts of queries; servers and clients as processes with
proofs; proofs of the table server, the responses, the clinic, the two homework
programs, the Lagrange rounds, the queries and the file search; proofs that datasets and
the texts of queries are read rightly at any length.

Next:

1. `Sessions` with several connections of one client program (`exec.c` starts ten), and
   descriptors that run out.
