-------------------------------- MODULE Clinic --------------------------------
(***************************************************************************)
(* The vaccination clinic of Midterm-Project: the processes 151044046      *)
(* (main), nurse, vaccinator and citizen, the named semaphores and shared  *)
(* memory between them, the two FIFOs and the signals.                     *)
(*                                                                         *)
(* A step is what a process does from one call that can block, or that     *)
(* another process can see, to the next.  sem_csection is taken and given  *)
(* back in separate steps, for a SIGINT may kill a process that holds it.  *)
(* Init is the state after main has forked everyone.                       *)
(***************************************************************************)
EXTENDS Naturals, Sequences, FiniteSets, Functions

CONSTANTS Nurses, Vaccinators, Citizens,
          times_of_shot,        \* doses each citizen needs
          buffer_size,          \* vaccines the buffer holds
          Interrupts            \* may CTRL-C be pressed?

number_of_vaccine == 2 * times_of_shot * Cardinality(Citizens)

\* Finitely many processes of their own, and main refuses any smaller buffer.
ASSUME ClinicAssumption ==
  /\ IsFiniteSet(Nurses \cup Vaccinators \cup Citizens)
  /\ Nurses \cap Vaccinators = {} /\ Nurses \cap Citizens = {}
  /\ Vaccinators \cap Citizens = {}
  /\ times_of_shot \in Nat \ {0} /\ buffer_size \in Nat
  /\ buffer_size >= times_of_shot * Cardinality(Citizens) + 1
  /\ Interrupts \in BOOLEAN

VARIABLES pc,           \* the point each nurse, vaccinator and citizen is at
          main,         \* the point main is at
          file,         \* the input: which vaccine comes when
          offset,       \* shm_offset: how much of it has been read
          kind,         \* vaccine_kind of each nurse
          vac,          \* shm_cbuffer: vaccines of each kind in the buffer
          remain,       \* shm_cbuffer: citizens not yet fully vaccinated
          sem,          \* the values of the seven semaphores
          vroom,        \* shm_vroom: which citizen is in the room, which dose
          shots,        \* how far each citizen's loop is: doses it has had
          total_shot,   \* doses each vaccinator has given
          vac_table,    \* shm_vac_table: total_shot as it reports it
          writers,      \* processes that have each FIFO open for writing
          opened,       \* FIFOs some process has ever opened for writing
          msgs,         \* messages in each FIFO
          counted,      \* reads main has made from each FIFO
          eof,          \* history: did one of them return 0?
          usr1,         \* vaccinators SIGUSR1 has been sent to
          sigint        \* has SIGINT been sent to everyone?

room   == <<vroom, shots, total_shot, remain>>
buffer == <<file, offset, kind, vac>>
fifos  == <<writers, opened, msgs, counted, eof>>
ends   == <<vac_table, usr1, sigint>>
clinicVars == <<pc, main, buffer, room, sem, fifos, ends>>

Processes == Nurses \cup Vaccinators \cup Citizens
Kinds     == {1, 2}
Fifos     == {"vac_fifo", "citizen_fifo"}
shot      == [k \in Kinds |-> IF k = 1 THEN "shot1" ELSE "shot2"]

\* The input file holds as many doses of each kind as will be needed.
Files == {f \in [1 .. number_of_vaccine -> Kinds] :
            Cardinality({i \in DOMAIN f : f[i] = 1}) * 2 = number_of_vaccine}

ClinicInit ==
  /\ pc = [p \in Processes |-> IF p \in Nurses THEN "fetch" ELSE "start"]
  /\ main = "open_vac_fifo"
  /\ file \in Files /\ offset = 0
  /\ kind = [n \in Nurses |-> 1]
  /\ vac = [k \in Kinds |-> 0] /\ remain = Cardinality(Citizens)
  /\ sem = [empty |-> buffer_size, csection |-> 1, shot1 |-> 0, shot2 |-> 0,
            vaccinator |-> 1, client |-> 0, pid |-> 0]
  /\ vroom = <<>>
  /\ shots = [c \in Citizens |-> 0]
  /\ total_shot = [v \in Vaccinators |-> 0]
  /\ vac_table = [v \in Vaccinators |-> 0]
  /\ writers = [f \in Fifos |-> {}] /\ opened = {}
  /\ msgs = [f \in Fifos |-> 0] /\ counted = [f \in Fifos |-> 0]
  /\ eof = FALSE /\ usr1 = {} /\ sigint = FALSE

Goto(p, from, to) == pc[p] = from /\ pc' = [pc EXCEPT ![p] = to]

Wait(s) == sem[s] > 0 /\ sem' = [sem EXCEPT ![s] = @ - 1]
Post(s) == sem' = [sem EXCEPT ![s] = @ + 1]
-------------------------------------------------------------------------------
(* nurse.c *)

\* get_vaccine(), under flock on the file: the next dose, or the end.
NurseFetches(n) ==
  /\ IF offset >= number_of_vaccine
     THEN Goto(n, "fetch", "exited") /\ UNCHANGED <<offset, kind>>
     ELSE /\ Goto(n, "fetch", "wait_empty")
          /\ offset' = offset + 1
          /\ kind' = [kind EXCEPT ![n] = file[offset + 1]]
  /\ UNCHANGED <<main, file, vac, room, sem, fifos, ends>>

\* Mutant: the nurse does not wait for a free place.
NurseSkipsEmpty(n) ==
  /\ Goto(n, "wait_empty", "wait_cs")
  /\ UNCHANGED <<main, buffer, room, sem, fifos, ends>>

NurseWaitsEmpty(n) ==
  /\ Goto(n, "wait_empty", "wait_cs") /\ Wait("empty")
  /\ UNCHANGED <<main, buffer, room, fifos, ends>>

NurseEntersCs(n) ==
  /\ Goto(n, "wait_cs", "in_cs") /\ Wait("csection")
  /\ UNCHANGED <<main, buffer, room, fifos, ends>>

NursePuts(n) ==
  /\ Goto(n, "in_cs", "post_shot")
  /\ vac' = [vac EXCEPT ![kind[n]] = @ + 1]
  /\ Post("csection")
  /\ UNCHANGED <<main, file, offset, kind, room, fifos, ends>>

NursePostsShot(n) ==
  /\ Goto(n, "post_shot", "fetch") /\ Post(shot[kind[n]])
  /\ UNCHANGED <<main, buffer, room, fifos, ends>>

Nurse(n) == \/ NurseFetches(n) \/ NurseWaitsEmpty(n) \/ NurseEntersCs(n)
            \/ NursePuts(n) \/ NursePostsShot(n)

-------------------------------------------------------------------------------
(* Opening a FIFO for writing blocks until main has opened it for reading,  *)
(* or is about to.                                                          *)

MainReads(f) ==
  IF f = "vac_fifo" THEN main \notin {"closed", "interrupted"}
  ELSE main \notin {"open_vac_fifo", "closed", "interrupted"}

Opens(p, f) == /\ MainReads(f)
               /\ writers' = [writers EXCEPT ![f] = @ \cup {p}]
               /\ opened' = opened \cup {f}
               /\ UNCHANGED <<msgs, counted, eof>>

\* The process tells main its pid, and closes the FIFO.
Reports(p, f) == /\ msgs' = [msgs EXCEPT ![f] = @ + 1]
                 /\ writers' = [writers EXCEPT ![f] = @ \ {p}]
                 /\ UNCHANGED <<opened, counted, eof>>

-------------------------------------------------------------------------------
(* vaccinator.c *)

VaccinatorOpens(v) ==
  /\ Goto(v, "start", "mapping") /\ Opens(v, "vac_fifo")
  /\ UNCHANGED <<main, buffer, room, sem, ends>>

VaccinatorMaps(v) ==
  /\ Goto(v, "mapping", "wait_shot1")
  /\ UNCHANGED <<main, buffer, room, sem, fifos, ends>>

\* get_vaccines(): a dose of the first kind, then one of the second.
Waiting(k)  == IF k = 1 THEN "wait_shot1" ELSE "wait_shot2"
WaitCs(k)   == IF k = 1 THEN "wait_cs1" ELSE "wait_cs2"
InCs(k)     == IF k = 1 THEN "in_cs1" ELSE "in_cs2"
PostEmpty(k) == IF k = 1 THEN "post_empty1" ELSE "post_empty2"

VaccinatorWaitsShot(v, k) ==
  /\ Goto(v, Waiting(k), WaitCs(k)) /\ Wait(shot[k])
  /\ UNCHANGED <<main, buffer, room, fifos, ends>>

VaccinatorEntersCs(v, k) ==
  /\ Goto(v, WaitCs(k), InCs(k)) /\ Wait("csection")
  /\ UNCHANGED <<main, buffer, room, fifos, ends>>

VaccinatorTakes(v, k) ==
  /\ Goto(v, InCs(k), PostEmpty(k))
  /\ vac' = [vac EXCEPT ![k] = @ - 1]
  /\ Post("csection")
  /\ UNCHANGED <<main, file, offset, kind, room, fifos, ends>>

\* Mutant: the free place is not given back after the second kind.
PostsEmptyOnce(v, k) ==
  /\ Goto(v, PostEmpty(k), IF k = 1 THEN "wait_shot2" ELSE "block")
  /\ IF k = 1 THEN Post("empty") ELSE UNCHANGED sem
  /\ UNCHANGED <<main, buffer, room, fifos, ends>>

VaccinatorPostsEmpty(v, k) ==
  /\ Goto(v, PostEmpty(k), IF k = 1 THEN "wait_shot2" ELSE "block")
  /\ Post("empty")
  /\ UNCHANGED <<main, buffer, room, fifos, ends>>

VaccinatorBlocks(v) ==
  /\ Goto(v, "block", "wait_room")
  /\ UNCHANGED <<main, buffer, room, sem, fifos, ends>>

\* Mutant: the room is not kept for one vaccinator.
VaccinatorSharesRoom(v) ==
  /\ Goto(v, "wait_room", "invite")
  /\ UNCHANGED <<main, buffer, room, sem, fifos, ends>>

\* vaccinate(), with every signal blocked.
VaccinatorWaitsRoom(v) ==
  /\ Goto(v, "wait_room", "invite") /\ Wait("vaccinator")
  /\ UNCHANGED <<main, buffer, room, fifos, ends>>

VaccinatorInvites(v) ==
  /\ Goto(v, "invite", "wait_pid") /\ Post("client")
  /\ UNCHANGED <<main, buffer, room, fifos, ends>>

VaccinatorWaitsPid(v) ==
  /\ Goto(v, "wait_pid", "wait_cs3") /\ Wait("pid")
  /\ UNCHANGED <<main, buffer, room, fifos, ends>>

VaccinatorEntersCs3(v) ==
  /\ Goto(v, "wait_cs3", "in_cs3") /\ Wait("csection")
  /\ UNCHANGED <<main, buffer, room, fifos, ends>>

\* It reads what the citizen and the buffer's counters say, and prints it.
VaccinatorPrints(v) ==
  /\ Goto(v, "in_cs3", "leave_room") /\ Post("csection")
  /\ UNCHANGED <<main, buffer, room, fifos, ends>>

VaccinatorLeavesRoom(v) ==
  /\ Goto(v, "leave_room", "wait_shot1") /\ Post("vaccinator")
  /\ total_shot' = [total_shot EXCEPT ![v] = @ + 1]
  /\ UNCHANGED <<main, buffer, vroom, shots, remain, fifos, ends>>

\* Mutant: the signals are not blocked to the end of vaccinate().
UnblockedTooEarly == {"wait_room", "invite", "wait_pid", "wait_cs3", "in_cs3"}

Vaccinating == {"wait_room", "invite", "wait_pid", "wait_cs3", "in_cs3",
                "leave_room"}

\* handle_usr1(), which before the mmap of the table writes through a null
\* pointer.
VaccinatorStops(v) ==
  /\ v \in usr1 /\ pc[v] \notin Vaccinating \cup {"exited", "crashed"}
  /\ IF pc[v] \in {"start", "mapping"}
     THEN /\ pc' = [pc EXCEPT ![v] = "crashed"]
          /\ writers' = [writers EXCEPT !["vac_fifo"] = @ \ {v}]
          /\ UNCHANGED <<vac_table, opened, msgs, counted, eof>>
     ELSE /\ pc' = [pc EXCEPT ![v] = "exited"]
          /\ vac_table' = [vac_table EXCEPT ![v] = total_shot[v]]
          /\ Reports(v, "vac_fifo")
  /\ UNCHANGED <<main, buffer, room, sem, usr1, sigint>>

Vaccinator(v) ==
  \/ VaccinatorOpens(v) \/ VaccinatorMaps(v)
  \/ \E k \in Kinds : \/ VaccinatorWaitsShot(v, k) \/ VaccinatorEntersCs(v, k)
                      \/ VaccinatorTakes(v, k) \/ VaccinatorPostsEmpty(v, k)
  \/ VaccinatorBlocks(v) \/ VaccinatorWaitsRoom(v)
  \/ VaccinatorInvites(v) \/ VaccinatorWaitsPid(v)
  \/ VaccinatorEntersCs3(v) \/ VaccinatorPrints(v) \/ VaccinatorLeavesRoom(v)

-------------------------------------------------------------------------------
(* citizen.c *)

CitizenOpens(c) ==
  /\ Goto(c, "start", "wait_client") /\ Opens(c, "citizen_fifo")
  /\ UNCHANGED <<main, buffer, room, sem, ends>>

\* Mutant: one turn of the loop too many.
LastShotLater(c) == shots[c] = times_of_shot

LastShot(c) == shots[c] + 1 = times_of_shot

CitizenEntersRoom(c) ==
  /\ Goto(c, "wait_client", IF LastShot(c) THEN "wait_cs" ELSE "post_pid")
  /\ Wait("client")
  /\ vroom' = <<c, shots[c] + 1>>
  /\ UNCHANGED <<main, buffer, shots, total_shot, remain, fifos, ends>>

CitizenEntersCs(c) ==
  /\ Goto(c, "wait_cs", "in_cs") /\ Wait("csection")
  /\ UNCHANGED <<main, buffer, room, fifos, ends>>

CitizenCountsOff(c) ==
  /\ Goto(c, "in_cs", "post_pid")
  /\ remain' = remain - 1
  /\ Post("csection")
  /\ UNCHANGED <<main, buffer, vroom, shots, total_shot, fifos, ends>>

CitizenPostsPid(c) ==
  /\ Goto(c, "post_pid", IF LastShot(c) THEN "report" ELSE "wait_client")
  /\ Post("pid")
  /\ shots' = [shots EXCEPT ![c] = @ + 1]
  /\ UNCHANGED <<main, buffer, vroom, total_shot, remain, fifos, ends>>

CitizenReports(c) ==
  /\ Goto(c, "report", "exited") /\ Reports(c, "citizen_fifo")
  /\ UNCHANGED <<main, buffer, room, sem, ends>>

Citizen(c) == \/ CitizenOpens(c) \/ CitizenEntersRoom(c) \/ CitizenEntersCs(c)
              \/ CitizenCountsOff(c) \/ CitizenPostsPid(c) \/ CitizenReports(c)

-------------------------------------------------------------------------------
(* 151044046.c *)

MainOpens(f, from, to) ==
  /\ main = from /\ f \in opened
  /\ main' = to
  /\ UNCHANGED <<pc, buffer, room, sem, fifos, ends>>

\* read() returns a message, or 0 when nobody has the FIFO open for writing;
\* main does not look at what it returns.
MainCounts(f, at, expected) ==
  /\ main = at /\ counted[f] < expected
  /\ counted' = [counted EXCEPT ![f] = @ + 1]
  /\ \/ msgs[f] > 0 /\ msgs' = [msgs EXCEPT ![f] = @ - 1] /\ eof' = eof
     \/ msgs[f] = 0 /\ writers[f] = {} /\ eof' = TRUE /\ msgs' = msgs
  /\ UNCHANGED <<pc, main, buffer, room, sem, writers, opened, ends>>

MainStopsVaccinators ==
  /\ main = "count_citizens"
  /\ counted["citizen_fifo"] = Cardinality(Citizens)
  /\ usr1' = Vaccinators
  /\ main' = "count_vaccinators"
  /\ UNCHANGED <<pc, buffer, room, sem, fifos, vac_table, sigint>>

\* "All citizens have been vaccinated ."
MainCloses ==
  /\ main = "count_vaccinators"
  /\ counted["vac_fifo"] = Cardinality(Vaccinators)
  /\ main' = "closed"
  /\ UNCHANGED <<pc, buffer, room, sem, fifos, ends>>

Main ==
  \/ MainOpens("vac_fifo", "open_vac_fifo", "open_citizen_fifo")
  \/ MainOpens("citizen_fifo", "open_citizen_fifo", "count_citizens")
  \/ MainCounts("citizen_fifo", "count_citizens", Cardinality(Citizens))
  \/ MainStopsVaccinators
  \/ MainCounts("vac_fifo", "count_vaccinators", Cardinality(Vaccinators))
  \/ MainCloses

\* CTRL-C: main's handler passes SIGINT on to everybody and exits.
Interrupt ==
  /\ Interrupts /\ main \notin {"closed", "interrupted"}
  /\ sigint' = TRUE
  /\ main' = "interrupted"
  /\ UNCHANGED <<pc, buffer, room, sem, fifos, vac_table, usr1>>

\* handle_sigint of the others, wherever they do not block the signal.
Killed(p) ==
  /\ sigint
  /\ pc[p] \notin {"exited", "crashed"}
  /\ p \in Vaccinators => pc[p] \notin Vaccinating
  /\ pc' = [pc EXCEPT ![p] = "exited"]
  /\ writers' = [f \in Fifos |-> writers[f] \ {p}]
  /\ UNCHANGED <<main, buffer, room, sem, opened, msgs, counted, eof, ends>>

\* All is over: every process has ended.
Over == /\ main \in {"closed", "interrupted"}
        /\ \A p \in Processes : pc[p] \in {"exited", "crashed"}
        /\ UNCHANGED clinicVars

ClinicNext ==
  \/ \E n \in Nurses : Nurse(n)
  \/ \E v \in Vaccinators : Vaccinator(v) \/ VaccinatorStops(v)
  \/ \E c \in Citizens : Citizen(c)
  \/ Main
  \/ Interrupt
  \/ \E p \in Processes : Killed(p)
  \/ Over

ClinicSpec == ClinicInit /\ [][ClinicNext]_clinicVars

\* Every process runs, and a signal sent is delivered once it is not blocked.
ClinicFairness ==
  /\ \A n \in Nurses : WF_clinicVars(Nurse(n))
  /\ \A v \in Vaccinators : /\ WF_clinicVars(Vaccinator(v))
                            /\ WF_clinicVars(VaccinatorStops(v))
  /\ \A c \in Citizens : WF_clinicVars(Citizen(c))
  /\ WF_clinicVars(Main)
  /\ \A p \in Processes : WF_clinicVars(Killed(p))

ClinicFairSpec == ClinicSpec /\ ClinicFairness

-------------------------------------------------------------------------------
(* What must hold.                                                         *)

Where(S) == {p \in Processes : pc[p] \in S}

\* "I Protect the buffer against underflow and overflow", "No race condition
\* for the buffer" (Latex-Report/main.tex:149): at most one process is at the
\* shared counters; they never go below zero or above the size of the buffer,
\* not even when processes are killed half way.
BufferProtected ==
  /\ Cardinality(Where({"in_cs", "in_cs1", "in_cs2", "in_cs3"})) <= 1
  /\ \A k \in Kinds : vac[k] >= 0
  /\ vac[1] + vac[2] <= buffer_size

\* The semaphores say how many vaccines and how many free places there are,
\* up to what nurses and vaccinators between two calls are about to change.
BufferExact ==
  ~sigint /\ ~eof =>
    /\ \A k \in Kinds :
         vac[k] = sem[shot[k]]
                    + Cardinality({n \in Nurses : pc[n] = "post_shot"
                                                    /\ kind[n] = k})
                    + Cardinality(Where({WaitCs(k), InCs(k)}))
    /\ buffer_size = sem.empty + vac[1] + vac[2]
                       + Cardinality({n \in Nurses :
                                        pc[n] \in {"wait_cs", "in_cs"}})
                       + Cardinality(Where({"post_empty1", "post_empty2"}))

NotFinished == {c \in Citizens : shots[c] < times_of_shot}

\* What a vaccinator prints is true of the citizen it invited: the room holds
\* the dose that citizen has come for, whoever else is about, and the citizen
\* who leaves for good finds the exact number of those still to come.
RoomExact ==
  \A v \in Vaccinators : pc[v] \in {"wait_cs3", "in_cs3"} =>
    /\ vroom # <<>> /\ shots[vroom[1]] = vroom[2]
    /\ vroom[2] = times_of_shot => remain = Cardinality(NotFinished)

\* The final table adds up: if main was told of everybody's end, each citizen
\* has had every dose and each dose is in some vaccinator's total.
TotalsAddUp ==
  main = "closed" /\ ~eof =>
    /\ NotFinished = {}
    /\ SumFunction(vac_table) = times_of_shot * Cardinality(Citizens)

Done(p) == pc[p] \in {"exited", "crashed"}

\* A buffer of more than t * c places is enough for every mix of doses in the
\* file: nurses and vaccinators do not wait for each other, and the clinic
\* closes with everyone vaccinated, unless main took the end of a FIFO for an
\* answer.  After CTRL-C everybody ends, whoever else is gone, but vaccinators
\* that wait in vaccinate() for the room, a citizen or the critical section.
ClinicCloses ==
  <>(\/ eof
     \/ main = "closed" /\ NotFinished = {}
     \/ sigint /\ \A p \in Processes :
                    Done(p) \/ pc[p] \in {"wait_room", "wait_pid", "wait_cs3"})

\* "All citizens have been vaccinated ." (151044046.c:256)
AllVaccinated == main = "closed" => NotFinished = {}
===============================================================================
