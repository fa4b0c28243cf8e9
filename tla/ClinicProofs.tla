----------------------------- MODULE ClinicProofs -----------------------------
(***************************************************************************)
(* The safety of the clinic for any numbers of nurses, vaccinators,        *)
(* citizens and doses, any file and any buffer main accepts, with CTRL-C   *)
(* at any moment where the property allows it.                             *)
(***************************************************************************)
EXTENDS Clinic, DataTheorems

Semaphores == {"empty", "csection", "shot1", "shot2", "vaccinator", "client",
               "pid"}

NursePoints == {"fetch", "wait_empty", "wait_cs", "in_cs", "post_shot",
                "exited"}

VaccinatorPoints ==
  {"start", "mapping", "wait_shot1", "wait_cs1", "in_cs1", "post_empty1",
   "wait_shot2", "wait_cs2", "in_cs2", "post_empty2", "block", "wait_room",
   "invite", "wait_pid", "wait_cs3", "in_cs3", "leave_room", "exited",
   "crashed"}

CitizenPoints == {"start", "wait_client", "wait_cs", "in_cs", "post_pid",
                  "report", "exited"}

Points == NursePoints \cup VaccinatorPoints \cup CitizenPoints

PcOK == /\ pc \in [Processes -> Points]
        /\ \A n \in Nurses : pc[n] \in NursePoints
        /\ \A v \in Vaccinators : pc[v] \in VaccinatorPoints
        /\ \A c \in Citizens : pc[c] \in CitizenPoints

\* vac and remain never fall below zero, but that is no matter of types.
DataOK ==
  /\ main \in {"open_vac_fifo", "open_citizen_fifo", "count_citizens",
               "count_vaccinators", "closed", "interrupted"}
  /\ file \in [1 .. number_of_vaccine -> Kinds]
  /\ offset \in 0 .. number_of_vaccine
  /\ kind \in [Nurses -> Kinds]
  /\ vac \in [Kinds -> Int] /\ remain \in Int
  /\ shots \in [Citizens -> Nat] /\ total_shot \in [Vaccinators -> Nat]
  /\ vac_table \in [Vaccinators -> Nat]
  /\ msgs \in [Fifos -> Nat] /\ counted \in [Fifos -> Nat]

ClinicTypeOK == PcOK /\ sem \in [Semaphores -> Nat] /\ DataOK

-------------------------------------------------------------------------------
LEMMA ClinicFacts ==
  /\ IsFiniteSet(Processes) /\ IsFiniteSet(Nurses)
  /\ IsFiniteSet(Vaccinators) /\ IsFiniteSet(Citizens)
  /\ Cardinality(Citizens) \in Nat /\ Cardinality(Vaccinators) \in Nat
  /\ times_of_shot \in Nat /\ times_of_shot > 0 /\ buffer_size \in Nat
  /\ number_of_vaccine \in Nat
  /\ number_of_vaccine = 2 * (times_of_shot * Cardinality(Citizens))
  /\ \A p \in Processes : \/ p \in Nurses \/ p \in Vaccinators \/ p \in Citizens
  /\ \A n \in Nurses : n \in Processes /\ n \notin Vaccinators /\ n \notin Citizens
  /\ \A v \in Vaccinators : v \in Processes /\ v \notin Citizens /\ v \notin Nurses
  /\ \A c \in Citizens : c \in Processes /\ c \notin Nurses /\ c \notin Vaccinators
<1>1. /\ IsFiniteSet(Processes) /\ IsFiniteSet(Nurses)
      /\ IsFiniteSet(Vaccinators) /\ IsFiniteSet(Citizens)
  BY ClinicAssumption, FS_Subset DEF Processes
<1>2. Cardinality(Citizens) \in Nat /\ Cardinality(Vaccinators) \in Nat
  BY <1>1, FS_CardinalityType
<1>3. /\ times_of_shot * Cardinality(Citizens) \in Nat
      /\ number_of_vaccine = 2 * (times_of_shot * Cardinality(Citizens))
  BY <1>2, ClinicAssumption DEF number_of_vaccine
<1>4. QED  BY <1>1, <1>2, <1>3, ClinicAssumption DEF Processes

\* A process goes to a point of its own kind.
LEMMA PcMoves ==
  ASSUME PcOK, NEW p \in Processes, NEW to \in Points,
         p \in Nurses => to \in NursePoints,
         p \in Vaccinators => to \in VaccinatorPoints,
         p \in Citizens => to \in CitizenPoints,
         pc' = [pc EXCEPT ![p] = to]
  PROVE  PcOK'
  BY ClinicFacts DEF PcOK

LEMMA NurseMoves ==
  ASSUME PcOK, NEW p \in Nurses, NEW from, NEW to \in NursePoints,
         Goto(p, from, to)
  PROVE  PcOK'
  BY ClinicFacts, PcMoves DEF Goto, Points

LEMMA VaccinatorMoves ==
  ASSUME PcOK, NEW p \in Vaccinators, NEW from, NEW to \in VaccinatorPoints,
         Goto(p, from, to)
  PROVE  PcOK'
  BY ClinicFacts, PcMoves DEF Goto, Points

LEMMA CitizenMoves ==
  ASSUME PcOK, NEW p \in Citizens, NEW from, NEW to \in CitizenPoints,
         Goto(p, from, to)
  PROVE  PcOK'
  BY ClinicFacts, PcMoves DEF Goto, Points

LEMMA SemMoves ==
  ASSUME sem \in [Semaphores -> Nat], NEW s \in Semaphores,
         Wait(s) \/ Post(s)
  PROVE  sem' \in [Semaphores -> Nat]
  BY DEF Wait, Post

LEMMA TypeInit == ClinicInit => ClinicTypeOK
<1> SUFFICES ASSUME ClinicInit PROVE ClinicTypeOK
  OBVIOUS
<1>1. sem \in [Semaphores -> Nat]
  BY ClinicFacts DEF ClinicInit, Semaphores
<1>2. PcOK
  BY ClinicFacts DEF ClinicInit, PcOK, Points, NursePoints, VaccinatorPoints,
     CitizenPoints
<1>3. file \in [1 .. number_of_vaccine -> Kinds]
  BY DEF ClinicInit, Files
<1>4. QED  BY <1>1, <1>2, <1>3, ClinicFacts DEF ClinicInit, ClinicTypeOK, DataOK, Kinds, Fifos

\* Every step of a process goes from a point of its kind to another.
LEMMA PcStep == PcOK /\ [ClinicNext]_clinicVars => PcOK'
<1> SUFFICES ASSUME PcOK, [ClinicNext]_clinicVars PROVE PcOK'
  OBVIOUS
<1>1. ASSUME NEW n \in Nurses, Nurse(n) PROVE PcOK'
  <2>1. \E from, to \in NursePoints : Goto(n, from, to)
    BY <1>1 DEF Nurse, NurseFetches, NurseWaitsEmpty, NurseEntersCs, NursePuts,
       NursePostsShot, NursePoints
  <2>2. QED  BY <2>1, NurseMoves
<1>2. ASSUME NEW v \in Vaccinators, Vaccinator(v) PROVE PcOK'
  <2>1. \E from, to \in VaccinatorPoints : Goto(v, from, to)
    BY <1>2 DEF Vaccinator, VaccinatorWaitsShot, VaccinatorEntersCs,
       VaccinatorTakes, VaccinatorPostsEmpty, Waiting, WaitCs, InCs, PostEmpty,
       VaccinatorOpens, VaccinatorMaps, VaccinatorBlocks, VaccinatorWaitsRoom,
       VaccinatorInvites, VaccinatorWaitsPid, VaccinatorEntersCs3,
       VaccinatorPrints, VaccinatorLeavesRoom, VaccinatorPoints
  <2>2. QED  BY <2>1, VaccinatorMoves
<1>3. ASSUME NEW c \in Citizens, Citizen(c) PROVE PcOK'
  <2>1. \E from, to \in CitizenPoints : Goto(c, from, to)
    BY <1>3 DEF Citizen, CitizenOpens, CitizenEntersRoom, CitizenEntersCs,
       CitizenCountsOff, CitizenPostsPid, CitizenReports, CitizenPoints
  <2>2. QED  BY <2>1, CitizenMoves
<1>4. ASSUME NEW v \in Vaccinators, VaccinatorStops(v) PROVE PcOK'
  <2>1. \E to \in VaccinatorPoints : Goto(v, pc[v], to)
    BY <1>4 DEF VaccinatorStops, VaccinatorPoints, Goto
  <2>2. QED  BY <2>1, VaccinatorMoves
<1>5. ASSUME NEW p \in Processes, Killed(p) PROVE PcOK'
  BY <1>5, PcMoves DEF Killed, Points, NursePoints, VaccinatorPoints,
     CitizenPoints
<1>6. CASE Main \/ Interrupt \/ Over \/ UNCHANGED clinicVars
  BY <1>6 DEF Main, MainOpens, MainCounts, MainStopsVaccinators, MainCloses,
     Interrupt, Over, clinicVars, PcOK
<1>7. QED  BY <1>1, <1>2, <1>3, <1>4, <1>5, <1>6 DEF ClinicNext

LEMMA SemStep ==
  sem \in [Semaphores -> Nat] /\ kind \in [Nurses -> Kinds]
    /\ [ClinicNext]_clinicVars => sem' \in [Semaphores -> Nat]
<1> SUFFICES ASSUME sem \in [Semaphores -> Nat], kind \in [Nurses -> Kinds],
                    [ClinicNext]_clinicVars
             PROVE  sem' \in [Semaphores -> Nat]
  OBVIOUS
<1>1. \A k \in Kinds : shot[k] \in Semaphores
  BY DEF shot, Kinds, Semaphores
<1>2. ASSUME NEW n \in Nurses, Nurse(n) PROVE sem' \in [Semaphores -> Nat]
  <2>1. sem' = sem \/ \E s \in Semaphores : Wait(s) \/ Post(s)
    <3>1. shot[kind[n]] \in Semaphores
      BY <1>1
    <3>2. QED
      BY <1>2, <3>1 DEF Nurse, NurseFetches, NurseWaitsEmpty, NurseEntersCs,
         NursePuts, NursePostsShot, Semaphores
  <2>2. QED  BY <2>1, SemMoves
<1>3. ASSUME NEW v \in Vaccinators, Vaccinator(v)
      PROVE  sem' \in [Semaphores -> Nat]
  <2>1. sem' = sem \/ \E s \in Semaphores : Wait(s) \/ Post(s)
    BY <1>1, <1>3 DEF Vaccinator, VaccinatorWaitsShot, VaccinatorEntersCs,
       VaccinatorTakes, VaccinatorPostsEmpty, VaccinatorOpens, VaccinatorMaps,
       VaccinatorBlocks, VaccinatorWaitsRoom, VaccinatorInvites,
       VaccinatorWaitsPid, VaccinatorEntersCs3, VaccinatorPrints,
       VaccinatorLeavesRoom, Semaphores
  <2>2. QED  BY <2>1, SemMoves
<1>4. ASSUME NEW c \in Citizens, Citizen(c) PROVE sem' \in [Semaphores -> Nat]
  <2>1. sem' = sem \/ \E s \in Semaphores : Wait(s) \/ Post(s)
    BY <1>4 DEF Citizen, CitizenOpens, CitizenEntersRoom, CitizenEntersCs,
       CitizenCountsOff, CitizenPostsPid, CitizenReports, Semaphores
  <2>2. QED  BY <2>1, SemMoves
<1>5. CASE \/ Main \/ Interrupt \/ Over \/ UNCHANGED clinicVars
           \/ \E v \in Vaccinators : VaccinatorStops(v)
           \/ \E p \in Processes : Killed(p)
  BY <1>5 DEF Main, MainOpens, MainCounts, MainStopsVaccinators, MainCloses,
     Interrupt, Over, VaccinatorStops, Killed, clinicVars
<1>6. QED  BY <1>2, <1>3, <1>4, <1>5 DEF ClinicNext

LEMMA DataStep == DataOK /\ [ClinicNext]_clinicVars => DataOK'
<1> SUFFICES ASSUME DataOK, [ClinicNext]_clinicVars PROVE DataOK'
  OBVIOUS
<1> USE DEF DataOK, room, buffer, fifos, ends
<1>1. ASSUME NEW n \in Nurses, Nurse(n) PROVE DataOK'
  <2>1. CASE NurseFetches(n)
    <3>1. CASE offset >= number_of_vaccine
      BY <2>1, <3>1 DEF NurseFetches
    <3>2. CASE ~(offset >= number_of_vaccine)
      <4>1. offset + 1 \in 1 .. number_of_vaccine
        BY <3>2, ClinicFacts
      <4>2. offset' = offset + 1 /\ kind' = [kind EXCEPT ![n] = file[offset + 1]]
        BY <2>1, <3>2 DEF NurseFetches
      <4>3. offset' \in 0 .. number_of_vaccine /\ kind' \in [Nurses -> Kinds]
        <5>1. file[offset + 1] \in Kinds /\ offset \in 0 .. number_of_vaccine
          BY <4>1
        <5>2. offset + 1 \in 0 .. number_of_vaccine
          BY <4>1, <5>1, ClinicFacts
        <5>3. kind \in [Nurses -> Kinds]
          OBVIOUS
        <5>4. QED  BY ONLY <4>2, <5>1, <5>2, <5>3
      <4>4. UNCHANGED <<main, file, vac, room, fifos, ends>>
        BY <2>1 DEF NurseFetches
      <4>5. QED  BY <4>3, <4>4
    <3>3. QED  BY <3>1, <3>2
  <2>2. CASE NursePuts(n)
    BY <2>2 DEF NursePuts
  <2>3. QED
    BY <1>1, <2>1, <2>2 DEF Nurse, NurseWaitsEmpty, NurseEntersCs,
       NursePostsShot
<1>2. ASSUME NEW v \in Vaccinators, Vaccinator(v) PROVE DataOK'
  <2>1. ASSUME NEW k \in Kinds, VaccinatorTakes(v, k) PROVE DataOK'
    BY <2>1 DEF VaccinatorTakes
  <2>2. CASE VaccinatorLeavesRoom(v)
    BY <2>2 DEF VaccinatorLeavesRoom
  <2>3. QED
    BY <1>2, <2>1, <2>2 DEF Vaccinator, VaccinatorWaitsShot,
       VaccinatorEntersCs, VaccinatorPostsEmpty, VaccinatorOpens,
       VaccinatorMaps, VaccinatorBlocks, VaccinatorWaitsRoom,
       VaccinatorInvites, VaccinatorWaitsPid, VaccinatorEntersCs3,
       VaccinatorPrints, Opens
<1>3. ASSUME NEW c \in Citizens, Citizen(c) PROVE DataOK'
  <2>1. CASE CitizenPostsPid(c)
    BY <2>1 DEF CitizenPostsPid
  <2>2. CASE CitizenReports(c)
    BY <2>2 DEF CitizenReports, Reports, Fifos
  <2>3. CASE CitizenCountsOff(c)
    BY <2>3 DEF CitizenCountsOff
  <2>4. QED
    BY <1>3, <2>1, <2>2, <2>3 DEF Citizen, CitizenOpens, CitizenEntersRoom,
       CitizenEntersCs, Opens
<1>4. ASSUME NEW v \in Vaccinators, VaccinatorStops(v) PROVE DataOK'
  BY <1>4 DEF VaccinatorStops, Reports
<1>5. CASE Main
  <2>1. ASSUME NEW f \in Fifos, NEW at, NEW expected, MainCounts(f, at, expected)
        PROVE  DataOK'
    <3>1. counted' \in [Fifos -> Nat] /\ msgs' \in [Fifos -> Nat]
      <4>1. counted' = [counted EXCEPT ![f] = @ + 1]
        BY <2>1 DEF MainCounts
      <4>2. \/ msgs' = msgs
            \/ msgs[f] > 0 /\ msgs' = [msgs EXCEPT ![f] = @ - 1]
        BY <2>1 DEF MainCounts
      <4>3. msgs \in [Fifos -> Nat] /\ counted \in [Fifos -> Nat]
        OBVIOUS
      <4>4. QED  BY ONLY <4>1, <4>2, <4>3, f \in Fifos
    <3>2. UNCHANGED <<main, buffer, room, ends>>
      BY <2>1 DEF MainCounts
    <3>3. QED  BY <3>1, <3>2
  <2>2. "vac_fifo" \in Fifos /\ "citizen_fifo" \in Fifos
    BY DEF Fifos
  <2>3. QED
    BY <1>5, <2>1, <2>2 DEF Main, MainOpens, MainStopsVaccinators, MainCloses
<1>6. CASE \/ Interrupt \/ Over \/ UNCHANGED clinicVars
           \/ \E p \in Processes : Killed(p)
  BY <1>6 DEF Interrupt, Over, Killed, clinicVars
<1>7. QED  BY <1>1, <1>2, <1>3, <1>4, <1>5, <1>6 DEF ClinicNext

LEMMA TypeStep == ClinicTypeOK /\ [ClinicNext]_clinicVars => ClinicTypeOK'
  BY PcStep, SemStep, DataStep DEF ClinicTypeOK, DataOK

-------------------------------------------------------------------------------
(* The buffer.  What the semaphores do not account for is lost: it was held *)
(* by a process that is gone.                                               *)

AtCounters  == Where({"in_cs", "in_cs1", "in_cs2", "in_cs3"})
Posting(k)  == {n \in Nurses : pc[n] = "post_shot" /\ kind[n] = k}
Claiming(k) == Where({WaitCs(k), InCs(k)})
Carrying    == {n \in Nurses : pc[n] \in {"wait_cs", "in_cs"}}
Emptying    == Where({"post_empty1", "post_empty2"})

LostKey == 1 - sem["csection"] - Cardinality(AtCounters)

Lost(k) == vac[k] - sem[shot[k]] - Cardinality(Posting(k))
             - Cardinality(Claiming(k))

LostPlaces == buffer_size - sem["empty"] - vac[1] - vac[2]
                - Cardinality(Carrying) - Cardinality(Emptying)

\* Nothing is made out of nothing.
BufferInv == /\ LostKey >= 0 /\ LostPlaces >= 0
             /\ \A k \in Kinds : Lost(k) >= 0

NothingLost == /\ LostKey' = LostKey /\ LostPlaces' = LostPlaces
               /\ \A k \in Kinds : Lost(k)' = Lost(k)

One(b) == IF b THEN 1 ELSE 0

\* A set that changes by one element.
LEMMA SetChanges ==
  ASSUME NEW A, IsFiniteSet(A), NEW B, NEW x,
         \A y : y # x => (y \in A <=> y \in B)
  PROVE  Cardinality(B) = Cardinality(A) + One(x \in B) - One(x \in A)
<1>1. Cardinality(A) \in Nat
  BY FS_CardinalityType
<1>2. CASE x \in A /\ x \in B
  <2>1. A = B
    BY <1>2
  <2>2. QED  BY <1>1, <1>2, <2>1 DEF One
<1>3. CASE x \notin A /\ x \notin B
  <2>1. A = B
    BY <1>3
  <2>2. QED  BY <1>1, <1>3, <2>1 DEF One
<1>4. CASE x \in A /\ x \notin B
  <2>1. B = A \ {x}
    BY <1>4
  <2>2. Cardinality(B) = Cardinality(A) - 1
    BY <1>4, <2>1, FS_RemoveElement
  <2>3. QED  BY <1>1, <1>4, <2>2 DEF One
<1>5. CASE x \notin A /\ x \in B
  <2>1. B = A \cup {x}
    BY <1>5
  <2>2. Cardinality(B) = Cardinality(A) + 1
    BY <1>5, <2>1, FS_AddElement
  <2>3. QED  BY <1>1, <1>5, <2>2 DEF One
<1>6. QED  BY <1>2, <1>3, <1>4, <1>5

LEMMA CountTypes ==
  /\ Cardinality(AtCounters) \in Nat /\ Cardinality(Carrying) \in Nat
  /\ Cardinality(Emptying) \in Nat
  /\ \A k \in Kinds : /\ Cardinality(Posting(k)) \in Nat
                       /\ Cardinality(Claiming(k)) \in Nat
<1>1. \A S \in SUBSET Processes : Cardinality(S) \in Nat
  BY ClinicFacts, FS_Subset, FS_CardinalityType
<1>2. QED
  BY <1>1, ClinicFacts DEF AtCounters, Carrying, Emptying, Posting, Claiming, Where

\* When one process moves, each set changes by that process at most.
LEMMA CountsMove ==
  ASSUME PcOK, NEW p \in Processes, NEW from, NEW to, Goto(p, from, to),
         \A n \in Nurses : n # p => kind'[n] = kind[n]
  PROVE  /\ Cardinality(AtCounters)' = Cardinality(AtCounters)
                + One(p \in AtCounters)' - One(p \in AtCounters)
         /\ Cardinality(Carrying)' = Cardinality(Carrying)
                + One(p \in Carrying)' - One(p \in Carrying)
         /\ Cardinality(Emptying)' = Cardinality(Emptying)
                + One(p \in Emptying)' - One(p \in Emptying)
         /\ \A k \in Kinds :
              /\ Cardinality(Posting(k))' = Cardinality(Posting(k))
                    + One(p \in Posting(k))' - One(p \in Posting(k))
              /\ Cardinality(Claiming(k))' = Cardinality(Claiming(k))
                    + One(p \in Claiming(k))' - One(p \in Claiming(k))
<1>1. \A q : q # p => pc'[q] = pc[q]
  BY DEF Goto, PcOK
<1>2. \A S \in SUBSET Processes : IsFiniteSet(S)
  BY ClinicFacts, FS_Subset
<1>3. Cardinality(AtCounters)' = Cardinality(AtCounters)
        + One(p \in AtCounters)' - One(p \in AtCounters)
  <2>1. \A q : q # p => (q \in AtCounters <=> q \in AtCounters')
    BY <1>1 DEF AtCounters, Where
  <2>2. IsFiniteSet(AtCounters)
    BY <1>2 DEF AtCounters, Where
  <2>3. QED  BY <2>1, <2>2, SetChanges DEF One
<1>4. Cardinality(Carrying)' = Cardinality(Carrying)
        + One(p \in Carrying)' - One(p \in Carrying)
  <2>1. \A q : q # p => (q \in Carrying <=> q \in Carrying')
    BY <1>1 DEF Carrying
  <2>2. IsFiniteSet(Carrying)
    BY <1>2, ClinicFacts DEF Carrying
  <2>3. QED  BY <2>1, <2>2, SetChanges DEF One
<1>5. Cardinality(Emptying)' = Cardinality(Emptying)
        + One(p \in Emptying)' - One(p \in Emptying)
  <2>1. \A q : q # p => (q \in Emptying <=> q \in Emptying')
    BY <1>1 DEF Emptying, Where
  <2>2. IsFiniteSet(Emptying)
    BY <1>2 DEF Emptying, Where
  <2>3. QED  BY <2>1, <2>2, SetChanges DEF One
<1>6. ASSUME NEW k \in Kinds
      PROVE  Cardinality(Posting(k))' = Cardinality(Posting(k))
               + One(p \in Posting(k))' - One(p \in Posting(k))
  <2>1. \A q : q # p => (q \in Posting(k) <=> q \in Posting(k)')
    BY <1>1 DEF Posting
  <2>2. IsFiniteSet(Posting(k))
    BY <1>2, ClinicFacts DEF Posting
  <2>3. QED  BY <2>1, <2>2, SetChanges DEF One
<1>7. ASSUME NEW k \in Kinds
      PROVE  Cardinality(Claiming(k))' = Cardinality(Claiming(k))
               + One(p \in Claiming(k))' - One(p \in Claiming(k))
  <2>1. \A q : q # p => (q \in Claiming(k) <=> q \in Claiming(k)')
    BY <1>1 DEF Claiming, Where, WaitCs, InCs
  <2>2. IsFiniteSet(Claiming(k))
    BY <1>2 DEF Claiming, Where
  <2>3. QED  BY <2>1, <2>2, SetChanges DEF One
<1>8. QED  BY <1>3, <1>4, <1>5, <1>6, <1>7

\* The sets a nurse, a vaccinator and a citizen can be in.
LEMMA NurseCounts ==
  ASSUME PcOK, NEW n \in Nurses, NEW from \in NursePoints,
         NEW to \in NursePoints, Goto(n, from, to),
         \A m \in Nurses : m # n => kind'[m] = kind[m],
         from # "fetch" => kind'[n] = kind[n]
  PROVE  /\ Cardinality(AtCounters)' = Cardinality(AtCounters)
                + One(to = "in_cs") - One(from = "in_cs")
         /\ Cardinality(Carrying)' = Cardinality(Carrying)
                + One(to \in {"wait_cs", "in_cs"})
                - One(from \in {"wait_cs", "in_cs"})
         /\ Cardinality(Emptying)' = Cardinality(Emptying)
         /\ \A k \in Kinds :
              /\ Cardinality(Posting(k))' = Cardinality(Posting(k))
                    + One(to = "post_shot" /\ kind'[n] = k)
                    - One(from = "post_shot" /\ kind[n] = k)
              /\ Cardinality(Claiming(k))' = Cardinality(Claiming(k))
<1>1. n \in Processes /\ pc[n] = from /\ pc'[n] = to
  BY ClinicFacts DEF Goto, PcOK
<1>2. /\ n \in AtCounters <=> from = "in_cs"
      /\ n \in AtCounters' <=> to = "in_cs"
      /\ n \in Carrying <=> from \in {"wait_cs", "in_cs"}
      /\ n \in Carrying' <=> to \in {"wait_cs", "in_cs"}
      /\ n \notin Emptying /\ n \notin Emptying'
  BY <1>1 DEF AtCounters, Carrying, Emptying, Where, NursePoints
<1>3. ASSUME NEW k \in Kinds
      PROVE  /\ n \in Posting(k) <=> from = "post_shot" /\ kind[n] = k
             /\ n \in Posting(k)' <=> to = "post_shot" /\ kind'[n] = k
             /\ n \notin Claiming(k) /\ n \notin Claiming(k)'
  BY <1>1 DEF Posting, Claiming, Where, NursePoints, WaitCs, InCs
<1>4. QED  BY <1>1, <1>2, <1>3, CountsMove, CountTypes DEF One

LEMMA VaccinatorCounts ==
  ASSUME PcOK, NEW v \in Vaccinators, NEW from \in VaccinatorPoints,
         NEW to \in VaccinatorPoints, Goto(v, from, to), kind' = kind
  PROVE  /\ Cardinality(AtCounters)' = Cardinality(AtCounters)
                + One(to \in {"in_cs1", "in_cs2", "in_cs3"})
                - One(from \in {"in_cs1", "in_cs2", "in_cs3"})
         /\ Cardinality(Carrying)' = Cardinality(Carrying)
         /\ Cardinality(Emptying)' = Cardinality(Emptying)
                + One(to \in {"post_empty1", "post_empty2"})
                - One(from \in {"post_empty1", "post_empty2"})
         /\ \A k \in Kinds :
              /\ Cardinality(Posting(k))' = Cardinality(Posting(k))
              /\ Cardinality(Claiming(k))' = Cardinality(Claiming(k))
                    + One(to \in {WaitCs(k), InCs(k)})
                    - One(from \in {WaitCs(k), InCs(k)})
<1>1. v \in Processes /\ v \notin Nurses /\ pc[v] = from /\ pc'[v] = to
  BY ClinicFacts DEF Goto, PcOK
<1>2. /\ v \in AtCounters <=> from \in {"in_cs1", "in_cs2", "in_cs3"}
      /\ v \in AtCounters' <=> to \in {"in_cs1", "in_cs2", "in_cs3"}
      /\ v \in Emptying <=> from \in {"post_empty1", "post_empty2"}
      /\ v \in Emptying' <=> to \in {"post_empty1", "post_empty2"}
      /\ v \notin Carrying /\ v \notin Carrying'
  BY <1>1 DEF AtCounters, Carrying, Emptying, Where, VaccinatorPoints
<1>3. ASSUME NEW k \in Kinds
      PROVE  /\ v \notin Posting(k) /\ v \notin Posting(k)'
             /\ v \in Claiming(k) <=> from \in {WaitCs(k), InCs(k)}
             /\ v \in Claiming(k)' <=> to \in {WaitCs(k), InCs(k)}
  BY <1>1 DEF Posting, Claiming, Where, WaitCs, InCs
<1>4. QED  BY <1>1, <1>2, <1>3, CountsMove, CountTypes DEF One

LEMMA CitizenCounts ==
  ASSUME PcOK, NEW c \in Citizens, NEW from \in CitizenPoints,
         NEW to \in CitizenPoints, Goto(c, from, to), kind' = kind
  PROVE  /\ Cardinality(AtCounters)' = Cardinality(AtCounters)
                + One(to = "in_cs") - One(from = "in_cs")
         /\ Cardinality(Carrying)' = Cardinality(Carrying)
         /\ Cardinality(Emptying)' = Cardinality(Emptying)
         /\ \A k \in Kinds :
              /\ Cardinality(Posting(k))' = Cardinality(Posting(k))
              /\ Cardinality(Claiming(k))' = Cardinality(Claiming(k))
<1>1. c \in Processes /\ c \notin Nurses /\ pc[c] = from /\ pc'[c] = to
  BY ClinicFacts DEF Goto, PcOK
<1>2. /\ c \in AtCounters <=> from = "in_cs"
      /\ c \in AtCounters' <=> to = "in_cs"
      /\ c \notin Emptying /\ c \notin Emptying'
      /\ c \notin Carrying /\ c \notin Carrying'
  BY <1>1 DEF AtCounters, Carrying, Emptying, Where, CitizenPoints
<1>3. ASSUME NEW k \in Kinds
      PROVE  /\ c \notin Posting(k) /\ c \notin Posting(k)'
             /\ c \notin Claiming(k) /\ c \notin Claiming(k)'
  BY <1>1 DEF Posting, Claiming, Where, WaitCs, InCs, CitizenPoints
<1>4. QED  BY <1>1, <1>2, <1>3, CountsMove, CountTypes DEF One

LEMMA Semaphore ==
  ASSUME sem \in [Semaphores -> Nat]
  PROVE  /\ \A s \in Semaphores : Wait(s) =>
              /\ sem[s] > 0 /\ sem'[s] = sem[s] - 1
              /\ \A u \in Semaphores : u # s => sem'[u] = sem[u]
         /\ \A s \in Semaphores : Post(s) =>
              /\ sem'[s] = sem[s] + 1
              /\ \A u \in Semaphores : u # s => sem'[u] = sem[u]
         /\ \A s \in Semaphores : sem[s] \in Nat
  BY DEF Wait, Post

LEMMA KindsOfShot ==
  /\ Kinds = {1, 2} /\ shot[1] = "shot1" /\ shot[2] = "shot2"
  /\ \A k \in Kinds : /\ shot[k] \in Semaphores
                       /\ shot[k] \notin {"empty", "csection", "vaccinator",
                                         "client", "pid"}
  BY DEF Kinds, shot, Semaphores

LEMMA NurseLosesNothing ==
  ASSUME ClinicTypeOK, NEW n \in Nurses, Nurse(n)
  PROVE  NothingLost
<1> USE DEF NothingLost, LostKey, LostPlaces, Lost
<1>1. /\ PcOK /\ sem \in [Semaphores -> Nat]
      /\ kind \in [Nurses -> Kinds] /\ vac \in [Kinds -> Int]
  BY DEF ClinicTypeOK, DataOK
<1>2. {"empty", "csection"} \subseteq Semaphores
  BY DEF Semaphores
<1>3. CASE NurseFetches(n)
  <2>1. \E to \in {"exited", "wait_empty"} : Goto(n, "fetch", to)
    BY <1>3 DEF NurseFetches
  <2>2. /\ vac' = vac /\ sem' = sem
        /\ \A m \in Nurses : m # n => kind'[m] = kind[m]
    BY <1>1, <1>3 DEF NurseFetches
  <2>3. /\ Cardinality(AtCounters)' = Cardinality(AtCounters)
        /\ Cardinality(Carrying)' = Cardinality(Carrying)
        /\ Cardinality(Emptying)' = Cardinality(Emptying)
        /\ \A k \in Kinds :
             /\ Cardinality(Posting(k))' = Cardinality(Posting(k))
             /\ Cardinality(Claiming(k))' = Cardinality(Claiming(k))
    BY <1>1, <2>1, <2>2, NurseCounts, CountTypes DEF NursePoints, One
  <2>4. QED  BY <2>2, <2>3
<1>4. CASE NurseWaitsEmpty(n)
  <2>1. /\ Goto(n, "wait_empty", "wait_cs") /\ Wait("empty")
        /\ vac' = vac /\ kind' = kind
    BY <1>4 DEF NurseWaitsEmpty, buffer
  <2>2. /\ Cardinality(AtCounters)' = Cardinality(AtCounters)
        /\ Cardinality(Carrying)' = Cardinality(Carrying) + 1
        /\ Cardinality(Emptying)' = Cardinality(Emptying)
        /\ \A k \in Kinds :
             /\ Cardinality(Posting(k))' = Cardinality(Posting(k))
             /\ Cardinality(Claiming(k))' = Cardinality(Claiming(k))
    BY <1>1, <2>1, NurseCounts, CountTypes DEF NursePoints, One
  <2>3. QED
    BY <1>1, <1>2, <2>1, <2>2, Semaphore, KindsOfShot, CountTypes, ClinicFacts
<1>5. CASE NurseEntersCs(n)
  <2>1. /\ Goto(n, "wait_cs", "in_cs") /\ Wait("csection")
        /\ vac' = vac /\ kind' = kind
    BY <1>5 DEF NurseEntersCs, buffer
  <2>2. /\ Cardinality(AtCounters)' = Cardinality(AtCounters) + 1
        /\ Cardinality(Carrying)' = Cardinality(Carrying)
        /\ Cardinality(Emptying)' = Cardinality(Emptying)
        /\ \A k \in Kinds :
             /\ Cardinality(Posting(k))' = Cardinality(Posting(k))
             /\ Cardinality(Claiming(k))' = Cardinality(Claiming(k))
    BY <1>1, <2>1, NurseCounts, CountTypes DEF NursePoints, One
  <2>3. QED
    BY <1>1, <1>2, <2>1, <2>2, Semaphore, KindsOfShot, CountTypes
<1>6. CASE NursePuts(n)
  <2>1. /\ Goto(n, "in_cs", "post_shot") /\ Post("csection")
        /\ vac' = [vac EXCEPT ![kind[n]] = @ + 1] /\ kind' = kind
    BY <1>6 DEF NursePuts
  <2>2. /\ Cardinality(AtCounters)' = Cardinality(AtCounters) - 1
        /\ Cardinality(Carrying)' = Cardinality(Carrying) - 1
        /\ Cardinality(Emptying)' = Cardinality(Emptying)
        /\ \A k \in Kinds :
             /\ Cardinality(Posting(k))'
                  = Cardinality(Posting(k)) + One(kind[n] = k)
             /\ Cardinality(Claiming(k))' = Cardinality(Claiming(k))
    BY <1>1, <2>1, NurseCounts, CountTypes DEF NursePoints, One
  <2>3. /\ kind[n] \in Kinds
        /\ \A k \in Kinds : vac'[k] = vac[k] + One(kind[n] = k)
    BY <1>1, <2>1 DEF One
  <2>4. /\ sem'["csection"] = sem["csection"] + 1 /\ sem'["empty"] = sem["empty"]
        /\ \A k \in Kinds : sem'[shot[k]] = sem[shot[k]]
        /\ sem["csection"] \in Nat /\ sem["empty"] \in Nat
        /\ \A k \in Kinds : sem[shot[k]] \in Nat
    BY <1>1, <1>2, <2>1, Semaphore, KindsOfShot
  <2>5. vac'[1] + vac'[2] = (vac[1] + vac[2]) + 1 /\ vac[1] + vac[2] \in Int
    BY <1>1, <2>3, KindsOfShot DEF One
  <2>6. \A k \in Kinds : vac[k] \in Int /\ vac'[k] \in Int
    BY <1>1, <2>3 DEF One
  <2>7. LostKey' = LostKey
    BY <2>2, <2>4, CountTypes
  <2>8. LostPlaces' = LostPlaces
    <3>1. /\ vac[1] \in Int /\ vac[2] \in Int /\ vac'[1] \in Int
          /\ vac'[2] \in Int /\ buffer_size \in Int
      BY <2>6, KindsOfShot, ClinicFacts
    <3>2. QED  BY <2>2, <2>4, <2>5, <3>1, CountTypes
  <2>9. \A k \in Kinds : Lost(k)' = Lost(k)
    BY <2>2, <2>3, <2>4, <2>6, CountTypes DEF One
  <2>10. QED  BY <2>7, <2>8, <2>9
<1>7. CASE NursePostsShot(n)
  <2>1. /\ Goto(n, "post_shot", "fetch") /\ Post(shot[kind[n]])
        /\ vac' = vac /\ kind' = kind
    BY <1>7 DEF NursePostsShot, buffer
  <2>2. /\ Cardinality(AtCounters)' = Cardinality(AtCounters)
        /\ Cardinality(Carrying)' = Cardinality(Carrying)
        /\ Cardinality(Emptying)' = Cardinality(Emptying)
        /\ \A k \in Kinds :
             /\ Cardinality(Posting(k))'
                  = Cardinality(Posting(k)) - One(kind[n] = k)
             /\ Cardinality(Claiming(k))' = Cardinality(Claiming(k))
    BY <1>1, <2>1, NurseCounts, CountTypes DEF NursePoints, One
  <2>3. /\ kind[n] \in Kinds
        /\ \A k \in Kinds : sem'[shot[k]] = sem[shot[k]] + One(kind[n] = k)
        /\ sem'["empty"] = sem["empty"] /\ sem'["csection"] = sem["csection"]
    BY <1>1, <1>2, <2>1, Semaphore, KindsOfShot DEF One
  <2>4. QED
    BY <1>1, <2>1, <2>2, <2>3, Semaphore, KindsOfShot, CountTypes DEF One
<1>8. QED  BY <1>3, <1>4, <1>5, <1>6, <1>7 DEF Nurse

LEMMA VaccinatorLosesNothing ==
  ASSUME ClinicTypeOK, NEW v \in Vaccinators, Vaccinator(v)
  PROVE  NothingLost
<1> USE DEF NothingLost, LostKey, LostPlaces, Lost
<1>1. /\ PcOK /\ sem \in [Semaphores -> Nat] /\ vac \in [Kinds -> Int]
      /\ vac[1] \in Int /\ vac[2] \in Int /\ buffer_size \in Int
  BY ClinicFacts, KindsOfShot DEF ClinicTypeOK, DataOK
<1>2. {"empty", "csection", "vaccinator", "client", "pid"} \subseteq Semaphores
  BY DEF Semaphores
\* Points and semaphores the buffer does not know.
<1>3. ASSUME NEW from \in VaccinatorPoints, NEW to \in VaccinatorPoints,
             {from, to} \cap {"wait_cs1", "in_cs1", "post_empty1", "wait_cs2",
                             "in_cs2", "post_empty2", "in_cs3"} = {},
             Goto(v, from, to), UNCHANGED <<vac, kind>>,
             \/ UNCHANGED sem
             \/ \E s \in {"vaccinator", "client", "pid"} : Wait(s) \/ Post(s)
      PROVE  NothingLost
  <2>1. /\ Cardinality(AtCounters)' = Cardinality(AtCounters)
        /\ Cardinality(Carrying)' = Cardinality(Carrying)
        /\ Cardinality(Emptying)' = Cardinality(Emptying)
        /\ \A k \in Kinds :
             /\ Cardinality(Posting(k))' = Cardinality(Posting(k))
             /\ Cardinality(Claiming(k))' = Cardinality(Claiming(k))
    <3>1. /\ from \notin {"in_cs1", "in_cs2", "in_cs3"}
          /\ to \notin {"in_cs1", "in_cs2", "in_cs3"}
          /\ from \notin {"post_empty1", "post_empty2"}
          /\ to \notin {"post_empty1", "post_empty2"}
          /\ \A k \in Kinds : /\ from \notin {WaitCs(k), InCs(k)}
                              /\ to \notin {WaitCs(k), InCs(k)}
      BY <1>3 DEF WaitCs, InCs
    <3>2. QED  BY <1>1, <1>3, <3>1, VaccinatorCounts, CountTypes DEF One
  <2>2. /\ sem'["empty"] = sem["empty"] /\ sem'["csection"] = sem["csection"]
        /\ \A k \in Kinds : sem'[shot[k]] = sem[shot[k]]
    BY <1>1, <1>2, <1>3, Semaphore, KindsOfShot
  <2>3. QED  BY <1>3, <2>1, <2>2
<1>4. ASSUME \/ VaccinatorOpens(v) \/ VaccinatorMaps(v) \/ VaccinatorBlocks(v)
             \/ VaccinatorWaitsRoom(v) \/ VaccinatorInvites(v)
             \/ VaccinatorWaitsPid(v) \/ VaccinatorLeavesRoom(v)
      PROVE  NothingLost
  <2>1. \E from, to \in {"start", "mapping", "wait_shot1", "block", "wait_room",
                         "invite", "wait_pid", "wait_cs3", "leave_room"} :
           Goto(v, from, to)
    BY <1>4 DEF VaccinatorOpens, VaccinatorMaps, VaccinatorBlocks,
       VaccinatorWaitsRoom, VaccinatorInvites, VaccinatorWaitsPid,
       VaccinatorLeavesRoom
  <2>2. /\ UNCHANGED <<vac, kind>>
        /\ \/ UNCHANGED sem
           \/ \E s \in {"vaccinator", "client", "pid"} : Wait(s) \/ Post(s)
    BY <1>4 DEF VaccinatorOpens, VaccinatorMaps, VaccinatorBlocks,
       VaccinatorWaitsRoom, VaccinatorInvites, VaccinatorWaitsPid,
       VaccinatorLeavesRoom, buffer
  <2>3. PICK from, to \in {"start", "mapping", "wait_shot1", "block", "wait_room",
                           "invite", "wait_pid", "wait_cs3", "leave_room"} :
           Goto(v, from, to)
    BY <2>1
  <2>4. /\ from \in VaccinatorPoints /\ to \in VaccinatorPoints
        /\ {from, to} \cap {"wait_cs1", "in_cs1", "post_empty1", "wait_cs2",
                            "in_cs2", "post_empty2", "in_cs3"} = {}
    BY <2>3 DEF VaccinatorPoints
  <2>5. QED  BY <1>3, <2>2, <2>3, <2>4
\* Another one at the counters.
<1>5. ASSUME \/ VaccinatorEntersCs3(v)
             \/ \E k \in Kinds : VaccinatorEntersCs(v, k)
      PROVE  NothingLost
  <2>1. /\ Wait("csection") /\ UNCHANGED <<vac, kind>>
        /\ \E e \in {<<"wait_cs1", "in_cs1">>, <<"wait_cs2", "in_cs2">>,
                     <<"wait_cs3", "in_cs3">>} : Goto(v, e[1], e[2])
    BY <1>5 DEF VaccinatorEntersCs3, VaccinatorEntersCs, WaitCs, InCs, Kinds,
       buffer
  <2>2. /\ Cardinality(AtCounters)' = Cardinality(AtCounters) + 1
        /\ Cardinality(Carrying)' = Cardinality(Carrying)
        /\ Cardinality(Emptying)' = Cardinality(Emptying)
        /\ \A k \in Kinds :
             /\ Cardinality(Posting(k))' = Cardinality(Posting(k))
             /\ Cardinality(Claiming(k))' = Cardinality(Claiming(k))
    BY <1>1, <2>1, VaccinatorCounts, CountTypes
       DEF One, WaitCs, InCs, VaccinatorPoints
  <2>3. QED
    BY <1>1, <1>2, <2>1, <2>2, Semaphore, KindsOfShot, CountTypes
<1>6. CASE VaccinatorPrints(v)
  <2>1. /\ Goto(v, "in_cs3", "leave_room") /\ Post("csection")
        /\ UNCHANGED <<vac, kind>>
    BY <1>6 DEF VaccinatorPrints, buffer
  <2>2. /\ Cardinality(AtCounters)' = Cardinality(AtCounters) - 1
        /\ Cardinality(Carrying)' = Cardinality(Carrying)
        /\ Cardinality(Emptying)' = Cardinality(Emptying)
        /\ \A k \in Kinds :
             /\ Cardinality(Posting(k))' = Cardinality(Posting(k))
             /\ Cardinality(Claiming(k))' = Cardinality(Claiming(k))
    BY <1>1, <2>1, VaccinatorCounts, CountTypes
       DEF One, WaitCs, InCs, VaccinatorPoints
  <2>3. QED
    BY <1>1, <1>2, <2>1, <2>2, Semaphore, KindsOfShot, CountTypes
\* A vaccine of kind k is claimed, taken and its place given back.
<1>7. ASSUME NEW k \in Kinds, VaccinatorWaitsShot(v, k) PROVE NothingLost
  <2>1. /\ Goto(v, Waiting(k), WaitCs(k)) /\ Wait(shot[k])
        /\ UNCHANGED <<vac, kind>>
    BY <1>7 DEF VaccinatorWaitsShot, buffer
  <2>2. /\ Cardinality(AtCounters)' = Cardinality(AtCounters)
        /\ Cardinality(Carrying)' = Cardinality(Carrying)
        /\ Cardinality(Emptying)' = Cardinality(Emptying)
        /\ \A j \in Kinds :
             /\ Cardinality(Posting(j))' = Cardinality(Posting(j))
             /\ Cardinality(Claiming(j))'
                  = Cardinality(Claiming(j)) + One(j = k)
    BY <1>1, <2>1, VaccinatorCounts, CountTypes
       DEF One, Waiting, WaitCs, InCs, VaccinatorPoints, Kinds
  <2>3. /\ sem'["empty"] = sem["empty"] /\ sem'["csection"] = sem["csection"]
        /\ \A j \in Kinds : /\ sem'[shot[j]] = sem[shot[j]] - One(j = k)
                            /\ sem[shot[j]] \in Nat
    BY <1>1, <1>2, <2>1, Semaphore, KindsOfShot DEF One
  <2>4. QED  BY <1>1, <2>1, <2>2, <2>3, CountTypes DEF One
<1>8. ASSUME NEW k \in Kinds, VaccinatorTakes(v, k) PROVE NothingLost
  <2>1. /\ Goto(v, InCs(k), PostEmpty(k)) /\ Post("csection")
        /\ vac' = [vac EXCEPT ![k] = @ - 1] /\ kind' = kind
    BY <1>8 DEF VaccinatorTakes
  <2>2. /\ Cardinality(AtCounters)' = Cardinality(AtCounters) - 1
        /\ Cardinality(Carrying)' = Cardinality(Carrying)
        /\ Cardinality(Emptying)' = Cardinality(Emptying) + 1
        /\ \A j \in Kinds :
             /\ Cardinality(Posting(j))' = Cardinality(Posting(j))
             /\ Cardinality(Claiming(j))'
                  = Cardinality(Claiming(j)) - One(j = k)
    BY <1>1, <2>1, VaccinatorCounts, CountTypes
       DEF One, PostEmpty, WaitCs, InCs, VaccinatorPoints, Kinds
  <2>3. /\ sem'["csection"] = sem["csection"] + 1 /\ sem'["empty"] = sem["empty"]
        /\ sem["csection"] \in Nat /\ sem["empty"] \in Nat
        /\ \A j \in Kinds : /\ sem'[shot[j]] = sem[shot[j]]
                            /\ sem[shot[j]] \in Nat
    BY <1>1, <1>2, <2>1, Semaphore, KindsOfShot
  <2>4. /\ \A j \in Kinds : vac'[j] = vac[j] - One(j = k) /\ vac[j] \in Int
        /\ vac'[1] + vac'[2] = (vac[1] + vac[2]) - 1
        /\ vac'[1] \in Int /\ vac'[2] \in Int
    BY <1>1, <2>1, KindsOfShot DEF One
  <2>5. LostKey' = LostKey
    BY <2>2, <2>3, CountTypes
  <2>6. LostPlaces' = LostPlaces
    BY <1>1, <2>2, <2>3, <2>4, CountTypes
  <2>7. ASSUME NEW j \in Kinds PROVE Lost(j)' = Lost(j)
    <3>1. /\ vac[j] \in Int /\ sem[shot[j]] \in Int /\ One(j = k) \in Int
          /\ Cardinality(Posting(j)) \in Int /\ Cardinality(Claiming(j)) \in Int
      BY <2>3, <2>4, CountTypes DEF One
    <3>2. QED  BY <2>2, <2>3, <2>4, <3>1
  <2>8. QED  BY <2>5, <2>6, <2>7
<1>9. ASSUME NEW k \in Kinds, VaccinatorPostsEmpty(v, k) PROVE NothingLost
  <2>1. /\ Goto(v, PostEmpty(k), IF k = 1 THEN "wait_shot2" ELSE "block")
        /\ Post("empty") /\ UNCHANGED <<vac, kind>>
    BY <1>9 DEF VaccinatorPostsEmpty, buffer
  <2>2. /\ Cardinality(AtCounters)' = Cardinality(AtCounters)
        /\ Cardinality(Carrying)' = Cardinality(Carrying)
        /\ Cardinality(Emptying)' = Cardinality(Emptying) - 1
        /\ \A j \in Kinds :
             /\ Cardinality(Posting(j))' = Cardinality(Posting(j))
             /\ Cardinality(Claiming(j))' = Cardinality(Claiming(j))
    BY <1>1, <2>1, VaccinatorCounts, CountTypes
       DEF One, PostEmpty, WaitCs, InCs, VaccinatorPoints, Kinds
  <2>3. /\ sem'["empty"] = sem["empty"] + 1 /\ sem["empty"] \in Nat
        /\ sem'["csection"] = sem["csection"]
        /\ \A j \in Kinds : sem'[shot[j]] = sem[shot[j]]
    BY <1>1, <1>2, <2>1, Semaphore, KindsOfShot
  <2>4. QED  BY <1>1, <2>1, <2>2, <2>3, CountTypes
<1>10. QED
  BY <1>4, <1>5, <1>6, <1>7, <1>8, <1>9 DEF Vaccinator

LEMMA CitizenLosesNothing ==
  ASSUME ClinicTypeOK, NEW c \in Citizens, Citizen(c)
  PROVE  NothingLost
<1> USE DEF NothingLost, LostKey, LostPlaces, Lost
<1>1. PcOK /\ sem \in [Semaphores -> Nat]
  BY DEF ClinicTypeOK
<1>2. {"empty", "csection", "client", "pid"} \subseteq Semaphores
  BY DEF Semaphores
<1>3. vac' = vac /\ kind' = kind
  BY DEF Citizen, CitizenOpens, CitizenEntersRoom, CitizenEntersCs,
     CitizenCountsOff, CitizenPostsPid, CitizenReports, buffer
<1>4. ASSUME NEW from \in CitizenPoints, NEW to \in CitizenPoints,
             Goto(c, from, to)
      PROVE  /\ Cardinality(AtCounters)' = Cardinality(AtCounters)
                  + One(to = "in_cs") - One(from = "in_cs")
             /\ Cardinality(Carrying)' = Cardinality(Carrying)
             /\ Cardinality(Emptying)' = Cardinality(Emptying)
             /\ \A k \in Kinds :
                  /\ Cardinality(Posting(k))' = Cardinality(Posting(k))
                  /\ Cardinality(Claiming(k))' = Cardinality(Claiming(k))
  BY <1>1, <1>3, <1>4, CitizenCounts
<1>5. CASE CitizenEntersCs(c)
  <2>1. Goto(c, "wait_cs", "in_cs") /\ Wait("csection")
    BY <1>5 DEF CitizenEntersCs
  <2>2. QED
    BY <1>1, <1>2, <1>3, <1>4, <2>1, Semaphore, KindsOfShot, CountTypes
       DEF One, CitizenPoints
<1>6. CASE CitizenCountsOff(c)
  <2>1. Goto(c, "in_cs", "post_pid") /\ Post("csection")
    BY <1>6 DEF CitizenCountsOff
  <2>2. QED
    BY <1>1, <1>2, <1>3, <1>4, <2>1, Semaphore, KindsOfShot, CountTypes
       DEF One, CitizenPoints
<1>7. ASSUME \/ CitizenOpens(c) \/ CitizenEntersRoom(c) \/ CitizenPostsPid(c)
             \/ CitizenReports(c)
      PROVE  NothingLost
  <2>1. \E from, to \in CitizenPoints \ {"in_cs"} : Goto(c, from, to)
    BY <1>7 DEF CitizenOpens, CitizenEntersRoom, CitizenPostsPid,
       CitizenReports, CitizenPoints
  <2>2. UNCHANGED sem \/ Wait("client") \/ Post("pid")
    BY <1>7 DEF CitizenOpens, CitizenEntersRoom, CitizenPostsPid,
       CitizenReports
  <2>3. /\ sem'["empty"] = sem["empty"] /\ sem'["csection"] = sem["csection"]
        /\ \A k \in Kinds : sem'[shot[k]] = sem[shot[k]]
    BY <1>1, <1>2, <2>2, Semaphore, KindsOfShot
  <2>4. QED  BY <1>3, <1>4, <2>1, <2>3, CountTypes DEF One
<1>8. QED  BY <1>5, <1>6, <1>7 DEF Citizen

\* What a process holds when it ends is lost, and nothing else.
LEMMA GoneLose ==
  ASSUME ClinicTypeOK, NEW p \in Processes, NEW to \in {"exited", "crashed"},
         Goto(p, pc[p], to), UNCHANGED <<vac, kind, sem>>
  PROVE  /\ LostKey' = LostKey + One(p \in AtCounters)
         /\ LostPlaces' = LostPlaces + One(p \in Carrying) + One(p \in Emptying)
         /\ \A k \in Kinds : Lost(k)' = Lost(k) + One(p \in Posting(k))
                                             + One(p \in Claiming(k))
<1>1. /\ PcOK /\ pc'[p] = to
      /\ \A s \in Semaphores : sem[s] \in Int
      /\ vac[1] \in Int /\ vac[2] \in Int /\ buffer_size \in Int
      /\ \A k \in Kinds : vac[k] \in Int
  BY ClinicFacts, KindsOfShot DEF ClinicTypeOK, DataOK, PcOK, Goto
<1>2. /\ p \notin AtCounters' /\ p \notin Carrying' /\ p \notin Emptying'
      /\ \A k \in Kinds : p \notin Posting(k)' /\ p \notin Claiming(k)'
  BY <1>1 DEF AtCounters, Carrying, Emptying, Posting, Claiming, Where,
     WaitCs, InCs
<1>3. /\ Cardinality(AtCounters)' = Cardinality(AtCounters)
                                      - One(p \in AtCounters)
      /\ Cardinality(Carrying)' = Cardinality(Carrying) - One(p \in Carrying)
      /\ Cardinality(Emptying)' = Cardinality(Emptying) - One(p \in Emptying)
      /\ \A k \in Kinds :
           /\ Cardinality(Posting(k))'
                = Cardinality(Posting(k)) - One(p \in Posting(k))
           /\ Cardinality(Claiming(k))'
                = Cardinality(Claiming(k)) - One(p \in Claiming(k))
  BY <1>1, <1>2, CountsMove, CountTypes DEF One
<1>4. /\ sem["csection"] \in Int /\ sem["empty"] \in Int
      /\ \A k \in Kinds : sem[shot[k]] \in Int
  BY <1>1, KindsOfShot DEF Semaphores
<1>5. \A b : One(b) \in Int
  BY DEF One
<1>6. LostKey' = LostKey + One(p \in AtCounters)
  BY <1>3, <1>4, <1>5, CountTypes DEF LostKey
<1>7. LostPlaces' = LostPlaces + One(p \in Carrying) + One(p \in Emptying)
  BY <1>1, <1>3, <1>4, <1>5, CountTypes DEF LostPlaces
<1>8. ASSUME NEW k \in Kinds
      PROVE  Lost(k)' = Lost(k) + One(p \in Posting(k)) + One(p \in Claiming(k))
  BY <1>1, <1>3, <1>4, <1>5, CountTypes DEF Lost
<1>9. QED  BY <1>6, <1>7, <1>8

LEMMA OthersLoseNothing ==
  ASSUME UNCHANGED <<pc, vac, kind, sem>>
  PROVE  NothingLost
  BY DEF NothingLost, LostKey, LostPlaces, Lost, AtCounters, Carrying,
     Emptying, Posting, Claiming, Where, WaitCs, InCs

LEMMA LostTypes ==
  ASSUME ClinicTypeOK
  PROVE  /\ LostKey \in Int /\ LostPlaces \in Int
         /\ \A k \in Kinds : Lost(k) \in Int
<1>1. /\ \A s \in Semaphores : sem[s] \in Int
      /\ vac[1] \in Int /\ vac[2] \in Int /\ buffer_size \in Int
      /\ \A k \in Kinds : vac[k] \in Int
  BY ClinicFacts, KindsOfShot DEF ClinicTypeOK, DataOK
<1>2. /\ sem["csection"] \in Int /\ sem["empty"] \in Int
      /\ \A k \in Kinds : sem[shot[k]] \in Int
  BY <1>1, KindsOfShot DEF Semaphores
<1>3. LostKey \in Int /\ LostPlaces \in Int
  BY <1>1, <1>2, CountTypes DEF LostKey, LostPlaces
<1>4. ASSUME NEW k \in Kinds PROVE Lost(k) \in Int
  BY <1>1, <1>2, CountTypes DEF Lost
<1>5. QED  BY <1>3, <1>4

LEMMA NobodyCounts ==
  ASSUME ClinicInit
  PROVE  LostKey = 0 /\ LostPlaces = 0 /\ \A k \in Kinds : Lost(k) = 0
<1>1. /\ AtCounters = {} /\ Carrying = {} /\ Emptying = {}
      /\ \A k \in Kinds : Posting(k) = {} /\ Claiming(k) = {}
  BY ClinicFacts DEF ClinicInit, AtCounters, Carrying, Emptying, Posting,
     Claiming, Where, WaitCs, InCs
<1>2. /\ sem["csection"] = 1 /\ sem["empty"] = buffer_size
      /\ \A k \in Kinds : sem[shot[k]] = 0 /\ vac[k] = 0
      /\ vac[1] = 0 /\ vac[2] = 0
  BY DEF ClinicInit, Kinds, shot
<1>3. buffer_size \in Int
  BY ClinicFacts
<1>4. /\ Cardinality(AtCounters) = 0 /\ Cardinality(Carrying) = 0
      /\ Cardinality(Emptying) = 0
      /\ \A k \in Kinds : /\ Cardinality(Posting(k)) = 0
                          /\ Cardinality(Claiming(k)) = 0
  BY <1>1, FS_EmptySet
<1>5. LostKey = 0 /\ LostPlaces = 0
  BY <1>2, <1>3, <1>4 DEF LostKey, LostPlaces
<1>6. \A k \in Kinds : Lost(k) = 0
  BY <1>2, <1>4 DEF Lost
<1>7. QED  BY <1>5, <1>6

LEMMA BufferStep ==
  ClinicTypeOK /\ BufferInv /\ [ClinicNext]_clinicVars => BufferInv'
<1> SUFFICES ASSUME ClinicTypeOK, BufferInv, [ClinicNext]_clinicVars
             PROVE  BufferInv'
  OBVIOUS
<1>1. ASSUME NothingLost PROVE BufferInv'
  BY <1>1 DEF NothingLost, BufferInv
<1>2. ASSUME NEW p \in Processes, NEW to \in {"exited", "crashed"},
             Goto(p, pc[p], to), UNCHANGED <<vac, kind, sem>>
      PROVE  BufferInv'
  <2>1. \A b : One(b) \in Int /\ One(b) >= 0
    BY DEF One
  <2>2. QED  BY <1>2, <2>1, GoneLose, LostTypes DEF BufferInv
<1>3. ASSUME NEW v \in Vaccinators, VaccinatorStops(v) PROVE BufferInv'
  <2>1. \E to \in {"exited", "crashed"} : Goto(v, pc[v], to)
    BY <1>3 DEF VaccinatorStops, Goto
  <2>2. UNCHANGED <<vac, kind, sem>>
    BY <1>3 DEF VaccinatorStops, buffer
  <2>3. QED  BY <1>2, <2>1, <2>2, ClinicFacts
<1>4. ASSUME NEW p \in Processes, Killed(p) PROVE BufferInv'
  <2>1. Goto(p, pc[p], "exited") /\ UNCHANGED <<vac, kind, sem>>
    BY <1>4 DEF Killed, Goto, buffer
  <2>2. QED  BY <1>2, <2>1
<1>5. CASE Main \/ Interrupt \/ Over \/ UNCHANGED clinicVars
  <2>1. UNCHANGED <<pc, vac, kind, sem>>
    BY <1>5 DEF Main, MainOpens, MainCounts, MainStopsVaccinators,
       MainCloses, Interrupt, Over, clinicVars, buffer
  <2>2. QED  BY <1>1, <2>1, OthersLoseNothing
<1>6. QED
  BY <1>1, <1>3, <1>4, <1>5, NurseLosesNothing, VaccinatorLosesNothing,
     CitizenLosesNothing DEF ClinicNext

LEMMA BufferInvHolds == ClinicSpec => [](ClinicTypeOK /\ BufferInv)
<1>1. ClinicInit => ClinicTypeOK /\ BufferInv
  BY TypeInit, NobodyCounts DEF BufferInv
<1>2. ClinicTypeOK /\ BufferInv /\ [ClinicNext]_clinicVars
        => (ClinicTypeOK /\ BufferInv)'
  BY TypeStep, BufferStep
<1>3. QED  BY <1>1, <1>2, PTL DEF ClinicSpec

\* One process at the counters, no underflow and no overflow, even when
\* processes are killed half way.
THEOREM BufferIsProtected == ClinicSpec => []BufferProtected
<1>1. ASSUME ClinicTypeOK, BufferInv PROVE BufferProtected
  <2>1. /\ sem["csection"] \in Nat /\ sem["empty"] \in Nat
        /\ \A k \in Kinds : sem[shot[k]] \in Nat /\ vac[k] \in Int
        /\ vac[1] \in Int /\ vac[2] \in Int /\ buffer_size \in Nat
    BY <1>1, KindsOfShot, ClinicFacts DEF ClinicTypeOK, DataOK, Semaphores
  <2>2. Cardinality(AtCounters) <= 1
    BY <1>1, <2>1, CountTypes DEF BufferInv, LostKey
  <2>3. ASSUME NEW k \in Kinds PROVE vac[k] >= 0
    <3>1. vac[k] - sem[shot[k]] - Cardinality(Posting(k))
            - Cardinality(Claiming(k)) >= 0
      BY <1>1 DEF BufferInv, Lost
    <3>2. QED  BY <2>1, <3>1, CountTypes
  <2>4. vac[1] + vac[2] <= buffer_size
    BY <1>1, <2>1, CountTypes DEF BufferInv, LostPlaces
  <2>5. QED  BY <2>2, <2>3, <2>4 DEF BufferProtected, AtCounters
<1>2. QED  BY <1>1, BufferInvHolds, PTL

-------------------------------------------------------------------------------
(* The room.  Whoever is killed in it leaves its vaccinator waiting for ever, *)
(* with the room; nobody is vaccinated after that.                            *)

InRoom  == {"invite", "wait_pid", "wait_cs3", "in_cs3", "leave_room"}
Served  == {v \in Vaccinators : pc[v] \in {"wait_cs3", "in_cs3", "leave_room"}}
Visits(c) == pc[c] \in {"wait_cs", "in_cs", "post_pid"}

\* Where a citizen is in its loop.
Loop(c) == /\ pc[c] \in {"start", "wait_client"} \/ Visits(c) =>
                shots[c] < times_of_shot
           /\ pc[c] \in {"wait_cs", "in_cs"} => LastShot(c)
           /\ pc[c] = "report" => shots[c] = times_of_shot
           /\ shots[c] <= times_of_shot

\* One vaccinator has the room ...
OneInRoom ==
  /\ \A v, w \in Vaccinators : pc[v] \in InRoom /\ pc[w] \in InRoom => v = w
  /\ sem["vaccinator"] <= 1
  /\ sem["vaccinator"] = 1 => \A v \in Vaccinators : pc[v] \notin InRoom

\* ... and, while it waits, one invitation, one visitor or one answer.
OneVisit ==
  /\ sem["client"] + sem["pid"] <= 1
  /\ \A c \in Citizens : Visits(c) => sem["client"] = 0 /\ sem["pid"] = 0
  /\ \A c, d \in Citizens : Visits(c) /\ Visits(d) => c = d
  /\ \/ sem["client"] > 0 \/ sem["pid"] > 0 \/ \E c \in Citizens : Visits(c)
     => \E v \in Vaccinators : pc[v] = "wait_pid"

\* The room holds the visitor's dose, before the dose counts and after.
Dose ==
  /\ \A c \in Citizens : Visits(c) => vroom = <<c, shots[c] + 1>>
  /\ sem["pid"] > 0 \/ Served # {} =>
       \E c \in Citizens : vroom = <<c, shots[c]>>

StillToCome == {c \in Citizens : /\ shots[c] < times_of_shot
                                 /\ ~(pc[c] = "post_pid" /\ LastShot(c))}

Stuck == /\ sem["client"] = 0 /\ sem["pid"] = 0
         /\ \A c \in Citizens : ~Visits(c)
         /\ \E v \in Vaccinators : pc[v] = "wait_pid"

RoomInv == /\ \A c \in Citizens : Loop(c)
           /\ OneInRoom /\ OneVisit
           /\ ~Stuck => Dose /\ remain = Cardinality(StillToCome)

-------------------------------------------------------------------------------
(* Doses and vaccines.                                                      *)

\* A dose a citizen has had is in the vaccinator's total, or on its way.
DosesGiven ==
  SumFunction(total_shot) + sem["pid"] + Cardinality(Served)
    = SumFunction(shots)

\* A vaccine of the first kind has been given, is held by a vaccinator, is in
\* the buffer, or with a nurse: no more of them than have been read.
Holding == {v \in Vaccinators : pc[v] \in
              {"wait_cs1", "in_cs1", "post_empty1", "wait_shot2", "wait_cs2",
               "in_cs2", "post_empty2", "block", "wait_room", "invite",
               "wait_pid", "wait_cs3", "in_cs3", "leave_room"}}

Bringing == {n \in Nurses : /\ kind[n] = 1
                            /\ pc[n] \in {"wait_empty", "wait_cs", "in_cs",
                                          "post_shot"}}

FirstKind(last) == {i \in 1 .. last : file[i] = 1}

Supply ==
  /\ SumFunction(total_shot) + Cardinality(Holding) + sem["shot1"]
       + Cardinality(Bringing) <= Cardinality(FirstKind(offset))
  /\ Cardinality(FirstKind(number_of_vaccine)) * 2 = number_of_vaccine

-------------------------------------------------------------------------------
(* What main has been told, as long as no read of it returned 0.            *)

Ended(P) == {p \in P : pc[p] = "exited"}

Undisturbed == ~sigint /\ ~eof

Told ==
  /\ counted["citizen_fifo"] + msgs["citizen_fifo"]
       = Cardinality(Ended(Citizens))
  /\ counted["vac_fifo"] + msgs["vac_fifo"] = Cardinality(Ended(Vaccinators))
  /\ \A c \in Citizens : pc[c] = "exited" => shots[c] = times_of_shot
  /\ \A v \in Vaccinators : pc[v] = "exited" => vac_table[v] = total_shot[v]
  /\ usr1 # {} \/ main \in {"count_vaccinators", "closed"} =>
       Ended(Citizens) = Citizens
  /\ main = "closed" => Ended(Vaccinators) = Vaccinators

EndsInv == /\ sigint => main = "interrupted"
           /\ Undisturbed => Told

Exact == Undisturbed => LostPlaces = 0 /\ \A k \in Kinds : Lost(k) = 0

-------------------------------------------------------------------------------
LEMMA MovesOne ==
  ASSUME PcOK, NEW p \in Processes, NEW from, NEW to, Goto(p, from, to)
  PROVE  /\ pc[p] = from /\ pc'[p] = to
         /\ \A q \in Processes : q # p => pc'[q] = pc[q]
  BY DEF Goto, PcOK

\* A step in which nobody enters or leaves the room.
RoomStands ==
  /\ \A v \in Vaccinators : pc[v] \in InRoom \/ pc'[v] \in InRoom => pc'[v] = pc[v]
  /\ \A c \in Citizens : pc'[c] = pc[c]
  /\ \A s \in {"vaccinator", "client", "pid"} : sem'[s] = sem[s]
  /\ UNCHANGED <<vroom, shots, remain>>

LEMMA NurseStaysOut ==
  ASSUME ClinicTypeOK, NEW n \in Nurses, Nurse(n) PROVE RoomStands
<1>1. \E from, to \in NursePoints : Goto(n, from, to)
  BY DEF Nurse, NurseFetches, NurseWaitsEmpty, NurseEntersCs, NursePuts,
     NursePostsShot, NursePoints
<1>2. \A q \in Processes : q # n => pc'[q] = pc[q]
  BY <1>1, MovesOne, ClinicFacts DEF ClinicTypeOK
<1>3. \/ UNCHANGED sem
      \/ \E s \in Semaphores \ {"vaccinator", "client", "pid"} : Wait(s) \/ Post(s)
  <2>1. shot[kind[n]] \in Semaphores \ {"vaccinator", "client", "pid"}
    BY KindsOfShot DEF ClinicTypeOK, DataOK
  <2>2. {"empty", "csection"} \subseteq Semaphores \ {"vaccinator", "client", "pid"}
    BY DEF Semaphores
  <2>3. QED
    BY <2>1, <2>2 DEF Nurse, NurseFetches, NurseWaitsEmpty, NurseEntersCs,
       NursePuts, NursePostsShot
<1>4. \A s \in {"vaccinator", "client", "pid"} : sem'[s] = sem[s]
  <2>1. {"vaccinator", "client", "pid"} \subseteq Semaphores
    BY DEF Semaphores
  <2>2. QED  BY <1>3, <2>1, Semaphore DEF ClinicTypeOK
<1>5. UNCHANGED <<vroom, shots, remain>>
  BY DEF Nurse, NurseFetches, NurseWaitsEmpty, NurseEntersCs, NursePuts,
     NursePostsShot, room
<1>6. QED  BY <1>2, <1>4, <1>5, ClinicFacts DEF RoomStands

\* A vaccinator outside of the room.
LEMMA VaccinatorStaysOut ==
  ASSUME ClinicTypeOK, NEW v \in Vaccinators,
         \/ VaccinatorOpens(v) \/ VaccinatorMaps(v) \/ VaccinatorBlocks(v)
         \/ \E k \in Kinds :
              \/ VaccinatorWaitsShot(v, k) \/ VaccinatorEntersCs(v, k)
              \/ VaccinatorTakes(v, k) \/ VaccinatorPostsEmpty(v, k)
  PROVE  RoomStands
<1>1. \E from, to \in VaccinatorPoints \ InRoom : Goto(v, from, to)
  BY DEF VaccinatorOpens, VaccinatorMaps, VaccinatorBlocks,
     VaccinatorWaitsShot, VaccinatorEntersCs, VaccinatorTakes,
     VaccinatorPostsEmpty, Waiting, WaitCs, InCs, PostEmpty,
     VaccinatorPoints, InRoom
<1>2. /\ pc[v] \notin InRoom /\ pc'[v] \notin InRoom
      /\ \A q \in Processes : q # v => pc'[q] = pc[q]
  BY <1>1, MovesOne, ClinicFacts DEF ClinicTypeOK
<1>3. \/ UNCHANGED sem
      \/ \E s \in Semaphores \ {"vaccinator", "client", "pid"} : Wait(s) \/ Post(s)
  <2>1. \A k \in Kinds : shot[k] \in Semaphores \ {"vaccinator", "client", "pid"}
    BY KindsOfShot
  <2>2. {"empty", "csection"} \subseteq Semaphores \ {"vaccinator", "client", "pid"}
    BY DEF Semaphores
  <2>3. QED
    BY <2>1, <2>2 DEF VaccinatorOpens, VaccinatorMaps, VaccinatorBlocks,
       VaccinatorWaitsShot, VaccinatorEntersCs, VaccinatorTakes,
       VaccinatorPostsEmpty
<1>4. \A s \in {"vaccinator", "client", "pid"} : sem'[s] = sem[s]
  <2>1. {"vaccinator", "client", "pid"} \subseteq Semaphores
    BY DEF Semaphores
  <2>2. QED  BY <1>3, <2>1, Semaphore DEF ClinicTypeOK
<1>5. UNCHANGED <<vroom, shots, remain>>
  BY DEF VaccinatorOpens, VaccinatorMaps, VaccinatorBlocks,
     VaccinatorWaitsShot, VaccinatorEntersCs, VaccinatorTakes,
     VaccinatorPostsEmpty, room
<1>6. QED  BY <1>2, <1>4, <1>5, ClinicFacts DEF RoomStands

\* Signals do not end a vaccinator in the room.
LEMMA SignalsStayOut ==
  ASSUME ClinicTypeOK,
         \/ \E v \in Vaccinators : VaccinatorStops(v)
         \/ \E p \in Processes \ Citizens : Killed(p)
  PROVE  RoomStands
<1>1. PICK p \in Processes \ Citizens :
        /\ \E to \in {"exited", "crashed"} : Goto(p, pc[p], to)
        /\ p \in Vaccinators => pc[p] \notin InRoom
        /\ UNCHANGED <<sem, room>>
  <2>1. ASSUME NEW v \in Vaccinators, VaccinatorStops(v)
        PROVE  /\ v \in Processes \ Citizens
               /\ \E to \in {"exited", "crashed"} : Goto(v, pc[v], to)
               /\ pc[v] \notin InRoom /\ UNCHANGED <<sem, room>>
    BY <2>1, ClinicFacts DEF VaccinatorStops, Goto, Vaccinating, InRoom
  <2>2. ASSUME NEW p \in Processes \ Citizens, Killed(p)
        PROVE  /\ \E to \in {"exited", "crashed"} : Goto(p, pc[p], to)
               /\ p \in Vaccinators => pc[p] \notin InRoom
               /\ UNCHANGED <<sem, room>>
    BY <2>2 DEF Killed, Goto, Vaccinating, InRoom
  <2>3. QED  BY <2>1, <2>2
<1>2. /\ pc'[p] \notin InRoom
      /\ \A q \in Processes : q # p => pc'[q] = pc[q]
  BY <1>1, MovesOne DEF ClinicTypeOK, InRoom
<1>3. QED  BY <1>1, <1>2, ClinicFacts DEF RoomStands, room

LEMMA RoomInvStands ==
  ASSUME ClinicTypeOK, RoomInv, RoomStands
  PROVE  RoomInv'
<1>1. /\ \A c \in Citizens : Loop(c)' <=> Loop(c)
      /\ \A c \in Citizens : Visits(c)' <=> Visits(c)
      /\ \A c \in Citizens : LastShot(c)' <=> LastShot(c)
  BY DEF RoomStands, Loop, Visits, LastShot
<1>2. /\ \A v \in Vaccinators : pc'[v] \in InRoom <=> pc[v] \in InRoom
      /\ \A v \in Vaccinators : pc'[v] = "wait_pid" <=> pc[v] = "wait_pid"
      /\ Served' = Served
  BY DEF RoomStands, InRoom, Served
<1>3. StillToCome' = StillToCome
  BY <1>1 DEF RoomStands, StillToCome
<1>4. OneInRoom' /\ OneVisit'
  BY <1>1, <1>2 DEF RoomInv, RoomStands, OneInRoom, OneVisit
<1>5. Stuck' <=> Stuck
  BY <1>1, <1>2 DEF RoomStands, Stuck
<1>6. Dose' <=> Dose
  BY <1>1, <1>2 DEF RoomStands, Dose
<1>7. remain' = remain
  BY DEF RoomStands
<1>8. QED  BY <1>1, <1>3, <1>4, <1>5, <1>6, <1>7 DEF RoomInv

\* The semaphores of the room.
LEMMA RoomSemaphores ==
  ASSUME ClinicTypeOK
  PROVE  \A s \in {"vaccinator", "client", "pid"} :
           /\ sem[s] \in Nat
           /\ Wait(s) => sem[s] > 0 /\ sem'[s] = sem[s] - 1
           /\ Post(s) => sem'[s] = sem[s] + 1
           /\ \A u \in {"vaccinator", "client", "pid"} \ {s} :
                Wait(s) \/ Post(s) => sem'[u] = sem[u]
<1>1. {"vaccinator", "client", "pid"} \subseteq Semaphores
  BY DEF Semaphores
<1>2. QED  BY <1>1, Semaphore DEF ClinicTypeOK

LEMMA VaccinatorInRoom ==
  ASSUME ClinicTypeOK, RoomInv, NEW v \in Vaccinators, Vaccinator(v)
  PROVE  RoomInv'
<1>1. ASSUME NEW from, NEW to, Goto(v, from, to)
      PROVE  /\ pc[v] = from /\ pc'[v] = to
             /\ \A w \in Vaccinators : w # v => pc'[w] = pc[w]
             /\ \A c \in Citizens : pc'[c] = pc[c]
  BY <1>1, MovesOne, ClinicFacts DEF ClinicTypeOK
\* All that is about citizens alone.
<1>2. ASSUME \A c \in Citizens : pc'[c] = pc[c], UNCHANGED <<vroom, shots, remain>>
      PROVE  /\ \A c \in Citizens : Loop(c)'
             /\ \A c \in Citizens : Visits(c)' <=> Visits(c)
             /\ StillToCome' = StillToCome /\ remain' = remain
  <2>1. \A c \in Citizens : /\ Loop(c)' <=> Loop(c)
                            /\ Visits(c)' <=> Visits(c)
                            /\ LastShot(c)' <=> LastShot(c)
    BY <1>2 DEF Loop, Visits, LastShot
  <2>2. StillToCome' = StillToCome
    BY <1>2, <2>1 DEF StillToCome
  <2>3. QED  BY <1>2, <2>1, <2>2 DEF RoomInv
<1>3. /\ sem["vaccinator"] \in Nat /\ sem["client"] \in Nat /\ sem["pid"] \in Nat
  BY RoomSemaphores
<1>4. CASE VaccinatorWaitsRoom(v)
  <2>1. /\ Goto(v, "wait_room", "invite") /\ Wait("vaccinator")
        /\ UNCHANGED <<vroom, shots, remain>>
    BY <1>4 DEF VaccinatorWaitsRoom, room
  <2>2. /\ sem["vaccinator"] > 0 /\ sem'["vaccinator"] = sem["vaccinator"] - 1
        /\ sem'["client"] = sem["client"] /\ sem'["pid"] = sem["pid"]
    BY <2>1, RoomSemaphores
  <2>3. OneInRoom'
    BY <1>1, <1>3, <2>1, <2>2 DEF RoomInv, OneInRoom, InRoom
  <2>4. /\ \A w \in Vaccinators : pc'[w] = "wait_pid" <=> pc[w] = "wait_pid"
        /\ Served' = Served
    BY <1>1, <2>1 DEF Served
  <2>5. OneVisit' /\ (Stuck' <=> Stuck) /\ (Dose' <=> Dose)
    BY <1>1, <1>2, <2>1, <2>2, <2>4 DEF RoomInv, OneVisit, Stuck, Dose
  <2>6. QED  BY <1>1, <1>2, <2>1, <2>3, <2>5 DEF RoomInv
<1>5. CASE VaccinatorInvites(v)
  <2>1. /\ Goto(v, "invite", "wait_pid") /\ Post("client")
        /\ UNCHANGED <<vroom, shots, remain>>
    BY <1>5 DEF VaccinatorInvites, room
  <2>2. /\ sem'["client"] = sem["client"] + 1 /\ sem'["pid"] = sem["pid"]
        /\ sem'["vaccinator"] = sem["vaccinator"]
    BY <2>1, RoomSemaphores
  <2>3. OneInRoom'
    BY <1>1, <1>3, <2>1, <2>2 DEF RoomInv, OneInRoom, InRoom
  <2>4. \A w \in Vaccinators : pc[w] \notin {"wait_pid", "wait_cs3", "in_cs3",
                                              "leave_room"}
    BY <1>1, <2>1 DEF RoomInv, OneInRoom, InRoom
  <2>5. /\ sem["client"] = 0 /\ sem["pid"] = 0 /\ \A c \in Citizens : ~Visits(c)
        /\ ~Stuck
    BY <1>3, <2>4 DEF RoomInv, OneVisit, Stuck
  <2>6. /\ OneVisit' /\ pc'[v] = "wait_pid"
    BY <1>1, <1>2, <1>3, <2>1, <2>2, <2>5 DEF OneVisit
  <2>7. Served' = {}
    BY <1>1, <2>1, <2>4 DEF Served
  <2>8. Dose'
    BY <1>1, <1>2, <2>1, <2>2, <2>5, <2>7 DEF Dose
  <2>9. QED  BY <1>1, <1>2, <2>1, <2>3, <2>5, <2>6, <2>8 DEF RoomInv
<1>6. CASE VaccinatorWaitsPid(v)
  <2>1. /\ Goto(v, "wait_pid", "wait_cs3") /\ Wait("pid")
        /\ UNCHANGED <<vroom, shots, remain>>
    BY <1>6 DEF VaccinatorWaitsPid, room
  <2>2. /\ sem["pid"] > 0 /\ sem'["pid"] = sem["pid"] - 1
        /\ sem'["client"] = sem["client"]
        /\ sem'["vaccinator"] = sem["vaccinator"]
    BY <2>1, RoomSemaphores
  <2>3. OneInRoom'
    BY <1>1, <1>3, <2>1, <2>2 DEF RoomInv, OneInRoom, InRoom
  <2>4. /\ sem'["client"] = 0 /\ sem'["pid"] = 0
        /\ \A c \in Citizens : ~Visits(c) /\ ~Visits(c)'
        /\ ~Stuck
    BY <1>1, <1>2, <1>3, <2>1, <2>2 DEF RoomInv, OneVisit, Stuck
  <2>5. OneVisit'
    BY <2>4 DEF OneVisit
  <2>6. Dose'
    BY <2>1, <2>2, <2>4 DEF RoomInv, Dose
  <2>7. QED  BY <1>1, <1>2, <2>1, <2>3, <2>4, <2>5, <2>6 DEF RoomInv
<1>7. ASSUME VaccinatorEntersCs3(v) \/ VaccinatorPrints(v) PROVE RoomInv'
  <2>1. /\ Goto(v, "wait_cs3", "in_cs3") \/ Goto(v, "in_cs3", "leave_room")
        /\ Wait("csection") \/ Post("csection")
        /\ UNCHANGED <<vroom, shots, remain>>
    BY <1>7 DEF VaccinatorEntersCs3, VaccinatorPrints, room
  <2>2. \A s \in {"vaccinator", "client", "pid"} : sem'[s] = sem[s]
    <3>1. {"csection", "vaccinator", "client", "pid"} \subseteq Semaphores
      BY DEF Semaphores
    <3>2. QED  BY <2>1, <3>1, Semaphore DEF ClinicTypeOK
  <2>3. OneInRoom'
    BY <1>1, <1>3, <2>1, <2>2 DEF RoomInv, OneInRoom, InRoom
  <2>4. /\ \A w \in Vaccinators : pc'[w] = "wait_pid" <=> pc[w] = "wait_pid"
        /\ Served' = Served
    BY <1>1, <2>1 DEF Served
  <2>5. OneVisit' /\ (Stuck' <=> Stuck) /\ (Dose' <=> Dose)
    BY <1>1, <1>2, <2>1, <2>2, <2>4 DEF RoomInv, OneVisit, Stuck, Dose
  <2>6. QED  BY <1>1, <1>2, <2>1, <2>3, <2>5 DEF RoomInv
<1>8. CASE VaccinatorLeavesRoom(v)
  <2>1. /\ Goto(v, "leave_room", "wait_shot1") /\ Post("vaccinator")
        /\ UNCHANGED <<vroom, shots, remain>>
    BY <1>8 DEF VaccinatorLeavesRoom
  <2>2. /\ sem'["vaccinator"] = sem["vaccinator"] + 1
        /\ sem'["client"] = sem["client"] /\ sem'["pid"] = sem["pid"]
    BY <2>1, RoomSemaphores
  <2>3. OneInRoom' /\ Served' = {}
    BY <1>1, <1>3, <2>1, <2>2 DEF RoomInv, OneInRoom, InRoom, Served
  <2>4. \A w \in Vaccinators : pc[w] # "wait_pid"
    BY <1>1, <2>1 DEF RoomInv, OneInRoom, InRoom
  <2>5. /\ sem["client"] = 0 /\ sem["pid"] = 0 /\ \A c \in Citizens : ~Visits(c)
        /\ ~Stuck
    BY <1>3, <2>4 DEF RoomInv, OneVisit, Stuck
  <2>6. OneVisit' /\ Dose'
    BY <1>1, <1>2, <2>1, <2>2, <2>3, <2>5 DEF OneVisit, Dose
  <2>7. QED  BY <1>1, <1>2, <2>1, <2>3, <2>5, <2>6 DEF RoomInv
<1>9. QED
  BY <1>4, <1>5, <1>6, <1>7, <1>8, VaccinatorStaysOut, RoomInvStands
     DEF Vaccinator

LEMMA CitizenInRoom ==
  ASSUME ClinicTypeOK, RoomInv, NEW c \in Citizens, Citizen(c) \/ Killed(c)
  PROVE  RoomInv'
<1>1. ASSUME NEW from, NEW to, Goto(c, from, to)
      PROVE  /\ pc[c] = from /\ pc'[c] = to
             /\ \A d \in Citizens : d # c => pc'[d] = pc[d]
             /\ \A v \in Vaccinators : pc'[v] = pc[v]
             /\ Served' = Served
  <2>1. /\ pc[c] = from /\ pc'[c] = to
        /\ \A d \in Citizens : d # c => pc'[d] = pc[d]
        /\ \A v \in Vaccinators : pc'[v] = pc[v]
    BY <1>1, MovesOne, ClinicFacts DEF ClinicTypeOK
  <2>2. QED  BY <2>1 DEF Served
<1>2. /\ sem["vaccinator"] \in Nat /\ sem["client"] \in Nat /\ sem["pid"] \in Nat
      /\ shots \in [Citizens -> Nat] /\ times_of_shot \in Nat
      /\ remain \in Int
  BY RoomSemaphores, ClinicFacts DEF ClinicTypeOK, DataOK
<1>3. Loop(c) /\ \A d \in Citizens : Loop(d)
  BY DEF RoomInv
\* Outside of the room.
<1>4. ASSUME NEW from \in CitizenPoints \ {"wait_cs", "in_cs", "post_pid"},
             NEW to \in CitizenPoints \ {"wait_cs", "in_cs", "post_pid"},
             Goto(c, from, to), UNCHANGED <<sem, room>>, Loop(c)'
      PROVE  RoomInv'
  <2>1. /\ \A d \in Citizens : Visits(d)' <=> Visits(d)
        /\ \A d \in Citizens : LastShot(d)' <=> LastShot(d)
        /\ StillToCome' = StillToCome
    <3>1. \A d \in Citizens : /\ Visits(d)' <=> Visits(d)
                              /\ LastShot(d)' <=> LastShot(d)
                              /\ pc'[d] = "post_pid" <=> pc[d] = "post_pid"
      BY <1>1, <1>4 DEF Visits, LastShot, room
    <3>2. QED  BY <1>4, <3>1 DEF StillToCome, room
  <2>2. \A d \in Citizens : Loop(d)'
    BY <1>1, <1>3, <1>4 DEF Loop, Visits, LastShot, room
  <2>3. OneInRoom' /\ OneVisit' /\ (Stuck' <=> Stuck) /\ (Dose' <=> Dose)
    BY <1>1, <1>4, <2>1 DEF RoomInv, OneInRoom, OneVisit, Stuck, Dose, room
  <2>4. QED  BY <1>4, <2>1, <2>2, <2>3 DEF RoomInv, room
<1>5. CASE CitizenOpens(c)
  <2>1. Goto(c, "start", "wait_client") /\ UNCHANGED <<sem, room>>
    BY <1>5 DEF CitizenOpens
  <2>2. Loop(c)'
    BY <1>1, <1>3, <2>1 DEF Loop, Visits, room
  <2>3. QED  BY <1>4, <2>1, <2>2 DEF CitizenPoints
<1>6. CASE CitizenReports(c)
  <2>1. Goto(c, "report", "exited") /\ UNCHANGED <<sem, room>>
    BY <1>6 DEF CitizenReports
  <2>2. Loop(c)'
    BY <1>1, <1>3, <2>1 DEF Loop, Visits, room
  <2>3. QED  BY <1>4, <2>1, <2>2 DEF CitizenPoints
<1>7. CASE CitizenEntersRoom(c)
  <2> DEFINE to == IF LastShot(c) THEN "wait_cs" ELSE "post_pid"
  <2>1. /\ Goto(c, "wait_client", to) /\ Wait("client")
        /\ vroom' = <<c, shots[c] + 1>> /\ UNCHANGED <<shots, remain>>
    BY <1>7 DEF CitizenEntersRoom
  <2>2. /\ pc[c] = "wait_client" /\ pc'[c] = to
        /\ \A d \in Citizens : d # c => pc'[d] = pc[d]
        /\ \A v \in Vaccinators : pc'[v] = pc[v]
        /\ Served' = Served
    BY <1>1, <2>1
  <2>3. /\ sem["client"] > 0 /\ sem'["client"] = sem["client"] - 1
        /\ sem'["vaccinator"] = sem["vaccinator"] /\ sem'["pid"] = sem["pid"]
    BY <2>1, RoomSemaphores
  <2>4. /\ sem'["client"] = 0 /\ sem'["pid"] = 0 /\ ~Stuck
        /\ \A d \in Citizens : ~Visits(d)
        /\ \E v \in Vaccinators : pc[v] = "wait_pid"
    BY <1>2, <2>3 DEF RoomInv, OneVisit, Stuck
  <2>5. Served = {}
    BY <2>4 DEF RoomInv, OneInRoom, InRoom, Served
  <2>6. Visits(c)' /\ \A d \in Citizens : d # c => ~Visits(d)'
    BY <2>2, <2>4 DEF Visits
  <2>7. OneInRoom'
    BY <2>2, <2>3 DEF RoomInv, OneInRoom
  <2>8. OneVisit' /\ ~Stuck'
    BY <2>2, <2>4, <2>6 DEF OneVisit, Stuck
  <2>9. Dose'
    BY <2>1, <2>2, <2>4, <2>5, <2>6 DEF Dose
  <2>10. \A d \in Citizens : Loop(d)'
    <3>1. Loop(c)'
      BY <1>3, <2>1, <2>2 DEF Loop, Visits, LastShot
    <3>2. \A d \in Citizens : d # c => Loop(d)'
      BY <1>3, <2>1, <2>2 DEF Loop, Visits, LastShot
    <3>3. QED  BY <3>1, <3>2
  <2>11. StillToCome' = StillToCome
    BY <2>1, <2>2 DEF StillToCome, LastShot
  <2>12. QED  BY <2>1, <2>4, <2>7, <2>8, <2>9, <2>10, <2>11 DEF RoomInv
<1>8. CASE CitizenEntersCs(c)
  <2>1. /\ Goto(c, "wait_cs", "in_cs") /\ Wait("csection")
        /\ UNCHANGED <<vroom, shots, remain>>
    BY <1>8 DEF CitizenEntersCs, room
  <2>2. \A s \in {"vaccinator", "client", "pid"} : sem'[s] = sem[s]
    <3>1. {"csection", "vaccinator", "client", "pid"} \subseteq Semaphores
      BY DEF Semaphores
    <3>2. QED  BY <2>1, <3>1, Semaphore DEF ClinicTypeOK
  <2>3. /\ \A d \in Citizens : Visits(d)' <=> Visits(d)
        /\ StillToCome' = StillToCome /\ Loop(c)'
        /\ \A d \in Citizens : Loop(d)'
    <3>1. \A d \in Citizens : /\ Visits(d)' <=> Visits(d)
                              /\ LastShot(d)' <=> LastShot(d)
                              /\ pc'[d] = "post_pid" <=> pc[d] = "post_pid"
      BY <1>1, <2>1 DEF Visits, LastShot
    <3>2. \A d \in Citizens : Loop(d)'
      BY <1>1, <1>3, <2>1, <3>1 DEF Loop, Visits, LastShot
    <3>3. QED  BY <2>1, <3>1, <3>2 DEF StillToCome
  <2>4. OneInRoom' /\ OneVisit' /\ (Stuck' <=> Stuck) /\ (Dose' <=> Dose)
    BY <1>1, <2>1, <2>2, <2>3 DEF RoomInv, OneInRoom, OneVisit, Stuck, Dose
  <2>5. QED  BY <2>1, <2>3, <2>4 DEF RoomInv
<1>9. CASE CitizenCountsOff(c)
  <2>1. /\ Goto(c, "in_cs", "post_pid") /\ Post("csection")
        /\ UNCHANGED <<vroom, shots>> /\ remain' = remain - 1
    BY <1>9 DEF CitizenCountsOff
  <2>2. \A s \in {"vaccinator", "client", "pid"} : sem'[s] = sem[s]
    <3>1. {"csection", "vaccinator", "client", "pid"} \subseteq Semaphores
      BY DEF Semaphores
    <3>2. QED  BY <2>1, <3>1, Semaphore DEF ClinicTypeOK
  <2>3. /\ \A d \in Citizens : Visits(d)' <=> Visits(d)
        /\ \A d \in Citizens : LastShot(d)' <=> LastShot(d)
    BY <1>1, <2>1 DEF Visits, LastShot
  <2>4. \A d \in Citizens : Loop(d)'
    BY <1>1, <1>3, <2>1, <2>3 DEF Loop, Visits, LastShot
  <2>5. OneInRoom' /\ OneVisit' /\ (Stuck' <=> Stuck) /\ (Dose' <=> Dose)
    BY <1>1, <2>1, <2>2, <2>3 DEF RoomInv, OneInRoom, OneVisit, Stuck, Dose
  <2>6. c \in StillToCome /\ StillToCome' = StillToCome \ {c}
    <3>1. c \in StillToCome /\ c \notin StillToCome'
      BY <1>1, <1>3, <2>1, <2>3 DEF StillToCome, Loop, Visits
    <3>2. \A d \in Citizens : d # c => (d \in StillToCome' <=> d \in StillToCome)
      BY <1>1, <2>1, <2>3 DEF StillToCome
    <3>3. StillToCome \subseteq Citizens /\ StillToCome' \subseteq Citizens
      BY DEF StillToCome
    <3>4. QED  BY <3>1, <3>2, <3>3
  <2>7. Cardinality(StillToCome') = Cardinality(StillToCome) - 1
    <3>1. IsFiniteSet(StillToCome)
      BY ClinicFacts, FS_Subset DEF StillToCome
    <3>2. QED  BY <2>6, <3>1, FS_RemoveElement
  <2>8. QED  BY <2>1, <2>4, <2>5, <2>7 DEF RoomInv
<1>10. CASE CitizenPostsPid(c)
  <2> DEFINE to == IF LastShot(c) THEN "report" ELSE "wait_client"
  <2>1. /\ Goto(c, "post_pid", to) /\ Post("pid")
        /\ UNCHANGED <<vroom, remain>> /\ shots' = [shots EXCEPT ![c] = @ + 1]
    BY <1>10 DEF CitizenPostsPid
  <2>2. /\ pc[c] = "post_pid" /\ pc'[c] = to
        /\ \A d \in Citizens : d # c => pc'[d] = pc[d]
        /\ \A v \in Vaccinators : pc'[v] = pc[v]
        /\ Served' = Served
    BY <1>1, <2>1
  <2>3. /\ sem'["pid"] = sem["pid"] + 1 /\ sem'["client"] = sem["client"]
        /\ sem'["vaccinator"] = sem["vaccinator"]
    BY <2>1, RoomSemaphores
  <2>4. /\ Visits(c) /\ sem["client"] = 0 /\ sem["pid"] = 0 /\ ~Stuck
        /\ \A d \in Citizens : d # c => ~Visits(d)
        /\ \E v \in Vaccinators : pc[v] = "wait_pid"
    BY <2>2 DEF RoomInv, OneVisit, Stuck, Visits
  <2>5. \A d \in Citizens : ~Visits(d)'
    BY <2>2, <2>4 DEF Visits
  <2>6. /\ shots'[c] = shots[c] + 1 /\ shots[c] \in Nat /\ shots[c] < times_of_shot
        /\ \A d \in Citizens : d # c => shots'[d] = shots[d]
    BY <1>2, <1>3, <2>1, <2>4 DEF Loop
  <2>7. OneInRoom' /\ OneVisit' /\ ~Stuck'
    BY <2>2, <2>3, <2>4, <2>5 DEF RoomInv, OneInRoom, OneVisit, Stuck
  <2>8. Dose'
    <3>1. vroom = <<c, shots[c] + 1>>
      BY <2>4 DEF RoomInv, Dose
    <3>2. vroom' = <<c, shots'[c]>>
      BY <2>1, <2>6, <3>1
    <3>3. QED  BY <2>5, <3>2 DEF Dose
  <2>9. \A d \in Citizens : Loop(d)'
    <3>1. Loop(c)'
      <4>1. CASE LastShot(c)
        BY <1>2, <2>2, <2>5, <2>6, <4>1 DEF Loop, LastShot
      <4>2. CASE ~LastShot(c)
        BY <1>2, <2>2, <2>5, <2>6, <4>2 DEF Loop, LastShot
      <4>3. QED  BY <4>1, <4>2
    <3>2. \A d \in Citizens : d # c => Loop(d)'
      BY <1>3, <2>2, <2>6 DEF Loop, Visits, LastShot
    <3>3. QED  BY <3>1, <3>2
  <2>10. StillToCome' = StillToCome
    <3>1. c \in StillToCome' <=> c \in StillToCome
      <4>1. CASE LastShot(c)
        BY <1>2, <2>2, <2>6, <4>1 DEF StillToCome, LastShot
      <4>2. CASE ~LastShot(c)
        BY <1>2, <2>2, <2>6, <4>2 DEF StillToCome, LastShot
      <4>3. QED  BY <4>1, <4>2
    <3>2. \A d \in Citizens : d # c => (d \in StillToCome' <=> d \in StillToCome)
      BY <2>2, <2>6 DEF StillToCome, LastShot
    <3>3. StillToCome \subseteq Citizens /\ StillToCome' \subseteq Citizens
      BY DEF StillToCome
    <3>4. QED  BY <3>1, <3>2, <3>3
  <2>11. QED  BY <2>1, <2>4, <2>7, <2>8, <2>9, <2>10 DEF RoomInv
<1>11. CASE Killed(c)
  <2>1. Goto(c, pc[c], "exited") /\ UNCHANGED <<sem, room>>
    BY <1>11 DEF Killed, Goto
  <2>2. \A d \in Citizens : Loop(d)'
    BY <1>1, <1>3, <2>1 DEF Loop, Visits, LastShot, room
  <2>3. CASE Visits(c)
    <3>1. \A d \in Citizens : ~Visits(d)'
      BY <1>1, <2>1, <2>3 DEF RoomInv, OneVisit, Visits
    <3>2. OneInRoom' /\ OneVisit' /\ Stuck'
      BY <1>1, <2>1, <2>3, <3>1 DEF RoomInv, OneInRoom, OneVisit, Stuck
    <3>3. QED  BY <2>2, <3>2 DEF RoomInv
  <2>4. CASE ~Visits(c)
    <3>1. pc[c] \in CitizenPoints \ {"wait_cs", "in_cs", "post_pid"}
      BY <2>4 DEF ClinicTypeOK, PcOK, Visits
    <3>2. QED  BY <1>4, <2>1, <2>2, <3>1 DEF CitizenPoints
  <2>5. QED  BY <2>3, <2>4
<1>12. QED
  BY <1>5, <1>6, <1>7, <1>8, <1>9, <1>10, <1>11 DEF Citizen

LEMMA RoomInit == ClinicInit => RoomInv
<1> SUFFICES ASSUME ClinicInit PROVE RoomInv
  OBVIOUS
<1>1. /\ sem["vaccinator"] = 1 /\ sem["client"] = 0 /\ sem["pid"] = 0
      /\ \A v \in Vaccinators : pc[v] = "start"
      /\ \A c \in Citizens : pc[c] = "start" /\ shots[c] = 0
      /\ remain = Cardinality(Citizens)
  BY ClinicFacts DEF ClinicInit
<1>2. \A c \in Citizens : Loop(c) /\ ~Visits(c)
  BY <1>1, ClinicFacts DEF Loop, Visits
<1>3. StillToCome = Citizens
  BY <1>1, ClinicFacts DEF StillToCome
<1>4. OneInRoom /\ OneVisit /\ Served = {} /\ ~Stuck
  BY <1>1, <1>2 DEF OneInRoom, OneVisit, InRoom, Served, Stuck
<1>5. Dose
  BY <1>1, <1>2, <1>4 DEF Dose
<1>6. QED  BY <1>1, <1>2, <1>3, <1>4, <1>5 DEF RoomInv

LEMMA OthersStayOut ==
  ASSUME Main \/ Interrupt \/ Over \/ UNCHANGED clinicVars
  PROVE  RoomStands
<1>1. UNCHANGED <<pc, sem, room>>
  BY DEF Main, MainOpens, MainCounts, MainStopsVaccinators, MainCloses,
     Interrupt, Over, clinicVars
<1>2. QED  BY <1>1 DEF RoomStands, room

LEMMA RoomStep ==
  ClinicTypeOK /\ RoomInv /\ [ClinicNext]_clinicVars => RoomInv'
<1> SUFFICES ASSUME ClinicTypeOK, RoomInv, [ClinicNext]_clinicVars
             PROVE  RoomInv'
  OBVIOUS
<1>1. CASE \E n \in Nurses : Nurse(n)
  BY <1>1, NurseStaysOut, RoomInvStands
<1>2. CASE \E v \in Vaccinators : Vaccinator(v)
  BY <1>2, VaccinatorInRoom
<1>3. CASE \E v \in Vaccinators : VaccinatorStops(v)
  BY <1>3, SignalsStayOut, RoomInvStands
<1>4. CASE \E c \in Citizens : Citizen(c)
  BY <1>4, CitizenInRoom
<1>5. ASSUME NEW p \in Processes, Killed(p) PROVE RoomInv'
  <2>1. CASE p \in Citizens
    BY <1>5, <2>1, CitizenInRoom
  <2>2. CASE p \notin Citizens
    BY <1>5, <2>2, SignalsStayOut, RoomInvStands
  <2>3. QED  BY <2>1, <2>2
<1>6. CASE Main \/ Interrupt \/ Over \/ UNCHANGED clinicVars
  BY <1>6, OthersStayOut, RoomInvStands
<1>7. QED  BY <1>1, <1>2, <1>3, <1>4, <1>5, <1>6 DEF ClinicNext

LEMMA RoomInvHolds == ClinicSpec => [](ClinicTypeOK /\ RoomInv)
<1>1. ClinicTypeOK /\ RoomInv /\ [ClinicNext]_clinicVars
        => (ClinicTypeOK /\ RoomInv)'
  BY TypeStep, RoomStep
<1>2. QED  BY <1>1, TypeInit, RoomInit, PTL DEF ClinicSpec

\* What a vaccinator prints is true of its citizen, and the number of those
\* still to come is exact, whoever has been killed.
THEOREM RoomIsExact == ClinicSpec => []RoomExact
<1>1. ASSUME ClinicTypeOK, RoomInv PROVE RoomExact
  <2> SUFFICES ASSUME NEW v \in Vaccinators, pc[v] \in {"wait_cs3", "in_cs3"}
               PROVE  /\ vroom # <<>> /\ shots[vroom[1]] = vroom[2]
                      /\ remain = Cardinality(NotFinished)
    BY DEF RoomExact
  <2>1. \A w \in Vaccinators : pc[w] # "wait_pid"
    BY <1>1 DEF RoomInv, OneInRoom, InRoom
  <2>2. ~Stuck /\ \A c \in Citizens : ~Visits(c)
    BY <1>1, <2>1 DEF RoomInv, OneVisit, Stuck
  <2>3. PICK c \in Citizens : vroom = <<c, shots[c]>>
    BY <1>1, <2>2 DEF RoomInv, Dose, Served
  <2>4. StillToCome = NotFinished
    BY <2>2 DEF StillToCome, NotFinished, Visits
  <2>5. QED  BY <1>1, <2>2, <2>3, <2>4 DEF RoomInv
<1>2. QED  BY <1>1, RoomInvHolds, PTL

-------------------------------------------------------------------------------
LEMMA SumTypes ==
  ASSUME ClinicTypeOK
  PROVE  /\ total_shot \in [Vaccinators -> Int] /\ shots \in [Citizens -> Int]
         /\ SumFunction(total_shot) \in Int /\ SumFunction(shots) \in Int
<1>1. total_shot \in [Vaccinators -> Int] /\ shots \in [Citizens -> Int]
  BY DEF ClinicTypeOK, DataOK
<1>2. QED  BY <1>1, ClinicFacts, TotalType

LEMMA ServedFinite == IsFiniteSet(Served) /\ Cardinality(Served) \in Nat
<1>1. IsFiniteSet(Served)
  BY ClinicFacts, FS_Subset DEF Served
<1>2. QED  BY <1>1, FS_CardinalityType

LEMMA DosesInit == ClinicInit => DosesGiven
<1> SUFFICES ASSUME ClinicInit PROVE DosesGiven
  OBVIOUS
<1>1. /\ total_shot \in [Vaccinators -> Int] /\ shots \in [Citizens -> Int]
      /\ \A v \in Vaccinators : total_shot[v] = 0
      /\ \A c \in Citizens : shots[c] = 0
  BY DEF ClinicInit
<1>2. SumFunction(total_shot) = 0 /\ SumFunction(shots) = 0
  <2>1. SumFunction(total_shot) = 0 * Cardinality(Vaccinators)
    BY <1>1, ClinicFacts, TotalOfEqualTerms
  <2>2. SumFunction(shots) = 0 * Cardinality(Citizens)
    BY <1>1, ClinicFacts, TotalOfEqualTerms
  <2>3. QED  BY <2>1, <2>2, ClinicFacts
<1>3. Served = {} /\ sem["pid"] = 0
  BY ClinicFacts DEF ClinicInit, Served
<1>4. QED  BY <1>2, <1>3, FS_EmptySet DEF DosesGiven

LEMMA TotalGrows ==
  ASSUME ClinicTypeOK, NEW v \in Vaccinators, VaccinatorLeavesRoom(v)
  PROVE  SumFunction(total_shot') = SumFunction(total_shot) + 1
<1>1. total_shot \in [Vaccinators -> Int] /\ SumFunction(total_shot) \in Int
  BY SumTypes
<1>2. /\ total_shot' \in [Vaccinators -> Int]
      /\ total_shot[v] \in Int /\ total_shot'[v] = total_shot[v] + 1
      /\ \A w \in Vaccinators \ {v} : total_shot'[w] = total_shot[w]
  BY <1>1 DEF VaccinatorLeavesRoom
<1>3. SumFunction(total_shot')
        = SumFunction(total_shot) + total_shot'[v] - total_shot[v]
  <2>1. IsFiniteSet(Vaccinators)
    BY ClinicFacts
  <2>2. QED  BY <1>1, <1>2, <2>1, TotalChanges
<1>4. QED  BY <1>1, <1>2, <1>3

LEMMA DosesStep ==
  ClinicTypeOK /\ RoomInv /\ DosesGiven /\ [ClinicNext]_clinicVars
    => DosesGiven'
<1> SUFFICES ASSUME ClinicTypeOK, RoomInv, DosesGiven, [ClinicNext]_clinicVars
             PROVE  DosesGiven'
  OBVIOUS
<1>1. /\ sem["pid"] \in Nat /\ Cardinality(Served) \in Nat /\ IsFiniteSet(Served)
      /\ total_shot \in [Vaccinators -> Int] /\ shots \in [Citizens -> Int]
      /\ SumFunction(total_shot) \in Int /\ SumFunction(shots) \in Int
  BY RoomSemaphores, ServedFinite, SumTypes
<1>2. ASSUME NEW p \in Processes, NEW from, NEW to, Goto(p, from, to)
      PROVE  Cardinality(Served)' = Cardinality(Served) + One(p \in Served)'
                                      - One(p \in Served)
  <2>1. \A q : q # p => (q \in Served <=> q \in Served')
    BY <1>2, MovesOne, ClinicFacts DEF ClinicTypeOK, Served
  <2>2. QED  BY <1>1, <2>1, SetChanges DEF One
<1>3. ASSUME UNCHANGED <<sem["pid"], total_shot, shots>>, Served' = Served
      PROVE  DosesGiven'
  BY <1>3 DEF DosesGiven
<1>4. ASSUME RoomStands, UNCHANGED total_shot PROVE DosesGiven'
  <2>1. Served' = Served
    BY <1>4 DEF RoomStands, Served, InRoom
  <2>2. QED  BY <1>3, <1>4, <2>1 DEF RoomStands
<1>5. ASSUME NEW n \in Nurses, Nurse(n) PROVE DosesGiven'
  <2>1. UNCHANGED total_shot
    BY <1>5 DEF Nurse, NurseFetches, NurseWaitsEmpty, NurseEntersCs,
       NursePuts, NursePostsShot, room
  <2>2. QED  BY <1>4, <1>5, <2>1, NurseStaysOut
<1>6. ASSUME NEW v \in Vaccinators, Vaccinator(v) PROVE DosesGiven'
  <2>1. CASE VaccinatorWaitsPid(v)
    <3>1. /\ Goto(v, "wait_pid", "wait_cs3") /\ Wait("pid")
          /\ UNCHANGED <<total_shot, shots>>
      BY <2>1 DEF VaccinatorWaitsPid, room
    <3>2. /\ sem'["pid"] = sem["pid"] - 1 /\ v \notin Served /\ v \in Served'
      BY <3>1, RoomSemaphores, MovesOne, ClinicFacts DEF ClinicTypeOK, Served
    <3>3. Cardinality(Served)' = Cardinality(Served) + 1
      BY <1>1, <1>2, <3>1, <3>2, ClinicFacts DEF One
    <3>4. QED  BY <1>1, <3>1, <3>2, <3>3 DEF DosesGiven
  <2>2. CASE VaccinatorLeavesRoom(v)
    <3>1. /\ Goto(v, "leave_room", "wait_shot1") /\ Post("vaccinator")
          /\ UNCHANGED shots
          /\ total_shot' = [total_shot EXCEPT ![v] = @ + 1]
      BY <2>2 DEF VaccinatorLeavesRoom
    <3>2. /\ sem'["pid"] = sem["pid"] /\ v \in Served /\ v \notin Served'
      BY <3>1, RoomSemaphores, MovesOne, ClinicFacts DEF ClinicTypeOK, Served
    <3>3. Cardinality(Served)' = Cardinality(Served) - 1
      BY <1>1, <1>2, <3>1, <3>2, ClinicFacts DEF One
    <3>4. SumFunction(total_shot') = SumFunction(total_shot) + 1
      BY <2>2, TotalGrows
    <3>5. QED  BY <1>1, <3>1, <3>2, <3>3, <3>4 DEF DosesGiven
  <2>3. ASSUME \/ VaccinatorWaitsRoom(v) \/ VaccinatorInvites(v)
               \/ VaccinatorEntersCs3(v) \/ VaccinatorPrints(v)
        PROVE  DosesGiven'
    <3>1. /\ \E e \in {<<"wait_room", "invite">>, <<"invite", "wait_pid">>,
                       <<"wait_cs3", "in_cs3">>, <<"in_cs3", "leave_room">>} :
               Goto(v, e[1], e[2])
          /\ \E s \in {"vaccinator", "client", "csection"} : Wait(s) \/ Post(s)
          /\ UNCHANGED <<total_shot, shots>>
      BY <2>3 DEF VaccinatorWaitsRoom, VaccinatorInvites,
         VaccinatorEntersCs3, VaccinatorPrints, room
    <3>2. Served' = Served
      BY <3>1, MovesOne, ClinicFacts DEF ClinicTypeOK, Served
    <3>3. sem'["pid"] = sem["pid"]
      BY <3>1, Semaphore DEF ClinicTypeOK, Semaphores
    <3>4. QED  BY <1>3, <3>1, <3>2, <3>3
  <2>4. ASSUME \/ VaccinatorOpens(v) \/ VaccinatorMaps(v) \/ VaccinatorBlocks(v)
               \/ \E k \in Kinds :
                    \/ VaccinatorWaitsShot(v, k) \/ VaccinatorEntersCs(v, k)
                    \/ VaccinatorTakes(v, k) \/ VaccinatorPostsEmpty(v, k)
        PROVE  DosesGiven'
    <3>1. UNCHANGED total_shot
      BY <2>4 DEF VaccinatorOpens, VaccinatorMaps, VaccinatorBlocks,
         VaccinatorWaitsShot, VaccinatorEntersCs, VaccinatorTakes,
         VaccinatorPostsEmpty, room
    <3>2. QED  BY <1>4, <2>4, <3>1, VaccinatorStaysOut
  <2>5. QED  BY <1>6, <2>1, <2>2, <2>3, <2>4 DEF Vaccinator
<1>7. ASSUME NEW c \in Citizens, Citizen(c) PROVE DosesGiven'
  <2>1. /\ UNCHANGED total_shot
        /\ \E from, to \in CitizenPoints : Goto(c, from, to)
    BY <1>7 DEF Citizen, CitizenOpens, CitizenEntersRoom, CitizenEntersCs,
       CitizenCountsOff, CitizenPostsPid, CitizenReports, room, CitizenPoints
  <2>2. Served' = Served
    BY <2>1, MovesOne, ClinicFacts DEF ClinicTypeOK, Served
  <2>3. CASE CitizenPostsPid(c)
    <3>1. Post("pid") /\ shots' = [shots EXCEPT ![c] = @ + 1]
      BY <2>3 DEF CitizenPostsPid
    <3>2. sem'["pid"] = sem["pid"] + 1
      BY <3>1, RoomSemaphores
    <3>3. SumFunction(shots') = SumFunction(shots) + 1
      <4>1. /\ shots' \in [Citizens -> Int]
            /\ shots[c] \in Int /\ shots'[c] = shots[c] + 1
            /\ \A d \in Citizens \ {c} : shots'[d] = shots[d]
        BY <1>1, <3>1
      <4>2. SumFunction(shots') = SumFunction(shots) + shots'[c] - shots[c]
        BY <1>1, <4>1, ClinicFacts, TotalChanges
      <4>3. QED  BY <1>1, <4>1, <4>2
    <3>4. QED  BY <1>1, <2>1, <2>2, <3>2, <3>3 DEF DosesGiven
  <2>4. CASE ~CitizenPostsPid(c)
    <3>1. UNCHANGED shots
      BY <1>7, <2>4 DEF Citizen, CitizenOpens, CitizenEntersRoom,
         CitizenEntersCs, CitizenCountsOff, CitizenReports, room
    <3>2. UNCHANGED sem \/ \E s \in {"client", "csection"} : Wait(s) \/ Post(s)
      BY <1>7, <2>4 DEF Citizen, CitizenOpens, CitizenEntersRoom,
         CitizenEntersCs, CitizenCountsOff, CitizenReports
    <3>3. sem'["pid"] = sem["pid"]
      BY <3>2, Semaphore DEF ClinicTypeOK, Semaphores
    <3>4. QED  BY <1>3, <2>1, <2>2, <3>1, <3>3
  <2>5. QED  BY <2>3, <2>4
<1>8. ASSUME NEW v \in Vaccinators, VaccinatorStops(v) PROVE DosesGiven'
  <2>1. UNCHANGED total_shot
    BY <1>8 DEF VaccinatorStops, room
  <2>2. QED  BY <1>4, <1>8, <2>1, SignalsStayOut
<1>9. ASSUME NEW p \in Processes, Killed(p) PROVE DosesGiven'
  <2>1. Goto(p, pc[p], "exited") /\ UNCHANGED <<sem, room>>
    BY <1>9 DEF Killed, Goto
  <2>2. Served' = Served
    <3>1. p \notin Served /\ p \notin Served'
      BY <1>9, <2>1, MovesOne, ClinicFacts
         DEF Killed, ClinicTypeOK, Served, Vaccinating
    <3>2. QED  BY <2>1, <3>1, MovesOne, ClinicFacts DEF ClinicTypeOK, Served
  <2>3. QED  BY <1>3, <2>1, <2>2 DEF room
<1>10. CASE Main \/ Interrupt \/ Over \/ UNCHANGED clinicVars
  <2>1. UNCHANGED total_shot
    BY <1>10 DEF Main, MainOpens, MainCounts, MainStopsVaccinators,
       MainCloses, Interrupt, Over, clinicVars, room
  <2>2. QED  BY <1>4, <1>10, <2>1, OthersStayOut
<1>11. QED
  BY <1>5, <1>6, <1>7, <1>8, <1>9, <1>10 DEF ClinicNext

-------------------------------------------------------------------------------
LEMMA SupplyInit == ClinicInit => Supply
<1> SUFFICES ASSUME ClinicInit PROVE Supply
  OBVIOUS
<1>1. SumFunction(total_shot) = 0
  <2>1. /\ total_shot \in [Vaccinators -> Int]
        /\ \A v \in Vaccinators : total_shot[v] = 0
    BY DEF ClinicInit
  <2>2. SumFunction(total_shot) = 0 * Cardinality(Vaccinators)
    BY <2>1, ClinicFacts, TotalOfEqualTerms
  <2>3. QED  BY <2>2, ClinicFacts
<1>2. Holding = {} /\ Bringing = {} /\ FirstKind(offset) = {} /\ sem["shot1"] = 0
  BY ClinicFacts DEF ClinicInit, Holding, Bringing, FirstKind
<1>3. Cardinality(FirstKind(number_of_vaccine)) * 2 = number_of_vaccine
  <2>1. file \in [1 .. number_of_vaccine -> Kinds]
    BY DEF ClinicInit, Files
  <2>2. FirstKind(number_of_vaccine) = {i \in DOMAIN file : file[i] = 1}
    BY <2>1 DEF FirstKind
  <2>3. QED  BY <2>2 DEF ClinicInit, Files
<1>4. QED  BY <1>1, <1>2, <1>3, FS_EmptySet DEF Supply

LEMMA SupplyFinite ==
  ASSUME ClinicTypeOK
  PROVE  /\ IsFiniteSet(Holding) /\ IsFiniteSet(Bringing)
         /\ \A last \in 0 .. number_of_vaccine : IsFiniteSet(FirstKind(last))
         /\ Cardinality(Holding) \in Nat /\ Cardinality(Bringing) \in Nat
         /\ \A last \in 0 .. number_of_vaccine :
              Cardinality(FirstKind(last)) \in Nat
<1>1. IsFiniteSet(Holding) /\ IsFiniteSet(Bringing)
  BY ClinicFacts, FS_Subset DEF Holding, Bringing
<1>2. ASSUME NEW last \in 0 .. number_of_vaccine
      PROVE  IsFiniteSet(FirstKind(last))
  <2>1. IsFiniteSet(1 .. last)
    BY ClinicFacts, FS_Interval
  <2>2. QED  BY <2>1, FS_Subset DEF FirstKind
<1>3. QED  BY <1>1, <1>2, FS_CardinalityType

\* The move of a process, for the two sets.
LEMMA SupplyMoves ==
  ASSUME ClinicTypeOK, NEW p \in Processes, NEW from, NEW to, Goto(p, from, to),
         \A n \in Nurses : n # p => kind'[n] = kind[n]
  PROVE  /\ Cardinality(Holding)' = Cardinality(Holding)
                + One(p \in Holding)' - One(p \in Holding)
         /\ Cardinality(Bringing)' = Cardinality(Bringing)
                + One(p \in Bringing)' - One(p \in Bringing)
<1>1. /\ \A q : q # p => (q \in Holding <=> q \in Holding')
      /\ \A q : q # p => (q \in Bringing <=> q \in Bringing')
  BY MovesOne, ClinicFacts DEF ClinicTypeOK, Holding, Bringing
<1>2. QED  BY <1>1, SupplyFinite, SetChanges DEF One

LEMMA SupplyStep ==
  ClinicTypeOK /\ Supply /\ [ClinicNext]_clinicVars => Supply'
<1> SUFFICES ASSUME ClinicTypeOK, Supply, [ClinicNext]_clinicVars
             PROVE  Supply'
  OBVIOUS
<1> DEFINE Used == SumFunction(total_shot) + Cardinality(Holding) + sem["shot1"]
                     + Cardinality(Bringing)
           Seen == Cardinality(FirstKind(offset))
<1>1. /\ sem["shot1"] \in Nat /\ SumFunction(total_shot) \in Int
      /\ Cardinality(Holding) \in Nat /\ Cardinality(Bringing) \in Nat
      /\ Seen \in Nat /\ Used \in Int
      /\ PcOK /\ kind \in [Nurses -> Kinds]
  <2>1. /\ PcOK /\ kind \in [Nurses -> Kinds]
        /\ sem["shot1"] \in Nat /\ offset \in 0 .. number_of_vaccine
    BY DEF ClinicTypeOK, DataOK, Semaphores
  <2>2. /\ SumFunction(total_shot) \in Int
        /\ Cardinality(Holding) \in Nat /\ Cardinality(Bringing) \in Nat
        /\ Seen \in Nat
    BY <2>1, SumTypes, SupplyFinite
  <2>3. Used \in Int
    BY <2>1, <2>2
  <2>4. QED  BY <2>1, <2>2, <2>3
<1>2. file' = file
  BY DEF ClinicNext, Nurse, NurseFetches, NurseWaitsEmpty, NurseEntersCs,
     NursePuts, NursePostsShot, Vaccinator, VaccinatorOpens,
     VaccinatorMaps, VaccinatorWaitsShot, VaccinatorEntersCs,
     VaccinatorTakes, VaccinatorPostsEmpty, VaccinatorBlocks,
     VaccinatorWaitsRoom, VaccinatorInvites, VaccinatorWaitsPid,
     VaccinatorEntersCs3, VaccinatorPrints, VaccinatorLeavesRoom,
     VaccinatorStops, Citizen, CitizenOpens, CitizenEntersRoom,
     CitizenEntersCs, CitizenCountsOff, CitizenPostsPid, CitizenReports,
     Main, MainOpens, MainCounts, MainStopsVaccinators, MainCloses,
     Interrupt, Killed, Over, buffer, clinicVars
<1>3. ASSUME Used' - Used <= Seen' - Seen, Used' \in Int, Seen' \in Int
      PROVE  Supply'
  <2>1. FirstKind(number_of_vaccine)' = FirstKind(number_of_vaccine)
    BY <1>2 DEF FirstKind
  <2>2. Used <= Seen
    BY DEF Supply
  <2>3. Used' <= Seen'
    <3>1. Used \in Int /\ Seen \in Int
      BY <1>1
    <3>2. \A a, b, c, d \in Int : b <= d /\ a - b <= c - d => a <= c
      OBVIOUS
    <3> HIDE DEF Used, Seen
    <3>3. QED  BY <1>3, <2>2, <3>1, <3>2
  <2>4. QED  BY <2>1, <2>3 DEF Supply
<1>4. ASSUME offset' = offset PROVE Seen' = Seen
  BY <1>2, <1>4 DEF FirstKind
<1>5. ASSUME NEW n \in Nurses, Nurse(n) PROVE Supply'
  <2>1. /\ total_shot' = total_shot
        /\ \A m \in Nurses : m # n => kind'[m] = kind[m]
        /\ \E from, to \in NursePoints : Goto(n, from, to)
    BY <1>1, <1>5 DEF Nurse, NurseFetches, NurseWaitsEmpty, NurseEntersCs,
       NursePuts, NursePostsShot, room, buffer, NursePoints
  <2>2. Cardinality(Holding)' = Cardinality(Holding)
    <3>1. n \notin Holding /\ n \notin Holding'
      BY ClinicFacts DEF Holding
    <3>2. QED  BY <1>1, <2>1, <3>1, SupplyMoves, ClinicFacts DEF One
  <2>3. Cardinality(Bringing)' = Cardinality(Bringing) + One(n \in Bringing)'
                                  - One(n \in Bringing)
    BY <2>1, SupplyMoves, ClinicFacts
  <2>4. One(n \in Bringing) \in Int /\ One(n \in Bringing)' \in Int
    BY DEF One
  <2>5. CASE NurseFetches(n)
    <3>1. n \notin Bringing
      BY <2>5 DEF NurseFetches, Goto, Bringing
    <3>2. sem' = sem
      BY <2>5 DEF NurseFetches
    <3>3. CASE offset >= number_of_vaccine
      <4>1. Goto(n, "fetch", "exited") /\ offset' = offset
        BY <2>5, <3>3 DEF NurseFetches
      <4>2. n \notin Bringing'
        BY <1>1, <4>1 DEF Goto, Bringing, PcOK
      <4>3. Used' = Used
        BY <1>1, <2>1, <2>2, <2>3, <3>1, <3>2, <4>2 DEF One
      <4>4. Seen' = Seen
        BY <1>4, <4>1
      <4> HIDE DEF Used, Seen
      <4>5. QED  BY <1>1, <1>3, <4>3, <4>4
    <3>4. CASE ~(offset >= number_of_vaccine)
      <4>1. /\ Goto(n, "fetch", "wait_empty") /\ offset' = offset + 1
            /\ kind' = [kind EXCEPT ![n] = file[offset + 1]]
        BY <2>5, <3>4 DEF NurseFetches
      <4>2. /\ offset \in 0 .. number_of_vaccine /\ number_of_vaccine \in Nat
            /\ offset + 1 \in 1 .. number_of_vaccine
        BY <3>4, ClinicFacts DEF ClinicTypeOK, DataOK
      <4>3. n \in Bringing' <=> file[offset + 1] = 1
        BY <1>1, <4>1, ClinicFacts DEF Goto, Bringing, PcOK
      <4>4. Used' = Used + One(file[offset + 1] = 1)
        BY <1>1, <2>1, <2>2, <2>3, <3>1, <3>2, <4>3 DEF One
      <4>5. Seen' = Seen + One(file[offset + 1] = 1)
        <5>1. /\ \A i : i # offset + 1 =>
                    (i \in FirstKind(offset) <=> i \in FirstKind(offset)')
              /\ offset + 1 \notin FirstKind(offset)
              /\ offset + 1 \in FirstKind(offset)' <=> file[offset + 1] = 1
          BY <1>2, <4>1, <4>2 DEF FirstKind
        <5>2. IsFiniteSet(FirstKind(offset))
          BY <4>2, SupplyFinite
        <5>3. Cardinality(FirstKind(offset)')
                = Cardinality(FirstKind(offset))
                    + One(offset + 1 \in FirstKind(offset)')
                    - One(offset + 1 \in FirstKind(offset))
          BY <5>1, <5>2, SetChanges
        <5>4. QED  BY <1>1, <5>1, <5>3 DEF One
      <4> HIDE DEF Used, Seen
      <4>6. QED  BY <1>1, <1>3, <4>4, <4>5 DEF One
    <3>5. QED  BY <3>3, <3>4
  <2>6. ASSUME NurseWaitsEmpty(n) \/ NurseEntersCs(n) \/ NursePuts(n)
        PROVE  Supply'
    <3>1. /\ \E s \in {"empty", "csection"} : Wait(s) \/ Post(s)
          /\ \E from, to \in {"wait_empty", "wait_cs", "in_cs", "post_shot"} :
               Goto(n, from, to)
          /\ kind' = kind /\ offset' = offset
      BY <2>6 DEF NurseWaitsEmpty, NurseEntersCs, NursePuts, buffer
    <3>2. sem'["shot1"] = sem["shot1"]
      BY <3>1, Semaphore DEF ClinicTypeOK, Semaphores
    <3>3. n \in Bringing' <=> n \in Bringing
      BY <1>1, <3>1, MovesOne, ClinicFacts DEF Bringing
    <3>4. Used' = Used
      BY <1>1, <2>1, <2>2, <2>3, <3>2, <3>3 DEF One
    <3>5. Seen' = Seen
      BY <1>4, <3>1
    <3> HIDE DEF Used, Seen
    <3>6. QED  BY <1>1, <1>3, <3>4, <3>5
  <2>7. CASE NursePostsShot(n)
    <3>1. /\ Goto(n, "post_shot", "fetch") /\ Post(shot[kind[n]])
          /\ kind' = kind /\ offset' = offset
      BY <2>7 DEF NursePostsShot, buffer
    <3>2. /\ n \notin Bringing'
          /\ n \in Bringing <=> kind[n] = 1
      BY <1>1, <3>1, MovesOne, ClinicFacts DEF Bringing
    <3>3. sem'["shot1"] = sem["shot1"] + One(kind[n] = 1)
      BY <1>1, <3>1, Semaphore, KindsOfShot DEF One, ClinicTypeOK
    <3>4. /\ Cardinality(Bringing)' = Cardinality(Bringing) - One(kind[n] = 1)
          /\ One(kind[n] = 1) \in Int
      BY <1>1, <2>3, <3>2 DEF One
    <3>5. Used' = Used
      BY <1>1, <2>1, <2>2, <3>3, <3>4
    <3>6. Seen' = Seen
      BY <1>4, <3>1
    <3> HIDE DEF Used, Seen
    <3>7. QED  BY <1>1, <1>3, <3>5, <3>6
  <2>8. QED  BY <1>5, <2>5, <2>6, <2>7 DEF Nurse
<1>6. ASSUME NEW p \in Processes, NEW from, NEW to, Goto(p, from, to),
             UNCHANGED <<kind, offset, total_shot>>,
             One(p \in Holding)' + sem'["shot1"]
               <= One(p \in Holding) + sem["shot1"],
             p \notin Nurses \/ p \notin Bringing',
             sem'["shot1"] \in Int
      PROVE  Supply'
  <2>1. Cardinality(Holding)' = Cardinality(Holding) + One(p \in Holding)'
                                  - One(p \in Holding)
    BY <1>6, SupplyMoves
  <2>2. Cardinality(Bringing)' = Cardinality(Bringing) + One(p \in Bringing)'
                                  - One(p \in Bringing)
    BY <1>6, SupplyMoves
  <2>3. /\ One(p \in Holding) \in Int /\ One(p \in Holding)' \in Int
        /\ One(p \in Bringing) \in Nat /\ One(p \in Bringing)' = 0
    BY <1>6 DEF One, Bringing
  <2>4. /\ total_shot' = total_shot /\ sem'["shot1"] \in Int
        /\ One(p \in Holding)' + sem'["shot1"] <= One(p \in Holding) + sem["shot1"]
    BY <1>6
  <2>5. /\ Cardinality(Holding)' \in Int /\ Cardinality(Bringing)' \in Int
        /\ Cardinality(Bringing)' <= Cardinality(Bringing)
        /\ Cardinality(Holding)' + sem'["shot1"]
             <= Cardinality(Holding) + sem["shot1"]
    <3>1. /\ Cardinality(Holding) \in Int /\ Cardinality(Bringing) \in Int
          /\ sem["shot1"] \in Int
      BY <1>1
    <3>2. /\ Cardinality(Bringing)' \in Int
          /\ Cardinality(Bringing)' <= Cardinality(Bringing)
      BY ONLY <2>2, <2>3, <3>1
    <3>3. /\ Cardinality(Holding)' \in Int
          /\ Cardinality(Holding)' + sem'["shot1"]
               <= Cardinality(Holding) + sem["shot1"]
      BY ONLY <2>1, <2>3, <2>4, <3>1
    <3>4. QED  BY ONLY <3>2, <3>3
  <2>6. Used' - Used <= 0 /\ Used' \in Int
    BY <1>1, <2>4, <2>5
  <2>7. Seen' = Seen
    BY <1>4, <1>6
  <2> HIDE DEF Used, Seen
  <2>8. QED  BY <1>1, <1>3, <2>6, <2>7
<1>7. ASSUME NEW v \in Vaccinators, Vaccinator(v) PROVE Supply'
  <2>1. v \in Processes /\ v \notin Nurses
    BY ClinicFacts
  <2>2. CASE VaccinatorLeavesRoom(v)
    <3>1. /\ Goto(v, "leave_room", "wait_shot1") /\ Post("vaccinator")
          /\ UNCHANGED <<kind, offset>>
      BY <2>2 DEF VaccinatorLeavesRoom, buffer
    <3>2. /\ sem'["shot1"] = sem["shot1"]
          /\ v \in Holding /\ v \notin Holding'
          /\ v \notin Bringing /\ v \notin Bringing'
      BY <1>1, <2>1, <3>1, Semaphore, MovesOne
         DEF ClinicTypeOK, Semaphores, Holding, Bringing
    <3>3. /\ Cardinality(Holding)' = Cardinality(Holding) - 1
          /\ Cardinality(Bringing)' = Cardinality(Bringing)
      BY <1>1, <2>1, <3>1, <3>2, SupplyMoves DEF One
    <3>4. SumFunction(total_shot)' = SumFunction(total_shot) + 1
      BY <2>2, TotalGrows
    <3>5. Used' = Used
      BY <1>1, <3>2, <3>3, <3>4
    <3>6. Seen' = Seen
      BY <1>4, <3>1
    <3> HIDE DEF Used, Seen
    <3>7. QED  BY <1>1, <1>3, <3>5, <3>6
  <2>3. ASSUME NEW k \in Kinds, VaccinatorWaitsShot(v, k) PROVE Supply'
    <3>1. /\ Goto(v, Waiting(k), WaitCs(k)) /\ Wait(shot[k])
          /\ UNCHANGED <<kind, offset, total_shot>>
      BY <2>3 DEF VaccinatorWaitsShot, buffer, room
    <3>2. sem'["shot1"] = sem["shot1"] - One(k = 1)
      BY <1>1, <3>1, Semaphore, KindsOfShot DEF ClinicTypeOK, One
    <3>3. One(v \in Holding)' <= One(v \in Holding) + One(k = 1)
      BY <1>1, <2>1, <3>1, MovesOne DEF Holding, Waiting, WaitCs, One, Kinds
    <3>4. /\ One(v \in Holding)' \in Int /\ One(v \in Holding) \in Int
          /\ One(k = 1) \in Int
      BY DEF One
    <3>5. /\ One(v \in Holding)' + sem'["shot1"]
               <= One(v \in Holding) + sem["shot1"]
          /\ sem'["shot1"] \in Int
      BY <1>1, <3>2, <3>3, <3>4
    <3>6. QED  BY <1>6, <2>1, <3>1, <3>5
  <2>4. ASSUME ~VaccinatorLeavesRoom(v),
               \A k \in Kinds : ~VaccinatorWaitsShot(v, k)
        PROVE  Supply'
    <3>1. /\ UNCHANGED <<kind, offset, total_shot>>
          /\ \/ UNCHANGED sem
             \/ \E s \in Semaphores \ {"shot1", "shot2"} : Wait(s) \/ Post(s)
          /\ \E from, to \in VaccinatorPoints :
               /\ Goto(v, from, to)
               /\ from \in {"start", "mapping"} =>
                    to \in {"mapping", "wait_shot1"}
               /\ from \notin {"wait_shot1", "exited", "crashed"}
      BY <1>7, <2>4 DEF Vaccinator, VaccinatorEntersCs, VaccinatorTakes,
         VaccinatorPostsEmpty, WaitCs, InCs, PostEmpty, VaccinatorOpens,
         VaccinatorMaps, VaccinatorBlocks, VaccinatorWaitsRoom,
         VaccinatorInvites, VaccinatorWaitsPid, VaccinatorEntersCs3,
         VaccinatorPrints, VaccinatorPoints, Semaphores, room, buffer
    <3>2. sem'["shot1"] = sem["shot1"]
      BY <3>1, Semaphore DEF ClinicTypeOK, Semaphores
    <3>3. v \in Holding' => v \in Holding
      BY <1>1, <2>1, <3>1, MovesOne DEF Holding, VaccinatorPoints
    <3>4. One(v \in Holding)' <= One(v \in Holding)
      BY <3>3 DEF One
    <3>5. /\ One(v \in Holding)' \in Int /\ One(v \in Holding) \in Int
      BY DEF One
    <3>6. /\ One(v \in Holding)' + sem'["shot1"]
               <= One(v \in Holding) + sem["shot1"]
          /\ sem'["shot1"] \in Int
      BY <1>1, <3>2, <3>4, <3>5
    <3>7. QED  BY <1>6, <2>1, <3>1, <3>6
  <2>5. QED  BY <2>2, <2>3, <2>4
<1>8. ASSUME NEW c \in Citizens, Citizen(c) PROVE Supply'
  <2>1. /\ UNCHANGED <<kind, offset, total_shot>>
        /\ UNCHANGED sem \/ \E s \in {"client", "pid", "csection"} : Wait(s) \/ Post(s)
        /\ \E from, to \in CitizenPoints : Goto(c, from, to)
    BY <1>8 DEF Citizen, CitizenOpens, CitizenEntersRoom, CitizenEntersCs,
       CitizenCountsOff, CitizenPostsPid, CitizenReports, CitizenPoints, room,
       buffer
  <2>2. sem'["shot1"] = sem["shot1"]
    BY <2>1, Semaphore DEF ClinicTypeOK, Semaphores
  <2>3. /\ c \in Processes /\ c \notin Nurses
        /\ c \notin Holding /\ c \notin Holding'
    BY ClinicFacts DEF Holding
  <2>4. One(c \in Holding)' = 0 /\ One(c \in Holding) = 0
    BY <2>3 DEF One
  <2>5. QED  BY <1>1, <1>6, <2>1, <2>2, <2>3, <2>4
<1>9. ASSUME NEW p \in Processes, NEW to \in {"exited", "crashed"},
             Goto(p, pc[p], to), UNCHANGED <<kind, offset, total_shot, sem>>
      PROVE  Supply'
  <2>1. p \notin Holding' /\ p \notin Bringing'
    BY <1>1, <1>9, MovesOne DEF Holding, Bringing
  <2>2. One(p \in Holding)' <= One(p \in Holding)
    BY <2>1 DEF One
  <2>3. One(p \in Holding)' \in Int /\ One(p \in Holding) \in Int
    BY DEF One
  <2>4. QED  BY <1>1, <1>6, <1>9, <2>1, <2>2, <2>3
<1>10. ASSUME NEW v \in Vaccinators, VaccinatorStops(v) PROVE Supply'
  <2>1. /\ \E to \in {"exited", "crashed"} : Goto(v, pc[v], to)
        /\ UNCHANGED <<kind, offset, total_shot, sem>>
    BY <1>10 DEF VaccinatorStops, Goto, room, buffer
  <2>2. QED  BY <1>9, <2>1, ClinicFacts
<1>11. ASSUME NEW p \in Processes, Killed(p) PROVE Supply'
  <2>1. /\ Goto(p, pc[p], "exited")
        /\ UNCHANGED <<kind, offset, total_shot, sem>>
    BY <1>11 DEF Killed, Goto, room, buffer
  <2>2. QED  BY <1>9, <2>1
<1>12. CASE Main \/ Interrupt \/ Over \/ UNCHANGED clinicVars
  <2>1. UNCHANGED <<pc, kind, offset, total_shot, sem>>
    BY <1>12 DEF Main, MainOpens, MainCounts, MainStopsVaccinators,
       MainCloses, Interrupt, Over, clinicVars, room, buffer
  <2>2. Holding' = Holding /\ Bringing' = Bringing
    BY <2>1 DEF Holding, Bringing
  <2>3. Used' = Used
    BY <2>1, <2>2
  <2>4. Seen' = Seen
    BY <1>4, <2>1
  <2> HIDE DEF Used, Seen
  <2>5. QED  BY <1>1, <1>3, <2>3, <2>4
<1>13. QED
  BY <1>5, <1>7, <1>8, <1>10, <1>11, <1>12 DEF ClinicNext

-------------------------------------------------------------------------------
LEMMA EndedFacts ==
  /\ IsFiniteSet(Ended(Citizens)) /\ IsFiniteSet(Ended(Vaccinators))
  /\ Cardinality(Ended(Citizens)) \in Nat
  /\ Cardinality(Ended(Vaccinators)) \in Nat
  /\ Cardinality(Ended(Citizens)) >= Cardinality(Citizens) =>
       Ended(Citizens) = Citizens
  /\ Cardinality(Ended(Vaccinators)) >= Cardinality(Vaccinators) =>
       Ended(Vaccinators) = Vaccinators
<1>1. ASSUME NEW P, IsFiniteSet(P)
      PROVE  /\ IsFiniteSet(Ended(P)) /\ Cardinality(Ended(P)) \in Nat
             /\ Cardinality(Ended(P)) >= Cardinality(P) => Ended(P) = P
  <2>1. Ended(P) \in SUBSET P
    BY DEF Ended
  <2>2. /\ IsFiniteSet(Ended(P)) /\ Cardinality(Ended(P)) <= Cardinality(P)
        /\ Cardinality(Ended(P)) = Cardinality(P) => Ended(P) = P
    BY <1>1, <2>1, FS_Subset
  <2>3. Cardinality(Ended(P)) \in Nat /\ Cardinality(P) \in Nat
    BY <1>1, <2>2, FS_CardinalityType
  <2>4. QED  BY <2>2, <2>3
<1>2. QED  BY <1>1, ClinicFacts

LEMMA EndsInit == ClinicInit => EndsInv
<1> SUFFICES ASSUME ClinicInit PROVE EndsInv
  OBVIOUS
<1>1. Ended(Citizens) = {} /\ Ended(Vaccinators) = {}
  BY ClinicFacts DEF ClinicInit, Ended
<1>2. \A f \in Fifos : counted[f] = 0 /\ msgs[f] = 0
  BY DEF ClinicInit
<1>3. /\ usr1 = {} /\ main = "open_vac_fifo" /\ ~sigint
      /\ \A c \in Citizens : pc[c] # "exited"
      /\ \A v \in Vaccinators : pc[v] # "exited"
  BY ClinicFacts DEF ClinicInit
<1>4. QED  BY <1>1, <1>2, <1>3, FS_EmptySet DEF EndsInv, Told, Fifos

\* Neither a SIGINT nor a read that returned 0 is forgotten.
LEMMA StaysDisturbed ==
  ASSUME [ClinicNext]_clinicVars, Undisturbed' PROVE Undisturbed
<1>1. ASSUME UNCHANGED <<sigint, eof>> PROVE Undisturbed
  BY <1>1 DEF Undisturbed
<1>2. CASE \E n \in Nurses : Nurse(n)
  BY <1>1, <1>2 DEF Nurse, NurseFetches, NurseWaitsEmpty, NurseEntersCs,
     NursePuts, NursePostsShot, fifos, ends
<1>3. CASE \E v \in Vaccinators : Vaccinator(v)
  BY <1>1, <1>3 DEF Vaccinator, VaccinatorWaitsShot, VaccinatorEntersCs,
     VaccinatorTakes, VaccinatorPostsEmpty, VaccinatorOpens, VaccinatorMaps,
     VaccinatorBlocks, VaccinatorWaitsRoom, VaccinatorInvites,
     VaccinatorWaitsPid, VaccinatorEntersCs3, VaccinatorPrints,
     VaccinatorLeavesRoom, Opens, fifos, ends
<1>4. CASE \E c \in Citizens : Citizen(c)
  BY <1>1, <1>4 DEF Citizen, CitizenOpens, CitizenEntersRoom, CitizenEntersCs,
     CitizenCountsOff, CitizenPostsPid, CitizenReports, Opens, Reports,
     fifos, ends
<1>5. CASE \E v \in Vaccinators : VaccinatorStops(v)
  BY <1>1, <1>5 DEF VaccinatorStops, Reports
<1>6. CASE \E p \in Processes : Killed(p)
  BY <1>1, <1>6 DEF Killed, ends
<1>7. CASE Main
  <2>1. ASSUME NEW f, NEW at, NEW expected, MainCounts(f, at, expected)
        PROVE  Undisturbed
    <3>1. sigint' = sigint /\ (eof' = eof \/ eof' = TRUE)
      BY <2>1 DEF MainCounts, ends
    <3>2. QED  BY <3>1 DEF Undisturbed
  <2>2. QED
    BY <1>1, <1>7, <2>1 DEF Main, MainOpens, MainStopsVaccinators, MainCloses,
       fifos, ends
<1>8. CASE Interrupt
  BY <1>8 DEF Interrupt, Undisturbed
<1>9. CASE Over \/ UNCHANGED clinicVars
  BY <1>1, <1>9 DEF Over, clinicVars, fifos, ends
<1>10. QED
  BY <1>2, <1>3, <1>4, <1>5, <1>6, <1>7, <1>8, <1>9 DEF ClinicNext

\* A step that ends no process and of which main sees nothing.
EndsStand ==
  /\ \A c \in Citizens : /\ pc[c] = "exited" <=> pc'[c] = "exited"
                         /\ pc[c] = "exited" => shots'[c] = shots[c]
  /\ \A v \in Vaccinators : /\ pc[v] = "exited" <=> pc'[v] = "exited"
                            /\ pc[v] = "exited" => total_shot'[v] = total_shot[v]
  /\ UNCHANGED <<main, msgs, counted, ends>>

LEMMA EndsInvStand ==
  ASSUME [ClinicNext]_clinicVars, EndsInv, EndsStand PROVE EndsInv'
<1>1. /\ main' = main /\ sigint' = sigint /\ msgs' = msgs /\ counted' = counted
      /\ usr1' = usr1 /\ vac_table' = vac_table
  BY DEF EndsStand, ends
<1>2. Ended(Citizens)' = Ended(Citizens) /\ Ended(Vaccinators)' = Ended(Vaccinators)
  BY DEF EndsStand, Ended
<1>3. ASSUME Told PROVE Told'
  <2>1. /\ \A c \in Citizens : pc'[c] = "exited" => shots'[c] = times_of_shot
        /\ \A v \in Vaccinators :
             pc'[v] = "exited" => vac_table'[v] = total_shot'[v]
    BY <1>1, <1>3 DEF Told, EndsStand
  <2>2. QED  BY <1>1, <1>2, <1>3, <2>1 DEF Told
<1>4. QED  BY <1>1, <1>3, StaysDisturbed DEF EndsInv

LEMMA EndsStep ==
  ClinicTypeOK /\ RoomInv /\ EndsInv /\ [ClinicNext]_clinicVars => EndsInv'
<1> SUFFICES ASSUME ClinicTypeOK, RoomInv, EndsInv, [ClinicNext]_clinicVars
             PROVE  EndsInv'
  OBVIOUS
<1>1. /\ PcOK /\ "vac_fifo" \in Fifos /\ "citizen_fifo" \in Fifos
      /\ msgs \in [Fifos -> Nat] /\ counted \in [Fifos -> Nat]
      /\ shots \in [Citizens -> Nat] /\ total_shot \in [Vaccinators -> Nat]
      /\ vac_table \in [Vaccinators -> Nat]
  BY DEF ClinicTypeOK, DataOK, Fifos
<1>2. ASSUME sigint' = sigint, main' = main, Told => Told' PROVE EndsInv'
  BY <1>2, StaysDisturbed DEF EndsInv
<1>3. ASSUME NEW n \in Nurses, Nurse(n) PROVE EndsInv'
  <2>1. /\ \E from, to \in NursePoints : Goto(n, from, to)
        /\ UNCHANGED <<main, room, fifos, ends>>
    BY <1>3 DEF Nurse, NurseFetches, NurseWaitsEmpty, NurseEntersCs,
       NursePuts, NursePostsShot, NursePoints
  <2>2. EndsStand
    BY <1>1, <2>1, MovesOne, ClinicFacts DEF EndsStand, room, fifos
  <2>3. QED  BY <2>2, EndsInvStand
<1>4. ASSUME NEW v \in Vaccinators, Vaccinator(v) PROVE EndsInv'
  <2>1. /\ \E from, to \in VaccinatorPoints \ {"exited"} : Goto(v, from, to)
        /\ UNCHANGED <<main, shots, msgs, counted, ends>>
    BY <1>4 DEF Vaccinator, VaccinatorWaitsShot, VaccinatorEntersCs,
       VaccinatorTakes, VaccinatorPostsEmpty, Waiting, WaitCs, InCs, PostEmpty,
       VaccinatorOpens, VaccinatorMaps, VaccinatorBlocks, VaccinatorWaitsRoom,
       VaccinatorInvites, VaccinatorWaitsPid, VaccinatorEntersCs3,
       VaccinatorPrints, VaccinatorLeavesRoom, VaccinatorPoints, Opens, room,
       fifos
  <2>2. \A w \in Vaccinators : w # v => total_shot'[w] = total_shot[w]
    BY <1>1, <1>4 DEF Vaccinator, VaccinatorWaitsShot, VaccinatorEntersCs,
       VaccinatorTakes, VaccinatorPostsEmpty,
       VaccinatorOpens, VaccinatorMaps, VaccinatorBlocks, VaccinatorWaitsRoom,
       VaccinatorInvites, VaccinatorWaitsPid, VaccinatorEntersCs3,
       VaccinatorPrints, VaccinatorLeavesRoom, room
  <2>3. /\ pc[v] # "exited" /\ pc'[v] # "exited"
        /\ \A q \in Processes : q # v => pc'[q] = pc[q]
    BY <1>1, <2>1, MovesOne, ClinicFacts
  <2>4. EndsStand
    BY <2>1, <2>2, <2>3, ClinicFacts DEF EndsStand
  <2>5. QED  BY <2>4, EndsInvStand
<1>5. ASSUME NEW c \in Citizens, Citizen(c), ~CitizenReports(c) PROVE EndsInv'
  <2>1. /\ \E from, to \in CitizenPoints \ {"exited"} : Goto(c, from, to)
        /\ UNCHANGED <<main, total_shot, msgs, counted, ends>>
    BY <1>5 DEF Citizen, CitizenOpens, CitizenEntersRoom, CitizenEntersCs,
       CitizenCountsOff, CitizenPostsPid, CitizenPoints, Opens, room, fifos
  <2>2. \A d \in Citizens : d # c => shots'[d] = shots[d]
    BY <1>1, <1>5 DEF Citizen, CitizenOpens, CitizenEntersRoom,
       CitizenEntersCs, CitizenCountsOff, CitizenPostsPid, room
  <2>3. /\ pc[c] # "exited" /\ pc'[c] # "exited"
        /\ \A q \in Processes : q # c => pc'[q] = pc[q]
    BY <1>1, <2>1, MovesOne, ClinicFacts
  <2>4. EndsStand
    BY <2>1, <2>2, <2>3, ClinicFacts DEF EndsStand
  <2>5. QED  BY <2>4, EndsInvStand
<1>6. ASSUME NEW c \in Citizens, CitizenReports(c) PROVE EndsInv'
  <2>1. /\ Goto(c, "report", "exited")
        /\ msgs' = [msgs EXCEPT !["citizen_fifo"] = @ + 1] /\ counted' = counted
        /\ UNCHANGED <<main, shots, total_shot, vac_table, usr1, sigint>>
    BY <1>6 DEF CitizenReports, Reports, room, ends
  <2>2. /\ pc[c] = "report" /\ pc'[c] = "exited"
        /\ \A q \in Processes : q # c => pc'[q] = pc[q]
    BY <1>1, <2>1, MovesOne, ClinicFacts
  <2>3. shots[c] = times_of_shot
    BY <2>2 DEF RoomInv, Loop
  <2>4. /\ msgs'["citizen_fifo"] = msgs["citizen_fifo"] + 1
        /\ msgs'["vac_fifo"] = msgs["vac_fifo"]
    BY <1>1, <2>1
  <2>5. /\ Ended(Vaccinators)' = Ended(Vaccinators)
        /\ c \notin Ended(Citizens) /\ Ended(Citizens)' = Ended(Citizens) \cup {c}
    BY <2>2, ClinicFacts DEF Ended
  <2>6. Cardinality(Ended(Citizens)') = Cardinality(Ended(Citizens)) + 1
    <3>1. Cardinality(Ended(Citizens) \cup {c}) = Cardinality(Ended(Citizens)) + 1
      <4>1. IsFiniteSet(Ended(Citizens))
        BY EndedFacts
      <4>2. QED  BY <2>5, <4>1, FS_AddElement
    <3>2. QED  BY <2>5, <3>1
  <2>7. ASSUME Told PROVE Told'
    <3>1. /\ counted["citizen_fifo"] + msgs["citizen_fifo"]
               = Cardinality(Ended(Citizens))
          /\ counted["citizen_fifo"] \in Nat /\ msgs["citizen_fifo"] \in Nat
          /\ Cardinality(Ended(Citizens)) \in Nat
      BY <1>1, <2>7, EndedFacts DEF Told
    <3>2. counted'["citizen_fifo"] + msgs'["citizen_fifo"]
            = Cardinality(Ended(Citizens)')
      BY <2>1, <2>4, <2>6, <3>1
    <3>3. counted'["vac_fifo"] + msgs'["vac_fifo"]
            = Cardinality(Ended(Vaccinators)')
      BY <2>1, <2>4, <2>5, <2>7 DEF Told
    <3>4. /\ \A d \in Citizens : pc'[d] = "exited" => shots'[d] = times_of_shot
          /\ \A v \in Vaccinators :
               pc'[v] = "exited" => vac_table'[v] = total_shot'[v]
      BY <2>1, <2>2, <2>3, <2>7, ClinicFacts DEF Told
    <3>5. /\ usr1' # {} \/ main' \in {"count_vaccinators", "closed"} =>
               Ended(Citizens)' = Citizens
          /\ main' = "closed" => Ended(Vaccinators)' = Vaccinators
      BY <2>1, <2>5, <2>7 DEF Told
    <3>6. QED  BY <3>2, <3>3, <3>4, <3>5 DEF Told
  <2>8. QED  BY <1>2, <2>1, <2>7
<1>7. ASSUME NEW v \in Vaccinators, VaccinatorStops(v) PROVE EndsInv'
  <2>1. CASE pc[v] \in {"start", "mapping"}
    <3>1. /\ Goto(v, pc[v], "crashed")
          /\ UNCHANGED <<main, shots, total_shot, msgs, counted, ends>>
      BY <1>7, <2>1 DEF VaccinatorStops, Goto, room, ends
    <3>2. /\ pc'[v] = "crashed"
          /\ \A q \in Processes : q # v => pc'[q] = pc[q]
      BY <1>1, <3>1, MovesOne, ClinicFacts
    <3>3. EndsStand
      BY <2>1, <3>1, <3>2, ClinicFacts DEF EndsStand
    <3>4. QED  BY <3>3, EndsInvStand
  <2>2. CASE pc[v] \notin {"start", "mapping"}
    <3>1. /\ pc[v] # "exited" /\ Goto(v, pc[v], "exited")
          /\ msgs' = [msgs EXCEPT !["vac_fifo"] = @ + 1] /\ counted' = counted
          /\ vac_table' = [vac_table EXCEPT ![v] = total_shot[v]]
          /\ UNCHANGED <<main, shots, total_shot, usr1, sigint>>
      BY <1>7, <2>2 DEF VaccinatorStops, Reports, Goto, room
    <3>2. /\ pc'[v] = "exited"
          /\ \A q \in Processes : q # v => pc'[q] = pc[q]
      BY <1>1, <3>1, MovesOne, ClinicFacts
    <3>3. /\ msgs'["vac_fifo"] = msgs["vac_fifo"] + 1
          /\ msgs'["citizen_fifo"] = msgs["citizen_fifo"]
          /\ vac_table'[v] = total_shot[v]
          /\ \A w \in Vaccinators : w # v => vac_table'[w] = vac_table[w]
      BY <1>1, <3>1
    <3>4. /\ Ended(Citizens)' = Ended(Citizens)
          /\ v \notin Ended(Vaccinators)
          /\ Ended(Vaccinators)' = Ended(Vaccinators) \cup {v}
      BY <3>1, <3>2, ClinicFacts DEF Ended
    <3>5. Cardinality(Ended(Vaccinators)') = Cardinality(Ended(Vaccinators)) + 1
      <4>1. Cardinality(Ended(Vaccinators) \cup {v})
              = Cardinality(Ended(Vaccinators)) + 1
        <5>1. IsFiniteSet(Ended(Vaccinators))
          BY EndedFacts
        <5>2. QED  BY <3>4, <5>1, FS_AddElement
      <4>2. QED  BY <3>4, <4>1
    <3>6. ASSUME Told PROVE Told'
      <4>1. /\ counted["vac_fifo"] + msgs["vac_fifo"]
                 = Cardinality(Ended(Vaccinators))
            /\ counted["vac_fifo"] \in Nat /\ msgs["vac_fifo"] \in Nat
            /\ Cardinality(Ended(Vaccinators)) \in Nat
        BY <1>1, <3>6, EndedFacts DEF Told
      <4>2. counted'["vac_fifo"] + msgs'["vac_fifo"]
              = Cardinality(Ended(Vaccinators)')
        BY <3>1, <3>3, <3>5, <4>1
      <4>3. counted'["citizen_fifo"] + msgs'["citizen_fifo"]
              = Cardinality(Ended(Citizens)')
        BY <3>1, <3>3, <3>4, <3>6 DEF Told
      <4>4. /\ \A c \in Citizens : pc'[c] = "exited" => shots'[c] = times_of_shot
            /\ \A w \in Vaccinators :
                 pc'[w] = "exited" => vac_table'[w] = total_shot'[w]
        BY <3>1, <3>2, <3>3, <3>6, ClinicFacts DEF Told
      <4>5. /\ usr1' # {} \/ main' \in {"count_vaccinators", "closed"} =>
                 Ended(Citizens)' = Citizens
            /\ main' = "closed" => Ended(Vaccinators)' = Vaccinators
        BY <3>1, <3>4, <3>6 DEF Told
      <4>6. QED  BY <4>2, <4>3, <4>4, <4>5 DEF Told
    <3>7. QED  BY <1>2, <3>1, <3>6
  <2>3. QED  BY <2>1, <2>2
<1>8. ASSUME NEW f \in Fifos, NEW from, NEW expected, MainCounts(f, from, expected)
      PROVE  EndsInv'
  <2>1. /\ UNCHANGED <<pc, main, shots, total_shot, vac_table, usr1, sigint>>
        /\ counted' = [counted EXCEPT ![f] = @ + 1]
        /\ \/ msgs[f] > 0 /\ msgs' = [msgs EXCEPT ![f] = @ - 1]
           \/ eof' = TRUE
    BY <1>8 DEF MainCounts, room, ends
  <2>2. Ended(Citizens)' = Ended(Citizens) /\ Ended(Vaccinators)' = Ended(Vaccinators)
    BY <2>1 DEF Ended
  <2>3. CASE eof' = TRUE
    BY <2>1, <2>3 DEF EndsInv, Undisturbed
  <2>4. CASE msgs[f] > 0 /\ msgs' = [msgs EXCEPT ![f] = @ - 1]
    <3>1. \A g \in Fifos : counted'[g] + msgs'[g] = counted[g] + msgs[g]
      BY <1>1, <2>1, <2>4
    <3>2. Told => Told'
      BY <1>1, <2>1, <2>2, <3>1 DEF Told
    <3>3. QED  BY <1>2, <2>1, <3>2
  <2>5. QED  BY <2>1, <2>3, <2>4
<1>9. ASSUME UNCHANGED <<pc, shots, total_shot, vac_table, msgs, counted, sigint>>,
             ~sigint,
             Told => \/ usr1' # {} \/ main' \in {"count_vaccinators", "closed"}
                        => Ended(Citizens) = Citizens,
             Told => (main' = "closed" => Ended(Vaccinators) = Vaccinators)
      PROVE  EndsInv'
  <2>1. Ended(Citizens)' = Ended(Citizens) /\ Ended(Vaccinators)' = Ended(Vaccinators)
    BY <1>9 DEF Ended
  <2>2. Told => Told'
    BY <1>9, <2>1 DEF Told
  <2>3. QED  BY <1>9, <2>2, StaysDisturbed DEF EndsInv
<1>10. CASE Main
  <2>1. main # "interrupted" /\ ~sigint
    BY <1>10 DEF Main, MainOpens, MainCounts, MainStopsVaccinators, MainCloses,
       EndsInv
  <2>2. ASSUME NEW f, NEW from, NEW to \in {"open_citizen_fifo", "count_citizens"},
               MainOpens(f, from, to)
        PROVE  EndsInv'
    <3>1. /\ UNCHANGED <<pc, shots, total_shot, vac_table, usr1, msgs, counted,
                         sigint>>
          /\ main' = to
      BY <2>2 DEF MainOpens, room, fifos, ends
    <3>2. QED  BY <1>9, <2>1, <3>1 DEF Told
  <2>3. CASE MainStopsVaccinators
    <3>1. /\ UNCHANGED <<pc, shots, total_shot, vac_table, msgs, counted, sigint>>
          /\ main' = "count_vaccinators"
          /\ counted["citizen_fifo"] = Cardinality(Citizens)
      BY <2>3 DEF MainStopsVaccinators, room, fifos
    <3>2. Told => Ended(Citizens) = Citizens
      <4>1. /\ counted["citizen_fifo"] \in Nat /\ msgs["citizen_fifo"] \in Nat
        BY <1>1
      <4>2. Told => Cardinality(Ended(Citizens)) >= Cardinality(Citizens)
        BY <3>1, <4>1, EndedFacts DEF Told
      <4>3. QED  BY <4>2, EndedFacts
    <3>3. QED  BY <1>9, <2>1, <3>1, <3>2
  <2>4. CASE MainCloses
    <3>1. /\ UNCHANGED <<pc, shots, total_shot, vac_table, usr1, msgs, counted,
                         sigint>>
          /\ main = "count_vaccinators" /\ main' = "closed"
          /\ counted["vac_fifo"] = Cardinality(Vaccinators)
      BY <2>4 DEF MainCloses, room, fifos, ends
    <3>2. Told => Ended(Vaccinators) = Vaccinators
      <4>1. /\ counted["vac_fifo"] \in Nat /\ msgs["vac_fifo"] \in Nat
        BY <1>1
      <4>2. Told => Cardinality(Ended(Vaccinators)) >= Cardinality(Vaccinators)
        BY <3>1, <4>1, EndedFacts DEF Told
      <4>3. QED  BY <4>2, EndedFacts
    <3>3. Told => Ended(Citizens) = Citizens
      BY <3>1 DEF Told
    <3>4. QED  BY <1>9, <2>1, <3>1, <3>2, <3>3
  <2>5. QED  BY <1>1, <1>8, <1>10, <2>2, <2>3, <2>4 DEF Main
<1>11. CASE Interrupt
  BY <1>11 DEF Interrupt, EndsInv, Undisturbed
<1>12. ASSUME NEW p \in Processes, Killed(p) PROVE EndsInv'
  <2>1. sigint /\ sigint' = sigint /\ main' = main
    BY <1>12 DEF Killed, ends
  <2>2. QED  BY <2>1 DEF EndsInv, Undisturbed
<1>13. CASE Over \/ UNCHANGED clinicVars
  <2>1. EndsStand
    BY <1>13 DEF Over, clinicVars, EndsStand, room, fifos
  <2>2. QED  BY <2>1, EndsInvStand
<1>14. QED
  BY <1>3, <1>4, <1>5, <1>6, <1>7, <1>10, <1>11, <1>12, <1>13
     DEF ClinicNext

-------------------------------------------------------------------------------
\* All citizens have ended: every dose of every citizen has been given.
LEMMA AllDosesGiven ==
  ASSUME ClinicTypeOK, Told, Ended(Citizens) = Citizens
  PROVE  /\ \A c \in Citizens : shots[c] = times_of_shot
         /\ SumFunction(shots) = times_of_shot * Cardinality(Citizens)
<1>1. \A c \in Citizens : shots[c] = times_of_shot
  BY DEF Told, Ended
<1>2. SumFunction(shots) = times_of_shot * Cardinality(Citizens)
  <2>1. shots \in [Citizens -> Int] /\ IsFiniteSet(Citizens) /\ times_of_shot \in Int
    BY SumTypes, ClinicFacts
  <2>2. QED  BY <1>1, <2>1, TotalOfEqualTerms
<1>3. QED  BY <1>1, <1>2

\* When main sends SIGUSR1 there is no vaccine of the first kind left for a
\* vaccinator to be half way with: all of them have been given.
LEMMA NobodyHalfWay ==
  ASSUME ClinicTypeOK, RoomInv, DosesGiven, Supply, Told, usr1 # {},
         NEW v \in Vaccinators
  PROVE  pc[v] \notin {"wait_cs1", "in_cs1", "post_empty1", "wait_cs2",
                       "in_cs2", "post_empty2"}
<1> SUFFICES ASSUME pc[v] \in {"wait_cs1", "in_cs1", "post_empty1", "wait_cs2",
                               "in_cs2", "post_empty2"}
             PROVE  FALSE
  OBVIOUS
<1> DEFINE all == times_of_shot * Cardinality(Citizens)
<1>1. /\ sem["pid"] \in Nat /\ sem["client"] \in Nat /\ sem["shot1"] \in Nat
      /\ offset \in 0 .. number_of_vaccine
  BY DEF ClinicTypeOK, DataOK, Semaphores
<1>2. SumFunction(shots) = all /\ all \in Int
  <2>1. Ended(Citizens) = Citizens
    BY DEF Told
  <2>2. QED  BY <2>1, AllDosesGiven, ClinicFacts
<1>3. Cardinality(FirstKind(offset)) <= all
  <2>1. FirstKind(offset) \subseteq FirstKind(number_of_vaccine)
    BY <1>1, ClinicFacts DEF FirstKind
  <2>2. /\ IsFiniteSet(FirstKind(number_of_vaccine))
        /\ Cardinality(FirstKind(number_of_vaccine)) \in Nat
    BY ClinicFacts, SupplyFinite
  <2>3. Cardinality(FirstKind(offset)) <= Cardinality(FirstKind(number_of_vaccine))
    BY <2>1, <2>2, FS_Subset
  <2>4. Cardinality(FirstKind(number_of_vaccine)) * 2 = 2 * all
    BY ClinicFacts DEF Supply
  <2>5. Cardinality(FirstKind(number_of_vaccine)) = all
    BY <1>2, <2>2, <2>4
  <2>6. QED  BY <2>3, <2>5
<1>4. Cardinality(Holding) <= sem["pid"] + Cardinality(Served)
  <2>1. /\ SumFunction(total_shot) + Cardinality(Holding) + sem["shot1"]
             + Cardinality(Bringing) <= Cardinality(FirstKind(offset))
        /\ SumFunction(total_shot) + sem["pid"] + Cardinality(Served)
             = SumFunction(shots)
    BY DEF Supply, DosesGiven
  <2>2. /\ SumFunction(total_shot) \in Int
        /\ Cardinality(Holding) \in Int /\ Cardinality(Bringing) \in Nat
        /\ Cardinality(FirstKind(offset)) \in Int /\ Cardinality(Served) \in Int
    BY <1>1, SumTypes, SupplyFinite, ServedFinite
  <2> HIDE DEF all
  <2>3. QED  BY <1>1, <1>2, <1>3, <2>1, <2>2
<1>5. /\ Served \subseteq Holding \ {v} /\ v \in Holding
      /\ IsFiniteSet(Holding) /\ Cardinality(Holding) \in Nat
      /\ Cardinality(Served) \in Nat
  BY SupplyFinite, ServedFinite DEF Served, Holding
<1>6. /\ IsFiniteSet(Holding \ {v})
      /\ Cardinality(Holding \ {v}) = Cardinality(Holding) - 1
  BY <1>5, FS_RemoveElement
<1>7. Cardinality(Served) <= Cardinality(Holding) - 1
  BY <1>5, <1>6, FS_Subset
<1>8. CASE sem["pid"] = 0
  BY <1>4, <1>5, <1>7, <1>8
<1>9. CASE sem["pid"] > 0
  <2>1. sem["pid"] <= 1 /\ \E w \in Vaccinators : pc[w] = "wait_pid"
    BY <1>1, <1>9 DEF RoomInv, OneVisit
  <2>2. PICK w \in Vaccinators : pc[w] = "wait_pid"
    BY <2>1
  <2>3. w \in Holding \ {v} /\ Served \subseteq (Holding \ {v}) \ {w}
    BY <1>5, <2>2 DEF Served, Holding
  <2>4. /\ IsFiniteSet((Holding \ {v}) \ {w})
        /\ Cardinality((Holding \ {v}) \ {w}) = Cardinality(Holding) - 2
    <3>1. /\ IsFiniteSet((Holding \ {v}) \ {w})
          /\ Cardinality((Holding \ {v}) \ {w}) = Cardinality(Holding \ {v}) - 1
      BY <1>6, <2>3, FS_RemoveElement
    <3>2. QED  BY <1>5, <1>6, <3>1
  <2>5. Cardinality(Served) <= Cardinality(Holding) - 2
    BY <2>3, <2>4, FS_Subset
  <2>6. QED  BY <1>1, <1>4, <1>5, <2>1, <2>5
<1>10. QED  BY <1>1, <1>8, <1>9

LEMMA ExactStep ==
  /\ ClinicTypeOK /\ RoomInv /\ DosesGiven /\ Supply /\ EndsInv /\ Exact
  /\ [ClinicNext]_clinicVars
  => Exact'
<1> SUFFICES ASSUME ClinicTypeOK, RoomInv, DosesGiven, Supply, EndsInv, Exact,
                    [ClinicNext]_clinicVars, Undisturbed'
             PROVE  (LostPlaces = 0 /\ \A k \in Kinds : Lost(k) = 0)'
  BY DEF Exact
<1>1. /\ Undisturbed /\ Told
      /\ LostPlaces = 0 /\ \A k \in Kinds : Lost(k) = 0
  BY StaysDisturbed DEF Exact, EndsInv
<1>2. CASE NothingLost
  BY <1>1, <1>2 DEF NothingLost
<1>3. ASSUME NEW v \in Vaccinators, VaccinatorStops(v)
      PROVE  (LostPlaces = 0 /\ \A k \in Kinds : Lost(k) = 0)'
  <2>1. /\ usr1 # {} /\ UNCHANGED <<vac, kind, sem>>
        /\ \E to \in {"exited", "crashed"} : Goto(v, pc[v], to)
    BY <1>3 DEF VaccinatorStops, Goto, buffer
  <2>2. pc[v] \notin {"wait_cs1", "in_cs1", "post_empty1", "wait_cs2",
                      "in_cs2", "post_empty2"}
    BY <1>1, <2>1, NobodyHalfWay
  <2>3. /\ v \notin Carrying /\ v \notin Emptying
        /\ \A k \in Kinds : v \notin Posting(k) /\ v \notin Claiming(k)
    BY <2>2, ClinicFacts DEF Carrying, Emptying, Posting, Claiming, Where,
       WaitCs, InCs
  <2>4. /\ LostPlaces' = LostPlaces + One(v \in Carrying) + One(v \in Emptying)
        /\ \A k \in Kinds : Lost(k)' = Lost(k) + One(v \in Posting(k))
                                            + One(v \in Claiming(k))
    BY <2>1, GoneLose, ClinicFacts
  <2>5. QED  BY <1>1, <2>3, <2>4 DEF One
<1>4. ASSUME NEW p \in Processes, Killed(p) PROVE FALSE
  BY <1>1, <1>4 DEF Killed, Undisturbed
<1>5. CASE Main \/ Interrupt \/ Over \/ UNCHANGED clinicVars
  <2>1. UNCHANGED <<pc, vac, kind, sem>>
    BY <1>5 DEF Main, MainOpens, MainCounts, MainStopsVaccinators,
       MainCloses, Interrupt, Over, clinicVars, buffer
  <2>2. QED  BY <1>2, <2>1, OthersLoseNothing
<1>6. QED
  BY <1>2, <1>3, <1>4, <1>5, NurseLosesNothing, VaccinatorLosesNothing,
     CitizenLosesNothing DEF ClinicNext

ClinicInv == /\ ClinicTypeOK /\ RoomInv /\ DosesGiven /\ Supply
             /\ EndsInv /\ Exact

LEMMA ClinicInvHolds == ClinicSpec => []ClinicInv
<1>1. ClinicInit => ClinicInv
  BY TypeInit, RoomInit, DosesInit, SupplyInit, EndsInit, NobodyCounts
     DEF ClinicInv, Exact
<1>2. ClinicInv /\ [ClinicNext]_clinicVars => ClinicInv'
  BY TypeStep, RoomStep, DosesStep, SupplyStep, EndsStep, ExactStep
     DEF ClinicInv
<1>3. QED  BY <1>1, <1>2, PTL DEF ClinicSpec

\* As long as nobody is killed and main takes no end of a FIFO for a message,
\* the semaphores count the vaccines and the free places exactly, also when
\* SIGUSR1 ends vaccinators wherever it finds them.
THEOREM BufferIsExact == ClinicSpec => []BufferExact
<1>1. ASSUME ClinicInv PROVE BufferExact
  <2> SUFFICES ASSUME ~sigint /\ ~eof
               PROVE  /\ \A k \in Kinds :
                           vac[k] = sem[shot[k]] + Cardinality(Posting(k))
                                      + Cardinality(Claiming(k))
                      /\ buffer_size = sem["empty"] + vac[1] + vac[2]
                           + Cardinality(Carrying) + Cardinality(Emptying)
    BY DEF BufferExact, Posting, Claiming, Carrying, Emptying
  <2>1. /\ sem["empty"] \in Int /\ buffer_size \in Int
        /\ vac[1] \in Int /\ vac[2] \in Int
        /\ \A k \in Kinds : vac[k] \in Int /\ sem[shot[k]] \in Int
    <3>1. sem \in [Semaphores -> Nat] /\ vac \in [Kinds -> Int]
      BY <1>1 DEF ClinicInv, ClinicTypeOK, DataOK
    <3>2. /\ \A k \in Kinds : vac[k] \in Int
          /\ \A s \in Semaphores : sem[s] \in Int
      BY <3>1
    <3>3. "empty" \in Semaphores /\ 1 \in Kinds /\ 2 \in Kinds
      BY DEF Semaphores, Kinds
    <3>4. QED  BY <3>2, <3>3, KindsOfShot, ClinicFacts
  <2>2. LostPlaces = 0 /\ \A k \in Kinds : Lost(k) = 0
    BY <1>1 DEF ClinicInv, Exact, Undisturbed
  <2>3. ASSUME NEW k \in Kinds
        PROVE  vac[k] = sem[shot[k]] + Cardinality(Posting(k))
                          + Cardinality(Claiming(k))
    BY <2>1, <2>2, CountTypes DEF Lost
  <2>4. buffer_size = sem["empty"] + vac[1] + vac[2] + Cardinality(Carrying)
                        + Cardinality(Emptying)
    BY <2>1, <2>2, CountTypes DEF LostPlaces
  <2>5. QED  BY <2>3, <2>4
<1>2. QED  BY <1>1, ClinicInvHolds, PTL

\* When main closes, having been told of everybody's end, everybody has had
\* every dose and the table main prints accounts for all of them.
THEOREM FinalTableAddsUp == ClinicSpec => []TotalsAddUp
<1>1. ASSUME ClinicInv PROVE TotalsAddUp
  <2> SUFFICES ASSUME main = "closed", ~eof
               PROVE  /\ NotFinished = {}
                      /\ SumFunction(vac_table)
                           = times_of_shot * Cardinality(Citizens)
    BY DEF TotalsAddUp
  <2>1. ClinicTypeOK /\ RoomInv /\ DosesGiven /\ Told
    BY <1>1 DEF ClinicInv, EndsInv, Undisturbed
  <2>2. Ended(Citizens) = Citizens /\ Ended(Vaccinators) = Vaccinators
    BY <2>1 DEF Told
  <2>3. /\ \A c \in Citizens : shots[c] = times_of_shot
        /\ SumFunction(shots) = times_of_shot * Cardinality(Citizens)
    BY <2>1, <2>2, AllDosesGiven
  <2>4. NotFinished = {}
    BY <2>3, ClinicFacts DEF NotFinished
  <2>5. vac_table = total_shot
    <3>1. \A v \in Vaccinators : vac_table[v] = total_shot[v]
      BY <2>1, <2>2 DEF Told, Ended
    <3>2. QED  BY <2>1, <3>1 DEF ClinicTypeOK, DataOK
  <2>6. Served = {} /\ sem["pid"] = 0
    <3>1. \A v \in Vaccinators : pc[v] = "exited"
      BY <2>2 DEF Ended
    <3>2. QED
      BY <2>1, <3>1 DEF Served, RoomInv, OneVisit, ClinicTypeOK, Semaphores
  <2>7. SumFunction(total_shot) = SumFunction(shots)
    BY <2>1, <2>6, SumTypes, FS_EmptySet DEF DosesGiven
  <2>8. QED  BY <2>3, <2>4, <2>5, <2>7
<1>2. QED  BY <1>1, ClinicInvHolds, PTL
===============================================================================
