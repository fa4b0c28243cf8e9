---------------------------- MODULE LagrangeProofs ----------------------------
(***************************************************************************)
(* hw2 for any number of children: however their steps and signals fall,   *)
(* one process at a time is at the file, and the parent computes an error  *)
(* of complete rounds.                                                     *)
(*                                                                         *)
(* The children are told to write by counting: a signal that was merged    *)
(* into a pending one only makes the parent wait, so the count of handled  *)
(* signals never runs ahead of the children that have reported.            *)
(***************************************************************************)
EXTENDS LagrangeRounds, FiniteSetTheorems, TLAPS

MainPoints  == {"fork", "suspended", "test", "let", "yielded", "error",
                "awake", "reap", "ended"}
ChildPoints == {"unborn", "read", "ready", "asleep", "add", "store", "wrote",
                "rest", "exited"}

\* The truth values usr2 and coalesced need no type.
LagrangeTypeOK ==
  /\ main \in MainPoints /\ index \in Children /\ round \in {1, 2}
  /\ handled_signals \in Nat
  /\ usr1 \subseteq Children
  /\ child \in [Children -> ChildPoints]
  /\ turn \in [Children -> {1, 2}]
  /\ file \in [Children -> Nat]
  /\ file_content \in [Children -> [Children -> Nat]]

Asleep == {c \in Children : child[c] = "asleep"}

\* SIGUSR2 is handled, or pending, at most once for each child that has
\* reported and sleeps.
HandledBehind ==
  handled_signals + (IF usr2 THEN 1 ELSE 0) <= Cardinality(Asleep)

\* A child before its first calculation.
Starts(c, point) == /\ child[c] = point
                    /\ turn[c] = 1 /\ file[c] = 0 /\ c \notin usr1

\* A child whose number of the round r is on its line.
Written(c, r) == /\ child[c] = IF r = 1 THEN "rest" ELSE "exited"
                 /\ turn[c] = r /\ file[c] = r /\ c \notin usr1

\* A child at its calculation of the round r, or done with it.
Calculates(c, r) == /\ child[c] \in {"ready", "asleep"}
                    /\ turn[c] = r /\ file[c] = r - 1 /\ c \notin usr1

\* A child that has been told of the second round and not seen it yet.
ToldOfRound2(c) == /\ child[c] = "rest"
                   /\ turn[c] = 1 /\ file[c] = 1 /\ c \in usr1

\* The first children are forked one after the other.
ForkInv ==
  main = "fork" =>
    /\ round = 1 /\ handled_signals = 0 /\ HandledBehind
    /\ \A c \in Children :
         IF c < index
         THEN Starts(c, "read") \/ Calculates(c, 1)
         ELSE Starts(c, "unborn")

\* While the parent waits for all reports nobody is at the file to write.
GatherInv ==
  main \in {"suspended", "test"} =>
    /\ HandledBehind /\ index = 0
    /\ \A c \in Children :
         \/ Calculates(c, round)
         \/ round = 1 /\ Starts(c, "read")
         \/ round = 2 /\ ToldOfRound2(c)

\* The turn of the child index, from the signal that lets it write to the one
\* that tells it has.
Turn ==
  LET c == index
  IN  /\ turn[c] = round
      /\ \/ /\ child[c] = "asleep" /\ file[c] = round - 1
            /\ usr1 = {c} /\ ~usr2
         \/ /\ child[c] = "add" /\ file[c] = round - 1
            /\ usr1 = {} /\ ~usr2
         \/ /\ child[c] = "store" /\ file[c] = round - 1
            /\ usr1 = {} /\ ~usr2 /\ file_content[c] = file
         \/ /\ child[c] = "wrote" /\ file[c] = round
            /\ usr1 = {} /\ ~usr2
         \/ /\ Written(c, round)
            /\ usr1 = {} /\ usr2

\* Of the others, those before it have written and those after it sleep.
WriteInv ==
  main \in {"let", "yielded"} =>
    /\ main = "let" => usr1 = {} /\ ~usr2 /\ child[index] = "asleep"
                         /\ Calculates(index, round)
    /\ main = "yielded" => Turn
    /\ \A c \in Children :
         /\ c < index => Written(c, round)
         /\ c > index => Calculates(c, round) /\ child[c] = "asleep"

\* Afterwards all have.
WrittenInv ==
  /\ main \in {"error", "reap", "ended"} =>
       /\ ~usr2 /\ \A c \in Children : Written(c, round)
  /\ main \in {"reap", "ended"} => round = 2
  /\ main = "error" => index = 0

\* The children are told of the second round one after the other.
AwakeInv ==
  main = "awake" =>
    /\ round = 1
    /\ usr2 => Asleep # {}
    /\ \A c \in Children :
         IF c < index THEN Calculates(c, 2) \/ ToldOfRound2(c)
                      ELSE Written(c, 1)

LagrangeInv == /\ LagrangeTypeOK /\ ForkInv /\ GatherInv /\ WriteInv
               /\ WrittenInv /\ AwakeInv

-------------------------------------------------------------------------------
\* The sleepers are counted among N children.
LEMMA AsleepCount ==
  ASSUME LagrangeTypeOK
  PROVE  /\ IsFiniteSet(Asleep) /\ Cardinality(Asleep) \in 0 .. N
         /\ Cardinality(Asleep) = N => Asleep = Children
         /\ Asleep # {} => Cardinality(Asleep) > 0
<1>1. IsFiniteSet(Children) /\ Cardinality(Children) = N
  <2>1. 0 \in Int /\ N - 1 \in Int
    BY LagrangeAssumption
  <2>2. QED  BY <2>1, LagrangeAssumption, FS_Interval DEF Children
<1>2. Asleep \in SUBSET Children
  BY DEF Asleep
<1>3. /\ IsFiniteSet(Asleep) /\ Cardinality(Asleep) <= N
      /\ Cardinality(Asleep) = N => Asleep = Children
  BY <1>1, <1>2, FS_Subset
<1>4. Cardinality(Asleep) \in Nat
  BY <1>3, FS_CardinalityType
<1>5. Asleep # {} => Cardinality(Asleep) # 0
  BY <1>3, FS_EmptySet
<1>6. QED  BY <1>3, <1>4, <1>5, LagrangeAssumption

LEMMA Loop ==
  /\ 0 \in Children
  /\ \A i \in Children : i \in Nat /\ i <= N - 1
  /\ \A i \in Children : i < N - 1 => i + 1 \in Children
  BY LagrangeAssumption DEF Children

LEMMA LagrangeInvInit == LagrangeInit => LagrangeInv
<1> SUFFICES ASSUME LagrangeInit PROVE LagrangeInv
  OBVIOUS
<1>1. LagrangeTypeOK
  <2>1. file \in [Children -> Nat]
    BY DEF LagrangeInit
  <2>2. QED
    BY <2>1, Loop DEF LagrangeInit, LagrangeTypeOK, MainPoints, ChildPoints
<1>2. ForkInv
  BY <1>1, AsleepCount, LagrangeAssumption
     DEF LagrangeInit, ForkInv, HandledBehind, Children, Starts
<1>3. GatherInv /\ WriteInv /\ WrittenInv /\ AwakeInv
  BY DEF LagrangeInit, GatherInv, WriteInv, WrittenInv, AwakeInv
<1>4. QED  BY <1>1, <1>2, <1>3 DEF LagrangeInv

LEMMA AdvanceStays ==
  ASSUME index \in Children, NEW inside, NEW after, Advance(inside, after)
  PROVE  index' \in Children /\ (main' = inside \/ main' = after)
  BY Loop DEF Advance

\* Types are kept by every step.
LEMMA LagrangeTypeStep ==
  ASSUME LagrangeTypeOK, LagrangeNext PROVE LagrangeTypeOK'
<1> USE DEF LagrangeTypeOK, MainPoints, ChildPoints, childVars
<1>1. ASSUME Parent PROVE LagrangeTypeOK'
  <2>1. /\ main' \in MainPoints /\ index' \in Children /\ round' \in {1, 2}
        /\ handled_signals' \in Nat /\ usr1' \subseteq Children
    <3>1. CASE ParentForks
      BY <3>1, AdvanceStays DEF ParentForks
    <3>2. CASE ParentHandles
      <4>1. main = "suspended" \/ Advance("let", "error")
        BY <3>2 DEF ParentHandles
      <4>2. /\ main' \in MainPoints /\ index' \in Children
        BY <3>2, <4>1, AdvanceStays DEF ParentHandles
      <4>3. QED
        BY <3>2, <4>2 DEF ParentHandles
    <3>3. CASE ParentTests
      BY <3>3 DEF ParentTests
    <3>4. CASE ParentLets
      BY <3>4 DEF ParentLets
    <3>5. CASE ParentCalculates
      BY <3>5 DEF ParentCalculates
    <3>6. CASE ParentAwakes
      BY <3>6, AdvanceStays DEF ParentAwakes
    <3>7. CASE ParentReaps
      BY <3>7, AdvanceStays DEF ParentReaps
    <3>8. QED
      BY <1>1, <3>1, <3>2, <3>3, <3>4, <3>5, <3>6, <3>7 DEF Parent
  <2>2. /\ child' \in [Children -> ChildPoints]
        /\ UNCHANGED <<turn, file, file_content>>
    BY <1>1 DEF Parent, ParentForks, ParentHandles, ParentTests, ParentLets,
                ParentCalculates, ParentAwakes, ParentReaps
  <2>3. /\ turn' \in [Children -> {1, 2}] /\ file' \in [Children -> Nat]
        /\ file_content' \in [Children -> [Children -> Nat]]
    BY <2>2
  <2>4. QED
    BY <2>1, <2>2, <2>3
<1>2. ASSUME NEW c \in Children, Child(c) PROVE LagrangeTypeOK'
  <2> USE DEF Goes, TellsParent
  <2>1. CASE ChildReads(c)
    BY <2>1 DEF ChildReads
  <2>2. CASE ChildReports(c)
    BY <2>2 DEF ChildReports
  <2>3. CASE ChildWakes(c)
    BY <2>3 DEF ChildWakes
  <2>4. CASE ChildCopies(c)
    BY <2>4 DEF ChildCopies
  <2>5. CASE ChildStores(c)
    BY <2>5 DEF ChildStores
  <2>6. CASE ChildTellsWritten(c)
    BY <2>6 DEF ChildTellsWritten
  <2>7. QED
    BY <1>2, <2>1, <2>2, <2>3, <2>4, <2>5, <2>6 DEF Child
<1>3. QED  BY <1>1, <1>2 DEF LagrangeNext

-------------------------------------------------------------------------------
\* A report makes one sleeper more.
LEMMA ReportCounts ==
  ASSUME LagrangeTypeOK, NEW c \in Children, ChildReports(c)
  PROVE  Cardinality(Asleep') = Cardinality(Asleep) + 1
<1>1. Asleep' = Asleep \cup {c} /\ c \notin Asleep
  BY DEF LagrangeTypeOK, ChildReports, Goes, Asleep
<1>2. QED  BY <1>1, AsleepCount, FS_AddElement

LEMMA SameSleepers ==
  ASSUME \A c \in Children : child'[c] = "asleep" <=> child[c] = "asleep"
  PROVE  Asleep' = Asleep
  BY DEF Asleep

\* The parent's steps, one by one.
LEMMA ForksStep ==
  ASSUME LagrangeInv, LagrangeTypeOK', ParentForks PROVE LagrangeInv'
<1> USE Loop, LagrangeAssumption DEF LagrangeInv
<1>1. main = "fork" /\ child' = [child EXCEPT ![index] = "read"]
  BY DEF ParentForks
<1>2. /\ round' = round /\ handled_signals' = handled_signals /\ usr2' = usr2
      /\ turn' = turn /\ usr1' = usr1 /\ file' = file
  BY DEF ParentForks
<1>3. /\ index \in Children /\ round = 1 /\ handled_signals = 0
      /\ \A c \in Children : c < index => Starts(c, "read") \/ Calculates(c, 1)
      /\ \A c \in Children : ~ (c < index) => Starts(c, "unborn")
      /\ child \in [Children -> ChildPoints]
  BY <1>1 DEF ForkInv, LagrangeTypeOK
<1>4. Asleep' = Asleep
  <2>1. child[index] = "unborn"
    BY <1>3 DEF Starts
  <2>2. QED
    BY <1>1, <1>3, <2>1, SameSleepers
<1>5. HandledBehind'
  BY <1>1, <1>2, <1>4 DEF ForkInv, HandledBehind
<1>6. \A c \in Children :
        /\ c <= index => Starts(c, "read")' \/ Calculates(c, 1)'
        /\ c > index => Starts(c, "unborn")'
  BY <1>1, <1>2, <1>3 DEF Starts, Calculates
<1>7. CASE index < N - 1
  <2>1. index' = index + 1 /\ main' = "fork"
    BY <1>7 DEF ParentForks, Advance
  <2>2. ForkInv'
    BY <1>2, <1>3, <1>5, <1>6, <2>1 DEF ForkInv
  <2>3. QED
    BY <2>1, <2>2 DEF GatherInv, WriteInv, WrittenInv, AwakeInv
<1>8. CASE ~ (index < N - 1)
  <2>1. index' = 0 /\ main' = "suspended"
    BY <1>8 DEF ParentForks, Advance
  <2>2. \A c \in Children : c <= index
    BY <1>3, <1>8
  <2>3. GatherInv'
    BY <1>2, <1>3, <1>5, <1>6, <2>1, <2>2 DEF GatherInv
  <2>4. QED
    BY <2>1, <2>3 DEF ForkInv, WriteInv, WrittenInv, AwakeInv
<1>9. QED  BY <1>7, <1>8

\* A handled signal is one that is no longer pending.
LEMMA HandlesStep ==
  ASSUME LagrangeInv, LagrangeTypeOK', ParentHandles PROVE LagrangeInv'
<1> USE Loop, LagrangeAssumption DEF LagrangeInv
<1>1. /\ usr2 /\ ~ usr2' /\ handled_signals' = handled_signals + 1
      /\ round' = round /\ child' = child /\ turn' = turn /\ usr1' = usr1
      /\ file' = file /\ index \in Children /\ handled_signals \in Nat
  BY DEF ParentHandles, childVars, LagrangeTypeOK
<1>2. \A c \in Children, r \in {1, 2} :
        /\ Calculates(c, r)' <=> Calculates(c, r)
        /\ Written(c, r)' <=> Written(c, r)
        /\ Starts(c, "read")' <=> Starts(c, "read")
        /\ ToldOfRound2(c)' <=> ToldOfRound2(c)
  BY <1>1 DEF Calculates, Written, Starts, ToldOfRound2
<1>3. CASE main = "suspended"
  <2>1. main' = "test" /\ index' = index
    BY <1>3 DEF ParentHandles
  <2>2. HandledBehind'
    <3>1. Asleep' = Asleep
      BY <1>1 DEF Asleep
    <3>2. HandledBehind
      BY <1>3 DEF GatherInv
    <3>3. QED
      BY <1>1, <3>1, <3>2 DEF HandledBehind
  <2>3. GatherInv'
    BY <1>1, <1>2, <1>3, <2>1, <2>2 DEF GatherInv, LagrangeTypeOK
  <2>4. QED
    BY <2>1, <2>3 DEF ForkInv, WriteInv, WrittenInv, AwakeInv
<1>4. CASE main = "yielded"
  <2>1. Advance("let", "error")
    BY <1>4 DEF ParentHandles
  <2>2. Written(index, round)
    BY <1>1, <1>4 DEF WriteInv, Turn
  <2>3. \A c \in Children :
          /\ c <= index => Written(c, round)
          /\ c > index => Calculates(c, round) /\ child[c] = "asleep"
    BY <1>1, <1>4, <2>2 DEF WriteInv
  <2>4. usr1 = {}
    BY <1>1, <1>4 DEF WriteInv, Turn
  <2>5. CASE index < N - 1
    <3>1. index' = index + 1 /\ main' = "let"
      BY <2>1, <2>5 DEF Advance
    <3>2. WriteInv'
      BY <1>1, <1>2, <2>3, <2>4, <2>5, <3>1 DEF WriteInv, LagrangeTypeOK
    <3>3. QED
      BY <3>1, <3>2 DEF ForkInv, GatherInv, WrittenInv, AwakeInv
  <2>6. CASE ~ (index < N - 1)
    <3>1. index' = 0 /\ main' = "error"
      BY <2>1, <2>6 DEF Advance
    <3>2. \A c \in Children : c <= index
      BY <1>1, <2>6
    <3>3. WrittenInv'
      BY <1>1, <1>2, <2>3, <3>1, <3>2 DEF WrittenInv, LagrangeTypeOK
    <3>4. QED
      BY <3>1, <3>3 DEF ForkInv, GatherInv, WriteInv, AwakeInv
  <2>7. QED  BY <2>5, <2>6
<1>5. QED  BY <1>3, <1>4 DEF ParentHandles

\* What is said of children depends on no variable of the parent.
LEMMA ChildrenStand ==
  ASSUME UNCHANGED <<child, turn, file>>, NEW c, usr1' = usr1
  PROVE  /\ \A r : Calculates(c, r)' <=> Calculates(c, r)
         /\ \A r : Written(c, r)' <=> Written(c, r)
         /\ \A point : Starts(c, point)' <=> Starts(c, point)
         /\ ToldOfRound2(c)' <=> ToldOfRound2(c)
  BY DEF Calculates, Written, Starts, ToldOfRound2

\* When N signals have been handled all children sleep and none is pending.
LEMMA TestsStep ==
  ASSUME LagrangeInv, LagrangeTypeOK', ParentTests PROVE LagrangeInv'
<1> USE Loop, LagrangeAssumption DEF LagrangeInv
<1>1. /\ main = "test" /\ index' = index /\ index = 0 /\ round' = round
      /\ handled_signals' = handled_signals /\ usr2' = usr2 /\ usr1' = usr1
      /\ UNCHANGED <<child, turn, file>>
  BY DEF ParentTests, childVars, GatherInv
<1>2. HandledBehind
  BY <1>1 DEF GatherInv
<1>3. CASE handled_signals = N
  <2>1. main' = "let"
    BY <1>3 DEF ParentTests
  <2>2. Asleep = Children /\ ~ usr2
    BY <1>2, <1>3, AsleepCount DEF HandledBehind
  <2>3. \A c \in Children : child[c] = "asleep" /\ c \notin usr1
                             /\ Calculates(c, round)
    BY <1>1, <2>2 DEF Asleep, GatherInv, Starts, ToldOfRound2, Calculates
  <2>4. usr1 = {}
    BY <2>3 DEF LagrangeTypeOK
  <2>5. \A c \in Children : Calculates(c, round)' /\ child'[c] = "asleep"
    BY <1>1, <2>3, ChildrenStand
  <2>6. ~ usr2' /\ usr1' = {} /\ index' \in Children /\ index' = 0
    BY <1>1, <2>2, <2>4
  <2>7. WriteInv'
    BY <2>1, <2>5, <2>6 DEF WriteInv
  <2>8. QED
    BY <2>1, <2>7 DEF ForkInv, GatherInv, WrittenInv, AwakeInv
<1>4. CASE handled_signals # N
  <2>1. main' = "suspended"
    BY <1>4 DEF ParentTests
  <2>2. HandledBehind'
    BY <1>1, <1>2 DEF HandledBehind, Asleep
  <2>3. GatherInv'
    BY <1>1, <2>1, <2>2, ChildrenStand DEF GatherInv
  <2>4. QED
    BY <2>1, <2>3 DEF ForkInv, WriteInv, WrittenInv, AwakeInv
<1>5. QED  BY <1>3, <1>4

LEMMA LetsStep ==
  ASSUME LagrangeInv, LagrangeTypeOK', ParentLets PROVE LagrangeInv'
<1> USE Loop, LagrangeAssumption DEF LagrangeInv
<1>1. /\ main = "let" /\ main' = "yielded" /\ index' = index
      /\ index \in Children /\ round' = round /\ usr2' = usr2
      /\ usr1' = usr1 \cup {index} /\ UNCHANGED <<child, turn, file>>
  BY DEF ParentLets, childVars, LagrangeTypeOK
<1>2. /\ usr1 = {} /\ ~ usr2 /\ child[index] = "asleep"
      /\ Calculates(index, round)
  BY <1>1 DEF WriteInv
<1>3. Turn'
  BY <1>1, <1>2 DEF Turn, Calculates
<1>4. \A c \in Children :
        /\ c < index => Written(c, round)'
        /\ c > index => Calculates(c, round)' /\ child'[c] = "asleep"
  <2>1. ASSUME NEW c \in Children, c # index
        PROVE  /\ Written(c, round) => Written(c, round)'
               /\ Calculates(c, round) => Calculates(c, round)'
    BY <1>1, <2>1 DEF Written, Calculates
  <2>2. QED
    BY <1>1, <2>1 DEF WriteInv
<1>5. WriteInv'
  BY <1>1, <1>3, <1>4 DEF WriteInv
<1>6. QED
  BY <1>1, <1>5 DEF ForkInv, GatherInv, WrittenInv, AwakeInv

LEMMA CalculatesStep ==
  ASSUME LagrangeInv, LagrangeTypeOK', ParentCalculates PROVE LagrangeInv'
<1> USE Loop, LagrangeAssumption DEF LagrangeInv
<1>1. /\ main = "error" /\ index' = index /\ index = 0 /\ round' = round
      /\ usr2' = usr2 /\ usr1' = usr1 /\ UNCHANGED <<child, turn, file>>
      /\ ~ usr2 /\ \A c \in Children : Written(c, round)
  BY DEF ParentCalculates, childVars, WrittenInv
<1>2. CASE round = 1
  <2>1. main' = "awake"
    BY <1>2 DEF ParentCalculates
  <2>2. \A c \in Children : Written(c, 1)'
    BY <1>1, <1>2, ChildrenStand
  <2>3. ~ usr2' /\ round' = 1 /\ index' = 0
    BY <1>1, <1>2
  <2>4. AwakeInv'
    BY <2>1, <2>2, <2>3 DEF AwakeInv
  <2>5. QED
    BY <2>1, <2>4 DEF ForkInv, GatherInv, WriteInv, WrittenInv
<1>3. CASE round # 1
  <2>1. main' = "reap" /\ round = 2
    BY <1>3 DEF ParentCalculates, LagrangeTypeOK
  <2>2. WrittenInv'
    BY <1>1, <2>1, ChildrenStand DEF WrittenInv
  <2>3. QED
    BY <2>1, <2>2 DEF ForkInv, GatherInv, WriteInv, AwakeInv
<1>4. QED  BY <1>2, <1>3

\* A report of the second round may come before the parent counts them; it
\* is then still pending.
LEMMA AwakesStep ==
  ASSUME LagrangeInv, LagrangeTypeOK', ParentAwakes PROVE LagrangeInv'
<1> USE Loop, LagrangeAssumption DEF LagrangeInv
<1>1. /\ main = "awake" /\ index \in Children /\ usr2' = usr2 /\ round = 1
      /\ usr1' = usr1 \cup {index} /\ UNCHANGED <<child, turn, file>>
      /\ usr2 => Asleep # {}
  BY DEF ParentAwakes, childVars, LagrangeTypeOK, AwakeInv
<1>2. \A c \in Children :
        IF c < index THEN Calculates(c, 2) \/ ToldOfRound2(c)
                     ELSE Written(c, 1)
  BY <1>1 DEF AwakeInv
<1>3. \A c \in Children :
        /\ c <= index => Calculates(c, 2)' \/ ToldOfRound2(c)'
        /\ c > index => Written(c, 1)'
  BY <1>1, <1>2 DEF Calculates, ToldOfRound2, Written
<1>4. Asleep' = Asleep
  BY <1>1 DEF Asleep
<1>5. CASE index < N - 1
  <2>1. index' = index + 1 /\ main' = "awake" /\ round' = 1
    BY <1>1, <1>5 DEF ParentAwakes, Advance
  <2>2. AwakeInv'
    BY <1>1, <1>3, <1>4, <2>1 DEF AwakeInv
  <2>3. QED
    BY <2>1, <2>2 DEF ForkInv, GatherInv, WriteInv, WrittenInv
<1>6. CASE ~ (index < N - 1)
  <2>1. index = N - 1
    BY <1>1, <1>6
  <2>2. /\ index' = 0 /\ main' = "suspended"
        /\ round' = 2 /\ handled_signals' = 0
    BY <1>6, <2>1 DEF ParentAwakes, Advance
  <2>3. \A c \in Children : c <= index
    BY <1>1, <2>1
  <2>4. HandledBehind'
    BY <1>1, <1>4, <2>2, AsleepCount DEF HandledBehind
  <2>5. GatherInv'
    BY <1>3, <2>2, <2>3, <2>4 DEF GatherInv
  <2>6. QED
    BY <2>2, <2>5 DEF ForkInv, WriteInv, WrittenInv, AwakeInv
<1>7. QED  BY <1>5, <1>6

LEMMA ReapsStep ==
  ASSUME LagrangeInv, LagrangeTypeOK', ParentReaps PROVE LagrangeInv'
<1> USE DEF LagrangeInv
<1>1. /\ main = "reap" /\ round' = round /\ usr2' = usr2 /\ usr1' = usr1
      /\ UNCHANGED <<child, turn, file>> /\ main' \in {"reap", "ended"}
  BY DEF ParentReaps, Advance, childVars
<1>2. WrittenInv'
  BY <1>1, ChildrenStand DEF WrittenInv
<1>3. QED
  BY <1>1, <1>2 DEF ForkInv, GatherInv, WriteInv, AwakeInv

-------------------------------------------------------------------------------
\* The steps of a child.  What the invariant says of the others stands.
LEMMA OthersStand ==
  ASSUME LagrangeTypeOK, NEW c \in Children, NEW d \in Children, d # c,
         NEW point, child' = [child EXCEPT ![c] = point],
         turn'[d] = turn[d], file'[d] = file[d], d \in usr1' <=> d \in usr1
  PROVE  /\ child'[d] = child[d]
         /\ \A r : Calculates(d, r)' <=> Calculates(d, r)
         /\ \A r : Written(d, r)' <=> Written(d, r)
         /\ \A from : Starts(d, from)' <=> Starts(d, from)
         /\ ToldOfRound2(d)' <=> ToldOfRound2(d)
  BY DEF LagrangeTypeOK, Calculates, Written, Starts, ToldOfRound2

\* A child is at the file to write only in its turn.
LEMMA WritesInTurn ==
  ASSUME LagrangeInv, NEW c \in Children,
         child[c] \in {"add", "store", "wrote"}
  PROVE  main = "yielded" /\ c = index
<1> USE Loop DEF LagrangeInv
<1>1. /\ \A r : ~ Calculates(c, r) /\ ~ Written(c, r)
      /\ ~ Starts(c, "read") /\ ~ Starts(c, "unborn") /\ ~ ToldOfRound2(c)
      /\ index \in Children
  BY DEF LagrangeTypeOK, Calculates, Written, Starts, ToldOfRound2
<1>2. main \notin {"fork", "suspended", "test", "awake"}
  BY <1>1 DEF ForkInv, GatherInv, AwakeInv
<1>3. main \notin {"error", "reap", "ended"}
  BY <1>1 DEF WrittenInv
<1>4. main \in {"let", "yielded"}
  BY <1>2, <1>3 DEF LagrangeTypeOK, MainPoints
<1>5. c = index
  BY <1>1, <1>4 DEF WriteInv
<1>6. QED
  BY <1>4, <1>5 DEF WriteInv

\* A child that is about to report is not among those the parent lets write.
LEMMA ReadyPlaces ==
  ASSUME LagrangeInv, NEW c \in Children, child[c] \in {"read", "ready"}
  PROVE  main \in {"fork", "suspended", "test", "awake"}
<1> USE Loop DEF LagrangeInv
<1>1. \A r : ~ Written(c, r)
  BY DEF Written
<1>2. main \notin {"error", "reap", "ended"}
  BY <1>1 DEF WrittenInv
<1>3. main \notin {"let", "yielded"}
  <2>1. CASE c = index
    BY <2>1 DEF WriteInv, Turn, Written
  <2>2. CASE c # index
    <3>1. c \in Nat /\ index \in Nat
      BY DEF LagrangeTypeOK
    <3>2. c < index \/ c > index
      BY ONLY <2>2, <3>1
    <3>3. QED
      BY <1>1, <3>2 DEF WriteInv
  <2>3. QED  BY <2>1, <2>2
<1>4. QED
  BY <1>2, <1>3 DEF LagrangeTypeOK, MainPoints

LEMMA ReadsStep ==
  ASSUME LagrangeInv, LagrangeTypeOK', NEW c \in Children, ChildReads(c)
  PROVE  LagrangeInv'
<1> USE Loop DEF LagrangeInv
<1>1. /\ child[c] = "read" /\ child' = [child EXCEPT ![c] = "ready"]
      /\ UNCHANGED <<main, index, round, handled_signals, usr2, usr1, turn, file>>
  BY DEF ChildReads, Goes
<1>2. \A d \in Children \ {c} :
        /\ \A r : Calculates(d, r)' <=> Calculates(d, r)
        /\ \A r : Written(d, r)' <=> Written(d, r)
        /\ \A from : Starts(d, from)' <=> Starts(d, from)
        /\ ToldOfRound2(d)' <=> ToldOfRound2(d)
  BY <1>1, OthersStand
<1>3. /\ Starts(c, "read") => Calculates(c, 1)'
      /\ \A r : ~ Calculates(c, r) /\ ~ Written(c, r)
      /\ ~ ToldOfRound2(c) /\ ~ Starts(c, "unborn")
  BY <1>1 DEF LagrangeTypeOK, Starts, Calculates, Written, ToldOfRound2
<1>4. Asleep' = Asleep
  BY <1>1, SameSleepers DEF LagrangeTypeOK
<1>5. HandledBehind' <=> HandledBehind
  BY <1>1, <1>4 DEF HandledBehind
<1>6. main \in {"fork", "suspended", "test"}
  <2>1. index \in Children
    BY DEF LagrangeTypeOK
  <2>2. main # "awake"
    BY <2>1, <1>3 DEF AwakeInv
  <2>3. QED
    BY <1>1, <2>2, ReadyPlaces
<1>7. CASE main = "fork"
  <2>1. ForkInv'
    BY <1>1, <1>2, <1>3, <1>5, <1>7 DEF ForkInv
  <2>2. QED
    BY <1>1, <1>7, <2>1 DEF GatherInv, WriteInv, WrittenInv, AwakeInv
<1>8. CASE main \in {"suspended", "test"}
  <2>1. GatherInv'
    BY <1>1, <1>2, <1>3, <1>5, <1>8 DEF GatherInv
  <2>2. QED
    BY <1>1, <1>8, <2>1 DEF ForkInv, WriteInv, WrittenInv, AwakeInv
<1>9. QED  BY <1>6, <1>7, <1>8

\* One more sleeper for a signal that becomes pending, or is merged.
LEMMA ReportsStep ==
  ASSUME LagrangeInv, LagrangeTypeOK', NEW c \in Children, ChildReports(c)
  PROVE  LagrangeInv'
<1> USE Loop DEF LagrangeInv
<1>1. /\ child[c] = "ready" /\ child' = [child EXCEPT ![c] = "asleep"] /\ usr2'
      /\ UNCHANGED <<main, index, round, handled_signals, usr1, turn, file>>
  BY DEF ChildReports, Goes, TellsParent
<1>2. \A d \in Children \ {c} :
        /\ \A r : Calculates(d, r)' <=> Calculates(d, r)
        /\ \A r : Written(d, r)' <=> Written(d, r)
        /\ \A from : Starts(d, from)' <=> Starts(d, from)
        /\ ToldOfRound2(d)' <=> ToldOfRound2(d)
  BY <1>1, OthersStand
<1>3. /\ \A r : Calculates(c, r) => Calculates(c, r)'
      /\ \A r : ~ Written(c, r)
      /\ ~ Starts(c, "read") /\ ~ Starts(c, "unborn") /\ ~ ToldOfRound2(c)
  BY <1>1 DEF LagrangeTypeOK, Starts, Calculates, Written, ToldOfRound2
<1>4. HandledBehind => HandledBehind'
  BY <1>1, ReportCounts, AsleepCount DEF HandledBehind, LagrangeTypeOK
<1>5. CASE main = "fork"
  <2>1. \A d \in Children :
          IF d < index THEN Starts(d, "read")' \/ Calculates(d, 1)'
                       ELSE Starts(d, "unborn")'
    BY <1>2, <1>3, <1>5 DEF ForkInv
  <2>2. ForkInv'
    BY <1>1, <1>4, <1>5, <2>1 DEF ForkInv
  <2>3. QED
    BY <1>1, <1>5, <2>2 DEF GatherInv, WriteInv, WrittenInv, AwakeInv
<1>6. CASE main \in {"suspended", "test"}
  <2>1. GatherInv'
    BY <1>1, <1>2, <1>3, <1>4, <1>6 DEF GatherInv
  <2>2. QED
    BY <1>1, <1>6, <2>1 DEF ForkInv, WriteInv, WrittenInv, AwakeInv
<1>7. CASE main = "awake"
  <2>1. c \in Asleep'
    BY <1>1 DEF Asleep, LagrangeTypeOK
  <2>2. AwakeInv'
    BY <1>1, <1>2, <1>3, <1>7, <2>1 DEF AwakeInv
  <2>3. QED
    BY <1>1, <1>7, <2>2 DEF ForkInv, GatherInv, WriteInv, WrittenInv
<1>8. QED  BY <1>1, <1>5, <1>6, <1>7, ReadyPlaces

\* SIGUSR1 is pending for the child whose turn it is, or for one that is told
\* of the second round.
LEMMA ToldPlaces ==
  ASSUME LagrangeInv, NEW c \in Children, c \in usr1
  PROVE  \/ main = "yielded" /\ c = index /\ child[c] = "asleep"
         \/ main \in {"suspended", "test", "awake"} /\ ToldOfRound2(c)
<1> USE Loop DEF LagrangeInv
<1>1. /\ \A r : ~ Calculates(c, r) /\ ~ Written(c, r)
      /\ ~ Starts(c, "read") /\ ~ Starts(c, "unborn") /\ index \in Children
  BY DEF LagrangeTypeOK, Calculates, Written, Starts
<1>2. main \notin {"fork", "let", "error", "reap", "ended"}
  BY <1>1 DEF ForkInv, WrittenInv, WriteInv
<1>3. main = "awake" => ToldOfRound2(c)
  BY <1>1 DEF AwakeInv
<1>4. main \in {"suspended", "test"} => ToldOfRound2(c)
  BY <1>1 DEF GatherInv
<1>5. main = "yielded" => c = index /\ child[c] = "asleep"
  BY DEF WriteInv, Turn, Written
<1>6. QED
  BY <1>2, <1>3, <1>4, <1>5 DEF LagrangeTypeOK, MainPoints

LEMMA WakesStep ==
  ASSUME LagrangeInv, LagrangeTypeOK', NEW c \in Children, ChildWakes(c)
  PROVE  LagrangeInv'
<1> USE Loop DEF LagrangeInv
<1>1. /\ c \in usr1 /\ usr1' = usr1 \ {c}
      /\ UNCHANGED <<main, index, round, handled_signals, usr2, file>>
  BY DEF ChildWakes
<1>2. CASE main = "yielded"
  <2>1. /\ c = index /\ child[c] = "asleep" /\ usr1 = {c} /\ ~ usr2
        /\ turn[c] = round /\ file[c] = round - 1
    BY <1>1, <1>2, ToldPlaces DEF WriteInv, Turn, Written
  <2>2. child' = [child EXCEPT ![c] = "add"] /\ turn' = turn
    BY <2>1 DEF ChildWakes, Goes
  <2>3. Turn'
    BY <1>1, <2>1, <2>2 DEF Turn, LagrangeTypeOK
  <2>4. ASSUME NEW d \in Children, d # c
        PROVE  /\ d < index => Written(d, round)'
               /\ d > index => Calculates(d, round)' /\ child'[d] = "asleep"
    BY <1>1, <1>2, <2>2, <2>4, OthersStand DEF WriteInv
  <2>5. index \in Nat
    BY DEF LagrangeTypeOK
  <2>6. WriteInv'
    BY <1>1, <1>2, <2>1, <2>3, <2>4, <2>5 DEF WriteInv
  <2>7. QED
    BY <1>1, <1>2, <2>6 DEF ForkInv, GatherInv, WrittenInv, AwakeInv
<1>3. CASE main \in {"suspended", "test", "awake"} /\ ToldOfRound2(c)
  <2>1. /\ child[c] = "rest" /\ child' = [child EXCEPT ![c] = "ready"]
        /\ turn' = [turn EXCEPT ![c] = 2] /\ file[c] = 1
    BY <1>3 DEF ChildWakes, Goes, ToldOfRound2
  <2>2. \A d \in Children \ {c} :
          /\ \A r : Calculates(d, r)' <=> Calculates(d, r)
          /\ \A r : Written(d, r)' <=> Written(d, r)
          /\ \A from : Starts(d, from)' <=> Starts(d, from)
          /\ ToldOfRound2(d)' <=> ToldOfRound2(d)
    <3>1. \A d \in Children \ {c} : turn'[d] = turn[d]
      BY <2>1 DEF LagrangeTypeOK
    <3>2. QED
      BY <1>1, <2>1, <3>1, OthersStand
  <2>3. /\ Calculates(c, 2)' /\ \A r : ~ Calculates(c, r)
        /\ ~ Starts(c, "read")
    BY <1>1, <2>1 DEF Calculates, Starts, LagrangeTypeOK
  <2>4. Asleep' = Asleep
    BY <2>1, SameSleepers DEF LagrangeTypeOK
  <2>5. CASE main \in {"suspended", "test"}
    <3>1. round = 2 /\ HandledBehind'
      BY <1>1, <2>3, <2>4, <2>5 DEF GatherInv, HandledBehind
    <3>2. GatherInv'
      BY <1>1, <2>2, <2>3, <2>5, <3>1 DEF GatherInv
    <3>3. QED
      BY <1>1, <2>5, <3>2 DEF ForkInv, WriteInv, WrittenInv, AwakeInv
  <2>6. CASE main = "awake"
    <3>1. c < index
      BY <1>1, <2>6 DEF AwakeInv, Written
    <3>2. AwakeInv'
      BY <1>1, <2>2, <2>3, <2>4, <2>6, <3>1 DEF AwakeInv
    <3>3. QED
      BY <1>1, <2>6, <3>2 DEF ForkInv, GatherInv, WriteInv, WrittenInv
  <2>7. QED  BY <1>3, <2>5, <2>6
<1>4. QED  BY <1>1, <1>2, <1>3, ToldPlaces

\* What a child does in its turn, others aside.
LEMMA TurnGoesOn ==
  ASSUME LagrangeInv, main = "yielded", Turn', NEW point,
         NEW c \in Children, c = index,
         child' = [child EXCEPT ![c] = point],
         UNCHANGED <<main, index, round, turn, usr1>>,
         \A d \in Children \ {c} : file'[d] = file[d]
  PROVE  ForkInv' /\ GatherInv' /\ WriteInv' /\ WrittenInv' /\ AwakeInv'
<1> USE Loop DEF LagrangeInv
<1>1. ASSUME NEW d \in Children, d # c
      PROVE  /\ d < index => Written(d, round)'
             /\ d > index => Calculates(d, round)' /\ child'[d] = "asleep"
  BY <1>1, OthersStand DEF WriteInv
<1>2. index \in Nat
  BY DEF LagrangeTypeOK
<1>3. WriteInv'
  BY <1>1, <1>2 DEF WriteInv
<1>4. QED
  BY <1>3 DEF ForkInv, GatherInv, WrittenInv, AwakeInv

LEMMA TurnStep ==
  ASSUME LagrangeInv, LagrangeTypeOK', NEW c \in Children,
         ChildCopies(c) \/ ChildStores(c) \/ ChildTellsWritten(c)
  PROVE  LagrangeInv'
<1> USE DEF LagrangeInv
<1>1. main = "yielded" /\ c = index
  BY WritesInTurn DEF ChildCopies, ChildStores, ChildTellsWritten, Goes
<1>2. Turn
  BY <1>1 DEF WriteInv
<1>3. CASE ChildCopies(c)
  <2>1. /\ child[c] = "add" /\ child' = [child EXCEPT ![c] = "store"]
        /\ file_content' = [file_content EXCEPT ![c] = file]
        /\ UNCHANGED <<main, index, round, usr2, usr1, turn, file>>
    BY <1>3 DEF ChildCopies, Goes
  <2>2. Turn'
    BY <1>1, <1>2, <2>1 DEF Turn, Written, LagrangeTypeOK
  <2>3. QED
    BY <1>1, <2>1, <2>2, TurnGoesOn
<1>4. CASE ChildStores(c)
  <2>1. /\ child[c] = "store" /\ child' = [child EXCEPT ![c] = "wrote"]
        /\ file' = [file_content[c] EXCEPT ![c] = @ + 1]
        /\ UNCHANGED <<main, index, round, usr2, usr1, turn>>
    BY <1>4 DEF ChildStores, Goes
  <2>2. /\ file_content[c] = file /\ turn[c] = round /\ file[c] = round - 1
        /\ usr1 = {} /\ ~ usr2
    BY <1>1, <1>2, <2>1 DEF Turn, Written
  <2>3. file' = [file EXCEPT ![c] = round]
    BY <2>1, <2>2 DEF LagrangeTypeOK
  <2>4. Turn'
    BY <1>1, <2>1, <2>2, <2>3 DEF Turn, LagrangeTypeOK
  <2>5. \A d \in Children \ {c} : file'[d] = file[d]
    BY <2>3 DEF LagrangeTypeOK
  <2>6. QED
    BY <1>1, <2>1, <2>4, <2>5, TurnGoesOn
<1>5. CASE ChildTellsWritten(c)
  <2>1. /\ child[c] = "wrote" /\ usr2'
        /\ child' = [child EXCEPT ![c] = IF turn[c] = 1 THEN "rest" ELSE "exited"]
        /\ UNCHANGED <<main, index, round, usr1, turn, file>>
    BY <1>5 DEF ChildTellsWritten, Goes, TellsParent
  <2>2. turn[c] = round /\ file[c] = round /\ usr1 = {}
    BY <1>1, <1>2, <2>1 DEF Turn, Written
  <2>3. Written(c, round)'
    BY <2>1, <2>2 DEF Written, LagrangeTypeOK
  <2>4. Turn'
    BY <1>1, <2>1, <2>2, <2>3 DEF Turn
  <2>5. QED
    BY <1>1, <2>1, <2>4, TurnGoesOn
<1>6. QED  BY <1>3, <1>4, <1>5

-------------------------------------------------------------------------------
LEMMA LagrangeInvStep ==
  LagrangeInv /\ [LagrangeNext]_lagrangeVars => LagrangeInv'
<1> SUFFICES ASSUME LagrangeInv, [LagrangeNext]_lagrangeVars PROVE LagrangeInv'
  OBVIOUS
<1>1. CASE UNCHANGED lagrangeVars
  BY <1>1
     DEF lagrangeVars, LagrangeInv, LagrangeTypeOK, ForkInv, GatherInv,
         WriteInv, WrittenInv, AwakeInv, HandledBehind, Asleep, Turn, Starts,
         Calculates, Written, ToldOfRound2
<1>2. CASE LagrangeNext
  <2>1. LagrangeTypeOK'
    BY <1>2, LagrangeTypeStep DEF LagrangeInv
  <2>2. CASE Parent
    BY <2>1, <2>2, ForksStep, HandlesStep, TestsStep, LetsStep, CalculatesStep,
       AwakesStep, ReapsStep DEF Parent
  <2>3. ASSUME NEW c \in Children, Child(c) PROVE LagrangeInv'
    BY <2>1, <2>3, ReadsStep, ReportsStep, WakesStep, TurnStep DEF Child
  <2>4. QED  BY <1>2, <2>2, <2>3 DEF LagrangeNext
<1>3. QED  BY <1>1, <1>2

LEMMA LagrangeInvHolds == LagrangeSpec => []LagrangeInv
  BY LagrangeInvInit, LagrangeInvStep, PTL DEF LagrangeSpec

\* Whoever is in add_num() is the only process at the file: the one the parent
\* waits for.
THEOREM OneProcessAtTheFile == LagrangeSpec => []WriterAlone
<1>1. LagrangeInv => WriterAlone
  <2> SUFFICES ASSUME LagrangeInv, Writing # {} PROVE
        /\ Cardinality(Writing) = 1 /\ Reading = {}
        /\ main = "yielded" /\ Writing = {index}
    BY DEF WriterAlone
  <2>1. main = "yielded" /\ Writing = {index}
    BY WritesInTurn DEF Writing
  <2>2. Cardinality(Writing) = 1
    BY <2>1, FS_Singleton
  <2>3. Reading = {}
    BY <2>1, ReadyPlaces DEF Reading
  <2>4. QED  BY <2>1, <2>2, <2>3
<1>2. QED  BY <1>1, LagrangeInvHolds, PTL

\* The parent computes an error only when the round's number, and no other, is
\* on every line.
THEOREM ErrorsAreOfWholeRounds == LagrangeSpec => []ErrorOfWholeRound
<1>1. LagrangeInv => ErrorOfWholeRound
  BY DEF LagrangeInv, WrittenInv, Written, ErrorOfWholeRound
<1>2. QED  BY <1>1, LagrangeInvHolds, PTL
===============================================================================
