--------------------------- MODULE SessionsProofs ---------------------------
(***************************************************************************)
(* That the file of the single instance does its work, for any number of   *)
(* servers and clients: a second server does not start beside another      *)
(* unless both have looked for the file in the same moment, or the other   *)
(* has removed it and waits for its threads; and the file is there exactly *)
(* from its creation to its removal, but for races and for ends other than *)
(* by SIGINT.                                                              *)
(*                                                                         *)
(* And that a client prints the lines of its queries in order, none twice  *)
(* or missing, as long as its queries are read whole.  The invariant       *)
(* TalkInv follows a query through the stream, the thread, and back: as    *)
(* long as the connection is open it is at one of these places, and the    *)
(* lines that are on the way are those between what has been printed and   *)
(* what the thread has written.                                            *)
(***************************************************************************)
EXTENDS Sessions, DataTheorems

-------------------------------------------------------------------------------
(* The queries of a client *)

LinesOf(c) == {i \in DOMAIN QueryLines : Owner(i) = c}

\* A client has some number of queries, each answered in some number of lines.
LEMMA RowsTyped ==
  \A c \in Clients : /\ Len(get_queries[c]) \in Nat
                     /\ Rows[c] \in [1 .. Len(get_queries[c]) -> Nat]
<1> SUFFICES ASSUME NEW c \in Clients
             PROVE  /\ Len(get_queries[c]) \in Nat
                    /\ Rows[c] \in [1 .. Len(get_queries[c]) -> Nat]
  OBVIOUS
<1> DEFINE T == LinesOf(c)
           q == get_queries[c]
<1>1. /\ Len(QueryLines) \in Nat /\ DOMAIN QueryLines = 1 .. Len(QueryLines)
      /\ \A i \in DOMAIN QueryLines : QueryLines[i].rows \in Nat
  <2>1. QueryLines \in Seq([id : STRING, rows : Nat])
    BY SessionAssumption
  <2>2. \A i \in 1 .. Len(QueryLines) : QueryLines[i] \in [id : STRING, rows : Nat]
    BY <2>1, ElementOfSeq
  <2>3. QED  BY <2>1, <2>2
<1>2. T \in SUBSET (1 .. Len(QueryLines)) /\ T \in SUBSET Int /\ IsFiniteSet(T)
  <2>1. IsFiniteSet(1 .. Len(QueryLines))
    BY <1>1, FS_Interval
  <2>2. QED  BY <1>1, <2>1, FS_Subset DEF LinesOf
<1>3. q = [k \in 1 .. Cardinality(T) |-> QueryLines[Nth(T, k)]]
  BY DEF get_queries, Kept, LinesOf
<1>4. Cardinality(T) \in Nat /\ \A k \in 1 .. Cardinality(T) : Nth(T, k) \in T
  <2> HIDE DEF T
  <2>1. QED  BY <1>2, NthCounts
<1> HIDE DEF T
<1>5. Len(q) = Cardinality(T) /\ DOMAIN q = 1 .. Cardinality(T)
  BY <1>3, <1>4
<1>6. ASSUME NEW k \in 1 .. Cardinality(T) PROVE q[k].rows \in Nat
  BY <1>1, <1>2, <1>3, <1>4
<1>7. Rows[c] = [k \in DOMAIN q |-> q[k].rows]
  BY DEF Rows
<1> HIDE DEF q
<1>8. Rows[c] \in [1 .. Cardinality(T) -> Nat]
  BY <1>5, <1>6, <1>7
<1>9. QED  BY <1>4, <1>5, <1>8 DEF q

-------------------------------------------------------------------------------
(* The file of the single instance *)

Phases == {"off", "checked", "created", "running", "interrupted", "draining",
           "leaving", "ended"}

\* The phase of each server, as the file's invariant needs it.
PhaseOK == phase \in [Servers -> Phases]

\* The strengthening: without a race no server that has looked for the file
\* and is about to create it stands beside one that holds it.
NobodyAboutToJoin ==
  ~ raced => \A s, t \in Servers : Holding(s) => phase[t] # "checked"

FileInv == /\ PhaseOK
           /\ OneServerButParting /\ FileFollowsServer
           /\ NobodyAboutToJoin

\* Only a server's own step, or the death of its process in a thread of one of
\* its connections, changes anything the invariant speaks of.
instanceVars == <<temp_file, phase, raced, left>>

LEMMA FileInit == SessionInit => FileInv
  BY DEF SessionInit, FileInv, PhaseOK, Phases, OneServerButParting,
         FileFollowsServer, NobodyAboutToJoin, Up, Holding, Parting

\* A process that dies had been running, or had removed the file; the file it
\* leaves counts as left.
LEMMA DyingKeepsInv ==
  ASSUME FileInv, NEW s \in Servers, Alive(s), Dies(s)
  PROVE  FileInv'
<1> USE DEF FileInv, PhaseOK, Phases
<1>1. PhaseOK'
  BY DEF Dies
<1>2. \A t \in Servers : Holding(t)' => Holding(t) /\ phase'[t] = phase[t]
  BY DEF Dies, Up, Holding, Parting
<1>3. OneServerButParting' /\ NobodyAboutToJoin'
  BY <1>2 DEF Dies, OneServerButParting, NobodyAboutToJoin, Up, Holding, Parting
<1>4. FileFollowsServer'
  <2>1. CASE phase[s] = "draining"
    BY <2>1, <1>2 DEF Dies, FileFollowsServer, Up, Holding, Parting
  <2>2. CASE phase[s] # "draining"
    BY <2>2, <1>2 DEF Dies, FileFollowsServer, Up, Holding, Parting
  <2>3. QED  BY <2>1, <2>2
<1>5. QED  BY <1>1, <1>3, <1>4

\* The steps of a server, one by one.
LEMMA ServerKeepsInv ==
  ASSUME FileInv, NEW s \in Servers, Server(s)
  PROVE  FileInv'
<1> USE DEF FileInv, PhaseOK, Phases, OneServerButParting, FileFollowsServer,
            NobodyAboutToJoin, Up, Holding, Parting, Goes, fileVars
<1>1. CASE Checks(s)
  BY <1>1 DEF Checks
<1>2. CASE Refused(s)
  BY <1>2 DEF Refused
<1>3. CASE Creates(s)
  BY <1>3 DEF Creates
<1>4. CASE Listens(s)
  BY <1>4 DEF Listens
<1>5. CASE StartFails(s)
  BY <1>5 DEF StartFails
<1>6. CASE RemovesEarly(s)
  BY <1>6 DEF RemovesEarly
<1>7. CASE Interrupted(s)
  BY <1>7 DEF Interrupted
<1>8. CASE RemovesFile(s)
  BY <1>8 DEF RemovesFile
<1>9. CASE Ends(s)
  BY <1>9 DEF Ends
<1>10. QED
  BY <1>1, <1>2, <1>3, <1>4, <1>5, <1>6, <1>7, <1>8, <1>9 DEF Server

\* A step on a connection leaves the file and the servers alone, or is the end
\* of the server it is connected to.
LEMMA ConnectionKeepsInv ==
  ASSUME FileInv, NEW c \in Clients, Session(c) \/ Leaves(c)
  PROVE  FileInv'
<1>1. ASSUME UNCHANGED instanceVars PROVE FileInv'
  BY <1>1 DEF instanceVars, FileInv, PhaseOK, OneServerButParting,
              FileFollowsServer, NobodyAboutToJoin, Up, Holding, Parting
<1>2. ASSUME Alive(server[c]), Dies(server[c]) PROVE FileInv'
  BY <1>2, DyingKeepsInv DEF Alive
<1>3. \/ UNCHANGED instanceVars
      \/ Alive(server[c]) /\ Dies(server[c])
  <2>1. CASE Accepts(c)
    BY <2>1 DEF Accepts, fileVars, instanceVars
  <2>2. CASE Thread(c)
    BY <2>2 DEF Thread, ReadsQuery, ReadsGarbled, ReadsReset, ReadsEof, SendsLine,
                SendsZero, SendsOther, RunsOn, Does, Open, Writes, fileVars,
                instanceVars
  <2>3. CASE Arrives(c)
    BY <2>3 DEF Arrives, fileVars, serverVars, instanceVars
  <2>4. CASE Client(c)
    BY <2>4 DEF Client, Connects, Sends, Finishes, ReadsLine, SeesEnd, To,
                fileVars, serverVars, instanceVars
  <2>5. CASE Leaves(c)
    BY <2>5 DEF Leaves, To, fileVars, serverVars, instanceVars
  <2>6. QED
    BY <2>1, <2>2, <2>3, <2>4, <2>5 DEF Session
<1>4. QED  BY <1>1, <1>2, <1>3

LEMMA FileStep == FileInv /\ [SessionNext]_sessionVars => FileInv'
<1> SUFFICES ASSUME FileInv, [SessionNext]_sessionVars PROVE FileInv'
  OBVIOUS
<1>1. CASE UNCHANGED sessionVars
  BY <1>1 DEF sessionVars, FileInv, PhaseOK, OneServerButParting,
              FileFollowsServer, NobodyAboutToJoin, Up, Holding, Parting
<1>2. CASE \E s \in Servers : Server(s)
  BY <1>2, ServerKeepsInv
<1>3. CASE \E c \in Clients : Session(c) \/ Leaves(c)
  BY <1>3, ConnectionKeepsInv
<1>4. QED  BY <1>1, <1>2, <1>3 DEF SessionNext

LEMMA FileInvHolds == SessionSpec => []FileInv
  BY FileInit, FileStep, PTL DEF SessionSpec

\* server.c:78-90, 240: whatever servers are started, interrupted or ended by a
\* thread, two processes are up together only if both had looked before one
\* created the file, or one of them has been interrupted and removed it.
THEOREM SingleInstance == SessionSpec => []OneServerButParting
  BY FileInvHolds, PTL DEF FileInv

\* server.c:85-90, 240: the file follows the server, so that a server that was
\* ended by SIGINT can be started again.
THEOREM FileIsKept == SessionSpec => []FileFollowsServer
  BY FileInvHolds, PTL DEF FileInv

-------------------------------------------------------------------------------
(* The responses: the invariant *)

Talkers == {"nothing", "read", "respond", "garbled", "freed"}
ClientPoints == {"start", "send", "response", "done", "gone", "astray", "repeats"}

SessionTypeOK ==
  /\ PhaseOK
  /\ nth \in [Clients -> Nat] /\ accepted \in [Servers -> Nat]
  /\ pc \in [Clients -> ClientPoints]
  /\ server \in [Clients -> Servers \cup {NoServer}]
  /\ asked \in [Clients -> Nat]
  /\ toServer \in [Clients -> Seq(Nat)]
  /\ wire \in [Clients -> Seq(Nat \X Nat)]
  /\ inbox \in [Clients -> Seq([line : Nat \X Nat, whole : BOOLEAN])]
  /\ thread \in [Clients -> [does : Talkers, query : Nat, row : Nat]]
  /\ printed \in [Clients -> Seq(Nat \X Nat)]

\* A client is connected to a server that has come to listen; it has a thread
\* from accept() on.
Connected(c) ==
  /\ asked[c] <= Len(get_queries[c])
  /\ server[c] # NoServer =>
       phase[server[c]] \in {"running", "interrupted", "draining", "ended"}
  /\ thread[c].does # "nothing" => nth[c] # 0

\* A client has printed, in order, all lines of its first k - 1 queries and j
\* of the kth.
PrintedUpTo(c, p, k, j) ==
  /\ \A i, l \in DOMAIN p : i < l => Before(p[i], p[l])
  /\ {p[i] : i \in DOMAIN p} = AllLines(c, k - 1) \cup {<<k, i>> : i \in 1 .. j}

\* ... and nothing of those that it has not asked.
Prefix(c, p, n) ==
  \E k \in 1 .. n + 1, j \in Nat :
    /\ PrintedUpTo(c, p, k, j)
    /\ IF k = n + 1 THEN j = 0 ELSE j <= Rows[c][k]

PrintedAll(c) == PrintedUpTo(c, printed[c], asked[c] + 1, 0)

Silent(c) == wire[c] = <<>> /\ inbox[c] = <<>>

\* The mth line of the response to query k, the zero after the last.
NthLine(c, k, m) == IF m <= Rows[c][k] THEN <<k, m>> ELSE NoLine

\* After the jth line, a lines of the response to query k have arrived in whole
\* in the inbox b, the next perhaps in part; the others are on the wire w.
Coming(c, k, w, b, j, a) ==
  /\ j <= Rows[c][k] /\ j + a + Len(w) <= Rows[c][k] + 1
  /\ \A i \in 1 .. a : b[i] = [line |-> NthLine(c, k, j + i), whole |-> TRUE]
  /\ \A i \in 1 .. Len(w) : w[i] = NthLine(c, k, j + a + i)
  /\ \/ Len(b) = a
     \/ /\ Len(b) = a + 1 /\ Len(w) > 0 /\ j + a + 1 <= Rows[c][k]
        /\ b[a + 1] = [line |-> NthLine(c, k, j + a + 1), whole |-> FALSE]

\* The query is with the server, or m lines have been sent, or all and the zero.
Turn(c, m) ==
  \/ /\ toServer[c] = <<asked[c]>> /\ thread[c].does \in {"nothing", "read"}
     /\ m = 0
  \/ /\ toServer[c] = <<>> /\ thread[c].does = "respond"
     /\ thread[c].query = asked[c] /\ thread[c].row = m
     /\ m <= Rows[c][asked[c]]
  \/ /\ toServer[c] = <<>> /\ thread[c].does = "read"
     /\ m = Rows[c][asked[c]] + 1

Fresh(c) ==
  pc[c] = "start" => /\ asked[c] = 0 /\ printed[c] = <<>> /\ Silent(c)
                     /\ toServer[c] = <<>> /\ server[c] = NoServer
                     /\ thread[c].does = "nothing"

Asking(c) ==
  pc[c] = "send" => /\ Silent(c)
                    /\ Open(c) => /\ PrintedAll(c) /\ toServer[c] = <<>>
                                  /\ thread[c].does \in {"nothing", "read"}

Listening(c) ==
  pc[c] = "response" =>
    /\ asked[c] > 0
    /\ Open(c) \/ ~ Silent(c) =>
         \E j, a \in Nat :
           /\ PrintedUpTo(c, printed[c], asked[c], j)
           /\ Coming(c, asked[c], wire[c], inbox[c], j, a)
           /\ Open(c) => Turn(c, j + a + Len(wire[c]))

Talk(c) == /\ Connected(c)
           /\ Prefix(c, printed[c], asked[c])
           /\ Fresh(c) /\ Asking(c) /\ Listening(c)
           /\ pc[c] = "done" /\ Open(c) => PrintedAll(c)

\* The server has read the queries of a client whole so far.
Whole(c) == thread[c].does # "garbled"

TalkInv == /\ FileInv /\ SessionTypeOK
           /\ \A c \in Clients : IF Whole(c) THEN Talk(c) ELSE nth[c] # 0

-------------------------------------------------------------------------------
(* What has been printed *)

LEMMA AppendIs ==
  ASSUME NEW S, NEW s \in Seq(S), NEW x \in S
  PROVE  /\ Append(s, x) \in Seq(S) /\ Len(s) \in Nat
         /\ DOMAIN s = 1 .. Len(s)
         /\ DOMAIN Append(s, x) = 1 .. Len(s) + 1 /\ Len(Append(s, x)) = Len(s) + 1
         /\ \A i \in 1 .. Len(s) : Append(s, x)[i] = s[i]
         /\ Append(s, x)[Len(s) + 1] = x
  OBVIOUS

LEMMA TailIs ==
  ASSUME NEW S, NEW s \in Seq(S), s # <<>>
  PROVE  /\ Tail(s) \in Seq(S) /\ Head(s) \in S /\ Head(s) = s[1]
         /\ Len(s) \in Nat /\ Len(s) >= 1 /\ Len(Tail(s)) = Len(s) - 1
         /\ \A i \in 1 .. Len(s) - 1 : Tail(s)[i] = s[i + 1]
  OBVIOUS

LEMMA EmptyIs ==
  ASSUME NEW S, NEW s \in Seq(S), Len(s) = 0
  PROVE  s = <<>>
  OBVIOUS

LEMMA RowsIs ==
  ASSUME NEW c \in Clients, NEW k \in 1 .. Len(get_queries[c])
  PROVE  k \in Nat /\ k >= 1 /\ Rows[c][k] \in Nat
  BY RowsTyped

\* The lines of query k are in no earlier query and come after all of those.
LEMMA Earlier ==
  ASSUME NEW c \in Clients, NEW k \in 1 .. Len(get_queries[c]) + 1,
         NEW l \in AllLines(c, k - 1)
  PROVE  \E q \in 1 .. k - 1 : \E i \in 1 .. Rows[c][q] : l = <<q, i>>
  BY DEF AllLines

LEMMA NothingPrinted ==
  ASSUME NEW c \in Clients
  PROVE  PrintedUpTo(c, <<>>, 1, 0)
<1>1. AllLines(c, 1 - 1) = {}
  BY DEF AllLines
<1>2. {<<1, i>> : i \in 1 .. 0} = {}
  OBVIOUS
<1>3. DOMAIN <<>> = {} /\ {<<>>[i] : i \in DOMAIN <<>>} = {}
  OBVIOUS
<1>4. QED  BY <1>1, <1>2, <1>3 DEF PrintedUpTo

LEMMA OneMorePrinted ==
  ASSUME NEW c \in Clients, NEW k \in 1 .. Len(get_queries[c]),
         NEW j \in Nat, NEW p \in Seq(Nat \X Nat), PrintedUpTo(c, p, k, j)
  PROVE  PrintedUpTo(c, Append(p, <<k, j + 1>>), k, j + 1)
<1> DEFINE x == <<k, j + 1>>
           r == Append(p, x)
           New == {<<k, i>> : i \in 1 .. j + 1}
           Old == {<<k, i>> : i \in 1 .. j}
           PL == {p[i] : i \in DOMAIN p}
           RL == {r[i] : i \in DOMAIN r}
<1>0. /\ k \in Nat /\ k >= 1 /\ k \in 1 .. Len(get_queries[c]) + 1
      /\ x \in Nat \X Nat
  BY RowsTyped
<1>1. /\ Len(p) \in Nat /\ DOMAIN p = 1 .. Len(p) /\ DOMAIN r = 1 .. Len(p) + 1
      /\ \A i \in 1 .. Len(p) : r[i] = p[i]
      /\ r[Len(p) + 1] = x
  BY <1>0, AppendIs
<1>2. /\ \A i, l \in DOMAIN p : i < l => Before(p[i], p[l])
      /\ PL = AllLines(c, k - 1) \cup Old
  BY DEF PrintedUpTo
<1>3. ASSUME NEW l \in PL PROVE Before(l, x)
  <2>1. CASE l \in AllLines(c, k - 1)
    <3>1. PICK q \in 1 .. k - 1 : \E i \in 1 .. Rows[c][q] : l = <<q, i>>
      BY <2>1, Earlier, <1>0
    <3>2. q < k
      BY <1>0
    <3>3. QED  BY <3>1, <3>2 DEF Before
  <2>2. CASE l \in Old
    BY <2>2, <1>0 DEF Before
  <2>3. QED  BY <1>2, <1>3, <2>1, <2>2
<1>4. New = Old \cup {x}
  <2>1. \A i \in 1 .. j + 1 : i \in 1 .. j \/ i = j + 1
    OBVIOUS
  <2>2. \A i \in 1 .. j : i \in 1 .. j + 1
    OBVIOUS
  <2>3. j + 1 \in 1 .. j + 1
    OBVIOUS
  <2>4. QED  BY <2>1, <2>2, <2>3
<1> HIDE DEF x, r, New, Old
<1>5. RL = PL \cup {x}
  <2>1. ASSUME NEW i \in DOMAIN r PROVE r[i] \in PL \cup {x}
    <3>1. i \in 1 .. Len(p) \/ i = Len(p) + 1
      <4>1. Len(p) \in Nat /\ i \in 1 .. Len(p) + 1
        BY <1>1, Zenon
      <4>2. QED  BY <4>1
    <3>2. CASE i \in 1 .. Len(p)
      BY <1>1, <3>2, Zenon
    <3>3. CASE i = Len(p) + 1
      BY <1>1, <3>3, Zenon
    <3>4. QED  BY <3>1, <3>2, <3>3
  <2>2. ASSUME NEW i \in DOMAIN p PROVE p[i] \in RL
    <3>1. i \in DOMAIN r /\ r[i] = p[i]
      BY <1>1
    <3>2. QED  BY <3>1
  <2>3. x \in RL
    <3>1. Len(p) + 1 \in 1 .. Len(p) + 1
      <4>1. Len(p) \in Nat
        BY <1>1, Zenon
      <4>2. QED  BY <4>1
    <3>2. QED  BY <1>1, <3>1, Zenon
  <2>4. QED  BY <2>1, <2>2, <2>3
<1>6. ASSUME NEW i \in DOMAIN r, NEW l \in DOMAIN r, i < l
      PROVE  Before(r[i], r[l])
  <2>1. CASE l \in DOMAIN p
    <3>1. i \in DOMAIN p
      BY <1>1, <1>6, <2>1
    <3>2. QED  BY <1>1, <1>2, <1>6, <2>1, <3>1
  <2>2. CASE l \notin DOMAIN p
    <3>1. l = Len(p) + 1 /\ i \in DOMAIN p
      BY <1>1, <1>6, <2>2
    <3>2. r[l] = x /\ r[i] \in PL
      BY <1>1, <3>1
    <3>3. QED  BY <1>3, <3>2
  <2>3. QED  BY <2>1, <2>2
<1>7. RL = AllLines(c, k - 1) \cup New
  BY <1>2, <1>4, <1>5
<1>8. PrintedUpTo(c, r, k, j + 1)
  BY <1>6, <1>7 DEF PrintedUpTo, New
<1>9. QED  BY <1>8 DEF r, x

\* All lines of a query, and so all of the next one's predecessors.
LEMMA AllOfQuery ==
  ASSUME NEW c \in Clients, NEW k \in 1 .. Len(get_queries[c])
  PROVE  AllLines(c, k) = AllLines(c, k - 1) \cup {<<k, i>> : i \in 1 .. Rows[c][k]}
<1>0. k \in Nat /\ k >= 1
  BY RowsTyped
<1>1. 1 .. k = (1 .. k - 1) \cup {k}
  BY <1>0
<1>2. QED  BY <1>1 DEF AllLines

LEMMA QueryPrinted ==
  ASSUME NEW c \in Clients, NEW k \in 1 .. Len(get_queries[c]),
         NEW p, PrintedUpTo(c, p, k, Rows[c][k])
  PROVE  PrintedUpTo(c, p, k + 1, 0)
<1>1. (k + 1) - 1 = k /\ {<<k + 1, i>> : i \in 1 .. 0} = {}
  BY RowsTyped
<1>2. QED  BY <1>1, AllOfQuery DEF PrintedUpTo

\* What the invariant says of the lines printed is what was promised of them.
LEMMA PrefixIsRight ==
  ASSUME NEW c \in Clients, NEW n \in Nat, n <= Len(get_queries[c]), NEW p,
         Prefix(c, p, n)
  PROVE  LET lines == {p[i] : i \in DOMAIN p}
         IN  /\ \A i, j \in DOMAIN p : i < j => Before(p[i], p[j])
             /\ lines \subseteq AllLines(c, n)
             /\ \A l \in AllLines(c, n), m \in lines : Before(l, m) => l \in lines
<1> DEFINE lines == {p[i] : i \in DOMAIN p}
<1>1. PICK k \in 1 .. n + 1, j \in Nat :
        /\ PrintedUpTo(c, p, k, j)
        /\ IF k = n + 1 THEN j = 0 ELSE j <= Rows[c][k]
  BY DEF Prefix
<1>2. /\ k \in Nat /\ k >= 1 /\ k <= n + 1 /\ n \in Nat
      /\ \A q \in 1 .. n : Rows[c][q] \in Nat
  BY RowsTyped
<1>3. /\ \A i, l \in DOMAIN p : i < l => Before(p[i], p[l])
      /\ lines = AllLines(c, k - 1) \cup {<<k, i>> : i \in 1 .. j}
  BY <1>1 DEF PrintedUpTo
<1>4. \A l : l \in AllLines(c, n) <=>
               \E q \in 1 .. n : \E i \in 1 .. Rows[c][q] : l = <<q, i>>
  BY DEF AllLines
<1>5. \A l : l \in AllLines(c, k - 1) <=>
               \E q \in 1 .. k - 1 : \E i \in 1 .. Rows[c][q] : l = <<q, i>>
  BY DEF AllLines
<1> HIDE DEF lines
<1>6. ASSUME NEW l \in lines PROVE l \in AllLines(c, n)
  <2>1. CASE l \in AllLines(c, k - 1)
    BY <2>1, <1>2, <1>4, <1>5
  <2>2. CASE l \in {<<k, i>> : i \in 1 .. j}
    <3>1. PICK i \in 1 .. j : l = <<k, i>>
      BY <2>2
    <3>2. k # n + 1
      BY <1>1, <3>1
    <3>3. k \in 1 .. n /\ i \in 1 .. Rows[c][k]
      BY <1>1, <1>2, <3>2
    <3>4. QED  BY <1>4, <3>1, <3>3
  <2>3. QED  BY <1>3, <1>6, <2>1, <2>2
<1>7. ASSUME NEW l \in AllLines(c, n), NEW m \in lines, Before(l, m)
      PROVE  l \in lines
  <2>1. PICK q \in 1 .. n : \E i \in 1 .. Rows[c][q] : l = <<q, i>>
    BY <1>4
  <2>2. PICK i \in 1 .. Rows[c][q] : l = <<q, i>>
    BY <2>1
  <2>3. CASE q < k
    <3>1. q \in 1 .. k - 1
      BY <1>2, <2>3
    <3>2. QED  BY <1>3, <1>5, <2>2, <3>1
  <2>4. CASE q >= k
    <3>1. m \notin AllLines(c, k - 1)
      <4>1. SUFFICES ASSUME NEW r \in 1 .. k - 1, NEW h \in 1 .. Rows[c][r],
                            m = <<r, h>>
                     PROVE  FALSE
        BY <1>5
      <4>2. r < q
        BY <1>2, <2>4
      <4>3. QED  BY <1>7, <2>2, <4>1, <4>2 DEF Before
    <3>2. PICK h \in 1 .. j : m = <<k, h>>
      BY <1>3, <1>7, <3>1
    <3>3. q = k /\ i < h
      BY <1>2, <1>7, <2>2, <2>4, <3>2 DEF Before
    <3>4. i \in 1 .. j
      BY <1>2, <3>3
    <3>5. QED  BY <1>3, <2>2, <3>3, <3>4
  <2>5. QED  BY <1>2, <2>3, <2>4
<1>8. QED  BY <1>3, <1>6, <1>7 DEF lines

\* Everything is printed when the prefix ends before the first unasked query.
LEMMA AllIsAll ==
  ASSUME NEW c \in Clients, NEW n \in Nat, NEW p, PrintedUpTo(c, p, n + 1, 0)
  PROVE  {p[i] : i \in DOMAIN p} = AllLines(c, n)
<1>1. (n + 1) - 1 = n /\ {<<n + 1, i>> : i \in 1 .. 0} = {}
  OBVIOUS
<1>2. QED  BY <1>1 DEF PrintedUpTo

\* A prefix is still one when another query is asked.
LEMMA PrefixOfMore ==
  ASSUME NEW c \in Clients, NEW n \in Nat, n + 1 <= Len(get_queries[c]), NEW p,
         Prefix(c, p, n)
  PROVE  Prefix(c, p, n + 1)
<1>1. PICK k \in 1 .. n + 1, j \in Nat :
        /\ PrintedUpTo(c, p, k, j)
        /\ IF k = n + 1 THEN j = 0 ELSE j <= Rows[c][k]
  BY DEF Prefix
<1>2. k \in 1 .. (n + 1) + 1 /\ k # (n + 1) + 1 /\ Rows[c][k] >= 0
  BY RowsTyped
<1>3. QED  BY <1>1, <1>2 DEF Prefix

\* Some lines of the query asked last are a prefix.
LEMMA PrefixInQuery ==
  ASSUME NEW c \in Clients, NEW n \in 1 .. Len(get_queries[c]), NEW j \in Nat,
         j <= Rows[c][n], NEW p, PrintedUpTo(c, p, n, j)
  PROVE  Prefix(c, p, n)
<1>1. n \in 1 .. n + 1 /\ n # n + 1
  BY RowsTyped
<1>2. QED  BY <1>1 DEF Prefix

-------------------------------------------------------------------------------
(* What is coming *)

Text == [line : Nat \X Nat, whole : BOOLEAN]

LEMMA LineIs ==
  ASSUME NEW c \in Clients, NEW k \in 1 .. Len(get_queries[c]), NEW m \in Nat
  PROVE  /\ NthLine(c, k, m) \in Nat \X Nat
         /\ NthLine(c, k, m) # NoLine <=> m <= Rows[c][k]
         /\ NthLine(c, k, m) # NoLine => NthLine(c, k, m) = <<k, m>>
<1>1. k \in Nat /\ k # 0
  BY RowsTyped
<1>2. QED  BY <1>1 DEF NthLine, NoLine

LEMMA NothingComing ==
  ASSUME NEW c \in Clients, NEW k \in 1 .. Len(get_queries[c])
  PROVE  Coming(c, k, <<>>, <<>>, 0, 0)
<1>1. Rows[c][k] \in Nat
  BY RowsTyped
<1>2. QED  BY <1>1 DEF Coming

\* The thread writes the next line.
LEMMA OneMoreComing ==
  ASSUME NEW c \in Clients, NEW k \in 1 .. Len(get_queries[c]),
         NEW w \in Seq(Nat \X Nat), NEW b \in Seq(Text),
         NEW j \in Nat, NEW a \in Nat, Coming(c, k, w, b, j, a),
         j + a + Len(w) <= Rows[c][k]
  PROVE  Coming(c, k, Append(w, NthLine(c, k, j + a + Len(w) + 1)), b, j, a)
<1> DEFINE x == NthLine(c, k, j + a + Len(w) + 1)
           v == Append(w, x)
<1>1. Rows[c][k] \in Nat /\ Len(w) \in Nat /\ j + a + Len(w) + 1 \in Nat
  BY RowsIs
<1>2. x \in Nat \X Nat
  BY <1>1, LineIs
<1>3. /\ Len(v) = Len(w) + 1
      /\ \A i \in 1 .. Len(w) : v[i] = w[i]
      /\ v[Len(w) + 1] = x
  BY <1>2, AppendIs
<1> HIDE DEF v
<1>4. ASSUME NEW i \in 1 .. Len(v) PROVE v[i] = NthLine(c, k, j + a + i)
  <2>1. CASE i \in 1 .. Len(w)
    BY <2>1, <1>3 DEF Coming
  <2>2. CASE i = Len(w) + 1
    <3>1. j + a + Len(w) + 1 = j + a + (Len(w) + 1)
      BY <1>1
    <3>2. QED  BY <2>2, <1>3, <3>1
  <2>3. i \in 1 .. Len(w) \/ i = Len(w) + 1
    BY <1>1, <1>3
  <2>4. QED  BY <2>1, <2>2, <2>3
<1>5. Coming(c, k, v, b, j, a)
  <2>1. j + a + Len(v) <= Rows[c][k] + 1
    BY <1>1, <1>3
  <2>2. Len(w) > 0 => Len(v) > 0
    BY <1>1, <1>3
  <2>3. QED  BY <1>4, <2>1, <2>2 DEF Coming
<1>6. QED  BY <1>5 DEF v

\* Is the last text in the inbox a part of a line?
LEMMA PartIs ==
  ASSUME NEW c \in Clients, NEW k, NEW w, NEW b \in Seq(Text),
         NEW j \in Nat, NEW a \in Nat, Coming(c, k, w, b, j, a)
  PROVE  /\ b # <<>> /\ ~ Last(b).whole => Len(b) = a + 1
         /\ ~ (b # <<>> /\ ~ Last(b).whole) => Len(b) = a
<1>1. Len(b) \in Nat /\ (b # <<>> <=> Len(b) > 0) /\ Last(b) = b[Len(b)]
  BY DEF Last
<1>2. CASE Len(b) = a
  <2>1. b # <<>> => b[a].whole
    BY <1>1, <1>2 DEF Coming
  <2>2. QED  BY <1>1, <1>2, <2>1
<1>3. CASE Len(b) # a
  <2>1. Len(b) = a + 1 /\ ~ b[a + 1].whole
    BY <1>3 DEF Coming
  <2>2. QED  BY <1>1, <2>1
<1>4. QED  BY <1>2, <1>3


LEMMA WholeArrives ==
  ASSUME NEW c \in Clients, NEW k \in 1 .. Len(get_queries[c]),
         NEW w \in Seq(Nat \X Nat), w # <<>>, NEW b \in Seq(Text),
         NEW j \in Nat, NEW a \in Nat, Coming(c, k, w, b, j, a),
         NEW d \in Seq(Text), Len(d) = a, \A i \in 1 .. a : d[i] = b[i]
  PROVE  Coming(c, k, Tail(w), Append(d, [line |-> Head(w), whole |-> TRUE]),
                j, a + 1)
<1> DEFINE x == [line |-> Head(w), whole |-> TRUE]
           e == Append(d, x)
           v == Tail(w)
<1>1. /\ Head(w) \in Nat \X Nat /\ Head(w) = w[1] /\ Len(w) \in Nat
      /\ Len(w) >= 1 /\ Len(v) = Len(w) - 1
      /\ \A i \in 1 .. Len(w) - 1 : v[i] = w[i + 1]
  BY TailIs
<1>2. x \in Text
  BY <1>1 DEF Text
<1>3. /\ Len(e) = a + 1 /\ e[a + 1] = x
      /\ \A i \in 1 .. a : e[i] = b[i]
  BY <1>2, AppendIs
<1>4. x = [line |-> NthLine(c, k, j + (a + 1)), whole |-> TRUE]
  <2>1. w[1] = NthLine(c, k, j + a + 1) /\ j + a + 1 = j + (a + 1)
    BY <1>1 DEF Coming
  <2>2. QED  BY <1>1, <2>1
<1> HIDE DEF e, v, x
<1>5. ASSUME NEW i \in 1 .. a + 1
      PROVE  e[i] = [line |-> NthLine(c, k, j + i), whole |-> TRUE]
  <2>1. CASE i \in 1 .. a
    BY <2>1, <1>3 DEF Coming
  <2>2. CASE i = a + 1
    BY <2>2, <1>3, <1>4
  <2>3. QED  BY <2>1, <2>2
<1>6. ASSUME NEW i \in 1 .. Len(v) PROVE v[i] = NthLine(c, k, j + (a + 1) + i)
  <2>1. i + 1 \in 1 .. Len(w) /\ v[i] = w[i + 1]
    BY <1>1
  <2>2. w[i + 1] = NthLine(c, k, j + a + (i + 1))
    BY <2>1 DEF Coming
  <2>3. j + a + (i + 1) = j + (a + 1) + i
    BY <2>1
  <2>4. QED  BY <2>1, <2>2, <2>3
<1>7. /\ j <= Rows[c][k]
      /\ j + (a + 1) + Len(v) <= Rows[c][k] + 1
  <2>1. j <= Rows[c][k] /\ j + a + Len(w) <= Rows[c][k] + 1
    BY DEF Coming
  <2>2. j + (a + 1) + Len(v) = j + a + Len(w)
    BY <1>1
  <2>3. QED  BY <2>1, <2>2
<1>8. Coming(c, k, v, e, j, a + 1)
  BY <1>3, <1>5, <1>6, <1>7 DEF Coming
<1>9. QED  BY <1>8 DEF v, e, x

LEMMA PartArrives ==
  ASSUME NEW c \in Clients, NEW k \in 1 .. Len(get_queries[c]),
         NEW w \in Seq(Nat \X Nat), w # <<>>, Head(w) # NoLine,
         NEW b \in Seq(Text),
         NEW j \in Nat, NEW a \in Nat, Coming(c, k, w, b, j, a), Len(b) = a
  PROVE  Coming(c, k, w, Append(b, [line |-> Head(w), whole |-> FALSE]), j, a)
<1> DEFINE x == [line |-> Head(w), whole |-> FALSE]
           e == Append(b, x)
<1>1. Head(w) \in Nat \X Nat /\ Head(w) = w[1] /\ Len(w) \in Nat /\ Len(w) >= 1
  BY TailIs
<1>2. x \in Text
  BY <1>1 DEF Text
<1> HIDE DEF x
<1>3. /\ Len(e) = a + 1 /\ e[a + 1] = x
      /\ \A i \in 1 .. a : e[i] = b[i]
  BY <1>2, AppendIs
<1>4. w[1] = NthLine(c, k, j + a + 1)
  BY <1>1 DEF Coming
<1>5. j + a + 1 <= Rows[c][k]
  <2>1. j + a + 1 \in Nat /\ NthLine(c, k, j + a + 1) # NoLine
    BY <1>1, <1>4
  <2>2. QED  BY <2>1, LineIs
<1>6. x = [line |-> NthLine(c, k, j + a + 1), whole |-> FALSE]
  BY <1>1, <1>4 DEF x
<1> HIDE DEF e
<1>7. Len(w) > 0
  BY <1>1
<1>8. Coming(c, k, w, e, j, a)
  BY <1>3, <1>5, <1>6, <1>7 DEF Coming
<1>9. QED  BY <1>8 DEF e, x

\* What the client finds at the head of its inbox.
LEMMA HeadIs ==
  ASSUME NEW c \in Clients, NEW k \in 1 .. Len(get_queries[c]),
         NEW w \in Seq(Nat \X Nat), NEW b \in Seq(Text), b # <<>>,
         NEW j \in Nat, NEW a \in Nat, Coming(c, k, w, b, j, a)
  PROVE  /\ Head(b).line = NthLine(c, k, j + 1)
         /\ Head(b).whole <=> a > 0
         /\ a = 0 => Len(b) = 1 /\ j + 1 <= Rows[c][k]
<1>1. Head(b) = b[1] /\ Len(b) \in Nat /\ Len(b) >= 1
  BY TailIs
<1>2. CASE a > 0
  <2>1. b[1] = [line |-> NthLine(c, k, j + 1), whole |-> TRUE]
    BY <1>2 DEF Coming
  <2>2. QED  BY <1>1, <1>2, <2>1
<1>3. CASE a = 0
  <2>1. /\ Len(b) = 1 /\ j + a + 1 <= Rows[c][k]
        /\ b[1] = [line |-> NthLine(c, k, j + a + 1), whole |-> FALSE]
    BY <1>1, <1>3 DEF Coming
  <2>2. j + a + 1 = j + 1
    BY <1>3
  <2>3. QED  BY <1>1, <1>3, <2>1, <2>2
<1>4. QED  BY <1>2, <1>3

\* The zero is the last thing that comes.
LEMMA ZeroIsLast ==
  ASSUME NEW c \in Clients, NEW k \in 1 .. Len(get_queries[c]),
         NEW w \in Seq(Nat \X Nat), NEW b \in Seq(Text), b # <<>>,
         NEW j \in Nat, NEW a \in Nat, Coming(c, k, w, b, j, a),
         Head(b).line = NoLine
  PROVE  j = Rows[c][k] /\ a = 1 /\ w = <<>> /\ Tail(b) = <<>>
<1>1. NthLine(c, k, j + 1) = NoLine /\ (a = 0 => j + 1 <= Rows[c][k])
  <2> DEFINE r == Rows[c][k]
             line == NthLine(c, k, j + 1)
  <2>1. /\ Head(b).line = line
        /\ a = 0 => Len(b) = 1 /\ j + 1 <= r
    <3>1. /\ Head(b).line = line /\ (Head(b).whole <=> a > 0)
          /\ a = 0 => Len(b) = 1 /\ j + 1 <= r
      BY HeadIs
    <3> HIDE DEF r, line
    <3>2. QED  BY <3>1
  <2>2. QED  BY <2>1
<1>2. ~ (j + 1 <= Rows[c][k])
  <2>1. j + 1 \in Nat
    OBVIOUS
  <2>2. QED  BY <1>1, <2>1, LineIs
<1>3. /\ j <= Rows[c][k] /\ j + a + Len(w) <= Rows[c][k] + 1
      /\ Len(b) = a \/ (Len(b) = a + 1 /\ Len(w) > 0)
  BY DEF Coming
<1>4. /\ Rows[c][k] \in Nat /\ Len(w) \in Nat
      /\ Len(b) \in Nat /\ Len(b) >= 1
  BY RowsIs, TailIs
<1> DEFINE r == Rows[c][k]
           m == Len(w)
           l == Len(b)
<1>5. a = 1 /\ j = r /\ m = 0 /\ l = 1
  <2> HIDE DEF r, m, l
  <2>1. /\ r \in Nat /\ m \in Nat /\ l \in Nat /\ l >= 1
        /\ j <= r /\ j + a + m <= r + 1 /\ ~ (j + 1 <= r)
        /\ l = a \/ (l = a + 1 /\ m > 0)
    BY <1>2, <1>3, <1>4 DEF r, m, l
  <2>2. j = r /\ a + m <= 1
    BY <2>1
  <2>3. a # 0
    BY <1>1, <1>2
  <2>4. QED  BY <2>1, <2>2, <2>3
<1>6. Tail(b) \in Seq(Text) /\ Len(Tail(b)) = Len(b) - 1
  BY TailIs
<1>7. Tail(b) = <<>>
  <2>1. Len(Tail(b)) = 0
    BY <1>5, <1>6
  <2>2. QED  BY <1>6, <2>1, EmptyIs
<1>8. w = <<>>
  BY <1>5, EmptyIs
<1>9. QED  BY <1>5, <1>7, <1>8

\* The client takes a whole line from its inbox.
LEMMA LineTaken ==
  ASSUME NEW c \in Clients, NEW k \in 1 .. Len(get_queries[c]),
         NEW w \in Seq(Nat \X Nat), NEW b \in Seq(Text), b # <<>>,
         NEW j \in Nat, NEW a \in Nat, Coming(c, k, w, b, j, a), a > 0,
         j + 1 <= Rows[c][k]
  PROVE  Coming(c, k, w, Tail(b), j + 1, a - 1)
<1> DEFINE d == Tail(b)
<1>1. /\ Len(b) \in Nat /\ Len(b) >= 1 /\ Len(d) = Len(b) - 1
      /\ \A i \in 1 .. Len(b) - 1 : d[i] = b[i + 1]
  BY TailIs
<1>2. Len(b) = a \/ Len(b) = a + 1
  BY DEF Coming
<1> HIDE DEF d
<1>3. ASSUME NEW i \in 1 .. a - 1
      PROVE  d[i] = [line |-> NthLine(c, k, (j + 1) + i), whole |-> TRUE]
  <2>1. i + 1 \in 1 .. a /\ j + (i + 1) = (j + 1) + i
    OBVIOUS
  <2>4. i \in 1 .. Len(b) - 1
    BY <1>1, <1>2
  <2>5. d[i] = b[i + 1]
    BY <1>1, <2>4
  <2>2. b[i + 1] = [line |-> NthLine(c, k, j + (i + 1)), whole |-> TRUE]
    BY <2>1 DEF Coming
  <2>3. QED  BY <2>1, <2>2, <2>5
<1>4. ASSUME NEW i \in 1 .. Len(w)
      PROVE  w[i] = NthLine(c, k, (j + 1) + (a - 1) + i)
  <2>1. w[i] = NthLine(c, k, j + a + i)
    BY DEF Coming
  <2>2. j + a + i = (j + 1) + (a - 1) + i
    OBVIOUS
  <2>3. QED  BY <2>1, <2>2
<1>5. (j + 1) + (a - 1) + Len(w) <= Rows[c][k] + 1
  <2>1. j + a + Len(w) <= Rows[c][k] + 1 /\ Len(w) \in Nat
    BY DEF Coming
  <2>2. (j + 1) + (a - 1) + Len(w) = j + a + Len(w)
    BY <2>1
  <2>3. QED  BY <2>1, <2>2
<1>6. \/ Len(d) = a - 1
      \/ /\ Len(d) = (a - 1) + 1 /\ Len(w) > 0
         /\ (j + 1) + (a - 1) + 1 <= Rows[c][k]
         /\ d[(a - 1) + 1] = [line |-> NthLine(c, k, (j + 1) + (a - 1) + 1),
                              whole |-> FALSE]
  <2>1. CASE Len(b) = a
    BY <2>1, <1>1
  <2>2. CASE Len(b) # a
    <3>1. /\ Len(b) = a + 1 /\ Len(w) > 0 /\ j + a + 1 <= Rows[c][k]
          /\ b[a + 1] = [line |-> NthLine(c, k, j + a + 1), whole |-> FALSE]
      BY <2>2 DEF Coming
    <3>2. (j + 1) + (a - 1) + 1 = j + a + 1 /\ (a - 1) + 1 = a
      OBVIOUS
    <3>3. Len(d) = a /\ d[a] = b[a + 1]
      <4>1. Len(d) = a /\ a \in 1 .. Len(b) - 1
        BY <1>1, <1>2, <2>2
      <4>2. QED  BY <1>1, <4>1
    <3>4. QED  BY <3>1, <3>2, <3>3
  <2>3. QED  BY <2>1, <2>2
<1>7. Coming(c, k, w, d, j + 1, a - 1)
  BY <1>3, <1>4, <1>5, <1>6 DEF Coming
<1>8. QED  BY <1>7 DEF d

-------------------------------------------------------------------------------
(* Types *)

LEMMA TypeInit == SessionInit => SessionTypeOK
<1> SUFFICES ASSUME SessionInit PROVE SessionTypeOK
  OBVIOUS
<1>1. PhaseOK
  BY FileInit DEF FileInv
<1>2. <<>> \in Seq(Nat) /\ <<>> \in Seq(Nat \X Nat) /\ <<>> \in Seq(Text)
  OBVIOUS
<1>3. QED
  BY <1>1, <1>2 DEF SessionInit, SessionTypeOK, Idle, Talkers, ClientPoints, Text

\* A step of a server's does not touch connections.
LEMMA TypeServer ==
  ASSUME SessionTypeOK, PhaseOK', NEW s \in Servers, Server(s)
  PROVE  SessionTypeOK'
<1>1. UNCHANGED <<accepted, clientVars, streamVars>>
  BY DEF Server, Checks, Refused, Creates, Listens, StartFails, Interrupted,
         RemovesEarly, RemovesFile, Ends
<1>2. QED  BY <1>1 DEF SessionTypeOK, clientVars, streamVars

LEMMA TypeThread ==
  ASSUME SessionTypeOK, PhaseOK', NEW c \in Clients, Thread(c)
  PROVE  SessionTypeOK'
<1>1. /\ UNCHANGED <<accepted, clientVars, nth, inbox>>
      /\ thread[c] \in [does : Talkers, query : Nat, row : Nat]
  BY DEF Thread, ReadsQuery, ReadsGarbled, ReadsReset, ReadsEof, SendsLine,
         SendsZero, SendsOther, RunsOn, Dies, Does, streamVars, SessionTypeOK
<1> DEFINE Tasks == [does : Talkers, query : Nat, row : Nat]
<1>2. toServer' \in [Clients -> Seq(Nat)]
  <2>1. \/ toServer' = toServer
        \/ toServer[c] # <<>> /\ toServer' = [toServer EXCEPT ![c] = Tail(@)]
        \/ toServer' = [toServer EXCEPT ![c] = <<>>]
    BY DEF Thread, ReadsQuery, ReadsGarbled, ReadsReset, ReadsEof, SendsLine,
           SendsZero, SendsOther, RunsOn, streamVars
  <2>2. toServer[c] # <<>> => Tail(toServer[c]) \in Seq(Nat)
    BY TailIs DEF SessionTypeOK
  <2>3. toServer \in [Clients -> Seq(Nat)] /\ <<>> \in Seq(Nat)
    BY DEF SessionTypeOK
  <2>4. QED  BY <2>1, <2>2, <2>3
<1>3. wire' \in [Clients -> Seq(Nat \X Nat)]
  <2>1. ASSUME NEW l \in Nat \X Nat, Writes(c, l)
        PROVE  wire' \in [Clients -> Seq(Nat \X Nat)]
    <3>1. wire[c] \in Seq(Nat \X Nat) /\ Append(wire[c], l) \in Seq(Nat \X Nat)
      BY DEF SessionTypeOK
    <3>2. \/ wire' = wire
          \/ wire' = [wire EXCEPT ![c] = wire[c]]
          \/ wire' = [wire EXCEPT ![c] = Append(wire[c], l)]
      BY <2>1 DEF Writes
    <3>3. QED  BY <3>1, <3>2 DEF SessionTypeOK
  <2>2. CASE SendsLine(c)
    BY <2>1, <2>2, <1>1 DEF SendsLine
  <2>3. CASE SendsZero(c)
    BY <2>1, <2>3 DEF SendsZero, NoLine
  <2>4. CASE ReadsQuery(c) \/ ReadsGarbled(c) \/ ReadsReset(c) \/ ReadsEof(c)
             \/ RunsOn(c)
    BY <2>4 DEF ReadsQuery, ReadsGarbled, ReadsReset, ReadsEof, RunsOn, streamVars,
                SessionTypeOK
  <2>5. CASE SendsOther(c)
    <3>1. CASE wire' = wire
      BY <3>1 DEF SessionTypeOK
    <3>2. NoLine \in Nat \X Nat /\ OtherLine \in Nat \X Nat
      BY DEF NoLine, OtherLine
    <3>3. wire' = wire \/ Writes(c, NoLine) \/ Writes(c, OtherLine)
      BY <2>5 DEF SendsOther
    <3>4. QED  BY <2>1, <3>1, <3>2, <3>3
  <2>6. QED  BY <2>2, <2>3, <2>4, <2>5 DEF Thread
<1>4. thread' \in [Clients -> [does : Talkers, query : Nat, row : Nat]]
  <2>1. CASE ReadsQuery(c)
    <3>1. Head(toServer[c]) \in Nat
      BY <2>1, TailIs DEF ReadsQuery, SessionTypeOK
    <3>2. [does |-> "respond", query |-> Head(toServer[c]), row |-> 0]
            \in [does : Talkers, query : Nat, row : Nat]
      BY <3>1 DEF Talkers
    <3>3. QED  BY <2>1, <3>2 DEF ReadsQuery, SessionTypeOK
  <2>2. CASE ReadsReset(c)
    BY <2>2 DEF ReadsReset, SessionTypeOK, Talkers
  <2>3. CASE ReadsEof(c)
    BY <2>3 DEF ReadsEof, SessionTypeOK, Talkers
  <2>4. CASE SendsLine(c)
    <3>1. thread' = [thread EXCEPT ![c].row = @ + 1]
      BY <2>4 DEF SendsLine
    <3>2. thread \in [Clients -> [does : Talkers, query : Nat, row : Nat]]
      BY DEF SessionTypeOK
    <3>3. QED  BY <3>1, <3>2
  <2>5. CASE SendsZero(c)
    BY <2>5 DEF SendsZero, SessionTypeOK, Talkers
  <2>6. CASE ReadsGarbled(c)
    <3>1. [Idle EXCEPT !.does = "garbled"] \in Tasks
      BY DEF Idle, Talkers
    <3>2. thread' = [thread EXCEPT ![c] = [Idle EXCEPT !.does = "garbled"]]
      BY <2>6 DEF ReadsGarbled
    <3>3. QED  BY <3>1, <3>2 DEF SessionTypeOK
  <2>7. CASE SendsOther(c) \/ RunsOn(c)
    BY <2>7 DEF SendsOther, RunsOn, streamVars, SessionTypeOK
  <2>8. QED  BY <2>1, <2>2, <2>3, <2>4, <2>5, <2>6, <2>7 DEF Thread
<1>5. QED  BY <1>1, <1>2, <1>3, <1>4 DEF SessionTypeOK, clientVars

LEMMA TypeArrives ==
  ASSUME SessionTypeOK, PhaseOK', NEW c \in Clients, Arrives(c)
  PROVE  SessionTypeOK'
<1>1. /\ wire[c] \in Seq(Nat \X Nat) /\ wire[c] # <<>>
      /\ inbox[c] \in Seq(Text)
  BY DEF Arrives, SessionTypeOK, Text
<1>2. Tail(wire[c]) \in Seq(Nat \X Nat) /\ Head(wire[c]) \in Nat \X Nat
  BY <1>1, TailIs
<1> DEFINE kept == IF InPart(c) THEN Front(inbox[c]) ELSE inbox[c]
           now(whole) == Append(kept, [line |-> Head(wire[c]), whole |-> whole])
<1>3. kept \in Seq(Text)
  <2>1. inbox[c] # <<>> => Front(inbox[c]) \in Seq(Text)
    BY <1>1 DEF Front
  <2>2. QED  BY <1>1, <2>1 DEF InPart
<1>4. ASSUME NEW whole \in BOOLEAN PROVE now(whole) \in Seq(Text)
  <2>1. [line |-> Head(wire[c]), whole |-> whole] \in Text
    BY <1>2 DEF Text
  <2> HIDE DEF kept
  <2>2. QED  BY <1>3, <2>1, AppendIs
<1>5. \/ inbox' = [inbox EXCEPT ![c] = now(TRUE)]
      \/ inbox' = [inbox EXCEPT ![c] = now(FALSE)]
  BY DEF Arrives
<1> HIDE DEF now
<1>6. inbox' \in [Clients -> Seq(Text)]
  BY <1>4, <1>5 DEF SessionTypeOK, Text
<1>7. wire' \in [Clients -> Seq(Nat \X Nat)]
  BY <1>2 DEF Arrives, SessionTypeOK
<1>8. UNCHANGED <<serverVars, clientVars, nth, toServer, thread>>
  BY DEF Arrives
<1>9. QED
  BY <1>6, <1>7, <1>8 DEF SessionTypeOK, serverVars, clientVars, Text

LEMMA TypeClient ==
  ASSUME SessionTypeOK, PhaseOK', NEW c \in Clients, Client(c) \/ Leaves(c)
  PROVE  SessionTypeOK'
<1> USE DEF SessionTypeOK, ClientPoints, To, serverVars, streamVars
<1>1. CASE Connects(c)
  <2>1. server' \in [Clients -> Servers \cup {NoServer}]
    BY <1>1 DEF Connects
  <2>2. pc' \in [Clients -> ClientPoints]
    BY <1>1 DEF Connects
  <2>3. UNCHANGED <<serverVars, asked, printed, streamVars>>
    BY <1>1 DEF Connects
  <2>4. QED  BY <2>1, <2>2, <2>3
<1>2. CASE Sends(c)
  <2>1. Append(toServer[c], asked[c] + 1) \in Seq(Nat)
    OBVIOUS
  <2>2. toServer' \in [Clients -> Seq(Nat)]
    BY <1>2, <2>1 DEF Sends
  <2>3. asked' \in [Clients -> Nat]
    BY <1>2 DEF Sends
  <2>4. \/ pc' = [pc EXCEPT ![c] = "response"]
        \/ pc' = [pc EXCEPT ![c] = "gone"]
    BY <1>2 DEF Sends
  <2>5. UNCHANGED <<serverVars, server, printed, nth, wire, inbox, thread>>
    BY <1>2 DEF Sends
  <2>6. QED  BY <2>2, <2>3, <2>4, <2>5
<1>3. CASE Finishes(c) \/ SeesEnd(c) \/ Leaves(c)
  BY <1>3 DEF Finishes, SeesEnd, Leaves
<1>4. CASE ReadsLine(c)
  <2>1. inbox[c] \in Seq(Text) /\ inbox[c] # <<>>
    BY <1>4 DEF ReadsLine, Text
  <2>2. Tail(inbox[c]) \in Seq(Text) /\ Head(inbox[c]) \in Text
    BY <2>1, TailIs
  <2>3. inbox' \in [Clients -> Seq(Text)]
    BY <1>4, <2>2 DEF ReadsLine, Text
  <2>4. Append(printed[c], Head(inbox[c]).line) \in Seq(Nat \X Nat)
    BY <2>2, AppendIs DEF Text
  <2>5. printed' \in [Clients -> Seq(Nat \X Nat)]
    BY <1>4, <2>4 DEF ReadsLine
  <2>6. \/ pc' = [pc EXCEPT ![c] = "send"]
        \/ pc' = [pc EXCEPT ![c] = "response"]
        \/ pc' = [pc EXCEPT ![c] = "astray"]
    BY <1>4 DEF ReadsLine
  <2>7. UNCHANGED <<serverVars, server, asked, nth, toServer, wire, thread>>
    BY <1>4 DEF ReadsLine
  <2>8. QED  BY <2>3, <2>5, <2>6, <2>7 DEF Text
<1>5. QED  BY <1>1, <1>2, <1>3, <1>4 DEF Client

LEMMA TypeStep ==
  ASSUME FileInv, SessionTypeOK, [SessionNext]_sessionVars
  PROVE  SessionTypeOK'
<1>1. PhaseOK'
  BY FileStep DEF FileInv
<1>2. CASE UNCHANGED sessionVars
  BY <1>1, <1>2 DEF sessionVars, SessionTypeOK
<1>3. CASE \E s \in Servers : Server(s)
  BY <1>1, <1>3, TypeServer
<1>4. ASSUME NEW c \in Clients, Session(c) \/ Leaves(c) PROVE SessionTypeOK'
  <2>1. CASE Accepts(c)
    <3>1. server[c] \in Servers
      BY <2>1 DEF Accepts, Accepting
    <3>2. thread' \in [Clients -> [does : Talkers, query : Nat, row : Nat]]
      BY <2>1 DEF Accepts, SessionTypeOK, Talkers
    <3>3. nth' \in [Clients -> Nat] /\ accepted' \in [Servers -> Nat]
      BY <2>1, <3>1 DEF Accepts, SessionTypeOK
    <3>4. QED  BY <1>1, <2>1, <3>2, <3>3 DEF Accepts, SessionTypeOK, clientVars
  <2>2. QED  BY <1>1, <1>4, <2>1, TypeThread, TypeArrives, TypeClient DEF Session
<1>5. QED  BY <1>2, <1>3, <1>4 DEF SessionNext

-------------------------------------------------------------------------------
(* Steps elsewhere *)

conn(c) == <<pc[c], server[c], asked[c], toServer[c], wire[c], inbox[c],
             thread[c], printed[c]>>

\* A server goes one way.
Forward ==
  \A s \in Servers : \/ phase'[s] \in {phase[s], "ended"}
                     \/ phase[s] \in {"off", "checked", "created"}
                     \/ phase[s] = "running" /\ phase'[s] = "interrupted"
                     \/ phase[s] = "interrupted" /\ phase'[s] = "draining"

LEMMA ServersGoForward ==
  ASSUME PhaseOK, [SessionNext]_sessionVars
  PROVE  Forward
<1>1. CASE UNCHANGED sessionVars
  BY <1>1 DEF sessionVars, Forward
<1>2. ASSUME NEW s \in Servers, Server(s) PROVE Forward
  BY <1>2 DEF PhaseOK, Server, Checks, Refused, Creates, Listens, StartFails,
              RemovesEarly, Interrupted, RemovesFile, Ends, Goes, Forward
<1>3. ASSUME NEW c \in Clients, Session(c) \/ Leaves(c) PROVE Forward
  <2>1. phase' = phase \/ phase' = [phase EXCEPT ![server[c]] = "ended"]
    BY <1>3 DEF Session, Accepts, Thread, ReadsQuery, ReadsGarbled, ReadsReset,
                ReadsEof, SendsLine, SendsZero, SendsOther, RunsOn, Writes, Dies, Arrives, Client, Connects,
                Sends, Finishes, ReadsLine, SeesEnd, Leaves, To, serverVars
  <2>2. QED  BY <2>1 DEF PhaseOK, Forward
<1>4. QED  BY <1>1, <1>2, <1>3 DEF SessionNext

\* A connection that has been closed does not open again.
LEMMA NeverReopens ==
  ASSUME SessionTypeOK, NEW c \in Clients, Connected(c), Forward,
         server'[c] = server[c],
         nth'[c] = nth[c] \/ (Accepting(server[c]) /\ phase' = phase)
  PROVE  /\ Open(c)' => Open(c)
         /\ server'[c] # NoServer =>
              phase'[server'[c]] \in {"running", "interrupted", "draining", "ended"}
<1>1. NoServer \notin Servers /\ (server[c] \in Servers \/ server[c] = NoServer)
  BY SessionAssumption DEF SessionTypeOK, NoServer
<1>2. CASE server[c] = NoServer
  BY <1>1, <1>2 DEF Open, Alive
<1>3. CASE server[c] \in Servers
  <2>1. server[c] # NoServer
    BY <1>3, SessionAssumption DEF NoServer
  <2>2. phase[server[c]] \in {"running", "interrupted", "draining", "ended"}
    BY <2>1 DEF Connected
  <2>3. CASE nth'[c] = nth[c]
    BY <1>3, <2>2, <2>3 DEF Forward, Open, Alive
  <2>4. CASE Accepting(server[c]) /\ phase' = phase
    BY <1>3, <2>2, <2>4 DEF Open, Alive, Accepting
  <2>5. QED  BY <2>3, <2>4
<1>4. QED  BY <1>1, <1>2, <1>3

\* What is said of a connection stays true while it is left alone.
LEMMA Undisturbed ==
  ASSUME SessionTypeOK, NEW c \in Clients, Talk(c), Forward,
         UNCHANGED <<conn(c), nth[c]>>
  PROVE  Talk(c)'
<1>1. /\ pc'[c] = pc[c] /\ server'[c] = server[c] /\ asked'[c] = asked[c]
      /\ toServer'[c] = toServer[c] /\ wire'[c] = wire[c]
      /\ inbox'[c] = inbox[c] /\ thread'[c] = thread[c]
      /\ printed'[c] = printed[c] /\ nth'[c] = nth[c]
  BY DEF conn
<1>2. /\ Open(c)' => Open(c)
      /\ Connected(c)'
  <2>1. Connected(c)
    BY DEF Talk
  <2>2. /\ Open(c)' => Open(c)
        /\ server'[c] # NoServer =>
             phase'[server'[c]] \in {"running", "interrupted", "draining", "ended"}
    BY <1>1, <2>1, NeverReopens
  <2>3. QED  BY <1>1, <2>1, <2>2 DEF Connected
<1>3. Prefix(c, printed[c], asked[c])'
  BY <1>1 DEF Talk
<1>4. Fresh(c)' /\ (Silent(c)' <=> Silent(c)) /\ (PrintedAll(c)' <=> PrintedAll(c))
  BY <1>1 DEF Talk, Fresh, Silent, PrintedAll
<1>5. Asking(c)'
  BY <1>1, <1>2, <1>4 DEF Talk, Asking
<1>6. Listening(c)'
  <2>1. SUFFICES ASSUME pc'[c] = "response"
                 PROVE  /\ asked'[c] > 0
                        /\ Open(c)' \/ ~ Silent(c)' =>
                             \E j, a \in Nat :
                               /\ PrintedUpTo(c, printed'[c], asked'[c], j)
                               /\ Coming(c, asked'[c], wire'[c], inbox'[c], j, a)
                               /\ Open(c)' => Turn(c, j + a + Len(wire[c]))'
    BY DEF Listening
  <2>2. \A m : Turn(c, m) => Turn(c, m)'
    BY <1>1 DEF Turn
  <2>3. QED  BY <1>1, <1>2, <1>4, <2>1, <2>2 DEF Talk, Listening
<1>7. (pc[c] = "done" /\ Open(c) => PrintedAll(c))'
  BY <1>1, <1>2, <1>4 DEF Talk
<1>8. QED  BY <1>2, <1>3, <1>4, <1>5, <1>6, <1>7 DEF Talk

-------------------------------------------------------------------------------
(* Steps on the connection itself *)

\* What the invariant says of a client's last query.
LEMMA AskedIs ==
  ASSUME SessionTypeOK, NEW c \in Clients, Connected(c)
  PROVE  /\ asked[c] \in Nat /\ Len(get_queries[c]) \in Nat
         /\ asked[c] > 0 => asked[c] \in 1 .. Len(get_queries[c])
  BY RowsTyped DEF SessionTypeOK, Connected

\* accept() gives the connection a thread, which reads first.
LEMMA TalkAccepts ==
  ASSUME SessionTypeOK, NEW c \in Clients, Talk(c), Accepts(c)
  PROVE  Talk(c)'
<1>1. /\ server[c] \in Servers /\ phase[server[c]] = "running" /\ nth[c] = 0
      /\ nth' = [nth EXCEPT ![c] = accepted[server[c]] + 1]
      /\ thread' = [thread EXCEPT ![c].does = "read"]
      /\ UNCHANGED <<phase, clientVars, toServer, wire, inbox>>
  BY DEF Accepts, Accepting
<1>2. thread[c].does = "nothing" /\ server[c] # NoServer
  BY <1>1, SessionAssumption DEF Talk, Connected, NoServer
<1>3. /\ nth'[c] # 0 /\ thread'[c].does = "read"
      /\ server' = server /\ pc' = pc /\ asked' = asked /\ printed' = printed
      /\ toServer' = toServer /\ wire' = wire /\ inbox' = inbox
  BY <1>1 DEF SessionTypeOK, clientVars
<1>4. Forward /\ Accepting(server[c])
  BY <1>1 DEF Forward, Accepting
<1>5. Connected(c)' /\ (Open(c)' => Open(c))
  <2>1. Connected(c)
    BY DEF Talk
  <2>2. Open(c)' => Open(c)
    BY <1>1, <1>3, <1>4, <2>1, NeverReopens
  <2>3. QED  BY <1>1, <1>3, <2>1, <2>2 DEF Connected
<1>6. \A m : Turn(c, m) => Turn(c, m)'
  BY <1>2, <1>3 DEF Turn
<1>7. Listening(c)'
  BY <1>3, <1>5, <1>6 DEF Talk, Listening, Silent
<1>8. /\ Prefix(c, printed[c], asked[c])' /\ Fresh(c)' /\ Asking(c)'
      /\ (pc[c] = "done" /\ Open(c) => PrintedAll(c))'
  BY <1>2, <1>3, <1>5 DEF Talk, Fresh, Asking, Silent, PrintedAll
<1>9. QED  BY <1>5, <1>7, <1>8 DEF Talk

LEMMA TalkConnects ==
  ASSUME SessionTypeOK, NEW c \in Clients, Talk(c), Connects(c)
  PROVE  Talk(c)'
<1>1. /\ asked[c] = 0 /\ printed[c] = <<>> /\ Silent(c) /\ toServer[c] = <<>>
      /\ server[c] = NoServer /\ thread[c].does = "nothing"
  BY DEF Talk, Fresh, Connects
<1>2. /\ asked' = asked /\ printed' = printed /\ toServer' = toServer
      /\ wire' = wire /\ inbox' = inbox /\ thread' = thread /\ nth' = nth
      /\ phase' = phase
  BY DEF Connects, To, streamVars, serverVars
<1>3. \/ /\ pc'[c] = "send"
         /\ server'[c] \in Servers /\ Alive(server'[c])
      \/ pc'[c] = "done" /\ server'[c] = NoServer
  BY <1>1 DEF Connects, To, SessionTypeOK
<1>4. Silent(c)' /\ PrintedAll(c)' /\ Prefix(c, printed[c], asked[c])'
  <2>1. PrintedAll(c)'
    BY <1>1, <1>2, NothingPrinted DEF PrintedAll
  <2>2. Silent(c)' /\ Prefix(c, printed[c], asked[c])'
    BY <1>1, <1>2 DEF Silent, Talk
  <2>3. QED  BY <2>1, <2>2
<1>5. Connected(c)'
  BY <1>1, <1>2, <1>3, SessionAssumption DEF Talk, Connected, Alive, NoServer
<1>6. QED
  BY <1>1, <1>2, <1>3, <1>4, <1>5 DEF Talk, Fresh, Asking, Listening

LEMMA TalkSends ==
  ASSUME SessionTypeOK, NEW c \in Clients, Talk(c), Sends(c)
  PROVE  Talk(c)'
<1> DEFINE n == asked[c] + 1
<1>1. /\ pc[c] = "send" /\ asked[c] \in Nat /\ n \in 1 .. Len(get_queries[c])
      /\ asked'[c] = n /\ n > 0
  BY RowsTyped DEF Sends, SessionTypeOK
<1>2. /\ server' = server /\ printed' = printed /\ nth' = nth /\ wire' = wire
      /\ inbox' = inbox /\ thread' = thread /\ phase' = phase
  BY DEF Sends, To, serverVars
<1>3. \/ pc'[c] = "response" /\ toServer'[c] = Append(toServer[c], n)
      \/ pc'[c] = "gone"
  BY DEF Sends, To, SessionTypeOK
<1>4. /\ Silent(c)
      /\ Open(c) => /\ PrintedUpTo(c, printed[c], n, 0) /\ toServer[c] = <<>>
                    /\ thread[c].does \in {"nothing", "read"}
  BY <1>1 DEF Talk, Asking, PrintedAll
<1>5. Connected(c)' /\ (Open(c)' <=> Open(c))
  BY <1>1, <1>2 DEF Talk, Connected, Open, Alive
<1>6. Prefix(c, printed[c], asked[c])'
  <2>1. Prefix(c, printed[c], asked[c]) /\ n <= Len(get_queries[c])
    BY <1>1, RowsTyped DEF Talk
  <2>2. Prefix(c, printed[c], n)
    BY <1>1, <2>1, PrefixOfMore
  <2>3. QED  BY <1>1, <1>2, <2>2
<1>7. Listening(c)'
  <2>1. SUFFICES ASSUME pc'[c] = "response", Open(c)
                 PROVE  \E j, a \in Nat :
                          /\ PrintedUpTo(c, printed[c], n, j)
                          /\ Coming(c, n, wire[c], inbox[c], j, a)
                          /\ Turn(c, j + a + Len(wire[c]))'
    BY <1>1, <1>2, <1>4, <1>5 DEF Listening, Silent
  <2>2. toServer'[c] = <<n>> /\ wire[c] = <<>> /\ inbox[c] = <<>>
    BY <1>3, <1>4, <2>1 DEF Silent
  <2>3. Coming(c, n, <<>>, <<>>, 0, 0)
    BY <1>1, NothingComing
  <2>4. Turn(c, 0)'
    BY <1>1, <1>2, <1>4, <2>1, <2>2 DEF Turn
  <2>5. 0 + 0 + Len(wire'[c]) = 0
    BY <1>2, <2>2
  <2>6. Turn(c, 0 + 0 + Len(wire[c]))'
    BY <2>4, <2>5
  <2>7. QED  BY <1>4, <2>1, <2>2, <2>3, <2>6
<1>8. QED
  BY <1>1, <1>3, <1>5, <1>6, <1>7 DEF Talk, Fresh, Asking

LEMMA TalkEnds ==
  ASSUME SessionTypeOK, NEW c \in Clients, Talk(c),
         Finishes(c) \/ SeesEnd(c) \/ Leaves(c)
  PROVE  Talk(c)'
<1>1. /\ server' = server /\ asked' = asked /\ printed' = printed /\ nth' = nth
      /\ toServer' = toServer /\ wire' = wire /\ inbox' = inbox
      /\ thread' = thread /\ phase' = phase
  BY DEF Finishes, SeesEnd, Leaves, To, streamVars, serverVars
<1>2. /\ Connected(c)' /\ (Open(c)' <=> Open(c)) /\ (Silent(c)' <=> Silent(c))
      /\ (PrintedAll(c)' <=> PrintedAll(c))
      /\ Prefix(c, printed[c], asked[c])'
  BY <1>1 DEF Talk, Connected, Open, Alive, Silent, PrintedAll
<1>3. CASE Finishes(c)
  <2>1. pc[c] = "send" /\ pc'[c] = "done"
    BY <1>3 DEF Finishes, To, SessionTypeOK
  <2>2. Open(c) => PrintedAll(c)
    BY <2>1 DEF Talk, Asking
  <2>3. QED  BY <1>2, <2>1, <2>2 DEF Talk, Fresh, Asking, Listening
<1>4. CASE Leaves(c)
  <2>1. pc'[c] = "gone"
    BY <1>4 DEF Leaves, To, SessionTypeOK
  <2>2. QED  BY <1>2, <2>1 DEF Talk, Fresh, Asking, Listening
<1>5. CASE SeesEnd(c)
  <2>1. /\ pc'[c] \in {"repeats", "send"} /\ inbox[c] \o wire[c] = <<>>
        /\ ~ Open(c)
    BY <1>5 DEF SeesEnd, To, SessionTypeOK
  <2>2. Silent(c)
    <3>1. /\ inbox[c] \in Seq(Text) /\ wire[c] \in Seq(Nat \X Nat)
      BY DEF SessionTypeOK, Text
    <3>2. Len(inbox[c] \o wire[c]) = Len(inbox[c]) + Len(wire[c])
      BY <3>1
    <3>3. Len(inbox[c]) = 0 /\ Len(wire[c]) = 0
      BY <2>1, <3>1, <3>2
    <3>4. QED  BY <3>1, <3>3, EmptyIs DEF Silent
  <2>3. QED  BY <1>2, <2>1, <2>2 DEF Talk, Fresh, Asking, Listening
<1>6. QED  BY <1>3, <1>4, <1>5

\* A line, or the zero, is taken from the inbox.
LEMMA TalkReadsLine ==
  ASSUME SessionTypeOK, NEW c \in Clients, Talk(c), ReadsLine(c)
  PROVE  Talk(c)'
<1> DEFINE k == asked[c]
           line == Head(inbox[c]).line
<1>1. /\ server' = server /\ asked' = asked /\ nth' = nth /\ toServer' = toServer
      /\ wire' = wire /\ thread' = thread /\ phase' = phase
      /\ inbox'[c] = Tail(inbox[c])
      /\ pc[c] = "response" /\ inbox[c] # <<>>
  BY DEF ReadsLine, To, SessionTypeOK, serverVars
<1>2. /\ Connected(c)' /\ (Open(c)' <=> Open(c)) /\ ~ Silent(c)
  BY <1>1 DEF Talk, Connected, Open, Alive, Silent
<1>3. PICK j \in Nat, a \in Nat :
        /\ PrintedUpTo(c, printed[c], k, j)
        /\ Coming(c, k, wire[c], inbox[c], j, a)
        /\ Open(c) => Turn(c, j + a + Len(wire[c]))
  BY <1>1, <1>2 DEF Talk, Listening
<1>4. /\ k \in 1 .. Len(get_queries[c]) /\ k \in Nat /\ k > 0
      /\ wire[c] \in Seq(Nat \X Nat) /\ inbox[c] \in Seq(Text)
      /\ printed[c] \in Seq(Nat \X Nat)
  BY <1>1, AskedIs DEF Talk, Listening, SessionTypeOK, Text
<1>5. line = NthLine(c, k, j + 1)
  BY <1>1, <1>3, <1>4, HeadIs
<1>6. CASE line = NoLine
  <2>1. j = Rows[c][k] /\ a = 1 /\ wire[c] = <<>> /\ Tail(inbox[c]) = <<>>
    <3>1. /\ Coming(c, k, wire[c], inbox[c], j, a)
          /\ inbox[c] # <<>> /\ Head(inbox[c]).line = NoLine
      BY <1>1, <1>3, <1>6
    <3> HIDE DEF k, line
    <3>2. QED  BY <1>4, <3>1, ZeroIsLast
  <2>2. pc'[c] = "send" /\ printed' = printed
    BY <1>6 DEF ReadsLine, To, SessionTypeOK
  <2>3. Silent(c)'
    BY <1>1, <2>1 DEF Silent
  <2>4. PrintedAll(c)'
    <3>1. PrintedUpTo(c, printed[c], k, Rows[c][k])
      BY <1>3, <2>1
    <3>2. PrintedUpTo(c, printed[c], k + 1, 0)
      BY <1>4, <3>1, QueryPrinted
    <3>3. QED  BY <1>1, <2>2, <3>2 DEF PrintedAll
  <2>5. Open(c) => toServer[c] = <<>> /\ thread[c].does = "read"
    <3>1. Rows[c][k] \in Nat /\ Len(wire[c]) = 0
      BY <1>4, <2>1, RowsIs
    <3>2. j + a + Len(wire[c]) = Rows[c][k] + 1
      BY <2>1, <3>1
    <3>3. Open(c) => Turn(c, Rows[c][k] + 1)
      BY <1>3, <3>2
    <3>4. QED  BY <3>1, <3>3 DEF Turn
  <2>6. Prefix(c, printed[c], asked[c])'
    BY <1>1, <2>2 DEF Talk
  <2>7. QED
    BY <1>1, <1>2, <2>2, <2>3, <2>4, <2>5, <2>6
       DEF Talk, Fresh, Asking, Listening
<1>7. CASE line # NoLine
  <2>1. j + 1 <= Rows[c][k] /\ line = <<k, j + 1>> /\ j + 1 \in Nat
    <3>1. j + 1 \in Nat /\ NthLine(c, k, j + 1) # NoLine
      BY <1>5, <1>7
    <3>2. QED  BY <1>4, <1>5, <3>1, LineIs
  <2>2. printed'[c] = Append(printed[c], <<k, j + 1>>)
    BY <1>7, <2>1 DEF ReadsLine, SessionTypeOK
  <2>3. PrintedUpTo(c, printed'[c], k, j + 1)
    BY <1>3, <1>4, <2>2, OneMorePrinted
  <2>4. Prefix(c, printed[c], asked[c])'
    <3>1. Prefix(c, printed'[c], k)
      BY <1>4, <2>1, <2>3, PrefixInQuery
    <3>2. QED  BY <1>1, <3>1
  <2>5. CASE ~ Head(inbox[c]).whole \/ line = OtherLine
    <3>1. pc'[c] = "astray"
      BY <1>7, <2>5 DEF ReadsLine, To, SessionTypeOK
    <3>2. QED  BY <1>2, <2>4, <3>1 DEF Talk, Fresh, Asking, Listening
  <2>6. CASE Head(inbox[c]).whole /\ line # OtherLine
    <3>1. pc'[c] = "response"
      BY <1>7, <2>6 DEF ReadsLine, To, SessionTypeOK
    <3>2. a > 0
      BY <1>1, <1>3, <1>4, <2>6, HeadIs
    <3>3. Coming(c, k, wire[c], Tail(inbox[c]), j + 1, a - 1)
      BY <1>1, <1>3, <1>4, <2>1, <3>2, LineTaken
    <3>4. a - 1 \in Nat
      BY <3>2
    <3>5. Open(c) => Turn(c, (j + 1) + (a - 1) + Len(wire[c]))
      <4>1. Len(wire[c]) \in Nat
        BY <1>4
      <4>2. \A x \in Nat : (j + 1) + (a - 1) + x = j + a + x
        OBVIOUS
      <4>3. (j + 1) + (a - 1) + Len(wire[c]) = j + a + Len(wire[c])
        BY <4>1, <4>2
      <4>4. QED  BY <1>3, <4>3
    <3>6. \A m : Turn(c, m)' <=> Turn(c, m)
      BY <1>1 DEF Turn
    <3>7. Listening(c)'
      <4>1. \E h, b \in Nat :
              /\ PrintedUpTo(c, printed'[c], asked'[c], h)
              /\ Coming(c, asked'[c], wire'[c], inbox'[c], h, b)
              /\ Open(c)' => Turn(c, h + b + Len(wire[c]))'
        <5>1. PrintedUpTo(c, printed'[c], asked'[c], j + 1)
          BY <1>1, <2>3
        <5>2. Coming(c, asked'[c], wire'[c], inbox'[c], j + 1, a - 1)
          BY <1>1, <3>3
        <5>3. Open(c)' => Turn(c, (j + 1) + (a - 1) + Len(wire[c]))'
          BY <1>1, <1>2, <3>5, <3>6
        <5>4. QED  BY <2>1, <3>4, <5>1, <5>2, <5>3
      <4>2. asked'[c] > 0
        BY <1>1, <1>4
      <4>3. QED  BY <4>1, <4>2 DEF Listening
    <3>8. QED  BY <1>2, <2>4, <3>1, <3>7 DEF Talk, Fresh, Asking
  <2>7. QED  BY <2>5, <2>6
<1>8. QED  BY <1>6, <1>7

\* A line goes on from the wire to the inbox, or its first part does.
LEMMA TalkArrives ==
  ASSUME SessionTypeOK, NEW c \in Clients, Talk(c), Arrives(c)
  PROVE  Talk(c)'
<1> DEFINE k == asked[c]
           w == wire[c]
           b == inbox[c]
<1>1. /\ server' = server /\ asked' = asked /\ nth' = nth /\ toServer' = toServer
      /\ thread' = thread /\ phase' = phase /\ printed' = printed /\ pc' = pc
      /\ w # <<>> /\ pc[c] # "done"
  BY DEF Arrives, serverVars, clientVars
<1>2. /\ Connected(c)' /\ (Open(c)' <=> Open(c)) /\ ~ Silent(c)
      /\ Prefix(c, printed[c], asked[c])'
  BY <1>1 DEF Talk, Connected, Open, Alive, Silent
<1>3. pc[c] \notin {"start", "send"}
  BY <1>2 DEF Talk, Fresh, Asking
<1>4. Listening(c)'
  <2>1. SUFFICES ASSUME pc[c] = "response"
                 PROVE  /\ k > 0
                        /\ \E h, g \in Nat :
                             /\ PrintedUpTo(c, printed[c], k, h)
                             /\ Coming(c, k, wire'[c], inbox'[c], h, g)
                             /\ Open(c) => Turn(c, h + g + Len(wire[c]))'
    BY <1>1, <1>2 DEF Listening
  <2>2. PICK j \in Nat, a \in Nat :
          /\ PrintedUpTo(c, printed[c], k, j)
          /\ Coming(c, k, w, b, j, a)
          /\ Open(c) => Turn(c, j + a + Len(w))
    BY <1>2, <2>1 DEF Talk, Listening
  <2>3. /\ k \in 1 .. Len(get_queries[c]) /\ k > 0
        /\ w \in Seq(Nat \X Nat) /\ b \in Seq(Text)
    BY <2>1, AskedIs DEF Talk, Listening, SessionTypeOK, Text
  <2>4. \A m : Turn(c, m)' <=> Turn(c, m)
    BY <1>1 DEF Turn
  <2>5. /\ InPart(c) => Len(b) = a + 1
        /\ ~ InPart(c) => Len(b) = a
    BY <2>2, <2>3, PartIs DEF InPart
  <2>6. CASE /\ inbox' = [inbox EXCEPT ![c] =
                            Append(IF InPart(c) THEN Front(b) ELSE b,
                                   [line |-> Head(w), whole |-> TRUE])]
             /\ wire' = [wire EXCEPT ![c] = Tail(w)]
    <3> DEFINE d == IF InPart(c) THEN Front(b) ELSE b
    <3>1. d \in Seq(Text) /\ Len(d) = a /\ \A i \in 1 .. a : d[i] = b[i]
      <4>1. CASE InPart(c)
        <5>1. Len(b) = a + 1
          BY <2>5, <4>1
        <5>2. Front(b) = [i \in 1 .. a |-> b[i]]
          BY <5>1 DEF Front
        <5>3. \A i \in 1 .. a : b[i] \in Text
          BY <2>3, <5>1
        <5>4. QED  BY <4>1, <5>2, <5>3
      <4>2. CASE ~ InPart(c)
        BY <2>3, <2>5, <4>2
      <4>3. QED  BY <4>1, <4>2
    <3>2. /\ inbox'[c] = Append(d, [line |-> Head(w), whole |-> TRUE])
          /\ wire'[c] = Tail(w)
      BY <2>6 DEF SessionTypeOK
    <3> HIDE DEF d
    <3>3. Coming(c, k, Tail(w), Append(d, [line |-> Head(w), whole |-> TRUE]),
                 j, a + 1)
      BY <1>1, <2>2, <2>3, <3>1, WholeArrives
    <3>4. Coming(c, k, wire'[c], inbox'[c], j, a + 1) /\ a + 1 \in Nat
      BY <3>2, <3>3
    <3>5. Open(c) => Turn(c, j + (a + 1) + Len(wire[c]))'
      <4>1. Len(wire'[c]) = Len(w) - 1 /\ Len(w) \in Nat
        BY <1>1, <2>3, <3>2, TailIs
      <4>2. \A x \in Nat : j + (a + 1) + (x - 1) = j + a + x
        OBVIOUS
      <4>3. j + (a + 1) + Len(wire'[c]) = j + a + Len(w)
        BY <4>1, <4>2
      <4>4. QED  BY <2>2, <2>4, <4>3
    <3>6. QED  BY <2>2, <2>3, <3>4, <3>5
  <2>7. CASE /\ ~ InPart(c) /\ Head(w) # NoLine /\ wire' = wire
             /\ inbox' = [inbox EXCEPT ![c] =
                            Append(IF InPart(c) THEN Front(b) ELSE b,
                                   [line |-> Head(w), whole |-> FALSE])]
    <3>1. /\ inbox'[c] = Append(b, [line |-> Head(w), whole |-> FALSE])
          /\ wire'[c] = w
      BY <2>7 DEF SessionTypeOK
    <3>2. Coming(c, k, w, Append(b, [line |-> Head(w), whole |-> FALSE]), j, a)
      BY <1>1, <2>2, <2>3, <2>5, <2>7, PartArrives
    <3>3. Coming(c, k, wire'[c], inbox'[c], j, a)
      BY <3>1, <3>2
    <3>4. Open(c) => Turn(c, j + a + Len(wire[c]))'
      BY <2>2, <2>4, <3>1
    <3>5. QED  BY <2>2, <2>3, <3>3, <3>4
  <2>8. QED  BY <2>6, <2>7 DEF Arrives
<1>5. QED
  BY <1>1, <1>2, <1>3, <1>4 DEF Talk, Fresh, Asking

\* The end of the process in the thread of this connection.
LEMMA TalkDies ==
  ASSUME SessionTypeOK, NEW c \in Clients, Talk(c), Open(c), Dies(server[c]),
         UNCHANGED <<clientVars, nth>>, wire'[c] = wire[c], inbox'[c] = inbox[c],
         thread[c].does # "nothing"
  PROVE  Talk(c)'
<1>1. server' = server /\ asked' = asked /\ pc' = pc /\ printed' = printed
  BY DEF clientVars
<1>2. server[c] \in Servers /\ phase'[server[c]] = "ended"
  BY DEF Open, Alive, Dies, SessionTypeOK, PhaseOK
<1>3. ~ Open(c)' /\ Connected(c)'
  BY <1>1, <1>2 DEF Open, Alive, Talk, Connected
<1>4. pc[c] # "start"
  BY DEF Talk, Fresh
<1>5. (Silent(c)' <=> Silent(c)) /\ Prefix(c, printed[c], asked[c])'
  BY <1>1 DEF Silent, Talk
<1>6. Listening(c)'
  <2>1. SUFFICES ASSUME pc'[c] = "response"
                 PROVE  /\ asked'[c] > 0
                        /\ ~ Silent(c)' =>
                             \E j, a \in Nat :
                               /\ PrintedUpTo(c, printed'[c], asked'[c], j)
                               /\ Coming(c, asked'[c], wire'[c], inbox'[c], j, a)
    BY <1>3 DEF Listening
  <2>2. /\ asked[c] > 0
        /\ ~ Silent(c) =>
             \E j, a \in Nat : /\ PrintedUpTo(c, printed[c], asked[c], j)
                               /\ Coming(c, asked[c], wire[c], inbox[c], j, a)
    BY <1>1, <2>1 DEF Talk, Listening
  <2>3. QED  BY <1>1, <1>5, <2>2
<1>7. QED
  BY <1>1, <1>3, <1>4, <1>5, <1>6 DEF Talk, Fresh, Asking

\* A step of the thread that leaves the server running, to a thread that has
\* written what is on the wire now.
LEMMA TalkAnswers ==
  ASSUME SessionTypeOK, NEW c \in Clients, Talk(c), Open(c),
         UNCHANGED <<phase, clientVars, nth>>, inbox'[c] = inbox[c],
         thread[c].does # "nothing",
         thread'[c].does # "nothing", pc[c] # "send",
         pc[c] = "response" =>
           \E j, a \in Nat :
             /\ PrintedUpTo(c, printed[c], asked[c], j)
             /\ Coming(c, asked[c], wire'[c], inbox[c], j, a)
             /\ Turn(c, j + a + Len(wire[c]))'
  PROVE  Talk(c)'
<1>1. /\ server' = server /\ asked' = asked /\ pc' = pc /\ printed' = printed
      /\ phase' = phase /\ nth' = nth
  BY DEF clientVars
<1>2. /\ Open(c)' /\ Connected(c)' /\ pc[c] # "start"
      /\ Prefix(c, printed[c], asked[c])'
  BY <1>1 DEF Open, Alive, Talk, Connected, Fresh
<1>3. Listening(c)'
  BY <1>1 DEF Listening, Talk
<1>4. Asking(c)'
  BY <1>1 DEF Asking
<1>5. (pc[c] = "done" /\ Open(c) => PrintedAll(c))'
  BY <1>1 DEF Talk, PrintedAll
<1>6. QED  BY <1>1, <1>2, <1>3, <1>4, <1>5 DEF Talk, Fresh

\* While the client waits for its response, the thread has the query or writes.
LEMMA TurnIs ==
  ASSUME SessionTypeOK, NEW c \in Clients, Talk(c), Open(c), pc[c] = "response"
  PROVE  /\ asked[c] \in 1 .. Len(get_queries[c])
         /\ Rows[c][asked[c]] \in Nat
         /\ wire[c] \in Seq(Nat \X Nat) /\ inbox[c] \in Seq(Text)
         /\ \E j, a \in Nat :
              /\ PrintedUpTo(c, printed[c], asked[c], j)
              /\ Coming(c, asked[c], wire[c], inbox[c], j, a)
              /\ Turn(c, j + a + Len(wire[c]))
<1>1. asked[c] \in 1 .. Len(get_queries[c])
  BY AskedIs DEF Talk, Listening
<1>2. Rows[c][asked[c]] \in Nat
  BY <1>1, RowsIs
<1>3. wire[c] \in Seq(Nat \X Nat) /\ inbox[c] \in Seq(Text)
  BY DEF SessionTypeOK, Text
<1>4. QED  BY <1>1, <1>2, <1>3 DEF Talk, Listening

LEMMA TalkReads ==
  ASSUME SessionTypeOK, NEW c \in Clients, Talk(c),
         ReadsQuery(c) \/ ReadsReset(c) \/ ReadsEof(c)
  PROVE  Talk(c)'
<1>1. /\ Open(c) /\ thread[c].does = "read" /\ UNCHANGED <<clientVars, nth>>
      /\ wire' = wire /\ inbox' = inbox
  BY DEF ReadsQuery, ReadsReset, ReadsEof, Does
<1>2. CASE Dies(server[c])
  BY <1>1, <1>2, TalkDies
<1>3. CASE ReadsReset(c) \/ ReadsEof(c)
  <2>1. /\ pc[c] \in {"done", "gone"} /\ UNCHANGED phase
        /\ thread'[c].does \in {"respond", "freed"}
    BY <1>3 DEF ReadsReset, ReadsEof, Reset, SessionTypeOK
  <2>2. QED  BY <1>1, <2>1, TalkAnswers
<1>4. CASE /\ ReadsQuery(c) /\ phase' = phase
           /\ thread' = [thread EXCEPT ![c] =
                [does |-> "respond", query |-> Head(toServer[c]), row |-> 0]]
  <2>1. /\ toServer[c] # <<>> /\ toServer'[c] = Tail(toServer[c])
        /\ thread'[c] = [does |-> "respond", query |-> Head(toServer[c]), row |-> 0]
    BY <1>4 DEF ReadsQuery, SessionTypeOK
  <2>2. pc[c] # "send"
    BY <1>1, <2>1 DEF Talk, Asking
  <2>3. ASSUME pc[c] = "response"
        PROVE  \E j, a \in Nat :
                 /\ PrintedUpTo(c, printed[c], asked[c], j)
                 /\ Coming(c, asked[c], wire'[c], inbox[c], j, a)
                 /\ Turn(c, j + a + Len(wire[c]))'
    <3>1. PICK j \in Nat, a \in Nat :
            /\ PrintedUpTo(c, printed[c], asked[c], j)
            /\ Coming(c, asked[c], wire[c], inbox[c], j, a)
            /\ Turn(c, j + a + Len(wire[c]))
      BY <1>1, <2>3, TurnIs
    <3>2. toServer[c] = <<asked[c]>> /\ j + a + Len(wire[c]) = 0
      BY <1>1, <2>1, <3>1 DEF Turn
    <3>3. Head(toServer[c]) = asked[c] /\ Tail(toServer[c]) = <<>>
      BY <3>2
    <3>4. Rows[c][asked[c]] \in Nat /\ asked'[c] = asked[c]
      BY <1>1, <2>3, TurnIs DEF clientVars
    <3>5. Turn(c, 0)'
      BY <2>1, <3>3, <3>4 DEF Turn
    <3>6. Turn(c, j + a + Len(wire[c]))'
      BY <1>1, <3>2, <3>5
    <3>7. QED  BY <1>1, <3>1, <3>6
  <2>4. thread'[c].does # "nothing" /\ thread[c].does # "nothing"
        /\ inbox'[c] = inbox[c] /\ UNCHANGED <<phase, clientVars, nth>>
    BY <1>1, <1>4, <2>1
  <2>5. QED  BY <1>1, <2>2, <2>3, <2>4, TalkAnswers
<1>5. QED  BY <1>2, <1>3, <1>4 DEF ReadsQuery

\* The thread writes the next line, or the zero.
LEMMA TalkWrites ==
  ASSUME SessionTypeOK, NEW c \in Clients, Talk(c), SendsLine(c) \/ SendsZero(c)
  PROVE  Talk(c)'
<1> DEFINE k == asked[c]
           w == wire[c]
           Wrote(l) == wire' = [wire EXCEPT ![c] = Append(wire[c], l)]
<1>1. /\ Open(c) /\ thread[c].does = "respond" /\ UNCHANGED <<clientVars, nth>>
      /\ inbox' = inbox /\ toServer' = toServer
  BY DEF SendsLine, SendsZero, Does
<1>2. \/ Dies(server[c]) /\ wire' = wire
      \/ UNCHANGED phase
  BY DEF SendsLine, SendsZero, Writes
<1>3. CASE Dies(server[c]) /\ wire' = wire
  BY <1>1, <1>3, TalkDies
<1>4. CASE UNCHANGED phase
  <2>1. pc[c] # "send" /\ thread'[c].does # "nothing"
    <3>1. pc[c] # "send"
      BY <1>1 DEF Talk, Asking
    <3>2. \/ thread' = [thread EXCEPT ![c].row = @ + 1]
          \/ thread' = [thread EXCEPT ![c].does = "read"]
      BY DEF SendsLine, SendsZero
    <3>3. thread \in [Clients -> [does : Talkers, query : Nat, row : Nat]]
      BY DEF SessionTypeOK
    <3>4. QED  BY <1>1, <3>1, <3>2, <3>3
  <2>2. ASSUME pc[c] = "response"
        PROVE  \E j, a \in Nat :
                 /\ PrintedUpTo(c, printed[c], k, j)
                 /\ Coming(c, k, wire'[c], inbox[c], j, a)
                 /\ Turn(c, j + a + Len(wire[c]))'
    <3>1. PICK j \in Nat, a \in Nat :
            /\ PrintedUpTo(c, printed[c], k, j)
            /\ Coming(c, k, w, inbox[c], j, a)
            /\ Turn(c, j + a + Len(w))
      BY <1>1, <2>2, TurnIs
    <3>2. /\ k \in 1 .. Len(get_queries[c]) /\ Rows[c][k] \in Nat
          /\ w \in Seq(Nat \X Nat) /\ inbox[c] \in Seq(Text)
      BY <1>1, <2>2, TurnIs
    <3>4. PICK m \in Nat : m = j + a + Len(w)
      <4>1. Len(w) \in Nat
        BY <3>2
      <4>2. \A y \in Nat : j + a + y \in Nat
        OBVIOUS
      <4>3. QED  BY <4>1, <4>2
    <3>3. /\ thread[c].query = k /\ thread[c].row = m /\ m <= Rows[c][k]
          /\ toServer[c] = <<>>
      BY <1>1, <3>1, <3>4 DEF Turn
    <3>5. \/ /\ m < Rows[c][k] /\ Wrote(<<k, m + 1>>)
             /\ thread' = [thread EXCEPT ![c].row = @ + 1]
          \/ /\ m = Rows[c][k] /\ Wrote(NoLine)
             /\ thread' = [thread EXCEPT ![c].does = "read"]
      <4>1. \A l : Writes(c, l) => Wrote(l)
        BY <2>2 DEF Writes
      <4>2. CASE SendsLine(c)
        BY <3>3, <4>1, <4>2 DEF SendsLine, Lines
      <4>3. CASE SendsZero(c)
        BY <3>3, <4>1, <4>3 DEF SendsZero, Lines
      <4>4. QED  BY <4>2, <4>3
    <3> DEFINE x == NthLine(c, k, m + 1)
    <3>6. wire'[c] = Append(w, x)
      <4>1. x = IF m < Rows[c][k] THEN <<k, m + 1>> ELSE NoLine
        <5>1. Rows[c][k] \in Nat
          BY <3>2
        <5>2. m + 1 <= Rows[c][k] <=> m < Rows[c][k]
          BY <5>1
        <5>3. QED  BY <5>2 DEF NthLine
      <4>2. Wrote(x)
        <5>1. CASE m < Rows[c][k] /\ Wrote(<<k, m + 1>>)
          BY <4>1, <5>1
        <5>2. CASE m = Rows[c][k] /\ Wrote(NoLine)
          <6>1. x = NoLine
            BY <3>2, <4>1, <5>2
          <6>2. QED  BY <5>2, <6>1
        <5>3. QED  BY <3>5, <5>1, <5>2
      <4>3. QED  BY <4>2 DEF SessionTypeOK
    <3>7. Coming(c, k, Append(w, x), inbox[c], j, a)
      BY <3>1, <3>2, <3>3, <3>4, OneMoreComing
    <3>8. j + a + Len(wire'[c]) = m + 1
      <4>1. x \in Nat \X Nat
        <5>1. m + 1 \in Nat
          OBVIOUS
        <5>2. QED  BY <3>2, <5>1, LineIs
      <4> HIDE DEF x
      <4>2. Len(Append(w, x)) = Len(w) + 1 /\ Len(w) \in Nat
        BY <3>2, <4>1, AppendIs
      <4>3. \A y \in Nat : j + a + (y + 1) = j + a + y + 1
        OBVIOUS
      <4>4. QED  BY <3>4, <3>6, <4>2, <4>3
    <3>9. Turn(c, m + 1)'
      <4> HIDE DEF x
      <4>1. asked'[c] = k /\ toServer'[c] = <<>>
        BY <1>1, <3>3 DEF clientVars
      <4>2. thread[c] \in [does : Talkers, query : Nat, row : Nat]
        BY DEF SessionTypeOK
      <4>3. CASE /\ m < Rows[c][k]
                 /\ thread' = [thread EXCEPT ![c].row = @ + 1]
        <5>1. /\ thread'[c].does = "respond" /\ thread'[c].query = k
              /\ thread'[c].row = m + 1
          BY <1>1, <3>3, <4>2, <4>3 DEF SessionTypeOK
        <5>2. m + 1 <= Rows[c][k]
          BY <3>2, <3>4, <4>3
        <5>3. QED  BY <4>1, <5>1, <5>2 DEF Turn
      <4>4. CASE /\ m = Rows[c][k]
                 /\ thread' = [thread EXCEPT ![c].does = "read"]
        <5>1. thread'[c].does = "read"
          BY <4>2, <4>4 DEF SessionTypeOK
        <5>2. QED  BY <4>1, <4>4, <5>1 DEF Turn
      <4>5. QED  BY <3>5, <4>3, <4>4
    <3>10. Turn(c, j + a + Len(wire[c]))'
      BY <3>8, <3>9
    <3>11. Coming(c, k, wire'[c], inbox[c], j, a)
      BY <3>6, <3>7
    <3> HIDE DEF x
    <3>12. QED  BY <3>1, <3>10, <3>11
  <2>3. QED  BY <1>1, <1>4, <2>1, <2>2, TalkAnswers
<1>5. QED  BY <1>2, <1>3, <1>4

-------------------------------------------------------------------------------
LEMMA WholeAtFirst == SessionInit => \A c \in Clients : Whole(c)
  BY DEF SessionInit, Idle, Whole

LEMMA TalkInit == SessionInit => TalkInv
<1> SUFFICES ASSUME SessionInit PROVE TalkInv
  OBVIOUS
<1>1. FileInv /\ SessionTypeOK
  BY FileInit, TypeInit
<1>2. ASSUME NEW c \in Clients PROVE Talk(c)
  <2>1. /\ pc[c] = "start" /\ asked[c] = 0 /\ printed[c] = <<>>
        /\ server[c] = NoServer /\ toServer[c] = <<>> /\ Silent(c)
        /\ thread[c].does = "nothing"
    BY DEF SessionInit, Silent, Idle
  <2>2. Connected(c)
    BY <2>1, RowsTyped DEF Connected
  <2>3. Prefix(c, printed[c], asked[c])
    <3>1. 1 \in 1 .. 0 + 1 /\ PrintedUpTo(c, <<>>, 1, 0)
      BY NothingPrinted
    <3>2. Prefix(c, <<>>, 0)
      BY <3>1 DEF Prefix
    <3>3. QED  BY <2>1, <3>2
  <2>4. QED  BY <2>1, <2>2, <2>3 DEF Talk, Fresh, Asking, Listening
<1>3. QED  BY <1>1, <1>2, WholeAtFirst DEF TalkInv

\* A step of one connection leaves all others alone.
LEMMA OthersAreLeftAlone ==
  ASSUME SessionTypeOK, NEW c \in Clients, Session(c) \/ Leaves(c),
         NEW d \in Clients \ {c}
  PROVE  UNCHANGED <<conn(d), nth[d]>>
<1> USE DEF SessionTypeOK
<1>1. CASE Accepts(c)
  BY <1>1 DEF Accepts, conn, clientVars
<1>2. CASE Thread(c)
  <2>1. UNCHANGED <<clientVars, nth, inbox>>
    BY <1>2 DEF Thread, ReadsQuery, ReadsGarbled, ReadsReset, ReadsEof, SendsLine,
                SendsZero, SendsOther, RunsOn, Does, streamVars
  <2>2. wire'[d] = wire[d] /\ toServer'[d] = toServer[d]
    BY <1>2 DEF Thread, ReadsQuery, ReadsGarbled, ReadsReset, ReadsEof, SendsLine,
                SendsZero, SendsOther, RunsOn, Writes, streamVars
  <2>3. thread'[d] = thread[d]
    BY <1>2 DEF Thread, ReadsQuery, ReadsGarbled, ReadsReset, ReadsEof, SendsLine,
                SendsZero, SendsOther, RunsOn, streamVars
  <2>4. QED  BY <2>1, <2>2, <2>3 DEF conn, clientVars
<1>3. CASE Arrives(c)
  <2>1. UNCHANGED <<clientVars, nth, toServer, thread>> /\ wire'[d] = wire[d]
    BY <1>3 DEF Arrives
  <2>2. inbox'[d] = inbox[d]
    BY <1>3 DEF Arrives
  <2>3. QED  BY <2>1, <2>2 DEF conn, clientVars
<1>4. CASE Connects(c) \/ Sends(c) \/ Finishes(c) \/ SeesEnd(c) \/ Leaves(c)
  BY <1>4 DEF Connects, Sends, Finishes, SeesEnd, Leaves, To, conn, streamVars
<1>5. CASE ReadsLine(c)
  <2>1. pc'[d] = pc[d]
    BY <1>5 DEF ReadsLine, To
  <2>2. inbox'[d] = inbox[d] /\ printed'[d] = printed[d]
    BY <1>5 DEF ReadsLine
  <2>3. UNCHANGED <<server, asked, nth, toServer, wire, thread>>
    BY <1>5 DEF ReadsLine
  <2>4. QED  BY <2>1, <2>2, <2>3 DEF conn
<1>6. QED  BY <1>1, <1>2, <1>3, <1>4, <1>5 DEF Session, Client

\* A thread that has lost the beginning of a query does not find it again.
LEMMA GarbledStays ==
  ASSUME SessionTypeOK, [SessionNext]_sessionVars, NEW d \in Clients,
         ~ Whole(d), nth[d] # 0
  PROVE  (~ Whole(d) /\ nth[d] # 0)'
<1>1. CASE UNCHANGED <<conn(d), nth[d]>>
  BY <1>1 DEF conn, Whole
<1>2. CASE UNCHANGED sessionVars \/ \E s \in Servers : Server(s)
  <2>1. UNCHANGED <<clientVars, streamVars>>
    BY <1>2 DEF sessionVars, clientVars, streamVars, Server, Checks, Refused,
                Creates, Listens, StartFails, RemovesEarly, Interrupted,
                RemovesFile, Ends
  <2>2. QED  BY <2>1 DEF streamVars, Whole
<1>3. ASSUME NEW c \in Clients, Session(c) \/ Leaves(c)
      PROVE  (~ Whole(d) /\ nth[d] # 0)'
  <2>1. CASE c # d
    BY <1>1, <1>3, <2>1, OthersAreLeftAlone
  <2>2. CASE c = d
    <3>1. ~ Accepts(d)
      BY DEF Accepts
    <3>2. CASE Thread(d)
      BY <3>2 DEF Thread, ReadsQuery, ReadsGarbled, ReadsReset, ReadsEof, SendsLine,
                  SendsZero, SendsOther, RunsOn, Does, streamVars, Whole
    <3>3. CASE Arrives(d) \/ Client(d) \/ Leaves(d)
      BY <3>3 DEF Arrives, Client, Connects, Sends, Finishes, ReadsLine, SeesEnd,
                  Leaves, streamVars, Whole
    <3>4. QED  BY <1>3, <2>2, <3>1, <3>2, <3>3 DEF Session
  <2>3. QED  BY <2>1, <2>2
<1>4. QED  BY <1>2, <1>3 DEF SessionNext

\* One that loses it has been given its connection by accept().
LEMMA TurnsGarbled ==
  ASSUME SessionTypeOK, [SessionNext]_sessionVars, NEW d \in Clients, Talk(d),
         Whole(d), ~ Whole(d)'
  PROVE  nth'[d] # 0
<1>1. ~ UNCHANGED <<conn(d), nth[d]>>
  BY DEF conn, Whole
<1>2. ~ (UNCHANGED sessionVars \/ \E s \in Servers : Server(s))
  BY <1>1 DEF sessionVars, clientVars, streamVars, Server, Checks, Refused,
              Creates, Listens, StartFails, RemovesEarly, Interrupted,
              RemovesFile, Ends, conn
<1>3. PICK c \in Clients : Session(c) \/ Leaves(c)
  BY <1>2 DEF SessionNext
<1>4. c = d
  BY <1>1, <1>3, OthersAreLeftAlone
<1>5. CASE Accepts(d)
  <2>1. thread'[d].does = "read"
    BY <1>5 DEF Accepts, SessionTypeOK
  <2>2. QED  BY <2>1 DEF Whole
<1>6. CASE Thread(d)
  <2>1. thread[d].does # "nothing" /\ nth' = nth
    <3>1. thread' # thread
      BY DEF Whole
    <3>2. ~ RunsOn(d) /\ ~ SendsOther(d)
      BY <3>1 DEF RunsOn, SendsOther, streamVars
    <3>3. QED
      BY <1>6, <3>2 DEF Thread, ReadsQuery, ReadsGarbled, ReadsReset, ReadsEof,
                        SendsLine, SendsZero, Does
  <2>2. QED  BY <2>1 DEF Talk, Connected
<1>7. CASE Arrives(d) \/ Client(d) \/ Leaves(d)
  BY <1>7 DEF Arrives, Client, Connects, Sends, Finishes, ReadsLine, SeesEnd,
              Leaves, streamVars, Whole
<1>8. QED  BY <1>3, <1>4, <1>5, <1>6, <1>7 DEF Session

\* What a thread does with a query that it did not read whole, or on a closed
\* descriptor.
LEMMA TalkUnread ==
  ASSUME SessionTypeOK, NEW c \in Clients, Talk(c), Whole(c), Whole(c)', Forward,
         ReadsGarbled(c) \/ SendsOther(c) \/ RunsOn(c)
  PROVE  Talk(c)'
<1>1. ~ ReadsGarbled(c)
  <2>1. SUFFICES ASSUME ReadsGarbled(c) PROVE FALSE
    OBVIOUS
  <2>2. thread' = [thread EXCEPT ![c] = [Idle EXCEPT !.does = "garbled"]]
    BY <2>1 DEF ReadsGarbled
  <2>3. thread'[c].does = "garbled"
    BY <2>2 DEF SessionTypeOK, Idle
  <2>4. QED  BY <2>3 DEF Whole
<1>2. ~ SendsOther(c)
  BY DEF SendsOther, Does, Whole
<1>3. UNCHANGED <<conn(c), nth[c]>>
  BY <1>1, <1>2 DEF RunsOn, clientVars, streamVars, conn
<1>4. QED  BY <1>3, Undisturbed

LEMMA TalkStep == TalkInv /\ [SessionNext]_sessionVars => TalkInv'
<1> SUFFICES ASSUME TalkInv, [SessionNext]_sessionVars PROVE TalkInv'
  OBVIOUS
<1>1. FileInv /\ SessionTypeOK /\ PhaseOK
  BY DEF TalkInv, FileInv
<1>2. FileInv' /\ SessionTypeOK' /\ Forward
  BY <1>1, FileStep, TypeStep, ServersGoForward
<1>3. ASSUME NEW d \in Clients, ~ Whole(d) PROVE (~ Whole(d) /\ nth[d] # 0)'
  <2>1. nth[d] # 0
    BY <1>3 DEF TalkInv
  <2>2. QED  BY <1>1, <1>3, <2>1, GarbledStays
<1>4. ASSUME NEW d \in Clients, Whole(d), Whole(d)' PROVE Talk(d)'
  <2> Talk(d)
    BY <1>4 DEF TalkInv
  <2>1. CASE UNCHANGED <<conn(d), nth[d]>>
    BY <1>1, <1>2, <2>1, Undisturbed
  <2>2. CASE UNCHANGED sessionVars \/ \E s \in Servers : Server(s)
    <3>1. UNCHANGED <<clientVars, streamVars>>
      BY <2>2 DEF sessionVars, clientVars, streamVars, Server, Checks, Refused,
                  Creates, Listens, StartFails, RemovesEarly, Interrupted,
                  RemovesFile, Ends
    <3>2. UNCHANGED <<conn(d), nth[d]>>
      BY <3>1 DEF conn, clientVars, streamVars
    <3>3. QED  BY <2>1, <3>2
  <2>3. ASSUME NEW c \in Clients, Session(c) \/ Leaves(c) PROVE Talk(d)'
    <3>1. CASE c # d
      BY <1>1, <2>1, <2>3, <3>1, OthersAreLeftAlone
    <3>2. CASE c = d
      BY <1>1, <1>2, <1>4, <2>3, <3>2, TalkAccepts, TalkConnects, TalkSends,
         TalkEnds, TalkReadsLine, TalkArrives, TalkReads, TalkWrites, TalkUnread
         DEF Session, Thread, Client
    <3>3. QED  BY <3>1, <3>2
  <2>4. QED  BY <2>2, <2>3 DEF SessionNext
<1>5. ASSUME NEW d \in Clients, ~ Whole(d)' PROVE nth'[d] # 0
  <2>1. CASE ~ Whole(d)
    BY <1>3, <2>1
  <2>2. CASE Whole(d)
    <3>1. Talk(d)
      BY <2>2 DEF TalkInv
    <3>2. QED  BY <1>1, <1>5, <2>2, <3>1, TurnsGarbled
  <2>3. QED  BY <2>1, <2>2
<1>6. QED  BY <1>2, <1>4, <1>3, <1>5 DEF TalkInv

LEMMA TalkIsRight == TalkInv => ResponseExact
<1> SUFFICES ASSUME TalkInv, NEW c \in Clients, pc[c] # "astray", Whole(c)
             PROVE  LET lines == {printed[c][i] : i \in DOMAIN printed[c]}
                    IN /\ \A i, j \in DOMAIN printed[c] :
                            i < j => Before(printed[c][i], printed[c][j])
                       /\ lines \subseteq AllLines(c, asked[c])
                       /\ \A l \in AllLines(c, asked[c]), m \in lines :
                            Before(l, m) => l \in lines
                       /\ pc[c] \in {"send", "done"} /\ Open(c) =>
                            lines = AllLines(c, asked[c])
  BY DEF ResponseExact, Whole
<1> DEFINE lines == {printed[c][i] : i \in DOMAIN printed[c]}
<1>1. /\ asked[c] \in Nat /\ asked[c] <= Len(get_queries[c])
      /\ Prefix(c, printed[c], asked[c])
  BY DEF TalkInv, Talk, Connected, SessionTypeOK
<1>2. /\ \A i, j \in DOMAIN printed[c] :
           i < j => Before(printed[c][i], printed[c][j])
      /\ lines \subseteq AllLines(c, asked[c])
      /\ \A l \in AllLines(c, asked[c]), m \in lines :
           Before(l, m) => l \in lines
  BY <1>1, PrefixIsRight
<1>3. pc[c] \in {"send", "done"} /\ Open(c) => lines = AllLines(c, asked[c])
  <2>1. SUFFICES ASSUME pc[c] \in {"send", "done"}, Open(c)
                 PROVE  lines = AllLines(c, asked[c])
    OBVIOUS
  <2>2. PrintedUpTo(c, printed[c], asked[c] + 1, 0)
    BY <2>1 DEF TalkInv, Talk, Asking, PrintedAll
  <2>3. QED  BY <1>1, <2>2, AllIsAll
<1>4. QED  BY <1>2, <1>3

\* client.c:70-101, t_pool.c:51-61: whatever portions the lines arrive in,
\* whenever a server ends or a client is killed, a client prints the lines of
\* its queries in order, none missing or twice, and all of them before it asks
\* on, until it takes a part of a line for a whole one, or the server a part of
\* one of its queries or a blank line.  For any number of servers and clients,
\* and any queries.txt.
THEOREM ResponsesAreExact == SessionSpec => []ResponseExact
  BY TalkInit, TalkStep, TalkIsRight, PTL DEF SessionSpec
=============================================================================
