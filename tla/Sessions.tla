------------------------------ MODULE Sessions ------------------------------
(***************************************************************************)
(* Servers and clients of the Final-Project as processes: how a server     *)
(* starts, the file that is to keep a second one away, what SIGINT and     *)
(* other ends do to it, and what passes between a client and the thread    *)
(* that has its connection (server.c, t_pool.c, client.c).                 *)
(*                                                                         *)
(* The pool is abstracted from: every connection that main() accepts has a *)
(* thread (ThreadPool is about when it has not), and threads do not wait   *)
(* for each other (ReaderWriter).  A query is the number of lines of its   *)
(* response, 0 if it has an unknown type or column.                        *)
(*                                                                         *)
(* A line goes over a stream as its length and its text; the zero after    *)
(* the last line of a response is NoLine.  What a server has written       *)
(* arrives in any portions, so that a read() may find a part of a line;    *)
(* and what a client has written likewise.  A query of which a part is     *)
(* read, or a blank line, is taken apart into words that nobody has        *)
(* assigned, so that any lines may come back, or the server may end: its   *)
(* thread is "garbled".                                                    *)
(***************************************************************************)
EXTENDS Splitting, SequencesExt

CONSTANTS Servers,     \* invocations of the server
          Clients,
          MayLeave,    \* the clients that may be killed
          QueryLines,  \* queries.txt: [id, rows], or BlankLine
          CutNth       \* the connection that gets the number instantiation_fd
                       \* had: 3 if the server was started with 0, 1 and 2.
                       \* my_daemon() closes them all; the log is 0 then, the
                       \* dataset, which count_columns() leaves open, 1, the
                       \* listening socket 2, and the first connection 3

BlankLine == [id |-> "blank", rows |-> 0]

ASSUME SessionAssumption ==
  /\ QueryLines \in Seq([id : STRING, rows : Nat]) \ {<<>>}
  /\ QueryLines[1] # BlankLine
  /\ CutNth \in Nat \ {0}
  /\ "none" \notin Servers

VARIABLES temp_file, \* does the file of the single instance exist?
          phase,     \* of each server
          raced,     \* two servers have looked for it before either had created it
          left,      \* a server has ended without removing it
          accepted,  \* connections of each server so far
          pc,        \* of each client
          server,    \* the server a client is connected to
          nth,       \* its connection is that server's nth, 0 in the backlog
          asked,     \* queries written by each client
          size,      \* the line whose length it read last
          toServer,  \* queries the server has not read
          wire, inbox,  \* lines on the way to a client, and arrived
          thread,    \* what the thread of a client's connection does
          printed    \* the lines a client has printed

sessionVars == <<temp_file, phase, raced, left, accepted, pc, server, nth, asked,
                 size, toServer, wire, inbox, thread, printed>>

fileVars   == <<temp_file, raced, left>>
serverVars == <<phase, accepted>>
clientVars == <<pc, server, asked, size, printed>>
streamVars == <<nth, toServer, wire, inbox, thread>>

\* The line of text at or before i, which stays behind where a blank one is
\* read.
LastText(lines, i) ==
  CHOOSE k \in 1 .. i : /\ lines[k] # BlankLine
                        /\ \A l \in k + 1 .. i : lines[l] = BlankLine

\* get_queries(): sscanf() leaves id_in_line as it was at a blank line, which
\* thus belongs to the client of the line before it.
Owner(i) == QueryLines[LastText(QueryLines, i)].id

get_queries ==
  [c \in Clients |-> Kept(QueryLines, {i \in DOMAIN QueryLines : Owner(i) = c})]

\* The lines that come back for the kth query.
Rows == [c \in Clients |->
           [k \in DOMAIN get_queries[c] |-> get_queries[c][k].rows]]

NoServer == "none"
NoLine   == <<0, 0>>
OtherLine == <<0, 1>>    \* a line of the response to a garbled query
Idle     == [does |-> "nothing", query |-> 0, row |-> 0]

SessionInit ==
  /\ temp_file = FALSE /\ raced = FALSE /\ left = FALSE
  /\ phase = [s \in Servers |-> "off"] /\ accepted = [s \in Servers |-> 0]
  /\ pc = [c \in Clients |-> "start"] /\ server = [c \in Clients |-> NoServer]
  /\ nth = [c \in Clients |-> 0] /\ asked = [c \in Clients |-> 0]
  /\ size = [c \in Clients |-> NoLine]
  /\ toServer = [c \in Clients |-> <<>>]
  /\ wire = [c \in Clients |-> <<>>] /\ inbox = [c \in Clients |-> <<>>]
  /\ thread = [c \in Clients |-> Idle] /\ printed = [c \in Clients |-> <<>>]

Accepting(s) == s \in Servers /\ phase[s] = "running"
Alive(s)     == s \in Servers /\ phase[s] \in {"running", "interrupted", "draining"}

\* The server's end of a connection: gone with the process, or closed by
\* handle_sigint() with the number of instantiation_fd.
Open(c) == /\ Alive(server[c])
           /\ ~ (nth[c] = CutNth /\ phase[server[c]] \in {"interrupted", "draining"})

-------------------------------------------------------------------------------
(* The start and the end of a server *)

Goes(s, from, to) == phase[s] = from /\ phase' = [phase EXCEPT ![s] = to]

\* Mutant: the file is not looked for.
StartsAnyway(s) == /\ Goes(s, "off", "checked")
                   /\ UNCHANGED <<fileVars, accepted, clientVars, streamVars>>

\* The file is looked for; a server that finds it exits.
Checks(s) == /\ ~ temp_file
             /\ Goes(s, "off", "checked")
             /\ UNCHANGED <<fileVars, accepted, clientVars, streamVars>>

Refused(s) == /\ temp_file
              /\ Goes(s, "off", "ended")
              /\ UNCHANGED <<fileVars, accepted, clientVars, streamVars>>

\* open() with O_CREAT, without O_EXCL.
Creates(s) == /\ Goes(s, "checked", "created")
              /\ temp_file' = TRUE
              /\ raced' = (raced \/ \E t \in Servers \ {s} : phase[t] = "checked")
              /\ UNCHANGED <<left, accepted, clientVars, streamVars>>

\* my_daemon(), the handler, the dataset, the threads, listen().
Listens(s) == /\ Goes(s, "created", "running")
              /\ UNCHANGED <<fileVars, accepted, clientVars, streamVars>>

\* No dataset, a port in use, or a SIGINT before there is a handler or a log.
StartFails(s) == /\ Goes(s, "created", "ended")
                 /\ left' = TRUE
                 /\ UNCHANGED <<temp_file, raced, accepted, clientVars, streamVars>>

Interrupted(s) == /\ Goes(s, "running", "interrupted")
                  /\ UNCHANGED <<fileVars, accepted, clientVars, streamVars>>

\* SIGINT after signal(), before listen().
RemovesEarly(s) == /\ Goes(s, "created", "leaving")
                   /\ temp_file' = FALSE
                   /\ UNCHANGED <<raced, left, accepted, clientVars, streamVars>>

\* Mutant: the file stays.
KeepsFile(s) == /\ Goes(s, "interrupted", "draining")
                /\ UNCHANGED <<fileVars, accepted, clientVars, streamVars>>

RemovesFile(s) == /\ Goes(s, "interrupted", "draining")
                  /\ temp_file' = FALSE
                  /\ UNCHANGED <<raced, left, accepted, clientVars, streamVars>>

\* pop() of the empty stack, the last pthread_join() (see ThreadPool), or that
\* of a thread which was not created.
Ends(s) == /\ Goes(s, "draining", "ended") \/ Goes(s, "leaving", "ended")
           /\ UNCHANGED <<fileVars, accepted, clientVars, streamVars>>

\* exit() of a thread, or SIGPIPE, ends the process where it is.
Dies(s) == /\ phase' = [phase EXCEPT ![s] = "ended"]
           /\ left' = (left \/ phase[s] # "draining")
           /\ UNCHANGED <<temp_file, raced, accepted>>

Accepts(c) == LET s == server[c]
              IN /\ Accepting(s)
                 /\ nth[c] = 0
                 /\ accepted' = [accepted EXCEPT ![s] = @ + 1]
                 /\ nth' = [nth EXCEPT ![c] = accepted[s] + 1]
                 /\ thread' = [thread EXCEPT ![c].does = "read"]
                 /\ UNCHANGED <<fileVars, phase, clientVars, toServer, wire, inbox>>

-------------------------------------------------------------------------------
(* The thread of a connection *)

Does(c, what) == /\ Open(c) /\ thread[c].does = what
                 /\ UNCHANGED <<accepted, clientVars, nth>>

\* Has the client left with something unread?  Its end is then reset, and
\* read() returns -1, not 0.
Reset(c) == pc[c] = "gone" /\ wire[c] \o inbox[c] # <<>>

ReadsQuery(c) ==
  /\ Does(c, "read") /\ toServer[c] # <<>>
  /\ toServer' = [toServer EXCEPT ![c] = Tail(@)]
  /\ LET k == Head(toServer[c])
     IN /\ get_queries[c][k] # BlankLine
        /\ \/ /\ Rows[c][k] > 0
              /\ thread' = [thread EXCEPT ![c] =
                              [does |-> "respond", query |-> k, row |-> 0]]
              /\ UNCHANGED <<fileVars, phase>>
           \/ /\ Rows[c][k] = 0
              /\ Dies(server[c])
              /\ UNCHANGED thread
  /\ UNCHANGED <<wire, inbox>>

\* read() takes a part of a query, or a blank line.
ReadsGarbled(c) ==
  /\ Does(c, "read") /\ toServer[c] # <<>>
  /\ thread' = [thread EXCEPT ![c] = [Idle EXCEPT !.does = "garbled"]]
  /\ toServer' = [toServer EXCEPT ![c] = <<>>]
  /\ UNCHANGED <<fileVars, phase, wire, inbox>>

\* The query that is still in the buffer is carried out once more.
ReadsReset(c) ==
  /\ Does(c, "read") /\ toServer[c] = <<>> /\ Reset(c) /\ thread[c].query # 0
  /\ thread' = [thread EXCEPT ![c].does = "respond", ![c].row = 0]
  /\ UNCHANGED <<fileVars, phase, toServer, wire, inbox>>

ReadsEof(c) ==
  /\ Does(c, "read") /\ toServer[c] = <<>>
  /\ pc[c] \in {"done", "gone"} /\ ~ Reset(c)
  /\ thread' = [thread EXCEPT ![c].does = "freed"]
  /\ UNCHANGED <<fileVars, phase, toServer, wire, inbox>>

\* What is written to a client that has gone is lost, and after the first
\* write() the next one is a SIGPIPE.
Writes(c, line) ==
  \/ /\ wire' = [wire EXCEPT ![c] = IF pc[c] \in {"done", "gone"} THEN @
                                    ELSE Append(@, line)]
     /\ UNCHANGED <<fileVars, phase>>
  \/ /\ pc[c] \in {"done", "gone"}
     /\ Dies(server[c])
     /\ UNCHANGED wire

\* Mutant: the zero is sent in place of the last line.
LinesButLast(c) == Rows[c][thread[c].query] - 1

Lines(c) == Rows[c][thread[c].query]

SendsLine(c) ==
  /\ Does(c, "respond") /\ thread[c].row < Lines(c)
  /\ thread' = [thread EXCEPT ![c].row = @ + 1]
  /\ Writes(c, <<thread[c].query, thread[c].row + 1>>)
  /\ UNCHANGED <<toServer, inbox>>

\* Mutant: a response is not ended.
SendsNoZero(c) ==
  /\ Does(c, "respond") /\ thread[c].row = Lines(c)
  /\ thread' = [thread EXCEPT ![c].does = "read"]
  /\ UNCHANGED <<fileVars, phase, toServer, wire, inbox>>

SendsZero(c) ==
  /\ Does(c, "respond") /\ thread[c].row = Lines(c)
  /\ thread' = [thread EXCEPT ![c].does = "read"]
  /\ Writes(c, NoLine)
  /\ UNCHANGED <<toServer, inbox>>

\* A thread that has lost the beginning of a query sends lines and zeros, or
\* ends the process; one at a time (a bound) is on its way.
SendsOther(c) ==
  /\ Does(c, "garbled") /\ wire[c] \o inbox[c] = <<>>
  /\ \/ \E line \in {OtherLine, NoLine} : Writes(c, line)
     \/ Dies(server[c]) /\ UNCHANGED wire
  /\ toServer' = [toServer EXCEPT ![c] = <<>>]
  /\ UNCHANGED <<thread, inbox>>

\* Where the descriptor has been closed read() takes what it was waiting for,
\* and then fails: what is in the buffer is carried out over and over, to
\* nobody's notice; unless it is nothing that was read whole, which may end the
\* process.
RunsOn(c) ==
  /\ Alive(server[c]) /\ ~ Open(c)
  /\ \/ thread[c].does = "read" /\ (thread[c].query = 0 \/ toServer[c] # <<>>)
     \/ thread[c].does = "garbled"
  /\ Dies(server[c])
  /\ UNCHANGED <<clientVars, streamVars>>

Thread(c) == \/ ReadsQuery(c) \/ ReadsGarbled(c) \/ ReadsReset(c) \/ ReadsEof(c)
             \/ SendsLine(c) \/ SendsZero(c) \/ SendsOther(c) \/ RunsOn(c)

-------------------------------------------------------------------------------
(* The client *)

InPart(c) == inbox[c] # <<>> /\ ~ Last(inbox[c]).whole

\* The next line arrives, whole or its first part, or the rest of it.
Arrives(c) ==
  /\ wire[c] # <<>> /\ pc[c] \notin {"done", "gone", "astray"}
  /\ LET before == IF InPart(c) THEN Front(inbox[c]) ELSE inbox[c]
         now(whole) == Append(before, [line |-> Head(wire[c]), whole |-> whole])
     IN \/ /\ inbox' = [inbox EXCEPT ![c] = now(TRUE)]
           /\ wire' = [wire EXCEPT ![c] = Tail(@)]
        \/ /\ ~ InPart(c) /\ Head(wire[c]) \notin {NoLine, OtherLine}
           /\ inbox' = [inbox EXCEPT ![c] = now(FALSE)]
           /\ UNCHANGED wire
  /\ UNCHANGED <<fileVars, serverVars, clientVars, nth, toServer, thread>>

To(c, where) == /\ pc' = [pc EXCEPT ![c] = where]
                /\ UNCHANGED <<fileVars, serverVars>>

\* connect() succeeds where a socket listens, also when main() does not accept.
Connects(c) ==
  /\ pc[c] = "start"
  /\ \/ \E s \in Servers : /\ Alive(s)
                           /\ server' = [server EXCEPT ![c] = s]
                           /\ To(c, "send")
     \/ /\ \A s \in Servers : ~ Alive(s)
        /\ To(c, "done") /\ UNCHANGED server
  /\ UNCHANGED <<asked, size, printed, streamVars>>

\* write() of a query; into a connection that has been closed it may raise
\* SIGPIPE.
Sends(c) ==
  /\ pc[c] = "send" /\ asked[c] < Len(get_queries[c])
  /\ \/ To(c, "response") /\ toServer' = [toServer EXCEPT ![c] = Append(@, asked[c] + 1)]
     \/ ~ Open(c) /\ To(c, "gone") /\ UNCHANGED toServer
  /\ asked' = [asked EXCEPT ![c] = @ + 1]
  /\ size' = [size EXCEPT ![c] = NoLine]
  /\ UNCHANGED <<server, printed, nth, wire, inbox, thread>>

Finishes(c) == /\ pc[c] = "send" /\ asked[c] = Len(get_queries[c])
               /\ To(c, "done")
               /\ UNCHANGED <<server, asked, size, printed, streamVars>>

\* get_response(): read() of a size, and unless it is 0 of a line, which takes
\* what there is of it; the next size is then read from the middle of the line.
\* Where lines come that it has not asked for a client is not followed further.
ReadsLine(c) ==
  /\ pc[c] = "response" /\ inbox[c] # <<>>
  /\ LET line == Head(inbox[c]).line
     IN IF line = NoLine THEN To(c, "send") /\ UNCHANGED <<size, printed>>
        ELSE /\ IF Head(inbox[c]).whole /\ line # OtherLine
                THEN To(c, "response") ELSE To(c, "astray")
             /\ size' = [size EXCEPT ![c] = line]
             /\ printed' = [printed EXCEPT ![c] = Append(@, line)]
  /\ inbox' = [inbox EXCEPT ![c] = Tail(@)]
  /\ UNCHANGED <<server, asked, nth, toServer, wire, thread>>

\* At the end of the stream read() returns 0 at once and size stays: the last
\* line is printed for ever, unless size, not yet assigned, happens to be 0.
SeesEnd(c) ==
  /\ pc[c] = "response" /\ inbox[c] \o wire[c] = <<>> /\ ~ Open(c)
  /\ To(c, "repeats") \/ (size[c] = NoLine /\ To(c, "send"))
  /\ UNCHANGED <<server, asked, size, printed, streamVars>>

\* The client is killed.
Leaves(c) == /\ c \in MayLeave
             /\ pc[c] \in {"send", "response", "repeats", "astray"}
             /\ To(c, "gone")
             /\ UNCHANGED <<server, asked, size, printed, streamVars>>

Client(c) == \/ Connects(c) \/ Sends(c) \/ Finishes(c)
             \/ ReadsLine(c) \/ SeesEnd(c)

Server(s) == \/ Checks(s) \/ Refused(s) \/ Creates(s) \/ Listens(s) \/ StartFails(s)
             \/ RemovesEarly(s) \/ Interrupted(s) \/ RemovesFile(s) \/ Ends(s)

\* Everything that happens on a connection but the death of the client.
Session(c) == Accepts(c) \/ Thread(c) \/ Arrives(c) \/ Client(c)

SessionNext == \/ \E s \in Servers : Server(s)
               \/ \E c \in Clients : Session(c) \/ Leaves(c)

\* Threads, clients and the network go on with each connection; nobody has to
\* start or interrupt a server.
SessionSpec == /\ SessionInit /\ [][SessionNext]_sessionVars
               /\ \A c \in Clients : WF_sessionVars(Session(c))

-------------------------------------------------------------------------------
(* Properties *)

\* From creating the file to removing it.
Holding(s) == phase[s] \in {"created", "running", "interrupted"}

\* A process that has removed the file and waits for its threads; its socket, if
\* it had come to listen, still takes connections.
Parting(s) == phase[s] \in {"draining", "leaving"}

Up(s) == Holding(s) \/ Parting(s)

\* Two servers are up together only if they looked for the file before either
\* had created it, or if one of them has been interrupted: the file is gone
\* before its process is.
OneServerButParting ==
  \A s, t \in Servers :
     Up(s) /\ Up(t) => s = t \/ raced \/ Parting(s) \/ Parting(t)

\* The file is there as long as somebody holds it and no longer, so that the
\* next server can be started: but for races, and ends other than by SIGINT.
FileFollowsServer ==
  /\ temp_file => left \/ \E s \in Servers : Holding(s)
  /\ ~ raced /\ (\E s \in Servers : Holding(s)) => temp_file

\* The lines of a client's first k queries, and the order they come in.
AllLines(c, k) == UNION {{<<q, i>> : i \in 1 .. Rows[c][q]} : q \in 1 .. k}

Before(l, m) == l[1] < m[1] \/ (l[1] = m[1] /\ l[2] < m[2])

\* What a client has printed are the lines of its queries, in order, none
\* missing or twice; and it goes on to its next query only when it has all
\* lines of the last.  Exceptions are a client that has been led astray by a
\* line that arrived in parts, one of whose queries the server has read a part,
\* or a blank line, and the loss of the server or of its end of the connection.
ResponseExact ==
  \A c \in Clients :
     pc[c] # "astray" /\ thread[c].does # "garbled" =>
       LET lines == {printed[c][i] : i \in DOMAIN printed[c]}
       IN /\ \A i, j \in DOMAIN printed[c] :
               i < j => Before(printed[c][i], printed[c][j])
          /\ lines \subseteq AllLines(c, asked[c])
          /\ \A l \in AllLines(c, asked[c]), m \in lines :
               Before(l, m) => l \in lines
          /\ pc[c] \in {"send", "done"} /\ Open(c) =>
               lines = AllLines(c, asked[c])

\* A client that is connected gets through its queries, as long as its server
\* runs and the lines arrive whole.
ClientEnds ==
  \A c \in Clients :
     pc[c] = "send" ~> \/ pc[c] \in {"done", "gone", "astray"}
                       \/ ~ Accepting(server[c])
=============================================================================
