------------------------------- MODULE MCServers -------------------------------
(***************************************************************************)
(* One of the servers that are built on TcpClients, whichever is chosen at *)
(* the beginning, with the same two clients.  The variables of the other   *)
(* servers keep the value Unused.                                          *)
(***************************************************************************)
EXTENDS Integers, FiniteSets, SequencesExt

CONSTANTS
  c1, c2, x1, x2, x3,
  Servers,    \* those to choose from
  UringSends  \* the Sends of the io_uring server

VARIABLES
  server,
  phase, backlog, owner, sent, inbox, outbox, got, spent, crashed,
  conn_list, interest, evs, failures,
  sq, ops, cq, nready, buffer, cut,
  watched, maxfd, revents, i,
  program, listening, edges, reading, taken,
  cells, cell, threads

Client == {c1, c2}
Fd == 1 .. 2
Sends == c1 :> 2 @@ c2 :> 1
OneEach == c1 :> 1 @@ c2 :> 1
TwoOfOne == c1 :> 2 @@ c2 :> 0
Unused == 0

Tcp == INSTANCE TcpClients WITH Room <- 2
Echo == INSTANCE EchoReactor WITH Room <- 2
Web == INSTANCE WebServer WITH Room <- 2, MaxFailures <- 1, Sends <- OneEach
Web2 == INSTANCE WebServer WITH Room <- 2, MaxFailures <- 1, Sends <- TwoOfOne
WS == INSTANCE WebSocket WITH Room <- 2, Messages <- (c1 :> <<125, 1>> @@ c2 :> <<126>>), Patient <- {c2}
\* With room for one piece only, a send may be cut short.
Uring == INSTANCE UringEcho WITH Room <- 1, Sends <- UringSends
Poll == INSTANCE PollServer WITH Room <- 2
\* The second port is one that islistenfd does not know.
Reader == INSTANCE EpollReader WITH Room <- 2, Port <- {0, 1}, PortOf <- (c1 :> 0 @@ c2 :> 1), MAX_PORT <- 1
Threads == INSTANCE OneByOne WITH Room <- 2, Cell <- {x1, x2, x3}

tcpVars == <<phase, backlog, owner, sent, inbox, outbox, got, spent, crashed>>
reactorVars == <<conn_list, interest>>
uringVars == <<sq, ops, cq, nready, buffer, cut>>
pollVars == <<watched, maxfd, revents, i>>
readerVars == <<program, listening, edges, reading>>
threadVars == <<cells, cell, threads>>
ownVars == <<reactorVars, evs, failures, uringVars, pollVars, readerVars, taken, threadVars>>
vars == <<server, tcpVars, ownVars>>

NoReactor == conn_list = Unused /\ interest = Unused
NoEvents == evs = Unused
NoFailures == failures = 0
NoUring == sq = Unused /\ ops = Unused /\ cq = Unused /\ nready = Unused /\ buffer = Unused /\ cut = {}
NoPoll == watched = Unused /\ maxfd = Unused /\ revents = Unused /\ i = Unused
NoReader == program = Unused /\ listening = Unused /\ edges = Unused /\ reading = Unused
NoThreads == cells = Unused /\ cell = Unused /\ threads = Unused
NothingTaken == taken = [c \in Client |-> <<>>]

Init ==
  /\ server \in Servers
  /\ \/ server = "echo" /\ Echo!Init /\ NoFailures /\ NoUring /\ NoPoll /\ NoReader /\ NothingTaken /\ NoThreads
     \/ server \in {"web", "web2"} /\ Web!Init /\ NoUring /\ NoPoll /\ NoReader /\ NothingTaken /\ NoThreads
     \/ server = "websocket" /\ WS!Init /\ NoFailures /\ NoUring /\ NoPoll /\ NoReader /\ NothingTaken /\ NoThreads
     \/ server = "uring" /\ Uring!Init /\ NoReactor /\ NoEvents /\ NoFailures /\ NoPoll /\ NoReader /\ NothingTaken /\ NoThreads
     \/ server = "poll" /\ Poll!Init /\ NoReactor /\ NoEvents /\ NoFailures /\ NoUring /\ NoReader /\ NothingTaken /\ NoThreads
     \/ server = "reader" /\ Reader!Init /\ NoReactor /\ NoFailures /\ NoUring /\ NoPoll /\ NoThreads
     \/ server = "threads" /\ Threads!Init /\ NoReactor /\ NoEvents /\ NoFailures /\ NoUring /\ NoPoll /\ NoReader

EchoFrame == server = "echo" /\ UNCHANGED <<server, failures, uringVars, pollVars, readerVars, taken, threadVars>>
WebFrame == server \in {"web", "web2"} /\ UNCHANGED <<server, uringVars, pollVars, readerVars, taken, threadVars>>
WSFrame == server = "websocket" /\ UNCHANGED <<server, failures, uringVars, pollVars, readerVars, taken, threadVars>>
UringFrame == server = "uring" /\ UNCHANGED <<server, reactorVars, evs, failures, pollVars, readerVars, taken, threadVars>>
PollFrame == server = "poll" /\ UNCHANGED <<server, reactorVars, evs, failures, uringVars, readerVars, taken, threadVars>>
ReaderFrame == server = "reader" /\ UNCHANGED <<server, reactorVars, failures, uringVars, pollVars, threadVars>>
ThreadsFrame == server = "threads" /\ UNCHANGED <<server, reactorVars, evs, failures, uringVars, pollVars, readerVars>>

Next ==
  \/ EchoFrame /\ Echo!Next
  \/ server = "web" /\ WebFrame /\ Web!Next
  \/ server = "web2" /\ WebFrame /\ Web2!Next
  \/ WSFrame /\ WS!Next
  \/ UringFrame /\ Uring!Next
  \/ PollFrame /\ Poll!Next
  \/ ReaderFrame /\ Reader!Next
  \/ ThreadsFrame /\ Threads!Next

(***************************************************************************)
(* Every thread of a server goes on, every operation the kernel was given  *)
(* is executed, and a connected client reads.                              *)
(***************************************************************************)
Main ==
  \/ EchoFrame /\ Echo!main
  \/ WebFrame /\ Web!main
  \/ WSFrame /\ WS!main
  \/ UringFrame /\ Uring!main
  \/ PollFrame /\ Poll!main
  \/ ReaderFrame /\ Reader!main
  \/ ThreadsFrame /\ Threads!main

Other(fd) ==
  \/ UringFrame /\ \E op \in ops : op.fd = fd /\ (Uring!ExecuteRecv(op) \/ Uring!ExecuteSend(op))
  \/ ThreadsFrame /\ \E t \in threads : t.client_fd = fd /\ Threads!HandlerRecv(t)
Start(x) == ThreadsFrame /\ \E t \in threads : t.arg = x /\ Threads!HandlerStart(t)

Spec == Init /\ [][Next]_vars
FairSpec ==
  /\ Spec /\ WF_vars(Main) /\ WF_vars(UringFrame /\ Uring!ExecuteAccept)
  /\ \A fd \in Fd : WF_vars(Other(fd))
  /\ \A x \in {x1, x2, x3} : WF_vars(Start(x))
  /\ \A c \in Client : WF_vars(Tcp!Read(c) /\ UNCHANGED <<server, ownVars>>)
--------------------------------------------------------------------------------
TypeOK ==
  CASE server = "echo" -> Echo!TypeOK
    [] server \in {"web", "web2"} -> Web!TypeOK
    [] server = "websocket" -> WS!TypeOK
    [] server = "uring" -> Uring!TypeOK
    [] server = "poll" -> Poll!TypeOK
    [] server = "reader" -> Reader!TypeOK
    [] server = "threads" -> Threads!TypeOK

\* Every state is well formed and no server is about to make a call that would
\* wait, or use a descriptor that was closed, because what it was told has
\* become stale; the listeners that islistenfd knows stay open.
EventsHold ==
  /\ TypeOK
  /\ server \in {"echo", "web", "web2", "websocket"} => Echo!EventsHold
  /\ server = "poll" => Poll!ReportsHold
  /\ server = "reader" => Reader!KeepsListening

\* The echo servers give every client back what it sent, in order; the web
\* server's answers are a head and its body, one for a request; the WebSocket
\* server answers the upgrade first, then echoes whole texts.
RightAnswers ==
  /\ server = "echo" => Echo!RightAnswers
  /\ server = "poll" => Poll!EchoedInOrder
  /\ server \in {"web", "web2"} => Web!Answers
  /\ server = "websocket" => WS!Echoes

\* A server is only brought down by a client that left without its answer.
OnlyRudeCrash ==
  /\ server = "echo" => Echo!OnlyRudeCrash
  /\ server \in {"web", "web2"} => Web!OnlyRudeCrash
  /\ server = "websocket" => WS!OnlyRudeCrash

\* Exactly one operation is under way for every connection of the io_uring
\* server, which sends nobody more than was received.
OneUnderWay == server = "uring" => Uring!OneUnderWay /\ Uring!NeverTooMuch

\* Edge-triggered, nothing that has arrived is forgotten; every connection of
\* its own thread has one that reads it, and every cell an owner.
ReadersSound ==
  /\ server = "reader" => Reader!ReadersSound
  /\ server = "threads" => Threads!OneReader

\* The io_uring server gives every client back its own data.
OwnEcho == server = "uring" => Uring!OwnEcho

Served(c) == \E fd \in Fd : owner[fd] = c

\* A client that is connected and reads gets everything back from the echo
\* servers, and from the io_uring server unless a send was cut short; the
\* client of the web server gets an answer unless open failed, and one of the
\* WebSocket server that waits for each echo gets one for every message.
AllServed == \A c \in Client :
  /\ server \in {"echo", "poll"} /\ Served(c) /\ phase[c] = "open"
       ~> (server \in {"echo", "poll"} => got[c] = Echo!Echo(c)) \/ Tcp!Gone(c) \/ crashed
  /\ server \in {"web", "web2"} /\ Served(c) /\ sent[c] > 0
       ~> (server \in {"web", "web2"} => Web!Bodies(got[c]) > 0) \/ Tcp!Gone(c) \/ crashed \/ failures > 0
  /\ server = "websocket" /\ c = c2 /\ Served(c) /\ sent[c] > 0
       ~> Len(got[c]) = sent[c] \/ Tcp!Gone(c) \/ crashed
  /\ server = "uring" /\ Served(c) /\ phase[c] = "open"
       ~> Len(got[c]) = sent[c] \/ Tcp!Gone(c) \/ c \in cut

\* Everything a client of the readers sends is received, and its descriptor
\* given back.
AllTaken == \A c \in Client :
  server \in {"reader", "threads"} /\ Served(c) ~>
    /\ Tcp!Gone(c) => ~Served(c)
    /\ taken[c] = [k \in 1 .. sent[c] |-> <<c, k>>]
================================================================================
