------------------------------ MODULE EpollReader ------------------------------
(***************************************************************************)
(* The two servers that only print what they receive and watch their       *)
(* clients edge-triggered with non-blocking sockets: tcp_epoll.c, and      *)
(* tcp_Server.c, which listens on many ports.  A client connects to one    *)
(* port.                                                                   *)
(***************************************************************************)
EXTENDS TcpClients

CONSTANTS
  Sends,    \* bound: how many pieces each client sends
  Port,     \* the ports listened on, numbered from 0
  PortOf,   \* the port each client connects to
  MAX_PORT  \* islistenfd knows the ports below this one

Listener(p) == -1 - p  \* the descriptor that listens on a port
NoFd == 0

VARIABLES
  program,    \* which of the two: "tcp_epoll" or "tcp_Server"
  listening,  \* the ports whose listener is open
  edges,      \* the clients' descriptors with something new since the last epoll_wait
  evs,        \* the events of the last epoll_wait that are not handled yet
  reading,    \* the descriptor recv is called for until it has no more, or NoFd
  taken       \* what was received from each client, and printed

readerVars == <<program, listening, edges, evs, reading, taken>>
vars == <<tcpVars, readerVars>>

Init ==
  /\ TcpInit /\ program \in {"tcp_epoll", "tcp_Server"}
  /\ listening = {p \in Port : program = "tcp_epoll" => p = 0} /\ edges = {} /\ evs = <<>> /\ reading = NoFd
  /\ taken = [c \in Client |-> <<>>]

\* tcp_epoll.c has one port for everybody.
At(c) == IF program = "tcp_epoll" THEN 0 ELSE PortOf[c]
Waiting(p) == {c \in backlog : At(c) = p}

(***************************************************************************)
(* The clients.  What they do makes an edge.                               *)
(***************************************************************************)
Edge(c) == edges' = edges \cup {fd \in Fd : owner[fd] = c}

Clients ==
  \E c \in Client :
    /\ \/ At(c) \in listening /\ Connect(c) /\ UNCHANGED edges
       \/ sent[c] < Sends[c] /\ Send(c, <<c, sent[c] + 1>>) /\ Edge(c)
       \/ HangUp(c) /\ Edge(c)
    /\ UNCHANGED <<program, listening, evs, reading, taken>>

(***************************************************************************)
(* The server.                                                             *)
(***************************************************************************)
epoll_wait ==
  LET ready == edges \cup {Listener(p) : p \in {q \in listening : Waiting(q) # {}}} IN
  /\ evs = <<>> /\ reading = NoFd /\ ready # {}
  /\ evs' \in SetToSeqs(ready) /\ edges' = {}
  /\ UNCHANGED <<tcpVars, program, listening, reading, taken>>

\* tcp_epoll.c compares with its only listener, tcp_Server.c with the first
\* MAX_PORT of them.
islistenfd(fd) == fd < 0 /\ (program = "tcp_Server" => -1 - fd < MAX_PORT)

\* A descriptor that is added has an edge if there is something to read.
accept_event(fd) ==
  /\ \/ \E c \in Waiting(-1 - fd), new \in Fd :
          /\ accept(c, new)
          /\ edges' = IF inbox[c] # <<>> \/ Gone(c) THEN edges \cup {new} ELSE edges
     \/ AcceptFails /\ UNCHANGED <<tcpVars, edges>>
  /\ UNCHANGED <<listening, reading, taken>>

\* The listener is read from, which fails, and is closed: the clients that
\* wait at it are refused.
listener_event(fd) ==
  /\ listening' = listening \ {-1 - fd}
  /\ backlog' = backlog \ Waiting(-1 - fd)
  /\ phase' = [c \in Client |-> IF c \in Waiting(-1 - fd) THEN "reset" ELSE phase[c]]
  /\ UNCHANGED <<owner, sent, inbox, outbox, got, spent, crashed, edges, reading, taken>>

client_event(fd) == reading' = fd /\ UNCHANGED <<tcpVars, listening, edges, taken>>

HandleEvent == LET fd == Head(evs) IN
  /\ evs # <<>> /\ reading = NoFd /\ evs' = Tail(evs)
  /\ CASE islistenfd(fd) -> accept_event(fd)
       [] fd < 0 /\ ~islistenfd(fd) -> listener_event(fd)
       [] OTHER -> client_event(fd)
  /\ UNCHANGED program

\* Fault: the loop is left after one piece of data.
RecvData_Once(fd) == \E n \in 1 .. Len(inbox[owner[fd]]) :
  /\ recv(fd, n) /\ taken' = [taken EXCEPT ![owner[fd]] = @ \o Received(fd, n)]
  /\ reading' = NoFd /\ UNCHANGED edges

\* One turn of the loop that reads until there is no more.  tcp_epoll.c only
\* prints the error of a connection that was reset; its next turn gets 0.
RecvData(fd) == \E n \in 1 .. Len(inbox[owner[fd]]) :
  /\ recv(fd, n) /\ taken' = [taken EXCEPT ![owner[fd]] = @ \o Received(fd, n)]
  /\ UNCHANGED <<edges, reading>>

RecvNothing(fd) ==
  /\ ~Readable(fd) /\ reading' = NoFd
  /\ UNCHANGED <<tcpVars, edges, taken>>

RecvError(fd) ==
  /\ program = "tcp_epoll" /\ AtEnd(fd, "reset")
  /\ phase' = [phase EXCEPT ![owner[fd]] = "closed"]
  /\ UNCHANGED <<backlog, owner, sent, inbox, outbox, got, spent, crashed, edges, reading, taken>>

RecvEnd(fd) ==
  /\ AtEnd(fd, "closed") \/ (program = "tcp_Server" /\ AtEnd(fd, "reset"))
  /\ close(fd) /\ edges' = edges \ {fd} /\ reading' = NoFd
  /\ UNCHANGED taken

ReadOn == LET fd == reading IN
  /\ reading # NoFd
  /\ RecvData(fd) \/ RecvNothing(fd) \/ RecvError(fd) \/ RecvEnd(fd)
  /\ UNCHANGED <<program, listening, evs>>

main == epoll_wait \/ HandleEvent \/ ReadOn
Next == main \/ Clients

Spec == Init /\ [][Next]_vars
FairSpec == Spec /\ WF_vars(main)
--------------------------------------------------------------------------------
TypeOK ==
  /\ TcpTypeOK /\ listening \subseteq Port /\ edges \subseteq Fd /\ reading \in Fd \cup {NoFd}
  /\ taken \in [Client -> Seq(Client \X Nat)]

\* A descriptor that is to be read is a connection: it was not closed after
\* epoll_wait reported it.
ReadsConnections ==
  /\ \A fd \in edges \cup ({reading} \ {NoFd}) : owner[fd] # None
  /\ \A k \in 1 .. Len(evs) : evs[k] > 0 => owner[evs[k]] # None

\* Edge-triggered, nothing is forgotten: what has arrived on a connection is
\* still to be reported, is in the batch, or is being read.
NoForgottenInput ==
  \A fd \in Fd : owner[fd] # None /\ Readable(fd) =>
    fd \in edges \cup {reading} \cup ToSet(evs)

ReadersSound == ReadsConnections /\ NoForgottenInput

\* Everything a client sends is received, and its descriptor given back.
AllTaken == \A c \in Client :
  (\E fd \in Fd : owner[fd] = c) ~>
    /\ Gone(c) => \A fd \in Fd : owner[fd] # c
    /\ taken[c] = [k \in 1 .. sent[c] |-> <<c, k>>]

\* The ports islistenfd knows are listened on for ever.
KeepsListening == \A p \in Port : p < MAX_PORT /\ (program = "tcp_epoll" => p = 0) => p \in listening
================================================================================
