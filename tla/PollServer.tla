------------------------------- MODULE PollServer ------------------------------
(***************************************************************************)
(* The echo server 2.1.2_poll.c: an array with a place for each descriptor *)
(* up to maxfd, polled as a whole; then the listening descriptor and every *)
(* client's are looked at in turn.  What accept returns is not checked: it *)
(* is taken to succeed.                                                    *)
(***************************************************************************)
EXTENDS TcpClients

CONSTANTS Sends  \* bound: how many pieces each client sends

Listening == 0
Polling == -1

VARIABLES
  watched,  \* the descriptors with a place in fds
  maxfd,
  revents,  \* the descriptors with POLLIN in revents
  i         \* the descriptor the loop looks at, Listening, or Polling

pollVars == <<watched, maxfd, revents, i>>
vars == <<tcpVars, pollVars>>

Init == TcpInit /\ watched = {Listening} /\ maxfd = Listening /\ revents = {} /\ i = Polling

HasInput(fd) == IF fd = Listening THEN backlog # {} ELSE Readable(fd)

\* poll writes the revents of every place up to maxfd.
poll ==
  LET ready == {fd \in watched : fd <= maxfd /\ HasInput(fd)} IN
  /\ i = Polling /\ ready # {}
  /\ revents' = ready \cup {fd \in revents : fd > maxfd}
  /\ i' = Listening
  /\ UNCHANGED <<tcpVars, watched, maxfd>>

MaxFd(fd) == IF fd > maxfd THEN fd ELSE maxfd

LookAtListening ==
  /\ i = Listening /\ i' = Listening + 1
  /\ IF Listening \in revents
     THEN \E c \in Client, fd \in Fd :
            /\ accept(c, fd) /\ watched' = watched \cup {fd} /\ maxfd' = MaxFd(fd)
     ELSE UNCHANGED <<tcpVars, watched, maxfd>>
  /\ UNCHANGED revents

\* Only 0 is looked at: for -1, send is asked to send (size_t)-1 bytes on a
\* connection that was reset, which raises SIGPIPE.
Echoes(fd) ==
  \/ \E n \in 1 .. Len(inbox[owner[fd]]) : LET c == owner[fd] IN
       /\ \/ /\ ~Gone(c) /\ Len(outbox[c]) + n <= Room
             /\ outbox' = [outbox EXCEPT ![c] = @ \o Received(fd, n)]
             /\ UNCHANGED <<spent, crashed>>
          \/ Gone(c) /\ spent' = spent \cup {c} /\ UNCHANGED <<outbox, crashed>>
          \/ c \in spent /\ crashed' = TRUE /\ UNCHANGED <<outbox, spent>>
       /\ inbox' = [inbox EXCEPT ![c] = SubSeq(@, n + 1, Len(@))]
       /\ UNCHANGED <<phase, backlog, owner, sent, got, watched>>
  \/ AtEnd(fd, "closed") /\ close(fd) /\ watched' = watched \ {fd}
  \/ AtEnd(fd, "reset") /\ Crash /\ UNCHANGED watched

LookAt(fd) ==
  /\ i = fd /\ fd > Listening /\ ~crashed
  /\ IF fd <= maxfd THEN i' = fd + 1 ELSE i' = Polling
  /\ IF fd <= maxfd /\ fd \in revents THEN Echoes(fd) ELSE UNCHANGED <<tcpVars, watched>>
  /\ UNCHANGED <<maxfd, revents>>

main == ~crashed /\ (poll \/ LookAtListening \/ LookAt(i))

Clients ==
  \E c \in Client :
    /\ \/ Connect(c) \/ Read(c) \/ HangUp(c)
       \/ sent[c] < Sends[c] /\ Send(c, <<c, sent[c] + 1>>)
    /\ UNCHANGED pollVars

Next == main \/ Clients

Spec == Init /\ [][Next]_vars
FairSpec == Spec /\ WF_vars(main) /\ \A c \in Client : WF_vars(Read(c) /\ UNCHANGED pollVars)
--------------------------------------------------------------------------------
TypeOK ==
  /\ TcpTypeOK /\ watched \subseteq Fd \cup {Listening} /\ maxfd \in Fd \cup {Listening}
  /\ revents \subseteq Fd \cup {Listening} /\ i \in Polling .. Cardinality(Fd) + 1

\* A descriptor the loop is still to look at has what it was reported for:
\* accept and recv, which block, return at once.  (A place keeps its revents
\* while the descriptor is closed and given to the next client.)
ReportsHold ==
  \A fd \in revents : i <= fd /\ i # Polling => IF fd = Listening THEN backlog # {} ELSE Readable(fd)

\* A client gets back what it sent, in that order and nothing else.
Echo(c) == [k \in 1 .. sent[c] |-> <<c, k>>]
EchoedInOrder == \A c \in Client : IsPrefix(got[c] \o outbox[c], Echo(c))

\* A client that is connected and reads gets everything back.
Served(c) == \E fd \in Fd : owner[fd] = c
Echoed == \A c \in Client : Served(c) /\ phase[c] = "open" ~> got[c] = Echo(c) \/ Gone(c) \/ crashed
================================================================================
