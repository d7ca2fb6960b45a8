------------------------------ MODULE EchoReactor ------------------------------
(***************************************************************************)
(* The echo server 2.1.3_reactor_02MillionConcurrent.c, over Reactor.      *)
(* 2.1.3_reactor_01.c is the same server with one port, but gives what     *)
(* accept returns to event_register unchecked.                             *)
(***************************************************************************)
EXTENDS Reactor

CONSTANTS Sends  \* bound: pieces each client sends

vars == <<tcpVars, reactorVars>>

Init == ReactorInit

event_register(fd) ==
  /\ conn_list' = [conn_list EXCEPT ![fd].rbuffer = <<>>, ![fd].wbuffer = <<>>]
  /\ set_event(fd, "IN")

accept_cb ==
  \/ \E c \in Client, fd \in Fd : accept(c, fd) /\ event_register(fd)
  \/ AcceptFails /\ UNCHANGED <<tcpVars, conn_list, interest>>

\* Only 0 is looked at: for -1, memcpy is asked to copy (size_t)-1 bytes.
recv_cb(fd) ==
  \/ \E n \in 1 .. Len(inbox[owner[fd]]) :
       /\ recv(fd, n)
       /\ conn_list' = [conn_list EXCEPT ![fd].rbuffer = Received(fd, n), ![fd].wbuffer = Received(fd, n)]
       /\ set_event(fd, "OUT")
  \/ AtEnd(fd, "closed") /\ close_and_del(fd) /\ UNCHANGED conn_list
  \/ AtEnd(fd, "reset") /\ Crash /\ UNCHANGED <<conn_list, interest>>

send_cb(fd) ==
  /\ send(fd, conn_list[fd].wbuffer)
  /\ set_event(fd, "IN")
  /\ UNCHANGED conn_list

main ==
  \/ epoll_wait
  \/ Dispatch(Listening, "IN") /\ accept_cb
  \/ \E fd \in Fd : Dispatch(fd, "IN") /\ recv_cb(fd)
  \/ \E fd \in Fd : Dispatch(fd, "OUT") /\ send_cb(fd)

Clients ==
  \E c \in Client :
    /\ \/ Connect(c) \/ Read(c) \/ HangUp(c)
       \/ sent[c] < Sends[c] /\ Send(c, <<c, sent[c] + 1>>)
    /\ UNCHANGED reactorVars

Next == main \/ Clients

Spec == Init /\ [][Next]_vars
FairSpec == Spec /\ WF_vars(main) /\ \A c \in Client : WF_vars(Read(c) /\ UNCHANGED reactorVars)
--------------------------------------------------------------------------------
TypeOK == ReactorTypeOK

\* A client gets back what it sent, in that order and nothing else.
Echo(c) == [i \in 1 .. sent[c] |-> <<c, i>>]
RightAnswers == \A c \in Client : IsPrefix(got[c] \o outbox[c], Echo(c))

\* A client that is connected and reads gets everything back, unless the
\* server has crashed or has no descriptor for it.
Served(c) == \E fd \in Fd : owner[fd] = c
Echoed == \A c \in Client : Served(c) /\ phase[c] = "open" ~> got[c] = Echo(c) \/ Gone(c) \/ crashed

\* Only a client that left before it had read everything brings it down.
OnlyRudeCrash ==
  crashed => \E c \in Client : Gone(c) /\ Len(got[c]) < sent[c]
================================================================================
