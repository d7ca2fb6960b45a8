------------------------------- MODULE UringEcho -------------------------------
(***************************************************************************)
(* The echo server uring_tcp_server.c: one thread prepares operations,     *)
(* submits them together and takes what the kernel has completed as a      *)
(* batch.  Every recv writes into, and every send reads from, the same     *)
(* buffer.  The kernel executes the operations in any order.               *)
(***************************************************************************)
EXTENDS TcpClients

CONSTANTS Sends  \* bound: how many pieces each client sends

Bad == 0  \* the negative result of accept, used as a descriptor

VARIABLES
  sq,      \* operations that are prepared
  ops,     \* operations the kernel has
  cq,      \* completions, in order
  nready,  \* how many of them main still handles in this batch
  buffer,
  cut      \* the clients for which a send took only a part

uringVars == <<sq, ops, cq, nready, buffer, cut>>
vars == <<tcpVars, uringVars>>

Accept == [event |-> "ACCEPT", fd |-> Bad, len |-> 0]
Recv(fd) == [event |-> "READ", fd |-> fd, len |-> 0]
SendBack(fd, len) == [event |-> "WRITE", fd |-> fd, len |-> len]
Completion(event, fd, res) == [event |-> event, fd |-> fd, res |-> res]

Init ==
  /\ TcpInit
  /\ sq = {Accept} /\ ops = {} /\ cq = <<>> /\ nready = 0 /\ buffer = <<>> /\ cut = {}

(***************************************************************************)
(* The kernel.                                                             *)
(***************************************************************************)
Complete(op, res) ==
  /\ op \in ops /\ ops' = ops \ {op}
  /\ cq' = Append(cq, Completion(op.event, op.fd, res))
  /\ UNCHANGED <<sq, nready>>

\* Bound: one failed accept is under way at a time.
NoBad ==
  /\ Recv(Bad) \notin sq \cup ops
  /\ \A k \in 1 .. Len(cq) : (IF cq[k].event = "ACCEPT" THEN cq[k].res ELSE cq[k].fd) # Bad

ExecuteAccept ==
  /\ UNCHANGED <<buffer, cut>>
  /\ \/ \E c \in Client, fd \in Fd : accept(c, fd) /\ Complete(Accept, fd)
     \/ AcceptFails /\ NoBad /\ Complete(Accept, Bad) /\ UNCHANGED tcpVars

\* What is received overwrites the beginning of the buffer.
ExecuteRecv(op) == LET fd == op.fd IN
  /\ op.event = "READ" /\ UNCHANGED cut
  /\ \/ /\ fd # Bad
        /\ \E n \in 1 .. Len(inbox[owner[fd]]) :
             /\ recv(fd, n) /\ Complete(op, n)
             /\ buffer' = Received(fd, n) \o SubSeq(buffer, n + 1, Len(buffer))
     \/ /\ IF fd = Bad THEN TRUE ELSE \E how \in {"closed", "reset"} : AtEnd(fd, how)
        /\ Complete(op, 0) /\ UNCHANGED <<tcpVars, buffer>>

\* send takes what the buffer holds now, or as much of it as there is room
\* for.  (io_uring's sends raise no SIGPIPE.)
ExecuteSend(op) == LET c == owner[op.fd] IN
  /\ op.event = "WRITE" /\ UNCHANGED buffer
  /\ \/ /\ ~Gone(c) /\ Len(outbox[c]) < Room
        /\ LET n == IF Room - Len(outbox[c]) < op.len THEN Room - Len(outbox[c]) ELSE op.len
           IN  /\ outbox' = [outbox EXCEPT ![c] = @ \o SubSeq(buffer, 1, n)]
               /\ cut' = IF n < op.len THEN cut \cup {c} ELSE cut
               /\ Complete(op, n)
        /\ UNCHANGED <<phase, backlog, owner, sent, inbox, got, spent, crashed>>
     \/ Gone(c) /\ Complete(op, -1) /\ UNCHANGED <<tcpVars, cut>>

Kernel == ExecuteAccept \/ \E op \in ops : ExecuteRecv(op) \/ ExecuteSend(op)

(***************************************************************************)
(* main.                                                                   *)
(***************************************************************************)
set_event_recv(fd) == sq' = sq \cup {Recv(fd)}
set_event_send(fd, len) == sq' = sq \cup {SendBack(fd, len)}

io_uring_submit ==
  /\ nready = 0 /\ sq # {}
  /\ ops' = ops \cup sq /\ sq' = {}
  /\ UNCHANGED <<tcpVars, cq, nready, buffer, cut>>

io_uring_peek_batch_cqe ==
  /\ nready = 0 /\ sq = {} /\ cq # <<>>
  /\ nready' = Len(cq)
  /\ UNCHANGED <<tcpVars, sq, ops, cq, buffer, cut>>

Handled == cq' = Tail(cq) /\ nready' = nready - 1 /\ UNCHANGED <<ops, buffer, cut>>

\* Fault: no other client is accepted.
on_accept_Once(fd) == sq' = sq \cup {Recv(fd)} /\ UNCHANGED tcpVars

\* The accept is prepared again, and what it returned is received from.
on_accept(fd) == sq' = sq \cup {Accept, Recv(fd)} /\ UNCHANGED tcpVars

on_read(fd, res) ==
  IF res > 0 THEN set_event_send(fd, res) /\ UNCHANGED tcpVars
  ELSE (IF fd = Bad THEN UNCHANGED tcpVars ELSE close(fd)) /\ UNCHANGED sq

\* Fault: it receives no more.
on_write_Nothing(fd) == UNCHANGED <<tcpVars, sq>>

on_write(fd) == set_event_recv(fd) /\ UNCHANGED tcpVars

HandleCqe ==
  /\ nready > 0 /\ Handled
  /\ LET e == Head(cq) IN
     \/ e.event = "ACCEPT" /\ on_accept(e.res)
     \/ e.event = "READ" /\ on_read(e.fd, e.res)
     \/ e.event = "WRITE" /\ on_write(e.fd)

main == io_uring_submit \/ io_uring_peek_batch_cqe \/ HandleCqe

Clients ==
  \E c \in Client :
    /\ \/ Connect(c) \/ Read(c) \/ HangUp(c)
       \/ sent[c] < Sends[c] /\ Send(c, <<c, sent[c] + 1>>)
    /\ UNCHANGED uringVars

Next == main \/ Kernel \/ Clients

Spec == Init /\ [][Next]_vars
FairSpec == /\ Spec /\ WF_vars(main) /\ WF_vars(ExecuteAccept)
            /\ \A fd \in Fd \cup {Bad} : WF_vars(\E op \in ops : op.fd = fd /\ (ExecuteRecv(op) \/ ExecuteSend(op)))
            /\ \A c \in Client : WF_vars(Read(c) /\ UNCHANGED uringVars)
--------------------------------------------------------------------------------
\* What is under way for a connection: an operation, or its completion.
UnderWay(fd) ==
  {o \in sq \cup ops : o.event # "ACCEPT" /\ o.fd = fd}
    \cup {<<k, cq[k]>> : k \in {i \in 1 .. Len(cq) : fd = IF cq[i].event = "ACCEPT" THEN cq[i].res ELSE cq[i].fd}}
Accepts == {o \in sq \cup ops : o.event = "ACCEPT"} \cup {k \in 1 .. Len(cq) : cq[k].event = "ACCEPT"}

TypeOK ==
  /\ TcpTypeOK /\ cut \subseteq Client /\ nready \in 0 .. Len(cq) /\ ~crashed
  /\ \A o \in sq \cup ops : o.event \in {"ACCEPT", "READ", "WRITE"} /\ o.fd \in Fd \cup {Bad}

\* Exactly one thing is under way for every connection, and one accept:
\* nothing is forgotten, and a descriptor is not used after it was closed.
OneUnderWay ==
  /\ Cardinality(Accepts) = 1
  /\ \A fd \in Fd : Cardinality(UnderWay(fd)) = IF owner[fd] = None THEN 0 ELSE 1

\* A client gets as much as it sent, never more.
NeverTooMuch == \A c \in Client : Len(got[c]) + Len(outbox[c]) <= sent[c]
Served(c) == \E fd \in Fd : owner[fd] = c
EchoedInFull == \A c \in Client :
  Served(c) /\ phase[c] = "open" ~> Len(got[c]) = sent[c] \/ Gone(c) \/ c \in cut

\* "sends what was received back to the client": its own data, not what
\* another client sent in the meantime.
OwnEcho == \A c \in Client : \A k \in 1 .. Len(got[c]) : got[c][k][1] = c
================================================================================
