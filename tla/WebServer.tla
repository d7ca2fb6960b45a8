------------------------------- MODULE WebServer -------------------------------
(***************************************************************************)
(* The web server: reactor.c with webserver_02status.c (webserver_03png.c  *)
(* is the same with another file), over Reactor.  Whatever is requested,   *)
(* the answer is a head and a body, one callback for each and one more to  *)
(* reset the status.  What is received in one call is one request.         *)
(***************************************************************************)
EXTENDS Reactor

CONSTANTS
  Sends,        \* bound: how many requests each client sends
  MaxFailures   \* bound: how often open or fstat may fail

VARIABLE failures

vars == <<tcpVars, reactorVars, failures>>

Init == ReactorInit /\ failures = 0

\* The status is not touched: it is what the descriptor's last owner left.
event_register(fd) ==
  /\ conn_list' = [conn_list EXCEPT ![fd].rbuffer = <<>>, ![fd].wbuffer = <<>>]
  /\ set_event(fd, "IN")

accept_cb ==
  \/ \E c \in Client, fd \in Fd : accept(c, fd) /\ event_register(fd)
  \/ AcceptFails /\ UNCHANGED <<tcpVars, conn_list, interest>>

http_request(cn) == [cn EXCEPT !.wbuffer = <<>>, !.status = 0]

recv_cb(fd) ==
  \/ \E n \in 1 .. Len(inbox[owner[fd]]) :
       /\ recv(fd, n)
       /\ conn_list' = [conn_list EXCEPT ![fd] = http_request([@ EXCEPT !.rbuffer = Received(fd, n)])]
       /\ set_event(fd, "OUT")
  \/ \E how \in {"closed", "reset"} : AtEnd(fd, how) /\ close_and_del(fd) /\ UNCHANGED conn_list

\* Fault: the status stays 1 after the body.
http_response_Stay(cn, opened) ==
  CASE opened /\ cn.status = 0 -> [cn EXCEPT !.wbuffer = <<"head">>, !.status = 1]
    [] OTHER -> cn

\* If the file cannot be opened nothing changes.
http_response(cn, opened) ==
  CASE ~opened -> cn
    [] opened /\ cn.status = 0 -> [cn EXCEPT !.wbuffer = <<"head">>, !.status = 1]
    [] opened /\ cn.status = 1 -> [cn EXCEPT !.status = 2]
    [] OTHER -> [cn EXCEPT !.wbuffer = <<>>, !.status = 0]

\* sendfile is in http_response, the send of the head after it.
Written(cn, opened) ==
  CASE opened /\ cn.status = 1 -> <<"body">>
    [] http_response(cn, opened).status = 1 -> http_response(cn, opened).wbuffer
    [] OTHER -> <<>>

NextEvent(cn) == IF cn.status = 0 THEN "IN" ELSE "OUT"

send_cb(fd) == \E opened \in BOOLEAN :
  LET cn == http_response(conn_list[fd], opened)
      w  == Written(conn_list[fd], opened)
  IN  /\ opened \/ failures < MaxFailures
      /\ failures' = IF opened THEN failures ELSE failures + 1
      /\ IF w = <<>> THEN UNCHANGED tcpVars ELSE send(fd, w)
      /\ conn_list' = [conn_list EXCEPT ![fd] = cn]
      /\ set_event(fd, NextEvent(cn))

main ==
  \/ epoll_wait /\ UNCHANGED failures
  \/ Dispatch(Listening, "IN") /\ accept_cb /\ UNCHANGED failures
  \/ \E fd \in Fd : Dispatch(fd, "IN") /\ recv_cb(fd) /\ UNCHANGED failures
  \/ \E fd \in Fd : Dispatch(fd, "OUT") /\ send_cb(fd)

\* A client may send its next request before it is answered.
Clients ==
  \E c \in Client :
    /\ \/ Connect(c) \/ Read(c) \/ HangUp(c)
       \/ sent[c] < Sends[c] /\ Send(c, "request")
    /\ UNCHANGED <<reactorVars, failures>>

Next == main \/ Clients

Spec == Init /\ [][Next]_vars
FairSpec == Spec /\ WF_vars(main) /\ \A c \in Client : WF_vars(Read(c) /\ UNCHANGED <<reactorVars, failures>>)
--------------------------------------------------------------------------------
TypeOK == ReactorTypeOK /\ failures \in 0 .. MaxFailures

\* What a client gets is a sequence of answers: a body comes right after its
\* head, and there are never more of them than requests.  (When open fails
\* between the two, the head is sent again.)
Bodies(s) == Cardinality({k \in 1 .. Len(s) : s[k] = "body"})
Answers ==
  \A c \in Client : LET s == got[c] \o outbox[c] IN
    /\ \A i \in 1 .. Len(s) : s[i] = "body" => i > 1 /\ s[i - 1] = "head"
    /\ failures = 0 => \A i \in 1 .. Len(s) - 1 : s[i] = "head" => s[i + 1] = "body"
    /\ Bodies(s) <= sent[c]

\* A client that is connected, has sent a request and reads gets an answer.
Served(c) == \E fd \in Fd : owner[fd] = c
Answered == \A c \in Client :
  Served(c) /\ sent[c] > 0 ~> Bodies(got[c]) > 0 \/ Gone(c) \/ crashed \/ failures > 0

\* Only a client that left without waiting for its answer brings it down.
OnlyRudeCrash ==
  crashed => \E c \in Client : Gone(c) /\ Bodies(got[c]) < sent[c]
================================================================================
