------------------------------- MODULE WebSocket -------------------------------
(***************************************************************************)
(* The WebSocket server of the directory websocket: reactor.c and          *)
(* server.c, over Reactor.  The first thing received on a connection is    *)
(* taken for the upgrade request, everything after it for one frame, whose *)
(* text is sent back.  A frame is known by its text and how long that is;  *)
(* the opcode is not looked at.                                            *)
(***************************************************************************)
EXTENDS Reactor

CONSTANTS
  Messages,  \* what each client sends after its upgrade request: the lengths
  Patient    \* the clients that wait for each echo before they send more

vars == <<tcpVars, reactorVars>>

Init == ReactorInit

(***************************************************************************)
(* Frames.  By the protocol the second byte of a frame holds a length      *)
(* below 126, and for a longer text the code 126 or 127, with the length   *)
(* in the 2 or 8 bytes that follow; then come 4 bytes of mask.             *)
(***************************************************************************)
Extension(len) == CASE len < 126 -> 0 [] len \in 126 .. 65535 -> 2 [] OTHER -> 8
Code(len) == CASE Extension(len) = 0 -> len [] Extension(len) = 2 -> 126 [] OTHER -> 127

\* The client's frame, and the request, of which the server may read bytes 2
\* to 6 as those of a frame: "ET / " of "GET / ".
Frame(c, i, len) == [text |-> <<c, i>>, code |-> Code(len), start |-> Extension(len) + 6]
Upgrade == [text |-> <<"upgrade", 0>>, code |-> 69, start |-> 0]
Garbled == <<"garbled", 0>>

\* Fault: the mask is not skipped.
decode_packet_NoMask(f) ==
  [size |-> f.code, text |-> IF f.start = 2 /\ f.code < 126 THEN f.text ELSE Garbled]

\* hdr->mask has one bit, so it is neither 126 nor 127: the code is the size
\* and the text starts at byte 6.
decode_packet(f) ==
  [size |-> f.code, text |-> IF f.start = 6 /\ f.code < 126 THEN f.text ELSE Garbled]

\* From 126 on, the length in the head stays 0, and 14 bytes follow that are
\* not the text.
encode_packet(d) == [len |-> IF d.size < 126 THEN d.size ELSE 0,
                     text |-> IF d.size < 126 THEN d.text ELSE Garbled]

SwitchingProtocols == [len |-> 0, text |-> <<"101", 0>>]

\* No key in what was received, no answer.
handshake(cn) == IF Upgrade \in ToSet(cn.rbuffer) THEN [cn EXCEPT !.wbuffer = <<SwitchingProtocols>>] ELSE cn

ws_request(cn) ==
  IF cn.status = 0 THEN [handshake(cn) EXCEPT !.status = 1]
  ELSE [cn EXCEPT !.wbuffer = <<encode_packet(decode_packet(Head(cn.rbuffer)))>>]

(***************************************************************************)
(* The callbacks.                                                          *)
(***************************************************************************)
event_register(fd) ==
  /\ conn_list' = [conn_list EXCEPT ![fd] = Fresh]
  /\ set_event(fd, "IN")

accept_cb ==
  \/ \E c \in Client, fd \in Fd : accept(c, fd) /\ event_register(fd)
  \/ AcceptFails /\ UNCHANGED <<tcpVars, conn_list, interest>>

recv_cb(fd) ==
  \/ \E n \in 1 .. Len(inbox[owner[fd]]) :
       /\ recv(fd, n)
       /\ conn_list' = [conn_list EXCEPT ![fd] = ws_request([@ EXCEPT !.rbuffer = Received(fd, n)])]
       /\ set_event(fd, "OUT")
  \/ \E how \in {"closed", "reset"} : AtEnd(fd, how) /\ close_and_del(fd) /\ UNCHANGED conn_list

\* ws_response does nothing.
send_cb(fd) ==
  /\ IF conn_list[fd].wbuffer = <<>> THEN UNCHANGED tcpVars ELSE send(fd, conn_list[fd].wbuffer)
  /\ set_event(fd, "IN")
  /\ UNCHANGED conn_list

main ==
  \/ epoll_wait
  \/ Dispatch(Listening, "IN") /\ accept_cb
  \/ \E fd \in Fd : Dispatch(fd, "IN") /\ recv_cb(fd)
  \/ \E fd \in Fd : Dispatch(fd, "OUT") /\ send_cb(fd)

\* A client sends frames once its upgrade is answered.
Sends(c) ==
  IF sent[c] = 0 THEN Send(c, Upgrade)
  ELSE /\ got[c] # <<>> /\ sent[c] <= Len(Messages[c])
       /\ c \in Patient => Len(got[c]) = sent[c]
       /\ Send(c, Frame(c, sent[c], Messages[c][sent[c]]))

Clients ==
  \E c \in Client : /\ Connect(c) \/ Read(c) \/ HangUp(c) \/ Sends(c)
                    /\ UNCHANGED reactorVars

Next == main \/ Clients

Spec == Init /\ [][Next]_vars
FairSpec == Spec /\ WF_vars(main) /\ \A c \in Client : WF_vars(Read(c) /\ UNCHANGED reactorVars)
--------------------------------------------------------------------------------
TypeOK == ReactorTypeOK

\* The first thing a client gets is the answer to its upgrade; then it gets
\* its own texts, each at most once, in order and whole, as long as what it
\* sent was shorter than 126 bytes.  (Two frames that are received together
\* get one echo: the second is lost.)
ShortOnly(c) == \A i \in 1 .. sent[c] - 1 : Messages[c][i] < 126
Echoes ==
  \A c \in Client : LET s == got[c] \o outbox[c] IN
    s # <<>> =>
      /\ s[1] = SwitchingProtocols
      /\ ShortOnly(c) => \A i \in 2 .. Len(s) :
           /\ \E k \in 1 .. sent[c] - 1 : s[i] = [len |-> Messages[c][k], text |-> <<c, k>>]
           /\ i > 2 => s[i - 1].text[2] < s[i].text[2]

\* A client that waits for each echo gets one for every message.
Served(c) == \E fd \in Fd : owner[fd] = c
AllEchoed == \A c \in Client :
  c \in Patient /\ Served(c) /\ sent[c] > 0 ~> Len(got[c]) = sent[c] \/ Gone(c) \/ crashed

\* Only a client that left before it had read everything brings it down.
OnlyRudeCrash ==
  crashed => \E c \in Client : Gone(c) /\ Len(got[c]) < sent[c]
================================================================================
