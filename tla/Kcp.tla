-------------------------------- MODULE Kcp --------------------------------
(***************************************************************************)
(* The reliable transport of ikcp.c: two endpoints, each with a control    *)
(* block, over a network that loses, duplicates and reorders datagrams.    *)
(* Each call of ikcp_send, ikcp_input, ikcp_recv and ikcp_update is one    *)
(* step: KcpSession makes them under its mutex.                            *)
(***************************************************************************)
EXTENDS KcpBlock

CONSTANTS
  Senders, MaxMsg, MaxFrag,  \* bound: who sends, how many messages, how long
  NetBound,                  \* bound: datagrams in the network
  AckBound                   \* bound: acknowledgements waiting in acklist

\* A datagram may be held for ever: no number may come up again, so a session
\* uses fewer than half of them, 2^31 in the code.
ASSUME KcpBounds ==
  /\ MaxMsg \in Nat /\ MaxFrag \in Nat
  /\ MaxMsg * (IKCP_WND_RCV - 1) + rcv_wnd <= SnSpace \div 2 /\ snd_wnd < SnSpace \div 2

End == {1, 2}
Peer(e) == 3 - e

VARIABLES
  kcp,   \* the control block of each endpoint
  net,   \* the datagrams that may still arrive, each with its receiver
  sent,  \* the messages, by their fragments, that ikcp_send accepted
  got    \* the messages that ikcp_recv returned

vars == <<kcp, net, sent, got>>

(***************************************************************************)
(* The two endpoints and the network.                                      *)
(***************************************************************************)
Init ==
  /\ kcp = [e \in End |-> ikcp_create]
  /\ net = {}
  /\ sent = [e \in End |-> <<>>] /\ got = [e \in End |-> <<>>]

\* Fault: messages of any length are accepted.
ikcp_send_Unlimited(e, n) ==
  /\ e \in Senders /\ Len(sent[e]) < MaxMsg
  /\ LET m == Fragments(Len(sent[e]) + 1, n) IN
       /\ kcp' = [kcp EXCEPT ![e].snd_queue = @ \o m]
       /\ sent' = [sent EXCEPT ![e] = Append(@, m)]
  /\ UNCHANGED <<net, got>>

\* A message of as many fragments as the receive window is refused with -2.
ikcp_send(e, n) ==
  /\ e \in Senders /\ Len(sent[e]) < MaxMsg
  /\ n < IKCP_WND_RCV
  /\ LET m == Fragments(Len(sent[e]) + 1, n) IN
       /\ kcp' = [kcp EXCEPT ![e].snd_queue = @ \o m]
       /\ sent' = [sent EXCEPT ![e] = Append(@, m)]
  /\ UNCHANGED <<net, got>>

\* Any of the datagrams may be lost on their way, unless the flush is lucky.
Flush(e, late, due, lucky) ==
  LET f == ikcp_flush(kcp[e], late, due)
      datagrams == {[to |-> Peer(e), segs |-> segs] : segs \in Packed(f.out)}
  IN  /\ kcp' = [kcp EXCEPT ![e] = f.kcp]
      /\ \E arrives \in (IF lucky THEN {datagrams} ELSE SUBSET datagrams) : net' = net \cup arrives
      /\ Cardinality(net') <= NetBound
      /\ UNCHANGED <<sent, got>>

ikcp_update(e) ==
  \E late \in SUBSET Waiting(kcp[e]), due \in BOOLEAN : Flush(e, late, due, FALSE)

\* A datagram arrives, and may arrive once more later.
Input(d, left) ==
  /\ Len(kcp[d.to].acklist) + Len(d.segs) <= AckBound
  /\ \E k \in ikcp_input(kcp[d.to], d.segs) : kcp' = [kcp EXCEPT ![d.to] = k]
  /\ net' = left
  /\ UNCHANGED <<sent, got>>

Recv(e) ==
  LET n == HeadSegments(kcp[e].rcv_queue) IN
    /\ n > 0
    /\ kcp' = [kcp EXCEPT ![e] = ikcp_recv(@)]
    /\ got' = [got EXCEPT ![e] = Append(@, SubSeq(kcp[e].rcv_queue, 1, n))]
    /\ UNCHANGED <<net, sent>>

Next ==
  \/ \E e \in End : \/ \E n \in 1 .. MaxFrag : ikcp_send(e, n)
                    \/ ikcp_update(e) \/ Recv(e)
  \/ \E d \in net : Input(d, net) \/ Input(d, net \ {d})

Spec == Init /\ [][Next]_vars

(***************************************************************************)
(* Properties.                                                             *)
(***************************************************************************)
Fragment == [msg : 0 .. MaxMsg, frg : 0 .. MaxFrag - 1]
ControlBlock ==
  [snd_una : Sn, snd_nxt : Sn, rcv_nxt : Sn, rmt_wnd : 0 .. rcv_wnd,
   cwnd : Nat, ssthresh : Nat, probe : SUBSET {"ASK", "TELL"}, probe_wait : BOOLEAN,
   acklist : Seq(Sn), snd_queue : Seq(Fragment), rcv_queue : Seq(Fragment),
   snd_buf : SUBSET [sn : Sn, data : Fragment, xmit : 0 .. fastlimit + 1, fastack : 0 .. fastresend],
   rcv_buf : SUBSET [sn : Sn, data : Fragment]]

TypeOK ==
  /\ kcp \in [End -> ControlBlock]
  /\ \A d \in net : d.to \in End /\ Len(d.segs) \in 1 .. MTU
  /\ \A e \in End : sent[e] \in Seq(Seq(Fragment)) /\ got[e] \in Seq(Seq(Fragment))

\* Every segment that has a number and has not reached the peer's rcv_queue is
\* still kept by one side: whatever acknowledgements are lost, doubled or come
\* late and out of order, ikcp_parse_una and ikcp_parse_ack drop a segment only
\* when the peer has it.  Where both have it, it is the same data.
NothingLost ==
  \A e \in End :
    LET k == kcp[e]  p == kcp[Peer(e)]  open == _itimediff(k.snd_nxt, p.rcv_nxt) IN
      /\ open >= 0
      /\ \A i \in 0 .. open - 1 : Plus(p.rcv_nxt, i) \in Sns(k.snd_buf) \cup Sns(p.rcv_buf)
      /\ \A s \in k.snd_buf, r \in p.rcv_buf : s.sn = r.sn => s.data = r.data

\* Neither side keeps more segments than its windows allow, although a
\* datagram that was overtaken can open the remote window again.
WindowsRespected ==
  \A e \in End :
    /\ Len(kcp[e].rcv_queue) <= rcv_wnd
    /\ \A s \in kcp[e].rcv_buf : _itimediff(s.sn, kcp[e].rcv_nxt) \in 0 .. rcv_wnd - 1
    /\ _itimediff(kcp[e].snd_nxt, kcp[e].snd_una) \in 0 .. snd_wnd
    /\ \A s \in kcp[e].snd_buf : _itimediff(s.sn, kcp[e].snd_una) \in 0 .. snd_wnd - 1

\* A full receive queue always has a whole message at its head: were there a
\* message that does not fit, the reader would wait for its end and the end
\* for the reader.
WholeMessageFits ==
  \A e \in End : Len(kcp[e].rcv_queue) >= rcv_wnd => HeadSegments(kcp[e].rcv_queue) > 0

\* An acknowledgement is never taken back: a datagram that comes late, with an
\* old una, moves neither snd_una nor rcv_nxt backwards.
NeverTakenBack ==
  [][\A e \in End : /\ _itimediff(kcp'[e].snd_una, kcp[e].snd_una) >= 0
                    /\ _itimediff(kcp'[e].rcv_nxt, kcp[e].rcv_nxt) >= 0]_vars

Message == {Fragments(m, n) : m \in 1 .. MaxMsg, n \in 1 .. MaxFrag}
Stream == INSTANCE MessageStream

\* Messages arrive whole, once and in order.
ImplementsMessageStream == Stream!Spec
=============================================================================
