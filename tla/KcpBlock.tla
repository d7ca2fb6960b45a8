------------------------------ MODULE KcpBlock ------------------------------
(***************************************************************************)
(* The control block of ikcp.c and what the library's functions do to it.  *)
(* Clocks are abstract: at any flush any segment in flight may have        *)
(* reached its resendts and the time of the next probe may have come, so   *)
(* round-trip times, rto and ts have no place here.  Sizes are counted in  *)
(* segments.  Sequence numbers wrap at SnSpace, 2^32 in the code.          *)
(***************************************************************************)
EXTENDS Integers, SequencesExt

CONSTANTS
  IKCP_WND_RCV,     \* default receive window; a message has fewer fragments
  sndwnd, rcvwnd,   \* the arguments of ikcp_wndsize, > 0
  fastresend,       \* acks that skip a segment before it is resent, 0: never
  fastlimit,        \* how often a segment may be resent that way, 0: always
  nocwnd,           \* TRUE: no congestion control
  MTU,              \* the segments that fit into one datagram
  SnSpace,          \* number of sequence numbers
  Start             \* all the numbers below Start were used, and acknowledged

ASSUME KcpAssumption ==
  /\ IKCP_WND_RCV \in Nat \ {0} /\ sndwnd \in Nat \ {0} /\ rcvwnd \in Nat \ {0}
  /\ fastresend \in Nat /\ fastlimit \in Nat /\ nocwnd \in BOOLEAN
  /\ MTU \in Nat \ {0} /\ SnSpace \in Nat \ {0} /\ Start \in 0 .. SnSpace - 1

Smaller(a, b) == IF a < b THEN a ELSE b
Larger(a, b) == IF a > b THEN a ELSE b

\* ikcp_wndsize never lets the receive window get below the default.
snd_wnd == sndwnd
rcv_wnd == Larger(rcvwnd, IKCP_WND_RCV)
IKCP_THRESH_MIN == 2

(***************************************************************************)
(* Sequence numbers.  The difference of two of them is signed.             *)
(***************************************************************************)
Sn == 0 .. SnSpace - 1

\* Fault: sequence numbers do not wrap.
Plus_Unbounded(sn, n) == sn + n

Plus(sn, n) == (sn + n) % SnSpace
_itimediff(later, earlier) ==
  LET d == (later - earlier) % SnSpace
  IN  IF d < SnSpace \div 2 THEN d ELSE d - SnSpace

Sns(segs) == {s.sn : s \in segs}

\* Fragments are numbered downwards; the last one is 0.
Fragments(m, n) == [i \in 1 .. n |-> [msg |-> m, frg |-> n - i]]

ikcp_create ==
  [snd_una |-> Start, snd_nxt |-> Start, rcv_nxt |-> Start,
   rmt_wnd |-> IKCP_WND_RCV, cwnd |-> 0, ssthresh |-> IKCP_THRESH_MIN,
   probe |-> {}, probe_wait |-> FALSE, acklist |-> <<>>,
   snd_queue |-> <<>>, snd_buf |-> {}, rcv_queue |-> <<>>, rcv_buf |-> {}]

(***************************************************************************)
(* Receiving.                                                              *)
(***************************************************************************)

\* Fault: segments move on although the window is full.
MoveAvailable_Full(k) ==
  LET n == Max({j \in 0 .. SnSpace \div 2 : \A i \in 0 .. j - 1 : Plus(k.rcv_nxt, i) \in Sns(k.rcv_buf)})
      DataOf(sn) == (CHOOSE s \in k.rcv_buf : s.sn = sn).data
      next == Plus(k.rcv_nxt, n)
  IN  [k EXCEPT !.rcv_queue = @ \o [i \in 1 .. n |-> DataOf(Plus(k.rcv_nxt, i - 1))],
                !.rcv_buf = {s \in @ : _itimediff(s.sn, next) >= 0},
                !.rcv_nxt = next]

\* The loop at the end of ikcp_parse_data and in ikcp_recv: segments in
\* sequence move from rcv_buf to rcv_queue while the window has room.
MoveAvailable(k) ==
  LET Ready(n) == /\ n + Len(k.rcv_queue) <= rcv_wnd
                  /\ \A i \in 0 .. n - 1 : Plus(k.rcv_nxt, i) \in Sns(k.rcv_buf)
      n == Max({j \in 0 .. rcv_wnd : Ready(j) \/ j = 0})
      DataOf(sn) == (CHOOSE s \in k.rcv_buf : s.sn = sn).data
      next == Plus(k.rcv_nxt, n)
  IN  [k EXCEPT !.rcv_queue = @ \o [i \in 1 .. n |-> DataOf(Plus(k.rcv_nxt, i - 1))],
                !.rcv_buf = {s \in @ : _itimediff(s.sn, next) >= 0},
                !.rcv_nxt = next]

ikcp_parse_data(k, seg) ==
  IF \/ _itimediff(seg.sn, Plus(k.rcv_nxt, rcv_wnd)) >= 0
     \/ _itimediff(seg.sn, k.rcv_nxt) < 0
  THEN k
  ELSE MoveAvailable([k EXCEPT !.rcv_buf =
         IF seg.sn \in Sns(@) THEN @ ELSE @ \cup {[sn |-> seg.sn, data |-> seg.data]}])

ikcp_ack_push(k, sn) == [k EXCEPT !.acklist = Append(@, sn)]

\* snd_una becomes the first number in snd_buf, or the next one to be used.
ikcp_shrink_buf(k) ==
  [k EXCEPT !.snd_una =
     IF k.snd_buf = {} THEN k.snd_nxt
     ELSE CHOOSE sn \in Sns(k.snd_buf) : \A s \in k.snd_buf : _itimediff(s.sn, sn) >= 0]

\* Fault: the segment una itself, which the peer waits for, is dropped too.
ikcp_parse_una_Inclusive(k, una) ==
  [k EXCEPT !.snd_buf = {s \in @ : _itimediff(una, s.sn) < 0}]

ikcp_parse_una(k, una) ==
  [k EXCEPT !.snd_buf = {s \in @ : _itimediff(una, s.sn) <= 0}]

InFlight(k, sn) == _itimediff(sn, k.snd_una) >= 0 /\ _itimediff(sn, k.snd_nxt) < 0

ikcp_parse_ack(k, sn) ==
  IF InFlight(k, sn) THEN [k EXCEPT !.snd_buf = {s \in @ : s.sn # sn}] ELSE k

\* Every segment before sn was skipped once more.  The count matters only up
\* to fastresend.
ikcp_parse_fastack(k, sn) ==
  IF InFlight(k, sn)
  THEN [k EXCEPT !.snd_buf =
          {IF _itimediff(sn, s.sn) > 0
           THEN [s EXCEPT !.fastack = Smaller(@ + 1, fastresend)] ELSE s : s \in @}]
  ELSE k

\* Fault: snd_una is set from the datagram, without looking whether it is old.
InputSegment_Trusting(k, seg) ==
  LET k1 == [ikcp_parse_una([k EXCEPT !.rmt_wnd = seg.wnd], seg.una) EXCEPT !.snd_una = seg.una]
      k2 == ikcp_ack_push(k1, seg.sn)
  IN  CASE seg.cmd = "ACK"  -> ikcp_parse_ack(k1, seg.sn)
        [] seg.cmd = "PUSH" -> ikcp_parse_data(k2, seg)
        [] OTHER            -> k1

\* The body of the loop in ikcp_input, for one segment of the datagram.
InputSegment(k, seg) ==
  LET k1 == ikcp_shrink_buf(ikcp_parse_una([k EXCEPT !.rmt_wnd = seg.wnd], seg.una))
      k2 == ikcp_ack_push(k1, seg.sn)
  IN  CASE seg.cmd = "ACK"  -> ikcp_shrink_buf(ikcp_parse_ack(k1, seg.sn))
        [] seg.cmd = "PUSH" -> IF _itimediff(seg.sn, Plus(k1.rcv_nxt, rcv_wnd)) >= 0 THEN k1
                               ELSE IF _itimediff(seg.sn, k1.rcv_nxt) < 0 THEN k2
                               ELSE ikcp_parse_data(k2, seg)
        [] seg.cmd = "WASK" -> [k1 EXCEPT !.probe = @ \cup {"TELL"}]
        [] seg.cmd = "WINS" -> k1

\* The loop over the datagram, then the count of skipped segments, for the
\* highest number acknowledged in it.
InputSegments(k, segs) ==
  LET after[i \in 0 .. Len(segs)] == IF i = 0 THEN k ELSE InputSegment(after[i - 1], segs[i])
      k1 == after[Len(segs)]
      acks == {s.sn : s \in {segs[i] : i \in {j \in DOMAIN segs : segs[j].cmd = "ACK"}}}
      maxack == CHOOSE sn \in acks : \A a \in acks : _itimediff(sn, a) >= 0
  IN  IF acks = {} THEN k1 ELSE ikcp_parse_fastack(k1, maxack)

\* When snd_una advanced and the remote window is not reached, the congestion
\* window grows: by one below ssthresh, above it by what incr has gathered,
\* which is at most two, and not beyond the remote window.
Grown(before, k) ==
  IF _itimediff(k.snd_una, before.snd_una) > 0 /\ k.cwnd < k.rmt_wnd
  THEN IF k.cwnd < k.ssthresh THEN {k.cwnd + 1}
       ELSE k.cwnd .. Smaller(k.cwnd + 2, k.rmt_wnd)
  ELSE {k.cwnd}

ikcp_input(k, segs) ==
  LET k1 == InputSegments(k, segs) IN {[k1 EXCEPT !.cwnd = c] : c \in Grown(k, k1)}

(***************************************************************************)
(* ikcp_recv.                                                              *)
(***************************************************************************)

\* Fault: a message is handed over before all its fragments are there.
HeadSegments_Early(q) ==
  LET last == {i \in DOMAIN q : q[i].frg = 0} IN IF last = {} THEN Len(q) ELSE Min(last)

\* The number of segments of the message at the head of rcv_queue, 0 if the
\* message is not complete (ikcp_peeksize returns -1).
HeadSegments(q) ==
  IF q = <<>> \/ Len(q) < Head(q).frg + 1 THEN 0
  ELSE Min({i \in DOMAIN q : q[i].frg = 0})

ikcp_recv(k) ==
  LET n == HeadSegments(k.rcv_queue)
      k1 == MoveAvailable([k EXCEPT !.rcv_queue = SubSeq(@, n + 1, Len(@))])
      recover == Len(k.rcv_queue) >= rcv_wnd /\ Len(k1.rcv_queue) < rcv_wnd
  IN  [k1 EXCEPT !.probe = IF recover THEN @ \cup {"TELL"} ELSE @]

(***************************************************************************)
(* ikcp_flush.                                                             *)
(***************************************************************************)
ikcp_wnd_unused(k) == Larger(rcv_wnd - Len(k.rcv_queue), 0)

Segment(k, cmd, sn, data) ==
  [cmd |-> cmd, sn |-> sn, data |-> data, wnd |-> ikcp_wnd_unused(k), una |-> k.rcv_nxt]
NoData == [msg |-> 0, frg |-> 0]

\* Fault: a closed remote window is never probed.
Probe_Never(k, due) == k

\* The remote window is closed: the first flush only starts the timer, the
\* next one after it has run out asks.
Probe(k, due) ==
  IF k.rmt_wnd = 0
  THEN [k EXCEPT !.probe_wait = TRUE,
                 !.probe = IF k.probe_wait /\ due THEN @ \cup {"ASK"} ELSE @]
  ELSE [k EXCEPT !.probe_wait = FALSE]

EffectiveWindow(k) ==
  LET w == Smaller(snd_wnd, k.rmt_wnd) IN IF nocwnd THEN w ELSE Smaller(k.cwnd, w)

\* Fragments get their number when they move from snd_queue to snd_buf.
FillBuffer(k) ==
  LET room == Larger(_itimediff(Plus(k.snd_una, EffectiveWindow(k)), k.snd_nxt), 0)
      n == Smaller(room, Len(k.snd_queue))
  IN  [k EXCEPT !.snd_queue = SubSeq(@, n + 1, Len(@)),
                !.snd_nxt = Plus(@, n),
                !.snd_buf = @ \cup {[sn |-> Plus(k.snd_nxt, i - 1), data |-> k.snd_queue[i],
                                     xmit |-> 0, fastack |-> 0] : i \in 1 .. n}]

\* Skipped often enough, and not resent too often: resent at once.
Skipped(s) ==
  /\ fastresend > 0 /\ s.fastack >= fastresend
  /\ fastlimit = 0 \/ s.xmit <= fastlimit

\* xmit matters up to fastlimit + 1 (dead_link sets a state nobody reads).
Transmit(s, late) ==
  [s EXCEPT !.xmit = Smaller(@ + 1, fastlimit + 1),
            !.fastack = IF s.xmit > 0 /\ s.sn \notin late THEN 0 ELSE @]

\* The acknowledgements, the probe commands and the segments that are new,
\* late or skipped, in this order.
Output(k, late) ==
  LET chosen == {s \in k.snd_buf : s.xmit = 0 \/ s.sn \in late \/ Skipped(s)}
      order == CHOOSE segs \in SetToSeqs(chosen) :
                 \A i, j \in DOMAIN segs : i < j => _itimediff(segs[i].sn, segs[j].sn) < 0
  IN  [i \in DOMAIN k.acklist |-> Segment(k, "ACK", k.acklist[i], NoData)]
      \o (IF "ASK" \in k.probe THEN <<Segment(k, "WASK", 0, NoData)>> ELSE <<>>)
      \o (IF "TELL" \in k.probe THEN <<Segment(k, "WINS", 0, NoData)>> ELSE <<>>)
      \o [i \in DOMAIN order |-> Segment(k, "PUSH", order[i].sn, order[i].data)]

Transmitted(k, late) ==
  [k EXCEPT !.acklist = <<>>, !.probe = {},
            !.snd_buf = {IF s.xmit = 0 \/ s.sn \in late \/ Skipped(s)
                         THEN Transmit(s, late) ELSE s : s \in @}]

\* A fast retransmission halves the threshold, a timeout also closes the
\* window; k is the block before the segments were transmitted.
Congestion(k, late, window) ==
  LET changed == \E s \in k.snd_buf : s.xmit > 0 /\ s.sn \notin late /\ Skipped(s)
      half(n) == Larger(n \div 2, IKCP_THRESH_MIN)
      thresh == half(_itimediff(k.snd_nxt, k.snd_una))
  IN  IF late # {} THEN [ssthresh |-> half(window), cwnd |-> 1]
      ELSE IF changed THEN [ssthresh |-> thresh, cwnd |-> thresh + fastresend]
      ELSE [ssthresh |-> k.ssthresh, cwnd |-> Larger(k.cwnd, 1)]

\* late: the numbers of segments in flight whose resendts has passed;
\* due: the time of the next probe has passed.
ikcp_flush(k, late, due) ==
  LET k1 == FillBuffer(Probe(k, due))
      c == Congestion(k1, late, EffectiveWindow(k))
  IN  [kcp |-> [Transmitted(k1, late) EXCEPT !.ssthresh = c.ssthresh, !.cwnd = c.cwnd],
       out |-> Output(k1, late)]

\* Segments are packed into datagrams of at most MTU segments.
Packed(segs) ==
  {SubSeq(segs, i, Smaller(i + MTU - 1, Len(segs))) :
     i \in {j \in DOMAIN segs : (j - 1) % MTU = 0}}

\* The segments that may be late.
Waiting(k) == {s.sn : s \in {t \in k.snd_buf : t.xmit > 0}}
=============================================================================
