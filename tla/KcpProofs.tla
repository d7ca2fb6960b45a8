------------------------------- MODULE KcpProofs -------------------------------
(***************************************************************************)
(* Theorems about Kcp, for all windows, message lengths, datagram sizes    *)
(* and networks.                                                           *)
(***************************************************************************)
EXTENDS Kcp, FiniteSetTheorems, TLAPS

Size(s) == Len(s)

\* A set of numbers has a least one, which is what induction rests on here.
LEMMA NatMin ==
  ASSUME NEW S \in SUBSET Nat, S # {}
  PROVE  \E x \in S : \A y \in S : x <= y
<1> DEFINE R == OpToRel(<, Nat)
<1>1. \E x \in S : \A y \in S : ~ (<<y, x>> \in R)
  BY NatLessThanWellFounded, WFMin
<1>2. \A x, y \in Nat : <<y, x>> \in R <=> y < x
  BY DEF OpToRel
<1> HIDE DEF R
<1>3. PICK x \in S : \A y \in S : ~ (<<y, x>> \in R)
  BY <1>1
<1>4. \A y \in S : x <= y
  <2> SUFFICES ASSUME NEW y \in S
               PROVE  x <= y
    OBVIOUS
  <2>1. x \in Nat /\ y \in Nat
    OBVIOUS
  <2>2. ~(y < x)
    BY <1>2, <1>3, <2>1
  <2> QED
    BY <2>1, <2>2
<1> QED
  BY <1>4

\* Induction for the members of a set: what 0 has and passes on, all have.
LEMMA NatSet ==
  ASSUME NEW S, 0 \in S, NEW n \in Nat, \A i \in 0 .. n - 1 : i \in S => i + 1 \in S
  PROVE  \A i \in 0 .. n : i \in S
<1> DEFINE Out == {i \in 0 .. n : i \notin S}
<1>1. SUFFICES ASSUME Out # {}
               PROVE  FALSE
  OBVIOUS
<1>2. PICK x \in Out : \A y \in Out : x <= y
  <2>1. Out \in SUBSET Nat
    OBVIOUS
  <2> QED
    BY <1>1, <2>1, NatMin
<1>3. x # 0 /\ x - 1 \in 0 .. n - 1
  OBVIOUS
<1>4. x - 1 \in S
  BY <1>2, <1>3
<1> QED
  BY <1>3, <1>4

\* A bounded set of numbers has a greatest one.
LEMMA BoundedMax ==
  ASSUME NEW n \in Nat, NEW S \in SUBSET (0 .. n), S # {}
  PROVE  Max(S) \in S /\ \A y \in S : Max(S) >= y
<1> DEFINE U == {n - x : x \in S}
<1>1. PICK u \in U : \A y \in U : u <= y
  <2>1. U \in SUBSET Nat
    <3>1. \A x \in S : n - x \in Nat
      OBVIOUS
    <3> QED
      BY <3>1
  <2>2. U # {}
    OBVIOUS
  <2> QED
    BY <2>1, <2>2, NatMin
<1>2. PICK x \in S : u = n - x
  OBVIOUS
<1>3. \A y \in S : x >= y
  BY <1>1, <1>2
<1> QED
  BY <1>3 DEF Max

\* The least of a set of numbers.
LEMMA LeastMin ==
  ASSUME NEW S \in SUBSET Nat, S # {}
  PROVE  Min(S) \in S /\ \A y \in S : Min(S) <= y
BY NatMin DEF Min
--------------------------------------------------------------------------------
(***************************************************************************)
(* Sequence numbers.  Counted from the first one used, they do not wrap.   *)
(***************************************************************************)
Abs(sn) == (sn - Start) % SnSpace
Num(i) == (Start + i) % SnSpace
Half == SnSpace \div 2

\* The space of numbers, and half of it.
LEMMA SpaceFacts ==
  /\ SnSpace \in Nat /\ SnSpace > 0 /\ Start \in Nat /\ Start < SnSpace
  /\ Half \in Nat /\ Half < SnSpace /\ 2 * Half <= SnSpace
BY KcpAssumption DEF Half

\* What a remainder is.
LEMMA DivMod ==
  ASSUME NEW x \in Int
  PROVE  /\ x = SnSpace * (x \div SnSpace) + (x % SnSpace)
         /\ x \div SnSpace \in Int /\ x % SnSpace \in 0 .. SnSpace - 1
BY SpaceFacts

\* A remainder is known by what it differs by.
LEMMA ModIs ==
  ASSUME NEW x \in Int, NEW r \in 0 .. SnSpace - 1, NEW q \in Int, x = SnSpace * q + r
  PROVE  x % SnSpace = r
<1>1. x = SnSpace * (x \div SnSpace) + (x % SnSpace) /\ x \div SnSpace \in Int /\ x % SnSpace \in 0 .. SnSpace - 1
  BY SpaceFacts
<1>2. \A n \in Nat \ {0} : \A a, b \in 0 .. n - 1 : \A i, j \in Int : n * i + a = n * j + b => a = b
  OBVIOUS
<1> QED
  BY <1>1, <1>2, SpaceFacts

\* Counting from Start and back.
LEMMA AbsNum ==
  ASSUME NEW i \in 0 .. SnSpace - 1
  PROVE  Num(i) \in Sn /\ Abs(Num(i)) = i
<1> USE SpaceFacts
<1>1. CASE Start + i < SnSpace
  <2>1. Start + i = SnSpace * 0 + (Start + i) /\ i = SnSpace * 0 + i
    OBVIOUS
  <2>2. Num(i) = Start + i
    BY <1>1, <2>1, ModIs DEF Num
  <2>3. Num(i) - Start = i
    BY <2>2
  <2> QED
    BY <1>1, <2>1, <2>2, <2>3, ModIs DEF Sn, Abs
<1>2. CASE Start + i >= SnSpace
  <2>1. Start + i = SnSpace * 1 + (Start + i - SnSpace) /\ i - SnSpace = SnSpace * (-1) + i
    OBVIOUS
  <2>2. Num(i) = Start + i - SnSpace
    BY <1>2, <2>1, ModIs DEF Num
  <2>3. Num(i) - Start = i - SnSpace
    BY <2>2
  <2> QED
    BY <1>2, <2>1, <2>2, <2>3, ModIs DEF Sn, Abs
<1> QED
  BY <1>1, <1>2

\* Counting from Start gives every number once.
LEMMA NumAbs ==
  ASSUME NEW sn \in Sn
  PROVE  Abs(sn) \in 0 .. SnSpace - 1 /\ Num(Abs(sn)) = sn
<1> USE SpaceFacts
<1>1. CASE sn >= Start
  <2>1. sn - Start = SnSpace * 0 + (sn - Start) /\ sn = SnSpace * 0 + sn
    BY DEF Sn
  <2>2. Abs(sn) = sn - Start
    BY <1>1, <2>1, ModIs DEF Abs, Sn
  <2>3. Start + Abs(sn) = sn
    BY <2>2 DEF Sn
  <2> QED
    BY <1>1, <2>1, <2>2, <2>3, ModIs DEF Sn, Num
<1>2. CASE sn < Start
  <2>1. sn - Start = SnSpace * (-1) + (sn - Start + SnSpace) /\ sn + SnSpace = SnSpace * 1 + sn
    BY DEF Sn
  <2>2. Abs(sn) = sn - Start + SnSpace
    BY <1>2, <2>1, ModIs DEF Abs, Sn
  <2>3. Start + Abs(sn) = sn + SnSpace
    BY <2>2 DEF Sn
  <2> QED
    BY <1>2, <2>1, <2>2, <2>3, ModIs DEF Sn, Num
<1> QED
  BY <1>1, <1>2 DEF Sn

\* Different numbers stay different.
LEMMA AbsInjective ==
  ASSUME NEW a \in Sn, NEW b \in Sn, Abs(a) = Abs(b)
  PROVE  a = b
BY NumAbs

\* Adding, as long as no more than SnSpace numbers are used.
LEMMA AbsPlus ==
  ASSUME NEW sn \in Sn, NEW n \in Nat, Abs(sn) + n < SnSpace
  PROVE  Plus(sn, n) \in Sn /\ Abs(Plus(sn, n)) = Abs(sn) + n /\ Plus(sn, n) = Num(Abs(sn) + n)
<1> USE SpaceFacts
<1> DEFINE a == Abs(sn)
<1>1. a \in 0 .. SnSpace - 1 /\ sn = Num(a) /\ sn \in 0 .. SnSpace - 1
  BY NumAbs DEF Sn
<1>2. Plus(sn, n) = Num(a + n)
  <2> DEFINE q == (Start + a) \div SnSpace
             q1 == (Start + (a + n)) \div SnSpace
             r1 == (Start + (a + n)) % SnSpace
  <2>0. Start + a \in Int /\ Start + (a + n) \in Int /\ (Start + a) % SnSpace = sn
    BY <1>1 DEF Num
  <2>1. Start + a = SnSpace * q + sn /\ q \in Int
    BY <2>0, DivMod
  <2>2. Start + (a + n) = SnSpace * q1 + r1 /\ q1 \in Int /\ r1 \in 0 .. SnSpace - 1
    BY <2>0, DivMod
  <2> HIDE DEF q, q1, r1
  <2>3. sn + n = SnSpace * (q1 - q) + r1
    <3>1. SnSpace * (q1 - q) = SnSpace * q1 - SnSpace * q
      BY <2>1, <2>2
    <3> HIDE DEF a
    <3> QED
      BY <1>1, <2>1, <2>2, <3>1
  <2>4. (sn + n) % SnSpace = r1
    BY <1>1, <2>1, <2>2, <2>3, ModIs
  <2> QED
    BY <2>4 DEF Plus, Num, r1
<1>3. a + n \in 0 .. SnSpace - 1
  BY <1>1
<1> QED
  BY <1>2, <1>3, AbsNum

\* The signed difference, as long as it is less than half the space.
LEMMA AbsDiff ==
  ASSUME NEW a \in Sn, NEW b \in Sn, Abs(a) - Abs(b) >= -Half, Abs(a) - Abs(b) < Half
  PROVE  _itimediff(a, b) = Abs(a) - Abs(b)
<1> USE SpaceFacts
<1> DEFINE A == Abs(a)  B == Abs(b)  d == (a - b) % SnSpace
<1>1. /\ A \in 0 .. SnSpace - 1 /\ B \in 0 .. SnSpace - 1 /\ a \in 0 .. SnSpace - 1 /\ b \in 0 .. SnSpace - 1
      /\ a = Num(A) /\ b = Num(B)
  BY NumAbs DEF Sn
<1>2. PICK p \in Int, q \in Int : a - Start = SnSpace * p + A /\ b - Start = SnSpace * q + B
  <2>1. a - Start \in Int /\ b - Start \in Int
    BY <1>1
  <2> QED
    BY <2>1, DivMod DEF Abs
<1> HIDE DEF A, B
<1>3. a - b = SnSpace * (p - q) + (A - B)
  <2>1. SnSpace * (p - q) = SnSpace * p - SnSpace * q
    OBVIOUS
  <2> QED
    BY <1>1, <1>2, <2>1
<1>4. CASE A >= B
  <2>1. d = A - B
    BY <1>1, <1>3, <1>4, ModIs
  <2> QED
    BY <1>1, <1>4, <2>1 DEF _itimediff, Half, A, B
<1>5. CASE A < B
  <2>1. a - b = SnSpace * (p - q - 1) + (A - B + SnSpace)
    <3>1. SnSpace * (p - q - 1) = SnSpace * (p - q) - SnSpace
      OBVIOUS
    <3> QED
      BY <1>1, <1>3, <3>1
  <2>2. d = A - B + SnSpace
    BY <1>1, <1>5, <2>1, ModIs
  <2> QED
    BY <1>1, <1>5, <2>2 DEF _itimediff, Half, A, B
<1> QED
  BY <1>1, <1>4, <1>5
--------------------------------------------------------------------------------
(***************************************************************************)
(* The invariant, which is about the stream F[e] of all the fragments that *)
(* endpoint e was given to send.  Its messages end at B[e][1], B[e][2]...  *)
(* Una, Nxt and Rcv are snd_una, snd_nxt and rcv_nxt without the wrap.     *)
(***************************************************************************)
Total == MaxMsg * (IKCP_WND_RCV - 1)

Una(k) == Abs(k.snd_una)
Nxt(k) == Abs(k.snd_nxt)
Rcv(k) == Abs(k.rcv_nxt)
Taken(k) == Rcv(k) - Size(k.rcv_queue)

\* The endpoint has reached the number sn, or kept what came with it.
Arrived(k, sn) == Abs(sn) < Rcv(k) \/ sn \in Sns(k.rcv_buf)

SendOK(k, F) ==
  /\ Una(k) <= Nxt(k) /\ Nxt(k) <= Una(k) + snd_wnd /\ Nxt(k) + Size(k.snd_queue) = Size(F)
  /\ \A i \in 1 .. Size(k.snd_queue) : k.snd_queue[i] = F[Nxt(k) + i]
  /\ \A s \in k.snd_buf : Una(k) <= Abs(s.sn) /\ Abs(s.sn) < Nxt(k) /\ s.data = F[Abs(s.sn) + 1]
  /\ \A s, t \in k.snd_buf : s.sn = t.sn => s = t

RecvOK(k, n, F) ==
  /\ Rcv(k) <= n /\ 0 <= Taken(k) /\ Size(k.rcv_queue) <= rcv_wnd
  /\ \A i \in 1 .. Size(k.rcv_queue) : k.rcv_queue[i] = F[Taken(k) + i]
  /\ \A s \in k.rcv_buf : /\ Rcv(k) <= Abs(s.sn) /\ Abs(s.sn) < Rcv(k) + rcv_wnd
                          /\ Abs(s.sn) < n /\ s.data = F[Abs(s.sn) + 1]

AcksOK(k) == \A i \in 1 .. Len(k.acklist) : Arrived(k, k.acklist[i])

\* What k has sent and has not come as far as the queue of p is kept by one of them.
Kept(k, p) == \A sn \in Sn : Rcv(p) <= Abs(sn) /\ Abs(sn) < Nxt(k) => sn \in Sns(k.snd_buf) \cup Sns(p.rcv_buf)

\* p receives what k sends.
Sends(k, p, F) == SendOK(k, F) /\ RecvOK(p, Nxt(k), F) /\ Kept(k, p) /\ AcksOK(p)

Seg == [cmd : {"ACK", "PUSH", "WASK", "WINS"}, sn : Sn, data : Fragment \cup {NoData},
        wnd : 0 .. rcv_wnd, una : Sn]

\* A segment that p, whose stream is F, has put into the network.
SegOK(seg, p, F) ==
  /\ seg \in Seg /\ Abs(seg.una) <= Rcv(p)
  /\ seg.cmd = "ACK" => Arrived(p, seg.sn)
  /\ seg.cmd = "PUSH" => seg.data \in Fragment /\ Abs(seg.sn) < Nxt(p) /\ seg.data = F[Abs(seg.sn) + 1]

MessageAt(M, m, F, B) == LET n == B[m] - B[m - 1] IN
  /\ n \in 1 .. IKCP_WND_RCV - 1 /\ B[m] <= Size(F) /\ M[m] = Fragments(m, n)
  /\ \A j \in 1 .. n : F[B[m - 1] + j] = [msg |-> m, frg |-> n - j]

StreamOK(M, F, B) ==
  /\ Size(M) <= MaxMsg /\ B[0] = 0 /\ B[Size(M)] = Size(F) /\ Size(F) <= Size(M) * (IKCP_WND_RCV - 1)
  /\ \A m \in 1 .. Size(M) : MessageAt(M, m, F, B)

GotOK(G, M, B, taken) == Size(G) <= Size(M) /\ taken = B[Size(G)]

Types ==
  /\ kcp \in [End -> ControlBlock]
  /\ sent \in [End -> Seq(Seq(Fragment))] /\ got \in [End -> Seq(Seq(Fragment))]
  /\ \A d \in net : d.to \in End /\ d.segs \in Seq(Seg) /\ Len(d.segs) \in 1 .. MTU

\* One direction: k has sent M to the endpoint to, whose block is p and which
\* has read H of it; N is the network.
Dir(k, p, M, H, N, to, F, B) ==
  /\ Sends(k, p, F) /\ StreamOK(M, F, B) /\ GotOK(H, M, B, Taken(p))
  /\ \A d \in N : d.to = to => \A i \in 1 .. Len(d.segs) : SegOK(d.segs[i], k, F)

Direction(e, F, B) == Dir(kcp[e], kcp[Peer(e)], sent[e], got[Peer(e)], net, Peer(e), F, B)

Inv(F, B) == Types /\ \A e \in End : Direction(e, F[e], B[e])

IInv == \E F \in [End -> Seq(Fragment)], B \in [End -> [Nat -> Nat]] : Inv(F, B)
--------------------------------------------------------------------------------
\* Sequences put together, and what is left of one.
LEMMA ConcatFacts ==
  ASSUME NEW T, NEW a \in Seq(T), NEW b \in Seq(T)
  PROVE  a \o b \in Seq(T) /\ Size(a) \in Nat /\ Size(b) \in Nat /\ Size(a \o b) = Size(a) + Size(b)
BY DEF Size

\* The beginning of two sequences put together.
LEMMA ConcatFront ==
  ASSUME NEW T, NEW a \in Seq(T), NEW b \in Seq(T)
  PROVE  \A i \in 1 .. Size(a) : (a \o b)[i] = a[i]
BY DEF Size

\* The end of two sequences put together.
LEMMA ConcatBack ==
  ASSUME NEW T, NEW a \in Seq(T), NEW b \in Seq(T)
  PROVE  \A i \in 1 .. Size(b) : (a \o b)[Size(a) + i] = b[i]
BY DEF Size

\* What is left of a sequence without its first n elements.
LEMMA RestFacts ==
  ASSUME NEW T, NEW s \in Seq(T), NEW n \in 0 .. Size(s)
  PROVE  /\ SubSeq(s, n + 1, Len(s)) \in Seq(T) /\ Size(s) \in Nat
         /\ Size(SubSeq(s, n + 1, Len(s))) = Size(s) - n
         /\ \A i \in 1 .. Size(s) - n : SubSeq(s, n + 1, Len(s))[i] = s[n + i]
BY DEF Size

\* A function on 1 .. n is a sequence of n elements.
LEMMA FunctionIsSeq ==
  ASSUME NEW T, NEW n \in Nat, NEW f \in [1 .. n -> T]
  PROVE  f \in Seq(T) /\ Size(f) = n
BY DEF Size

\* The constants, and the range of the numbers of a block.
LEMMA ConstantFacts ==
  /\ rcv_wnd \in Nat /\ IKCP_WND_RCV <= rcv_wnd /\ rcv_wnd > 0 /\ snd_wnd \in Nat /\ snd_wnd > 0
  /\ IKCP_WND_RCV \in Nat /\ IKCP_WND_RCV > 0 /\ Total \in Nat
  /\ Total + rcv_wnd <= Half /\ snd_wnd < Half /\ MaxMsg \in Nat /\ MaxFrag \in Nat
<1>1. /\ rcv_wnd \in Nat /\ IKCP_WND_RCV <= rcv_wnd /\ rcv_wnd > 0 /\ snd_wnd \in Nat /\ snd_wnd > 0
      /\ IKCP_WND_RCV \in Nat /\ IKCP_WND_RCV > 0 /\ IKCP_WND_RCV - 1 \in Nat
  BY KcpAssumption DEF rcv_wnd, snd_wnd, Larger
<1>2. MaxMsg \in Nat /\ MaxFrag \in Nat /\ Total + rcv_wnd <= Half /\ snd_wnd < Half
  BY KcpBounds, <1>1 DEF Total, Half
<1>3. \A a, b \in Nat : a * b \in Nat
  OBVIOUS
<1> QED
  BY <1>1, <1>2, <1>3 DEF Total

\* The types and the range of what the invariant says of a block.
LEMMA BlockFacts ==
  ASSUME NEW k \in ControlBlock
  PROVE  /\ Una(k) \in 0 .. SnSpace - 1 /\ Nxt(k) \in 0 .. SnSpace - 1 /\ Rcv(k) \in 0 .. SnSpace - 1
         /\ k.snd_una \in Sn /\ k.snd_nxt \in Sn /\ k.rcv_nxt \in Sn
         /\ k.rcv_queue \in Seq(Fragment) /\ k.snd_queue \in Seq(Fragment) /\ k.acklist \in Seq(Sn)
         /\ Size(k.rcv_queue) \in Nat /\ Size(k.snd_queue) \in Nat
         /\ \A s \in k.snd_buf : s.sn \in Sn /\ s.data \in Fragment /\ Abs(s.sn) \in 0 .. SnSpace - 1
         /\ \A s \in k.rcv_buf : s.sn \in Sn /\ s.data \in Fragment /\ Abs(s.sn) \in 0 .. SnSpace - 1
         /\ k.rcv_buf \subseteq [sn : Sn, data : Fragment]
<1>1. /\ k.snd_una \in Sn /\ k.snd_nxt \in Sn /\ k.rcv_nxt \in Sn
      /\ k.rcv_queue \in Seq(Fragment) /\ k.snd_queue \in Seq(Fragment) /\ k.acklist \in Seq(Sn)
      /\ \A s \in k.snd_buf : s.sn \in Sn /\ s.data \in Fragment
      /\ \A s \in k.rcv_buf : s.sn \in Sn /\ s.data \in Fragment
      /\ k.rcv_buf \subseteq [sn : Sn, data : Fragment]
  BY DEF ControlBlock
<1>2. Size(k.rcv_queue) \in Nat /\ Size(k.snd_queue) \in Nat
  BY <1>1 DEF Size
<1> QED
  BY <1>1, <1>2, NumAbs DEF Una, Nxt, Rcv

\* What only a receiver changes leaves its sending side alone.
SameSender(k, k1) ==
  /\ k1.snd_una = k.snd_una /\ k1.snd_nxt = k.snd_nxt /\ k1.snd_queue = k.snd_queue /\ k1.snd_buf = k.snd_buf
  /\ k1.rmt_wnd = k.rmt_wnd /\ k1.cwnd = k.cwnd /\ k1.ssthresh = k.ssthresh
  /\ k1.probe = k.probe /\ k1.probe_wait = k.probe_wait /\ k1.acklist = k.acklist

\* The receiver goes on: what has arrived stays so.
Onward(k, k1) == Rcv(k) <= Rcv(k1) /\ \A sn \in Sn : Arrived(k, sn) => Arrived(k1, sn)

\* The loop that moves segments in sequence from rcv_buf to rcv_queue.
LEMMA MoveOK ==
  ASSUME NEW k \in ControlBlock, NEW F \in Seq(Fragment), Size(F) <= Total,
         NEW n \in Nat, n <= Size(F), RecvOK(k, n, F)
  PROVE  LET k1 == MoveAvailable(k) IN
         /\ k1 \in ControlBlock /\ RecvOK(k1, n, F) /\ Taken(k1) = Taken(k)
         /\ Onward(k, k1) /\ SameSender(k, k1)
<1> DEFINE Ready(j) == /\ j + Len(k.rcv_queue) <= rcv_wnd
                       /\ \A i \in 0 .. j - 1 : Plus(k.rcv_nxt, i) \in Sns(k.rcv_buf)
           S == {j \in 0 .. rcv_wnd : Ready(j) \/ j = 0}
           m == Max(S)
           DataOf(sn) == (CHOOSE s \in k.rcv_buf : s.sn = sn).data
           next == Plus(k.rcv_nxt, m)
           moved == [i \in 1 .. m |-> DataOf(Plus(k.rcv_nxt, i - 1))]
           rest == {s \in k.rcv_buf : _itimediff(s.sn, next) >= 0}
           R == Rcv(k)
           q == k.rcv_queue
           k1 == MoveAvailable(k)
<1>1. k1 = [k EXCEPT !.rcv_queue = @ \o moved, !.rcv_buf = rest, !.rcv_nxt = next]
  BY DEF MoveAvailable
<1>2. m \in 0 .. rcv_wnd /\ (m = 0 \/ Ready(m))
  <2>1. S \in SUBSET (0 .. rcv_wnd) /\ 0 \in S
    BY ConstantFacts
  <2>2. m \in S
    BY <2>1, BoundedMax, ConstantFacts
  <2> QED
    BY <2>2
<1>3. m > 0 => m + Size(q) <= rcv_wnd
  BY <1>2 DEF Size
<1> HIDE DEF m
<1>m. m \in Nat /\ m <= rcv_wnd /\ rcv_wnd \in Nat /\ SnSpace \in Nat /\ Half \in Nat
  BY <1>2, ConstantFacts, SpaceFacts
<1>4. /\ R \in Nat /\ Size(q) \in Nat /\ Size(F) \in Nat /\ q \in Seq(Fragment) /\ k.rcv_nxt \in Sn
      /\ R <= n /\ 0 <= R - Size(q) /\ Size(q) <= rcv_wnd
  BY BlockFacts DEF RecvOK, Taken, Size
<1>5. n + rcv_wnd <= Half /\ R + rcv_wnd < SnSpace
  BY <1>4, ConstantFacts, SpaceFacts
<1>6. ASSUME NEW i \in 0 .. m - 1
      PROVE  /\ Plus(k.rcv_nxt, i) \in Sn /\ Abs(Plus(k.rcv_nxt, i)) = R + i /\ R + i < n
             /\ DataOf(Plus(k.rcv_nxt, i)) = F[R + i + 1] /\ DataOf(Plus(k.rcv_nxt, i)) \in Fragment
  <2>1. i \in Nat /\ R + i < SnSpace
    BY <1>m, <1>4, <1>5
  <2>2. Plus(k.rcv_nxt, i) \in Sn /\ Abs(Plus(k.rcv_nxt, i)) = R + i
    BY <1>4, <2>1, AbsPlus DEF Rcv
  <2>3. \E s \in k.rcv_buf : s.sn = Plus(k.rcv_nxt, i)
    BY <1>2, <1>6 DEF Sns
  <2>4. PICK s \in k.rcv_buf : s.sn = Plus(k.rcv_nxt, i) /\ DataOf(Plus(k.rcv_nxt, i)) = s.data
    BY <2>3
  <2>5. Abs(s.sn) < n /\ s.data = F[Abs(s.sn) + 1] /\ s.data \in Fragment
    BY BlockFacts DEF RecvOK
  <2> QED
    BY <2>2, <2>4, <2>5
<1>7. next \in Sn /\ Abs(next) = R + m /\ R + m <= n
  <2>1. m \in Nat /\ R + m < SnSpace
    BY <1>m, <1>4, <1>5
  <2>2. next \in Sn /\ Abs(next) = R + m
    BY <1>4, <2>1, AbsPlus DEF Rcv
  <2>3. m = 0 \/ (m - 1 \in 0 .. m - 1 /\ R + (m - 1) < n)
    BY <2>1, <1>6
  <2> QED
    BY <1>4, <2>1, <2>2, <2>3
<1>8. moved \in Seq(Fragment) /\ Size(moved) = m
  <2>1. m \in Nat
    BY <1>2, ConstantFacts
  <2>2. \A i \in 1 .. m : i - 1 \in 0 .. m - 1
    BY <2>1
  <2>3. moved \in [1 .. m -> Fragment]
    BY <1>6, <2>2
  <2> HIDE DEF moved
  <2> QED
    BY <2>1, <2>3, FunctionIsSeq
<1>9. \A i \in 1 .. m : moved[i] = F[R + i]
  <2> SUFFICES ASSUME NEW i \in 1 .. m
               PROVE  moved[i] = F[R + i]
    OBVIOUS
  <2>1. i - 1 \in 0 .. m - 1 /\ R + (i - 1) + 1 = R + i
    BY <1>2, <1>4, ConstantFacts
  <2> QED
    BY <1>6, <2>1
<1>10. \A s \in k.rcv_buf : s \in rest <=> R + m <= Abs(s.sn)
  <2> SUFFICES ASSUME NEW s \in k.rcv_buf
               PROVE  _itimediff(s.sn, next) >= 0 <=> R + m <= Abs(s.sn)
    OBVIOUS
  <2>1. s.sn \in Sn /\ Abs(s.sn) \in Nat /\ R <= Abs(s.sn) /\ Abs(s.sn) < n /\ m \in Nat
    BY <1>2, BlockFacts, ConstantFacts DEF RecvOK
  <2>2. Abs(s.sn) - Abs(next) >= -Half /\ Abs(s.sn) - Abs(next) < Half
    BY <1>m, <1>4, <1>5, <1>7, <2>1, SMTT(30)
  <2>3. _itimediff(s.sn, next) = Abs(s.sn) - Abs(next)
    BY <1>7, <2>1, <2>2, AbsDiff
  <2> QED
    BY <1>4, <1>7, <2>1, <2>3
<1> HIDE DEF moved, rest, next, S, DataOf, k1
<1>11. /\ k1.rcv_queue = q \o moved /\ k1.rcv_buf = rest /\ k1.rcv_nxt = next
       /\ SameSender(k, k1) /\ DOMAIN k1 = DOMAIN k
  BY <1>1 DEF SameSender, ControlBlock
<1>12. /\ q \o moved \in Seq(Fragment) /\ Size(q \o moved) = Size(q) + m
       /\ \A i \in 1 .. Size(q) : (q \o moved)[i] = q[i]
       /\ \A i \in 1 .. m : (q \o moved)[Size(q) + i] = moved[i]
  <2>1. moved \in Seq(Fragment) /\ q \in Seq(Fragment)
    BY <1>4, <1>8
  <2> HIDE DEF q
  <2>2. q \o moved \in Seq(Fragment) /\ Size(q \o moved) = Size(q) + Size(moved)
    BY <2>1, ConcatFacts, Zenon
  <2>3. \A i \in 1 .. Size(q) : (q \o moved)[i] = q[i]
    BY <2>1, ConcatFront, Zenon
  <2>4. \A i \in 1 .. Size(moved) : (q \o moved)[Size(q) + i] = moved[i]
    BY <2>1, ConcatBack, Zenon
  <2> QED
    BY <1>8, <2>2, <2>3, <2>4
<1>13. rest \subseteq k.rcv_buf
  BY DEF rest
<1> DEFINE after == q \o moved
<1>14. Rcv(k1) = R + m /\ Taken(k1) = Taken(k)
  <2>1. Rcv(k1) = R + m /\ Size(k1.rcv_queue) = Size(q) + m
    BY <1>7, <1>11, <1>12 DEF Rcv
  <2> QED
    BY <1>2, <1>4, <2>1, ConstantFacts DEF Taken
<1> HIDE DEF after
<1>15. k1 \in ControlBlock
  <2>1. after \in Seq(Fragment) /\ rest \in SUBSET [sn : Sn, data : Fragment]
    BY <1>12, <1>13, BlockFacts DEF after
  <2>2. k1 = [k EXCEPT !.rcv_queue = after, !.rcv_buf = rest, !.rcv_nxt = next]
    BY <1>1 DEF after
  <2> QED
    BY <1>7, <2>1, <2>2 DEF ControlBlock
<1>16. \A i \in 1 .. Size(k1.rcv_queue) : k1.rcv_queue[i] = F[Taken(k1) + i]
  <2> SUFFICES ASSUME NEW i \in 1 .. Size(q) + m
               PROVE  after[i] = F[(R - Size(q)) + i]
    BY <1>11, <1>12, <1>14 DEF after, Taken
  <2>1. CASE i \in 1 .. Size(q)
    <3>1. q[i] = F[(R - Size(q)) + i]
      BY <2>1 DEF RecvOK, Taken
    <3> QED
      BY <1>12, <2>1, <3>1 DEF after
  <2>2. CASE i \notin 1 .. Size(q)
    <3>1. i - Size(q) \in 1 .. m /\ Size(q) + (i - Size(q)) = i /\ R + (i - Size(q)) = (R - Size(q)) + i
      BY <1>m, <1>4, <2>2
    <3>2. after[i] = moved[i - Size(q)]
      BY <1>12, <3>1 DEF after
    <3> QED
      BY <1>9, <3>1, <3>2
  <2> QED
    BY <2>1, <2>2
<1>17. RecvOK(k1, n, F)
  <2>1. Rcv(k1) <= n /\ 0 <= Taken(k1) /\ Size(k1.rcv_queue) <= rcv_wnd
    <3>1. Size(k1.rcv_queue) = Size(q) + m
      BY <1>11, <1>12
    <3>2. Size(q) + m <= rcv_wnd
      BY <1>2, <1>3, <1>4, ConstantFacts
    <3>3. 0 <= Taken(k)
      BY DEF RecvOK
    <3> QED
      BY <1>7, <1>14, <3>1, <3>2, <3>3
  <2>2. \A s \in k1.rcv_buf : /\ Rcv(k1) <= Abs(s.sn) /\ Abs(s.sn) < Rcv(k1) + rcv_wnd
                              /\ Abs(s.sn) < n /\ s.data = F[Abs(s.sn) + 1]
    <3> SUFFICES ASSUME NEW s \in rest
                 PROVE  /\ R + m <= Abs(s.sn) /\ Abs(s.sn) < R + m + rcv_wnd
                        /\ Abs(s.sn) < n /\ s.data = F[Abs(s.sn) + 1]
      BY <1>11, <1>14
    <3>1. s \in k.rcv_buf
      BY <1>13
    <3>2. R + m <= Abs(s.sn)
      BY <1>10, <3>1
    <3>3. /\ Abs(s.sn) < R + rcv_wnd /\ Abs(s.sn) < n /\ s.data = F[Abs(s.sn) + 1]
      BY <3>1 DEF RecvOK
    <3>4. Abs(s.sn) \in Nat
      BY <3>1, BlockFacts
    <3> QED
      BY <1>2, <1>4, <3>2, <3>3, <3>4, ConstantFacts, SMTT(30)
  <2> QED
    BY <1>16, <2>1, <2>2 DEF RecvOK
<1>18. Onward(k, k1)
  <2>1. R <= Rcv(k1)
    BY <1>2, <1>4, <1>14, ConstantFacts
  <2>2. ASSUME NEW sn \in Sn, Arrived(k, sn)
        PROVE  Arrived(k1, sn)
    <3>1. CASE Abs(sn) < R
      BY <1>4, <2>1, <1>14, <1>2, <3>1, NumAbs, ConstantFacts DEF Arrived
    <3>2. CASE sn \in Sns(k.rcv_buf)
      <4>1. PICK s \in k.rcv_buf : s.sn = sn
        BY <3>2 DEF Sns
      <4>2. s \in rest \/ Abs(sn) < R + m
        <5>1. Abs(sn) \in Nat /\ m \in Nat
          BY <1>2, NumAbs, ConstantFacts
        <5> QED
          BY <1>4, <1>10, <4>1, <5>1
      <4> QED
        BY <1>11, <1>14, <4>1, <4>2 DEF Arrived, Sns
    <3> QED
      BY <2>2, <3>1, <3>2 DEF Arrived
  <2> QED
    BY <2>1, <2>2 DEF Onward
<1> QED
  BY <1>11, <1>14, <1>15, <1>17, <1>18 DEF k1

\* A block comes to have numbers that are less far apart than half the space.
LEMMA DiffTotal ==
  ASSUME NEW a \in Sn, NEW b \in Sn, Abs(a) <= Total, Abs(b) <= Total
  PROVE  _itimediff(a, b) = Abs(a) - Abs(b) /\ Abs(a) \in Nat /\ Abs(b) \in Nat
<1>1. Abs(a) \in Nat /\ Abs(b) \in Nat
  BY NumAbs
<1>2. Abs(a) - Abs(b) >= -Half /\ Abs(a) - Abs(b) < Half
  BY <1>1, ConstantFacts, SpaceFacts
<1> QED
  BY <1>1, <1>2, AbsDiff

\* Everything a block knows lies within its stream.
LEMMA SendRange ==
  ASSUME NEW k \in ControlBlock, NEW F \in Seq(Fragment), Size(F) <= Total, SendOK(k, F)
  PROVE  /\ Una(k) \in Nat /\ Nxt(k) \in Nat /\ Una(k) <= Nxt(k) /\ Nxt(k) <= Size(F) /\ Nxt(k) <= Total
         /\ \A s \in k.snd_buf : s.sn \in Sn /\ Abs(s.sn) \in Nat /\ Abs(s.sn) <= Total
<1>1. Una(k) \in Nat /\ Nxt(k) \in Nat /\ Size(k.snd_queue) \in Nat /\ Size(F) \in Nat /\ Total \in Nat
  BY BlockFacts, ConstantFacts DEF Size
<1>2. Una(k) <= Nxt(k) /\ Nxt(k) + Size(k.snd_queue) = Size(F)
  BY DEF SendOK
<1>3. Nxt(k) <= Size(F) /\ Nxt(k) <= Total
  BY <1>1, <1>2
<1>4. \A s \in k.snd_buf : s.sn \in Sn /\ Abs(s.sn) \in Nat /\ Abs(s.sn) < Nxt(k)
  BY BlockFacts DEF SendOK
<1> QED
  BY <1>1, <1>2, <1>3, <1>4

\* Steps that leave the queues, the buffers and the numbers alone, but may
\* have sent the acknowledgements.
SameStream(k, k1) ==
  /\ k1.snd_una = k.snd_una /\ k1.snd_nxt = k.snd_nxt /\ k1.rcv_nxt = k.rcv_nxt
  /\ k1.snd_queue = k.snd_queue /\ k1.snd_buf = k.snd_buf
  /\ k1.rcv_queue = k.rcv_queue /\ k1.rcv_buf = k.rcv_buf /\ k1.acklist \in {k.acklist, <<>>}

\* What a step of ikcp_input does to the block: it goes on.
Onwards(k, k1) ==
  /\ Una(k) <= Una(k1) /\ k1.snd_nxt = k.snd_nxt /\ k1.snd_queue = k.snd_queue
  /\ Taken(k1) = Taken(k) /\ Onward(k, k1)

\* Steps that go on, one after the other, go on.
LEMMA OnwardsTrans ==
  ASSUME NEW k \in ControlBlock, NEW k1 \in ControlBlock, NEW k2 \in ControlBlock,
         Onwards(k, k1), Onwards(k1, k2)
  PROVE  Onwards(k, k2)
<1>1. /\ Una(k) \in Nat /\ Una(k1) \in Nat /\ Una(k2) \in Nat
      /\ Rcv(k) \in Nat /\ Rcv(k1) \in Nat /\ Rcv(k2) \in Nat
  BY BlockFacts
<1> QED
  BY <1>1 DEF Onwards, Onward

\* Other fields matter neither to what is sent nor to what is received.
LEMMA SameStreamOK ==
  ASSUME NEW k \in ControlBlock, NEW k1 \in ControlBlock, NEW p, NEW F, NEW G, SameStream(k, k1),
         Sends(k, p, F), Sends(p, k, G)
  PROVE  Sends(k1, p, F) /\ Sends(p, k1, G) /\ Onwards(k, k1)
<1>1. /\ Una(k1) = Una(k) /\ Nxt(k1) = Nxt(k) /\ Rcv(k1) = Rcv(k) /\ Taken(k1) = Taken(k)
      /\ \A sn : Arrived(k1, sn) <=> Arrived(k, sn)
  BY DEF SameStream, Una, Nxt, Rcv, Taken, Arrived
<1>2. SendOK(k1, F)
  BY <1>1 DEF SameStream, Sends, SendOK
<1>3. RecvOK(k1, Nxt(p), G)
  BY <1>1 DEF SameStream, Sends, RecvOK
<1>4. Kept(k1, p) /\ Kept(p, k1)
  BY <1>1 DEF SameStream, Sends, Kept
<1>a. AcksOK(k1)
  BY <1>1 DEF SameStream, Sends, AcksOK
<1>5. Una(k) \in Nat /\ Rcv(k) \in Nat
  BY BlockFacts
<1> QED
  BY <1>1, <1>2, <1>3, <1>4, <1>a, <1>5 DEF Sends, SameStream, Onwards, Onward

\* Segments that have arrived may be dropped.
LEMMA DropOK ==
  ASSUME NEW k \in ControlBlock, NEW p \in ControlBlock, NEW F, NEW G, NEW b \in SUBSET k.snd_buf,
         Sends(k, p, F), Sends(p, k, G), \A s \in k.snd_buf \ b : Arrived(p, s.sn)
  PROVE  LET k1 == [k EXCEPT !.snd_buf = b] IN
         k1 \in ControlBlock /\ Sends(k1, p, F) /\ Sends(p, k1, G) /\ Onwards(k, k1)
<1> DEFINE k1 == [k EXCEPT !.snd_buf = b]
<1>1. /\ k1 \in ControlBlock /\ k1.snd_buf = b
      /\ k1.snd_una = k.snd_una /\ k1.snd_nxt = k.snd_nxt /\ k1.rcv_nxt = k.rcv_nxt
      /\ k1.snd_queue = k.snd_queue /\ k1.rcv_queue = k.rcv_queue /\ k1.rcv_buf = k.rcv_buf /\ k1.acklist = k.acklist
  BY DEF ControlBlock
<1> HIDE DEF k1
<1>2. /\ Una(k1) = Una(k) /\ Nxt(k1) = Nxt(k) /\ Rcv(k1) = Rcv(k) /\ Taken(k1) = Taken(k)
      /\ \A sn : Arrived(k1, sn) <=> Arrived(k, sn)
  BY <1>1 DEF Una, Nxt, Rcv, Taken, Arrived
<1>3. SendOK(k1, F)
  BY <1>1, <1>2 DEF Sends, SendOK
<1>4. RecvOK(k1, Nxt(p), G) /\ Kept(p, k1) /\ AcksOK(k1)
  BY <1>1, <1>2 DEF Sends, RecvOK, Kept, AcksOK
<1>5. Kept(k1, p)
  <2> SUFFICES ASSUME NEW sn \in Sn, Rcv(p) <= Abs(sn), Abs(sn) < Nxt(k), sn \notin Sns(p.rcv_buf)
               PROVE  sn \in Sns(b)
    BY <1>1, <1>2 DEF Kept
  <2>1. PICK s \in k.snd_buf : s.sn = sn
    BY DEF Sends, Kept, Sns
  <2>2. Abs(sn) \in Int /\ Rcv(p) \in Int
    BY NumAbs, BlockFacts
  <2>3. ~Arrived(p, sn)
    BY <2>2 DEF Arrived
  <2> QED
    BY <2>1, <2>3 DEF Sns
<1>6. Una(k) \in Nat /\ Rcv(k) \in Nat
  BY BlockFacts
<1>7. Onwards(k, k1)
  BY <1>1, <1>2, <1>6 DEF Onwards, Onward
<1> QED
  BY <1>1, <1>2, <1>3, <1>4, <1>5, <1>7 DEF Sends, k1

\* ikcp_shrink_buf: snd_una becomes the least number that is still needed.
LEMMA ShrinkOK ==
  ASSUME NEW k \in ControlBlock, NEW p \in ControlBlock,
         NEW F \in Seq(Fragment), NEW G, Size(F) <= Total,
         Sends(k, p, F), Sends(p, k, G)
  PROVE  LET k1 == ikcp_shrink_buf(k) IN
         k1 \in ControlBlock /\ Sends(k1, p, F) /\ Sends(p, k1, G) /\ Onwards(k, k1)
<1> DEFINE una == IF k.snd_buf = {} THEN k.snd_nxt
                  ELSE CHOOSE sn \in Sns(k.snd_buf) : \A s \in k.snd_buf : _itimediff(s.sn, sn) >= 0
           k1 == [k EXCEPT !.snd_una = una]
<1>1. SendOK(k, F)
  BY DEF Sends
<1>2. /\ Una(k) \in Nat /\ Nxt(k) \in Nat /\ Una(k) <= Nxt(k)
      /\ Nxt(k) <= Una(k) + snd_wnd /\ k.snd_nxt \in Sn /\ Rcv(k) \in Nat
  BY <1>1, BlockFacts DEF SendOK
<1>3. una \in Sn /\ Una(k) <= Abs(una) /\ Abs(una) <= Nxt(k) /\ \A s \in k.snd_buf : Abs(una) <= Abs(s.sn)
  <2>1. CASE k.snd_buf = {}
    BY <1>2, <2>1 DEF Nxt
  <2>2. CASE k.snd_buf # {}
    <3> DEFINE A == {Abs(s.sn) : s \in k.snd_buf}
    <3>1. \A s \in k.snd_buf : s.sn \in Sn /\ Abs(s.sn) \in Nat /\ Abs(s.sn) <= Total
      BY <1>1, SendRange
    <3>2. A \in SUBSET Nat /\ A # {}
      BY <2>2, <3>1
    <3>3. PICK x \in A : \A y \in A : x <= y
      BY <3>2, NatMin
    <3>4. PICK s0 \in k.snd_buf : Abs(s0.sn) = x
      BY <3>3
    <3>5. \A s \in k.snd_buf : _itimediff(s.sn, s0.sn) >= 0
      <4> SUFFICES ASSUME NEW s \in k.snd_buf
                   PROVE  _itimediff(s.sn, s0.sn) >= 0
        OBVIOUS
      <4>1. x <= Abs(s.sn)
        BY <3>3
      <4>2. _itimediff(s.sn, s0.sn) = Abs(s.sn) - Abs(s0.sn) /\ Abs(s.sn) \in Nat /\ Abs(s0.sn) \in Nat
        BY <3>1, DiffTotal
      <4> QED
        BY <3>4, <4>1, <4>2
    <3>6. una \in Sns(k.snd_buf) /\ \A s \in k.snd_buf : _itimediff(s.sn, una) >= 0
      BY <2>2, <3>5 DEF Sns
    <3> HIDE DEF una
    <3>7. PICK t \in k.snd_buf : t.sn = una
      BY <3>6 DEF Sns
    <3>8. \A s \in k.snd_buf : Abs(una) <= Abs(s.sn)
      <4> SUFFICES ASSUME NEW s \in k.snd_buf
                   PROVE  Abs(una) <= Abs(s.sn)
        OBVIOUS
      <4>1. _itimediff(s.sn, una) = Abs(s.sn) - Abs(una) /\ Abs(s.sn) \in Nat /\ Abs(una) \in Nat
        BY <3>1, <3>7, DiffTotal
      <4>2. _itimediff(s.sn, una) >= 0
        BY <3>6
      <4> QED
        BY <4>1, <4>2
    <3>9. Una(k) <= Abs(una) /\ Abs(una) < Nxt(k) /\ una \in Sn /\ Abs(una) \in Nat
      BY <1>1, <3>1, <3>7 DEF SendOK
    <3> QED
      BY <1>2, <3>8, <3>9
  <2> QED
    BY <2>1, <2>2
<1> HIDE DEF una
<1>4. /\ k1 \in ControlBlock /\ k1.snd_una = una
      /\ k1.snd_buf = k.snd_buf /\ k1.snd_nxt = k.snd_nxt /\ k1.rcv_nxt = k.rcv_nxt
      /\ k1.snd_queue = k.snd_queue /\ k1.rcv_queue = k.rcv_queue /\ k1.rcv_buf = k.rcv_buf /\ k1.acklist = k.acklist
  BY <1>3 DEF ControlBlock
<1>5. k1 = ikcp_shrink_buf(k)
  BY DEF ikcp_shrink_buf, una
<1> HIDE DEF k1
<1>6. /\ Una(k1) = Abs(una) /\ Nxt(k1) = Nxt(k) /\ Rcv(k1) = Rcv(k) /\ Taken(k1) = Taken(k)
      /\ \A sn : Arrived(k1, sn) <=> Arrived(k, sn)
  BY <1>4 DEF Una, Nxt, Rcv, Taken, Arrived
<1>7. SendOK(k1, F)
  <2>1. Abs(una) \in Nat /\ snd_wnd \in Nat
    BY <1>3, NumAbs, ConstantFacts
  <2>2. Abs(una) <= Nxt(k) /\ Nxt(k) <= Abs(una) + snd_wnd
    BY <1>2, <1>3, <2>1
  <2> QED
    BY <1>1, <1>3, <1>4, <1>6, <2>2 DEF SendOK
<1>8. RecvOK(k1, Nxt(p), G) /\ Kept(p, k1) /\ AcksOK(k1) /\ Kept(k1, p)
  BY <1>4, <1>6 DEF Sends, RecvOK, Kept, AcksOK
<1>9. Onwards(k, k1)
  BY <1>2, <1>3, <1>4, <1>6 DEF Onwards, Onward
<1> QED
  BY <1>4, <1>5, <1>6, <1>7, <1>8, <1>9 DEF Sends

\* ikcp_parse_una: what is below una has arrived.
LEMMA ParseUnaOK ==
  ASSUME NEW k \in ControlBlock, NEW p \in ControlBlock,
         NEW F \in Seq(Fragment), NEW G, Size(F) <= Total,
         Sends(k, p, F), Sends(p, k, G), NEW una \in Sn, Abs(una) <= Rcv(p)
  PROVE  LET k1 == ikcp_parse_una(k, una) IN
         k1 \in ControlBlock /\ Sends(k1, p, F) /\ Sends(p, k1, G) /\ Onwards(k, k1)
<1> DEFINE b == {s \in k.snd_buf : _itimediff(una, s.sn) <= 0}
<1>1. ASSUME NEW s \in k.snd_buf \ b
      PROVE  Arrived(p, s.sn)
  <2>1. /\ Nxt(k) \in Nat /\ Rcv(p) \in Nat /\ Rcv(p) <= Nxt(k) /\ Nxt(k) <= Total /\ Total \in Nat
        /\ s.sn \in Sn /\ Abs(s.sn) <= Total
    BY SendRange, BlockFacts, ConstantFacts, SMTT(30) DEF Sends, RecvOK
  <2>2. Abs(una) \in Nat /\ Abs(una) <= Total
    BY <2>1, NumAbs
  <2>3. _itimediff(una, s.sn) = Abs(una) - Abs(s.sn) /\ Abs(s.sn) \in Nat
    BY <2>1, <2>2, DiffTotal
  <2>4. Abs(s.sn) < Abs(una)
    BY <2>2, <2>3
  <2> QED
    BY <2>1, <2>2, <2>3, <2>4 DEF Arrived
<1>2. ikcp_parse_una(k, una) = [k EXCEPT !.snd_buf = b]
  BY DEF ikcp_parse_una
<1> QED
  BY <1>1, <1>2, DropOK, SMTT(30)

\* ikcp_parse_ack: so has what is acknowledged.
LEMMA ParseAckOK ==
  ASSUME NEW k \in ControlBlock, NEW p \in ControlBlock, NEW F, NEW G,
         Sends(k, p, F), Sends(p, k, G), NEW sn \in Sn, Arrived(p, sn)
  PROVE  LET k1 == ikcp_parse_ack(k, sn) IN
         k1 \in ControlBlock /\ Sends(k1, p, F) /\ Sends(p, k1, G) /\ Onwards(k, k1)
<1> DEFINE b == {s \in k.snd_buf : s.sn # sn}
<1>1. CASE InFlight(k, sn)
  BY <1>1, DropOK DEF ikcp_parse_ack
<1>2. CASE ~InFlight(k, sn)
  <2>1. ikcp_parse_ack(k, sn) = k /\ SameStream(k, k)
    BY <1>2 DEF ikcp_parse_ack, SameStream
  <2> QED
    BY <2>1, SameStreamOK
<1> QED
  BY <1>1, <1>2

\* A receiver that goes on leaves the other direction alone.
LEMMA ReceiverOK ==
  ASSUME NEW k \in ControlBlock, NEW k1 \in ControlBlock, NEW p \in ControlBlock, NEW F, NEW G,
         Sends(k, p, F), Sends(p, k, G),
         SameSender(k, k1), Onward(k, k1), RecvOK(k1, Nxt(p), G)
  PROVE  Sends(k1, p, F) /\ Sends(p, k1, G) /\ (Taken(k1) = Taken(k) => Onwards(k, k1))
<1>1. Una(k1) = Una(k) /\ Nxt(k1) = Nxt(k) /\ Una(k) \in Nat
  BY BlockFacts DEF SameSender, Una, Nxt
<1>2. SendOK(k1, F) /\ Kept(k1, p)
  BY <1>1 DEF SameSender, Sends, SendOK, Kept
<1>3. AcksOK(k1)
  <2>1. \A i \in 1 .. Len(k.acklist) : k.acklist[i] \in Sn
    BY BlockFacts, SMTT(30)
  <2> QED
    BY <2>1 DEF SameSender, Sends, AcksOK, Onward
<1>4. Kept(p, k1)
  <2> SUFFICES ASSUME NEW sn \in Sn, Rcv(k1) <= Abs(sn), Abs(sn) < Nxt(p)
               PROVE  sn \in Sns(p.snd_buf) \cup Sns(k1.rcv_buf)
    BY DEF Kept
  <2>1. Abs(sn) \in Nat /\ Rcv(k) \in Nat /\ Rcv(k1) \in Nat
    BY NumAbs, BlockFacts
  <2>2. Rcv(k) <= Abs(sn)
    BY <2>1 DEF Onward
  <2>3. sn \in Sns(p.snd_buf) \/ Arrived(k, sn)
    BY <2>2 DEF Sends, Kept, Arrived
  <2>4. Arrived(k, sn) => sn \in Sns(k1.rcv_buf)
    BY <2>1 DEF Onward, Arrived
  <2> QED
    BY <2>3, <2>4
<1> QED
  BY <1>1, <1>2, <1>3, <1>4 DEF Sends, SameSender, Onwards

\* A segment within the window is kept and acknowledged.
LEMMA InsertOK ==
  ASSUME NEW k \in ControlBlock, NEW p \in ControlBlock, NEW F, NEW G,
         Sends(k, p, F), Sends(p, k, G),
         NEW sn \in Sn, NEW data \in Fragment, data = G[Abs(sn) + 1],
         Rcv(k) <= Abs(sn), Abs(sn) < Rcv(k) + rcv_wnd, Abs(sn) < Nxt(p)
  PROVE  LET k1 == [k EXCEPT !.acklist = Append(@, sn),
                             !.rcv_buf = IF sn \in Sns(@) THEN @ ELSE @ \cup {[sn |-> sn, data |-> data]}]
         IN  k1 \in ControlBlock /\ Sends(k1, p, F) /\ Sends(p, k1, G) /\ Onwards(k, k1)
<1> DEFINE k1 == [k EXCEPT !.acklist = Append(@, sn),
                           !.rcv_buf = IF sn \in Sns(@) THEN @ ELSE @ \cup {[sn |-> sn, data |-> data]}]
           new == [sn |-> sn, data |-> data]
           buf == IF sn \in Sns(k.rcv_buf) THEN k.rcv_buf ELSE k.rcv_buf \cup {new}
           acks == Append(k.acklist, sn)
<1>1. buf \in SUBSET [sn : Sn, data : Fragment]
  BY BlockFacts
<1>2. \A s \in buf : s \in k.rcv_buf \/ (s.sn = sn /\ s.data = data)
  OBVIOUS
<1>3. k.rcv_buf \subseteq buf /\ \E s \in buf : s.sn = sn
  <2>1. CASE sn \in Sns(k.rcv_buf)
    BY <2>1 DEF Sns
  <2>2. CASE sn \notin Sns(k.rcv_buf)
    <3>1. new \in buf /\ new.sn = sn /\ k.rcv_buf \subseteq buf
      BY <2>2
    <3> QED
      BY <3>1
  <2> QED
    BY <2>1, <2>2
<1>4. acks \in Seq(Sn) /\ Len(acks) = Len(k.acklist) + 1 /\ Len(k.acklist) \in Nat
      /\ acks[Len(k.acklist) + 1] = sn /\ \A i \in 1 .. Len(k.acklist) : acks[i] = k.acklist[i] /\ k.acklist[i] \in Sn
  BY BlockFacts, SMTT(30)
<1> HIDE DEF buf, acks
<1>5. k1 = [k EXCEPT !.acklist = acks, !.rcv_buf = buf]
  BY DEF acks, buf
<1>6. /\ k1 \in ControlBlock /\ k1.acklist = acks /\ k1.rcv_buf = buf
      /\ k1.snd_una = k.snd_una /\ k1.snd_buf = k.snd_buf /\ k1.snd_nxt = k.snd_nxt /\ k1.rcv_nxt = k.rcv_nxt
      /\ k1.snd_queue = k.snd_queue /\ k1.rcv_queue = k.rcv_queue
  <2>1. acks \in Seq(Sn) /\ buf \in SUBSET [sn : Sn, data : Fragment]
    BY <1>1, <1>4
  <2>2. k1 \in ControlBlock
    BY <1>5, <2>1 DEF ControlBlock
  <2>3. DOMAIN k = DOMAIN k1 /\ k1.acklist = acks /\ k1.rcv_buf = buf
    BY <1>5 DEF ControlBlock
  <2>4. /\ k1.snd_una = k.snd_una /\ k1.snd_buf = k.snd_buf /\ k1.snd_nxt = k.snd_nxt /\ k1.rcv_nxt = k.rcv_nxt
        /\ k1.snd_queue = k.snd_queue /\ k1.rcv_queue = k.rcv_queue
    BY <1>5
  <2> QED
    BY <2>2, <2>3, <2>4
<1> HIDE DEF k1
<1>7. /\ Una(k1) = Una(k) /\ Nxt(k1) = Nxt(k) /\ Rcv(k1) = Rcv(k) /\ Taken(k1) = Taken(k)
      /\ Una(k) \in Nat /\ Rcv(k) \in Nat
  BY <1>6, BlockFacts DEF Una, Nxt, Rcv, Taken
<1>8. Arrived(k1, sn) /\ \A x : Arrived(k, x) => Arrived(k1, x)
  BY <1>3, <1>6, <1>7 DEF Arrived, Sns
<1>9. Onwards(k, k1)
  BY <1>6, <1>7, <1>8 DEF Onwards, Onward
<1>10. SendOK(k1, F) /\ Kept(k1, p)
  BY <1>6, <1>7 DEF Sends, SendOK, Kept
<1>11. AcksOK(k1)
  <2> SUFFICES ASSUME NEW i \in 1 .. Len(acks)
               PROVE  Arrived(k1, acks[i])
    BY <1>6 DEF AcksOK
  <2>1. i = Len(k.acklist) + 1 \/ i \in 1 .. Len(k.acklist)
    BY <1>4
  <2> QED
    BY <1>4, <1>8, <2>1 DEF Sends, AcksOK
<1>12. Kept(p, k1)
  BY <1>3, <1>6, <1>7 DEF Sends, Kept, Sns
<1>13. RecvOK(k1, Nxt(p), G)
  BY <1>2, <1>6, <1>7 DEF Sends, RecvOK
<1> QED
  BY <1>6, <1>7, <1>9, <1>10, <1>11, <1>12, <1>13 DEF Sends, k1

\* One that came before is acknowledged once more.
LEMMA AckPushOK ==
  ASSUME NEW k \in ControlBlock, NEW p \in ControlBlock, NEW F, NEW G,
         Sends(k, p, F), Sends(p, k, G), NEW sn \in Sn, Arrived(k, sn)
  PROVE  LET k1 == ikcp_ack_push(k, sn) IN
         k1 \in ControlBlock /\ Sends(k1, p, F) /\ Sends(p, k1, G) /\ Onwards(k, k1)
<1> DEFINE acks == Append(k.acklist, sn)  k1 == [k EXCEPT !.acklist = acks]
<1>1. acks \in Seq(Sn) /\ Len(acks) = Len(k.acklist) + 1 /\ Len(k.acklist) \in Nat
      /\ acks[Len(k.acklist) + 1] = sn /\ \A i \in 1 .. Len(k.acklist) : acks[i] = k.acklist[i]
  BY BlockFacts, SMTT(30)
<1> HIDE DEF acks
<1>2. /\ k1 \in ControlBlock /\ k1.acklist = acks
      /\ k1.snd_una = k.snd_una /\ k1.snd_buf = k.snd_buf /\ k1.snd_nxt = k.snd_nxt /\ k1.rcv_nxt = k.rcv_nxt
      /\ k1.snd_queue = k.snd_queue /\ k1.rcv_queue = k.rcv_queue /\ k1.rcv_buf = k.rcv_buf
  BY <1>1 DEF ControlBlock
<1>3. k1 = ikcp_ack_push(k, sn)
  BY DEF ikcp_ack_push, acks
<1> HIDE DEF k1
<1>4. /\ Una(k1) = Una(k) /\ Nxt(k1) = Nxt(k) /\ Rcv(k1) = Rcv(k) /\ Taken(k1) = Taken(k)
      /\ Una(k) \in Nat /\ Rcv(k) \in Nat /\ \A x : Arrived(k1, x) <=> Arrived(k, x)
  BY <1>2, BlockFacts DEF Una, Nxt, Rcv, Taken, Arrived
<1>5. AcksOK(k1)
  <2> SUFFICES ASSUME NEW i \in 1 .. Len(acks)
               PROVE  Arrived(k, acks[i])
    BY <1>2, <1>4 DEF AcksOK
  <2>1. i = Len(k.acklist) + 1 \/ i \in 1 .. Len(k.acklist)
    BY <1>1
  <2> QED
    BY <1>1, <2>1 DEF Sends, AcksOK
<1>6. SendOK(k1, F) /\ Kept(k1, p) /\ RecvOK(k1, Nxt(p), G) /\ Kept(p, k1)
  BY <1>2, <1>4 DEF Sends, SendOK, Kept, RecvOK
<1> QED
  BY <1>2, <1>3, <1>4, <1>5, <1>6 DEF Sends, Onwards, Onward

\* Where a number lies that the peer has used.
LEMMA RecvRange ==
  ASSUME NEW k \in ControlBlock, NEW n \in Nat, n <= Total, Rcv(k) <= n,
         NEW sn \in Sn, Abs(sn) < n
  PROVE  /\ _itimediff(sn, k.rcv_nxt) = Abs(sn) - Rcv(k)
         /\ _itimediff(sn, Plus(k.rcv_nxt, rcv_wnd)) = Abs(sn) - (Rcv(k) + rcv_wnd)
         /\ Abs(sn) \in Nat /\ Rcv(k) \in Nat
<1>1. Abs(sn) \in Nat /\ Rcv(k) \in Nat /\ k.rcv_nxt \in Sn /\ Abs(sn) <= Total /\ Rcv(k) <= Total
  BY NumAbs, BlockFacts, ConstantFacts
<1>2. Total + rcv_wnd <= Half /\ Total \in Nat /\ rcv_wnd \in Nat /\ Half \in Nat /\ Half < SnSpace /\ SnSpace \in Nat
  BY ConstantFacts, SpaceFacts
<1>3. Rcv(k) + rcv_wnd < SnSpace
  BY <1>1, <1>2
<1>4. Plus(k.rcv_nxt, rcv_wnd) \in Sn /\ Abs(Plus(k.rcv_nxt, rcv_wnd)) = Rcv(k) + rcv_wnd
  BY <1>1, <1>2, <1>3, AbsPlus DEF Rcv
<1>5. Abs(sn) - (Rcv(k) + rcv_wnd) >= -Half /\ Abs(sn) - (Rcv(k) + rcv_wnd) < Half
  BY <1>1, <1>2
<1>6. _itimediff(sn, Plus(k.rcv_nxt, rcv_wnd)) = Abs(sn) - (Rcv(k) + rcv_wnd)
  BY <1>4, <1>5, AbsDiff
<1>7. _itimediff(sn, k.rcv_nxt) = Abs(sn) - Rcv(k)
  BY <1>1, DiffTotal DEF Rcv
<1> QED
  BY <1>1, <1>6, <1>7

\* A step of the receiver that keeps both directions going.
Goes(k, k1, p, F, G) ==
  k1 \in ControlBlock /\ Sends(k1, p, F) /\ Sends(p, k1, G) /\ Onwards(k, k1)

\* ikcp_parse_data, after the acknowledgement was put down.
LEMMA ParseDataOK ==
  ASSUME NEW k \in ControlBlock, NEW p \in ControlBlock,
         NEW F, NEW G \in Seq(Fragment), Size(G) <= Total,
         Sends(k, p, F), Sends(p, k, G),
         NEW seg \in Seg, seg.data \in Fragment, Abs(seg.sn) < Nxt(p), seg.data = G[Abs(seg.sn) + 1],
         Rcv(k) <= Abs(seg.sn), Abs(seg.sn) < Rcv(k) + rcv_wnd
  PROVE  Goes(k, ikcp_parse_data(ikcp_ack_push(k, seg.sn), seg), p, F, G)
<1> DEFINE k2 == ikcp_ack_push(k, seg.sn)
           k3 == [k EXCEPT !.acklist = Append(@, seg.sn),
                           !.rcv_buf = IF seg.sn \in Sns(@) THEN @ ELSE @ \cup {[sn |-> seg.sn, data |-> seg.data]}]
           k4 == MoveAvailable(k3)
<1>1. seg.sn \in Sn /\ Nxt(p) \in Nat /\ Nxt(p) <= Size(G) /\ Nxt(p) <= Total /\ Rcv(k) <= Nxt(p)
  BY SendRange DEF Sends, RecvOK, Seg
<1>2. k2.rcv_nxt = k.rcv_nxt /\ k3 = [k2 EXCEPT !.rcv_buf = IF seg.sn \in Sns(@) THEN @ ELSE @ \cup {[sn |-> seg.sn, data |-> seg.data]}]
  BY DEF ikcp_ack_push, ControlBlock
<1>3. ikcp_parse_data(k2, seg) = k4
  <2>1. _itimediff(seg.sn, k.rcv_nxt) = Abs(seg.sn) - Rcv(k)
        /\ _itimediff(seg.sn, Plus(k.rcv_nxt, rcv_wnd)) = Abs(seg.sn) - (Rcv(k) + rcv_wnd)
        /\ Abs(seg.sn) \in Nat /\ Rcv(k) \in Nat /\ rcv_wnd \in Nat
    BY <1>1, RecvRange, ConstantFacts
  <2>2. ~(_itimediff(seg.sn, k.rcv_nxt) < 0) /\ ~(_itimediff(seg.sn, Plus(k.rcv_nxt, rcv_wnd)) >= 0)
    BY <2>1
  <2> HIDE DEF k2, k3
  <2> QED
    BY <1>2, <2>2 DEF ikcp_parse_data
<1> HIDE DEF k2, k3, k4
<1>4. k3 \in ControlBlock /\ Sends(k3, p, F) /\ Sends(p, k3, G) /\ Onwards(k, k3)
  <2> DEFINE sn == seg.sn  data == seg.data
  <2>1. sn \in Sn /\ data \in Fragment /\ data = G[Abs(sn) + 1]
        /\ Rcv(k) <= Abs(sn) /\ Abs(sn) < Rcv(k) + rcv_wnd /\ Abs(sn) < Nxt(p)
    BY <1>1
  <2>2. k3 = [k EXCEPT !.acklist = Append(@, sn),
                       !.rcv_buf = IF sn \in Sns(@) THEN @ ELSE @ \cup {[sn |-> sn, data |-> data]}]
    BY DEF k3
  <2> HIDE DEF sn, data
  <2> QED
    BY <2>1, <2>2, InsertOK
<1>5. RecvOK(k3, Nxt(p), G)
  BY <1>4 DEF Sends
<1>6. k4 \in ControlBlock /\ RecvOK(k4, Nxt(p), G) /\ Taken(k4) = Taken(k3) /\ Onward(k3, k4) /\ SameSender(k3, k4)
  BY <1>1, <1>4, <1>5, MoveOK DEF k4
<1>7. Sends(k4, p, F) /\ Sends(p, k4, G) /\ Onwards(k3, k4)
  BY <1>4, <1>6, ReceiverOK
<1>8. Onwards(k, k4)
  BY <1>4, <1>6, <1>7, OnwardsTrans
<1> QED
  BY <1>3, <1>6, <1>7, <1>8 DEF Goes, k2

\* The part that every segment has: rmt_wnd, una and snd_una.
LEMMA AnySegmentOK ==
  ASSUME NEW k \in ControlBlock, NEW p \in ControlBlock,
         NEW F \in Seq(Fragment), NEW G \in Seq(Fragment), Size(F) <= Total, Size(G) <= Total,
         Sends(k, p, F), Sends(p, k, G), NEW una \in Sn, NEW wnd \in 0 .. rcv_wnd, Abs(una) <= Rcv(p)
  PROVE  Goes(k, ikcp_shrink_buf(ikcp_parse_una([k EXCEPT !.rmt_wnd = wnd], una)), p, F, G)
<1> DEFINE a == [k EXCEPT !.rmt_wnd = wnd]
           b == ikcp_parse_una(a, una)
           c == ikcp_shrink_buf(b)
<1>1. a \in ControlBlock /\ SameStream(k, a)
  BY DEF ControlBlock, SameStream
<1> HIDE DEF a, b, c
<1>2. Sends(a, p, F) /\ Sends(p, a, G) /\ Onwards(k, a)
  BY <1>1, SameStreamOK
<1>3. b \in ControlBlock /\ Sends(b, p, F) /\ Sends(p, b, G) /\ Onwards(a, b)
  BY <1>1, <1>2, ParseUnaOK DEF b
<1>4. c \in ControlBlock /\ Sends(c, p, F) /\ Sends(p, c, G) /\ Onwards(b, c)
  BY <1>3, ShrinkOK DEF c
<1>5. Onwards(k, b)
  BY <1>1, <1>2, <1>3, OnwardsTrans
<1>6. Onwards(k, c)
  BY <1>3, <1>4, <1>5, OnwardsTrans
<1> QED
  BY <1>4, <1>6 DEF Goes, a, b, c

\* The body of the loop in ikcp_input.
LEMMA InputSegmentOK ==
  ASSUME NEW k \in ControlBlock, NEW p \in ControlBlock,
         NEW F \in Seq(Fragment), NEW G \in Seq(Fragment), Size(F) <= Total, Size(G) <= Total,
         Sends(k, p, F), Sends(p, k, G), NEW seg, SegOK(seg, p, G)
  PROVE  Goes(k, InputSegment(k, seg), p, F, G)
<1> DEFINE k1 == ikcp_shrink_buf(ikcp_parse_una([k EXCEPT !.rmt_wnd = seg.wnd], seg.una))
           k2 == ikcp_ack_push(k1, seg.sn)
           r == InputSegment(k, seg)
<1>1. /\ seg \in Seg /\ seg.cmd \in {"ACK", "PUSH", "WASK", "WINS"} /\ seg.sn \in Sn
      /\ seg.una \in Sn /\ seg.wnd \in 0 .. rcv_wnd /\ Abs(seg.una) <= Rcv(p)
  BY DEF SegOK, Seg
<1>2. r = CASE seg.cmd = "ACK"  -> ikcp_shrink_buf(ikcp_parse_ack(k1, seg.sn))
            [] seg.cmd = "PUSH" -> IF _itimediff(seg.sn, Plus(k1.rcv_nxt, rcv_wnd)) >= 0 THEN k1
                                   ELSE IF _itimediff(seg.sn, k1.rcv_nxt) < 0 THEN k2
                                   ELSE ikcp_parse_data(k2, seg)
            [] seg.cmd = "WASK" -> [k1 EXCEPT !.probe = @ \cup {"TELL"}]
            [] seg.cmd = "WINS" -> k1
  BY DEF InputSegment
<1>3. Goes(k, k1, p, F, G)
  BY <1>1, AnySegmentOK
<1> HIDE DEF k1, k2, r
<1>4. k1 \in ControlBlock /\ Sends(k1, p, F) /\ Sends(p, k1, G) /\ Onwards(k, k1)
  BY <1>3 DEF Goes
<1>5. SUFFICES r \in ControlBlock /\ Sends(r, p, F) /\ Sends(p, r, G) /\ Onwards(k1, r)
  BY <1>4, OnwardsTrans DEF Goes, r
<1>6. SameStream(k1, k1)
  BY DEF SameStream
<1>7. Onwards(k1, k1)
  BY <1>4, <1>6, SameStreamOK
<1>8. CASE seg.cmd = "ACK"
  <2> DEFINE a == ikcp_parse_ack(k1, seg.sn)
             b == ikcp_shrink_buf(a)
  <2>1. r = b
    BY <1>2, <1>8
  <2>2. Arrived(p, seg.sn)
    BY <1>8 DEF SegOK
  <2> HIDE DEF a, b
  <2>3. a \in ControlBlock /\ Sends(a, p, F) /\ Sends(p, a, G) /\ Onwards(k1, a)
    BY <1>1, <1>4, <2>2, ParseAckOK DEF a
  <2>4. b \in ControlBlock /\ Sends(b, p, F) /\ Sends(p, b, G) /\ Onwards(a, b)
    BY <2>3, ShrinkOK DEF b
  <2>5. Onwards(k1, b)
    BY <1>4, <2>3, <2>4, OnwardsTrans
  <2> QED
    BY <2>1, <2>4, <2>5
<1>9. CASE seg.cmd = "PUSH"
  <2>1. seg.data \in Fragment /\ Abs(seg.sn) < Nxt(p) /\ seg.data = G[Abs(seg.sn) + 1]
    BY <1>9 DEF SegOK
  <2>2. Nxt(p) \in Nat /\ Nxt(p) <= Total /\ Rcv(k1) <= Nxt(p)
    BY <1>4, SendRange DEF Sends, RecvOK
  <2>3. /\ _itimediff(seg.sn, k1.rcv_nxt) = Abs(seg.sn) - Rcv(k1)
        /\ _itimediff(seg.sn, Plus(k1.rcv_nxt, rcv_wnd)) = Abs(seg.sn) - (Rcv(k1) + rcv_wnd)
        /\ Abs(seg.sn) \in Nat /\ Rcv(k1) \in Nat /\ rcv_wnd \in Nat
    BY <1>1, <1>4, <2>1, <2>2, RecvRange, ConstantFacts
  <2>4. r = IF _itimediff(seg.sn, Plus(k1.rcv_nxt, rcv_wnd)) >= 0 THEN k1
            ELSE IF _itimediff(seg.sn, k1.rcv_nxt) < 0 THEN k2
            ELSE ikcp_parse_data(k2, seg)
    BY <1>2, <1>9
  <2>5. CASE _itimediff(seg.sn, Plus(k1.rcv_nxt, rcv_wnd)) >= 0
    BY <1>4, <1>7, <2>4, <2>5
  <2>6. CASE ~(_itimediff(seg.sn, Plus(k1.rcv_nxt, rcv_wnd)) >= 0) /\ _itimediff(seg.sn, k1.rcv_nxt) < 0
    <3>1. r = k2
      BY <2>4, <2>6
    <3>2. Arrived(k1, seg.sn)
      BY <2>3, <2>6 DEF Arrived
    <3> QED
      BY <1>1, <1>4, <3>1, <3>2, AckPushOK DEF k2
  <2>7. CASE ~(_itimediff(seg.sn, Plus(k1.rcv_nxt, rcv_wnd)) >= 0) /\ ~(_itimediff(seg.sn, k1.rcv_nxt) < 0)
    <3>1. r = ikcp_parse_data(k2, seg)
      BY <2>4, <2>7
    <3>2. Rcv(k1) <= Abs(seg.sn) /\ Abs(seg.sn) < Rcv(k1) + rcv_wnd
      BY <2>3, <2>7
    <3>3. Goes(k1, r, p, F, G)
      BY <1>1, <1>4, <2>1, <3>1, <3>2, ParseDataOK DEF k2
    <3> QED
      BY <3>3 DEF Goes
  <2> QED
    BY <2>5, <2>6, <2>7
<1>10. CASE seg.cmd = "WASK"
  <2> DEFINE a == [k1 EXCEPT !.probe = @ \cup {"TELL"}]
  <2>1. r = a
    BY <1>2, <1>10
  <2>2. a \in ControlBlock /\ SameStream(k1, a)
    BY <1>4 DEF ControlBlock, SameStream
  <2> HIDE DEF a
  <2> QED
    BY <1>4, <2>1, <2>2, SameStreamOK
<1>11. CASE seg.cmd = "WINS"
  BY <1>2, <1>4, <1>7, <1>11
<1> QED
  BY <1>1, <1>8, <1>9, <1>10, <1>11

\* The loop of ikcp_input over a datagram goes through all its segments.
LEMMA InputLoop ==
  ASSUME NEW k \in ControlBlock, NEW segs \in Seq(Seg), NEW n \in Nat
  PROVE  \E h : h = [i \in 0 .. n |-> IF i = 0 THEN k ELSE InputSegment(h[i - 1], segs[i])]
<1> DEFINE Loop(h, m) == h = [i \in 0 .. m |-> IF i = 0 THEN k ELSE InputSegment(h[i - 1], segs[i])]
           S == {m \in 0 .. n : \E h : Loop(h, m)}
<1>1. 0 \in S
  <2> DEFINE h == [i \in 0 .. 0 |-> k]
  <2>1. Loop(h, 0)
    OBVIOUS
  <2> HIDE DEF Loop, h
  <2>2. \E g : Loop(g, 0)
    BY <2>1
  <2> QED
    BY <2>2
<1>2. ASSUME NEW m \in 0 .. n - 1, m \in S
      PROVE  m + 1 \in S
  <2>1. PICK h : Loop(h, m)
    BY <1>2
  <2> DEFINE g == [i \in 0 .. m + 1 |-> IF i = m + 1 THEN InputSegment(h[m], segs[m + 1]) ELSE h[i]]
  <2>2. m \in Nat /\ m + 1 \in 0 .. n
    OBVIOUS
  <2>3. g[m] = h[m] /\ \A i \in 0 .. m : g[i] = h[i]
    BY <2>2
  <2>4. Loop(g, m + 1)
    <3>1. \A i \in 0 .. m + 1 : g[i] = IF i = 0 THEN k ELSE InputSegment(g[i - 1], segs[i])
      <4> SUFFICES ASSUME NEW i \in 0 .. m + 1
                   PROVE  g[i] = IF i = 0 THEN k ELSE InputSegment(g[i - 1], segs[i])
        OBVIOUS
      <4>1. CASE i = m + 1
        <5>1. g[i] = InputSegment(h[m], segs[m + 1]) /\ i # 0 /\ i - 1 = m
          BY <2>2, <4>1
        <5> QED
          BY <2>3, <4>1, <5>1
      <4>2. CASE i \in 0 .. m
        <5>1. g[i] = h[i] /\ h[i] = IF i = 0 THEN k ELSE InputSegment(h[i - 1], segs[i])
          BY <2>1, <2>3, <4>2
        <5>2. i # 0 => i - 1 \in 0 .. m
          BY <2>2, <4>2
        <5> HIDE DEF g
        <5>3. CASE i = 0
          BY <5>1, <5>3
        <5>4. CASE i # 0
          BY <2>3, <5>1, <5>2, <5>4
        <5> QED
          BY <5>3, <5>4
      <4> QED
        BY <2>2, <4>1, <4>2
    <3>2. g = [i \in 0 .. m + 1 |-> g[i]]
      OBVIOUS
    <3> HIDE DEF g
    <3> QED
      BY <3>1, <3>2
  <2> HIDE DEF Loop, g
  <2>5. \E f : Loop(f, m + 1)
    BY <2>4
  <2> QED
    BY <2>2, <2>5
<1> HIDE DEF Loop
<1>3. n \in S
  <2> HIDE DEF S
  <2>1. \A i \in 0 .. n : i \in S
    BY <1>1, <1>2, NatSet
  <2> QED
    BY <2>1
<1> QED
  BY <1>3 DEF Loop

SndSeg == [sn : Sn, data : Fragment, xmit : 0 .. fastlimit + 1, fastack : 0 .. fastresend]

\* Counts in the segments of snd_buf matter to no one else.
LEMMA RenewOK ==
  ASSUME NEW k \in ControlBlock, NEW p \in ControlBlock, NEW F, NEW G,
         Sends(k, p, F), Sends(p, k, G), NEW f \in [k.snd_buf -> SndSeg],
         \A s \in k.snd_buf : f[s].sn = s.sn /\ f[s].data = s.data
  PROVE  Goes(k, [k EXCEPT !.snd_buf = {f[s] : s \in k.snd_buf}], p, F, G)
<1> DEFINE b == {f[s] : s \in k.snd_buf}
           k1 == [k EXCEPT !.snd_buf = b]
<1>1. b \in SUBSET SndSeg
  OBVIOUS
<1>2. \A t \in b : \E s \in k.snd_buf : t = f[s] /\ t.sn = s.sn /\ t.data = s.data
  OBVIOUS
<1>3. Sns(b) = Sns(k.snd_buf)
  BY DEF Sns
<1> HIDE DEF b
<1>4. /\ k1 \in ControlBlock /\ k1.snd_buf = b
      /\ k1.snd_una = k.snd_una /\ k1.snd_nxt = k.snd_nxt /\ k1.rcv_nxt = k.rcv_nxt
      /\ k1.snd_queue = k.snd_queue /\ k1.rcv_queue = k.rcv_queue /\ k1.rcv_buf = k.rcv_buf /\ k1.acklist = k.acklist
  BY <1>1 DEF ControlBlock, SndSeg
<1> HIDE DEF k1
<1>5. /\ Una(k1) = Una(k) /\ Nxt(k1) = Nxt(k) /\ Rcv(k1) = Rcv(k) /\ Taken(k1) = Taken(k)
      /\ Una(k) \in Nat /\ Rcv(k) \in Nat /\ \A x : Arrived(k1, x) <=> Arrived(k, x)
  BY <1>4, BlockFacts DEF Una, Nxt, Rcv, Taken, Arrived
<1>6. SendOK(k1, F)
  <2>1. SendOK(k, F)
    BY DEF Sends
  <2>2. \A t \in b : Una(k) <= Abs(t.sn) /\ Abs(t.sn) < Nxt(k) /\ t.data = F[Abs(t.sn) + 1]
    BY <1>2, <2>1 DEF SendOK
  <2>3. \A t, u \in b : t.sn = u.sn => t = u
    BY <1>2, <2>1 DEF SendOK
  <2> QED
    BY <1>4, <1>5, <2>1, <2>2, <2>3 DEF SendOK
<1>7. RecvOK(k1, Nxt(p), G) /\ Kept(p, k1) /\ AcksOK(k1) /\ Kept(k1, p)
  BY <1>3, <1>4, <1>5 DEF Sends, RecvOK, Kept, AcksOK
<1>8. Onwards(k, k1)
  BY <1>4, <1>5 DEF Onwards, Onward
<1> QED
  BY <1>4, <1>5, <1>6, <1>7, <1>8 DEF Goes, Sends, k1, b

\* ikcp_parse_fastack only counts.
LEMMA ParseFastackOK ==
  ASSUME NEW k \in ControlBlock, NEW p \in ControlBlock, NEW F, NEW G,
         Sends(k, p, F), Sends(p, k, G), NEW sn
  PROVE  Goes(k, ikcp_parse_fastack(k, sn), p, F, G)
<1> DEFINE More(s) == IF _itimediff(sn, s.sn) > 0
                      THEN [s EXCEPT !.fastack = Smaller(@ + 1, fastresend)] ELSE s
           f == [s \in k.snd_buf |-> More(s)]
<1>1. CASE InFlight(k, sn)
  <2>1. \A s \in k.snd_buf : s \in SndSeg
    BY DEF ControlBlock, SndSeg
  <2>2. ASSUME NEW s \in SndSeg
        PROVE  More(s) \in SndSeg /\ More(s).sn = s.sn /\ More(s).data = s.data
    <3>1. Smaller(s.fastack + 1, fastresend) \in 0 .. fastresend
      BY KcpAssumption DEF SndSeg, Smaller
    <3> QED
      BY <3>1 DEF SndSeg
  <2> HIDE DEF More
  <2>3. f \in [k.snd_buf -> SndSeg] /\ \A s \in k.snd_buf : f[s].sn = s.sn /\ f[s].data = s.data
    BY <2>1, <2>2
  <2>4. {More(s) : s \in k.snd_buf} = {f[s] : s \in k.snd_buf}
    OBVIOUS
  <2>5. ikcp_parse_fastack(k, sn) = [k EXCEPT !.snd_buf = {f[s] : s \in k.snd_buf}]
    BY <1>1, <2>4 DEF ikcp_parse_fastack, More
  <2> HIDE DEF f
  <2> QED
    BY <2>3, <2>5, RenewOK
<1>2. CASE ~InFlight(k, sn)
  <2>1. ikcp_parse_fastack(k, sn) = k /\ SameStream(k, k)
    BY <1>2 DEF ikcp_parse_fastack, SameStream
  <2> QED
    BY <2>1, SameStreamOK DEF Goes
<1> QED
  BY <1>1, <1>2

\* ikcp_input takes a datagram in.
LEMMA InputOK ==
  ASSUME NEW k \in ControlBlock, NEW p \in ControlBlock,
         NEW F \in Seq(Fragment), NEW G \in Seq(Fragment), Size(F) <= Total, Size(G) <= Total,
         Sends(k, p, F), Sends(p, k, G), NEW segs \in Seq(Seg),
         \A i \in 1 .. Len(segs) : SegOK(segs[i], p, G), NEW r \in ikcp_input(k, segs)
  PROVE  Goes(k, r, p, F, G)
<1> DEFINE n == Len(segs)
           after[i \in 0 .. n] == IF i = 0 THEN k ELSE InputSegment(after[i - 1], segs[i])
           acks == {s.sn : s \in {segs[i] : i \in {j \in DOMAIN segs : segs[j].cmd = "ACK"}}}
           maxack == CHOOSE sn \in acks : \A a \in acks : _itimediff(sn, a) >= 0
           k1 == after[n]
           k2 == InputSegments(k, segs)
<1>1. n \in Nat
  OBVIOUS
<1>2. after[0] = k /\ \A i \in 1 .. n : after[i] = InputSegment(after[i - 1], segs[i])
  <2> HIDE DEF n
  <2>1. \E h : h = [i \in 0 .. n |-> IF i = 0 THEN k ELSE InputSegment(h[i - 1], segs[i])]
    BY <1>1, InputLoop, Zenon
  <2>2. after = [i \in 0 .. n |-> IF i = 0 THEN k ELSE InputSegment(after[i - 1], segs[i])]
    BY <2>1
  <2> HIDE DEF after
  <2>3. 0 \in 0 .. n /\ \A i \in 1 .. n : i \in 0 .. n /\ i # 0
    BY <1>1
  <2> QED
    BY <2>2, <2>3
<1>3. k2 = IF acks = {} THEN k1 ELSE ikcp_parse_fastack(k1, maxack)
  BY DEF InputSegments
<1>4. \A i \in 1 .. n : SegOK(segs[i], p, G)
  OBVIOUS
<1> HIDE DEF n, after, acks, maxack, k2
<1>5. Goes(k, k1, p, F, G)
  <2> DEFINE S == {i \in 0 .. n : Goes(k, after[i], p, F, G)}
  <2>1. 0 \in S
    <3>1. SameStream(k, k)
      BY DEF SameStream
    <3>2. Goes(k, k, p, F, G)
      BY <3>1, SameStreamOK DEF Goes
    <3> QED
      BY <1>1, <1>2, <3>2
  <2>2. ASSUME NEW i \in 0 .. n - 1, i \in S
        PROVE  i + 1 \in S
    <3> DEFINE a == after[i]  b == after[i + 1]
    <3>1. i + 1 \in 1 .. n /\ i + 1 \in 0 .. n /\ (i + 1) - 1 = i
      BY <1>1
    <3>2. b = InputSegment(a, segs[i + 1]) /\ SegOK(segs[i + 1], p, G)
      BY <1>2, <1>4, <3>1
    <3>3. Goes(k, a, p, F, G)
      BY <2>2
    <3> HIDE DEF a, b
    <3>4. a \in ControlBlock /\ Sends(a, p, F) /\ Sends(p, a, G) /\ Onwards(k, a)
      BY <3>3 DEF Goes
    <3>5. Goes(a, b, p, F, G)
      BY <3>2, <3>4, InputSegmentOK
    <3>6. Goes(k, b, p, F, G)
      BY <3>4, <3>5, OnwardsTrans DEF Goes
    <3> QED
      BY <3>1, <3>6 DEF b
  <2> HIDE DEF S
  <2>3. n \in S
    <3>1. \A i \in 0 .. n : i \in S
      BY <1>1, <2>1, <2>2, NatSet
    <3> QED
      BY <1>1, <3>1
  <2> QED
    BY <2>3 DEF S
<1> HIDE DEF k1
<1>6. k1 \in ControlBlock /\ Sends(k1, p, F) /\ Sends(p, k1, G) /\ Onwards(k, k1)
  BY <1>5 DEF Goes
<1>7. Goes(k, k2, p, F, G)
  <2>1. CASE acks = {}
    BY <1>3, <1>5, <2>1
  <2>2. CASE acks # {}
    <3>1. Goes(k1, k2, p, F, G)
      BY <1>3, <1>6, <2>2, ParseFastackOK
    <3> QED
      BY <1>6, <3>1, OnwardsTrans DEF Goes
  <2> QED
    BY <2>1, <2>2
<1>8. k2 \in ControlBlock /\ Sends(k2, p, F) /\ Sends(p, k2, G) /\ Onwards(k, k2)
  BY <1>7 DEF Goes
<1>9. PICK c \in Grown(k, k2) : r = [k2 EXCEPT !.cwnd = c]
  BY DEF ikcp_input, k2
<1>10. c \in Nat
  <2>1. k2.cwnd \in Nat /\ k2.rmt_wnd \in 0 .. rcv_wnd
    BY <1>8 DEF ControlBlock
  <2>2. k2.rmt_wnd \in Nat
    BY <2>1, ConstantFacts
  <2>3. Smaller(k2.cwnd + 2, k2.rmt_wnd) \in Nat
    BY <2>1, <2>2 DEF Smaller
  <2> QED
    BY <2>1, <2>2, <2>3 DEF Grown
<1>11. r \in ControlBlock /\ SameStream(k2, r)
  BY <1>8, <1>9, <1>10 DEF ControlBlock, SameStream
<1>12. Sends(r, p, F) /\ Sends(p, r, G) /\ Onwards(k2, r)
  BY <1>8, <1>11, SameStreamOK
<1> QED
  BY <1>8, <1>11, <1>12, OnwardsTrans DEF Goes
--------------------------------------------------------------------------------
(***************************************************************************)
(* Messages.                                                               *)
(***************************************************************************)

\* A queue that begins with a message of l fragments, or a part of it.
LEMMA HeadSeq ==
  ASSUME NEW q \in Seq(Fragment), NEW l \in Nat, l > 0, NEW m, Size(q) > 0,
         \A j \in 1 .. l : j <= Size(q) => q[j] = [msg |-> m, frg |-> l - j]
  PROVE  /\ Size(q) < l => HeadSegments(q) = 0
         /\ Size(q) >= l => HeadSegments(q) = l /\ SubSeq(q, 1, l) = Fragments(m, l)
<1> DEFINE ends == {i \in DOMAIN q : q[i].frg = 0}
<1>1. Size(q) \in Nat /\ DOMAIN q = 1 .. Size(q) /\ Len(q) = Size(q) /\ q # <<>>
  BY DEF Size
<1>2. ASSUME NEW j \in 1 .. l, j <= Size(q)
      PROVE  q[j].frg = l - j
  <2>1. q[j] = [msg |-> m, frg |-> l - j]
    BY <1>2
  <2> QED
    BY <2>1
<1>3. Head(q).frg = l - 1
  <2>1. q[1].frg = l - 1
    BY <1>1, <1>2
  <2>2. Head(q) = q[1]
    BY <1>1
  <2> QED
    BY <2>1, <2>2
<1>4. HeadSegments(q) = IF Size(q) < l THEN 0 ELSE Min(ends)
  <2>1. (Size(q) < Head(q).frg + 1) <=> (Size(q) < l)
    BY <1>1, <1>3
  <2> QED
    BY <1>1, <2>1 DEF HeadSegments
<1>5. ASSUME Size(q) >= l
      PROVE  Min(ends) = l
  <2>1. l \in ends /\ ends \in SUBSET Nat
    <3>1. q[l].frg = l - l /\ l - l = 0
      BY <1>2, <1>5
    <3> QED
      BY <1>1, <1>5, <3>1
  <2>2. \A i \in ends : l <= i
    <3> SUFFICES ASSUME NEW i \in ends, i < l
                 PROVE  FALSE
      BY <2>1
    <3>1. i \in 1 .. Size(q) /\ q[i].frg = 0 /\ i \in 1 .. l
      BY <1>1
    <3>2. q[i].frg = l - i
      BY <1>1, <1>2, <3>1
    <3> QED
      BY <3>1, <3>2
  <2> HIDE DEF ends
  <2>3. Min(ends) \in ends /\ \A i \in ends : Min(ends) <= i
    BY <2>1, LeastMin
  <2>4. Min(ends) \in Nat /\ Min(ends) <= l /\ l <= Min(ends)
    BY <2>1, <2>2, <2>3
  <2> QED
    BY <2>4
<1>6. ASSUME Size(q) >= l
      PROVE  SubSeq(q, 1, l) = Fragments(m, l)
  <2>1. SubSeq(q, 1, l) = [i \in 1 .. l |-> q[i]]
    BY <1>1, <1>6
  <2>2. \A i \in 1 .. l : q[i] = [msg |-> m, frg |-> l - i]
    BY <1>1, <1>6
  <2> QED
    BY <2>1, <2>2 DEF Fragments
<1> QED
  BY <1>1, <1>4, <1>5, <1>6

\* The message at the head of the queue of k is the one of M after those of H.
NextIs(k, M, H, B) == LET h == HeadSegments(k.rcv_queue) IN
  /\ h \in 0 .. Size(k.rcv_queue) /\ Size(H) + 1 <= Size(M) /\ Taken(k) + h = B[Size(H) + 1]
  /\ SubSeq(k.rcv_queue, 1, h) = M[Size(H) + 1]

\* What is at the head of the receive queue: the message that comes next.
LEMMA HeadOK ==
  ASSUME NEW k \in ControlBlock, NEW F \in Seq(Fragment), NEW B \in [Nat -> Nat],
         NEW M, NEW H, Size(M) \in Nat, Size(H) \in Nat,
         NEW n \in Nat, n <= Size(F), RecvOK(k, n, F), StreamOK(M, F, B), GotOK(H, M, B, Taken(k))
  PROVE  /\ HeadSegments(k.rcv_queue) \in 0 .. Size(k.rcv_queue)
         /\ HeadSegments(k.rcv_queue) = 0 => Size(k.rcv_queue) < IKCP_WND_RCV
         /\ HeadSegments(k.rcv_queue) > 0 => NextIs(k, M, H, B)
<1> DEFINE q == k.rcv_queue
           T == Taken(k)
           h == HeadSegments(q)
           g == Size(H)
           L == Size(M)
           m == g + 1
           l == B[m] - B[g]
<1>1. /\ q \in Seq(Fragment) /\ Size(q) \in Nat /\ Rcv(k) \in Nat /\ g \in Nat /\ L \in Nat
      /\ Size(F) \in Nat /\ IKCP_WND_RCV \in Nat /\ IKCP_WND_RCV > 0
  <2>1. g \in Nat /\ L \in Nat
    OBVIOUS
  <2>2. Size(F) \in Nat
    BY DEF Size
  <2> HIDE DEF g, L
  <2> QED
    BY <2>1, <2>2, BlockFacts, ConstantFacts
<1>2. /\ T = Rcv(k) - Size(q) /\ 0 <= T /\ Rcv(k) <= n /\ T = B[g] /\ g <= L
      /\ \A i \in 1 .. Size(q) : q[i] = F[T + i]
  BY DEF Taken, RecvOK, GotOK
<1>3. B[L] = Size(F) /\ \A i \in 1 .. L : MessageAt(M, i, F, B)
  BY DEF StreamOK
<1>4. SUFFICES /\ h \in 0 .. Size(q)
               /\ h = 0 => Size(q) < IKCP_WND_RCV
               /\ h > 0 => m <= L /\ T + h = B[m] /\ SubSeq(q, 1, h) = M[m]
  BY DEF NextIs
<1>5. CASE Size(q) = 0
  <2>1. q = <<>>
    BY <1>1, <1>5 DEF Size
  <2>2. h = 0
    BY <2>1 DEF HeadSegments
  <2> HIDE DEF h
  <2> QED
    BY <1>1, <1>5, <2>2
<1>6. CASE Size(q) > 0
  <2> HIDE DEF g, h, L, T, q
  <2>1. g # L
    <3> SUFFICES ASSUME g = L
                 PROVE  FALSE
      OBVIOUS
    <3>1. T = Size(F)
      BY <1>2, <1>3
    <3> QED
      BY <1>1, <1>2, <1>6, <3>1
  <2>2. g < L /\ m \in 1 .. L /\ m - 1 = g /\ m \in Nat
    BY <1>1, <1>2, <2>1
  <2>3. MessageAt(M, m, F, B)
    BY <1>3, <2>2
  <2>4. B[m] \in Nat /\ B[g] \in Nat
    BY <1>1, <2>2
  <2>5. T = B[g]
    BY <1>2
  <2> HIDE DEF m
  <2>6. T + l = B[m]
    <3>1. \A a, b \in Nat : a + (b - a) = b
      OBVIOUS
    <3>2. B[g] + l = B[m]
      BY <2>4, <3>1
    <3> QED
      BY <2>5, <3>2
  <2>7. /\ l \in 1 .. IKCP_WND_RCV - 1 /\ M[m] = Fragments(m, l)
        /\ \A j \in 1 .. l : F[T + j] = [msg |-> m, frg |-> l - j]
    BY <2>2, <2>3, <2>5 DEF MessageAt
  <2> HIDE DEF l
  <2>8. l \in Nat /\ l > 0 /\ l < IKCP_WND_RCV
    <3>1. l \in 1 .. IKCP_WND_RCV - 1 /\ IKCP_WND_RCV \in Nat
      BY <1>1, <2>7
    <3> QED
      BY <3>1
  <2>9. \A j \in 1 .. l : j <= Size(q) => q[j] = [msg |-> m, frg |-> l - j]
    <3> SUFFICES ASSUME NEW j \in 1 .. l, j <= Size(q)
                 PROVE  q[j] = [msg |-> m, frg |-> l - j]
      OBVIOUS
    <3>1. j \in 1 .. Size(q)
      BY <1>1, <2>8
    <3>2. q[j] = F[T + j]
      BY <1>2, <3>1
    <3> QED
      BY <2>7, <3>2
  <2>10. /\ Size(q) < l => h = 0
         /\ Size(q) >= l => h = l /\ SubSeq(q, 1, l) = Fragments(m, l)
    BY <1>1, <1>6, <2>8, <2>9, HeadSeq DEF h
  <2>11. CASE Size(q) < l
    <3>1. h = 0 /\ Size(q) \in Nat /\ Size(q) < IKCP_WND_RCV /\ IKCP_WND_RCV \in Nat
      BY <1>1, <2>8, <2>10, <2>11
    <3>2. h \in 0 .. Size(q) /\ ~(h > 0)
      BY <3>1
    <3> QED
      BY <3>1, <3>2
  <2>12. CASE Size(q) >= l
    <3>1. h = l /\ SubSeq(q, 1, h) = M[m] /\ m <= L /\ T + h = B[m]
      BY <1>1, <2>2, <2>6, <2>7, <2>10, <2>12
    <3>2. h \in 0 .. Size(q) /\ ~(h = 0)
      BY <1>1, <2>8, <2>12, <3>1
    <3> QED
      BY <3>1, <3>2
  <2>13. Size(q) < l \/ Size(q) >= l
    BY <1>1, <2>8
  <2> QED
    BY <2>11, <2>12, <2>13
<1>7. Size(q) = 0 \/ Size(q) > 0
  BY <1>1
<1> QED
  BY <1>5, <1>6, <1>7

\* ikcp_recv takes the message off the queue and lets what waited move on.
LEMMA ReadOK ==
  ASSUME NEW k \in ControlBlock, NEW p \in ControlBlock,
         NEW F \in Seq(Fragment), NEW G \in Seq(Fragment), Size(F) <= Total, Size(G) <= Total,
         Sends(k, p, F), Sends(p, k, G),
         NEW n \in 0 .. Size(k.rcv_queue), n = HeadSegments(k.rcv_queue)
  PROVE  LET r == ikcp_recv(k) IN
         /\ r \in ControlBlock /\ Sends(r, p, F) /\ Sends(p, r, G) /\ Taken(r) = Taken(k) + n
         /\ Onward(k, r) /\ r.snd_una = k.snd_una /\ r.snd_nxt = k.snd_nxt
<1> DEFINE q == k.rcv_queue
           rest == SubSeq(q, n + 1, Len(q))
           k0 == [k EXCEPT !.rcv_queue = rest]
           k1 == MoveAvailable(k0)
           recover == Len(q) >= rcv_wnd /\ Len(k1.rcv_queue) < rcv_wnd
           r == [k1 EXCEPT !.probe = IF recover THEN @ \cup {"TELL"} ELSE @]
<1>1. ikcp_recv(k) = r
  BY DEF ikcp_recv
<1>2. q \in Seq(Fragment) /\ Size(q) \in Nat /\ Rcv(k) \in Nat /\ n \in 0 .. Size(q)
  BY BlockFacts
<1>3. /\ rest \in Seq(Fragment) /\ Size(rest) = Size(q) - n
      /\ \A i \in 1 .. Size(q) - n : rest[i] = q[n + i]
  <2> HIDE DEF q
  <2> QED
    BY <1>2, RestFacts
<1> HIDE DEF rest, recover
<1>4. k0 \in ControlBlock /\ k0.rcv_queue = rest /\ k0.rcv_buf = k.rcv_buf /\ k0.rcv_nxt = k.rcv_nxt /\ SameSender(k, k0)
  BY <1>3 DEF ControlBlock, SameSender
<1> HIDE DEF k0
<1>5. Nxt(p) \in Nat /\ Nxt(p) <= Size(G) /\ RecvOK(k, Nxt(p), G)
  BY SendRange DEF Sends
<1>6. Rcv(k0) = Rcv(k) /\ Onward(k, k0)
  BY <1>2, <1>4 DEF Rcv, Onward, Arrived
<1>7. Taken(k0) = Taken(k) + n
  BY <1>2, <1>3, <1>4, <1>6 DEF Taken
<1>8. RecvOK(k0, Nxt(p), G)
  <2>1. /\ Rcv(k) <= Nxt(p) /\ 0 <= Taken(k) /\ Size(q) <= rcv_wnd
        /\ \A i \in 1 .. Size(q) : q[i] = G[Taken(k) + i]
    BY <1>5 DEF RecvOK
  <2>2. Taken(k) \in Nat /\ rcv_wnd \in Nat /\ n \in Nat
    BY <1>2, <2>1, ConstantFacts DEF Taken
  <2>3. ASSUME NEW i \in 1 .. Size(q) - n
        PROVE  rest[i] = G[Taken(k) + n + i]
    <3>1. n + i \in 1 .. Size(q) /\ Taken(k) + n + i = Taken(k) + (n + i)
      BY <1>2, <2>2
    <3> QED
      BY <1>3, <2>1, <3>1
  <2>4. 0 <= Taken(k) + n /\ Size(q) - n <= rcv_wnd
    BY <1>2, <2>1, <2>2
  <2>5. \A s \in k.rcv_buf : /\ Rcv(k) <= Abs(s.sn) /\ Abs(s.sn) < Rcv(k) + rcv_wnd
                             /\ Abs(s.sn) < Nxt(p) /\ s.data = G[Abs(s.sn) + 1]
    BY <1>5 DEF RecvOK
  <2> QED
    BY <1>3, <1>4, <1>6, <1>7, <2>1, <2>3, <2>4, <2>5 DEF RecvOK
<1>9. k1 \in ControlBlock /\ RecvOK(k1, Nxt(p), G) /\ Taken(k1) = Taken(k0) /\ Onward(k0, k1) /\ SameSender(k0, k1)
  BY <1>4, <1>5, <1>8, MoveOK
<1> HIDE DEF k1
<1>10. SameSender(k, k1)
  BY <1>4, <1>9 DEF SameSender
<1>11. Onward(k, k1)
  <2>1. Rcv(k0) \in Nat /\ Rcv(k1) \in Nat
    BY <1>4, <1>9, BlockFacts
  <2> QED
    BY <1>2, <1>6, <1>9, <2>1 DEF Onward
<1>12. Sends(k1, p, F) /\ Sends(p, k1, G)
  BY <1>9, <1>10, <1>11, ReceiverOK
<1>13. r \in ControlBlock /\ SameStream(k1, r) /\ r.rcv_buf = k1.rcv_buf
  BY <1>9 DEF ControlBlock, SameStream
<1> HIDE DEF r
<1>14. Sends(r, p, F) /\ Sends(p, r, G)
  BY <1>9, <1>12, <1>13, SameStreamOK
<1>15. Taken(r) = Taken(k) + n /\ Onward(k, r) /\ r.snd_una = k.snd_una /\ r.snd_nxt = k.snd_nxt
  BY <1>7, <1>9, <1>10, <1>11, <1>13 DEF SameStream, SameSender, Taken, Rcv, Onward, Arrived
<1> QED
  BY <1>1, <1>13, <1>14, <1>15
--------------------------------------------------------------------------------
(***************************************************************************)
(* ikcp_flush.                                                             *)
(***************************************************************************)

\* Segments can be put in the order of their numbers.
LEMMA SortedOK ==
  ASSUME NEW C \in SUBSET SndSeg, \A s \in C : Abs(s.sn) <= Total,
         \A s, t \in C : s.sn = t.sn => s = t
  PROVE  /\ Cardinality(C) \in Nat
         /\ \E segs \in SetToSeqs(C) : \A i, j \in DOMAIN segs : i < j => _itimediff(segs[i].sn, segs[j].sn) < 0
<1> DEFINE Below(n) == {s \in C : Abs(s.sn) < n}
           Sorted(f, D) == /\ f \in [1 .. Cardinality(D) -> D]
                           /\ \A i, j \in 1 .. Cardinality(D) : i < j => Abs(f[i].sn) < Abs(f[j].sn)
           S == {n \in 0 .. Total + 1 : IsFiniteSet(Below(n)) /\ \E f : Sorted(f, Below(n))}
<1>1. Total \in Nat /\ \A s \in C : s.sn \in Sn /\ Abs(s.sn) \in Nat
  BY ConstantFacts, NumAbs DEF SndSeg
<1>2. \A s, t \in C : Abs(s.sn) = Abs(t.sn) => s = t
  BY <1>1, AbsInjective
<1>3. 0 \in S
  <2>1. Below(0) = {}
    BY <1>1
  <2>2. IsFiniteSet({}) /\ Cardinality({}) = 0
    BY FS_EmptySet
  <2>3. Sorted(<<>>, {})
    BY <2>2
  <2> HIDE DEF Below, Sorted
  <2>4. IsFiniteSet(Below(0)) /\ Sorted(<<>>, Below(0))
    BY <2>1, <2>2, <2>3
  <2>5. IsFiniteSet(Below(0)) /\ \E f : Sorted(f, Below(0))
    BY <2>4, Zenon
  <2>6. 0 \in 0 .. Total + 1
    BY <1>1
  <2> QED
    BY <2>5, <2>6
<1>4. ASSUME NEW n \in 0 .. (Total + 1) - 1, n \in S
      PROVE  n + 1 \in S
  <2>1. n + 1 \in 0 .. Total + 1 /\ n \in Nat
    BY <1>1
  <2>2. PICK f : Sorted(f, Below(n))
    BY <1>4
  <2>3. IsFiniteSet(Below(n))
    BY <1>4
  <2>4. CASE \E s \in C : Abs(s.sn) = n
    <3>1. PICK s \in C : Abs(s.sn) = n
      BY <2>4
    <3>2. Below(n + 1) = Below(n) \cup {s} /\ s \notin Below(n)
      <4>1. \A t \in C : Abs(t.sn) < n + 1 <=> Abs(t.sn) < n \/ t = s
        BY <1>1, <1>2, <2>1, <3>1
      <4> QED
        BY <2>1, <3>1, <4>1
    <3> DEFINE D == Below(n)  E == Below(n + 1)  c == Cardinality(D)
               g == [i \in 1 .. c + 1 |-> IF i = c + 1 THEN s ELSE f[i]]
    <3>3. \A t \in D : t \in C /\ Abs(t.sn) < n
      OBVIOUS
    <3>4. s \in E /\ D \subseteq E
      BY <3>2
    <3> HIDE DEF Below
    <3>5. IsFiniteSet(E) /\ Cardinality(E) = c + 1 /\ c \in Nat
      <4>1. IsFiniteSet(D \cup {s}) /\ Cardinality(D \cup {s}) = IF s \in D THEN Cardinality(D) ELSE Cardinality(D) + 1
        BY <2>3, FS_AddElement
      <4>2. c \in Nat
        BY <2>3, FS_CardinalityType
      <4> QED
        BY <3>2, <4>1, <4>2
    <3> HIDE DEF D, E, c
    <3>6. /\ f \in [1 .. c -> D]
          /\ \A i, j \in 1 .. c : i < j => Abs(f[i].sn) < Abs(f[j].sn)
      BY <2>2 DEF c, D
    <3>7. ASSUME NEW i \in 1 .. c + 1
          PROVE  g[i] \in E /\ (i \in 1 .. c => g[i] = f[i] /\ Abs(g[i].sn) < n) /\ (i = c + 1 => g[i] = s)
      <4>1. CASE i = c + 1
        BY <3>4, <3>5, <4>1
      <4>2. CASE i \in 1 .. c
        <5>1. f[i] \in D /\ i # c + 1
          BY <3>5, <3>6, <4>2
        <5> QED
          BY <3>3, <3>4, <4>2, <5>1
      <4> QED
        BY <3>5, <4>1, <4>2
    <3>8. g \in [1 .. c + 1 -> E]
      BY <3>7
    <3> HIDE DEF g
    <3>9. \A i, j \in 1 .. c + 1 : i < j => Abs(g[i].sn) < Abs(g[j].sn)
      <4> SUFFICES ASSUME NEW i \in 1 .. c + 1, NEW j \in 1 .. c + 1, i < j
                   PROVE  Abs(g[i].sn) < Abs(g[j].sn)
        OBVIOUS
      <4>1. i \in 1 .. c
        BY <3>5
      <4>2. CASE j = c + 1
        BY <3>1, <3>7, <4>1, <4>2
      <4>3. CASE j \in 1 .. c
        BY <3>6, <3>7, <4>1, <4>3
      <4> QED
        BY <3>5, <4>2, <4>3
    <3>10. Sorted(g, E)
      BY <3>5, <3>8, <3>9
    <3> HIDE DEF Sorted
    <3> QED
      BY <2>1, <3>5, <3>10 DEF E
  <2>5. CASE ~ \E s \in C : Abs(s.sn) = n
    <3>1. \A t \in C : Abs(t.sn) < n + 1 <=> Abs(t.sn) < n
      BY <1>1, <2>1, <2>5
    <3>2. Below(n + 1) = Below(n)
      BY <3>1
    <3> HIDE DEF Below, Sorted
    <3> QED
      BY <2>1, <2>2, <2>3, <3>2
  <2> QED
    BY <2>4, <2>5
<1>5. Total + 1 \in S
  <2> HIDE DEF S
  <2>1. Total + 1 \in Nat
    BY <1>1
  <2>2. \A i \in 0 .. Total + 1 : i \in S
    BY <1>3, <1>4, <2>1, NatSet
  <2> QED
    BY <2>1, <2>2
<1>6. Below(Total + 1) = C
  BY <1>1
<1>7. PICK f : Sorted(f, C) /\ IsFiniteSet(C)
  <2> HIDE DEF Below, Sorted
  <2> QED
    BY <1>5, <1>6
<1> DEFINE c == Cardinality(C)
<1>8. c \in Nat
  BY <1>7, FS_CardinalityType
<1> HIDE DEF c
<1>9. f \in [1 .. c -> C] /\ \A i, j \in 1 .. c : i < j => Abs(f[i].sn) < Abs(f[j].sn)
  BY <1>7 DEF c
<1>10. \A i, j \in 1 .. c : i # j => f[i] # f[j]
  <2> SUFFICES ASSUME NEW i \in 1 .. c, NEW j \in 1 .. c, i < j
               PROVE  f[i] # f[j]
    BY <1>8
  <2> QED
    BY <1>1, <1>9
<1>11. f \in SetToSeqs(C) /\ DOMAIN f = 1 .. c
  BY <1>9, <1>10 DEF SetToSeqs, c
<1>12. ASSUME NEW i \in 1 .. c, NEW j \in 1 .. c, i < j
       PROVE  _itimediff(f[i].sn, f[j].sn) < 0
  <2>1. f[i] \in C /\ f[j] \in C /\ Abs(f[i].sn) < Abs(f[j].sn)
    BY <1>9, <1>12
  <2> DEFINE a == f[i].sn  b == f[j].sn
  <2>2. a \in Sn /\ b \in Sn /\ Abs(a) <= Total /\ Abs(b) <= Total /\ Abs(a) < Abs(b)
    BY <1>1, <2>1
  <2> HIDE DEF a, b
  <2>3. _itimediff(a, b) = Abs(a) - Abs(b) /\ Abs(a) \in Nat /\ Abs(b) \in Nat
    BY <2>2, DiffTotal
  <2> QED
    BY <2>2, <2>3 DEF a, b
<1> QED
  BY <1>8, <1>11, <1>12 DEF c

\* Steps of the sender leave what the block received alone.
SameReceiver(k, k1) ==
  k1.rcv_nxt = k.rcv_nxt /\ k1.rcv_queue = k.rcv_queue /\ k1.rcv_buf = k.rcv_buf

\* Nothing is sent beyond the window of the sender.
LEMMA WindowFacts ==
  ASSUME NEW k \in ControlBlock
  PROVE  EffectiveWindow(k) \in Nat /\ EffectiveWindow(k) <= snd_wnd
<1>1. k.rmt_wnd \in 0 .. rcv_wnd /\ k.cwnd \in Nat
  BY DEF ControlBlock
<1>2. k.rmt_wnd \in Nat /\ snd_wnd \in Nat
  BY <1>1, ConstantFacts
<1> QED
  BY <1>1, <1>2 DEF EffectiveWindow, Smaller

\* Fragments get the numbers that follow and are kept until they arrive.
LEMMA FillOK ==
  ASSUME NEW k \in ControlBlock, NEW p \in ControlBlock,
         NEW F \in Seq(Fragment), NEW G, Size(F) <= Total,
         Sends(k, p, F), Sends(p, k, G)
  PROVE  LET k1 == FillBuffer(k) IN
         /\ k1 \in ControlBlock /\ Sends(k1, p, F) /\ Sends(p, k1, G)
         /\ Nxt(k) <= Nxt(k1) /\ k1.snd_una = k.snd_una /\ SameReceiver(k, k1)
<1> DEFINE w == EffectiveWindow(k)
           room == Larger(_itimediff(Plus(k.snd_una, w), k.snd_nxt), 0)
           q == k.snd_queue
           n == Smaller(room, Len(q))
           rest == SubSeq(q, n + 1, Len(q))
           next == Plus(k.snd_nxt, n)
           Fresh(i) == [sn |-> Plus(k.snd_nxt, i - 1), data |-> q[i], xmit |-> 0, fastack |-> 0]
           new == {Fresh(i) : i \in 1 .. n}
           buf == k.snd_buf \cup new
           k1 == [k EXCEPT !.snd_queue = rest, !.snd_nxt = next, !.snd_buf = buf]
           U == Una(k)
           N == Nxt(k)
<1>1. FillBuffer(k) = k1
  BY DEF FillBuffer
<1>2. /\ U \in Nat /\ N \in Nat /\ U <= N /\ N <= U + snd_wnd /\ N + Size(q) = Size(F) /\ N <= Total
      /\ q \in Seq(Fragment) /\ Size(q) \in Nat /\ Len(q) = Size(q) /\ k.snd_una \in Sn /\ k.snd_nxt \in Sn
  BY SendRange, BlockFacts DEF Sends, SendOK, Size
<1>3. w \in Nat /\ w <= snd_wnd
  BY WindowFacts
<1>4. /\ Total \in Nat /\ Total + rcv_wnd <= Half /\ rcv_wnd \in Nat /\ snd_wnd \in Nat /\ snd_wnd < Half
      /\ Half \in Nat /\ 2 * Half <= SnSpace /\ SnSpace \in Nat /\ Half < SnSpace
  BY ConstantFacts, SpaceFacts
<1> HIDE DEF w, q, U, N, n
<1>5. n \in Nat /\ n <= Size(q) /\ N + n <= U + snd_wnd
  <2>1. U + w < SnSpace
    BY <1>2, <1>3, <1>4
  <2>2. Plus(k.snd_una, w) \in Sn /\ Abs(Plus(k.snd_una, w)) = U + w
    BY <1>2, <1>3, <2>1, AbsPlus DEF U, Una
  <2>3. U + w - N >= -Half /\ U + w - N < Half
    BY <1>2, <1>3, <1>4
  <2>4. _itimediff(Plus(k.snd_una, w), k.snd_nxt) = U + w - N
    <3> DEFINE a == Plus(k.snd_una, w)  b == k.snd_nxt
    <3>1. a \in Sn /\ b \in Sn /\ Abs(a) = U + w /\ Abs(b) = N
      BY <1>2, <2>2 DEF N, Nxt
    <3> HIDE DEF a, b
    <3>2. Abs(a) - Abs(b) >= -Half /\ Abs(a) - Abs(b) < Half
      BY <1>2, <1>3, <1>4, <2>3, <3>1
    <3>3. _itimediff(a, b) = Abs(a) - Abs(b)
      BY <3>1, <3>2, AbsDiff
    <3> QED
      BY <1>2, <1>3, <3>1, <3>3 DEF a, b
  <2>5. room = Larger(U + w - N, 0) /\ n = Smaller(room, Size(q))
    BY <1>2, <2>4 DEF n
  <2> HIDE DEF room
  <2>6. room \in Nat /\ (room > 0 => N + room = U + w)
    BY <1>2, <1>3, <2>5 DEF Larger
  <2>7. n \in Nat /\ n <= Size(q) /\ n <= room
    BY <1>2, <2>5, <2>6 DEF Smaller
  <2> QED
    BY <1>2, <1>3, <1>4, <2>6, <2>7
<1>6. N + n <= Size(F) /\ N + n <= Total /\ N + n < SnSpace
  BY <1>2, <1>4, <1>5 DEF Size
<1>7. next \in Sn /\ Abs(next) = N + n
  BY <1>2, <1>5, <1>6, AbsPlus DEF N, Nxt
<1>8. ASSUME NEW i \in 1 .. n
      PROVE  /\ Fresh(i) \in SndSeg /\ Fresh(i).sn \in Sn /\ Abs(Fresh(i).sn) = N + (i - 1)
             /\ Fresh(i).data = F[N + i]
  <2>1. i - 1 \in Nat /\ N + (i - 1) < SnSpace /\ i \in 1 .. Size(q)
    BY <1>2, <1>4, <1>5, <1>6, SMTT(30)
  <2>2. Plus(k.snd_nxt, i - 1) \in Sn /\ Abs(Plus(k.snd_nxt, i - 1)) = N + (i - 1)
    BY <1>2, <2>1, AbsPlus DEF N, Nxt
  <2>3. q[i] \in Fragment
    BY <1>2, <2>1 DEF Size
  <2>4. q[i] = F[N + i]
    BY <2>1 DEF Sends, SendOK, q, N
  <2>5. 0 \in 0 .. fastlimit + 1 /\ 0 \in 0 .. fastresend
    BY KcpAssumption
  <2> QED
    BY <2>2, <2>3, <2>4, <2>5 DEF SndSeg
<1>9. /\ rest \in Seq(Fragment) /\ Size(rest) = Size(q) - n
      /\ \A i \in 1 .. Size(q) - n : rest[i] = q[n + i]
  <2>1. n \in 0 .. Size(q)
    BY <1>2, <1>5
  <2> QED
    BY <1>2, <2>1, RestFacts
<1> HIDE DEF rest, next, Fresh
<1>10. new \subseteq SndSeg /\ \A t \in new : \E i \in 1 .. n : t = Fresh(i)
  BY <1>8
<1> HIDE DEF new
<1>11. buf \in SUBSET SndSeg
  BY <1>10 DEF ControlBlock, SndSeg
<1>12. \A t \in buf : t \in k.snd_buf \/ t \in new
  OBVIOUS
<1>13. k.snd_buf \subseteq buf /\ new \subseteq buf
  OBVIOUS
<1> HIDE DEF buf
<1>14. /\ k1 \in ControlBlock /\ k1.snd_queue = rest /\ k1.snd_nxt = next /\ k1.snd_buf = buf
       /\ k1.snd_una = k.snd_una /\ SameReceiver(k, k1) /\ k1.acklist = k.acklist
  BY <1>7, <1>9, <1>11 DEF ControlBlock, SndSeg, SameReceiver
<1> HIDE DEF k1
<1>15. /\ Una(k1) = U /\ Nxt(k1) = N + n /\ Rcv(k1) = Rcv(k) /\ Taken(k1) = Taken(k)
       /\ \A x : Arrived(k1, x) <=> Arrived(k, x)
  BY <1>7, <1>14 DEF Una, Nxt, Rcv, Taken, Arrived, SameReceiver, U
<1>16. SendOK(k, F)
  BY DEF Sends
<1>17. \A s \in k.snd_buf : U <= Abs(s.sn) /\ Abs(s.sn) < N /\ s.data = F[Abs(s.sn) + 1] /\ s.sn \in Sn /\ Abs(s.sn) \in Nat
  BY <1>16, SendRange DEF SendOK, U, N
<1>18. ASSUME NEW t \in new
       PROVE  U <= Abs(t.sn) /\ N <= Abs(t.sn) /\ Abs(t.sn) < N + n /\ t.data = F[Abs(t.sn) + 1] /\ Abs(t.sn) \in Nat
  <2>1. PICK i \in 1 .. n : t = Fresh(i)
    BY <1>10
  <2>2. Abs(t.sn) = N + (i - 1) /\ t.data = F[N + i]
    BY <1>8, <2>1
  <2>3. N + (i - 1) + 1 = N + i /\ N <= N + (i - 1) /\ N + (i - 1) < N + n /\ N + (i - 1) \in Nat
    BY <1>2, <1>5
  <2> QED
    BY <1>2, <2>2, <2>3
<1>19. ASSUME NEW s \in buf, NEW t \in buf, s.sn = t.sn
       PROVE  s = t
  <2>1. CASE s \in k.snd_buf /\ t \in k.snd_buf
    BY <1>16, <1>19, <2>1 DEF SendOK
  <2>2. CASE s \in k.snd_buf /\ t \in new
    BY <1>2, <1>17, <1>18, <1>19, <2>2
  <2>3. CASE s \in new /\ t \in k.snd_buf
    BY <1>2, <1>17, <1>18, <1>19, <2>3
  <2>4. CASE s \in new /\ t \in new
    <3>1. PICK i \in 1 .. n : s = Fresh(i)
      BY <1>10, <2>4
    <3>2. PICK j \in 1 .. n : t = Fresh(j)
      BY <1>10, <2>4
    <3>3. N + (i - 1) = N + (j - 1)
      BY <1>8, <1>19, <3>1, <3>2
    <3>4. i = j
      BY <1>2, <1>5, <3>3
    <3> QED
      BY <3>1, <3>2, <3>4
  <2> QED
    BY <1>12, <2>1, <2>2, <2>3, <2>4
<1>20. SendOK(k1, F)
  <2>1. U <= N + n /\ N + n + Size(rest) = Size(F)
    BY <1>2, <1>5, <1>9 DEF Size
  <2>2. ASSUME NEW i \in 1 .. Size(rest)
        PROVE  rest[i] = F[N + n + i]
    <3>1. i \in 1 .. Size(q) - n /\ n + i \in 1 .. Size(q) /\ N + n + i = N + (n + i)
      BY <1>2, <1>5, <1>9
    <3>2. rest[i] = q[n + i]
      BY <1>9, <3>1
    <3>3. q[n + i] = F[N + (n + i)]
      BY <1>16, <3>1 DEF SendOK, q, N
    <3> QED
      BY <3>1, <3>2, <3>3
  <2>3. \A t \in buf : U <= Abs(t.sn) /\ Abs(t.sn) < N + n /\ t.data = F[Abs(t.sn) + 1]
    BY <1>2, <1>5, <1>12, <1>17, <1>18
  <2> QED
    BY <1>5, <1>14, <1>15, <1>19, <2>1, <2>2, <2>3 DEF SendOK
<1>21. RecvOK(p, N + n, F)
  <2>1. RecvOK(p, N, F)
    BY DEF Sends, N
  <2>2. Rcv(p) \in Nat /\ \A s \in p.rcv_buf : Abs(s.sn) \in Nat
    BY BlockFacts
  <2>3. Rcv(p) <= N + n /\ \A s \in p.rcv_buf : Abs(s.sn) < N + n
    BY <1>2, <1>5, <2>1, <2>2 DEF RecvOK
  <2> QED
    BY <2>1, <2>3 DEF RecvOK
<1>22. Kept(k1, p)
  <2> SUFFICES ASSUME NEW sn \in Sn, Rcv(p) <= Abs(sn), Abs(sn) < N + n
               PROVE  sn \in Sns(buf) \cup Sns(p.rcv_buf)
    BY <1>14, <1>15 DEF Kept
  <2>1. CASE Abs(sn) < N
    <3>1. sn \in Sns(k.snd_buf) \cup Sns(p.rcv_buf)
      BY <2>1 DEF Sends, Kept, N
    <3> QED
      BY <1>13, <3>1 DEF Sns
  <2>2. CASE Abs(sn) >= N
    <3> DEFINE i == Abs(sn) - N + 1
    <3>1. i \in 1 .. n /\ N + (i - 1) = Abs(sn)
      BY <1>2, <1>5, <2>2, NumAbs
    <3> HIDE DEF i
    <3>2. Fresh(i).sn \in Sn /\ Abs(Fresh(i).sn) = Abs(sn)
      BY <1>8, <3>1
    <3>3. Fresh(i).sn = sn
      BY <3>2, AbsInjective
    <3>4. Fresh(i) \in new
      BY <3>1 DEF new
    <3> QED
      BY <1>13, <3>3, <3>4 DEF Sns
  <2> QED
    BY <1>2, <2>1, <2>2, NumAbs
<1>23. RecvOK(k1, Nxt(p), G) /\ Kept(p, k1) /\ AcksOK(k1)
  BY <1>14, <1>15 DEF Sends, SameReceiver, RecvOK, Kept, AcksOK
<1> QED
  BY <1>1, <1>2, <1>5, <1>14, <1>15, <1>20, <1>21, <1>22, <1>23 DEF Sends, N

\* A segment stays right while the sides it tells about go on.
LEMMA SegKeeps ==
  ASSUME NEW k \in ControlBlock, NEW k1 \in ControlBlock, NEW F, NEW seg,
         Onward(k, k1), Nxt(k) <= Nxt(k1), SegOK(seg, k, F)
  PROVE  SegOK(seg, k1, F)
<1>1. seg \in Seg /\ seg.sn \in Sn /\ seg.una \in Sn
  BY DEF SegOK, Seg
<1>2. /\ Abs(seg.una) \in Nat /\ Abs(seg.sn) \in Nat /\ Rcv(k) \in Nat /\ Rcv(k1) \in Nat
      /\ Nxt(k) \in Nat /\ Nxt(k1) \in Nat
  BY <1>1, NumAbs, BlockFacts
<1>3. Abs(seg.una) <= Rcv(k1)
  BY <1>2 DEF SegOK, Onward
<1>4. seg.cmd = "ACK" => Arrived(k1, seg.sn)
  BY <1>1 DEF SegOK, Onward
<1>5. seg.cmd = "PUSH" => seg.data \in Fragment /\ Abs(seg.sn) < Nxt(k1) /\ seg.data = F[Abs(seg.sn) + 1]
  BY <1>2 DEF SegOK
<1> QED
  BY <1>1, <1>3, <1>4, <1>5 DEF SegOK

\* The header that all segments of a flush have.
LEMMA HeaderOK ==
  ASSUME NEW k \in ControlBlock, NEW cmd \in {"ACK", "PUSH", "WASK", "WINS"},
         NEW sn \in Sn, NEW data \in Fragment \cup {NoData}
  PROVE  LET seg == Segment(k, cmd, sn, data) IN
         seg \in Seg /\ Abs(seg.una) <= Rcv(k) /\ seg.cmd = cmd /\ seg.sn = sn /\ seg.data = data
<1>1. ikcp_wnd_unused(k) \in 0 .. rcv_wnd
  <2>1. Len(k.rcv_queue) \in Nat /\ rcv_wnd \in Nat
    BY BlockFacts, ConstantFacts
  <2>2. Larger(rcv_wnd - Len(k.rcv_queue), 0) \in 0 .. rcv_wnd
    <3> DEFINE n == Len(k.rcv_queue)
    <3>1. n \in Nat
      BY <2>1
    <3> HIDE DEF n
    <3>2. Larger(rcv_wnd - n, 0) \in 0 .. rcv_wnd
      BY <2>1, <3>1 DEF Larger
    <3> QED
      BY <3>2 DEF n
  <2> QED
    BY <2>2 DEF ikcp_wnd_unused
<1>2. k.rcv_nxt \in Sn /\ Abs(k.rcv_nxt) \in Nat
  BY BlockFacts, NumAbs
<1> QED
  BY <1>1, <1>2 DEF Segment, Seg, Rcv

\* All that a flush puts out is right.
LEMMA OutputOK ==
  ASSUME NEW k \in ControlBlock, NEW F \in Seq(Fragment), Size(F) <= Total,
         SendOK(k, F), AcksOK(k), NEW late
  PROVE  Output(k, late) \in Seq({seg \in Seg : SegOK(seg, k, F)})
<1> DEFINE T == {seg \in Seg : SegOK(seg, k, F)}
           chosen == {s \in k.snd_buf : s.xmit = 0 \/ s.sn \in late \/ Skipped(s)}
           order == CHOOSE segs \in SetToSeqs(chosen) :
                      \A i, j \in DOMAIN segs : i < j => _itimediff(segs[i].sn, segs[j].sn) < 0
           acks == [i \in DOMAIN k.acklist |-> Segment(k, "ACK", k.acklist[i], NoData)]
           ask == IF "ASK" \in k.probe THEN <<Segment(k, "WASK", 0, NoData)>> ELSE <<>>
           tell == IF "TELL" \in k.probe THEN <<Segment(k, "WINS", 0, NoData)>> ELSE <<>>
           push == [i \in DOMAIN order |-> Segment(k, "PUSH", order[i].sn, order[i].data)]
<1>1. Output(k, late) = acks \o ask \o tell \o push
  BY DEF Output
<1>2. chosen \in SUBSET SndSeg /\ chosen \subseteq k.snd_buf
  BY DEF ControlBlock, SndSeg
<1> HIDE DEF chosen
<1>3. order \in SetToSeqs(chosen) /\ Cardinality(chosen) \in Nat
  <2>1. \A s \in chosen : Abs(s.sn) <= Total
    BY <1>2, SendRange
  <2>2. \A s, t \in chosen : s.sn = t.sn => s = t
    BY <1>2 DEF SendOK
  <2>3. /\ Cardinality(chosen) \in Nat
        /\ \E segs \in SetToSeqs(chosen) :
             \A i, j \in DOMAIN segs : i < j => _itimediff(segs[i].sn, segs[j].sn) < 0
    BY <1>2, <2>1, <2>2, SortedOK
  <2> QED
    BY <2>3
<1> HIDE DEF order
<1>4. PICK c \in Nat : order \in [1 .. c -> chosen] /\ DOMAIN order = 1 .. c
  <2>1. order \in [1 .. Cardinality(chosen) -> chosen] /\ DOMAIN order = 1 .. Cardinality(chosen)
    BY <1>3 DEF SetToSeqs
  <2> QED
    BY <1>3, <2>1
<1>5. push \in Seq(T)
  <2>1. ASSUME NEW i \in 1 .. c
        PROVE  push[i] \in T
    <3> DEFINE s == order[i]
    <3>1. s \in chosen /\ s \in k.snd_buf
      BY <1>2, <1>4
    <3>2. push[i] = Segment(k, "PUSH", s.sn, s.data)
      BY <1>4
    <3> HIDE DEF s
    <3>3. s.sn \in Sn /\ s.data \in Fragment /\ Abs(s.sn) < Nxt(k) /\ s.data = F[Abs(s.sn) + 1]
      BY <3>1, BlockFacts DEF SendOK
    <3> DEFINE seg == Segment(k, "PUSH", s.sn, s.data)
    <3>4. seg \in Seg /\ Abs(seg.una) <= Rcv(k) /\ seg.cmd = "PUSH" /\ seg.sn = s.sn /\ seg.data = s.data
      BY <3>3, HeaderOK
    <3> HIDE DEF seg
    <3>5. SegOK(seg, k, F)
      BY <3>3, <3>4 DEF SegOK
    <3> QED
      BY <3>2, <3>4, <3>5 DEF seg
  <2>2. push = [i \in 1 .. c |-> push[i]]
    BY <1>4
  <2> HIDE DEF push, T
  <2>3. push \in [1 .. c -> T]
    BY <2>1, <2>2
  <2> QED
    BY <2>3, FunctionIsSeq
<1>6. acks \in Seq(T)
  <2>1. k.acklist \in Seq(Sn) /\ Len(k.acklist) \in Nat /\ DOMAIN k.acklist = 1 .. Len(k.acklist)
    BY BlockFacts
  <2>2. ASSUME NEW i \in 1 .. Len(k.acklist)
        PROVE  acks[i] \in T
    <3> DEFINE sn == k.acklist[i]
    <3>1. sn \in Sn /\ Arrived(k, sn)
      BY <2>1 DEF AcksOK
    <3>2. acks[i] = Segment(k, "ACK", sn, NoData)
      BY <2>1
    <3> HIDE DEF sn
    <3> DEFINE seg == Segment(k, "ACK", sn, NoData)
    <3>4. seg \in Seg /\ Abs(seg.una) <= Rcv(k) /\ seg.cmd = "ACK" /\ seg.sn = sn
      BY <3>1, HeaderOK
    <3> HIDE DEF seg
    <3>5. SegOK(seg, k, F)
      BY <3>1, <3>4 DEF SegOK
    <3> QED
      BY <3>2, <3>4, <3>5 DEF seg
  <2>3. acks = [i \in 1 .. Len(k.acklist) |-> acks[i]]
    BY <2>1
  <2> HIDE DEF acks, T
  <2>4. acks \in [1 .. Len(k.acklist) -> T]
    BY <2>2, <2>3
  <2> QED
    BY <2>1, <2>4, FunctionIsSeq
<1>7. ASSUME NEW cmd \in {"WASK", "WINS"}
      PROVE  Segment(k, cmd, 0, NoData) \in T
  <2> DEFINE seg == Segment(k, cmd, 0, NoData)
  <2>1. 0 \in Sn
    BY SpaceFacts DEF Sn
  <2>2. seg \in Seg /\ Abs(seg.una) <= Rcv(k) /\ seg.cmd = cmd
    BY <2>1, HeaderOK
  <2> HIDE DEF seg
  <2>3. seg.cmd # "ACK" /\ seg.cmd # "PUSH"
    BY <2>2
  <2>4. SegOK(seg, k, F)
    BY <2>2, <2>3 DEF SegOK
  <2> QED
    BY <2>2, <2>4 DEF seg
<1> HIDE DEF T, acks, push
<1>8. ask \in Seq(T) /\ tell \in Seq(T)
  BY <1>7
<1> HIDE DEF ask, tell
<1>9. acks \o ask \in Seq(T)
  BY <1>6, <1>8, ConcatFacts, Zenon
<1>10. (acks \o ask) \o tell \in Seq(T)
  BY <1>8, <1>9, ConcatFacts, Zenon
<1>11. ((acks \o ask) \o tell) \o push \in Seq(T)
  BY <1>5, <1>10, ConcatFacts, Zenon
<1> QED
  BY <1>1, <1>11 DEF T

\* Datagrams are made of what a flush puts out.
LEMMA PackedOK ==
  ASSUME NEW T, NEW segs \in Seq(T), NEW d \in Packed(segs)
  PROVE  d \in Seq(T) /\ Len(d) \in 1 .. MTU
<1>1. PICK i \in DOMAIN segs : d = SubSeq(segs, i, Smaller(i + MTU - 1, Len(segs)))
  BY DEF Packed
<1> DEFINE n == Len(segs)
           last == Smaller(i + MTU - 1, n)
<1>2. n \in Nat /\ i \in 1 .. n
  BY <1>1
<1>3. MTU \in Nat /\ MTU > 0
  BY KcpAssumption
<1> HIDE DEF n
<1>4. last \in Nat /\ i <= last /\ last <= n /\ last <= i + MTU - 1
  BY <1>2, <1>3 DEF Smaller
<1>5. d = SubSeq(segs, i, last)
  BY <1>1 DEF n
<1> HIDE DEF last
<1>6. d \in Seq(T) /\ Len(d) = last - i + 1
  BY <1>2, <1>4, <1>5 DEF n
<1>7. last - i + 1 \in 1 .. MTU
  BY <1>2, <1>3, <1>4
<1> QED
  BY <1>6, <1>7

\* f is what a flush makes of k, and what it sends.
Flushed(k, p, F, G, f) == LET r == f.kcp IN
  /\ r \in ControlBlock /\ Sends(r, p, F) /\ Sends(p, r, G)
  /\ Nxt(k) <= Nxt(r) /\ r.snd_una = k.snd_una /\ SameReceiver(k, r)
  /\ f.out \in Seq({seg \in Seg : SegOK(seg, r, F)})

\* ikcp_flush keeps the block right and puts out what is right.
LEMMA FlushOK ==
  ASSUME NEW k \in ControlBlock, NEW p \in ControlBlock,
         NEW F \in Seq(Fragment), NEW G, Size(F) <= Total,
         Sends(k, p, F), Sends(p, k, G), NEW late, NEW due
  PROVE  Flushed(k, p, F, G, ikcp_flush(k, late, due))
<1> DEFINE a == Probe(k, due)
           k1 == FillBuffer(a)
           c == Congestion(k1, late, EffectiveWindow(k))
           f == ikcp_flush(k, late, due)
           r == f.kcp
           Send(s) == IF s.xmit = 0 \/ s.sn \in late \/ Skipped(s) THEN Transmit(s, late) ELSE s
           g == [s \in k1.snd_buf |-> Send(s)]
           b == [k1 EXCEPT !.snd_buf = {g[s] : s \in k1.snd_buf}]
<1>1. a \in ControlBlock /\ SameStream(k, a) /\ SameReceiver(k, a)
  <2>1. \E w \in BOOLEAN, u \in SUBSET {"ASK", "TELL"} : a = [k EXCEPT !.probe_wait = w, !.probe = u]
    <3>1. k.probe \in SUBSET {"ASK", "TELL"} /\ k = [k EXCEPT !.probe = k.probe]
      BY DEF ControlBlock
    <3>2. CASE k.rmt_wnd = 0
      <4> DEFINE u == IF k.probe_wait /\ due THEN k.probe \cup {"ASK"} ELSE k.probe
      <4>1. a = [k EXCEPT !.probe_wait = TRUE, !.probe = u] /\ u \in SUBSET {"ASK", "TELL"}
        BY <3>1, <3>2 DEF Probe
      <4> HIDE DEF a, u
      <4> QED
        BY <4>1
    <3>3. CASE k.rmt_wnd # 0
      <4>1. a = [k EXCEPT !.probe_wait = FALSE, !.probe = k.probe]
        BY <3>1, <3>3 DEF Probe, ControlBlock
      <4> HIDE DEF a
      <4> QED
        BY <3>1, <4>1
    <3> QED
      BY <3>2, <3>3
  <2> HIDE DEF a
  <2>2. PICK w \in BOOLEAN, u \in SUBSET {"ASK", "TELL"} : a = [k EXCEPT !.probe_wait = w, !.probe = u]
    BY <2>1
  <2>3. a \in ControlBlock
    BY <2>2 DEF ControlBlock
  <2>4. SameStream(k, a) /\ SameReceiver(k, a)
    BY <2>2 DEF SameStream, SameReceiver
  <2> QED
    BY <2>3, <2>4
<1> HIDE DEF a
<1>2. Sends(a, p, F) /\ Sends(p, a, G)
  BY <1>1, SameStreamOK
<1>3. /\ k1 \in ControlBlock /\ Sends(k1, p, F) /\ Sends(p, k1, G)
      /\ Nxt(a) <= Nxt(k1) /\ k1.snd_una = a.snd_una /\ SameReceiver(a, k1)
  BY <1>1, <1>2, FillOK
<1> HIDE DEF k1
<1>4. \A s \in k1.snd_buf : s \in SndSeg
  BY <1>3 DEF ControlBlock, SndSeg
<1>5. ASSUME NEW s \in SndSeg
      PROVE  Send(s) \in SndSeg /\ Send(s).sn = s.sn /\ Send(s).data = s.data
  <2>1. s.xmit \in 0 .. fastlimit + 1 /\ s.fastack \in 0 .. fastresend
    BY DEF SndSeg
  <2>2. Smaller(s.xmit + 1, fastlimit + 1) \in 0 .. fastlimit + 1 /\ 0 \in 0 .. fastresend
    BY <2>1, KcpAssumption DEF Smaller
  <2>3. Transmit(s, late) \in SndSeg /\ Transmit(s, late).sn = s.sn /\ Transmit(s, late).data = s.data
    BY <2>1, <2>2 DEF Transmit, SndSeg
  <2> QED
    BY <2>3
<1> HIDE DEF Send
<1>6. g \in [k1.snd_buf -> SndSeg] /\ \A s \in k1.snd_buf : g[s].sn = s.sn /\ g[s].data = s.data
  BY <1>4, <1>5
<1>7. {Send(s) : s \in k1.snd_buf} = {g[s] : s \in k1.snd_buf}
  OBVIOUS
<1> HIDE DEF g
<1>8. Goes(k1, b, p, F, G)
  BY <1>3, <1>6, RenewOK
<1>9. r = [Transmitted(k1, late) EXCEPT !.ssthresh = c.ssthresh, !.cwnd = c.cwnd] /\ f.out = Output(k1, late)
  BY DEF ikcp_flush, k1, a
<1>10. Transmitted(k1, late) = [b EXCEPT !.acklist = <<>>, !.probe = {}]
  <2>1. Transmitted(k1, late) = [k1 EXCEPT !.acklist = <<>>, !.probe = {}, !.snd_buf = {Send(s) : s \in k1.snd_buf}]
    BY DEF Transmitted, Send
  <2> DEFINE z == {g[s] : s \in k1.snd_buf}
  <2>2. Transmitted(k1, late) = [k1 EXCEPT !.acklist = <<>>, !.probe = {}, !.snd_buf = z] /\ b = [k1 EXCEPT !.snd_buf = z]
    BY <1>7, <2>1
  <2> HIDE DEF z, b
  <2> QED
    BY <1>3, <2>2 DEF ControlBlock
<1>11. c.ssthresh \in Nat /\ c.cwnd \in Nat
  <2>1. /\ k1.cwnd \in Nat /\ k1.ssthresh \in Nat /\ k1.snd_nxt \in Sn /\ k1.snd_una \in Sn
        /\ EffectiveWindow(k) \in Nat /\ fastresend \in Nat
    BY <1>3, WindowFacts, KcpAssumption DEF ControlBlock
  <2> DEFINE d == _itimediff(k1.snd_nxt, k1.snd_una)
             Half2(n) == Larger(n \div 2, IKCP_THRESH_MIN)
             e == EffectiveWindow(k)
  <2>2. d \in Int
    <3> DEFINE x == k1.snd_nxt - k1.snd_una
    <3>1. x \in Int
      BY <2>1 DEF Sn
    <3>2. x % SnSpace \in 0 .. SnSpace - 1
      BY <3>1, DivMod
    <3> HIDE DEF x
    <3>3. (IF x % SnSpace < SnSpace \div 2 THEN x % SnSpace ELSE (x % SnSpace) - SnSpace) \in Int
      BY <3>2, SpaceFacts
    <3> QED
      BY <3>3 DEF _itimediff, x
  <2>3. \A n \in Int : Half2(n) \in Nat
    <3>1. \A n \in Int : n \div 2 \in Int
      OBVIOUS
    <3> QED
      BY <3>1 DEF Larger, IKCP_THRESH_MIN
  <2>4. Half2(e) \in Nat /\ Half2(d) \in Nat /\ Half2(d) + fastresend \in Nat /\ Larger(k1.cwnd, 1) \in Nat
    <3>1. Half2(e) \in Nat /\ Half2(d) \in Nat
      BY <2>1, <2>2, <2>3
    <3>2. Larger(k1.cwnd, 1) \in Nat
      BY <2>1 DEF Larger
    <3> HIDE DEF d, e, Half2
    <3> QED
      BY <2>1, <3>1, <3>2
  <2>5. c \in {[ssthresh |-> Half2(e), cwnd |-> 1], [ssthresh |-> Half2(d), cwnd |-> Half2(d) + fastresend],
               [ssthresh |-> k1.ssthresh, cwnd |-> Larger(k1.cwnd, 1)]}
    BY DEF Congestion
  <2> HIDE DEF d, e, Half2, c
  <2> QED
    BY <2>1, <2>4, <2>5
<1> HIDE DEF b, c, r
<1>12. b \in ControlBlock /\ Sends(b, p, F) /\ Sends(p, b, G)
  BY <1>8 DEF Goes
<1>13. r = [b EXCEPT !.acklist = <<>>, !.probe = {}, !.ssthresh = c.ssthresh, !.cwnd = c.cwnd]
  BY <1>9, <1>10, <1>12 DEF ControlBlock
<1>14. r \in ControlBlock /\ SameStream(b, r) /\ SameReceiver(b, r) /\ r.snd_una = b.snd_una /\ r.snd_nxt = b.snd_nxt
  <2>1. <<>> \in Seq(Sn) /\ {} \in SUBSET {"ASK", "TELL"}
    OBVIOUS
  <2>2. r \in ControlBlock
    BY <1>11, <1>12, <1>13, <2>1 DEF ControlBlock
  <2>3. /\ r.snd_una = b.snd_una /\ r.snd_nxt = b.snd_nxt /\ r.rcv_nxt = b.rcv_nxt
        /\ r.snd_queue = b.snd_queue /\ r.snd_buf = b.snd_buf
        /\ r.rcv_queue = b.rcv_queue /\ r.rcv_buf = b.rcv_buf /\ r.acklist = <<>>
    BY <1>12, <1>13 DEF ControlBlock
  <2> QED
    BY <2>2, <2>3 DEF SameStream, SameReceiver
<1>15. Sends(r, p, F) /\ Sends(p, r, G)
  BY <1>12, <1>14, SameStreamOK
<1>16. SameReceiver(k1, b) /\ b.snd_una = k1.snd_una /\ b.snd_nxt = k1.snd_nxt
  BY <1>3 DEF b, SameReceiver, ControlBlock
<1>17. SameReceiver(k1, r) /\ r.snd_una = k1.snd_una /\ r.snd_nxt = k1.snd_nxt
  BY <1>14, <1>16 DEF SameReceiver
<1>18. Nxt(k) <= Nxt(r) /\ r.snd_una = k.snd_una /\ SameReceiver(k, r)
  BY <1>1, <1>3, <1>17 DEF Nxt, SameStream, SameReceiver
<1>19. Output(k1, late) \in Seq({seg \in Seg : SegOK(seg, k1, F)})
  BY <1>3, OutputOK DEF Sends
<1>20. ASSUME NEW seg \in Seg, SegOK(seg, k1, F)
       PROVE  SegOK(seg, r, F)
  <2>1. Onward(k1, r) /\ Nxt(k1) <= Nxt(r)
    <3>1. Rcv(k1) \in Nat /\ Nxt(k1) \in Nat
      BY <1>3, BlockFacts
    <3> QED
      BY <1>17, <3>1 DEF Onward, SameReceiver, Rcv, Nxt, Arrived
  <2> QED
    BY <1>3, <1>14, <1>20, <2>1, SegKeeps
<1>21. f.out \in Seq({seg \in Seg : SegOK(seg, r, F)})
  <2>1. {seg \in Seg : SegOK(seg, k1, F)} \subseteq {seg \in Seg : SegOK(seg, r, F)}
    BY <1>20
  <2> DEFINE S1 == {seg \in Seg : SegOK(seg, k1, F)}
             S2 == {seg \in Seg : SegOK(seg, r, F)}
             o == Output(k1, late)
  <2>2. S1 \subseteq S2 /\ o \in Seq(S1)
    BY <1>19, <2>1
  <2> HIDE DEF S1, S2, o
  <2>3. o \in Seq(S2)
    BY <2>2
  <2> QED
    BY <1>9, <2>3 DEF S2, o
<1> QED
  BY <1>14, <1>15, <1>18, <1>21 DEF r, Flushed
--------------------------------------------------------------------------------
(***************************************************************************)
(* The stream, and both directions.                                        *)
(***************************************************************************)

\* All the fragments have numbers.
LEMMA StreamTotal ==
  ASSUME NEW M, NEW F \in Seq(Fragment), NEW B, Size(M) \in Nat, StreamOK(M, F, B)
  PROVE  Size(F) <= Total /\ Size(F) \in Nat
<1> DEFINE L == Size(M)  w == IKCP_WND_RCV - 1
<1>1. L \in Nat /\ L <= MaxMsg /\ Size(F) <= L * w /\ Size(F) \in Nat
  BY DEF StreamOK, Size
<1>2. w \in Nat /\ MaxMsg \in Nat
  BY ConstantFacts
<1>3. \A a, b, c \in Nat : a <= b => a * c <= b * c
  <2> SUFFICES ASSUME NEW a \in Nat, NEW b \in Nat, NEW c \in Nat, a <= b
               PROVE  a * c <= b * c
    OBVIOUS
  <2>1. (b - a) * c >= 0
    <3>1. \A x, y \in Nat : x * y \in Nat
      OBVIOUS
    <3>2. b - a \in Nat
      OBVIOUS
    <3>3. (b - a) * c \in Nat
      BY <3>1, <3>2
    <3> QED
      BY <3>3
  <2>2. (b - a) * c = b * c - a * c
    OBVIOUS
  <2>3. a * c \in Int /\ b * c \in Int
    OBVIOUS
  <2> QED
    BY <2>1, <2>2, <2>3
<1> HIDE DEF L, w
<1>4. L * w <= MaxMsg * w
  BY <1>1, <1>2, <1>3
<1>5. L * w \in Nat /\ MaxMsg * w \in Nat
  <2>1. \A x, y \in Nat : x * y \in Nat
    OBVIOUS
  <2> QED
    BY <1>1, <1>2, <2>1
<1>6. Size(F) <= MaxMsg * w
  BY <1>1, <1>4, <1>5
<1> QED
  BY <1>1, <1>6 DEF Total, w

\* A sequence gets one more member.
LEMMA AppendFacts ==
  ASSUME NEW T, NEW s \in Seq(T), NEW x \in T
  PROVE  /\ Append(s, x) \in Seq(T) /\ Size(s) \in Nat /\ Size(Append(s, x)) = Size(s) + 1
         /\ Append(s, x)[Size(s) + 1] = x /\ \A i \in 1 .. Size(s) : Append(s, x)[i] = s[i]
BY DEF Size

\* The fragments of a message.
LEMMA MessageFacts ==
  ASSUME NEW m \in 1 .. MaxMsg, NEW n \in 1 .. MaxFrag
  PROVE  /\ Fragments(m, n) \in Seq(Fragment) /\ Size(Fragments(m, n)) = n
         /\ \A i \in 1 .. n : Fragments(m, n)[i] = [msg |-> m, frg |-> n - i]
<1> DEFINE f == Fragments(m, n)
<1>1. MaxMsg \in Nat /\ MaxFrag \in Nat /\ n \in Nat
  BY KcpBounds
<1>2. f = [i \in 1 .. n |-> [msg |-> m, frg |-> n - i]]
  BY DEF Fragments
<1>3. \A i \in 1 .. n : [msg |-> m, frg |-> n - i] \in Fragment
  <2> SUFFICES ASSUME NEW i \in 1 .. n
               PROVE  [msg |-> m, frg |-> n - i] \in Fragment
    OBVIOUS
  <2>1. m \in 0 .. MaxMsg /\ n - i \in 0 .. MaxFrag - 1
    BY <1>1
  <2> QED
    BY <2>1 DEF Fragment
<1> HIDE DEF f
<1>4. f \in [1 .. n -> Fragment]
  BY <1>2, <1>3
<1>5. f \in Seq(Fragment) /\ Size(f) = n
  BY <1>1, <1>4, FunctionIsSeq
<1> QED
  BY <1>2, <1>5 DEF f

\* The stream, and what follows it.
LEMMA JoinFacts ==
  ASSUME NEW F \in Seq(Fragment), NEW m \in Seq(Fragment)
  PROVE  /\ F \o m \in Seq(Fragment) /\ Size(F \o m) = Size(F) + Size(m)
         /\ (\A i \in 1 .. Size(F) : (F \o m)[i] = F[i]) /\ \A i \in 1 .. Size(m) : (F \o m)[Size(F) + i] = m[i]
<1>1. F \o m \in Seq(Fragment) /\ Size(F \o m) = Size(F) + Size(m)
  BY ConcatFacts, Zenon
<1>2. \A i \in 1 .. Size(F) : (F \o m)[i] = F[i]
  BY ConcatFront, Zenon
<1>3. \A i \in 1 .. Size(m) : (F \o m)[Size(F) + i] = m[i]
  BY ConcatBack, Zenon
<1> QED
  BY <1>1, <1>2, <1>3

\* M2 is M and one more message, of n fragments.
OneMore(M, M2, n) ==
  /\ Size(M) \in Nat /\ Size(M) < MaxMsg /\ n < IKCP_WND_RCV /\ Size(M2) = Size(M) + 1
  /\ M2[Size(M) + 1] = Fragments(Size(M) + 1, n) /\ \A i \in 1 .. Size(M) : M2[i] = M[i]

\* The stream F2 of the messages M2 is the stream F of the messages M and m.
LongerBy(M, M2, F, F2, B, B2, m) ==
  /\ Size(M) \in Nat /\ Size(M2) = Size(M) + 1 /\ StreamOK(M2, F2, B2)
  /\ Size(F2) = Size(F) + Size(m) /\ \A i \in 1 .. Size(F) : F2[i] = F[i]
  /\ \A i \in 1 .. Size(m) : F2[Size(F) + i] = m[i]
  /\ \A i \in 0 .. Size(M) : B2[i] = B[i]

\* ikcp_send: the stream gets one more message.
LEMMA StreamGrows ==
  ASSUME NEW F \in Seq(Fragment), NEW B \in [Nat -> Nat], NEW M, NEW M2,
         StreamOK(M, F, B), NEW n \in 1 .. MaxFrag, OneMore(M, M2, n)
  PROVE  LET L == Size(M)  m == Fragments(L + 1, n)
             F2 == F \o m  B2 == [B EXCEPT ![L + 1] = B[L] + n] IN
         /\ m \in Seq(Fragment) /\ F2 \in Seq(Fragment) /\ B2 \in [Nat -> Nat]
         /\ LongerBy(M, M2, F, F2, B, B2, m)
<1> SUFFICES ASSUME Size(M) \in Nat, Size(M) < MaxMsg, n < IKCP_WND_RCV, Size(M2) = Size(M) + 1,
                    M2[Size(M) + 1] = Fragments(Size(M) + 1, n),
                    \A i \in 1 .. Size(M) : M2[i] = M[i]
             PROVE  LET L == Size(M)  m == Fragments(L + 1, n)
                        F2 == F \o m  B2 == [B EXCEPT ![L + 1] = B[L] + n] IN
                    /\ m \in Seq(Fragment) /\ Size(m) = n
                    /\ F2 \in Seq(Fragment) /\ Size(F2) = Size(F) + n /\ \A i \in 1 .. Size(F) : F2[i] = F[i]
                    /\ \A i \in 1 .. n : F2[Size(F) + i] = m[i]
                    /\ B2 \in [Nat -> Nat] /\ (\A i \in 0 .. L : B2[i] = B[i]) /\ StreamOK(M2, F2, B2)
  <2> DEFINE L == Size(M)  m == Fragments(L + 1, n)  F2 == F \o m  B2 == [B EXCEPT ![L + 1] = B[L] + n]
  <2> HIDE DEF F2, B2, m
  <2> QED
    BY Zenon DEF OneMore, LongerBy, F2, B2, m
<1> DEFINE L == Size(M)
           m == Fragments(L + 1, n)
           F2 == F \o m
           B2 == [B EXCEPT ![L + 1] = B[L] + n]
           w == IKCP_WND_RCV - 1
<1>0. /\ L \in Nat /\ L < MaxMsg /\ Size(M2) = L + 1 /\ M2[L + 1] = m
      /\ \A i \in 1 .. L : M2[i] = M[i]
  OBVIOUS
<1>7. /\ Size(M) = L /\ B[0] = 0 /\ B[L] = Size(F) /\ Size(F) <= L * w /\ \A i \in 1 .. L : MessageAt(M, i, F, B)
  BY DEF StreamOK
<1> HIDE DEF L
<1>1. /\ MaxMsg \in Nat /\ MaxFrag \in Nat /\ IKCP_WND_RCV \in Nat /\ n \in Nat /\ n > 0 /\ n <= w /\ w \in Nat
      /\ L + 1 \in 1 .. MaxMsg /\ Size(F) \in Nat
  <2>1. Size(F) \in Nat
    BY DEF Size
  <2>2. MaxMsg \in Nat /\ MaxFrag \in Nat /\ IKCP_WND_RCV \in Nat /\ IKCP_WND_RCV > 0
    BY ConstantFacts
  <2>3. n \in Nat /\ n > 0 /\ n < IKCP_WND_RCV
    BY <2>2
  <2>4. n <= w /\ w \in Nat
    BY <2>2, <2>3
  <2>5. L + 1 \in 1 .. MaxMsg
    BY <1>0, <2>2
  <2> QED
    BY <2>1, <2>2, <2>3, <2>4, <2>5
<1>2. m \in Seq(Fragment) /\ Size(m) = n /\ \A i \in 1 .. n : m[i] = [msg |-> L + 1, frg |-> n - i]
  BY <1>1, MessageFacts
<1> HIDE DEF m
<1>3. /\ F2 \in Seq(Fragment) /\ Size(F2) = Size(F) + Size(m)
      /\ (\A i \in 1 .. Size(F) : F2[i] = F[i]) /\ \A i \in 1 .. Size(m) : F2[Size(F) + i] = m[i]
  BY <1>2, JoinFacts, Zenon
<1>4. \A i \in 1 .. Size(F) : F2[i] = F[i]
  BY <1>3
<1>5. \A i \in 1 .. Size(m) : F2[Size(F) + i] = m[i]
  BY <1>3
<1> HIDE DEF F2
<1>6. /\ B2 \in [Nat -> Nat] /\ B2[L + 1] = B[L] + n /\ (\A i \in 0 .. L : B2[i] = B[i])
      /\ \A i \in Nat : B[i] \in Nat
  <2>0. B[L] \in Nat
    BY <1>0
  <2>1. B[L] + n \in Nat
    <3>1. \A a, b \in Nat : a + b \in Nat
      OBVIOUS
    <3>2. n \in Nat
      BY <1>1
    <3> QED
      BY <2>0, <3>1, <3>2, Zenon
  <2>2. \A i \in 0 .. L : i \in Nat /\ i # L + 1
    BY <1>0
  <2>3. L + 1 \in Nat
    BY <1>0
  <2> QED
    BY <2>1, <2>2, <2>3
<1> HIDE DEF B2
<1>8. Size(F2) = Size(F) + n /\ B2[L + 1] = Size(F2) /\ B2[0] = 0
  BY <1>2, <1>3, <1>6, <1>7
<1>9. Size(F2) <= (L + 1) * w
  <2>1. (L + 1) * w = L * w + w
    BY <1>0, <1>1
  <2>2. L * w \in Nat
    <3>1. \A x, y \in Nat : x * y \in Nat
      OBVIOUS
    <3> QED
      BY <1>0, <1>1, <3>1
  <2> HIDE DEF w
  <2> QED
    BY <1>0, <1>1, <1>7, <1>8, <2>1, <2>2
<1>10. ASSUME NEW i \in 1 .. L
       PROVE  MessageAt(M2, i, F2, B2)
  <2> DEFINE a == B[i - 1]  z == B[i]  l == z - a
  <2>1. i - 1 \in 0 .. L /\ i \in 0 .. L /\ i - 1 \in Nat /\ i \in Nat
    BY <1>0
  <2>2. B2[i - 1] = a /\ B2[i] = z /\ a \in Nat /\ z \in Nat /\ M2[i] = M[i]
    BY <1>0, <1>6, <2>1
  <2>3. /\ l \in 1 .. IKCP_WND_RCV - 1 /\ z <= Size(F) /\ M[i] = Fragments(i, l)
        /\ \A j \in 1 .. l : F[a + j] = [msg |-> i, frg |-> l - j]
    BY <1>7 DEF MessageAt
  <2> HIDE DEF a, z
  <2>4. ASSUME NEW j \in 1 .. l
        PROVE  F2[a + j] = [msg |-> i, frg |-> l - j]
    <3>1. a + j \in 1 .. Size(F)
      BY <1>1, <2>2, <2>3
    <3> QED
      BY <1>4, <2>3, <3>1
  <2>5. z <= Size(F2)
    <3>1. \A a2, b, c \in Nat : a2 <= b => a2 <= b + c
      OBVIOUS
    <3>2. n \in Nat /\ Size(F) \in Nat
      BY <1>1
    <3>3. z <= Size(F) + n
      BY <2>2, <2>3, <3>1, <3>2, Zenon
    <3> QED
      BY <1>8, <3>3, Zenon
  <2> QED
    BY <2>2, <2>3, <2>4, <2>5 DEF MessageAt
<1>11. MessageAt(M2, L + 1, F2, B2)
  <2>1. (L + 1) - 1 = L /\ B2[L] = Size(F) /\ B2[L + 1] = Size(F) + n
    BY <1>0, <1>6, <1>7
  <2>2. B2[L + 1] - B2[(L + 1) - 1] = n
    <3>1. \A a, b \in Nat : (a + b) - a = b
      OBVIOUS
    <3>2. n \in Nat /\ Size(F) \in Nat
      BY <1>1
    <3>3. (Size(F) + n) - Size(F) = n
      BY <3>1, <3>2, Zenon
    <3> QED
      BY <2>1, <3>3, Zenon
  <2>3. n \in 1 .. IKCP_WND_RCV - 1
    BY <1>1
  <2>4. \A j \in 1 .. n : F2[Size(F) + j] = [msg |-> L + 1, frg |-> n - j]
    BY <1>2, <1>5
  <2>5. B2[L + 1] <= Size(F2)
    BY <1>1, <1>8
  <2>6. M2[L + 1] = Fragments(L + 1, n)
    BY <1>0 DEF m
  <2> QED
    BY <2>1, <2>2, <2>3, <2>4, <2>5, <2>6 DEF MessageAt
<1>12. \A i \in 1 .. L + 1 : MessageAt(M2, i, F2, B2)
  <2>1. \A i \in 1 .. L + 1 : i \in 1 .. L \/ i = L + 1
    BY <1>0
  <2> QED
    BY <1>10, <1>11, <2>1
<1>13. StreamOK(M2, F2, B2)
  <2>1. L + 1 <= MaxMsg /\ Size(M2) = L + 1
    BY <1>0, <1>1
  <2>2. Size(F2) <= Size(M2) * (IKCP_WND_RCV - 1)
    BY <1>9, <2>1, Zenon DEF w
  <2>3. Size(M2) <= MaxMsg /\ B2[Size(M2)] = Size(F2) /\ \A i \in 1 .. Size(M2) : MessageAt(M2, i, F2, B2)
    BY <1>8, <1>12, <2>1, Zenon
  <2> QED
    BY <1>8, <2>2, <2>3, Zenon DEF StreamOK
<1>14. \A i \in 1 .. n : F2[Size(F) + i] = m[i]
  BY <1>2, <1>5
<1> QED
  BY <1>2, <1>3, <1>4, <1>6, <1>8, <1>13, <1>14 DEF L, m, F2, B2

\* How long a sequence is.
LEMMA SizeNat ==
  ASSUME NEW T, NEW s \in Seq(T)
  PROVE  Size(s) \in Nat
BY DEF Size

\* A block that goes on sends on, and what it has put into the network, with
\* what it puts there now, stays right.
LEMMA DirSender ==
  ASSUME NEW k \in ControlBlock, NEW k1 \in ControlBlock, NEW p, NEW M, NEW H, NEW N, NEW N2, NEW to,
         NEW F, NEW B, Dir(k, p, M, H, N, to, F, B),
         Sends(k1, p, F), Onward(k, k1), Nxt(k) <= Nxt(k1),
         \A d \in N2 : d \in N \/ d.to # to \/ \A i \in 1 .. Len(d.segs) : SegOK(d.segs[i], k1, F)
  PROVE  Dir(k1, p, M, H, N2, to, F, B)
<1>1. ASSUME NEW d \in N2, d.to = to, NEW i \in 1 .. Len(d.segs)
      PROVE  SegOK(d.segs[i], k1, F)
  <2>1. CASE d \in N
    <3>1. SegOK(d.segs[i], k, F)
      BY <1>1, <2>1 DEF Dir
    <3> QED
      BY <3>1, SegKeeps
  <2> QED
    BY <1>1, <2>1
<1> QED
  BY <1>1 DEF Dir

\* A block that goes on receives on.
LEMMA DirReceiver ==
  ASSUME NEW k, NEW k1, NEW p, NEW M, NEW H, NEW H2, NEW N, NEW N2, NEW to, NEW F, NEW B,
         Dir(p, k, M, H, N, to, F, B), Sends(p, k1, F), GotOK(H2, M, B, Taken(k1)),
         \A d \in N2 : d.to = to => d \in N
  PROVE  Dir(p, k1, M, H2, N2, to, F, B)
BY DEF Dir

\* ikcp_send puts the fragments of a message at the end of the queue.
LEMMA DirSend ==
  ASSUME NEW k \in ControlBlock, NEW p \in ControlBlock, NEW M, NEW M2, NEW H, NEW N, NEW to,
         NEW F \in Seq(Fragment), NEW F2 \in Seq(Fragment), NEW B, NEW B2, NEW m \in Seq(Fragment),
         Size(H) \in Nat, Size(F) <= Total, Dir(k, p, M, H, N, to, F, B), LongerBy(M, M2, F, F2, B, B2, m)
  PROVE  LET k1 == [k EXCEPT !.snd_queue = @ \o m] IN
         /\ k1 \in ControlBlock /\ Dir(k1, p, M2, H, N, to, F2, B2)
         /\ SameReceiver(k, k1) /\ k1.acklist = k.acklist /\ k1.snd_una = k.snd_una
         /\ k1.snd_nxt = k.snd_nxt /\ k1.snd_buf = k.snd_buf
<1> SUFFICES ASSUME Size(M) \in Nat, Size(M2) = Size(M) + 1, StreamOK(M2, F2, B2),
                    Size(F2) = Size(F) + Size(m), \A i \in 1 .. Size(F) : F2[i] = F[i],
                    \A i \in 1 .. Size(m) : F2[Size(F) + i] = m[i], \A i \in 0 .. Size(M) : B2[i] = B[i]
             PROVE  LET k1 == [k EXCEPT !.snd_queue = @ \o m] IN
                    /\ k1 \in ControlBlock /\ Dir(k1, p, M2, H, N, to, F2, B2)
                    /\ SameReceiver(k, k1) /\ k1.acklist = k.acklist /\ k1.snd_una = k.snd_una
                    /\ k1.snd_nxt = k.snd_nxt /\ k1.snd_buf = k.snd_buf
  BY DEF LongerBy
<1> DEFINE q == k.snd_queue
           q2 == q \o m
           k1 == [k EXCEPT !.snd_queue = q2]
           n == Nxt(k)
<1>1. /\ q \in Seq(Fragment) /\ Size(q) \in Nat /\ Size(m) \in Nat /\ Size(F) \in Nat
      /\ SendOK(k, F) /\ n \in Nat /\ n + Size(q) = Size(F) /\ n <= Size(F)
  <2>1. SendOK(k, F) /\ Size(m) \in Nat /\ Size(F) \in Nat
    BY DEF Dir, Sends, Size
  <2> QED
    BY <2>1, BlockFacts, SendRange DEF SendOK
<1> HIDE DEF q
<1>2. /\ q2 \in Seq(Fragment) /\ Size(q2) = Size(q) + Size(m)
      /\ (\A i \in 1 .. Size(q) : q2[i] = q[i]) /\ \A i \in 1 .. Size(m) : q2[Size(q) + i] = m[i]
  BY <1>1, JoinFacts, Zenon
<1> HIDE DEF q2
<1>3. /\ k1 \in ControlBlock /\ k1.snd_queue = q2 /\ SameReceiver(k, k1) /\ k1.acklist = k.acklist
      /\ k1.snd_una = k.snd_una /\ k1.snd_nxt = k.snd_nxt /\ k1.snd_buf = k.snd_buf
  BY <1>2 DEF ControlBlock, SameReceiver
<1>4. k1 = [k EXCEPT !.snd_queue = @ \o m]
  BY DEF q2, q
<1> HIDE DEF k1
<1>5. /\ Una(k1) = Una(k) /\ Nxt(k1) = n /\ Rcv(k1) = Rcv(k) /\ \A sn : Arrived(k1, sn) <=> Arrived(k, sn)
  BY <1>3 DEF Una, Nxt, Rcv, Arrived, SameReceiver
<1> HIDE DEF n
<1>6. \A s \in k.snd_buf : Abs(s.sn) + 1 \in 1 .. Size(F)
  <2> SUFFICES ASSUME NEW s \in k.snd_buf
               PROVE  Abs(s.sn) + 1 \in 1 .. Size(F)
    OBVIOUS
  <2>1. Abs(s.sn) \in Nat /\ Abs(s.sn) < n
    <3>1. Abs(s.sn) \in Nat
      BY <1>1, SendRange
    <3>2. Abs(s.sn) < n
      BY <1>1 DEF SendOK, n
    <3> QED
      BY <3>1, <3>2
  <2> QED
    BY <1>1, <2>1, SMTT(30)
<1>7. SendOK(k1, F2)
  <2>1. n + Size(q2) = Size(F2)
    BY <1>1, <1>2
  <2>2. ASSUME NEW i \in 1 .. Size(q2)
        PROVE  q2[i] = F2[n + i]
    <3>1. CASE i \in 1 .. Size(q)
      <4>1. n + i \in 1 .. Size(F)
        BY <1>1, <3>1
      <4>2. q[i] = F[n + i]
        BY <1>1, <3>1 DEF SendOK, q, n
      <4> QED
        BY <1>2, <3>1, <4>1, <4>2
    <3>2. CASE i \notin 1 .. Size(q)
      <4>0. Size(q2) = Size(q) + Size(m) /\ Size(q) \in Nat /\ Size(m) \in Nat /\ n \in Nat /\ Size(F) = n + Size(q)
        BY <1>1, <1>2
      <4>1. i - Size(q) \in 1 .. Size(m) /\ Size(q) + (i - Size(q)) = i /\ Size(F) + (i - Size(q)) = n + i
        BY <3>2, <4>0, SMTT(30)
      <4>2. q2[i] = m[i - Size(q)]
        BY <1>2, <4>1
      <4>3. F2[Size(F) + (i - Size(q))] = m[i - Size(q)]
        BY <4>1
      <4> QED
        BY <4>1, <4>2, <4>3
    <3> QED
      BY <3>1, <3>2
  <2>3. \A s \in k.snd_buf : F2[Abs(s.sn) + 1] = F[Abs(s.sn) + 1]
    BY <1>6
  <2> QED
    BY <1>1, <1>3, <1>5, <2>1, <2>2, <2>3 DEF SendOK, n
<1>8. RecvOK(p, n, F2)
  <2>1. RecvOK(p, n, F)
    BY DEF Dir, Sends, n
  <2>2. /\ Rcv(p) \in Nat /\ Size(p.rcv_queue) \in Nat /\ Taken(p) = Rcv(p) - Size(p.rcv_queue)
        /\ \A s \in p.rcv_buf : Abs(s.sn) \in Nat
    BY BlockFacts, SMTT(30) DEF Taken
  <2>3. \A i \in 1 .. Size(p.rcv_queue) : Taken(p) + i \in 1 .. Size(F)
    <3>1. 0 <= Taken(p) /\ Rcv(p) <= n
      BY <2>1 DEF RecvOK
    <3>2. Taken(p) + Size(p.rcv_queue) <= Size(F) /\ Taken(p) \in Nat
      <4> DEFINE t == Taken(p)  z == Size(p.rcv_queue)  r == Rcv(p)
      <4>1. r \in Nat /\ z \in Nat /\ t = r - z /\ 0 <= t /\ r <= n /\ n <= Size(F) /\ n \in Nat /\ Size(F) \in Nat
        BY <1>1, <2>2, <3>1
      <4> HIDE DEF t, z, r
      <4>2. t \in Nat /\ t + z = r
        BY <4>1
      <4>3. t + z <= Size(F)
        BY <4>1, <4>2
      <4> QED
        BY <4>2, <4>3 DEF t, z
    <3>3. Size(p.rcv_queue) \in Nat /\ Size(F) \in Nat
      BY <1>1, <2>2
    <3> SUFFICES ASSUME NEW i \in 1 .. Size(p.rcv_queue)
                 PROVE  Taken(p) + i \in 1 .. Size(F)
      OBVIOUS
    <3> QED
      BY <3>2, <3>3
  <2>4. \A s \in p.rcv_buf : Abs(s.sn) + 1 \in 1 .. Size(F)
    <3>1. \A s \in p.rcv_buf : Abs(s.sn) < n
      BY <2>1 DEF RecvOK
    <3> SUFFICES ASSUME NEW s \in p.rcv_buf
                 PROVE  Abs(s.sn) + 1 \in 1 .. Size(F)
      OBVIOUS
    <3>2. Abs(s.sn) \in Nat /\ Abs(s.sn) < n /\ n <= Size(F) /\ n \in Nat /\ Size(F) \in Nat
      BY <1>1, <2>2, <3>1
    <3> QED
      BY <3>2
  <2>5. /\ \A i \in 1 .. Size(p.rcv_queue) : F2[Taken(p) + i] = F[Taken(p) + i]
        /\ \A s \in p.rcv_buf : F2[Abs(s.sn) + 1] = F[Abs(s.sn) + 1]
    BY <2>3, <2>4
  <2> QED
    BY <2>1, <2>5 DEF RecvOK
<1>9. Sends(k1, p, F2)
  <2>1. Kept(k1, p) /\ AcksOK(p)
    BY <1>3, <1>5 DEF Dir, Sends, Kept, n
  <2> QED
    BY <1>5, <1>7, <1>8, <2>1 DEF Sends
<1>10. GotOK(H, M2, B2, Taken(p))
  <2>1. Size(H) <= Size(M) /\ Taken(p) = B[Size(H)]
    BY DEF Dir, GotOK
  <2>2. Size(H) <= Size(M2) /\ Size(H) \in 0 .. Size(M)
    BY <2>1
  <2> QED
    BY <2>1, <2>2 DEF GotOK
<1>11. ASSUME NEW seg, SegOK(seg, k, F)
       PROVE  SegOK(seg, k1, F2)
  <2>1. seg \in Seg /\ seg.sn \in Sn /\ Abs(seg.una) <= Rcv(k1) /\ (seg.cmd = "ACK" => Arrived(k1, seg.sn))
    BY <1>5, <1>11 DEF SegOK, Seg
  <2>2. CASE seg.cmd = "PUSH"
    <3>1. seg.data \in Fragment /\ Abs(seg.sn) < n /\ seg.data = F[Abs(seg.sn) + 1] /\ Abs(seg.sn) \in Nat
      BY <1>11, <2>1, <2>2, NumAbs DEF SegOK, n
    <3>2. Abs(seg.sn) + 1 \in 1 .. Size(F)
      BY <1>1, <3>1, SMTT(30)
    <3> QED
      BY <1>5, <2>1, <3>1, <3>2 DEF SegOK
  <2> QED
    BY <2>1, <2>2 DEF SegOK
<1>12. Dir(k1, p, M2, H, N, to, F2, B2)
  BY <1>9, <1>10, <1>11 DEF Dir
<1> QED
  BY <1>3, <1>4, <1>12

\* What the invariant says of an endpoint and its peer.
LEMMA InvFacts ==
  ASSUME NEW F \in [End -> Seq(Fragment)], NEW B \in [End -> [Nat -> Nat]], Inv(F, B), NEW e \in End
  PROVE  /\ Peer(e) \in End /\ Peer(Peer(e)) = e /\ Peer(e) # e /\ \A d \in End : d = e \/ d = Peer(e)
         /\ kcp[e] \in ControlBlock /\ F[e] \in Seq(Fragment) /\ Size(F[e]) <= Total /\ B[e] \in [Nat -> Nat]
         /\ Dir(kcp[e], kcp[Peer(e)], sent[e], got[Peer(e)], net, Peer(e), F[e], B[e])
         /\ Sends(kcp[e], kcp[Peer(e)], F[e])
         /\ sent[e] \in Seq(Seq(Fragment)) /\ got[e] \in Seq(Seq(Fragment))
         /\ Size(sent[e]) \in Nat /\ Size(got[e]) \in Nat
<1>1. Peer(e) \in End /\ Peer(Peer(e)) = e /\ Peer(e) # e /\ \A d \in End : d = e \/ d = Peer(e)
  BY DEF End, Peer
<1>2. /\ kcp[e] \in ControlBlock /\ F[e] \in Seq(Fragment) /\ B[e] \in [Nat -> Nat]
      /\ sent[e] \in Seq(Seq(Fragment)) /\ got[e] \in Seq(Seq(Fragment))
  BY DEF Inv, Types
<1>3. Size(sent[e]) \in Nat /\ Size(got[e]) \in Nat
  BY <1>2, SizeNat, Zenon
<1>4. Dir(kcp[e], kcp[Peer(e)], sent[e], got[Peer(e)], net, Peer(e), F[e], B[e])
  BY DEF Inv, Direction
<1>5. Sends(kcp[e], kcp[Peer(e)], F[e]) /\ StreamOK(sent[e], F[e], B[e])
  BY <1>4 DEF Dir
<1>6. Size(F[e]) <= Total
  BY <1>2, <1>3, <1>5, StreamTotal
<1> QED
  BY <1>1, <1>2, <1>3, <1>4, <1>5, <1>6
--------------------------------------------------------------------------------
(***************************************************************************)
(* The steps of the two endpoints.                                         *)
(***************************************************************************)

\* Neither what is acknowledged nor what is received goes back.
Advanced ==
  \A e \in End : Una(kcp[e]) <= Una(kcp'[e]) /\ Rcv(kcp[e]) <= Rcv(kcp'[e])

\* At the beginning the streams are empty.
LEMMA InitIInv ==
  ASSUME Init
  PROVE  IInv
<1> DEFINE k == ikcp_create
           F == [e \in End |-> <<>>]
           B == [e \in End |-> [i \in Nat |-> 0]]
<1>1. k \in ControlBlock
  <2>1. Start \in Sn /\ IKCP_WND_RCV \in 0 .. rcv_wnd
    BY SpaceFacts, ConstantFacts DEF Sn
  <2>2. <<>> \in Seq(Sn) /\ <<>> \in Seq(Fragment) /\ 0 \in Nat /\ IKCP_THRESH_MIN \in Nat
    BY DEF IKCP_THRESH_MIN
  <2>3. {} \in SUBSET {"ASK", "TELL"} /\ FALSE \in BOOLEAN
    OBVIOUS
  <2> QED
    BY <2>1, <2>2, <2>3 DEF ikcp_create, ControlBlock
<1>2. /\ k.snd_queue = <<>> /\ k.rcv_queue = <<>> /\ k.acklist = <<>> /\ k.snd_buf = {} /\ k.rcv_buf = {}
      /\ k.snd_una = Start /\ k.snd_nxt = Start /\ k.rcv_nxt = Start
  BY DEF ikcp_create
<1> HIDE DEF k
<1>3. Abs(Start) = 0
  <2>1. Start - Start = SnSpace * 0 + 0 /\ 0 \in 0 .. SnSpace - 1 /\ Start - Start \in Int
    BY SpaceFacts
  <2> QED
    BY <2>1, ModIs DEF Abs
<1>4. Una(k) = 0 /\ Nxt(k) = 0 /\ Rcv(k) = 0 /\ Size(<<>>) = 0 /\ Len(<<>>) = 0
  BY <1>2, <1>3 DEF Una, Nxt, Rcv, Size
<1>5. Taken(k) = 0
  BY <1>2, <1>4 DEF Taken
<1>6. Sends(k, k, <<>>)
  <2>1. SendOK(k, <<>>)
    BY <1>2, <1>4, ConstantFacts DEF SendOK
  <2>2. RecvOK(k, 0, <<>>)
    BY <1>2, <1>4, <1>5, ConstantFacts DEF RecvOK
  <2>3. Kept(k, k)
    <3>1. \A sn \in Sn : Abs(sn) \in Nat
      BY NumAbs
    <3> QED
      BY <1>4, <3>1 DEF Kept
  <2>4. AcksOK(k)
    BY <1>2, <1>4 DEF AcksOK
  <2> QED
    BY <1>4, <2>1, <2>2, <2>3, <2>4 DEF Sends
<1>7. kcp = [e \in End |-> k] /\ net = {} /\ sent = [e \in End |-> <<>>] /\ got = [e \in End |-> <<>>]
  BY DEF Init, k
<1>8. ASSUME NEW e \in End
      PROVE  Direction(e, F[e], B[e])
  <2>1. /\ kcp[e] = k /\ kcp[Peer(e)] = k /\ sent[e] = <<>> /\ got[Peer(e)] = <<>>
        /\ F[e] = <<>> /\ B[e] = [i \in Nat |-> 0]
    BY <1>7 DEF End, Peer
  <2>2. StreamOK(<<>>, <<>>, [i \in Nat |-> 0])
    BY <1>4, ConstantFacts DEF StreamOK
  <2>3. GotOK(<<>>, <<>>, [i \in Nat |-> 0], Taken(k))
    BY <1>4, <1>5 DEF GotOK
  <2> QED
    BY <1>6, <1>7, <2>1, <2>2, <2>3 DEF Direction, Dir
<1>9. F \in [End -> Seq(Fragment)] /\ B \in [End -> [Nat -> Nat]]
  OBVIOUS
<1>10. Types
  <2>1. <<>> \in Seq(Seq(Fragment))
    OBVIOUS
  <2> QED
    BY <1>1, <1>7, <2>1 DEF Types
<1> HIDE DEF F, B
<1> QED
  BY <1>8, <1>9, <1>10 DEF IInv, Inv

\* A message put after those that were sent.
LEMMA SentFacts ==
  ASSUME NEW M \in Seq(Seq(Fragment)), NEW m \in Seq(Fragment)
  PROVE  /\ Append(M, m) \in Seq(Seq(Fragment)) /\ Size(M) \in Nat /\ Size(Append(M, m)) = Size(M) + 1
         /\ Append(M, m)[Size(M) + 1] = m /\ \A i \in 1 .. Size(M) : Append(M, m)[i] = M[i]
<1> DEFINE T == Seq(Fragment)
<1>1. M \in Seq(T) /\ m \in T
  OBVIOUS
<1> HIDE DEF T
<1>2. /\ Append(M, m) \in Seq(T) /\ Size(M) \in Nat /\ Size(Append(M, m)) = Size(M) + 1
      /\ Append(M, m)[Size(M) + 1] = m /\ \A i \in 1 .. Size(M) : Append(M, m)[i] = M[i]
  BY <1>1 DEF Size
<1> QED
  BY <1>2 DEF T

\* ikcp_send: the stream of the sender goes on.
LEMMA SendOne ==
  ASSUME NEW k \in ControlBlock, NEW p \in ControlBlock, NEW M \in Seq(Seq(Fragment)), NEW H, NEW N, NEW to,
         NEW F \in Seq(Fragment), NEW B \in [Nat -> Nat], NEW n \in 1 .. MaxFrag,
         Size(F) <= Total, Size(H) \in Nat, Size(M) < MaxMsg, n < IKCP_WND_RCV,
         Dir(k, p, M, H, N, to, F, B)
  PROVE  LET m == Fragments(Size(M) + 1, n)
             k1 == [k EXCEPT !.snd_queue = @ \o m] IN
         /\ k1 \in ControlBlock /\ Append(M, m) \in Seq(Seq(Fragment))
         /\ SameReceiver(k, k1) /\ k1.acklist = k.acklist /\ k1.snd_una = k.snd_una
         /\ k1.snd_nxt = k.snd_nxt /\ k1.snd_buf = k.snd_buf
         /\ \E F2 \in Seq(Fragment), B2 \in [Nat -> Nat] : Dir(k1, p, Append(M, m), H, N, to, F2, B2)
<1> DEFINE m == Fragments(Size(M) + 1, n)
           M2 == Append(M, m)
           k1 == [k EXCEPT !.snd_queue = @ \o m]
           F2 == F \o m
           B2 == [B EXCEPT ![Size(M) + 1] = B[Size(M)] + n]
<1>1. Size(M) \in Nat
  <2> DEFINE T == Seq(Fragment)
  <2>1. M \in Seq(T)
    OBVIOUS
  <2> HIDE DEF T
  <2> QED
    BY <2>1, SizeNat, Zenon
<1>2. m \in Seq(Fragment) /\ Size(m) = n
  <2> DEFINE L == Size(M)
  <2>1. L \in Nat /\ L < MaxMsg
    BY <1>1
  <2> HIDE DEF L
  <2>2. L + 1 \in 1 .. MaxMsg
    BY <2>1, ConstantFacts
  <2>3. Fragments(L + 1, n) \in Seq(Fragment) /\ Size(Fragments(L + 1, n)) = n
    BY <2>2, MessageFacts
  <2> QED
    BY <2>3 DEF L
<1>3. PICK x \in Seq(Fragment) : x = m
  BY <1>2, Zenon
<1>4. /\ Append(M, x) \in Seq(Seq(Fragment)) /\ Size(Append(M, x)) = Size(M) + 1
      /\ Append(M, x)[Size(M) + 1] = x /\ \A i \in 1 .. Size(M) : Append(M, x)[i] = M[i]
  BY SentFacts, Zenon
<1>5. PICK Mx \in Seq(Seq(Fragment)) : Mx = Append(M, x)
  BY <1>4, Zenon
<1>6. StreamOK(M, F, B)
  BY DEF Dir
<1>7. F2 \in Seq(Fragment) /\ B2 \in [Nat -> Nat] /\ LongerBy(M, Mx, F, F2, B, B2, x)
  <2>1. OneMore(M, Mx, n)
    BY <1>1, <1>3, <1>4, <1>5, Zenon DEF OneMore
  <2>2. m \in Seq(Fragment) /\ F2 \in Seq(Fragment) /\ B2 \in [Nat -> Nat] /\ LongerBy(M, Mx, F, F2, B, B2, m)
    BY <1>6, <2>1, StreamGrows
  <2> QED
    BY <1>3, <2>2, Zenon
<1>8. PICK Fx \in Seq(Fragment), Bx \in [Nat -> Nat] : Fx = F2 /\ Bx = B2
  BY <1>7, Zenon
<1> HIDE DEF m, F2, B2
<1>9. /\ [k EXCEPT !.snd_queue = @ \o x] \in ControlBlock
      /\ Dir([k EXCEPT !.snd_queue = @ \o x], p, Mx, H, N, to, Fx, Bx)
      /\ SameReceiver(k, [k EXCEPT !.snd_queue = @ \o x]) /\ [k EXCEPT !.snd_queue = @ \o x].acklist = k.acklist
      /\ [k EXCEPT !.snd_queue = @ \o x].snd_una = k.snd_una
      /\ [k EXCEPT !.snd_queue = @ \o x].snd_nxt = k.snd_nxt /\ [k EXCEPT !.snd_queue = @ \o x].snd_buf = k.snd_buf
  <2>1. LongerBy(M, Mx, F, Fx, B, Bx, x)
    BY <1>7, <1>8, Zenon
  <2>2. Dir([k EXCEPT !.snd_queue = @ \o x], p, Mx, H, N, to, Fx, Bx)
    BY <2>1, DirSend, Zenon
  <2>3. k.snd_queue \in Seq(Fragment)
    BY BlockFacts
  <2>4. k.snd_queue \o x \in Seq(Fragment)
    BY <2>3, JoinFacts, Zenon
  <2>5. PICK q \in Seq(Fragment) : q = k.snd_queue \o x
    BY <2>4, Zenon
  <2>6. /\ [k EXCEPT !.snd_queue = q] \in ControlBlock /\ SameReceiver(k, [k EXCEPT !.snd_queue = q])
        /\ [k EXCEPT !.snd_queue = q].acklist = k.acklist /\ [k EXCEPT !.snd_queue = q].snd_una = k.snd_una
        /\ [k EXCEPT !.snd_queue = q].snd_nxt = k.snd_nxt /\ [k EXCEPT !.snd_queue = q].snd_buf = k.snd_buf
    BY DEF ControlBlock, SameReceiver
  <2> QED
    BY <2>2, <2>5, <2>6
<1> QED
  BY <1>3, <1>4, <1>5, <1>9, Zenon DEF m

\* The peer of an endpoint that sends: nothing of what it receives changes.
LEMMA SentAway ==
  ASSUME NEW p, NEW k, NEW k1, NEW M, NEW H, NEW N, NEW to, NEW F, NEW B,
         Dir(p, k, M, H, N, to, F, B), SameReceiver(k, k1), k1.acklist = k.acklist
  PROVE  Dir(p, k1, M, H, N, to, F, B) /\ Rcv(k1) = Rcv(k)
<1>1. Rcv(k1) = Rcv(k) /\ Taken(k1) = Taken(k) /\ \A sn : Arrived(k1, sn) <=> Arrived(k, sn)
  BY DEF SameReceiver, Rcv, Taken, Arrived
<1>2. Sends(p, k1, F)
  BY <1>1 DEF Dir, Sends, SameReceiver, RecvOK, Kept, AcksOK
<1> QED
  BY <1>1, <1>2 DEF Dir

\* An endpoint has changed, the other one has not: the invariant, when both
\* directions are right.
LEMMA OneChanged ==
  ASSUME NEW F \in [End -> Seq(Fragment)], NEW B \in [End -> [Nat -> Nat]], Types,
         NEW e \in End, NEW o \in End, o = Peer(e),
         NEW k1 \in ControlBlock, kcp' = [kcp EXCEPT ![e] = k1],
         NEW M2 \in Seq(Seq(Fragment)), sent' = [sent EXCEPT ![e] = M2],
         NEW H2 \in Seq(Seq(Fragment)), got' = [got EXCEPT ![e] = H2],
         \A d \in net' : d.to \in End /\ d.segs \in Seq(Seg) /\ Len(d.segs) \in 1 .. MTU,
         NEW Fe \in Seq(Fragment), NEW Be \in [Nat -> Nat],
         Dir(k1, kcp[o], M2, got[o], net', o, Fe, Be),
         Dir(kcp[o], k1, sent[o], H2, net', e, F[o], B[o]),
         Una(kcp[e]) <= Una(k1), Rcv(kcp[e]) <= Rcv(k1)
  PROVE  IInv' /\ Advanced
<1>1. Peer(e) = o /\ Peer(o) = e /\ o # e /\ \A d \in End : d = e \/ d = o
  BY DEF End, Peer
<1>2. PICK F2 \in [End -> Seq(Fragment)] : F2 = [F EXCEPT ![e] = Fe]
  OBVIOUS
<1>3. PICK B2 \in [End -> [Nat -> Nat]] : B2 = [B EXCEPT ![e] = Be]
  OBVIOUS
<1>4. F2[e] = Fe /\ F2[o] = F[o] /\ B2[e] = Be /\ B2[o] = B[o]
  BY <1>1, <1>2, <1>3
<1>5. /\ kcp'[e] = k1 /\ kcp'[o] = kcp[o] /\ sent'[e] = M2 /\ sent'[o] = sent[o] /\ got'[e] = H2 /\ got'[o] = got[o]
      /\ kcp' \in [End -> ControlBlock] /\ sent' \in [End -> Seq(Seq(Fragment))]
      /\ got' \in [End -> Seq(Seq(Fragment))]
  <2> DEFINE T == Seq(Seq(Fragment))  C == ControlBlock
  <2>1. kcp \in [End -> C] /\ sent \in [End -> T] /\ got \in [End -> T] /\ M2 \in T /\ H2 \in T /\ k1 \in C
    BY DEF Types
  <2> HIDE DEF T, C
  <2>2. /\ kcp'[e] = k1 /\ kcp'[o] = kcp[o] /\ sent'[e] = M2 /\ sent'[o] = sent[o] /\ got'[e] = H2 /\ got'[o] = got[o]
        /\ kcp' \in [End -> C] /\ sent' \in [End -> T] /\ got' \in [End -> T]
    BY <1>1, <2>1
  <2> QED
    BY <2>2 DEF T, C
<1>6. Types'
  BY <1>5 DEF Types
<1>7. ASSUME NEW d \in End
      PROVE  Direction(d, F2[d], B2[d])'
  <2>1. CASE d = e
    BY <1>1, <1>4, <1>5, <2>1, Zenon DEF Direction
  <2>2. CASE d = o
    BY <1>1, <1>4, <1>5, <2>2, Zenon DEF Direction
  <2> QED
    BY <1>1, <2>1, <2>2
<1>8. IInv'
  BY <1>6, <1>7, Zenon DEF IInv, Inv
<1>9. Advanced
  <2> SUFFICES ASSUME NEW d \in End
               PROVE  Una(kcp[d]) <= Una(kcp'[d]) /\ Rcv(kcp[d]) <= Rcv(kcp'[d])
    BY DEF Advanced
  <2>1. CASE d = e
    BY <1>5, <2>1, Zenon
  <2>2. CASE d = o
    <3>1. PICK p \in ControlBlock : p = kcp[o]
      BY DEF Types
    <3>2. kcp[d] = p /\ kcp'[d] = p
      BY <1>5, <2>2, <3>1, Zenon
    <3>3. Una(p) \in Int /\ Rcv(p) \in Int
      BY BlockFacts
    <3>4. \A x \in Int : x <= x
      OBVIOUS
    <3> QED
      BY <3>2, <3>3, <3>4, Zenon
  <2> QED
    BY <1>1, <2>1, <2>2
<1> QED
  BY <1>8, <1>9

\* ikcp_send keeps the invariant.
LEMMA SendStep ==
  ASSUME NEW F \in [End -> Seq(Fragment)], NEW B \in [End -> [Nat -> Nat]], Inv(F, B),
         NEW e \in End, NEW n \in 1 .. MaxFrag, ikcp_send(e, n)
  PROVE  IInv' /\ Advanced
<1>1. Types
  BY DEF Inv
<1>2. PICK o \in End : o = Peer(e) /\ Peer(o) = e
  BY InvFacts
<1>3. PICK k \in ControlBlock, p \in ControlBlock : k = kcp[e] /\ p = kcp[o]
  BY InvFacts
<1>4. PICK M \in Seq(Seq(Fragment)), Mo \in Seq(Seq(Fragment)) : M = sent[e] /\ Mo = sent[o]
  BY InvFacts, Zenon
<1>5. PICK H \in Seq(Seq(Fragment)), Ho \in Seq(Seq(Fragment)) : H = got[e] /\ Ho = got[o] /\ Size(Ho) \in Nat
  BY InvFacts, Zenon
<1>6. PICK f \in Seq(Fragment), g \in Seq(Fragment) : f = F[e] /\ g = F[o] /\ Size(f) <= Total
  BY InvFacts
<1>7. PICK b \in [Nat -> Nat], c \in [Nat -> Nat] : b = B[e] /\ c = B[o]
  OBVIOUS
<1>8. PICK N : N = net
  OBVIOUS
<1>9. Dir(k, p, M, Ho, N, o, f, b)
  BY InvFacts, <1>2, <1>3, <1>4, <1>5, <1>6, <1>7, <1>8, Zenon
<1>10. Dir(p, k, Mo, H, N, e, g, c)
  <2>1. Dir(kcp[o], kcp[Peer(o)], sent[o], got[Peer(o)], net, Peer(o), F[o], B[o])
    BY InvFacts, Zenon
  <2> QED
    BY <2>1, <1>2, <1>3, <1>4, <1>5, <1>6, <1>7, <1>8, Zenon
<1> DEFINE m == Fragments(Size(M) + 1, n)
           k1 == [k EXCEPT !.snd_queue = @ \o m]
<1>11. /\ Size(M) < MaxMsg /\ n < IKCP_WND_RCV /\ net' = net /\ got' = got
       /\ kcp' = [kcp EXCEPT ![e].snd_queue = @ \o m] /\ sent' = [sent EXCEPT ![e] = Append(M, m)]
  BY <1>4, Zenon DEF ikcp_send, Size
<1>12. /\ k1 \in ControlBlock /\ Append(M, m) \in Seq(Seq(Fragment))
       /\ SameReceiver(k, k1) /\ k1.acklist = k.acklist /\ k1.snd_una = k.snd_una
       /\ \E F2 \in Seq(Fragment), B2 \in [Nat -> Nat] : Dir(k1, p, Append(M, m), Ho, N, o, F2, B2)
  <2>1. k1 \in ControlBlock
    BY <1>5, <1>6, <1>9, <1>11, SendOne, Zenon
  <2>2. Append(M, m) \in Seq(Seq(Fragment))
    BY <1>5, <1>6, <1>9, <1>11, SendOne, Zenon
  <2>3. SameReceiver(k, k1)
    BY <1>5, <1>6, <1>9, <1>11, SendOne, Zenon
  <2>6. \E F2 \in Seq(Fragment), B2 \in [Nat -> Nat] : Dir(k1, p, Append(M, m), Ho, N, o, F2, B2)
    BY <1>5, <1>6, <1>9, <1>11, SendOne, Zenon
  <2> HIDE DEF m
  <2>4. k1.acklist = k.acklist
    BY DEF ControlBlock
  <2>5. k1.snd_una = k.snd_una
    BY DEF ControlBlock
  <2> QED
    BY <2>1, <2>2, <2>3, <2>4, <2>5, <2>6, Zenon
<1>13. PICK F2 \in Seq(Fragment), B2 \in [Nat -> Nat] : Dir(k1, p, Append(M, m), Ho, N, o, F2, B2)
  BY <1>12, Zenon
<1>14. PICK M2 \in Seq(Seq(Fragment)) : M2 = Append(M, m)
  BY <1>12, Zenon
<1>15. kcp' = [kcp EXCEPT ![e] = k1]
  BY <1>3, <1>11
<1> HIDE DEF k1, m
<1>16. PICK r \in ControlBlock : r = k1
  BY <1>12, Zenon
<1>17. Dir(p, r, Mo, H, N, e, g, c) /\ Rcv(r) = Rcv(k)
  BY <1>10, <1>12, <1>16, SentAway, Zenon
<1>18. Una(k) <= Una(r) /\ Rcv(k) <= Rcv(r)
  <2>1. Una(r) = Una(k)
    BY <1>12, <1>16, Zenon DEF Una
  <2>2. \A x \in Int : x <= x
    OBVIOUS
  <2>3. Una(k) \in Int /\ Rcv(k) \in Int
    BY BlockFacts
  <2> QED
    BY <1>17, <2>1, <2>2, <2>3, Zenon
<1>19. got' = [got EXCEPT ![e] = H]
  <2> DEFINE T == Seq(Seq(Fragment))
  <2>1. got \in [End -> T]
    BY <1>1 DEF Types
  <2> HIDE DEF T
  <2> QED
    BY <1>5, <1>11, <2>1
<1>20. kcp' = [kcp EXCEPT ![e] = r] /\ sent' = [sent EXCEPT ![e] = M2]
  BY <1>11, <1>14, <1>15, <1>16, Zenon
<1>21. \A d \in net' : d.to \in End /\ d.segs \in Seq(Seg) /\ Len(d.segs) \in 1 .. MTU
  BY <1>1, <1>11, Zenon DEF Types
<1>22. Dir(r, kcp[o], M2, got[o], net', o, F2, B2)
  BY <1>3, <1>5, <1>8, <1>11, <1>13, <1>14, <1>16, Zenon
<1>23. Dir(kcp[o], r, sent[o], H, net', e, F[o], B[o])
  BY <1>3, <1>4, <1>6, <1>7, <1>8, <1>11, <1>17, Zenon
<1>24. Una(kcp[e]) <= Una(r) /\ Rcv(kcp[e]) <= Rcv(r)
  BY <1>3, <1>18, Zenon
<1> QED
  BY <1>1, <1>2, <1>19, <1>20, <1>21, <1>22, <1>23, <1>24, OneChanged, Zenon

\* A message that was read is the next one that was sent.
LEMMA GotFacts ==
  ASSUME NEW M, NEW H \in Seq(Seq(Fragment)), NEW m \in Seq(Fragment), NEW B, NEW t, NEW h,
         Size(M) \in Nat, GotOK(H, M, B, t), Size(H) + 1 <= Size(M), t + h = B[Size(H) + 1]
  PROVE  Append(H, m) \in Seq(Seq(Fragment)) /\ GotOK(Append(H, m), M, B, t + h)
<1>1. Append(H, m) \in Seq(Seq(Fragment)) /\ Size(Append(H, m)) = Size(H) + 1
  BY SentFacts, Zenon
<1> QED
  BY <1>1, Zenon DEF GotOK

\* ikcp_recv keeps the invariant, and what it returns is the next message of
\* the peer.
LEMMA RecvStep ==
  ASSUME NEW F \in [End -> Seq(Fragment)], NEW B \in [End -> [Nat -> Nat]], Inv(F, B),
         NEW e \in End, Recv(e)
  PROVE  /\ IInv' /\ Advanced
         /\ Size(got[e]) < Size(sent[Peer(e)])
         /\ got' = [got EXCEPT ![e] = Append(got[e], sent[Peer(e)][Size(got[e]) + 1])]
<1>1. Types
  BY DEF Inv
<1>2. PICK o \in End : o = Peer(e) /\ Peer(o) = e /\ o # e
  BY InvFacts
<1>3. PICK k \in ControlBlock, p \in ControlBlock : k = kcp[e] /\ p = kcp[o]
  BY InvFacts
<1>4. PICK M \in Seq(Seq(Fragment)), Mo \in Seq(Seq(Fragment)) : M = sent[e] /\ Mo = sent[o] /\ Size(Mo) \in Nat
  BY InvFacts, Zenon
<1>5. PICK H \in Seq(Seq(Fragment)), Ho \in Seq(Seq(Fragment)) : H = got[e] /\ Ho = got[o] /\ Size(H) \in Nat
  <2>1. got[e] \in Seq(Seq(Fragment)) /\ Size(got[e]) \in Nat
    BY InvFacts, Zenon
  <2>2. got[o] \in Seq(Seq(Fragment))
    BY InvFacts, Zenon
  <2> QED
    BY <2>1, <2>2, Zenon
<1>6. PICK f \in Seq(Fragment), g \in Seq(Fragment) : f = F[e] /\ g = F[o] /\ Size(f) <= Total /\ Size(g) <= Total
  BY InvFacts
<1>7. PICK b \in [Nat -> Nat], c \in [Nat -> Nat] : b = B[e] /\ c = B[o]
  OBVIOUS
<1>8. PICK N : N = net
  OBVIOUS
<1>9. Dir(k, p, M, Ho, N, o, f, b)
  BY InvFacts, <1>2, <1>3, <1>4, <1>5, <1>6, <1>7, <1>8, Zenon
<1>10. Dir(p, k, Mo, H, N, e, g, c)
  <2>1. Dir(kcp[o], kcp[Peer(o)], sent[o], got[Peer(o)], net, Peer(o), F[o], B[o])
    BY InvFacts, Zenon
  <2> QED
    BY <2>1, <1>2, <1>3, <1>4, <1>5, <1>6, <1>7, <1>8, Zenon
<1> DEFINE q == k.rcv_queue
           h == HeadSegments(q)
           x == SubSeq(q, 1, h)
           j == Size(H) + 1
           k1 == ikcp_recv(k)
<1>11. /\ h > 0 /\ net' = net /\ sent' = sent
       /\ kcp' = [kcp EXCEPT ![e] = k1] /\ got' = [got EXCEPT ![e] = Append(H, x)]
  <2>1. /\ HeadSegments(kcp[e].rcv_queue) > 0 /\ net' = net /\ sent' = sent
        /\ kcp' = [kcp EXCEPT ![e] = ikcp_recv(kcp[e])]
        /\ got' = [got EXCEPT ![e] = Append(got[e], SubSeq(kcp[e].rcv_queue, 1, HeadSegments(kcp[e].rcv_queue)))]
    BY Zenon DEF Recv
  <2> QED
    BY <1>3, <1>5, <2>1, Zenon
<1>12. Sends(k, p, f) /\ Sends(p, k, g) /\ StreamOK(Mo, g, c) /\ GotOK(H, Mo, c, Taken(k)) /\ RecvOK(k, Nxt(p), g) /\ SendOK(p, g)
  BY <1>9, <1>10 DEF Dir, Sends
<1>13. Nxt(p) \in Nat /\ Nxt(p) <= Size(g)
  BY <1>6, <1>12, SendRange
<1>14. h \in 0 .. Size(q) /\ j <= Size(Mo) /\ Taken(k) + h = c[j] /\ x = Mo[j]
  <2>1. HeadSegments(k.rcv_queue) > 0
    BY <1>11, Zenon
  <2>2. NextIs(k, Mo, H, c)
    BY <1>4, <1>5, <1>12, <1>13, <2>1, HeadOK, Zenon
  <2> QED
    BY <2>2, Zenon DEF NextIs
<1>15. /\ k1 \in ControlBlock /\ Sends(k1, p, f) /\ Sends(p, k1, g) /\ Taken(k1) = Taken(k) + h
       /\ Onward(k, k1) /\ k1.snd_una = k.snd_una /\ k1.snd_nxt = k.snd_nxt
  BY <1>6, <1>12, <1>14, ReadOK
<1> HIDE DEF k1, h, x, q
<1>16. PICK r \in ControlBlock : r = k1
  BY <1>15, Zenon
<1>17. x \in Seq(Fragment)
  <2>1. 1 <= j /\ j <= Size(Mo) /\ j \in Nat
    <3>1. \A i \in Nat : 1 <= i + 1 /\ i + 1 \in Nat
      OBVIOUS
    <3> QED
      BY <1>5, <1>14, <3>1, Zenon
  <2> DEFINE T == Seq(Fragment)
  <2>2. Mo \in Seq(T)
    OBVIOUS
  <2> HIDE DEF T, j
  <2>3. j \in 1 .. Len(Mo)
    BY <1>4, <2>1 DEF Size
  <2>4. Mo[j] \in T
    BY <2>2, <2>3
  <2> QED
    BY <1>14, <2>4, Zenon DEF T
<1>18. PICK H2 \in Seq(Seq(Fragment)) : H2 = Append(H, x) /\ GotOK(H2, Mo, c, Taken(r))
  <2>1. Append(H, x) \in Seq(Seq(Fragment)) /\ GotOK(Append(H, x), Mo, c, Taken(k) + h)
    BY <1>4, <1>12, <1>14, <1>17, GotFacts, Zenon
  <2> QED
    BY <1>15, <1>16, <2>1, Zenon
<1>19. Dir(p, r, Mo, H2, N, e, g, c)
  <2>1. Sends(p, r, g) /\ \A d \in N : d.to = e => d \in N
    BY <1>15, <1>16, Zenon
  <2> QED
    BY <1>10, <1>18, <2>1, DirReceiver, Zenon
<1>20. Dir(r, p, M, Ho, N, o, f, b)
  <2>1. Nxt(r) = Nxt(k) /\ Onward(k, r) /\ Sends(r, p, f)
    BY <1>15, <1>16, Zenon DEF Nxt
  <2>2. Nxt(k) <= Nxt(r)
    BY <2>1, BlockFacts
  <2>3. \A d \in N : d \in N \/ d.to # o \/ \A i \in 1 .. Len(d.segs) : SegOK(d.segs[i], r, f)
    OBVIOUS
  <2> QED
    BY <1>9, <2>1, <2>2, <2>3, DirSender, Zenon
<1>21. Una(k) <= Una(r) /\ Rcv(k) <= Rcv(r)
  <2>1. Una(r) = Una(k) /\ Rcv(k) <= Rcv(r)
    BY <1>15, <1>16, Zenon DEF Una, Onward
  <2>2. Una(k) \in Nat
    BY BlockFacts
  <2> QED
    BY <2>1, <2>2
<1>22. sent' = [sent EXCEPT ![e] = M]
  <2> DEFINE T == Seq(Seq(Fragment))
  <2>1. sent \in [End -> T]
    BY <1>1 DEF Types
  <2> HIDE DEF T
  <2> QED
    BY <1>4, <1>11, <2>1
<1>23. kcp' = [kcp EXCEPT ![e] = r] /\ got' = [got EXCEPT ![e] = H2]
  BY <1>11, <1>16, <1>18, Zenon
<1>24. \A d \in net' : d.to \in End /\ d.segs \in Seq(Seg) /\ Len(d.segs) \in 1 .. MTU
  BY <1>1, <1>11, Zenon DEF Types
<1>25. Dir(r, kcp[o], M, got[o], net', o, f, b)
  BY <1>3, <1>5, <1>8, <1>11, <1>20, Zenon
<1>26. Dir(kcp[o], r, sent[o], H2, net', e, F[o], B[o])
  BY <1>3, <1>4, <1>6, <1>7, <1>8, <1>11, <1>19, Zenon
<1>27. Una(kcp[e]) <= Una(r) /\ Rcv(kcp[e]) <= Rcv(r)
  BY <1>3, <1>21, Zenon
<1>28. IInv' /\ Advanced
  BY <1>1, <1>2, <1>22, <1>23, <1>24, <1>25, <1>26, <1>27, OneChanged, Zenon
<1>29. Size(got[e]) < Size(sent[Peer(e)])
  <2>1. \A u, v \in Nat : u + 1 <= v => u < v
    OBVIOUS
  <2> QED
    BY <1>2, <1>4, <1>5, <1>14, <2>1, Zenon
<1>30. got' = [got EXCEPT ![e] = Append(got[e], sent[Peer(e)][Size(got[e]) + 1])]
  BY <1>2, <1>4, <1>5, <1>11, <1>14, Zenon
<1> QED
  BY <1>28, <1>29, <1>30

\* Flushing keeps the invariant, whatever was late and whatever gets lost.
LEMMA FlushStep ==
  ASSUME NEW F \in [End -> Seq(Fragment)], NEW B \in [End -> [Nat -> Nat]], Inv(F, B),
         NEW e \in End, ikcp_update(e)
  PROVE  IInv' /\ Advanced
<1>1. Types
  BY DEF Inv
<1>2. PICK o \in End : o = Peer(e) /\ Peer(o) = e /\ o # e
  BY InvFacts
<1>3. PICK k \in ControlBlock, p \in ControlBlock : k = kcp[e] /\ p = kcp[o]
  BY InvFacts
<1>4. PICK M \in Seq(Seq(Fragment)), Mo \in Seq(Seq(Fragment)) : M = sent[e] /\ Mo = sent[o] /\ Size(Mo) \in Nat
  BY InvFacts, Zenon
<1>5. PICK H \in Seq(Seq(Fragment)), Ho \in Seq(Seq(Fragment)) : H = got[e] /\ Ho = got[o] /\ Size(H) \in Nat
  <2>1. got[e] \in Seq(Seq(Fragment)) /\ Size(got[e]) \in Nat
    BY InvFacts, Zenon
  <2>2. got[o] \in Seq(Seq(Fragment))
    BY InvFacts, Zenon
  <2> QED
    BY <2>1, <2>2, Zenon
<1>6. PICK f \in Seq(Fragment), g \in Seq(Fragment) : f = F[e] /\ g = F[o] /\ Size(f) <= Total /\ Size(g) <= Total
  BY InvFacts
<1>7. PICK b \in [Nat -> Nat], c \in [Nat -> Nat] : b = B[e] /\ c = B[o]
  OBVIOUS
<1>8. PICK N : N = net
  OBVIOUS
<1>9. Dir(k, p, M, Ho, N, o, f, b)
  BY InvFacts, <1>2, <1>3, <1>4, <1>5, <1>6, <1>7, <1>8, Zenon
<1>10. Dir(p, k, Mo, H, N, e, g, c)
  <2>1. Dir(kcp[o], kcp[Peer(o)], sent[o], got[Peer(o)], net, Peer(o), F[o], B[o])
    BY InvFacts, Zenon
  <2> QED
    BY <2>1, <1>2, <1>3, <1>4, <1>5, <1>6, <1>7, <1>8, Zenon
<1>11. PICK late \in SUBSET Waiting(kcp[e]), due \in BOOLEAN : Flush(e, late, due, FALSE)
  BY Zenon DEF ikcp_update
<1> DEFINE out == ikcp_flush(k, late, due).out
           k1 == ikcp_flush(k, late, due).kcp
           datagrams == {[to |-> o, segs |-> segs] : segs \in Packed(out)}
<1>12. /\ kcp' = [kcp EXCEPT ![e] = k1] /\ sent' = sent /\ got' = got
       /\ \E arrives \in SUBSET datagrams : net' = net \cup arrives
  <2>1. kcp' = [kcp EXCEPT ![e] = k1] /\ sent' = sent /\ got' = got
    BY <1>3, <1>11, Zenon DEF Flush
  <2>2. \E arrives \in SUBSET {[to |-> Peer(e), segs |-> segs] : segs \in Packed(ikcp_flush(kcp[e], late, due).out)} :
          net' = net \cup arrives
    <3> DEFINE S == {[to |-> Peer(e), segs |-> segs] : segs \in Packed(ikcp_flush(kcp[e], late, due).out)}
    <3>1. \E arrives \in (IF FALSE THEN {S} ELSE SUBSET S) : net' = net \cup arrives
      BY <1>11, Zenon DEF Flush
    <3> HIDE DEF S
    <3>2. \E arrives \in SUBSET S : net' = net \cup arrives
      BY <3>1
    <3> QED
      BY <3>2, Zenon DEF S
  <2>3. datagrams = {[to |-> Peer(e), segs |-> segs] : segs \in Packed(ikcp_flush(kcp[e], late, due).out)}
    BY <1>2, <1>3
  <2> QED
    BY <2>1, <2>2, <2>3, Zenon
<1>13. PICK arrives \in SUBSET datagrams : net' = net \cup arrives
  BY <1>12, Zenon
<1>14. Sends(k, p, f) /\ Sends(p, k, g) /\ GotOK(H, Mo, c, Taken(k))
  BY <1>9, <1>10 DEF Dir
<1> HIDE DEF k1, out
<1>15. /\ k1 \in ControlBlock /\ Sends(k1, p, f) /\ Sends(p, k1, g)
       /\ Nxt(k) <= Nxt(k1) /\ k1.snd_una = k.snd_una /\ SameReceiver(k, k1)
       /\ out \in Seq({seg \in Seg : SegOK(seg, k1, f)})
  <2>1. Flushed(k, p, f, g, ikcp_flush(k, late, due))
    BY <1>6, <1>14, FlushOK, Zenon
  <2> QED
    BY <2>1 DEF Flushed, k1, out
<1>16. PICK r \in ControlBlock : r = k1
  BY <1>15, Zenon
<1>17. /\ Rcv(r) = Rcv(k) /\ Taken(r) = Taken(k) /\ Una(r) = Una(k) /\ Nxt(k) <= Nxt(r) /\ Onward(k, r)
  <2>1. Rcv(r) = Rcv(k) /\ Taken(r) = Taken(k) /\ Una(r) = Una(k) /\ \A sn : Arrived(r, sn) <=> Arrived(k, sn)
    BY <1>15, <1>16 DEF Rcv, Taken, Una, Arrived, SameReceiver
  <2>2. Rcv(k) \in Int /\ \A x \in Int : x <= x
    BY BlockFacts
  <2>3. Nxt(k) <= Nxt(r)
    BY <1>15, <1>16, Zenon
  <2>4. Onward(k, r)
    BY <2>1, <2>2, Zenon DEF Onward
  <2> QED
    BY <2>1, <2>3, <2>4
<1>18. ASSUME NEW d \in arrives
       PROVE  d.to = o /\ d.segs \in Seq(Seg) /\ Len(d.segs) \in 1 .. MTU
              /\ \A i \in 1 .. Len(d.segs) : SegOK(d.segs[i], r, f)
  <2> DEFINE T == {seg \in Seg : SegOK(seg, r, f)}
  <2>1. PICK segs \in Packed(out) : d = [to |-> o, segs |-> segs]
    BY <1>13
  <2>2. out \in Seq(T)
    BY <1>15, <1>16
  <2>3. \A s \in T : s \in Seg /\ SegOK(s, r, f)
    OBVIOUS
  <2> HIDE DEF T
  <2>4. segs \in Seq(T) /\ Len(segs) \in 1 .. MTU
    BY <2>2, PackedOK, Zenon
  <2>5. \A i \in 1 .. Len(segs) : segs[i] \in T
    BY <2>4, SMTT(30)
  <2>6. segs \in Seq(Seg)
    BY <2>3, <2>4
  <2> QED
    BY <2>1, <2>3, <2>4, <2>5, <2>6
<1>19. \A d \in net' : d \in N \/ d \in arrives
  BY <1>8, <1>13
<1>20. PICK N2 : N2 = net'
  OBVIOUS
<1>21. Dir(r, p, M, Ho, N2, o, f, b)
  <2>1. \A d \in N2 : d \in N \/ d.to # o \/ \A i \in 1 .. Len(d.segs) : SegOK(d.segs[i], r, f)
    BY <1>18, <1>19, <1>20, Zenon
  <2>2. Sends(r, p, f)
    BY <1>15, <1>16, Zenon
  <2> QED
    BY <1>9, <1>17, <2>1, <2>2, DirSender, Zenon
<1>22. Dir(p, r, Mo, H, N2, e, g, c)
  <2>1. \A d \in N2 : d.to = e => d \in N
    BY <1>2, <1>18, <1>19, <1>20, Zenon
  <2>2. Sends(p, r, g) /\ GotOK(H, Mo, c, Taken(r))
    BY <1>14, <1>15, <1>16, <1>17, Zenon
  <2> QED
    BY <1>10, <2>1, <2>2, DirReceiver, Zenon
<1>23. Una(k) <= Una(r) /\ Rcv(k) <= Rcv(r)
  <2>1. Una(k) \in Int /\ Rcv(k) \in Int /\ \A x \in Int : x <= x
    BY BlockFacts
  <2> QED
    BY <1>17, <2>1, Zenon
<1>24. sent' = [sent EXCEPT ![e] = M] /\ got' = [got EXCEPT ![e] = H]
  <2> DEFINE T == Seq(Seq(Fragment))
  <2>1. sent \in [End -> T] /\ got \in [End -> T]
    BY <1>1 DEF Types
  <2> HIDE DEF T
  <2> QED
    BY <1>4, <1>5, <1>12, <2>1
<1>25. kcp' = [kcp EXCEPT ![e] = r]
  BY <1>12, <1>16, Zenon
<1>26. \A d \in net' : d.to \in End /\ d.segs \in Seq(Seg) /\ Len(d.segs) \in 1 .. MTU
  BY <1>1, <1>8, <1>18, <1>19, Zenon DEF Types
<1>27. Dir(r, kcp[o], M, got[o], net', o, f, b)
  BY <1>3, <1>5, <1>20, <1>21, Zenon
<1>28. Dir(kcp[o], r, sent[o], H, net', e, F[o], B[o])
  BY <1>3, <1>4, <1>6, <1>7, <1>20, <1>22, Zenon
<1>29. Una(kcp[e]) <= Una(r) /\ Rcv(kcp[e]) <= Rcv(r)
  BY <1>3, <1>23, Zenon
<1> QED
  BY <1>1, <1>2, <1>24, <1>25, <1>26, <1>27, <1>28, <1>29, OneChanged, Zenon

\* A datagram that arrives, now or once more later, keeps the invariant.
LEMMA InputStep ==
  ASSUME NEW F \in [End -> Seq(Fragment)], NEW B \in [End -> [Nat -> Nat]], Inv(F, B),
         NEW d \in net, NEW left \in SUBSET net, Input(d, left)
  PROVE  IInv' /\ Advanced
<1>0. PICK e \in End : e = d.to
  BY DEF Inv, Types
<1>1. Types
  BY DEF Inv
<1>2. PICK o \in End : o = Peer(e) /\ Peer(o) = e /\ o # e
  BY InvFacts
<1>3. PICK k \in ControlBlock, p \in ControlBlock : k = kcp[e] /\ p = kcp[o]
  BY InvFacts
<1>4. PICK M \in Seq(Seq(Fragment)), Mo \in Seq(Seq(Fragment)) : M = sent[e] /\ Mo = sent[o] /\ Size(Mo) \in Nat
  BY InvFacts, Zenon
<1>5. PICK H \in Seq(Seq(Fragment)), Ho \in Seq(Seq(Fragment)) : H = got[e] /\ Ho = got[o] /\ Size(H) \in Nat
  <2>1. got[e] \in Seq(Seq(Fragment)) /\ Size(got[e]) \in Nat
    BY InvFacts, Zenon
  <2>2. got[o] \in Seq(Seq(Fragment))
    BY InvFacts, Zenon
  <2> QED
    BY <2>1, <2>2, Zenon
<1>6. PICK f \in Seq(Fragment), g \in Seq(Fragment) : f = F[e] /\ g = F[o] /\ Size(f) <= Total /\ Size(g) <= Total
  BY InvFacts
<1>7. PICK b \in [Nat -> Nat], c \in [Nat -> Nat] : b = B[e] /\ c = B[o]
  OBVIOUS
<1>8. PICK N : N = net
  OBVIOUS
<1>9. Dir(k, p, M, Ho, N, o, f, b)
  BY InvFacts, <1>2, <1>3, <1>4, <1>5, <1>6, <1>7, <1>8, Zenon
<1>10. Dir(p, k, Mo, H, N, e, g, c)
  <2>1. Dir(kcp[o], kcp[Peer(o)], sent[o], got[Peer(o)], net, Peer(o), F[o], B[o])
    BY InvFacts, Zenon
  <2> QED
    BY <2>1, <1>2, <1>3, <1>4, <1>5, <1>6, <1>7, <1>8, Zenon
<1>11. /\ sent' = sent /\ got' = got /\ net' = left
       /\ \E r \in ikcp_input(k, d.segs) : kcp' = [kcp EXCEPT ![e] = r]
  BY <1>0, <1>3, Zenon DEF Input
<1>12. PICK r \in ikcp_input(k, d.segs) : kcp' = [kcp EXCEPT ![e] = r]
  BY <1>11, Zenon
<1>13. Sends(k, p, f) /\ Sends(p, k, g) /\ GotOK(H, Mo, c, Taken(k))
  BY <1>9, <1>10 DEF Dir
<1>14. PICK segs \in Seq(Seg) : segs = d.segs
  BY <1>1 DEF Types
<1>15. \A i \in 1 .. Len(segs) : SegOK(segs[i], p, g)
  BY <1>0, <1>8, <1>10, <1>14, Zenon DEF Dir
<1>16. Goes(k, r, p, f, g)
  BY <1>6, <1>13, <1>14, <1>15, InputOK, Zenon
<1>17. /\ r \in ControlBlock /\ Sends(r, p, f) /\ Sends(p, r, g) /\ Una(k) <= Una(r) /\ Taken(r) = Taken(k)
       /\ Onward(k, r) /\ Rcv(k) <= Rcv(r) /\ r.snd_nxt = k.snd_nxt
  BY <1>16, Zenon DEF Goes, Onwards, Onward
<1>18. Nxt(k) <= Nxt(r)
  <2>1. Nxt(k) = Nxt(r)
    BY <1>17, Zenon DEF Nxt
  <2>2. Nxt(k) \in Int /\ \A x \in Int : x <= x
    BY BlockFacts
  <2> QED
    BY <2>1, <2>2, Zenon
<1>19. PICK N2 : N2 = net' /\ \A x \in N2 : x \in N
  BY <1>8, <1>11
<1>20. Dir(r, p, M, Ho, N2, o, f, b)
  <2>1. \A x \in N2 : x \in N \/ x.to # o \/ \A i \in 1 .. Len(x.segs) : SegOK(x.segs[i], r, f)
    BY <1>19, Zenon
  <2> QED
    BY <1>9, <1>17, <1>18, <2>1, DirSender, ZenonT(30)
<1>21. Dir(p, r, Mo, H, N2, e, g, c)
  <2>1. GotOK(H, Mo, c, Taken(r)) /\ \A x \in N2 : x.to = e => x \in N
    BY <1>13, <1>17, <1>19, Zenon
  <2> QED
    BY <1>10, <1>17, <2>1, DirReceiver, Zenon
<1>22. sent' = [sent EXCEPT ![e] = M] /\ got' = [got EXCEPT ![e] = H]
  <2> DEFINE T == Seq(Seq(Fragment))
  <2>1. sent \in [End -> T] /\ got \in [End -> T]
    BY <1>1 DEF Types
  <2> HIDE DEF T
  <2> QED
    BY <1>4, <1>5, <1>11, <2>1
<1>23. \A x \in net' : x.to \in End /\ x.segs \in Seq(Seg) /\ Len(x.segs) \in 1 .. MTU
  BY <1>1, <1>8, <1>19, Zenon DEF Types
<1>24. Dir(r, kcp[o], M, got[o], net', o, f, b)
  BY <1>3, <1>5, <1>19, <1>20, Zenon
<1>25. Dir(kcp[o], r, sent[o], H, net', e, F[o], B[o])
  BY <1>3, <1>4, <1>6, <1>7, <1>19, <1>21, Zenon
<1>26. Una(kcp[e]) <= Una(r) /\ Rcv(kcp[e]) <= Rcv(r)
  BY <1>3, <1>17, Zenon
<1> QED
  BY <1>1, <1>2, <1>12, <1>17, <1>22, <1>23, <1>24, <1>25, <1>26, OneChanged, Zenon
--------------------------------------------------------------------------------
(***************************************************************************)
(* The theorems.                                                           *)
(***************************************************************************)

\* The invariant is inductive, and no step takes anything back.
LEMMA StepOK ==
  ASSUME IInv, [Next]_vars
  PROVE  IInv' /\ Advanced
<1>1. PICK F \in [End -> Seq(Fragment)], B \in [End -> [Nat -> Nat]] : Inv(F, B)
  BY DEF IInv
<1>2. ASSUME NEW e \in End, NEW n \in 1 .. MaxFrag, ikcp_send(e, n)
      PROVE  IInv' /\ Advanced
  BY <1>1, <1>2, SendStep
<1>3. ASSUME NEW e \in End, ikcp_update(e)
      PROVE  IInv' /\ Advanced
  BY <1>1, <1>3, FlushStep
<1>4. ASSUME NEW e \in End, Recv(e)
      PROVE  IInv' /\ Advanced
  BY <1>1, <1>4, RecvStep
<1>5. ASSUME NEW d \in net, Input(d, net) \/ Input(d, net \ {d})
      PROVE  IInv' /\ Advanced
  <2>1. net \in SUBSET net /\ net \ {d} \in SUBSET net
    OBVIOUS
  <2>2. CASE Input(d, net)
    BY <1>1, <2>1, <2>2, InputStep
  <2>3. CASE Input(d, net \ {d})
    BY <1>1, <2>1, <2>3, InputStep
  <2> QED
    BY <1>5, <2>2, <2>3
<1>6. ASSUME UNCHANGED vars
      PROVE  IInv' /\ Advanced
  <2>1. kcp' = kcp /\ net' = net /\ sent' = sent /\ got' = got
    BY <1>6 DEF vars
  <2>2. Types'
    BY <1>1, <2>1 DEF Inv, Types
  <2>3. ASSUME NEW e \in End
        PROVE  Direction(e, F[e], B[e])'
    BY <1>1, <2>1, Zenon DEF Inv, Direction
  <2>4. IInv'
    BY <2>2, <2>3, Zenon DEF IInv, Inv
  <2>5. Advanced
    <3> SUFFICES ASSUME NEW e \in End
                 PROVE  Una(kcp[e]) <= Una(kcp'[e]) /\ Rcv(kcp[e]) <= Rcv(kcp'[e])
      BY DEF Advanced
    <3>1. PICK k \in ControlBlock : k = kcp[e] /\ k = kcp'[e]
      BY <1>1, <2>1 DEF Inv, Types
    <3>2. Una(k) \in Int /\ Rcv(k) \in Int /\ \A x \in Int : x <= x
      BY BlockFacts
    <3> QED
      BY <3>1, <3>2, Zenon
  <2> QED
    BY <2>4, <2>5
<1>7. CASE Next
  BY <1>2, <1>3, <1>4, <1>5, <1>7, Zenon DEF Next
<1> QED
  BY <1>6, <1>7

\* What there is at every moment: the strengthened invariant.
THEOREM Inductive == Spec => []IInv
<1>1. Init => IInv
  BY InitIInv
<1>2. IInv /\ [Next]_vars => IInv'
  BY StepOK
<1> QED
  BY <1>1, <1>2, PTL DEF Spec

\* Control blocks, datagrams and messages keep their types.
THEOREM TypesKept == Spec => []TypeOK
<1>1. IInv => TypeOK
  BY DEF IInv, Inv, Types, TypeOK
<1> QED
  BY <1>1, Inductive, PTL

\* The windows of one endpoint.
LEMMA Windows ==
  ASSUME NEW k \in ControlBlock, NEW p \in ControlBlock, NEW F \in Seq(Fragment), NEW G \in Seq(Fragment),
         Size(F) <= Total, Size(G) <= Total, Sends(k, p, F), Sends(p, k, G)
  PROVE  /\ Len(k.rcv_queue) <= rcv_wnd
         /\ \A s \in k.rcv_buf : _itimediff(s.sn, k.rcv_nxt) \in 0 .. rcv_wnd - 1
         /\ _itimediff(k.snd_nxt, k.snd_una) \in 0 .. snd_wnd
         /\ \A s \in k.snd_buf : _itimediff(s.sn, k.snd_una) \in 0 .. snd_wnd - 1
<1>0. rcv_wnd \in Nat /\ snd_wnd \in Nat /\ Total \in Nat
  BY ConstantFacts
<1>1. SendOK(k, F) /\ SendOK(p, G) /\ RecvOK(k, Nxt(p), G)
  BY DEF Sends
<1>2. /\ k.snd_nxt \in Sn /\ k.snd_una \in Sn /\ k.rcv_nxt \in Sn
      /\ \A s \in k.rcv_buf : s.sn \in Sn /\ Abs(s.sn) \in Nat
      /\ Rcv(k) \in Nat
  BY BlockFacts
<1>3. /\ Una(k) \in Nat /\ Nxt(k) \in Nat /\ Una(k) <= Nxt(k) /\ Nxt(k) <= Total
      /\ \A s \in k.snd_buf : s.sn \in Sn /\ Abs(s.sn) \in Nat /\ Abs(s.sn) <= Total
  BY <1>1, SendRange
<1>4. Nxt(p) \in Nat /\ Nxt(p) <= Total
  BY <1>1, SendRange
<1>5. Len(k.rcv_queue) <= rcv_wnd
  BY <1>1 DEF RecvOK, Size
<1>6. ASSUME NEW s \in k.rcv_buf
      PROVE  _itimediff(s.sn, k.rcv_nxt) \in 0 .. rcv_wnd - 1
  <2>1. Rcv(k) <= Nxt(p) /\ Rcv(k) <= Abs(s.sn) /\ Abs(s.sn) < Rcv(k) + rcv_wnd /\ Abs(s.sn) < Nxt(p)
    BY <1>1 DEF RecvOK
  <2>2. Abs(k.rcv_nxt) = Rcv(k)
    BY DEF Rcv
  <2>3. Abs(s.sn) <= Total /\ Abs(k.rcv_nxt) <= Total
    <3>1. \A a, b, c, d \in Nat : a < b /\ c <= b /\ b <= d => a <= d /\ c <= d
      OBVIOUS
    <3> QED
      BY <1>0, <1>2, <1>4, <2>1, <2>2, <3>1, Zenon
  <2>4. _itimediff(s.sn, k.rcv_nxt) = Abs(s.sn) - Rcv(k)
    BY <1>2, <2>2, <2>3, DiffTotal
  <2>5. \A a, b, w \in Nat : b <= a /\ a < b + w => a - b \in 0 .. w - 1
    OBVIOUS
  <2> QED
    BY <1>0, <1>2, <2>1, <2>4, <2>5, Zenon
<1>7. Abs(k.snd_una) = Una(k) /\ Abs(k.snd_nxt) = Nxt(k) /\ Nxt(k) <= Una(k) + snd_wnd
  BY <1>1 DEF Una, Nxt, SendOK
<1>8. Una(k) <= Total
  BY <1>0, <1>3
<1>9. _itimediff(k.snd_nxt, k.snd_una) \in 0 .. snd_wnd
  <2>1. _itimediff(k.snd_nxt, k.snd_una) = Nxt(k) - Una(k)
    BY <1>2, <1>3, <1>7, <1>8, DiffTotal
  <2>2. \A a, b, w \in Nat : b <= a /\ a <= b + w => a - b \in 0 .. w
    OBVIOUS
  <2> QED
    BY <1>0, <1>3, <1>7, <2>1, <2>2, Zenon
<1>10. ASSUME NEW s \in k.snd_buf
       PROVE  _itimediff(s.sn, k.snd_una) \in 0 .. snd_wnd - 1
  <2>1. Una(k) <= Abs(s.sn) /\ Abs(s.sn) < Nxt(k)
    BY <1>1 DEF SendOK
  <2>2. _itimediff(s.sn, k.snd_una) = Abs(s.sn) - Una(k)
    BY <1>2, <1>3, <1>7, <1>8, DiffTotal
  <2>3. \A a, b, c, w \in Nat : b <= a /\ a < c /\ c <= b + w => a - b \in 0 .. w - 1
    OBVIOUS
  <2> QED
    BY <1>0, <1>3, <1>7, <2>1, <2>2, <2>3, ZenonT(30)
<1> QED
  BY <1>5, <1>6, <1>9, <1>10

\* What the invariant says of an endpoint as a sender and as a receiver.
LEMMA Pairs ==
  ASSUME IInv, NEW e \in End
  PROVE  \E k \in ControlBlock, p \in ControlBlock, f \in Seq(Fragment), g \in Seq(Fragment) :
           /\ k = kcp[e] /\ p = kcp[Peer(e)] /\ Size(f) <= Total /\ Size(g) <= Total
           /\ Sends(k, p, f) /\ Sends(p, k, g)
<1>1. PICK F \in [End -> Seq(Fragment)], B \in [End -> [Nat -> Nat]] : Inv(F, B)
  BY DEF IInv
<1>2. PICK o \in End : o = Peer(e) /\ Peer(o) = e
  BY <1>1, InvFacts
<1>3. PICK k \in ControlBlock, p \in ControlBlock : k = kcp[e] /\ p = kcp[o]
  BY <1>1, InvFacts
<1>4. PICK f \in Seq(Fragment), g \in Seq(Fragment) : f = F[e] /\ g = F[o] /\ Size(f) <= Total /\ Size(g) <= Total
  BY <1>1, InvFacts
<1>5. Sends(k, p, f)
  BY <1>1, <1>2, <1>3, <1>4, InvFacts, Zenon
<1>6. Sends(p, k, g)
  <2>1. Sends(kcp[o], kcp[Peer(o)], F[o])
    BY <1>1, InvFacts, Zenon
  <2> QED
    BY <1>2, <1>3, <1>4, <2>1, Zenon
<1> QED
  BY <1>2, <1>3, <1>4, <1>5, <1>6, Zenon

\* Neither side keeps more than its windows allow.
THEOREM WindowsKept == Spec => []WindowsRespected
<1>1. ASSUME IInv
      PROVE  WindowsRespected
  <2>1. ASSUME NEW e \in End
        PROVE  /\ Len(kcp[e].rcv_queue) <= rcv_wnd
               /\ \A s \in kcp[e].rcv_buf : _itimediff(s.sn, kcp[e].rcv_nxt) \in 0 .. rcv_wnd - 1
               /\ _itimediff(kcp[e].snd_nxt, kcp[e].snd_una) \in 0 .. snd_wnd
               /\ \A s \in kcp[e].snd_buf : _itimediff(s.sn, kcp[e].snd_una) \in 0 .. snd_wnd - 1
    <3>1. PICK k \in ControlBlock, p \in ControlBlock, f \in Seq(Fragment), g \in Seq(Fragment) :
                 /\ k = kcp[e] /\ p = kcp[Peer(e)] /\ Size(f) <= Total /\ Size(g) <= Total
                 /\ Sends(k, p, f) /\ Sends(p, k, g)
      BY <1>1, Pairs, Zenon
    <3> QED
      BY <3>1, Windows
  <2> QED
    BY <2>1, Zenon DEF WindowsRespected
<1> QED
  BY <1>1, Inductive, PTL

\* What k has sent and the queue of p does not have yet.
LEMMA Open ==
  ASSUME NEW k \in ControlBlock, NEW p \in ControlBlock, NEW F \in Seq(Fragment),
         Size(F) <= Total, Sends(k, p, F)
  PROVE  LET open == _itimediff(k.snd_nxt, p.rcv_nxt) IN
           /\ open >= 0
           /\ \A i \in 0 .. open - 1 : Plus(p.rcv_nxt, i) \in Sns(k.snd_buf) \cup Sns(p.rcv_buf)
           /\ \A s \in k.snd_buf, r \in p.rcv_buf : s.sn = r.sn => s.data = r.data
<1> DEFINE open == _itimediff(k.snd_nxt, p.rcv_nxt)
<1>1. SendOK(k, F) /\ RecvOK(p, Nxt(k), F) /\ Kept(k, p)
  BY DEF Sends
<1>2. /\ k.snd_nxt \in Sn /\ p.rcv_nxt \in Sn /\ Rcv(p) \in Nat /\ Abs(p.rcv_nxt) = Rcv(p) /\ Abs(k.snd_nxt) = Nxt(k)
  BY BlockFacts DEF Rcv, Nxt
<1>3. Nxt(k) \in Nat /\ Nxt(k) <= Total
  BY <1>1, SendRange
<1>4. Rcv(p) <= Nxt(k) /\ Rcv(p) <= Total /\ Total \in Nat
  <2>1. Rcv(p) <= Nxt(k) /\ Total \in Nat
    BY <1>1, ConstantFacts DEF RecvOK
  <2>2. \A a, b, c \in Nat : a <= b /\ b <= c => a <= c
    OBVIOUS
  <2> QED
    BY <1>2, <1>3, <2>1, <2>2, Zenon
<1>5. open = Nxt(k) - Rcv(p)
  BY <1>2, <1>3, <1>4, DiffTotal
<1>6. open \in Nat /\ Rcv(p) + open = Nxt(k)
  <2>1. \A a, b \in Nat : b <= a => a - b \in Nat /\ b + (a - b) = a
    OBVIOUS
  <2> QED
    BY <1>2, <1>3, <1>4, <1>5, <2>1, Zenon
<1> HIDE DEF open
<1>7. ASSUME NEW i \in 0 .. open - 1
      PROVE  Plus(p.rcv_nxt, i) \in Sns(k.snd_buf) \cup Sns(p.rcv_buf)
  <2>1. i \in Nat /\ i < open
    BY <1>6
  <2>2. \A a, b, c \in Nat : c < b => a <= a + c /\ a + c < a + b
    OBVIOUS
  <2>3. Rcv(p) <= Rcv(p) + i /\ Rcv(p) + i < Nxt(k)
    BY <1>2, <1>6, <2>1, <2>2, Zenon
  <2>4. Nxt(k) < SnSpace
    BY <1>3, <1>4, ConstantFacts, SpaceFacts
  <2>5. Rcv(p) + i < SnSpace
    BY <1>2, <1>3, <2>1, <2>3, <2>4, SpaceFacts
  <2>6. Plus(p.rcv_nxt, i) \in Sn /\ Abs(Plus(p.rcv_nxt, i)) = Rcv(p) + i
    BY <1>2, <2>1, <2>5, AbsPlus
  <2> QED
    BY <1>1, <2>3, <2>6, Zenon DEF Kept
<1>8. \A s \in k.snd_buf, r \in p.rcv_buf : s.sn = r.sn => s.data = r.data
  BY <1>1, Zenon DEF SendOK, RecvOK
<1>9. open >= 0
  BY <1>6
<1> QED
  BY <1>7, <1>8, <1>9 DEF open

\* Whatever acknowledgements are lost, doubled, late or out of order: what the
\* peer does not have yet is still kept, and both keep the same data.
THEOREM NothingIsLost == Spec => []NothingLost
<1>1. ASSUME IInv
      PROVE  NothingLost
  <2>1. ASSUME NEW e \in End
        PROVE  LET k == kcp[e]  p == kcp[Peer(e)]  open == _itimediff(k.snd_nxt, p.rcv_nxt) IN
                 /\ open >= 0
                 /\ \A i \in 0 .. open - 1 : Plus(p.rcv_nxt, i) \in Sns(k.snd_buf) \cup Sns(p.rcv_buf)
                 /\ \A s \in k.snd_buf, r \in p.rcv_buf : s.sn = r.sn => s.data = r.data
    <3>1. PICK k \in ControlBlock, p \in ControlBlock, f \in Seq(Fragment), g \in Seq(Fragment) :
                 /\ k = kcp[e] /\ p = kcp[Peer(e)] /\ Size(f) <= Total /\ Size(g) <= Total
                 /\ Sends(k, p, f) /\ Sends(p, k, g)
      BY <1>1, Pairs, Zenon
    <3> QED
      BY <3>1, Open
  <2> QED
    BY <2>1 DEF NothingLost
<1> QED
  BY <1>1, Inductive, PTL

\* A full queue begins with a whole message.
THEOREM WholeMessages == Spec => []WholeMessageFits
<1>1. ASSUME IInv
      PROVE  WholeMessageFits
  <2>1. PICK F \in [End -> Seq(Fragment)], B \in [End -> [Nat -> Nat]] : Inv(F, B)
    BY <1>1 DEF IInv
  <2>2. ASSUME NEW o \in End, Size(kcp[Peer(o)].rcv_queue) >= rcv_wnd
        PROVE  HeadSegments(kcp[Peer(o)].rcv_queue) > 0
    <3>1. PICK e \in End : e = Peer(o)
      BY <2>1, InvFacts
    <3>2. PICK k \in ControlBlock, p \in ControlBlock : k = kcp[e] /\ p = kcp[o]
      BY <2>1, InvFacts
    <3>3. PICK g \in Seq(Fragment), c \in [Nat -> Nat] : g = F[o] /\ c = B[o] /\ Size(g) <= Total
      BY <2>1, InvFacts
    <3>4. PICK Mo, H : /\ Mo = sent[o] /\ H = got[e] /\ Size(Mo) \in Nat /\ Size(H) \in Nat
      <4>1. Size(sent[o]) \in Nat
        BY <2>1, InvFacts, Zenon
      <4>2. Size(got[e]) \in Nat
        BY <2>1, InvFacts, Zenon
      <4> QED
        BY <4>1, <4>2
    <3>5. PICK N : N = net
      OBVIOUS
    <3>6. Dir(p, k, Mo, H, N, e, g, c)
      <4>1. Dir(kcp[o], kcp[Peer(o)], sent[o], got[Peer(o)], net, Peer(o), F[o], B[o])
        BY <2>1, InvFacts, Zenon
      <4> QED
        BY <3>1, <3>2, <3>3, <3>4, <3>5, <4>1, Zenon
    <3>7. SendOK(p, g) /\ RecvOK(k, Nxt(p), g) /\ StreamOK(Mo, g, c) /\ GotOK(H, Mo, c, Taken(k))
      BY <3>6 DEF Dir, Sends
    <3>8. Nxt(p) \in Nat /\ Nxt(p) <= Size(g)
      BY <3>3, <3>7, SendRange
    <3>9. /\ HeadSegments(k.rcv_queue) \in 0 .. Size(k.rcv_queue)
          /\ HeadSegments(k.rcv_queue) = 0 => Size(k.rcv_queue) < IKCP_WND_RCV
      BY <3>4, <3>7, <3>8, HeadOK, Zenon
    <3>10. Size(k.rcv_queue) \in Nat /\ Size(k.rcv_queue) >= rcv_wnd
      BY <2>2, <3>1, <3>2, BlockFacts
    <3>11. HeadSegments(k.rcv_queue) > 0
      <4>1. \A h, q, w, r \in Nat : (h = 0 => q < w) /\ w <= r /\ q >= r => h > 0
        OBVIOUS
      <4>2. \A q \in Nat : \A h \in 0 .. q : h \in Nat
        OBVIOUS
      <4>3. rcv_wnd \in Nat /\ IKCP_WND_RCV \in Nat /\ IKCP_WND_RCV <= rcv_wnd
        BY ConstantFacts
      <4> QED
        BY <3>9, <3>10, <4>1, <4>2, <4>3, Zenon
    <3> QED
      BY <3>1, <3>2, <3>11, Zenon
  <2>3. \A e \in End : Peer(e) \in End /\ Peer(Peer(e)) = e
    BY DEF End, Peer
  <2> QED
    BY <2>2, <2>3, Zenon DEF WholeMessageFits, Size
<1> QED
  BY <1>1, Inductive, PTL

\* No number gets beyond the end of the streams.
Bounded == \A e \in End : /\ kcp[e] \in ControlBlock
                          /\ Abs(kcp[e].snd_una) <= Total /\ Abs(kcp[e].rcv_nxt) <= Total

\* Nothing is acknowledged or received beyond the end of a stream.
LEMMA NumbersBounded == Spec => []Bounded
<1>1. ASSUME IInv
      PROVE  Bounded
  <2>1. ASSUME NEW e \in End
        PROVE  kcp[e] \in ControlBlock /\ Abs(kcp[e].snd_una) <= Total /\ Abs(kcp[e].rcv_nxt) <= Total
    <3>1. PICK k \in ControlBlock, p \in ControlBlock, f \in Seq(Fragment), g \in Seq(Fragment) :
                 /\ k = kcp[e] /\ p = kcp[Peer(e)] /\ Size(f) <= Total /\ Size(g) <= Total
                 /\ Sends(k, p, f) /\ Sends(p, k, g)
      BY <1>1, Pairs, Zenon
    <3>2. SendOK(k, f) /\ SendOK(p, g) /\ RecvOK(k, Nxt(p), g)
      BY <3>1 DEF Sends
    <3>3. Una(k) \in Nat /\ Nxt(k) \in Nat /\ Una(k) <= Nxt(k) /\ Nxt(k) <= Total
      BY <3>1, <3>2, SendRange
    <3>4. Nxt(p) \in Nat /\ Nxt(p) <= Total
      BY <3>1, <3>2, SendRange
    <3>5. Rcv(k) \in Nat /\ Rcv(k) <= Nxt(p) /\ Total \in Nat
      BY <3>2, BlockFacts, ConstantFacts DEF RecvOK
    <3>6. \A a, b, c \in Nat : a <= b /\ b <= c => a <= c
      OBVIOUS
    <3>7. Una(k) <= Total /\ Rcv(k) <= Total
      BY <3>3, <3>4, <3>5, <3>6, Zenon
    <3> QED
      BY <3>1, <3>7, Zenon DEF Una, Rcv
  <2> QED
    BY <2>1, Zenon DEF Bounded
<1> QED
  BY <1>1, Inductive, PTL

\* A datagram that comes late moves neither snd_una nor rcv_nxt backwards.
THEOREM NoneTakenBack == Spec => NeverTakenBack
<1>1. ASSUME IInv, [Next]_vars, Bounded, Bounded'
      PROVE  \A e \in End : /\ _itimediff(kcp'[e].snd_una, kcp[e].snd_una) >= 0
                            /\ _itimediff(kcp'[e].rcv_nxt, kcp[e].rcv_nxt) >= 0
  <2> SUFFICES ASSUME NEW e \in End
               PROVE  /\ _itimediff(kcp'[e].snd_una, kcp[e].snd_una) >= 0
                      /\ _itimediff(kcp'[e].rcv_nxt, kcp[e].rcv_nxt) >= 0
    OBVIOUS
  <2>1. PICK k \in ControlBlock, r \in ControlBlock :
               /\ k = kcp[e] /\ r = kcp'[e] /\ Abs(k.snd_una) <= Total /\ Abs(k.rcv_nxt) <= Total
               /\ Abs(r.snd_una) <= Total /\ Abs(r.rcv_nxt) <= Total
    BY <1>1 DEF Bounded
  <2>2. Una(k) <= Una(r) /\ Rcv(k) <= Rcv(r)
    BY <1>1, <2>1, StepOK, Zenon DEF Advanced
  <2>3. Abs(k.snd_una) <= Abs(r.snd_una) /\ Abs(k.rcv_nxt) <= Abs(r.rcv_nxt)
    BY <2>2, Zenon DEF Una, Rcv
  <2>4. k.snd_una \in Sn /\ k.rcv_nxt \in Sn /\ r.snd_una \in Sn /\ r.rcv_nxt \in Sn
    BY BlockFacts
  <2>5. \A a, b \in Nat : a <= b => b - a >= 0
    OBVIOUS
  <2>6. _itimediff(r.snd_una, k.snd_una) >= 0
    BY <2>1, <2>3, <2>4, <2>5, DiffTotal, ZenonT(30)
  <2>7. _itimediff(r.rcv_nxt, k.rcv_nxt) >= 0
    BY <2>1, <2>3, <2>4, <2>5, DiffTotal, Zenon
  <2> QED
    BY <2>1, <2>6, <2>7, Zenon
<1> DEFINE A == \A e \in End : /\ _itimediff(kcp'[e].snd_una, kcp[e].snd_una) >= 0
                               /\ _itimediff(kcp'[e].rcv_nxt, kcp[e].rcv_nxt) >= 0
<1>2. IInv /\ [Next]_vars /\ Bounded /\ Bounded' => [A]_vars
  BY <1>1
<1> HIDE DEF A
<1>3. Spec => [][A]_vars
  BY <1>2, Inductive, NumbersBounded, PTL DEF Spec
<1> QED
  BY <1>3 DEF A, NeverTakenBack

\* Messages arrive whole, once and in order.
THEOREM StreamImplemented == Spec => ImplementsMessageStream
<1>1. Init => Stream!Init
  BY DEF Init, Stream!Init
<1>2. ASSUME IInv, [Next]_vars
      PROVE  [Stream!Next]_(Stream!vars)
  <2>1. PICK F \in [End -> Seq(Fragment)], B \in [End -> [Nat -> Nat]] : Inv(F, B)
    BY <1>2 DEF IInv
  <2>2. ASSUME NEW e \in End, NEW n \in 1 .. MaxFrag, ikcp_send(e, n)
        PROVE  Stream!Next
    <3>1. /\ Size(sent[e]) < MaxMsg /\ got' = got
          /\ sent' = [sent EXCEPT ![e] = Append(sent[e], Fragments(Size(sent[e]) + 1, n))]
      BY <2>2, Zenon DEF ikcp_send, Size
    <3>2. PICK L \in Nat : L = Size(sent[e])
      BY <2>1, InvFacts
    <3>3. L + 1 \in 1 .. MaxMsg
      <4>1. \A a, b \in Nat : a < b => a + 1 \in 1 .. b
        OBVIOUS
      <4>2. L < MaxMsg /\ MaxMsg \in Nat
        BY <3>1, <3>2, ConstantFacts, Zenon
      <4> QED
        BY <4>1, <4>2, Zenon
    <3>4. Fragments(L + 1, n) \in Message
      BY <3>3 DEF Message
    <3>5. Stream!Send(e, Fragments(L + 1, n))
      BY <3>1, <3>2, Zenon DEF Stream!Send
    <3> QED
      BY <3>4, <3>5, Zenon DEF Stream!Next
  <2>3. ASSUME NEW e \in End, Recv(e)
        PROVE  Stream!Next
    <3>1. /\ Size(got[e]) < Size(sent[Peer(e)])
          /\ got' = [got EXCEPT ![e] = Append(got[e], sent[Peer(e)][Size(got[e]) + 1])]
      BY <2>1, <2>3, RecvStep, Zenon
    <3>2. sent' = sent
      BY <2>3, Zenon DEF Recv
    <3>3. Stream!Receive(e)
      BY <3>1, <3>2, Zenon DEF Stream!Receive, Size
    <3> QED
      BY <3>3, Zenon DEF Stream!Next
  <2>4. ASSUME NEW e \in End, ikcp_update(e)
        PROVE  UNCHANGED Stream!vars
    BY <2>4, Zenon DEF ikcp_update, Flush, Stream!vars
  <2>5. ASSUME NEW d \in net, Input(d, net) \/ Input(d, net \ {d})
        PROVE  UNCHANGED Stream!vars
    BY <2>5, Zenon DEF Input, Stream!vars
  <2>6. ASSUME UNCHANGED vars
        PROVE  UNCHANGED Stream!vars
    BY <2>6 DEF vars, Stream!vars
  <2> QED
    BY <1>2, <2>2, <2>3, <2>4, <2>5, <2>6, Zenon DEF Next
<1> QED
  BY <1>1, <1>2, Inductive, PTL DEF Spec, ImplementsMessageStream, Stream!Spec
================================================================================
