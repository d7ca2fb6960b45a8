---------------------------- MODULE TcpP2pProofs ----------------------------
(***************************************************************************)
(* Theorems about TcpP2p, for every amount of text that is typed and every *)
(* size of the kernel's buffers.                                           *)
(***************************************************************************)
EXTENDS TcpP2p, SequenceTheorems, TLAPS

(***************************************************************************)
(* What is typed at a peer is on its way to the other in three parts: what *)
(* was printed, what the kernel has, and the rest.                         *)
(***************************************************************************)
Upto(n) == [i \in 1 .. n |-> i]
Carries(a, b, c, n) == (a \o b) \o c = Upto(n)
Newer(n, m) == [i \in 1 .. m - n |-> n + i]
\* The outbufs of pieces in S.
Buffers(S) == {b \in [data : Seq(S), off : Nat] : b.off <= Len(b.data)}

\* What is not sent yet is a sequence of pieces.
LEMMA UnsentType ==
  ASSUME NEW S, NEW b \in Buffers(S)
  PROVE  Unsent(b) \in Seq(S)
BY DEF Buffers, Unsent

\* A buffer of nothing but data not yet sent.
LEMMA FreshBuffer ==
  ASSUME NEW S, NEW d \in Seq(S)
  PROVE  /\ [data |-> d, off |-> 0] \in Buffers(S)
         /\ Unsent([data |-> d, off |-> 0]) = d
BY DEF Buffers, Unsent

\* What is appended follows what was unsent, whether or not the buffer is
\* compacted first.
LEMMA AppendUnsent ==
  ASSUME NEW S, NEW b \in Buffers(S), NEW s \in Seq(S)
  PROVE  /\ outbuf_append(b, s) \in Buffers(S)
         /\ Unsent(outbuf_append(b, s)) = Unsent(b) \o s
<1> DEFINE u == Unsent(b)
           c == IF b.off > 0 /\ Len(b.data) - b.off < Len(b.data) THEN outbuf_compact(b) ELSE b
<1>1. /\ b = [data |-> b.data, off |-> b.off] /\ b.data \in Seq(S) /\ b.off \in Nat /\ b.off <= Len(b.data)
      /\ Len(b.data) \in Nat
  BY DEF Buffers
<1>2. u \in Seq(S)
  BY <1>1 DEF Unsent
<1>3. c = [data |-> u, off |-> 0]
  <2>1. CASE b.off = 0
    <3>1. u = b.data
      BY <1>1, <2>1 DEF Unsent
    <3> QED
      BY <1>1, <2>1, <3>1
  <2>2. CASE b.off # 0
    BY <1>1, <2>2 DEF outbuf_compact
  <2> QED
    BY <2>1, <2>2
<1>4. outbuf_append(b, s) = [data |-> c.data \o s, off |-> c.off]
  <2>1. outbuf_append(b, s) = [c EXCEPT !.data = @ \o s]
    BY DEF outbuf_append
  <2> HIDE DEF c, u
  <2>2. ASSUME NEW x PROVE [[data |-> u, off |-> 0] EXCEPT !.data = x] = [data |-> x, off |-> 0]
    OBVIOUS
  <2> QED
    BY <1>3, <2>1, <2>2
<1>5. u \o s \in Seq(S)
  BY <1>2
<1>6. outbuf_append(b, s) = [data |-> u \o s, off |-> 0]
  <2> HIDE DEF c, u
  <2> QED
    BY <1>3, <1>4
<1> HIDE DEF c
<1> QED
  BY <1>5, <1>6, FreshBuffer, Zenon

\* A short send leaves what was not sent.
LEMMA FlushUnsent ==
  ASSUME NEW S, NEW b \in Buffers(S), NEW n \in 0 .. Len(Unsent(b)), NEW sent, sent = SubSeq(Unsent(b), 1, n)
  PROVE  /\ sent \in Seq(S) /\ Len(sent) = n
         /\ outbuf_flush_fd(b, sent) \in Buffers(S)
         /\ sent \o Unsent(outbuf_flush_fd(b, sent)) = Unsent(b)
         /\ ~outbuf_empty(outbuf_flush_fd(b, sent)) => ~outbuf_empty(b)
<1> DEFINE u == Unsent(b)
<1>1. /\ b = [data |-> b.data, off |-> b.off] /\ b.data \in Seq(S) /\ b.off \in Nat /\ b.off <= Len(b.data)
      /\ Len(b.data) \in Nat
  BY DEF Buffers
<1>2. u \in Seq(S) /\ Len(u) = Len(b.data) - b.off /\ n \in Nat /\ n <= Len(u)
  BY <1>1 DEF Unsent
<1>3. sent \in Seq(S) /\ Len(sent) = n
  BY <1>2
<1>4. CASE b.off + n >= Len(b.data)
  <2>1. outbuf_flush_fd(b, sent) = [data |-> <<>>, off |-> 0] /\ n = Len(u)
    BY <1>1, <1>2, <1>3, <1>4 DEF outbuf_flush_fd, outbuf_init
  <2>2. sent = u
    BY <1>2, <2>1
  <2>3. sent \o <<>> = u
    BY <2>2, <1>2
  <2>4. Unsent([data |-> <<>>, off |-> 0]) = <<>> /\ [data |-> <<>>, off |-> 0] \in Buffers(S)
    BY EmptySeq, FreshBuffer, Zenon
  <2>5. outbuf_empty([data |-> <<>>, off |-> 0])
    BY DEF outbuf_empty
  <2> QED
    BY <1>3, <2>1, <2>3, <2>4, <2>5
<1>5. CASE ~(b.off + n >= Len(b.data))
  <2> DEFINE e == [data |-> b.data, off |-> b.off + n]
  <2>1. outbuf_flush_fd(b, sent) = e
    BY <1>1, <1>2, <1>3, <1>5 DEF outbuf_flush_fd
  <2>2. e \in Buffers(S)
    BY <1>1, <1>2, <1>5 DEF Buffers
  <2>3. ~outbuf_empty(b)
    BY <1>1, <1>2, <1>5 DEF outbuf_empty
  <2>4. sent \o Unsent(e) = u
    <3>1. CASE n = 0
      <4>1. b.off + n = b.off
        BY <3>1, <1>1
      <4>2. e = b /\ sent = <<>>
        BY <3>1, <4>1, <1>1, <1>2
      <4> HIDE DEF e, u
      <4>3. <<>> \o u = u
        BY <1>2, ConcatEmptySeq, Zenon
      <4> QED
        BY <4>2, <4>3 DEF u
    <3>2. CASE n # 0
      <4> DEFINE d == b.data
                 o == b.off
      <4> HIDE DEF d, o
      <4>1. d \in Seq(S) /\ o + 1 \in 1 .. Len(d) /\ Len(d) \in 1 .. Len(d) /\ 1 \in 1 .. Len(d) - (o + 1) + 1
            /\ n \in 1 .. Len(d) - (o + 1) + 1
        BY <1>1, <1>2, <1>5, <3>2 DEF d, o
      <4>2. SubSeq(SubSeq(d, o + 1, Len(d)), 1, n) = SubSeq(d, (o + 1) + 1 - 1, (o + 1) + n - 1)
        <5>1. \A i, j \in 1 .. Len(d) : \A m, k \in 1 .. j - i + 1 :
                SubSeq(SubSeq(d, i, j), m, k) = SubSeq(d, i + m - 1, i + k - 1)
          BY <4>1, SubSeqOfSubSeq
        <5> QED
          BY <4>1, <5>1, Zenon
      <4>3. (o + 1) + 1 - 1 = o + 1 /\ (o + 1) + n - 1 = o + n /\ o + 1 \in 1 .. Len(d) + 1
            /\ o + n \in (o + 1) - 1 .. Len(d) /\ Len(d) \in o + n .. Len(d)
        BY <1>1, <1>2, <1>5 DEF d, o
      <4>4. SubSeq(d, o + 1, o + n) \o SubSeq(d, (o + n) + 1, Len(d)) = SubSeq(d, o + 1, Len(d))
        BY <4>1, <4>3, ConcatAdjacentSubSeq, Zenon
      <4>5. Unsent(e) = SubSeq(d, (o + n) + 1, Len(d)) /\ u = SubSeq(d, o + 1, Len(d)) /\ sent = SubSeq(u, 1, n)
        BY Zenon DEF Unsent, e, d, o, u
      <4> HIDE DEF e, u
      <4> QED
        BY <4>2, <4>3, <4>4, <4>5
    <3> QED
      BY <3>1, <3>2
  <2> HIDE DEF e
  <2> QED
    BY <1>3, <2>1, <2>2, <2>3, <2>4
<1> QED
  BY <1>1, <1>2, <1>4, <1>5

\* Concatenation is associative: said of three sequences.
Associates(x, y, z) == (x \o y) \o z = x \o (y \o z)

\* It is so for all sequences over the same set.
LEMMA Assoc == \A S : \A x, y, z \in Seq(S) : Associates(x, y, z)
BY ConcatAssociative DEF Associates

\* What is read from stdin continues what was read before.
LEMMA UptoMore ==
  ASSUME NEW n \in Nat, NEW m \in Nat, n <= m, NEW k \in Nat, m <= k
  PROVE  /\ Upto(n) \in Seq(1 .. k) /\ Newer(n, m) \in Seq(1 .. k)
         /\ Upto(n) \o Newer(n, m) = Upto(m)
<1>1. /\ Upto(n) \in Seq(1 .. k) /\ Len(Upto(n)) = n /\ \A i \in 1 .. n : Upto(n)[i] = i
  BY DEF Upto
<1>2. /\ Upto(m) \in Seq(1 .. k) /\ Len(Upto(m)) = m /\ \A i \in 1 .. m : Upto(m)[i] = i
  BY DEF Upto
<1>3. /\ Newer(n, m) \in Seq(1 .. k) /\ Len(Newer(n, m)) = m - n
      /\ \A i \in 1 .. m - n : Newer(n, m)[i] = n + i
  BY DEF Newer
<1> DEFINE x == Upto(n)
           y == Newer(n, m)
           z == Upto(m)
<1> HIDE DEF x, y, z
<1>4. /\ x \o y \in Seq(1 .. k) /\ Len(x \o y) = Len(x) + Len(y)
      /\ \A i \in 1 .. Len(x) + Len(y) : (x \o y)[i] = IF i <= Len(x) THEN x[i] ELSE y[i - Len(x)]
  BY <1>1, <1>3, ConcatProperties, Zenon DEF x, y
<1>5. Len(x \o y) = Len(z)
  BY <1>1, <1>2, <1>3, <1>4 DEF x, y, z
<1>6. ASSUME NEW i \in 1 .. Len(x \o y)
      PROVE  (x \o y)[i] = z[i]
  <2>1. i \in 1 .. m /\ z[i] = i /\ Len(x) = n /\ Len(y) = m - n /\ i \in Nat
    BY <1>1, <1>2, <1>3, <1>5, <1>6 DEF x, y, z
  <2>2. (x \o y)[i] = IF i <= n THEN x[i] ELSE y[i - n]
    BY <1>4, <1>6, <2>1
  <2>3. i <= n => x[i] = i
    BY <1>1, <2>1 DEF x
  <2>4. ~(i <= n) => i - n \in 1 .. m - n /\ y[i - n] = n + (i - n)
    BY <1>3, <2>1 DEF y
  <2> QED
    BY <2>1, <2>2, <2>3, <2>4
<1>7. x \o y = z
  BY <1>2, <1>4, <1>5, <1>6, SeqEqual DEF z
<1> QED
  BY <1>1, <1>3, <1>7 DEF x, y, z

\* Cutting a sequence in two.
LEMMA Split ==
  ASSUME NEW S, NEW s \in Seq(S), NEW m \in 0 .. Len(s)
  PROVE  /\ SubSeq(s, 1, m) \in Seq(S) /\ SubSeq(s, m + 1, Len(s)) \in Seq(S)
         /\ Len(SubSeq(s, 1, m)) = m /\ Len(SubSeq(s, m + 1, Len(s))) = Len(s) - m
         /\ SubSeq(s, 1, m) \o SubSeq(s, m + 1, Len(s)) = s
<1>1. Len(s) \in Nat /\ m \in Nat /\ m <= Len(s)
  OBVIOUS
<1>2. SubSeq(s, 1, m) \in Seq(S) /\ Len(SubSeq(s, 1, m)) = m
  BY <1>1
<1>3. SubSeq(s, m + 1, Len(s)) \in Seq(S) /\ Len(SubSeq(s, m + 1, Len(s))) = Len(s) - m
  BY <1>1
<1>4. 1 \in 1 .. Len(s) + 1 /\ m \in 1 - 1 .. Len(s) /\ Len(s) \in m .. Len(s)
  BY <1>1
<1>5. SubSeq(s, 1, m) \o SubSeq(s, m + 1, Len(s)) = SubSeq(s, 1, Len(s))
  BY <1>4, ConcatAdjacentSubSeq, Zenon
<1>6. SubSeq(s, 1, Len(s)) = s
  BY SubSeqFull, Zenon
<1> QED
  BY <1>2, <1>3, <1>5, <1>6, Zenon

\* Nothing is cut into nothing.
LEMMA SplitNothing ==
  ASSUME NEW m \in 0 .. Len(<<>>)
  PROVE  SubSeq(<<>>, 1, m) = <<>> /\ SubSeq(<<>>, m + 1, Len(<<>>)) = <<>>
<1>1. Len(<<>>) = 0
  OBVIOUS
<1>2. m = 0
  BY <1>1
<1>3. SubSeq(<<>>, 1, 0) = <<>>
  OBVIOUS
<1> QED
  BY <1>1, <1>2, <1>3

\* What is on its way stays so when more is read from stdin,
LEMMA CarriesTyped ==
  ASSUME NEW n \in Nat, NEW m \in Nat, n <= m, NEW k \in Nat, m <= k,
         NEW a \in Seq(1 .. k), NEW b \in Seq(1 .. k), NEW c \in Seq(1 .. k),
         Carries(a, b, c, n)
  PROVE  c \o Newer(n, m) \in Seq(1 .. k) /\ Carries(a, b, c \o Newer(n, m), m)
<1>1. Newer(n, m) \in Seq(1 .. k) /\ Upto(n) \o Newer(n, m) = Upto(m)
  BY UptoMore, Zenon
<1>2. a \o b \in Seq(1 .. k)
  BY ConcatProperties, Zenon
<1>3. ((a \o b) \o c) \o Newer(n, m) = (a \o b) \o (c \o Newer(n, m))
  <2> DEFINE ab == a \o b
             x == Newer(n, m)
  <2>1. ab \in Seq(1 .. k) /\ x \in Seq(1 .. k)
    BY <1>1, <1>2, Zenon
  <2> HIDE DEF ab, x
  <2>2. Associates(ab, c, x)
    BY <2>1, Assoc, Zenon
  <2> QED
    BY <2>2, Zenon DEF Associates, ab, x
<1>4. c \o Newer(n, m) \in Seq(1 .. k)
  BY <1>1, ConcatProperties, Zenon
<1> QED
  BY <1>1, <1>3, <1>4, Zenon DEF Carries

\* when some of the rest is sent,
LEMMA CarriesSent ==
  ASSUME NEW S, NEW n, NEW a \in Seq(S), NEW b \in Seq(S), NEW s \in Seq(S), NEW d \in Seq(S),
         Carries(a, b, s \o d, n)
  PROVE  Carries(a, b \o s, d, n)
<1>1. a \o b \in Seq(S) /\ b \o s \in Seq(S)
  BY ConcatProperties, Zenon
<1>2. (a \o b) \o (s \o d) = ((a \o b) \o s) \o d
  <2> DEFINE ab == a \o b
  <2>1. ab \in Seq(S)
    BY <1>1
  <2> HIDE DEF ab
  <2>2. Associates(ab, s, d)
    BY <2>1, Assoc, Zenon
  <2> QED
    BY <2>2, Zenon DEF Associates, ab
<1>3. Associates(a, b, s)
  BY Assoc, Zenon
<1> QED
  BY <1>2, <1>3, Zenon DEF Associates, Carries

\* and when some of what the kernel has is received and printed.
LEMMA CarriesReceived ==
  ASSUME NEW S, NEW n, NEW a \in Seq(S), NEW b \in Seq(S), NEW s \in Seq(S), NEW c,
         Carries(a, s \o b, c, n)
  PROVE  Carries(a \o s, b, c, n)
<1>1. Associates(a, s, b)
  BY Assoc, Zenon
<1> QED
  BY <1>1, Zenon DEF Associates, Carries

\* What was printed is the beginning of what was typed.
LEMMA CarriesPrefix ==
  ASSUME NEW S, NEW n \in Nat, NEW a \in Seq(S), NEW b \in Seq(S), NEW c \in Seq(S),
         Carries(a, b, c, n)
  PROVE  IsPrefix(a, Upto(n))
<1> DEFINE r == b \o c
           u == Upto(n)
<1>1. a \o r = u
  <2>1. Associates(a, b, c)
    BY Assoc, Zenon
  <2>2. (a \o b) \o c = u
    BY Zenon DEF Carries
  <2> QED
    BY <2>1, <2>2, Zenon DEF Associates
<1>2. r \in Seq(S)
  BY ConcatProperties, Zenon
<1> HIDE DEF r, u
<1>3. u \in Seq(S) /\ Len(u) = Len(a) + Len(r)
      /\ \A i \in 1 .. Len(a) + Len(r) : u[i] = IF i <= Len(a) THEN a[i] ELSE r[i - Len(a)]
  BY <1>1, <1>2, ConcatProperties, Zenon
<1>4. Len(a) \in Nat /\ Len(r) \in Nat
  BY <1>2
<1>5. Len(a) <= Len(u)
  BY <1>3, <1>4
<1>6. Len(a) \in 0 .. Len(u) /\ Len(a) \in 0 .. Len(a)
  BY <1>4, <1>5
<1> DEFINE v == SubSeq(u, 1, Len(a))
<1>7. v \in Seq(S) /\ Len(v) = Len(a) /\ \A i \in 1 .. Len(a) : v[i] = u[i]
  BY <1>3, <1>4, <1>5
<1> HIDE DEF v
<1>8. \A i \in 1 .. Len(v) : v[i] = a[i]
  BY <1>3, <1>4, <1>7
<1>9. v = a
  BY <1>7, <1>8, SeqEqual
<1>10. SubSeq(a, 1, Len(a)) = a
  BY SubSeqFull, Zenon
<1> QED
  BY <1>5, <1>9, <1>10 DEF IsPrefix, v, u

\* At first nothing is on its way.
LEMMA CarriesNothing == Carries(<<>>, <<>>, <<>>, 0)
<1>1. <<>> \o <<>> = <<>>
  OBVIOUS
<1>2. Upto(0) = <<>>
  BY DEF Upto
<1> QED
  BY <1>1, <1>2, Zenon DEF Carries

(***************************************************************************)
(* The inductive invariant.                                                *)
(***************************************************************************)
Event == [fd : Fd, e : SUBSET {"IN", "OUT", "RDHUP", "ERR", "HUP"}]

ControlOK ==
  /\ stage \in [Peer -> {"start", "listening", "stage1", "stage2", "exited"}] /\ bound \in [Peer -> BOOLEAN]
  /\ ends \in [Peer -> [Socket -> {None, "syn", "refused", "queued", "open", "closed"}]]
  /\ crossed \in BOOLEAN
  /\ cfd \in [Peer -> BOOLEAN] /\ conn_inflight \in [Peer -> BOOLEAN]
  /\ established_fd \in [Peer -> Socket \cup {None}] /\ g_stop \in [Peer -> BOOLEAN]
  /\ interest \in [Peer -> [Fd -> SUBSET {"IN", "OUT", "RDHUP", "ERR", "HUP"}]]
  /\ evs \in [Peer -> SUBSET Event]

Before == {"start", "listening", "stage1"}

\* An event speaks of a socket that is there.
EventOK(p, ev) ==
  /\ ev.e # {}
  /\ ev.fd = "cfd" => ends[p]["cfd"] \in {"refused", "open", "closed"}
  /\ ev.fd = "lfd" => ends[p]["afd"] # None

\* How far main has come tells what has become of its sockets, and what has
\* become of one tells something of the socket it is, or may be, connected to.
SocketState(st, c, a, farC, farA, x, es, mine) ==
  /\ st = "start" => a = None
  /\ st \in {"start", "listening"} => c = None /\ es = None
  /\ st \in Before => c # "closed" /\ a # "closed"
  /\ st = "stage2" => es # None
  /\ st # "exited" => (es = "cfd" => c = "open") /\ (es = "afd" => a = "open")
  /\ es = "cfd" => ~mine /\ c \notin {None, "syn"}
  /\ st = "exited" => c \in {None, "closed"} /\ a \in {None, "closed"}
  /\ c # "queued" /\ a \notin {"syn", "refused"}
  /\ c = "open" => x \/ farA # None
  /\ a # None => farC \in {"open", "closed"} /\ ~x
  /\ x => c \in {"open", "closed"}

Sockets(p) ==
  /\ SocketState(stage[p], ends[p]["cfd"], ends[p]["afd"], ends[Other(p)]["cfd"], ends[Other(p)]["afd"],
                 crossed, established_fd[p], cfd[p])
  /\ stage[p] \in {"start", "listening"} => evs[p] = {}
  /\ \A ev \in evs[p] : EventOK(p, ev)

\* If both connect from the port they listen on, there is one connection.
OneSocket(c, a, farA) == a # None => c \in {None, "refused", "closed"} /\ farA = None

OneConnection ==
  (\A p \in Peer : bound[p]) =>
    \A p \in Peer : OneSocket(ends[p]["cfd"], ends[p]["afd"], ends[Other(p)]["afd"])

\* There are two peers.
LEMMA Others ==
  \A p \in Peer : /\ Other(p) \in Peer /\ Other(Other(p)) = p /\ Other(p) # p
                  /\ \A x \in Peer : x = p \/ x = Other(p)
BY DEF Peer, Other

\* At the beginning no peer has a socket.
LEMMA ControlInit ==
  ASSUME Init
  PROVE  ControlOK /\ OneConnection /\ \A p \in Peer : Sockets(p)
<1>1. bound \in [Peer -> BOOLEAN]
  BY BoundsAssumption DEF Init
<1> QED
  BY <1>1, Others DEF Init, ControlOK, OneConnection, OneSocket, Sockets, SocketState, Socket, Fd, None, Before

\* Every step keeps the types.
LEMMA ControlStep ==
  ASSUME ControlOK, \A p \in Peer : Sockets(p), [Next]_vars
  PROVE  ControlOK'
<1> USE DEF ControlOK
<1>1. CASE UNCHANGED vars
  BY <1>1 DEF vars, kernelVars, mainVars
<1>2. ASSUME NEW p \in Peer, SynArrives(p)
      PROVE  ControlOK'
  <2>1. Other(p) \in Peer
    BY Others
  <2> DEFINE E == {None, "syn", "refused", "queued", "open", "closed"}
  <2>2. "cfd" \in Socket /\ "afd" \in Socket /\ "open" \in E /\ "queued" \in E /\ "refused" \in E
    BY DEF Socket
  <2>3. /\ UNCHANGED <<stage, bound, cfd, conn_inflight, established_fd, g_stop, interest, evs>>
        /\ crossed' \in BOOLEAN
    BY <1>2 DEF SynArrives, mainVars
  <2> HIDE DEF E
  <2>4. ASSUME NEW f \in [Peer -> [Socket -> E]], NEW x \in Peer, NEW s \in Socket, NEW e \in E
        PROVE  [f EXCEPT ![x][s] = e] \in [Peer -> [Socket -> E]]
    OBVIOUS
  <2>5. ends \in [Peer -> [Socket -> E]]
    BY DEF E
  <2>6. ends' \in [Peer -> [Socket -> E]]
    <3>1. CASE ends' = [x \in Peer |-> [ends[x] EXCEPT !["cfd"] = "open"]]
      BY <2>2, <2>5, <3>1
    <3>2. CASE ends' = [ends EXCEPT ![p]["cfd"] = "open", ![Other(p)]["afd"] = "queued"]
      BY <2>1, <2>2, <2>4, <2>5, <3>2
    <3>3. CASE ends' = [ends EXCEPT ![p]["cfd"] = "refused"]
      BY <2>2, <2>4, <2>5, <3>3
    <3> QED
      BY <1>2, <3>1, <3>2, <3>3 DEF SynArrives
  <2> QED
    BY <2>3, <2>6 DEF E
<1>3. ASSUME NEW p \in Peer, Type(p) \/ on_sigint(p) \/ Listen(p)
      PROVE  ControlOK'
  BY <1>3 DEF Type, on_sigint, Listen, kernelVars, mainVars
<1>4. ASSUME NEW p \in Peer, Connect(p)
      PROVE  ControlOK'
  BY <1>4 DEF Connect, Socket, Fd
<1>5. ASSUME NEW p \in Peer, epoll_wait(p)
      PROVE  ControlOK'
  <2>1. \A fd : Reported(p, fd) \subseteq {"IN", "OUT", "RDHUP", "ERR", "HUP"}
    BY DEF Reported, Ready
  <2>2. Events(p) \subseteq Event
    BY <2>1 DEF Events, Event
  <2> QED
    BY <1>5, <2>2 DEF epoll_wait, kernelVars, mainVars
<1>6. ASSUME NEW p \in Peer, NEW ev \in evs[p], Stage1Event(p, ev)
      PROVE  ControlOK'
  <2>1. CASE Accepts(p, ev)
    BY <1>6, <2>1 DEF Stage1Event, Accepts, Socket
  <2>2. CASE Connected(p, ev)
    BY <1>6, <2>2 DEF Stage1Event, Connected, Socket
  <2>3. CASE ConnectFailed(p, ev)
    BY <1>6, <2>3 DEF Stage1Event, ConnectFailed, Fd, Socket
  <2>4. CASE Ignored(ev)
    BY <1>6, <2>4 DEF Stage1Event, Ignored, mainVars
  <2> QED
    BY <1>6, <2>1, <2>2, <2>3, <2>4 DEF Stage1Event
<1>7. ASSUME NEW p \in Peer, NEW ev \in evs[p], Stage2Event(p, ev)
      PROVE  ControlOK'
  <2>1. established_fd[p] \in Fd
    BY <1>7 DEF Stage2Event, Sockets, SocketState, Fd
  <2>2. CASE ReadStdin(p, ev)
    BY <1>7, <2>1, <2>2 DEF Stage2Event, ReadStdin, Watch, mainVars
  <2>3. CASE PeerClosed(p, ev)
    BY <1>7, <2>3 DEF Stage2Event, PeerClosed, mainVars
  <2>4. CASE Conveys(p, ev)
    <3>1. interest' \in [Peer -> [Fd -> SUBSET {"IN", "OUT", "RDHUP", "ERR", "HUP"}]]
      <4>1. CASE interest' = interest
        BY <4>1
      <4>2. CASE Watch(p, {"IN", "RDHUP"})
        BY <2>1, <4>2 DEF Watch
      <4> QED
        BY <2>4, <4>1, <4>2 DEF Conveys, WatchAfter
    <3>2. g_stop' \in [Peer -> BOOLEAN]
      BY <2>4 DEF Conveys
    <3>3. evs' \in [Peer -> SUBSET Event]
      BY <2>4 DEF Conveys
    <3> QED
      BY <1>7, <3>1, <3>2, <3>3 DEF Stage2Event, mainVars
  <2>5. CASE Forgotten(p, ev)
    BY <1>7, <2>5 DEF Stage2Event, Forgotten, mainVars
  <2> QED
    BY <1>7, <2>2, <2>3, <2>4, <2>5 DEF Stage2Event
<1>8. ASSUME NEW p \in Peer, Establish(p)
      PROVE  ControlOK'
  <2>1. ends' \in [Peer -> [Socket -> {None, "syn", "refused", "queued", "open", "closed"}]]
    BY <1>8 DEF Establish, Closed
  <2>2. established_fd[p] \in Fd /\ {"lfd", "cfd"} \subseteq Fd
    BY <1>8 DEF Establish, Fd, Socket
  <2>3. interest' \in [Peer -> [Fd -> SUBSET {"IN", "OUT", "RDHUP", "ERR", "HUP"}]]
    <3> DEFINE W == SUBSET {"IN", "OUT", "RDHUP", "ERR", "HUP"}
               watched == [interest[p] EXCEPT !["lfd"] = {}, !["cfd"] = IF cfd[p] THEN {} ELSE @]
    <3>1. {} \in W /\ {"IN", "RDHUP"} \in W /\ interest \in [Peer -> [Fd -> W]]
      OBVIOUS
    <3>2. interest' = [interest EXCEPT ![p] = IF watched[established_fd[p]] # {} THEN watched
                                ELSE [watched EXCEPT ![established_fd[p]] = {"IN", "RDHUP"}]]
      BY <1>8 DEF Establish
    <3> HIDE DEF W
    <3>3. watched \in [Fd -> W]
      <4> DEFINE f == interest[p]
                 w1 == [f EXCEPT !["lfd"] = {}]
                 w2 == [w1 EXCEPT !["cfd"] = IF cfd[p] THEN {} ELSE w1["cfd"]]
      <4>1. f \in [Fd -> W]
        BY <3>1
      <4> HIDE DEF f
      <4>2. w1 \in [Fd -> W]
        BY <3>1, <4>1
      <4>3. w2 \in [Fd -> W]
        <5> HIDE DEF w1
        <5> QED
          BY <2>2, <3>1, <4>2
      <4>4. watched = w2
        BY DEF f
      <4> HIDE DEF watched, w2
      <4> QED
        BY <4>3, <4>4
    <3> HIDE DEF watched
    <3>4. [watched EXCEPT ![established_fd[p]] = {"IN", "RDHUP"}] \in [Fd -> W]
      BY <2>2, <3>1, <3>3
    <3> QED
      BY <3>1, <3>2, <3>3, <3>4 DEF W
  <2> QED
    BY <1>8, <2>1, <2>3 DEF Establish, mainVars
<1>9. ASSUME NEW p \in Peer, Exit(p)
      PROVE  ControlOK'
  <2>1. ends' \in [Peer -> [Socket -> {None, "syn", "refused", "queued", "open", "closed"}]]
    BY <1>9 DEF Exit, Closed
  <2> QED
    BY <1>9, <2>1 DEF Exit, mainVars
<1> QED
  BY <1>1, <1>2, <1>3, <1>4, <1>5, <1>6, <1>7, <1>8, <1>9 DEF Next, Main, Handles

\* Steps that leave the sockets alone, and add no event or one that is right.
LEMMA SocketsKept ==
  ASSUME ControlOK, \A p \in Peer : Sockets(p), OneConnection,
         UNCHANGED <<stage, bound, ends, crossed, cfd, established_fd>>,
         \A p \in Peer : /\ \A ev \in evs'[p] : ev \in evs[p] \/ EventOK(p, ev)
                         /\ stage[p] \in {"start", "listening"} => evs'[p] = evs[p]
  PROVE  OneConnection' /\ \A p \in Peer : Sockets(p)'
<1>1. OneConnection'
  BY DEF OneConnection
<1>2. ASSUME NEW p \in Peer PROVE Sockets(p)'
  <2>1. \A ev \in evs'[p] : EventOK(p, ev)
    BY <1>2 DEF Sockets
  <2>2. \A ev \in evs'[p] : EventOK(p, ev)'
    BY <2>1 DEF EventOK
  <2>3. stage[p] \in {"start", "listening"} => evs'[p] = {}
    BY <1>2 DEF Sockets
  <2>4. Sockets(p)
    BY <1>2
  <2> QED
    BY <2>2, <2>3, <2>4 DEF Sockets
<1> QED
  BY <1>1, <1>2

\* epoll reports of a socket only what has become of it.
LEMMA EventsOK ==
  ASSUME ControlOK, NEW p \in Peer, NEW ev \in Events(p)
  PROVE  EventOK(p, ev)
<1>1. PICK fd \in Fd : ev = [fd |-> fd, e |-> Reported(p, fd)] /\ Reported(p, fd) # {}
  BY DEF Events
<1>2. fd = "cfd" => ends[p]["cfd"] \in {"refused", "open"}
  BY <1>1 DEF Reported, Ready
<1>3. fd = "lfd" => ends[p]["afd"] = "queued"
  BY <1>1 DEF Reported, Ready, Socket
<1> QED
  BY <1>1, <1>2, <1>3 DEF EventOK, None

\* What becomes of a peer's sockets in a step is checked part by part.
LEMMA SocketsChange ==
  ASSUME NEW p \in Peer, NEW q, q = Other(p), ControlOK, \A x \in Peer : Sockets(x),
         NEW st, NEW c, NEW a, NEW qc, NEW qa, NEW es,
         stage'[p] = st, stage'[q] = stage[q],
         ends'[p]["cfd"] = c, ends'[p]["afd"] = a, ends'[q]["cfd"] = qc, ends'[q]["afd"] = qa,
         established_fd'[p] = es, established_fd'[q] = established_fd[q],
         \A x \in Peer : evs'[x] \subseteq evs[x], bound' = bound,
         \* events stay right
         ends[p]["cfd"] \in {"refused", "open", "closed"} => c \in {"refused", "open", "closed"},
         ends[q]["cfd"] \in {"refused", "open", "closed"} => qc \in {"refused", "open", "closed"},
         ends[p]["afd"] # None => a # None, ends[q]["afd"] # None => qa # None,
         stage[p] \in {"start", "listening"} \/ st \notin {"start", "listening"},
         SocketState(st, c, a, qc, qa, crossed', es, cfd'[p]),
         SocketState(stage[q], qc, qa, c, a, crossed', established_fd[q], cfd'[q]),
         bound[p] /\ bound[q] => OneSocket(c, a, qa) /\ OneSocket(qc, qa, a)
  PROVE  OneConnection' /\ \A x \in Peer : Sockets(x)'
<1>1. q \in Peer /\ Other(q) = p /\ p # q /\ \A x \in Peer : x = p \/ x = q
  BY Others
<1>2. ASSUME NEW x \in Peer, NEW ev \in evs'[x]
      PROVE  EventOK(x, ev)'
  <2>1. ev \in evs[x] /\ EventOK(x, ev)
    BY <1>2 DEF Sockets
  <2>2. CASE x = p
    BY <2>1, <2>2 DEF EventOK
  <2>3. CASE x = q
    BY <2>1, <2>3 DEF EventOK
  <2> QED
    BY <1>1, <2>2, <2>3
<1>3. ASSUME NEW x \in Peer, stage'[x] \in {"start", "listening"}
      PROVE  evs'[x] = {}
  <2>1. stage[x] \in {"start", "listening"}
    BY <1>1, <1>3
  <2>2. evs[x] = {}
    BY <2>1 DEF Sockets
  <2> QED
    BY <2>2
<1>4. OneConnection'
  BY <1>1 DEF OneConnection
<1>5. Sockets(p)'
  BY <1>1, <1>2, <1>3 DEF Sockets
<1>6. Sockets(q)'
  BY <1>1, <1>2, <1>3 DEF Sockets
<1> QED
  BY <1>1, <1>4, <1>5, <1>6

\* Whatever step is taken, stages, sockets and events agree afterwards, and if
\* both cfd's are bound there is still one connection at most.
LEMMA SocketsStep ==
  ASSUME ControlOK, \A p \in Peer : Sockets(p), OneConnection, [Next]_vars
  PROVE  OneConnection' /\ \A p \in Peer : Sockets(p)'
<1> DEFINE Goal == OneConnection' /\ \A p \in Peer : Sockets(p)'
           C(p) == ends[p]["cfd"]
           A(p) == ends[p]["afd"]
<1> HIDE DEF Goal
<1>a. ASSUME NEW p \in Peer
      PROVE  /\ Other(p) \in Peer /\ Other(Other(p)) = p /\ p # Other(p)
             /\ SocketState(stage[p], C(p), A(p), C(Other(p)), A(Other(p)), crossed, established_fd[p], cfd[p])
             /\ SocketState(stage[Other(p)], C(Other(p)), A(Other(p)), C(p), A(p), crossed,
                            established_fd[Other(p)], cfd[Other(p)])
             /\ bound[p] /\ bound[Other(p)] =>
                  OneSocket(C(p), A(p), A(Other(p))) /\ OneSocket(C(Other(p)), A(Other(p)), A(p))
  BY Others DEF Sockets, OneConnection
<1>1. CASE UNCHANGED vars
  BY <1>1, SocketsKept DEF vars, kernelVars, mainVars, Goal
<1>2. ASSUME NEW p \in Peer, SynArrives(p)
      PROVE  Goal
  <2> DEFINE q == Other(p)
  <2>1. q \in Peer /\ Other(q) = p /\ p # q
    BY <1>a
  <2>2. UNCHANGED <<stage, bound, cfd, established_fd, evs>>
    BY <1>2 DEF SynArrives, mainVars
  <2>3. /\ C(p) = "syn"
        /\ C(q) = "syn" /\ bound[p] /\ bound[q] =>
             ends' = [x \in Peer |-> [ends[x] EXCEPT !["cfd"] = "open"]] /\ crossed' = TRUE
        /\ ~(C(q) = "syn" /\ bound[p] /\ bound[q]) =>
             /\ crossed' = crossed
             /\ ends' = IF stage[q] \in {"listening", "stage1"}
                     THEN [ends EXCEPT ![p]["cfd"] = "open", ![q]["afd"] = "queued"]
                     ELSE [ends EXCEPT ![p]["cfd"] = "refused"]
    BY <1>2 DEF SynArrives
  <2>4. /\ SocketState(stage[p], C(p), A(p), C(q), A(q), crossed, established_fd[p], cfd[p])
        /\ SocketState(stage[q], C(q), A(q), C(p), A(p), crossed, established_fd[q], cfd[q])
        /\ bound[p] /\ bound[q] => OneSocket(C(p), A(p), A(q)) /\ OneSocket(C(q), A(q), A(p))
    BY <1>a
  <2>5. established_fd[q] \in {None, "cfd", "afd"} /\ established_fd[p] \in {None, "cfd", "afd"}
        /\ stage[q] \in {"start", "listening", "stage1", "stage2", "exited"}
        /\ C(q) \in {None, "syn", "refused", "queued", "open", "closed"}
    BY <2>1 DEF ControlOK, Socket
  <2>6. CASE C(q) = "syn" /\ bound[p] /\ bound[q]
    <3>1. ends'[p]["cfd"] = "open" /\ ends'[q]["cfd"] = "open" /\ ends'[p]["afd"] = A(p) /\ ends'[q]["afd"] = A(q)
      BY <2>1, <2>3, <2>6 DEF ControlOK, Socket
    <3>2. /\ SocketState(stage[p], "open", A(p), "open", A(q), crossed', established_fd[p], cfd'[p])
          /\ SocketState(stage[q], "open", A(q), "open", A(p), crossed', established_fd[q], cfd'[q])
          /\ OneSocket("open", A(p), A(q)) /\ OneSocket("open", A(q), A(p))
      BY <2>2, <2>3, <2>4, <2>5, <2>6 DEF SocketState, OneSocket, None, Before
    <3> QED
      BY <2>1, <2>2, <3>1, <3>2, SocketsChange DEF Goal
  <2>7. CASE ~(C(q) = "syn" /\ bound[p] /\ bound[q]) /\ stage[q] \in {"listening", "stage1"}
    <3>1. ends'[p]["cfd"] = "open" /\ ends'[q]["cfd"] = C(q) /\ ends'[p]["afd"] = A(p) /\ ends'[q]["afd"] = "queued"
      BY <2>1, <2>3, <2>7 DEF ControlOK, Socket
    <3>2. /\ SocketState(stage[p], "open", A(p), C(q), "queued", crossed, established_fd[p], cfd[p])
          /\ SocketState(stage[q], C(q), "queued", "open", A(p), crossed, established_fd[q], cfd[q])
          /\ bound[p] /\ bound[q] => OneSocket("open", A(p), "queued") /\ OneSocket(C(q), "queued", A(p))
      BY <2>3, <2>4, <2>5, <2>7 DEF SocketState, OneSocket, None, Before
    <3>3. "queued" # None
      BY DEF None
    <3> QED
      BY <2>1, <2>2, <2>3, <2>7, <3>1, <3>2, <3>3, SocketsChange DEF Goal
  <2>8. CASE ~(C(q) = "syn" /\ bound[p] /\ bound[q]) /\ stage[q] \notin {"listening", "stage1"}
    <3>1. ends'[p]["cfd"] = "refused" /\ ends'[q]["cfd"] = C(q) /\ ends'[p]["afd"] = A(p) /\ ends'[q]["afd"] = A(q)
      BY <2>1, <2>3, <2>8 DEF ControlOK, Socket
    <3>2. /\ SocketState(stage[p], "refused", A(p), C(q), A(q), crossed, established_fd[p], cfd[p])
          /\ SocketState(stage[q], C(q), A(q), "refused", A(p), crossed, established_fd[q], cfd[q])
          /\ bound[p] /\ bound[q] => OneSocket("refused", A(p), A(q)) /\ OneSocket(C(q), A(q), A(p))
      BY <2>3, <2>4, <2>5, <2>8 DEF SocketState, OneSocket, None, Before
    <3> QED
      BY <2>1, <2>2, <2>3, <2>8, <3>1, <3>2, SocketsChange DEF Goal
  <2> QED
    BY <2>6, <2>7, <2>8
<1>3. ASSUME NEW p \in Peer, Type(p) \/ on_sigint(p)
      PROVE  Goal
  BY <1>3, SocketsKept DEF Type, on_sigint, kernelVars, mainVars, Goal
<1>4. ASSUME NEW p \in Peer, Listen(p)
      PROVE  Goal
  <2> DEFINE q == Other(p)
  <2>1. q \in Peer /\ Other(q) = p /\ p # q
    BY <1>a
  <2>4. /\ SocketState(stage[p], C(p), A(p), C(q), A(q), crossed, established_fd[p], cfd[p])
        /\ SocketState(stage[q], C(q), A(q), C(p), A(p), crossed, established_fd[q], cfd[q])
        /\ bound[p] /\ bound[q] => OneSocket(C(p), A(p), A(q)) /\ OneSocket(C(q), A(q), A(p))
    BY <1>a
  <2>5. established_fd[q] \in {None, "cfd", "afd"} /\ established_fd[p] \in {None, "cfd", "afd"}
        /\ stage[q] \in {"start", "listening", "stage1", "stage2", "exited"}
        /\ C(q) \in {None, "syn", "refused", "queued", "open", "closed"}
    BY <2>1 DEF ControlOK, Socket
  <2>2. UNCHANGED <<bound, ends, crossed, cfd, established_fd, evs>> /\ stage[p] = "start"
        /\ stage' = [stage EXCEPT ![p] = "listening"]
    BY <1>4 DEF Listen, kernelVars, mainVars
  <2>3. stage'[p] = "listening" /\ stage'[q] = stage[q]
    BY <2>1, <2>2 DEF ControlOK
  <2>6. /\ SocketState("listening", C(p), A(p), C(q), A(q), crossed, established_fd[p], cfd[p])
        /\ SocketState(stage[q], C(q), A(q), C(p), A(p), crossed, established_fd[q], cfd[q])
        /\ bound[p] /\ bound[q] => OneSocket(C(p), A(p), A(q)) /\ OneSocket(C(q), A(q), A(p))
    BY <2>2, <2>4, <2>5 DEF SocketState, OneSocket, None, Before
  <2> QED
    BY <2>1, <2>2, <2>3, <2>6, SocketsChange DEF Goal
<1>5. ASSUME NEW p \in Peer, Connect(p)
      PROVE  Goal
  <2> DEFINE q == Other(p)
  <2>1. q \in Peer /\ Other(q) = p /\ p # q
    BY <1>a
  <2>4. /\ SocketState(stage[p], C(p), A(p), C(q), A(q), crossed, established_fd[p], cfd[p])
        /\ SocketState(stage[q], C(q), A(q), C(p), A(p), crossed, established_fd[q], cfd[q])
        /\ bound[p] /\ bound[q] => OneSocket(C(p), A(p), A(q)) /\ OneSocket(C(q), A(q), A(p))
    BY <1>a
  <2>5. established_fd[q] \in {None, "cfd", "afd"} /\ established_fd[p] \in {None, "cfd", "afd"}
        /\ stage[q] \in {"start", "listening", "stage1", "stage2", "exited"}
        /\ C(q) \in {None, "syn", "refused", "queued", "open", "closed"}
    BY <2>1 DEF ControlOK, Socket
  <2>2. UNCHANGED <<bound, crossed, cfd, established_fd, evs>>
    BY <1>5 DEF Connect
  <2> DEFINE free == A(p) = None \/ ~bound[p] \/ ~bound[q]
             to == IF free THEN "syn" ELSE None
  <2>3. stage[p] = "listening" /\ stage' = [stage EXCEPT ![p] = "stage1"] /\ ends' = [ends EXCEPT ![p]["cfd"] = to]
    BY <1>5 DEF Connect
  <2>6. /\ ends'[p]["cfd"] = to /\ ends'[p]["afd"] = A(p) /\ ends'[q]["cfd"] = C(q) /\ ends'[q]["afd"] = A(q)
        /\ stage'[p] = "stage1" /\ stage'[q] = stage[q]
    BY <2>1, <2>3 DEF ControlOK, Socket
  <2>7. /\ SocketState("stage1", to, A(p), C(q), A(q), crossed, established_fd[p], cfd[p])
        /\ SocketState(stage[q], C(q), A(q), to, A(p), crossed, established_fd[q], cfd[q])
        /\ bound[p] /\ bound[q] => OneSocket(to, A(p), A(q)) /\ OneSocket(C(q), A(q), A(p))
    BY <2>3, <2>4, <2>5 DEF SocketState, OneSocket, None, Before
  <2>8. C(p) = None /\ C(p) \notin {"refused", "open", "closed"}
    BY <2>3, <2>4 DEF SocketState, None
  <2> QED
    BY <2>1, <2>2, <2>3, <2>6, <2>7, <2>8, SocketsChange DEF Goal
<1>6. ASSUME NEW p \in Peer, epoll_wait(p)
      PROVE  Goal
  <2>1. evs' = [evs EXCEPT ![p] = Events(p)] /\ stage[p] \notin {"start", "listening"}
        /\ UNCHANGED <<stage, bound, ends, crossed, cfd, established_fd>>
    BY <1>6 DEF epoll_wait, kernelVars, mainVars
  <2>2. \A ev \in Events(p) : EventOK(p, ev)
    BY EventsOK
  <2> QED
    BY <2>1, <2>2, SocketsKept DEF ControlOK, Goal
<1>7. ASSUME NEW p \in Peer, NEW ev \in evs[p], Stage1Event(p, ev)
      PROVE  Goal
  <2> DEFINE q == Other(p)
  <2>1. q \in Peer /\ Other(q) = p /\ p # q
    BY <1>a
  <2>4. /\ SocketState(stage[p], C(p), A(p), C(q), A(q), crossed, established_fd[p], cfd[p])
        /\ SocketState(stage[q], C(q), A(q), C(p), A(p), crossed, established_fd[q], cfd[q])
        /\ bound[p] /\ bound[q] => OneSocket(C(p), A(p), A(q)) /\ OneSocket(C(q), A(q), A(p))
    BY <1>a
  <2>5. established_fd[q] \in {None, "cfd", "afd"} /\ established_fd[p] \in {None, "cfd", "afd"}
        /\ stage[q] \in {"start", "listening", "stage1", "stage2", "exited"}
        /\ C(q) \in {None, "syn", "refused", "queued", "open", "closed"}
    BY <2>1 DEF ControlOK, Socket
  <2>2. EventOK(p, ev)
    BY <1>7 DEF Sockets
  <2>3. /\ UNCHANGED <<stage, bound, crossed>> /\ stage[p] = "stage1"
        /\ evs' = [evs EXCEPT ![p] = @ \ {ev}]
    BY <1>7 DEF Stage1Event
  <2>6. \A x \in Peer : evs'[x] \subseteq evs[x]
    BY <2>3 DEF ControlOK
  <2>7. CASE Accepts(p, ev)
    <3>1. /\ ends' = [ends EXCEPT ![p]["afd"] = "open"] /\ A(p) # None /\ cfd' = cfd
          /\ established_fd' = [established_fd EXCEPT ![p] = "afd"]
      BY <2>2, <2>7 DEF Accepts, EventOK
    <3>2. /\ ends'[p]["afd"] = "open" /\ ends'[p]["cfd"] = C(p) /\ ends'[q]["afd"] = A(q) /\ ends'[q]["cfd"] = C(q)
          /\ established_fd'[p] = "afd" /\ established_fd'[q] = established_fd[q]
      BY <2>1, <3>1 DEF ControlOK, Socket
    <3>3. /\ SocketState("stage1", C(p), "open", C(q), A(q), crossed, "afd", cfd[p])
          /\ SocketState(stage[q], C(q), A(q), C(p), "open", crossed, established_fd[q], cfd[q])
          /\ bound[p] /\ bound[q] => OneSocket(C(p), "open", A(q)) /\ OneSocket(C(q), A(q), "open")
      BY <2>3, <2>4, <2>5, <3>1 DEF SocketState, OneSocket, None, Before
    <3>4. "open" # None
      BY DEF None
    <3> QED
      BY <2>1, <2>3, <2>6, <3>1, <3>2, <3>3, <3>4, SocketsChange DEF Goal
  <2>8. CASE Connected(p, ev)
    <3>1. /\ ends' = ends /\ C(p) \in {"open", "closed"} /\ cfd' = [cfd EXCEPT ![p] = FALSE]
          /\ established_fd' = [established_fd EXCEPT ![p] = "cfd"]
      BY <2>2, <2>8 DEF Connected, EventOK
    <3>2. cfd'[p] = FALSE /\ cfd'[q] = cfd[q] /\ established_fd'[p] = "cfd" /\ established_fd'[q] = established_fd[q]
      BY <2>1, <3>1 DEF ControlOK
    <3>3. /\ SocketState(stage'[p], C(p), A(p), C(q), A(q), crossed', "cfd", cfd'[p])
          /\ SocketState(stage[q], C(q), A(q), C(p), A(p), crossed', established_fd[q], cfd'[q])
          /\ bound[p] /\ bound[q] => OneSocket(C(p), A(p), A(q)) /\ OneSocket(C(q), A(q), A(p))
      BY <2>3, <2>4, <2>5, <3>1, <3>2 DEF SocketState, None, Before
    <3>4. /\ ends'[p]["cfd"] = C(p) /\ ends'[p]["afd"] = A(p) /\ ends'[q]["cfd"] = C(q) /\ ends'[q]["afd"] = A(q)
          /\ stage'[p] = "stage1" /\ stage'[q] = stage[q] /\ bound' = bound
      BY <2>3, <3>1
    <3> QED
      BY <2>1, <2>3, <2>6, <3>2, <3>3, <3>4, SocketsChange DEF Goal
  <2>9. CASE ConnectFailed(p, ev) \/ Ignored(ev)
    <3>1. UNCHANGED <<ends, cfd, established_fd>>
      BY <2>9 DEF ConnectFailed, Ignored, mainVars
    <3>2. \A x \in Peer : stage[x] \in {"start", "listening"} => evs'[x] = evs[x]
      BY <2>3 DEF ControlOK
    <3> QED
      BY <2>3, <2>6, <3>1, <3>2, SocketsKept DEF Goal
  <2> QED
    BY <1>7, <2>7, <2>8, <2>9 DEF Stage1Event
<1>8. ASSUME NEW p \in Peer, NEW ev \in evs[p], Stage2Event(p, ev)
      PROVE  Goal
  <2>1. UNCHANGED <<stage, bound, ends, crossed, cfd, established_fd>> /\ stage[p] = "stage2"
    BY <1>8 DEF Stage2Event, mainVars
  <2>2. \A x \in Peer : evs'[x] \subseteq evs[x] /\ (x # p => evs'[x] = evs[x])
    <3>1. CASE ReadStdin(p, ev) \/ Forgotten(p, ev)
      BY <3>1 DEF ReadStdin, Forgotten, ControlOK
    <3>2. CASE PeerClosed(p, ev)
      BY <3>2 DEF PeerClosed, ControlOK
    <3>3. CASE Conveys(p, ev)
      <4>1. evs' = [evs EXCEPT ![p] = {}] \/ evs' = [evs EXCEPT ![p] = @ \ {ev}]
        BY <3>3 DEF Conveys
      <4> QED
        BY <4>1 DEF ControlOK
    <3> QED
      BY <1>8, <3>1, <3>2, <3>3 DEF Stage2Event
  <2> QED
    BY <2>1, <2>2, SocketsKept DEF Goal
<1>9. ASSUME NEW p \in Peer, Establish(p)
      PROVE  Goal
  <2> DEFINE q == Other(p)
  <2>1. q \in Peer /\ Other(q) = p /\ p # q
    BY <1>a
  <2>4. /\ SocketState(stage[p], C(p), A(p), C(q), A(q), crossed, established_fd[p], cfd[p])
        /\ SocketState(stage[q], C(q), A(q), C(p), A(p), crossed, established_fd[q], cfd[q])
        /\ bound[p] /\ bound[q] => OneSocket(C(p), A(p), A(q)) /\ OneSocket(C(q), A(q), A(p))
    BY <1>a
  <2>5. established_fd[q] \in {None, "cfd", "afd"} /\ established_fd[p] \in {None, "cfd", "afd"}
        /\ stage[q] \in {"start", "listening", "stage1", "stage2", "exited"}
        /\ C(q) \in {None, "syn", "refused", "queued", "open", "closed"}
    BY <2>1 DEF ControlOK, Socket
  <2>2. /\ UNCHANGED <<bound, crossed, cfd, established_fd, evs>> /\ stage[p] = "stage1" /\ evs[p] = {}
        /\ established_fd[p] # None /\ stage' = [stage EXCEPT ![p] = "stage2"]
        /\ ends' = Closed(p, Unused(p))
    BY <1>9 DEF Establish, mainVars
  <2> DEFINE c == IF cfd[p] /\ C(p) # None THEN "closed" ELSE C(p)
             a == IF A(p) = "queued" THEN "closed" ELSE A(p)
  <2>3. /\ ends'[q]["cfd"] = C(q) /\ ends'[q]["afd"] = A(q)
        /\ ends'[p]["cfd"] = c /\ ends'[p]["afd"] = a
        /\ stage'[p] = "stage2" /\ stage'[q] = stage[q]
    BY <2>1, <2>2 DEF Closed, Unused, ControlOK, Socket, None
  <2>6. /\ SocketState("stage2", c, a, C(q), A(q), crossed, established_fd[p], cfd[p])
        /\ SocketState(stage[q], C(q), A(q), c, a, crossed, established_fd[q], cfd[q])
        /\ bound[p] /\ bound[q] => OneSocket(c, a, A(q)) /\ OneSocket(C(q), A(q), a)
    BY <2>2, <2>4, <2>5 DEF SocketState, OneSocket, None, Before
  <2>7. (C(p) \in {"refused", "open", "closed"} => c \in {"refused", "open", "closed"}) /\ (A(p) # None => a # None)
    BY DEF None
  <2> QED
    BY <2>1, <2>2, <2>3, <2>6, <2>7, SocketsChange DEF Goal
<1>10. ASSUME NEW p \in Peer, Exit(p)
       PROVE  Goal
  <2> DEFINE q == Other(p)
  <2>1. q \in Peer /\ Other(q) = p /\ p # q
    BY <1>a
  <2>4. /\ SocketState(stage[p], C(p), A(p), C(q), A(q), crossed, established_fd[p], cfd[p])
        /\ SocketState(stage[q], C(q), A(q), C(p), A(p), crossed, established_fd[q], cfd[q])
        /\ bound[p] /\ bound[q] => OneSocket(C(p), A(p), A(q)) /\ OneSocket(C(q), A(q), A(p))
    BY <1>a
  <2>5. established_fd[q] \in {None, "cfd", "afd"} /\ established_fd[p] \in {None, "cfd", "afd"}
        /\ stage[q] \in {"start", "listening", "stage1", "stage2", "exited"}
        /\ C(q) \in {None, "syn", "refused", "queued", "open", "closed"}
    BY <2>1 DEF ControlOK, Socket
  <2>2. /\ UNCHANGED <<bound, crossed, cfd, established_fd, evs>> /\ stage[p] \in {"stage1", "stage2"}
        /\ stage[p] = "stage1" => established_fd[p] = None
        /\ stage' = [stage EXCEPT ![p] = "exited"] /\ ends' = Closed(p, Socket)
    BY <1>10 DEF Exit, mainVars
  <2> DEFINE c == IF C(p) # None THEN "closed" ELSE None
             a == IF A(p) # None THEN "closed" ELSE None
  <2>3. /\ ends'[q]["cfd"] = C(q) /\ ends'[q]["afd"] = A(q)
        /\ ends'[p]["cfd"] = c /\ ends'[p]["afd"] = a
        /\ stage'[p] = "exited" /\ stage'[q] = stage[q]
    BY <2>1, <2>2 DEF Closed, ControlOK, Socket, None
  <2>6. /\ SocketState("exited", c, a, C(q), A(q), crossed, established_fd[p], cfd[p])
        /\ SocketState(stage[q], C(q), A(q), c, a, crossed, established_fd[q], cfd[q])
        /\ bound[p] /\ bound[q] => OneSocket(c, a, A(q)) /\ OneSocket(C(q), A(q), a)
    BY <2>2, <2>4, <2>5 DEF SocketState, OneSocket, None, Before
  <2>7. (C(p) \in {"refused", "open", "closed"} => c \in {"refused", "open", "closed"}) /\ (A(p) # None => a # None)
    BY DEF None
  <2> QED
    BY <2>1, <2>2, <2>3, <2>6, <2>7, SocketsChange DEF Goal
<1>11. ASSUME Next PROVE Goal
  <2>1. PICK p \in Peer : SynArrives(p) \/ Type(p) \/ on_sigint(p) \/ Main(p)
    BY <1>11 DEF Next
  <2>2. CASE Handles(p)
    BY <1>7, <1>8, <2>2 DEF Handles
  <2> QED
    BY <1>2, <1>3, <1>4, <1>5, <1>6, <1>9, <1>10, <2>1, <2>2 DEF Main
<1> QED
  BY <1>1, <1>11 DEF Goal

\* What can be typed at p, and the types of what carries it.
Text(p) == Seq(Piece(p))

DataOK ==
  /\ DOMAIN inbox = Peer /\ DOMAIN ob = Peer /\ DOMAIN shown = Peer
  /\ typed \in [Peer -> [user : Nat, main : Nat]]
  /\ \A p \in Peer :
       /\ DOMAIN inbox[p] = Socket
       /\ \A s \in Socket : inbox[p][s] \in Text(Other(p)) /\ Len(inbox[p][s]) <= Room
       /\ typed[p].main <= typed[p].user /\ typed[p].user <= MaxTyped[p]
       /\ ob[p] \in Buffers(Piece(p)) /\ shown[p] \in Text(Other(p))

\* What Min returns.
LEMMA MinOfTwo ==
  ASSUME NEW a \in Nat, NEW b \in Nat
  PROVE  Min({a, b}) \in 0 .. b /\ Min({a, b}) <= a
<1>1. \E x \in {a, b} : \A y \in {a, b} : x <= y
  OBVIOUS
<1>2. Min({a, b}) \in {a, b} /\ \A y \in {a, b} : Min({a, b}) <= y
  BY <1>1 DEF Min
<1> QED
  BY <1>2

\* The socket that p sends to.
Sink(p) == Far(p, established_fd[p])[2]

\* What is sent fits into the kernel's buffer, unless the other end is closed.
Sending(p, sent, left) ==
  /\ sent \in Text(p) /\ left \in Buffers(Piece(p)) /\ sent \o Unsent(left) = Unsent(ob[p])
  /\ FarOpen(p, established_fd[p]) => Len(inbox[Other(p)][Sink(p)]) + Len(sent) <= Room

\* A step that conveys takes some of the input and sends some of the output.
LEMMA ConveysParts ==
  ASSUME ControlOK, DataOK, WaitsForRoom, NEW p \in Peer, NEW ev,
         stage[p] = "stage2", established_fd[p] \in Socket, Conveys(p, ev)
  PROVE  \E sent, left : \E m \in 0 .. Len(inbox[p][established_fd[p]]) :
           /\ Sending(p, sent, left)
           /\ shown' = [shown EXCEPT ![p] = @ \o SubSeq(inbox[p][established_fd[p]], 1, m)]
           /\ inbox' = [inbox EXCEPT
                ![p][established_fd[p]] = SubSeq(@, m + 1, Len(@)),
                ![Other(p)][Sink(p)] = IF FarOpen(p, established_fd[p]) THEN @ \o sent ELSE @]
           /\ ob' = [ob EXCEPT ![p] = left]
           /\ ~outbuf_empty(left) => "OUT" \in interest'[p][established_fd[p]]
<1> DEFINE fd == established_fd[p]
           far == Far(p, fd)
           sent == IF "OUT" \in ev.e THEN Sendable(p) ELSE <<>>
           left == IF "OUT" \in ev.e THEN outbuf_flush_fd(ob[p], sent) ELSE ob[p]
<1>1. Other(p) \in Peer /\ Sink(p) \in Socket /\ far = <<Other(p), Sink(p)>> /\ far[1] = Other(p) /\ far[2] = Sink(p)
  BY Others DEF Far, Sink, Socket
<1>2. inbox[Other(p)][Sink(p)] \in Text(Other(Other(p))) /\ Len(inbox[Other(p)][Sink(p)]) <= Room
      /\ ob[p] \in Buffers(Piece(p)) /\ inbox[p][fd] \in Text(Other(p))
  BY <1>1 DEF DataOK
<1>3. Unsent(ob[p]) \in Text(p)
  BY <1>2 DEF Unsent, Text, Buffers
<1>4. Len(inbox[Other(p)][Sink(p)]) \in Nat /\ Len(Unsent(ob[p])) \in Nat /\ Room \in Nat
  BY <1>2, <1>3, BoundsAssumption DEF Text
<1>5. ASSUME "OUT" \in ev.e
      PROVE  \E n \in 0 .. Len(Unsent(ob[p])) :
               /\ sent = SubSeq(Unsent(ob[p]), 1, n)
               /\ FarOpen(p, fd) => n <= Room - Len(inbox[Other(p)][Sink(p)])
  <2> DEFINE u == Unsent(ob[p])
             r == Room - Len(inbox[Other(p)][Sink(p)])
  <2>1. r \in Nat /\ Len(u) \in Nat
    BY <1>2, <1>4
  <2>2. FarInbox(p, fd) = inbox[Other(p)][Sink(p)]
    BY <1>1 DEF FarInbox
  <2>3. CASE FarOpen(p, fd)
    <3>1. sent = SubSeq(u, 1, Min({r, Len(u)}))
      BY <1>5, <2>2, <2>3 DEF Sendable
    <3> HIDE DEF u, r, sent
    <3>2. Min({r, Len(u)}) \in 0 .. Len(u) /\ Min({r, Len(u)}) <= r
      BY <2>1, MinOfTwo, Zenon
    <3> QED
      BY <3>1, <3>2 DEF u, r
  <2>4. CASE ~FarOpen(p, fd)
    <3>1. sent = u
      BY <1>5, <2>4 DEF Sendable
    <3>2. u = SubSeq(u, 1, Len(u)) /\ Len(u) \in 0 .. Len(u)
      BY <1>3, <2>1, SubSeqFull DEF Text
    <3> QED
      BY <2>4, <3>1, <3>2
  <2> QED
    BY <2>3, <2>4
<1>6. Sending(p, sent, left) /\ (~outbuf_empty(left) => ~outbuf_empty(ob[p]))
  <2>1. CASE "OUT" \in ev.e
    <3>1. PICK n \in 0 .. Len(Unsent(ob[p])) :
               /\ sent = SubSeq(Unsent(ob[p]), 1, n)
               /\ FarOpen(p, fd) => n <= Room - Len(inbox[Other(p)][Sink(p)])
      BY <1>5, <2>1
    <3>2. left = outbuf_flush_fd(ob[p], sent)
      BY <2>1
    <3> HIDE DEF sent, left
    <3>3. /\ sent \in Seq(Piece(p)) /\ Len(sent) = n
          /\ outbuf_flush_fd(ob[p], sent) \in Buffers(Piece(p))
          /\ sent \o Unsent(outbuf_flush_fd(ob[p], sent)) = Unsent(ob[p])
          /\ ~outbuf_empty(outbuf_flush_fd(ob[p], sent)) => ~outbuf_empty(ob[p])
      <4> DEFINE b == ob[p]
      <4>1. b \in Buffers(Piece(p)) /\ n \in 0 .. Len(Unsent(b)) /\ sent = SubSeq(Unsent(b), 1, n)
        BY <1>2, <3>1, Zenon
      <4> HIDE DEF b
      <4>2. /\ sent \in Seq(Piece(p)) /\ Len(sent) = n
            /\ outbuf_flush_fd(b, sent) \in Buffers(Piece(p))
            /\ sent \o Unsent(outbuf_flush_fd(b, sent)) = Unsent(b)
            /\ ~outbuf_empty(outbuf_flush_fd(b, sent)) => ~outbuf_empty(b)
        BY <4>1, FlushUnsent, Zenon
      <4> QED
        BY <4>2 DEF b
    <3>4. FarOpen(p, fd) => Len(inbox[Other(p)][Sink(p)]) + Len(sent) <= Room
      <4>1. \A x, y, r \in Nat : y <= r - x => x + y <= r
        OBVIOUS
      <4>2. n \in Nat
        BY <1>4
      <4> QED
        BY <1>4, <3>1, <3>3, <4>1, <4>2, Zenon
    <3> QED
      BY <3>2, <3>3, <3>4 DEF Sending, Text
  <2>2. CASE ~("OUT" \in ev.e)
    <3>1. sent = <<>> /\ left = ob[p]
      BY <2>2
    <3> HIDE DEF sent, left
    <3>2. <<>> \in Text(p) /\ <<>> \o Unsent(ob[p]) = Unsent(ob[p])
      BY <1>3, EmptySeq, ConcatEmptySeq DEF Text
    <3>3. Len(<<>>) = 0
      OBVIOUS
    <3> QED
      BY <1>2, <1>4, <3>1, <3>2, <3>3 DEF Sending
  <2> QED
    BY <2>1, <2>2
<1>7. ~outbuf_empty(left) => "OUT" \in interest'[p][fd]
  <2>1. ~outbuf_empty(ob[p]) => "OUT" \in interest[p][fd]
    BY DEF WaitsForRoom
  <2>2. IF "OUT" \in ev.e THEN WatchAfter(p, left) ELSE UNCHANGED interest
    BY DEF Conveys
  <2> HIDE DEF left, sent
  <2>3. outbuf_empty(left) \/ interest' = interest
    BY <2>2 DEF WatchAfter
  <2> QED
    BY <1>6, <2>1, <2>3
<1>8. \E m \in 0 .. Len(inbox[p][fd]) :
           /\ shown' = [shown EXCEPT ![p] = @ \o SubSeq(inbox[p][fd], 1, m)]
           /\ inbox' = [inbox EXCEPT ![p][fd] = SubSeq(@, m + 1, Len(@)),
                                     ![far[1]][far[2]] = IF FarOpen(p, fd) THEN @ \o sent ELSE @]
  <2>1. Len(inbox[p][fd]) \in Nat
    BY <1>2 DEF Text
  <2>2. PICK m \in IF "IN" \in ev.e THEN 1 .. Len(inbox[p][fd]) ELSE {0} :
           /\ shown' = [shown EXCEPT ![p] = @ \o SubSeq(inbox[p][fd], 1, m)]
           /\ inbox' = [inbox EXCEPT ![p][fd] = SubSeq(@, m + 1, Len(@)),
                                     ![far[1]][far[2]] = IF FarOpen(p, fd) THEN @ \o sent ELSE @]
    BY Zenon DEF Conveys
  <2>3. m \in 0 .. Len(inbox[p][fd])
    BY <2>1
  <2> QED
    BY <2>2, <2>3, Zenon
<1>9. ob' = [ob EXCEPT ![p] = left]
  BY DEF Conveys
<1> HIDE DEF sent, left
<1> QED
  BY <1>1, <1>6, <1>7, <1>8, <1>9, Zenon

\* What no step undoes: a peer that is established stays so, on the same
\* socket, whose other end does not come back.
Monotone(p) ==
  /\ established_fd'[p] = None => established_fd[p] = None
  /\ stage'[p] \in Before => stage[p] \in Before
  /\ stage'[p] = "stage2" => stage[p] \in Before \cup {"stage2"}
  /\ stage[p] \notin Before /\ established_fd[p] # None =>
       established_fd'[p] = established_fd[p] /\ Sink(p)' = Sink(p)
  /\ stage[p] = "stage2" /\ FarOpen(p, established_fd[p])' => FarOpen(p, established_fd[p])

\* No step undoes it: a connection, once accepted or connected, is kept until
\* the process ends.
LEMMA MonotoneStep ==
  ASSUME ControlOK, \A p \in Peer : Sockets(p), [Next]_vars, NEW p \in Peer
  PROVE  Monotone(p)
<1> DEFINE q == Other(p)
           C(x) == ends[x]["cfd"]
           A(x) == ends[x]["afd"]
<1>1. q \in Peer /\ Other(q) = p /\ q = Other(p) /\ p # q /\ \A x \in Peer : x = p \/ x = q
  BY Others
<1>2. /\ SocketState(stage[p], C(p), A(p), C(q), A(q), crossed, established_fd[p], cfd[p])
      /\ SocketState(stage[q], C(q), A(q), C(p), A(p), crossed, established_fd[q], cfd[q])
      /\ \A ev \in evs[p] : EventOK(p, ev)
      /\ \A ev \in evs[q] : EventOK(q, ev)
  BY <1>1 DEF Sockets
<1>3. /\ established_fd[p] \in {None, "cfd", "afd"}
      /\ stage[p] \in {"start", "listening", "stage1", "stage2", "exited"}
      /\ A(q) \in {None, "syn", "refused", "queued", "open", "closed"}
  BY <1>1 DEF ControlOK, Socket
<1> HIDE DEF q
<1>4. Sink(p) = IF established_fd[p] = "afd" \/ crossed THEN "cfd" ELSE "afd"
  BY DEF Sink, Far
<1>5. Sink(p)' = IF established_fd'[p] = "afd" \/ crossed' THEN "cfd" ELSE "afd"
  BY DEF Sink, Far
<1>6. FarOpen(p, established_fd[p]) <=>
        IF established_fd[p] = "afd" \/ crossed THEN C(q) \in {"queued", "open"} ELSE A(q) \in {"queued", "open"}
  BY DEF FarOpen, Far, Open, q
<1>7. FarOpen(p, established_fd[p])' <=>
        IF established_fd'[p] = "afd" \/ crossed' THEN ends'[q]["cfd"] \in {"queued", "open"}
        ELSE ends'[q]["afd"] \in {"queued", "open"}
  BY DEF FarOpen, Far, Open, q
<1>a. \A x \in Peer, s \in Socket : \A e : ends' = [ends EXCEPT ![x][s] = e] =>
        \A y \in Peer, t \in Socket : ends'[y][t] = IF y = x /\ t = s THEN e ELSE ends[y][t]
  BY DEF ControlOK
<1>b. \A x \in Peer : ends' = [ends EXCEPT ![x]["cfd"] = "open", ![Other(x)]["afd"] = "queued"] =>
        \A y \in Peer : /\ ends'[y]["cfd"] = IF y = x THEN "open" ELSE C(y)
                        /\ ends'[y]["afd"] = IF y = Other(x) THEN "queued" ELSE A(y)
  <2> SUFFICES ASSUME NEW x \in Peer, ends' = [ends EXCEPT ![x]["cfd"] = "open", ![Other(x)]["afd"] = "queued"],
                      NEW y \in Peer
               PROVE  /\ ends'[y]["cfd"] = IF y = x THEN "open" ELSE C(y)
                      /\ ends'[y]["afd"] = IF y = Other(x) THEN "queued" ELSE A(y)
    OBVIOUS
  <2>1. Other(x) \in Peer /\ x # Other(x)
    BY Others
  <2> QED
    BY <2>1 DEF ControlOK, Socket
<1>c. "cfd" \in Socket /\ "afd" \in Socket
  BY DEF Socket
<1>8. ASSUME stage'[p] = stage[p], established_fd'[p] = established_fd[p], crossed' = crossed,
             ends'[q]["cfd"] \in {"queued", "open"} => C(q) \in {"queued", "open"},
             ends'[q]["afd"] \in {"queued", "open"} => A(q) \in {"queued", "open"}
      PROVE  Monotone(p)
  BY <1>3, <1>4, <1>5, <1>6, <1>7, <1>8 DEF Monotone
<1>9. CASE UNCHANGED <<stage, established_fd, crossed, ends>>
  BY <1>8, <1>9
<1>10. ASSUME NEW x \in Peer, SynArrives(x)
       PROVE  Monotone(p)
  <2>1. stage' = stage /\ established_fd' = established_fd
    BY <1>10 DEF SynArrives, mainVars
  <2>2. /\ C(x) = "syn"
        /\ \/ /\ C(p) = "syn" /\ C(q) = "syn"
           \/ /\ crossed' = crossed
              /\ \/ ends' = [ends EXCEPT ![x]["cfd"] = "open", ![Other(x)]["afd"] = "queued"]
                 \/ ends' = [ends EXCEPT ![x]["cfd"] = "refused"]
    <3>1. CASE ends[Other(x)]["cfd"] = "syn" /\ bound[x] /\ bound[Other(x)]
      BY <1>1, <1>10, <3>1 DEF SynArrives
    <3>2. CASE ~(ends[Other(x)]["cfd"] = "syn" /\ bound[x] /\ bound[Other(x)])
      BY <1>10, <3>2 DEF SynArrives
    <3> QED
      BY <3>1, <3>2
  <2>3. CASE C(p) = "syn" /\ C(q) = "syn"
    <3>1. stage[p] # "stage2" /\ ~(stage[p] \notin Before /\ established_fd[p] # None)
      BY <1>2, <1>3, <2>3 DEF SocketState, Before, None
    <3> QED
      BY <2>1, <3>1 DEF Monotone
  <2>4. CASE x = p /\ ~(C(p) = "syn" /\ C(q) = "syn")
    <3>1. ends'[q]["cfd"] = C(q) /\ (ends'[q]["afd"] = A(q) \/ stage[p] # "stage2" \/ established_fd[p] = "afd")
      <4>1. CASE ends' = [ends EXCEPT ![x]["cfd"] = "open", ![Other(x)]["afd"] = "queued"]
        <5>1. ends'[q]["cfd"] = C(q)
          <6>1. \A y \in Peer : ends'[y]["cfd"] = IF y = x THEN "open" ELSE C(y)
            BY <1>b, <4>1, Zenon
          <6> QED
            BY <1>1, <2>4, <6>1
        <5>2. stage[p] = "stage2" => established_fd[p] = "afd"
          BY <1>2, <1>3, <2>2, <2>4 DEF SocketState, None
        <5> QED
          BY <5>1, <5>2
      <4>2. CASE ends' = [ends EXCEPT ![x]["cfd"] = "refused"]
        BY <1>1, <1>a, <1>c, <2>4, <4>2
      <4> QED
        BY <2>2, <2>4, <4>1, <4>2
    <3> QED
      BY <1>2, <1>3, <1>4, <1>5, <1>6, <1>7, <2>1, <2>2, <2>4, <3>1 DEF Monotone
  <2>5. CASE x = q /\ ~(C(p) = "syn" /\ C(q) = "syn")
    <3>1. ends'[q]["afd"] = A(q) /\ (ends'[q]["cfd"] = C(q) \/ established_fd[p] # "afd" \/ stage[p] # "stage2")
      <4>1. stage[p] = "stage2" => established_fd[p] # "afd"
        BY <1>2, <1>3, <2>2, <2>5 DEF SocketState, None
      <4>2. ends'[q]["afd"] = A(q)
        <5>1. CASE ends' = [ends EXCEPT ![x]["cfd"] = "open", ![Other(x)]["afd"] = "queued"]
          <6>1. \A y \in Peer : ends'[y]["afd"] = IF y = Other(x) THEN "queued" ELSE A(y)
            BY <1>b, <5>1, Zenon
          <6> QED
            BY <1>1, <2>5, <6>1
        <5>2. CASE ends' = [ends EXCEPT ![x]["cfd"] = "refused"]
          BY <1>1, <1>a, <1>c, <2>5, <5>2
        <5> QED
          BY <2>2, <2>5, <5>1, <5>2
      <4> QED
        BY <4>1, <4>2
    <3>2. crossed => C(q) # "syn"
      BY <1>2 DEF SocketState
    <3> QED
      BY <1>2, <1>3, <1>4, <1>5, <1>6, <1>7, <2>1, <2>2, <2>5, <3>1, <3>2 DEF Monotone
  <2> QED
    BY <1>1, <2>3, <2>4, <2>5
<1>11. ASSUME NEW x \in Peer, Listen(x)
       PROVE  Monotone(p)
  <2>1. UNCHANGED <<established_fd, crossed, ends>> /\ stage[x] = "start" /\ stage' = [stage EXCEPT ![x] = "listening"]
    BY <1>11 DEF Listen, mainVars, kernelVars
  <2> QED
    BY <1>1, <1>3, <1>4, <1>5, <1>6, <1>7, <1>8, <2>1 DEF Monotone, ControlOK, Before
<1>12. ASSUME NEW x \in Peer, Connect(x)
       PROVE  Monotone(p)
  <2>1. /\ UNCHANGED <<established_fd, crossed>> /\ stage[x] = "listening" /\ stage' = [stage EXCEPT ![x] = "stage1"]
        /\ ends' = [ends EXCEPT ![x]["cfd"] = "syn"] \/ ends' = [ends EXCEPT ![x]["cfd"] = None]
    BY <1>12 DEF Connect
  <2>2. ends'[q]["afd"] = A(q) /\ ends'[q]["cfd"] \in {C(q), None, "syn"}
    BY <1>1, <1>a, <1>c, <2>1
  <2>3. stage'[p] = stage[p] \/ (stage[p] = "listening" /\ stage'[p] = "stage1")
    BY <2>1 DEF ControlOK
  <2> QED
    BY <1>3, <1>4, <1>5, <1>6, <1>7, <2>1, <2>2, <2>3 DEF Monotone, None, Before
<1>13. ASSUME NEW x \in Peer, NEW ev \in evs[x], Stage1Event(x, ev)
       PROVE  Monotone(p)
  <2>1. stage' = stage /\ crossed' = crossed /\ stage[x] = "stage1"
    BY <1>13 DEF Stage1Event
  <2>2. CASE Accepts(x, ev)
    <3>1. /\ ends' = [ends EXCEPT ![x]["afd"] = "open"] /\ established_fd' = [established_fd EXCEPT ![x] = "afd"]
          /\ ev.fd = "lfd"
      BY <2>2 DEF Accepts
    <3>2. x = q => A(q) \in {"queued", "open"}
      BY <1>2, <1>3, <1>13, <2>1, <3>1 DEF EventOK, SocketState, Before, None
    <3>3. ends'[q]["cfd"] = C(q) /\ (ends'[q]["afd"] = A(q) \/ x = q)
      BY <1>1, <3>1 DEF ControlOK, Socket
    <3>4. established_fd'[p] = established_fd[p] \/ (x = p /\ established_fd'[p] = "afd")
      BY <1>1, <3>1 DEF ControlOK
    <3> QED
      BY <1>3, <1>4, <1>5, <1>6, <1>7, <2>1, <3>2, <3>3, <3>4 DEF Monotone, Before, None
  <2>3. CASE Connected(x, ev)
    <3>1. ends' = ends /\ established_fd' = [established_fd EXCEPT ![x] = "cfd"]
      BY <2>3 DEF Connected
    <3>2. established_fd'[p] = established_fd[p] \/ (x = p /\ established_fd'[p] = "cfd")
      BY <1>1, <3>1 DEF ControlOK
    <3> QED
      BY <1>3, <1>4, <1>5, <1>6, <1>7, <2>1, <3>1, <3>2 DEF Monotone, Before, None
  <2>4. CASE ConnectFailed(x, ev) \/ Ignored(ev)
    BY <1>9, <2>1, <2>4 DEF ConnectFailed, Ignored, mainVars
  <2> QED
    BY <1>13, <2>2, <2>3, <2>4 DEF Stage1Event
<1>14. ASSUME NEW x \in Peer, Establish(x) \/ Exit(x)
       PROVE  Monotone(p)
  <2>1. /\ UNCHANGED <<established_fd, crossed>>
        /\ \/ stage[x] = "stage1" /\ stage' = [stage EXCEPT ![x] = "stage2"]
           \/ stage' = [stage EXCEPT ![x] = "exited"]
        /\ \E un \in SUBSET Socket : ends' = Closed(x, un)
    BY <1>14 DEF Establish, Exit, mainVars, Unused
  <2>2. /\ ends'[q]["cfd"] \in {C(q), "closed"} /\ ends'[q]["afd"] \in {A(q), "closed"}
    BY <1>1, <2>1 DEF Closed, ControlOK, Socket
  <2>3. stage'[p] = stage[p] \/ (stage[p] = "stage1" /\ stage'[p] = "stage2") \/ stage'[p] = "exited"
    BY <2>1 DEF ControlOK
  <2> QED
    BY <1>3, <1>4, <1>5, <1>6, <1>7, <2>1, <2>2, <2>3 DEF Monotone, Before, None
<1>15. ASSUME Next PROVE Monotone(p)
  <2>1. PICK x \in Peer : SynArrives(x) \/ Type(x) \/ on_sigint(x) \/ Main(x)
    BY <1>15 DEF Next
  <2>2. CASE Handles(x)
    <3>1. PICK ev \in evs[x] : Stage1Event(x, ev) \/ Stage2Event(x, ev)
      BY <2>2 DEF Handles
    <3>2. CASE Stage2Event(x, ev)
      BY <1>9, <3>2 DEF Stage2Event, mainVars
    <3> QED
      BY <1>13, <3>1, <3>2
  <2>3. CASE Type(x) \/ on_sigint(x) \/ epoll_wait(x)
    BY <1>9, <2>3 DEF Type, on_sigint, epoll_wait, kernelVars, mainVars
  <2> QED
    BY <1>10, <1>11, <1>12, <1>14, <2>1, <2>2, <2>3 DEF Main
<1>16. CASE UNCHANGED vars
  BY <1>9, <1>16 DEF vars, kernelVars, mainVars
<1> QED
  BY <1>15, <1>16

\* A peer that never came to chat has read and sent nothing.
Silent(p) ==
  established_fd[p] = None \/ stage[p] \in Before =>
    /\ typed[p].main = 0 /\ ob[p] = outbuf_init /\ shown[Other(p)] = <<>>
    /\ \A s \in Socket : inbox[Other(p)][s] = <<>>

\* What one that did has read is on its way to the socket it sends to, and
\* until that is closed nothing of it was dropped.
InTransit(p, rest) == Carries(shown[Other(p)], inbox[Other(p)][Sink(p)], rest, typed[p].main)

Flow(p) ==
  established_fd[p] # None =>
    /\ \A s \in Socket : s # Sink(p) => inbox[Other(p)][s] = <<>>
    /\ shown[Other(p)] # <<>> => established_fd[Other(p)] = Sink(p) /\ stage[Other(p)] \notin Before
    /\ \E rest \in Text(p) : InTransit(p, rest)
    /\ stage[p] = "stage2" /\ FarOpen(p, established_fd[p]) => InTransit(p, Unsent(ob[p]))

\* Steps that neither read from stdin nor convey keep both.
LEMMA FlowKept ==
  ASSUME NEW p \in Peer, ControlOK, ControlOK', \A x \in Peer : Sockets(x), \A x \in Peer : Sockets(x)',
         \A x \in Peer : Silent(x), \A x \in Peer : Flow(x), \A x \in Peer : Monotone(x),
         inbox' = inbox, shown' = shown, typed'[p].main = typed[p].main,
         ob'[p] = ob[p] \/ (ob'[p] = outbuf_init /\ stage'[p] = "exited")
  PROVE  Silent(p)' /\ Flow(p)'
<1> DEFINE q == Other(p)
<1>1. q \in Peer /\ Other(q) = p /\ p # q
  BY Others
<1>2. Monotone(p) /\ Monotone(q) /\ Silent(p) /\ Flow(p)
  BY <1>1
<1>3. Silent(p)'
  BY <1>2 DEF Silent, Monotone
<1>4. CASE established_fd[p] = None \/ stage[p] \in Before
  <2>1. typed[p].main = 0 /\ ob[p] = outbuf_init /\ shown[q] = <<>> /\ \A s \in Socket : inbox[q][s] = <<>>
    BY <1>2, <1>4 DEF Silent
  <2>2. /\ typed'[p].main = 0 /\ ob'[p] = outbuf_init /\ shown'[q] = <<>>
        /\ \A s \in Socket : inbox'[q][s] = <<>>
    BY <2>1
  <2>3. Sink(p)' \in Socket
    BY DEF Sink, Far, Socket
  <2>4. Unsent(ob[p])' = <<>> /\ <<>> \in Text(p)
    BY <2>2 DEF Unsent, outbuf_init, Text
  <2>5. Carries(shown'[q], inbox'[q][Sink(p)'], <<>>, typed'[p].main)
    BY <2>2, <2>3, CarriesNothing
  <2>6. InTransit(p, <<>>)' /\ InTransit(p, Unsent(ob[p]))'
    BY <2>4, <2>5 DEF InTransit
  <2>7. \E rest \in Text(p) : InTransit(p, rest)'
    BY <2>4, <2>6
  <2> QED
    BY <1>3, <2>2, <2>6, <2>7 DEF Flow
<1>5. CASE ~(established_fd[p] = None \/ stage[p] \in Before)
  <2>1. /\ established_fd'[p] = established_fd[p] /\ Sink(p)' = Sink(p)
        /\ stage'[p] = "stage2" => stage[p] = "stage2"
        /\ stage[p] = "stage2" /\ FarOpen(p, established_fd[p])' => FarOpen(p, established_fd[p])
    BY <1>2, <1>5 DEF Monotone
  <2>2. /\ \A s \in Socket : s # Sink(p) => inbox[q][s] = <<>>
        /\ shown[q] # <<>> => established_fd[q] = Sink(p) /\ stage[q] \notin Before
        /\ \E rest \in Text(p) : InTransit(p, rest)
        /\ stage[p] = "stage2" /\ FarOpen(p, established_fd[p]) => InTransit(p, Unsent(ob[p]))
    BY <1>2, <1>5 DEF Flow
  <2>3. \A rest : InTransit(p, rest)' <=> InTransit(p, rest)
    BY <2>1 DEF InTransit
  <2>4. shown'[q] # <<>> => established_fd'[q] = Sink(p) /\ stage'[q] \notin Before
    <3>1. Sink(p) # None
      BY DEF Sink, Far, None
    <3> QED
      BY <1>2, <2>2, <3>1 DEF Monotone
  <2>5. stage'[p] = "stage2" => Unsent(ob[p])' = Unsent(ob[p])
    BY DEF Unsent
  <2>6. stage'[p] = "stage2" /\ FarOpen(p, established_fd[p])' => InTransit(p, Unsent(ob[p]))'
    BY <2>1, <2>2, <2>3, <2>5 DEF InTransit
  <2>7. \E rest \in Text(p) : InTransit(p, rest)'
    BY <2>2, <2>3
  <2> QED
    BY <1>3, <2>1, <2>2, <2>4, <2>6, <2>7 DEF Flow
<1> QED
  BY <1>4, <1>5

\* The parts of what is in transit are sequences of pieces of text.
LEMMA TransitTypes ==
  ASSUME DataOK, NEW p \in Peer
  PROVE  /\ shown[Other(p)] \in Text(p) /\ \A s \in Socket : inbox[Other(p)][s] \in Text(p)
         /\ Unsent(ob[p]) \in Text(p) /\ ob[p] \in Buffers(Piece(p))
         /\ typed[p].main \in Nat /\ typed[p].user \in Nat /\ MaxTyped[p] \in Nat
         /\ typed[p].main <= typed[p].user /\ typed[p].user <= MaxTyped[p] /\ Piece(p) = 1 .. MaxTyped[p]
<1>1. Other(p) \in Peer /\ Other(Other(p)) = p
  BY Others
<1>2. ob[p] \in Buffers(Piece(p))
  BY DEF DataOK
<1>3. Unsent(ob[p]) \in Text(p)
  BY <1>2 DEF Unsent, Text, Buffers
<1>4. MaxTyped[p] \in Nat
  BY BoundsAssumption DEF Peer
<1> QED
  BY <1>1, <1>2, <1>3, <1>4 DEF DataOK, Piece

\* What is read from stdin goes to the end of the outbuf.
LEMMA ReadStdinFlow ==
  ASSUME ControlOK, DataOK, \A x \in Peer : Sockets(x), \A x \in Peer : Silent(x), \A x \in Peer : Flow(x),
         NEW p \in Peer, NEW ev, stage[p] = "stage2", ReadStdin(p, ev),
         UNCHANGED <<stage, ends, crossed, established_fd>>
  PROVE  DataOK' /\ \A x \in Peer : Silent(x)' /\ Flow(x)'
<1> DEFINE q == Other(p)
           n == typed[p].main
           k == MaxTyped[p]
<1>1. q \in Peer /\ Other(q) = p /\ q = Other(p) /\ p # q /\ \A x \in Peer : x = p \/ x = q
  BY Others
<1>2. /\ shown[q] \in Text(p) /\ \A s \in Socket : inbox[q][s] \in Text(p)
      /\ Unsent(ob[p]) \in Text(p) /\ ob[p] \in Buffers(Piece(p))
      /\ n \in Nat /\ typed[p].user \in Nat /\ k \in Nat
      /\ n <= typed[p].user /\ typed[p].user <= k /\ Piece(p) = 1 .. k
  BY TransitTypes
<1>a. PICK m \in n + 1 .. typed[p].user :
        /\ typed' = [typed EXCEPT ![p].main = m]
        /\ ob' = [ob EXCEPT ![p] = outbuf_append(@, Newer(n, m))]
  BY DEF ReadStdin, Newer
<1>b. PICK news : news = Newer(n, m)
  OBVIOUS
<1>3. /\ typed' = [typed EXCEPT ![p].main = m]
      /\ ob' = [ob EXCEPT ![p] = outbuf_append(@, news)]
  BY <1>a, <1>b
<1>4. m \in Nat /\ n <= m /\ m <= k /\ m <= typed[p].user
  BY <1>2
<1>5. inbox' = inbox /\ shown' = shown
  BY DEF ReadStdin
<1>6. news \in Seq(Piece(p))
  BY <1>2, <1>4, <1>b, UptoMore
<1>7. /\ outbuf_append(ob[p], news) \in Buffers(Piece(p))
      /\ Unsent(outbuf_append(ob[p], news)) = Unsent(ob[p]) \o news
  BY <1>2, <1>6, AppendUnsent
<1> HIDE DEF q, n, k
<1>8. /\ ob'[p] \in Buffers(Piece(p)) /\ Unsent(ob'[p]) = Unsent(ob[p]) \o news /\ ob'[q] = ob[q]
      /\ DOMAIN ob' = Peer
  BY <1>1, <1>3, <1>7 DEF DataOK
<1>9. /\ typed' \in [Peer -> [user : Nat, main : Nat]]
      /\ typed'[p].main = m /\ typed'[p].user = typed[p].user /\ typed'[q] = typed[q]
  BY <1>1, <1>3, <1>4 DEF DataOK
<1>10. DataOK'
  <2>1. ASSUME NEW x \in Peer PROVE ob'[x] \in Buffers(Piece(x))
    BY <1>1, <1>8 DEF DataOK
  <2>2. ASSUME NEW x \in Peer PROVE typed'[x].main <= typed'[x].user /\ typed'[x].user <= MaxTyped[x]
    <3>1. CASE x = p
      BY <1>2, <1>4, <1>9, <3>1 DEF k
    <3>2. CASE x = q
      BY <1>1, <1>9, <3>2 DEF DataOK
    <3> QED
      BY <1>1, <3>1, <3>2
  <2> QED
    BY <1>5, <1>8, <1>9, <2>1, <2>2 DEF DataOK
<1>11. Silent(p)' /\ Silent(q)'
  <2>1. established_fd[p] # None /\ stage[p] \notin Before
    BY DEF Sockets, SocketState, Before
  <2>2. Silent(q)
    BY <1>1
  <2>3. Silent(p)'
    BY <2>1 DEF Silent
  <2>4. Silent(q)'
    BY <1>1, <1>5, <1>8, <1>9, <2>2 DEF Silent
  <2> QED
    BY <2>3, <2>4
<1>12. Sink(p)' = Sink(p) /\ Sink(q)' = Sink(q)
  BY DEF Sink, Far
<1>13. FarOpen(p, established_fd[p])' = FarOpen(p, established_fd[p])
  BY DEF FarOpen, Far, Open
<1>14. FarOpen(q, established_fd[q])' = FarOpen(q, established_fd[q])
  BY DEF FarOpen, Far, Open
<1>15. Flow(q)'
  <2>1. Flow(q)
    BY <1>1
  <2>2. \A rest : InTransit(q, rest)' <=> InTransit(q, rest)
    BY <1>1, <1>5, <1>9, <1>12 DEF InTransit
  <2>3. Unsent(ob[q])' = Unsent(ob[q])
    BY <1>8 DEF Unsent
  <2>4. InTransit(q, Unsent(ob[q]))' <=> InTransit(q, Unsent(ob[q]))
    BY <2>2, <2>3 DEF InTransit
  <2> QED
    BY <1>1, <1>5, <1>12, <1>14, <2>1, <2>2, <2>4 DEF Flow
<1>16. Flow(p)'
  <2>1. Flow(p) /\ established_fd[p] # None /\ Sink(p) \in Socket
    BY DEF Sockets, SocketState, Sink, Far, Socket
  <2>2. ASSUME NEW rest \in Text(p), InTransit(p, rest)
        PROVE  rest \o news \in Text(p) /\ InTransit(p, rest \o news)'
    <3> DEFINE a == shown[q]
               b == inbox[q][Sink(p)]
    <3>1. a \in Seq(1 .. k) /\ b \in Seq(1 .. k) /\ rest \in Seq(1 .. k) /\ Carries(a, b, rest, n)
      BY <1>2, <2>1, <2>2 DEF Text, InTransit, q, n
    <3> HIDE DEF a, b
    <3>2. rest \o Newer(n, m) \in Seq(1 .. k) /\ Carries(a, b, rest \o Newer(n, m), m)
      BY <1>2, <1>4, <3>1, CarriesTyped, Zenon
    <3>3. rest \o news \in Seq(1 .. k) /\ Carries(a, b, rest \o news, m)
      BY <1>b, <3>2, Zenon
    <3>4. Carries(shown'[q], inbox'[q][Sink(p)'], rest \o news, typed'[p].main)
      BY <1>5, <1>9, <1>12, <3>3 DEF a, b
    <3> QED
      BY <1>2, <3>3, <3>4 DEF Text, InTransit, q
  <2>3. PICK rest \in Text(p) : InTransit(p, rest)
    BY <2>1 DEF Flow
  <2>4. PICK more \in Text(p) : InTransit(p, more)'
    BY <2>2, <2>3
  <2>5. PICK u : u = Unsent(ob[p])
    OBVIOUS
  <2>6. Unsent(ob[p])' = u \o news
    BY <1>8, <2>5 DEF Unsent
  <2>7. ASSUME FarOpen(p, established_fd[p])
        PROVE  InTransit(p, u \o news)'
    <3>1. InTransit(p, Unsent(ob[p]))
      BY <2>1, <2>7 DEF Flow
    <3>2. u \in Text(p) /\ InTransit(p, u)
      BY <1>2, <2>5, <3>1 DEF InTransit
    <3> QED
      BY <2>2, <3>2
  <2>8. FarOpen(p, established_fd[p])' => InTransit(p, Unsent(ob[p]))'
    BY <1>13, <2>6, <2>7 DEF InTransit
  <2> QED
    BY <1>1, <1>5, <1>12, <2>1, <2>4, <2>8 DEF Flow
<1> QED
  BY <1>1, <1>10, <1>11, <1>15, <1>16

\* What is received was in transit from the other peer, and what is sent goes
\* on to it.
LEMMA ConveysFlow ==
  ASSUME ControlOK, DataOK, WaitsForRoom,
         \A x \in Peer : Sockets(x), \A x \in Peer : Silent(x), \A x \in Peer : Flow(x),
         NEW p \in Peer, NEW ev, stage[p] = "stage2", Conveys(p, ev),
         UNCHANGED <<stage, ends, crossed, established_fd>>
  PROVE  /\ DataOK' /\ \A x \in Peer : Silent(x)' /\ Flow(x)'
         /\ ob'[Other(p)] = ob[Other(p)]
         /\ ~outbuf_empty(ob'[p]) => "OUT" \in interest'[p][established_fd[p]]
<1> DEFINE q == Other(p)
           fd == established_fd[p]
           t == Sink(p)
<1>1. q \in Peer /\ Other(q) = p /\ q = Other(p) /\ p # q /\ \A x \in Peer : x = p \/ x = q
  BY Others
<1>2. fd \in Socket /\ t \in Socket
  BY DEF ControlOK, Sockets, SocketState, Sink, Far, Socket
<1>3. PICK sent, left : \E m \in 0 .. Len(inbox[p][fd]) :
        /\ Sending(p, sent, left)
        /\ shown' = [shown EXCEPT ![p] = @ \o SubSeq(inbox[p][fd], 1, m)]
        /\ inbox' = [inbox EXCEPT ![p][fd] = SubSeq(@, m + 1, Len(@)),
                                  ![q][t] = IF FarOpen(p, fd) THEN @ \o sent ELSE @]
        /\ ob' = [ob EXCEPT ![p] = left]
        /\ ~outbuf_empty(left) => "OUT" \in interest'[p][fd]
  BY <1>2, ConveysParts
<1>4. PICK m \in 0 .. Len(inbox[p][fd]) :
        /\ Sending(p, sent, left)
        /\ shown' = [shown EXCEPT ![p] = @ \o SubSeq(inbox[p][fd], 1, m)]
        /\ inbox' = [inbox EXCEPT ![p][fd] = SubSeq(@, m + 1, Len(@)),
                                  ![q][t] = IF FarOpen(p, fd) THEN @ \o sent ELSE @]
        /\ ob' = [ob EXCEPT ![p] = left]
        /\ ~outbuf_empty(left) => "OUT" \in interest'[p][fd]
  BY <1>3
<1>5. PICK had, first, second, out :
        /\ had = inbox[p][fd] /\ first = SubSeq(had, 1, m) /\ second = SubSeq(had, m + 1, Len(had))
        /\ out = IF FarOpen(p, fd) THEN inbox[q][t] \o sent ELSE inbox[q][t]
  OBVIOUS
<1>6. /\ \A x \in Peer, s \in Socket : inbox[x][s] \in Text(Other(x)) /\ Len(inbox[x][s]) <= Room
      /\ \A x \in Peer : shown[x] \in Text(Other(x)) /\ DOMAIN inbox[x] = Socket
      /\ DOMAIN inbox = Peer /\ DOMAIN ob = Peer /\ DOMAIN shown = Peer
  BY DEF DataOK
<1>7. /\ first \in Text(q) /\ second \in Text(q) /\ had = first \o second /\ Len(second) <= Room
      /\ had = <<>> => first = <<>> /\ second = <<>>
  <2>1. had \in Seq(Piece(q)) /\ m \in 0 .. Len(had) /\ Len(had) <= Room
    BY <1>1, <1>2, <1>5, <1>6 DEF Text
  <2>2. /\ first \in Seq(Piece(q)) /\ second \in Seq(Piece(q))
        /\ Len(first) = m /\ Len(second) = Len(had) - m /\ first \o second = had
    <3>1. /\ SubSeq(had, 1, m) \in Seq(Piece(q)) /\ SubSeq(had, m + 1, Len(had)) \in Seq(Piece(q))
          /\ Len(SubSeq(had, 1, m)) = m /\ Len(SubSeq(had, m + 1, Len(had))) = Len(had) - m
          /\ SubSeq(had, 1, m) \o SubSeq(had, m + 1, Len(had)) = had
      BY <2>1, Split, Zenon
    <3> QED
      BY <1>5, <3>1, Zenon
  <2>3. Len(had) \in Nat /\ m \in Nat /\ Room \in Nat
    BY <2>1, BoundsAssumption
  <2>4. Len(second) <= Room
    BY <2>1, <2>2, <2>3
  <2>5. ASSUME had = <<>> PROVE first = <<>> /\ second = <<>>
    <3>1. m \in 0 .. Len(<<>>)
      BY <2>1, <2>5, Zenon
    <3>2. SubSeq(<<>>, 1, m) = <<>> /\ SubSeq(<<>>, m + 1, Len(<<>>)) = <<>>
      BY <3>1, SplitNothing, Zenon
    <3> QED
      BY <1>5, <2>5, <3>2, Zenon
  <2> QED
    BY <2>2, <2>4, <2>5 DEF Text
<1>8. /\ sent \in Text(p) /\ left \in Buffers(Piece(p)) /\ sent \o Unsent(left) = Unsent(ob[p])
      /\ FarOpen(p, fd) => Len(inbox[q][t]) + Len(sent) <= Room
  BY <1>4 DEF Sending
<1>9. out \in Text(p) /\ Len(out) <= Room
  <2>1. inbox[q][t] \in Seq(Piece(p)) /\ Len(inbox[q][t]) <= Room /\ sent \in Seq(Piece(p))
    BY <1>1, <1>2, <1>6, <1>8 DEF Text
  <2>2. inbox[q][t] \o sent \in Seq(Piece(p)) /\ Len(inbox[q][t] \o sent) = Len(inbox[q][t]) + Len(sent)
    BY <2>1, ConcatProperties
  <2> QED
    BY <1>5, <1>8, <2>1, <2>2 DEF Text
<1>10. /\ shown'[p] = shown[p] \o first /\ shown'[q] = shown[q] /\ DOMAIN shown' = Peer
       /\ ob'[p] = left /\ ob'[q] = ob[q] /\ DOMAIN ob' = Peer
  BY <1>1, <1>4, <1>5, <1>6
<1>11. /\ DOMAIN inbox' = Peer /\ DOMAIN inbox'[p] = Socket /\ DOMAIN inbox'[q] = Socket
       /\ inbox'[p][fd] = second /\ inbox'[q][t] = out
       /\ \A s \in Socket : (s # fd => inbox'[p][s] = inbox[p][s]) /\ (s # t => inbox'[q][s] = inbox[q][s])
  <2>1. inbox' = [inbox EXCEPT ![p][fd] = second, ![q][t] = out]
    BY <1>4, <1>5, Zenon
  <2> QED
    BY <1>1, <1>2, <1>6, <2>1
<1>12. typed' = typed
  BY DEF Conveys
<1> HIDE DEF q, fd, t
<1>13. DataOK'
  <2>1. shown'[p] \in Text(q) /\ shown'[q] \in Text(p)
    <3>1. shown[p] \in Text(q) /\ shown[q] \in Text(p)
      BY <1>1, <1>6
    <3>2. shown[p] \o first \in Text(q)
      BY <1>7, <3>1, ConcatProperties DEF Text
    <3> QED
      BY <1>10, <3>1, <3>2
  <2>2. ob'[p] \in Buffers(Piece(p)) /\ ob'[q] \in Buffers(Piece(q))
    BY <1>1, <1>8, <1>10 DEF DataOK
  <2>3. /\ \A s \in Socket : inbox'[p][s] \in Text(q) /\ Len(inbox'[p][s]) <= Room
        /\ \A s \in Socket : inbox'[q][s] \in Text(p) /\ Len(inbox'[q][s]) <= Room
    BY <1>1, <1>6, <1>7, <1>9, <1>11
  <2>4. /\ typed \in [Peer -> [user : Nat, main : Nat]]
        /\ \A x \in Peer : typed[x].main <= typed[x].user /\ typed[x].user <= MaxTyped[x]
    BY DEF DataOK
  <2>5. \A x \in Peer :
          /\ DOMAIN inbox'[x] = Socket
          /\ \A s \in Socket : inbox'[x][s] \in Text(Other(x)) /\ Len(inbox'[x][s]) <= Room
          /\ ob'[x] \in Buffers(Piece(x)) /\ shown'[x] \in Text(Other(x))
    BY <1>1, <1>11, <2>1, <2>2, <2>3
  <2> QED
    BY <1>10, <1>11, <1>12, <2>4, <2>5 DEF DataOK
<1>14. established_fd[p] # None /\ stage[p] \notin Before
  BY <1>2 DEF Socket, None, Before, fd
<1>15. Silent(p)'
  BY <1>14 DEF Silent
<1>16. Silent(q)'
  <2>1. ASSUME established_fd[q] = None \/ stage[q] \in Before
        PROVE  /\ typed'[q].main = 0 /\ ob'[q] = outbuf_init /\ shown'[p] = <<>>
               /\ \A s \in Socket : inbox'[p][s] = <<>>
    <3>1. /\ typed[q].main = 0 /\ ob[q] = outbuf_init /\ shown[p] = <<>>
          /\ \A s \in Socket : inbox[p][s] = <<>>
      BY <1>1, <2>1 DEF Silent
    <3>2. first = <<>> /\ second = <<>>
      BY <1>2, <1>5, <1>7, <3>1
    <3>3. <<>> \o <<>> = <<>>
      OBVIOUS
    <3> QED
      BY <1>10, <1>11, <1>12, <3>1, <3>2, <3>3
  <2> QED
    BY <1>1, <2>1 DEF Silent
<1>17. Sink(p)' = Sink(p) /\ Sink(q)' = Sink(q)
  BY DEF Sink, Far
<1>18. FarOpen(p, established_fd[p])' = FarOpen(p, established_fd[p])
  BY DEF FarOpen, Far, Open
<1>19. FarOpen(q, established_fd[q])' = FarOpen(q, established_fd[q])
  BY DEF FarOpen, Far, Open
<1>20. Flow(p)'
  <2>1. Flow(p) /\ t = Sink(p)
    BY DEF t
  <2>2. \A s \in Socket : s # t => inbox'[q][s] = <<>>
    BY <1>1, <1>11, <1>14, <2>1 DEF Flow
  <2>3. shown'[q] # <<>> => established_fd[q] = t /\ stage[q] \notin Before
    BY <1>1, <1>10, <1>14, <2>1 DEF Flow
  <2>4. CASE FarOpen(p, fd)
    <3>1. PICK a, b, d, n : a = shown[q] /\ b = inbox[q][t] /\ d = Unsent(left) /\ n = typed[p].main
      OBVIOUS
    <3>2. a \in Seq(Piece(p)) /\ b \in Seq(Piece(p)) /\ d \in Seq(Piece(p)) /\ sent \in Seq(Piece(p))
      <4>1. d \in Seq(Piece(p))
        BY <1>8, <3>1, UnsentType, Zenon
      <4>2. a \in Seq(Piece(p)) /\ sent \in Seq(Piece(p))
        BY <1>1, <1>6, <1>8, <3>1 DEF Text
      <4>3. b \in Seq(Piece(p))
        BY <1>1, <1>2, <1>6, <3>1 DEF Text
      <4> QED
        BY <4>1, <4>2, <4>3
    <3>3. Carries(a, b, sent \o d, n)
      <4>1. InTransit(p, Unsent(ob[p]))
        BY <1>14, <2>1, <2>4 DEF Flow, fd
      <4> QED
        BY <1>1, <1>8, <2>1, <3>1, <4>1 DEF InTransit
    <3>4. Carries(a, b \o sent, d, n)
      BY <3>2, <3>3, CarriesSent, Zenon
    <3>5. Carries(shown'[q], inbox'[q][Sink(p)'], d, typed'[p].main)
      BY <1>5, <1>10, <1>11, <1>12, <1>17, <2>1, <2>4, <3>1, <3>4
    <3>6. InTransit(p, d)' /\ d \in Text(p)
      BY <1>1, <3>2, <3>5 DEF InTransit, Text
    <3>7. Unsent(ob[p])' = d
      BY <1>10, <3>1 DEF Unsent
    <3>8. InTransit(p, Unsent(ob[p]))'
      BY <3>6, <3>7 DEF InTransit
    <3> QED
      BY <1>1, <1>17, <2>1, <2>2, <2>3, <3>6, <3>8 DEF Flow
  <2>5. CASE ~FarOpen(p, fd)
    <3>1. PICK rest \in Text(p) : InTransit(p, rest)
      BY <1>14, <2>1 DEF Flow
    <3>2. inbox'[q][t] = inbox[q][t]
      BY <1>5, <1>11, <2>5
    <3>3. InTransit(p, rest)'
      BY <1>1, <1>10, <1>12, <1>17, <2>1, <3>1, <3>2 DEF InTransit
    <3>4. ~FarOpen(p, established_fd[p])'
      BY <1>18, <2>5 DEF fd
    <3> QED
      BY <1>1, <1>17, <2>1, <2>2, <2>3, <3>3, <3>4 DEF Flow
  <2> QED
    BY <2>4, <2>5
<1>21. Flow(q)'
  <2>1. Flow(q)
    BY <1>1
  <2>2. SUFFICES ASSUME established_fd'[q] # None PROVE Flow(q)'
    BY DEF Flow
  <2>3. established_fd[q] # None
    BY <2>2
  <2>4. PICK z : z = Sink(q)
    OBVIOUS
  <2>5. z \in Socket
    BY <2>4 DEF Sink, Far, Socket
  <2>6. /\ \A s \in Socket : s # z => inbox[p][s] = <<>>
        /\ shown[p] # <<>> => established_fd[p] = z
        /\ \E rest \in Text(q) : InTransit(q, rest)
        /\ stage[q] = "stage2" /\ FarOpen(q, established_fd[q]) => InTransit(q, Unsent(ob[q]))
    BY <1>1, <2>1, <2>3, <2>4 DEF Flow
  <2>7. CASE z = fd
    <3>1. ASSUME NEW rest \in Text(q), InTransit(q, rest)
          PROVE  InTransit(q, rest)'
      <4>1. PICK a, n : a = shown[p] /\ n = typed[q].main
        OBVIOUS
      <4>2. a \in Seq(Piece(q)) /\ first \in Seq(Piece(q)) /\ second \in Seq(Piece(q))
        BY <1>1, <1>6, <1>7, <4>1 DEF Text
      <4>3. Carries(a, first \o second, rest, n)
        BY <1>1, <1>5, <1>7, <2>4, <2>7, <3>1, <4>1 DEF InTransit
      <4>4. Carries(a \o first, second, rest, n)
        BY <4>2, <4>3, CarriesReceived, Zenon
      <4>5. Carries(shown'[p], inbox'[p][Sink(q)'], rest, typed'[q].main)
        BY <1>10, <1>11, <1>12, <1>17, <2>4, <2>7, <4>1, <4>4
      <4> QED
        BY <1>1, <4>5 DEF InTransit
    <3>2. \A s \in Socket : s # z => inbox'[p][s] = <<>>
      BY <1>11, <2>6, <2>7
    <3>3. established_fd'[p] = z /\ stage'[p] \notin Before
      BY <1>14, <2>7 DEF fd
    <3>4. PICK rest \in Text(q) : InTransit(q, rest)'
      BY <2>6, <3>1
    <3>5. PICK u : u = Unsent(ob[q])
      OBVIOUS
    <3>6. u \in Text(q) /\ Unsent(ob[q])' = u
      <4>1. ob[q] \in Buffers(Piece(q))
        BY <1>1 DEF DataOK
      <4> QED
        BY <1>10, <3>5, <4>1 DEF Unsent, Buffers, Text
    <3>7. stage[q] = "stage2" /\ FarOpen(q, established_fd[q]) => InTransit(q, u)'
      <4>1. ASSUME InTransit(q, Unsent(ob[q])) PROVE InTransit(q, u)
        BY <3>5, <4>1 DEF InTransit
      <4> QED
        BY <2>6, <3>1, <3>6, <4>1
    <3>8. stage'[q] = "stage2" /\ FarOpen(q, established_fd[q])' => InTransit(q, Unsent(ob[q]))'
      BY <1>19, <3>6, <3>7 DEF InTransit
    <3> QED
      BY <1>1, <1>17, <2>4, <3>2, <3>3, <3>4, <3>8 DEF Flow
  <2>8. CASE z # fd
    <3>1. had = <<>>
      BY <1>2, <1>5, <2>6, <2>8
    <3>2. shown'[p] = shown[p]
      <4>1. shown[p] \in Seq(Piece(q))
        BY <1>1, <1>6 DEF Text
      <4>2. shown[p] \o <<>> = shown[p]
        BY <4>1, ConcatEmptySeq
      <4> QED
        BY <1>7, <1>10, <3>1, <4>2
    <3>3. \A s \in Socket : inbox'[p][s] = inbox[p][s]
      BY <1>5, <1>7, <1>11, <3>1
    <3>4. \A rest : InTransit(q, rest)' <=> InTransit(q, rest)
      BY <1>1, <1>12, <1>17, <2>4, <2>5, <3>2, <3>3 DEF InTransit
    <3>5. Unsent(ob[q])' = Unsent(ob[q])
      BY <1>10 DEF Unsent
    <3>6. InTransit(q, Unsent(ob[q]))' <=> InTransit(q, Unsent(ob[q]))
      BY <3>4, <3>5 DEF InTransit
    <3>7. shown'[p] # <<>> => established_fd'[p] = z /\ stage'[p] \notin Before
      BY <1>14, <2>6, <3>2
    <3> QED
      BY <1>1, <1>17, <1>19, <2>4, <2>6, <3>3, <3>4, <3>6, <3>7 DEF Flow
  <2> QED
    BY <2>7, <2>8
<1>22. ob'[Other(p)] = ob[Other(p)]
  BY <1>10 DEF q
<1>23. ~outbuf_empty(ob'[p]) => "OUT" \in interest'[p][established_fd[p]]
  BY <1>4, <1>10 DEF fd
<1> QED
  BY <1>1, <1>13, <1>15, <1>16, <1>20, <1>21, <1>22, <1>23

\* The whole of it.
IInv ==
  /\ ControlOK /\ OneConnection /\ DataOK /\ WaitsForRoom
  /\ \A p \in Peer : Sockets(p)
  /\ \A p \in Peer : Silent(p)
  /\ \A p \in Peer : Flow(p)

\* Before the first step nothing was read, sent or printed.
LEMMA InvInit ==
  ASSUME Init
  PROVE  IInv
<1>1. ControlOK /\ OneConnection /\ \A p \in Peer : Sockets(p)
  BY ControlInit
<1>2. \A p \in Peer : MaxTyped[p] \in Nat
  BY BoundsAssumption DEF Peer
<1>3. \A p \in Peer : Other(p) \in Peer
  BY Others
<1>4. \A S : outbuf_init \in Buffers(S) /\ <<>> \in Seq(S) /\ Len(<<>>) = 0
  BY DEF outbuf_init, Buffers
<1>5. DataOK
  BY <1>2, <1>3, <1>4, BoundsAssumption DEF Init, DataOK, Text
<1>6. WaitsForRoom
  BY DEF Init, WaitsForRoom
<1>7. \A p \in Peer : Silent(p) /\ Flow(p)
  BY <1>3 DEF Init, Silent, Flow
<1> QED
  BY <1>1, <1>5, <1>6, <1>7 DEF IInv

\* A peer that neither comes to chat, nor reads, nor changes what it watches,
\* waits for room as before.
WaitsKept(x) ==
  stage'[x] = "stage2" =>
    /\ stage[x] = "stage2" /\ established_fd'[x] = established_fd[x]
    /\ ob'[x] = ob[x] /\ interest'[x] = interest[x]

\* WaitsForRoom, of one peer.
Waits(x) == stage[x] = "stage2" /\ ~outbuf_empty(ob[x]) => "OUT" \in interest[x][established_fd[x]]

\* So it is for a step of the other.
LEMMA WaitsStep ==
  ASSUME WaitsForRoom, NEW x \in Peer, WaitsKept(x)
  PROVE  Waits(x)'
BY DEF WaitsForRoom, Waits, WaitsKept

\* Whatever step is taken, all of it holds afterwards.
LEMMA InvStep ==
  ASSUME IInv, [Next]_vars
  PROVE  IInv'
<1> USE DEF IInv
<1>1. ControlOK'
  BY ControlStep
<1>2. OneConnection' /\ \A p \in Peer : Sockets(p)'
  BY SocketsStep
<1>3. \A p \in Peer : Monotone(p)
  BY MonotoneStep
<1> DEFINE Data == DataOK' /\ \A p \in Peer : Silent(p)' /\ Flow(p)' /\ Waits(p)'
<1> HIDE DEF Data
<1>4. ASSUME inbox' = inbox, shown' = shown, ob' = ob, typed' = typed, \A x \in Peer : WaitsKept(x)
      PROVE  Data
  <2>1. \A p \in Peer : Silent(p)' /\ Flow(p)'
    BY <1>1, <1>2, <1>3, <1>4, FlowKept
  <2>2. DataOK'
    BY <1>4 DEF DataOK
  <2>3. \A x \in Peer : Waits(x)'
    BY <1>4, WaitsStep
  <2> QED
    BY <2>1, <2>2, <2>3 DEF Data
<1>5. ASSUME UNCHANGED vars
      PROVE  Data
  BY <1>4, <1>5 DEF vars, kernelVars, mainVars, WaitsKept
<1>6. ASSUME NEW p \in Peer, SynArrives(p) \/ on_sigint(p) \/ epoll_wait(p)
      PROVE  Data
  BY <1>4, <1>6 DEF SynArrives, on_sigint, epoll_wait, kernelVars, mainVars, WaitsKept
<1>7. ASSUME NEW p \in Peer, Listen(p) \/ Connect(p)
      PROVE  Data
  <2>1. /\ inbox' = inbox /\ shown' = shown /\ ob' = ob /\ typed' = typed /\ established_fd' = established_fd
        /\ stage' = [stage EXCEPT ![p] = "listening"] \/ stage' = [stage EXCEPT ![p] = "stage1"]
        /\ \A x \in Peer : x = p \/ interest'[x] = interest[x]
    BY <1>7 DEF Listen, Connect, kernelVars, mainVars, ControlOK
  <2>2. \A x \in Peer : WaitsKept(x)
    BY <2>1 DEF ControlOK, WaitsKept
  <2> QED
    BY <1>4, <2>1, <2>2
<1>8. ASSUME NEW p \in Peer, Type(p)
      PROVE  Data
  <2>1. /\ UNCHANGED <<inbox, shown, ob, stage, established_fd, interest>>
        /\ typed[p].user < MaxTyped[p] /\ typed' = [typed EXCEPT ![p].user = @ + 1]
    BY <1>8 DEF Type, kernelVars, mainVars
  <2>2. \A x \in Peer : typed[x] \in [user : Nat, main : Nat] /\ MaxTyped[x] \in Nat
    BY BoundsAssumption DEF DataOK, Peer
  <2>3. /\ typed' \in [Peer -> [user : Nat, main : Nat]]
        /\ \A x \in Peer : /\ typed'[x].main = typed[x].main
                           /\ typed'[x].user = IF x = p THEN typed[x].user + 1 ELSE typed[x].user
    BY <2>1, <2>2 DEF DataOK
  <2>4. \A x \in Peer : typed'[x].main <= typed'[x].user /\ typed'[x].user <= MaxTyped[x]
    BY <2>1, <2>2, <2>3 DEF DataOK
  <2>5. DataOK'
    BY <2>1, <2>3, <2>4 DEF DataOK
  <2>6. \A x \in Peer : Silent(x)' /\ Flow(x)'
    BY <1>1, <1>2, <1>3, <2>1, <2>3, FlowKept
  <2>7. \A x \in Peer : Waits(x)'
    BY <2>1, WaitsStep DEF WaitsKept
  <2> QED
    BY <2>5, <2>6, <2>7 DEF Data
<1>9. ASSUME NEW p \in Peer, NEW ev, Stage1Event(p, ev)
      PROVE  Data
  <2>1. UNCHANGED <<inbox, shown, ob, typed, stage>> /\ stage[p] = "stage1"
    BY <1>9 DEF Stage1Event
  <2>2. \A x \in Peer : x = p \/ (interest'[x] = interest[x] /\ established_fd'[x] = established_fd[x])
    BY <1>9 DEF Stage1Event, Accepts, Connected, ConnectFailed, Ignored, mainVars, ControlOK
  <2>3. \A x \in Peer : WaitsKept(x)
    BY <2>1, <2>2 DEF WaitsKept
  <2> QED
    BY <1>4, <2>1, <2>3
<1>10. ASSUME NEW p \in Peer, Establish(p)
       PROVE  Data
  <2>1. /\ UNCHANGED <<inbox, shown, ob, typed, established_fd>> /\ stage[p] = "stage1"
        /\ stage' = [stage EXCEPT ![p] = "stage2"]
        /\ \A x \in Peer : x = p \/ interest'[x] = interest[x]
    BY <1>10 DEF Establish, mainVars, ControlOK
  <2>2. \A x \in Peer : Silent(x)' /\ Flow(x)'
    BY <1>1, <1>2, <1>3, <2>1, FlowKept
  <2>3. DataOK'
    BY <2>1 DEF DataOK
  <2>4. Waits(p)'
    <3>1. ob[p] = outbuf_init
      BY <2>1 DEF Silent, Before
    <3> QED
      BY <2>1, <3>1 DEF Waits, outbuf_init, outbuf_empty
  <2>5. ASSUME NEW x \in Peer, x # p PROVE Waits(x)'
    BY <2>1, <2>5, WaitsStep DEF WaitsKept, ControlOK
  <2> QED
    BY <2>2, <2>3, <2>4, <2>5 DEF Data
<1>11. ASSUME NEW p \in Peer, Exit(p)
       PROVE  Data
  <2>1. /\ UNCHANGED <<inbox, shown, typed, established_fd, interest>>
        /\ stage' = [stage EXCEPT ![p] = "exited"] /\ ob' = [ob EXCEPT ![p] = outbuf_init]
    BY <1>11 DEF Exit, mainVars
  <2>2. outbuf_init \in Buffers(Piece(p))
    BY DEF outbuf_init, Buffers
  <2>3. DataOK'
    BY <2>1, <2>2 DEF DataOK
  <2>4. \A x \in Peer : x = p \/ (ob'[x] = ob[x] /\ stage'[x] = stage[x])
    BY <2>1 DEF DataOK, ControlOK
  <2>5. ob'[p] = outbuf_init /\ stage'[p] = "exited"
    BY <2>1 DEF DataOK, ControlOK
  <2>6. \A x \in Peer : Silent(x)' /\ Flow(x)'
    BY <1>1, <1>2, <1>3, <2>1, <2>4, <2>5, FlowKept
  <2>7. \A x \in Peer : WaitsKept(x)
    BY <2>1, <2>4, <2>5 DEF WaitsKept
  <2> QED
    BY <2>3, <2>6, <2>7, WaitsStep DEF Data
<1>12. ASSUME NEW p \in Peer, NEW ev, Stage2Event(p, ev)
       PROVE  Data
  <2>1. UNCHANGED <<stage, bound, ends, crossed, established_fd>> /\ stage[p] = "stage2"
    BY <1>12 DEF Stage2Event, mainVars
  <2>2. established_fd[p] \in Fd
    BY <2>1 DEF Sockets, SocketState, ControlOK, Fd
  <2>3. CASE ReadStdin(p, ev)
    <3>1. DataOK' /\ \A x \in Peer : Silent(x)' /\ Flow(x)'
      BY <2>1, <2>3, ReadStdinFlow
    <3>2. /\ interest' = [interest EXCEPT ![p][established_fd[p]] = {"IN", "RDHUP", "OUT"}]
          /\ \A x \in Peer : x = p \/ ob'[x] = ob[x]
      BY <2>3 DEF ReadStdin, Watch, DataOK
    <3>3. "OUT" \in interest'[p][established_fd[p]] /\ \A x \in Peer : x = p \/ interest'[x] = interest[x]
      BY <2>2, <3>2 DEF ControlOK
    <3>4. Waits(p)'
      BY <2>1, <3>3 DEF Waits
    <3>5. ASSUME NEW x \in Peer, x # p PROVE Waits(x)'
      BY <2>1, <3>2, <3>3, <3>5, WaitsStep DEF WaitsKept
    <3> QED
      BY <3>1, <3>4, <3>5 DEF Data
  <2>4. CASE Conveys(p, ev)
    <3>1. /\ DataOK' /\ \A x \in Peer : Silent(x)' /\ Flow(x)'
          /\ ob'[Other(p)] = ob[Other(p)]
          /\ ~outbuf_empty(ob'[p]) => "OUT" \in interest'[p][established_fd[p]]
      BY <2>1, <2>4, ConveysFlow
    <3>2. \A x \in Peer : x = p \/ interest'[x] = interest[x]
      <4>1. (\E b : WatchAfter(p, b)) \/ UNCHANGED interest
        BY <2>4 DEF Conveys
      <4> QED
        BY <4>1 DEF WatchAfter, Watch, ControlOK
    <3>3. Waits(p)'
      BY <2>1, <3>1 DEF Waits
    <3>4. ASSUME NEW x \in Peer, x # p PROVE Waits(x)'
      <4>1. ob'[x] = ob[x]
        BY <3>1, <3>4, Others
      <4> QED
        BY <2>1, <3>2, <3>4, <4>1, WaitsStep DEF WaitsKept
    <3> QED
      BY <3>1, <3>3, <3>4 DEF Data
  <2>5. CASE PeerClosed(p, ev) \/ Forgotten(p, ev)
    <3>1. UNCHANGED <<inbox, interest, typed, ob, shown>>
      BY <2>5 DEF PeerClosed, Forgotten
    <3> QED
      BY <1>4, <2>1, <3>1 DEF WaitsKept
  <2> QED
    BY <1>12, <2>3, <2>4, <2>5 DEF Stage2Event
<1>13. ASSUME Next PROVE Data
  <2>1. PICK p \in Peer : SynArrives(p) \/ Type(p) \/ on_sigint(p) \/ Main(p)
    BY <1>13 DEF Next
  <2>2. CASE Handles(p)
    BY <1>9, <1>12, <2>2 DEF Handles
  <2> QED
    BY <1>6, <1>7, <1>8, <1>10, <1>11, <2>1, <2>2 DEF Main
<1>14. Data
  BY <1>5, <1>13
<1>15. WaitsForRoom'
  BY <1>14 DEF Data, Waits, WaitsForRoom
<1> QED
  BY <1>1, <1>2, <1>14, <1>15 DEF Data

\* The inductive invariant holds in every state of every behaviour.
THEOREM Invariance == Spec => []IInv
<1>1. Init => IInv
  BY InvInit
<1>2. IInv /\ [Next]_vars => IInv'
  BY InvStep
<1> QED
  BY <1>1, <1>2, PTL DEF Spec

\* TypeOK: every variable of both peers keeps its type; no inbox holds more
\* than Room, and off never passes the end of data.
THEOREM TypeCorrect == Spec => []TypeOK
<1>1. ASSUME IInv PROVE TypeOK
  <2> USE DEF IInv
  <2>1. ControlOK /\ DataOK /\ \A p \in Peer : Sockets(p)
    BY <1>1
  <2>2. \A p \in Peer, s \in Socket : inbox[p][s] \in BoundedSeq(Piece(Other(p)), Room)
    <3> SUFFICES ASSUME NEW p \in Peer, NEW s \in Socket
                 PROVE  inbox[p][s] \in BoundedSeq(Piece(Other(p)), Room)
      OBVIOUS
    <3>1. inbox[p][s] \in Seq(Piece(Other(p))) /\ Len(inbox[p][s]) <= Room
      BY <2>1 DEF DataOK, Text
    <3>2. PICK b, k : b = inbox[p][s] /\ k = Len(b)
      OBVIOUS
    <3>3. k \in 0 .. Room /\ b \in [1 .. k -> Piece(Other(p))]
      BY <3>1, <3>2, BoundsAssumption
    <3>4. b \in SeqOf(Piece(Other(p)), Room)
      BY <3>3 DEF SeqOf
    <3> QED
      BY <3>2, <3>4 DEF BoundedSeq
  <2>3. ASSUME NEW p \in Peer
        PROVE  /\ \A ev \in evs[p] : ev.fd \in Fd /\ ev.e # {}
               /\ typed[p] \in [user : 0 .. MaxTyped[p], main : 0 .. MaxTyped[p]]
               /\ ob[p].data \in Seq(Piece(p)) /\ ob[p].off \in 0 .. Len(ob[p].data)
               /\ shown[p] \in Seq(Piece(Other(p)))
    <3>1. \A ev \in evs[p] : ev.fd \in Fd /\ ev.e # {}
      BY <2>1 DEF ControlOK, Event, Sockets, EventOK
    <3>2. MaxTyped[p] \in Nat
      BY BoundsAssumption DEF Peer
    <3>3. /\ typed[p] \in [user : Nat, main : Nat]
          /\ typed[p].main <= typed[p].user /\ typed[p].user <= MaxTyped[p]
      BY <2>1 DEF DataOK
    <3>4. typed[p] \in [user : 0 .. MaxTyped[p], main : 0 .. MaxTyped[p]]
      BY <3>2, <3>3
    <3>5. ob[p] \in Buffers(Piece(p)) /\ shown[p] \in Seq(Piece(Other(p)))
      BY <2>1 DEF DataOK, Text
    <3> QED
      BY <3>1, <3>4, <3>5 DEF Buffers
  <2> QED
    BY <2>1, <2>2, <2>3 DEF ControlOK, TypeOK
<1> QED
  BY <1>1, Invariance, PTL

\* What is printed is the beginning of what was read from stdin.
LEMMA PrintedPrefix ==
  ASSUME IInv, NEW p \in Peer
  PROVE  IsPrefix(shown[Other(p)], [i \in 1 .. typed[p].main |-> i])
<1> DEFINE q == Other(p)
<1>1. /\ shown[q] \in Text(p) /\ \A s \in Socket : inbox[q][s] \in Text(p)
      /\ typed[p].main \in Nat /\ Silent(p) /\ Flow(p)
  BY TransitTypes DEF IInv
<1>2. PICK a, n : a = shown[q] /\ n = typed[p].main
  OBVIOUS
<1>3. \E b, c \in Text(p) : Carries(a, b, c, n)
  <2>1. CASE established_fd[p] = None
    <3>1. a = <<>> /\ n = 0
      BY <1>1, <1>2, <2>1 DEF Silent
    <3>2. <<>> \in Text(p)
      BY DEF Text
    <3> QED
      BY <3>1, <3>2, CarriesNothing
  <2>2. CASE established_fd[p] # None
    <3>1. PICK rest \in Text(p) : InTransit(p, rest)
      BY <1>1, <2>2 DEF Flow
    <3>2. Sink(p) \in Socket
      BY DEF Sink, Far, Socket
    <3> QED
      BY <1>1, <1>2, <3>1, <3>2 DEF InTransit
  <2> QED
    BY <2>1, <2>2
<1>4. PICK b, c \in Text(p) : Carries(a, b, c, n)
  BY <1>3
<1>5. a \in Seq(Piece(p)) /\ b \in Seq(Piece(p)) /\ c \in Seq(Piece(p)) /\ n \in Nat
  BY <1>1, <1>2, <1>4 DEF Text
<1>6. IsPrefix(a, Upto(n))
  BY <1>4, <1>5, CarriesPrefix, Zenon
<1> QED
  BY <1>2, <1>6 DEF Upto

\* Whether or not bind may fail and the peers settle on different connections,
\* what one prints is the beginning of what the other's user typed, and a line
\* that waits for room is sent when there is some.
THEOREM PrintedInOrder ==
  Spec => [](/\ WaitsForRoom
             /\ \A p \in Peer : IsPrefix(shown[Other(p)], [i \in 1 .. typed[p].main |-> i]))
<1>1. IInv => /\ WaitsForRoom
              /\ \A p \in Peer : IsPrefix(shown[Other(p)], [i \in 1 .. typed[p].main |-> i])
  BY PrintedPrefix DEF IInv
<1> QED
  BY <1>1, Invariance, PTL

\* When both cfd's have their lfd's port, two peers that chat do so over the
\* same connection.
LEMMA Same ==
  ASSUME IInv, \A p \in Peer : bound[p]
  PROVE  SameConnection
<1> SUFFICES ASSUME \A x \in Peer : Chats(x), NEW p \in Peer
             PROVE  Far(p, established_fd[p]) = <<Other(p), established_fd[Other(p)]>>
  BY DEF SameConnection
<1> DEFINE q == Other(p)
           C(x) == ends[x]["cfd"]
           A(x) == ends[x]["afd"]
<1>1. q \in Peer /\ Other(q) = p /\ q = Other(p)
  BY Others
<1>2. /\ SocketState(stage[p], C(p), A(p), C(q), A(q), crossed, established_fd[p], cfd[p])
      /\ SocketState(stage[q], C(q), A(q), C(p), A(p), crossed, established_fd[q], cfd[q])
      /\ stage[p] = "stage2" /\ stage[q] = "stage2"
      /\ established_fd[p] \in {None, "cfd", "afd"} /\ established_fd[q] \in {None, "cfd", "afd"}
  BY <1>1 DEF IInv, Sockets, Chats, ControlOK, Socket
<1>3. OneSocket(C(p), A(p), A(q)) /\ OneSocket(C(q), A(q), A(p))
  BY <1>1 DEF IInv, OneConnection
<1> HIDE DEF q
<1>4. established_fd[q] = IF established_fd[p] = "afd" \/ crossed THEN "cfd" ELSE "afd"
  BY <1>2, <1>3 DEF SocketState, OneSocket, None
<1> QED
  BY <1>4 DEF Far, q

\* Conveyed: while both peers chat they do so over one connection, and what one
\* has read from stdin is printed by the other, in the kernel, or in the outbuf
\* of a socket that is watched for room; what is printed is always the
\* beginning of what was typed.  This needs that bind(cfd) succeeds.
THEOREM ConveyedHolds ==
  ASSUME BindFails = {FALSE}
  PROVE  Spec => []Conveyed
<1> DEFINE AllBound == \A p \in Peer : bound[p] = TRUE
<1>1. Init => AllBound
  <2>1. \A e \in {~f : f \in BindFails} : e = TRUE
    OBVIOUS
  <2> QED
    BY <2>1 DEF Init
<1>2. AllBound /\ [Next]_vars => AllBound'
  <2> SUFFICES ASSUME AllBound, [Next]_vars PROVE bound' = bound
    OBVIOUS
  <2>1. CASE Next
    <3>1. PICK p \in Peer : SynArrives(p) \/ Type(p) \/ on_sigint(p) \/ Main(p)
      BY <2>1 DEF Next
    <3>2. CASE Handles(p)
      BY <3>2 DEF Handles, Stage1Event, Stage2Event
    <3> QED
      BY <3>1, <3>2 DEF SynArrives, Type, on_sigint, Main, Listen, Connect, epoll_wait, Establish, Exit
  <2> QED
    BY <2>1 DEF vars
<1>3. ASSUME IInv, AllBound PROVE Conveyed
  <2>1. SameConnection
    BY <1>3, Same
  <2>2. ASSUME NEW p \in Peer, Chats(p), Chats(Other(p))
        PROVE  shown[Other(p)] \o inbox[Other(p)][established_fd[Other(p)]] \o Unsent(ob[p])
                 = [i \in 1 .. typed[p].main |-> i]
    <3>1. Far(p, established_fd[p]) = <<Other(p), established_fd[Other(p)]>>
      BY <2>1, <2>2, Others DEF SameConnection
    <3>2. Sink(p) = established_fd[Other(p)]
      BY <3>1 DEF Sink
    <3>3. Other(p) \in Peer
      BY Others
    <3>4. established_fd[p] # None /\ Open(Other(p), established_fd[Other(p)])
      BY <1>3, <2>2, <3>3 DEF IInv, Sockets, SocketState, Chats, ControlOK, Socket, Open, None
    <3>5. FarOpen(p, established_fd[p])
      BY <3>1, <3>4 DEF FarOpen
    <3>6. InTransit(p, Unsent(ob[p]))
      BY <1>3, <2>2, <3>4, <3>5 DEF IInv, Flow, Chats
    <3> QED
      BY <3>2, <3>6 DEF InTransit, Carries, Upto
  <2>3. \A p \in Peer : IsPrefix(shown[Other(p)], [i \in 1 .. typed[p].main |-> i])
    BY <1>3, PrintedPrefix
  <2>4. WaitsForRoom
    BY <1>3 DEF IInv
  <2> QED
    BY <2>1, <2>2, <2>3, <2>4, Zenon DEF Conveyed
<1> QED
  BY <1>1, <1>2, <1>3, Invariance, PTL DEF Spec
=============================================================================
