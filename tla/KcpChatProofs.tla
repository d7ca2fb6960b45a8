---------------------------- MODULE KcpChatProofs ----------------------------
(***************************************************************************)
(* What holds of the chat room over KCP for every number of clients and    *)
(* every bound: OrderlySession, ShownOnce and RoomHistory.  The inductive  *)
(* invariant follows a line from its client to those who show it.  A       *)
(* session has received messages of its client, in their order, and those  *)
(* that were told of it come before those that it is to handle; each       *)
(* session of a client was told one part of the history, and the parts     *)
(* follow each other; and what the client shows at place i is what one of  *)
(* its sessions was told at i, since its one receiver counts on through    *)
(* the datagrams of all of them.                                           *)
(***************************************************************************)
EXTENDS KcpChat, FiniteSetTheorems, SequenceTheorems, TLAPS

\* A receiver that has got nothing but segments of G.
Receives(r, G) == r \in Receiver /\ IsFiniteSet(r.early) /\ r.early \subseteq G

\* The segments of a stream, and of the streams of several sessions.
Segments(stream) == {[sn |-> k, msg |-> stream[k]] : k \in DOMAIN stream}
AllSegments(T) == UNION {Segments(T[n]) : n \in DOMAIN T}

\* The lines among the messages of s, the members that are not 0, ascend and
\* are lines of the first N.
Increasing(s, N) ==
  /\ \A i \in DOMAIN s : s[i] <= N
  /\ \A i, j \in DOMAIN s : i < j /\ s[i] # 0 /\ s[j] # 0 => s[i] < s[j]

\* The lines among the messages of s from position k on come after line m.
Beyond(s, k, m) == \A i \in DOMAIN s : i >= k /\ s[i] # 0 => m < s[i]

\* What a session has received are messages of its client, and those that wait
\* to be handled come before those that were not received.
SessionOK(c) ==
  /\ Increasing(said[c], Len(typed[c]))
  /\ sessions[c].open =>
       /\ Receives(sessions[c].r, Segments(said[c]))
       /\ Increasing(sessions[c].r.queue, Len(typed[c]))
       /\ \A i \in DOMAIN sessions[c].r.queue : sessions[c].r.queue[i] # 0 =>
            Beyond(said[c], sessions[c].r.nxt, sessions[c].r.queue[i])

\* The notifications about a client come from its sessions, and those about the
\* present one say that it is open and tell lines before those to be handled.
LogOK(c) ==
  \A i \in DOMAIN log : log[i].who = c =>
    /\ log[i].session \in 1 .. Len(told[c]) /\ log[i].line <= Len(typed[c])
    /\ sessions[c].open /\ log[i].session = Len(told[c]) =>
         /\ log[i].kind # "left"
         /\ log[i].kind = "line" => /\ Beyond(sessions[c].r.queue, 1, log[i].line)
                                    /\ Beyond(said[c], sessions[c].r.nxt, log[i].line)

\* What may be told in a session after a.
Follows(a, b) ==
  \/ a.kind = "join" /\ b.kind # "join"
  \/ a.kind = "line" /\ (b.kind = "left" \/ (b.kind = "line" /\ a.line < b.line))
Orderly(L) ==
  \A i, j \in DOMAIN L :
    i < j /\ L[i].who = L[j].who /\ L[i].session = L[j].session => Follows(L[i], L[j])

\* Each session of a client was told a part of the history, none of it in two
\* of them; the part ends with the history where the client is a user.
StreamsOK(T, N, on) ==
  /\ \A n \in DOMAIN T : /\ Len(T[n]) >= 1
                         /\ \A i \in DOMAIN T[n] : T[n][i] = T[n][1] + i - 1 /\ T[n][i] \in 1 .. N
  /\ \A n, m \in DOMAIN T : n < m => \A i \in DOMAIN T[n] : T[n][i] < T[m][1]
  /\ on => Len(T) >= 1 /\ T[Len(T)][1] + Len(T[Len(T)]) - 1 = N

\* The part begins with the client's joining.
JoinsOK(c) == \A n \in DOMAIN told[c] : log[told[c][n][1]] = Note("join", c, n, 0)

\* A client has received and shown what it was told, one message of each number.
HeardOK(c) ==
  /\ Receives(heard[c], AllSegments(told[c]))
  /\ heard[c].queue = <<>> /\ Len(shown[c]) = heard[c].nxt - 1
  /\ \A i \in DOMAIN shown[c] : [sn |-> i, msg |-> shown[c][i].note] \in AllSegments(told[c])

IInv ==
  /\ TypeOK /\ Orderly(log)
  /\ \A c \in Client : /\ SessionOK(c) /\ LogOK(c) /\ JoinsOK(c) /\ HeardOK(c)
                       /\ StreamsOK(told[c], Len(log), c \in users)

\* A set of numbers has a least one.
LEMMA NatMin ==
  ASSUME NEW S \in SUBSET Nat, S # {}
  PROVE  \E x \in S : \A y \in S : x <= y
<1> DEFINE R == OpToRel(<, Nat)
<1>1. \E x \in S : \A y \in S : ~ (<<y, x>> \in R)
  BY NatLessThanWellFounded, WFMin
<1>2. \A x, y \in Nat : <<y, x>> \in R <=> y < x
  BY DEF OpToRel
<1> HIDE DEF R
<1>3. PICK x \in S : \A y \in S : ~ (<<y, x>> \in R)
  BY <1>1
<1>4. \A y \in S : x <= y
  <2> SUFFICES ASSUME NEW y \in S
               PROVE  x <= y
    OBVIOUS
  <2>1. x \in Nat /\ y \in Nat
    OBVIOUS
  <2>2. ~(y < x)
    BY <1>2, <1>3, <2>1
  <2> QED
    BY <2>1, <2>2
<1> QED
  BY <1>4

\* A bounded set of numbers has a greatest one.
LEMMA BoundedMax ==
  ASSUME NEW n \in Nat, NEW S \in SUBSET (0 .. n), S # {}
  PROVE  Max(S) \in S
<1> DEFINE U == {n - x : x \in S}
<1>1. PICK u \in U : \A y \in U : u <= y
  <2>1. U \in SUBSET Nat
    <3>1. \A x \in S : n - x \in Nat
      OBVIOUS
    <3> QED
      BY <3>1
  <2>2. U # {}
    OBVIOUS
  <2> QED
    BY <2>1, <2>2, NatMin
<1>2. PICK x \in S : u = n - x
  OBVIOUS
<1>3. \A y \in S : x >= y
  BY <1>1, <1>2
<1> QED
  BY <1>3 DEF Max

\* A datagram holds segments of its stream.
LEMMA DatagramsOK ==
  ASSUME NEW stream \in Seq(Nat), NEW segs \in Datagrams(stream)
  PROVE  segs \subseteq Segments(stream) /\ IsFiniteSet(segs) /\ Segments(stream) \subseteq Segs
<1> DEFINE Pairs == {{i, j} : i, j \in DOMAIN stream} \cup {{}}
<1>1. segs \in {{[sn |-> i, msg |-> stream[i]] : i \in D} : D \in Pairs}
  <2>1. Datagrams(stream) = {{[sn |-> i, msg |-> stream[i]] : i \in D} : D \in Pairs}
    BY DEF Datagrams
  <2> HIDE DEF Pairs
  <2>2. segs \in Datagrams(stream)
    OBVIOUS
  <2> QED
    BY <2>1, <2>2, Zenon
<1>2. PICK D \in Pairs : segs = {[sn |-> i, msg |-> stream[i]] : i \in D}
  <2> HIDE DEF Pairs
  <2> QED
    BY <1>1
<1>3. D = {} \/ \E i, j \in DOMAIN stream : D = {i, j}
  <2>1. D \in Pairs
    BY <1>2
  <2>2. D \in {{i, j} : i, j \in DOMAIN stream} \/ D = {}
    BY <2>1
  <2> QED
    BY <2>2, SMT
<1> HIDE DEF Pairs
<1>4. IsFiniteSet(D) /\ D \subseteq DOMAIN stream
  <2>1. ASSUME D = {}
        PROVE  IsFiniteSet(D)
    BY <2>1, FS_EmptySet
  <2>2. ASSUME NEW i \in DOMAIN stream, NEW j \in DOMAIN stream, D = {i, j}
        PROVE  IsFiniteSet(D)
    <3>1. IsFiniteSet({i}) /\ IsFiniteSet({j})
      BY FS_Singleton
    <3>2. IsFiniteSet({i} \cup {j})
      BY <3>1, FS_Union
    <3>3. D = {i} \cup {j}
      BY <2>2
    <3> QED
      BY <3>2, <3>3
  <2>3. IsFiniteSet(D)
    BY <1>3, <2>1, <2>2
  <2> QED
    BY <1>3, <2>3
<1>5. IsFiniteSet(segs)
  <2> DEFINE f == [i \in D |-> [sn |-> i, msg |-> stream[i]]]
  <2>1. f \in Surjection(D, segs)
    BY <1>2 DEF Surjection
  <2> QED
    BY <1>4, <2>1, FS_Surjection
<1>6. DOMAIN stream \subseteq Position /\ \A k \in DOMAIN stream : stream[k] \in Nat
  BY DEF Position
<1> QED
  BY <1>2, <1>4, <1>5, <1>6 DEF Segments, Segs

\* ikcp_input makes the segments readable that follow those that were: one
\* after the other, from the segments that came.
LEMMA InputOK ==
  ASSUME NEW G \in SUBSET Segs, NEW r, Receives(r, G), NEW segs \in SUBSET G, IsFiniteSet(segs)
  PROVE  \E n \in Nat : \E q \in Seq(Nat) :
           /\ Receives(ikcp_input(r, segs), G)
           /\ ikcp_input(r, segs).nxt = r.nxt + n
           /\ ikcp_input(r, segs).queue = r.queue \o q
           /\ Len(q) = n /\ \A i \in 1 .. n : [sn |-> r.nxt + i - 1, msg |-> q[i]] \in G
<1> DEFINE Sns(ss) == {s.sn : s \in ss}
           kept == r.early \cup {s \in segs : s.sn >= r.nxt /\ s.sn \notin Sns(r.early)}
           N == {j \in 0 .. Cardinality(kept) : \A i \in 0 .. j - 1 : r.nxt + i \in Sns(kept)}
           n == Max(N)
           q == [i \in 1 .. n |-> (CHOOSE s \in kept : s.sn = r.nxt + i - 1).msg]
           left == {s \in kept : s.sn >= r.nxt + n}
<1>1. r \in Receiver /\ IsFiniteSet(r.early) /\ r.early \subseteq G
  BY DEF Receives
<1>2. kept \subseteq G /\ kept \in SUBSET Segs
  BY <1>1
<1>3. IsFiniteSet(kept)
  <2>1. IsFiniteSet({s \in segs : s.sn >= r.nxt /\ s.sn \notin Sns(r.early)})
    BY FS_Subset
  <2> QED
    BY <1>1, <2>1, FS_Union
<1>4. n \in N
  <2>1. Cardinality(kept) \in Nat
    BY <1>3, FS_CardinalityType
  <2>2. N \in SUBSET (0 .. Cardinality(kept)) /\ 0 \in N
    BY <2>1
  <2> HIDE DEF N
  <2> QED
    BY <2>1, <2>2, BoundedMax
<1>5. n \in Nat /\ \A i \in 0 .. n - 1 : r.nxt + i \in Sns(kept)
  <2>1. Cardinality(kept) \in Nat
    BY <1>3, FS_CardinalityType
  <2>2. n \in 0 .. Cardinality(kept) /\ \A i \in 0 .. n - 1 : r.nxt + i \in Sns(kept)
    <3> HIDE DEF n, kept
    <3> QED
      BY <1>4
  <2> HIDE DEF n, kept
  <2> QED
    BY <2>1, <2>2
<1>6. r.nxt \in Position /\ r.queue \in Seq(Nat)
  BY <1>1 DEF Receiver
<1>7. ikcp_input(r, segs) = [nxt |-> r.nxt + n, early |-> left, queue |-> r.queue \o q]
  BY DEF ikcp_input
<1> HIDE DEF N, n
<1>8. ASSUME NEW i \in 1 .. n
      PROVE  [sn |-> r.nxt + i - 1, msg |-> (CHOOSE s \in kept : s.sn = r.nxt + i - 1).msg] \in G
  <2> DEFINE p == r.nxt + i - 1
             s == CHOOSE x \in kept : x.sn = p
  <2>1. i - 1 \in 0 .. n - 1 /\ r.nxt + (i - 1) = p
    BY <1>5, <1>6 DEF Position
  <2>2. p \in Sns(kept)
    BY <1>5, <2>1
  <2>3. \E x \in kept : x.sn = p
    BY <2>2
  <2> HIDE DEF kept, p
  <2>4. s \in kept /\ s.sn = p
    BY <2>3
  <2>5. s \in G /\ s \in Segs
    BY <1>2, <2>4
  <2> HIDE DEF s
  <2>6. s = [sn |-> p, msg |-> s.msg]
    BY <2>4, <2>5 DEF Segs
  <2> QED
    BY <2>5, <2>6 DEF p, s
<1>9. q \in Seq(Nat) /\ Len(q) = n /\ \A i \in 1 .. n : [sn |-> r.nxt + i - 1, msg |-> q[i]] \in G
  <2>1. \A i \in 1 .. n : (CHOOSE s \in kept : s.sn = r.nxt + i - 1).msg \in Nat
    <3> HIDE DEF kept
    <3> QED
      BY <1>8 DEF Segs
  <2> HIDE DEF kept
  <2> QED
    BY <1>5, <1>8, <2>1
<1>10. left \subseteq G /\ left \in SUBSET Segs /\ IsFiniteSet(left)
  <2>1. left \subseteq kept
    OBVIOUS
  <2> HIDE DEF kept, left
  <2> QED
    BY <1>2, <1>3, <2>1, FS_Subset
<1>11. r.nxt + n \in Position
  BY <1>5, <1>6 DEF Position
<1>12. r.queue \o q \in Seq(Nat)
  <2> HIDE DEF q
  <2> QED
    BY <1>6, <1>9, ConcatProperties
<1> HIDE DEF q, left, kept
<1>13. Receives(ikcp_input(r, segs), G)
  BY <1>7, <1>10, <1>11, <1>12 DEF Receives, Receiver
<1>14. ikcp_input(r, segs).nxt = r.nxt + n /\ ikcp_input(r, segs).queue = r.queue \o q
  BY <1>7
<1>15. n \in Nat
  BY <1>5
<1> QED
  BY <1>9, <1>13, <1>14, <1>15

\* The segments of a stream are segments.
LEMMA SegmentsOK ==
  ASSUME NEW stream \in Seq(Nat)
  PROVE  Segments(stream) \subseteq Segs
BY DEF Segments, Segs, Position

\* A stream that goes on has the segments it had.
LEMMA SegmentsGrow ==
  ASSUME NEW s \in Seq(Nat), NEW t \in Seq(Nat), Len(s) <= Len(t), \A i \in DOMAIN s : t[i] = s[i]
  PROVE  Segments(s) \subseteq Segments(t)
<1>1. \A i \in DOMAIN s : i \in DOMAIN t
  OBVIOUS
<1> SUFFICES ASSUME NEW i \in DOMAIN s
             PROVE  [sn |-> i, msg |-> s[i]] \in Segments(t)
  BY DEF Segments
<1> QED
  BY <1>1 DEF Segments

\* T2 tells what T tells, and perhaps more, in these sessions and later ones.
Longer(T, T2) ==
  /\ Len(T) <= Len(T2)
  /\ \A n \in DOMAIN T : Len(T[n]) <= Len(T2[n]) /\ \A i \in DOMAIN T[n] : T2[n][i] = T[n][i]

\* Streams that go on have the segments they had.
LEMMA AllSegmentsGrow ==
  ASSUME NEW T \in Seq(Seq(Nat)), NEW T2 \in Seq(Seq(Nat)), Longer(T, T2)
  PROVE  AllSegments(T) \subseteq AllSegments(T2)
<1> SUFFICES ASSUME NEW n \in DOMAIN T
             PROVE  Segments(T[n]) \subseteq AllSegments(T2)
  BY DEF AllSegments
<1>1. n \in DOMAIN T2 /\ T[n] \in Seq(Nat) /\ T2[n] \in Seq(Nat)
  BY DEF Longer
<1>2. Segments(T[n]) \subseteq Segments(T2[n])
  BY <1>1, SegmentsGrow DEF Longer
<1> QED
  BY <1>1, <1>2 DEF AllSegments

\* What has received segments of a set has received segments of a larger one.
LEMMA ReceivesMore ==
  ASSUME NEW r, NEW G, NEW H, Receives(r, G), G \subseteq H
  PROVE  Receives(r, H)
BY DEF Receives

\* A datagram of one of the streams.
LEMMA AllDatagramsOK ==
  ASSUME NEW T \in Seq(Seq(Nat)), NEW n \in DOMAIN T, NEW segs \in Datagrams(T[n])
  PROVE  segs \in SUBSET AllSegments(T) /\ IsFiniteSet(segs) /\ AllSegments(T) \in SUBSET Segs
<1>1. \A m \in DOMAIN T : T[m] \in Seq(Nat)
  OBVIOUS
<1>2. \A m \in DOMAIN T : Segments(T[m]) \subseteq Segs
  BY <1>1, SegmentsOK
<1>3. segs \subseteq Segments(T[n]) /\ IsFiniteSet(segs)
  BY <1>1, DatagramsOK
<1> QED
  BY <1>2, <1>3 DEF AllSegments

\* Messages that become readable come after those that were readable, and
\* before those that are not.
LEMMA QueueGrows ==
  ASSUME NEW stream \in Seq(Nat), NEW N \in Nat, NEW nxt \in Position, NEW Q \in Seq(Nat), NEW q \in Seq(Nat),
         Increasing(stream, N), Increasing(Q, N),
         \A i \in DOMAIN Q : Q[i] # 0 => Beyond(stream, nxt, Q[i]),
         \A i \in 1 .. Len(q) : nxt + i - 1 \in DOMAIN stream /\ q[i] = stream[nxt + i - 1]
  PROVE  /\ Increasing(Q \o q, N)
         /\ \A i \in DOMAIN (Q \o q) : (Q \o q)[i] # 0 => Beyond(stream, nxt + Len(q), (Q \o q)[i])
         /\ \A m \in Nat : Beyond(Q, 1, m) /\ Beyond(stream, nxt, m) =>
              Beyond(Q \o q, 1, m) /\ Beyond(stream, nxt + Len(q), m)
<1>1. PICK R \in Seq(Nat) : R = Q \o q
  BY ConcatProperties
<1>2. PICK a \in Nat, k \in Nat : a = Len(Q) /\ k = Len(q)
  BY LenProperties
<1> DEFINE P(i) == nxt + (i - a) - 1
<1>3. DOMAIN R \subseteq Nat /\ (\A i \in DOMAIN R : R[i] \in Nat) /\ DOMAIN stream \subseteq Nat
      /\ (\A i \in DOMAIN stream : stream[i] \in Nat) /\ nxt \in Nat
  BY DEF Position
<1>4. \A i \in DOMAIN R : i <= a => i \in DOMAIN Q /\ R[i] = Q[i]
  <2> SUFFICES ASSUME NEW i \in DOMAIN R, i <= a
               PROVE  i \in DOMAIN Q /\ R[i] = Q[i]
    OBVIOUS
  <2>1. Len(R) = a + k /\ i \in 1 .. a + k /\ DOMAIN Q = 1 .. a
    BY <1>1, <1>2, ConcatProperties, LenProperties
  <2>2. R[i] = Q[i]
    BY <1>1, <1>2, <2>1, ConcatProperties
  <2> QED
    BY <2>1, <2>2
<1>5. \A i \in DOMAIN R : i > a => P(i) \in DOMAIN stream /\ R[i] = stream[P(i)]
  <2> SUFFICES ASSUME NEW i \in DOMAIN R, i > a
               PROVE  P(i) \in DOMAIN stream /\ R[i] = stream[P(i)]
    OBVIOUS
  <2>1. Len(R) = a + k /\ i \in 1 .. a + k
    BY <1>1, <1>2, ConcatProperties, LenProperties
  <2>2. R[i] = q[i - a]
    BY <1>1, <1>2, <2>1, ConcatProperties
  <2>3. i - a \in 1 .. k
    BY <2>1
  <2>4. P(i) \in DOMAIN stream /\ q[i - a] = stream[P(i)]
    BY <1>2, <2>3
  <2> QED
    BY <2>2, <2>4
<1>6. \A i \in DOMAIN R : i > a => P(i) >= nxt /\ P(i) < nxt + k
  <2> SUFFICES ASSUME NEW i \in DOMAIN R, i > a
               PROVE  P(i) >= nxt /\ P(i) < nxt + k
    OBVIOUS
  <2>1. i \in 1 .. a + k
    BY <1>1, <1>2, ConcatProperties, LenProperties
  <2>2. i \in Nat /\ i - a >= 1 /\ i - a <= k /\ nxt \in Nat
    BY <1>3, <2>1
  <2> QED
    BY <2>2, SMTT(20)
<1>7. \A i, j \in DOMAIN R : a < i /\ i < j => P(i) < P(j)
  <2> SUFFICES ASSUME NEW i \in Nat, NEW j \in Nat, i < j
               PROVE  P(i) < P(j)
    BY <1>3
  <2>1. nxt \in Nat /\ i - a < j - a
    BY <1>3
  <2> QED
    BY <2>1, SMTT(20)
<1>8. \A i, j \in DOMAIN R : i < j => (j <= a => i <= a) /\ (i > a => j > a)
  <2> SUFFICES ASSUME NEW i \in Nat, NEW j \in Nat, i < j
               PROVE  (j <= a => i <= a) /\ (i > a => j > a)
    BY <1>3
  <2> QED
    BY SMTT(20)
<1>9. \A i \in DOMAIN R : i <= a \/ i > a
  BY <1>2, <1>3
<1> HIDE DEF P
<1>10. Increasing(R, N)
  <2>1. \A i \in DOMAIN R : R[i] <= N
    BY <1>4, <1>5, <1>9 DEF Increasing
  <2>2. ASSUME NEW i \in DOMAIN R, NEW j \in DOMAIN R, i < j, R[i] # 0, R[j] # 0
        PROVE  R[i] < R[j]
    <3>1. CASE j <= a
      <4>1. i \in DOMAIN Q /\ R[i] = Q[i] /\ j \in DOMAIN Q /\ R[j] = Q[j]
        BY <1>4, <1>8, <2>2, <3>1
      <4> QED
        BY <2>2, <4>1 DEF Increasing
    <3>2. CASE i > a
      <4>1. P(i) \in DOMAIN stream /\ R[i] = stream[P(i)] /\ P(j) \in DOMAIN stream /\ R[j] = stream[P(j)]
        BY <1>5, <1>8, <2>2, <3>2
      <4>2. P(i) < P(j)
        BY <1>7, <2>2, <3>2
      <4> QED
        BY <2>2, <4>1, <4>2 DEF Increasing
    <3>3. CASE i <= a /\ j > a
      <4>1. i \in DOMAIN Q /\ R[i] = Q[i] /\ P(j) \in DOMAIN stream /\ R[j] = stream[P(j)] /\ P(j) >= nxt
        BY <1>4, <1>5, <1>6, <3>3
      <4> QED
        BY <2>2, <4>1 DEF Beyond
    <3> QED
      BY <1>9, <3>1, <3>2, <3>3
  <2> QED
    BY <2>1, <2>2 DEF Increasing
<1>11. ASSUME NEW i \in DOMAIN R, R[i] # 0
      PROVE  Beyond(stream, nxt + k, R[i])
  <2> SUFFICES ASSUME NEW j \in DOMAIN stream, j >= nxt + k, stream[j] # 0
               PROVE  R[i] < stream[j]
    BY DEF Beyond
  <2>1. CASE i <= a
    <3>1. j >= nxt
      BY <1>2, <1>3
    <3>2. i \in DOMAIN Q /\ R[i] = Q[i]
      BY <1>4, <2>1
    <3> QED
      BY <1>11, <3>1, <3>2 DEF Beyond
  <2>2. CASE i > a
    <3>1. P(i) \in DOMAIN stream /\ R[i] = stream[P(i)] /\ P(i) < nxt + k
      BY <1>5, <1>6, <2>2
    <3>2. P(i) < j
      <4>1. PICK p \in Nat : p = P(i)
        BY <1>3, <3>1
      <4>2. p < nxt + k /\ j \in Nat /\ nxt + k \in Nat
        BY <1>3, <3>1, <4>1
      <4>3. p < j
        BY <4>2, SMTT(20)
      <4> QED
        BY <4>1, <4>3
    <3> QED
      BY <1>11, <3>1, <3>2 DEF Increasing
  <2> QED
    BY <1>9, <2>1, <2>2
<1>12. ASSUME NEW m \in Nat, Beyond(Q, 1, m), Beyond(stream, nxt, m)
      PROVE  Beyond(R, 1, m) /\ Beyond(stream, nxt + k, m)
  <2>1. \A i \in DOMAIN R : R[i] # 0 => m < R[i]
    <3> SUFFICES ASSUME NEW i \in DOMAIN R, R[i] # 0
                 PROVE  m < R[i]
      OBVIOUS
    <3>1. CASE i <= a
      <4>1. i \in DOMAIN Q /\ R[i] = Q[i] /\ i >= 1
        BY <1>4, <3>1
      <4> QED
        BY <1>12, <4>1 DEF Beyond
    <3>2. CASE i > a
      <4>1. P(i) \in DOMAIN stream /\ R[i] = stream[P(i)] /\ P(i) >= nxt
        BY <1>5, <1>6, <3>2
      <4> QED
        BY <1>12, <4>1 DEF Beyond
    <3> QED
      BY <1>9, <3>1, <3>2
  <2>2. Beyond(stream, nxt + k, m)
    <3> SUFFICES ASSUME NEW j \in DOMAIN stream, j >= nxt + k, stream[j] # 0
                 PROVE  m < stream[j]
      BY DEF Beyond
    <3>1. j >= nxt
      BY <1>2, <1>3
    <3> QED
      BY <1>12, <3>1 DEF Beyond
  <2> QED
    BY <2>1, <2>2 DEF Beyond
<1> HIDE DEF Increasing, Beyond
<1> QED
  BY <1>1, <1>2, <1>10, <1>11, <1>12

\* A history that goes on in order.
LEMMA OrderlyConcat ==
  ASSUME NEW A \in Seq(Notification), NEW B \in Seq(Notification), Orderly(A), Orderly(B),
         \A i \in DOMAIN A, j \in DOMAIN B :
           A[i].who = B[j].who /\ A[i].session = B[j].session => Follows(A[i], B[j])
  PROVE  Orderly(A \o B)
<1>1. PICK R \in Seq(Notification) : R = A \o B
  BY ConcatProperties
<1>2. PICK a \in Nat, b \in Nat : a = Len(A) /\ b = Len(B)
  BY LenProperties
<1>3. \A i \in DOMAIN R : \/ i \in DOMAIN A /\ R[i] = A[i] /\ i <= a
                          \/ i > a /\ i - a \in DOMAIN B /\ R[i] = B[i - a]
  <2> SUFFICES ASSUME NEW i \in DOMAIN R
               PROVE  \/ i \in DOMAIN A /\ R[i] = A[i] /\ i <= a
                      \/ i > a /\ i - a \in DOMAIN B /\ R[i] = B[i - a]
    OBVIOUS
  <2>1. Len(R) = a + b /\ i \in 1 .. a + b /\ DOMAIN A = 1 .. a /\ DOMAIN B = 1 .. b
    BY <1>1, <1>2, ConcatProperties, LenProperties
  <2>2. i <= a => i \in DOMAIN A /\ R[i] = A[i]
    BY <1>1, <1>2, <2>1, ConcatProperties
  <2>3. i > a => i - a \in DOMAIN B /\ R[i] = B[i - a]
    BY <1>1, <1>2, <2>1, ConcatProperties
  <2> QED
    BY <2>1, <2>2, <2>3
<1> SUFFICES ASSUME NEW i \in DOMAIN R, NEW j \in DOMAIN R,
                    i < j, R[i].who = R[j].who, R[i].session = R[j].session
             PROVE  Follows(R[i], R[j])
  BY <1>1 DEF Orderly
<1>4. i \in Nat /\ j \in Nat
  OBVIOUS
<1> HIDE DEF Follows
<1>5. CASE i \in DOMAIN A /\ R[i] = A[i] /\ j \in DOMAIN A /\ R[j] = A[j]
  BY <1>5 DEF Orderly
<1>6. CASE i \in DOMAIN A /\ R[i] = A[i] /\ j - a \in DOMAIN B /\ R[j] = B[j - a]
  BY <1>6
<1>7. CASE i - a \in DOMAIN B /\ R[i] = B[i - a] /\ j - a \in DOMAIN B /\ R[j] = B[j - a]
  <2>1. i - a < j - a
    BY <1>2, <1>4
  <2> QED
    BY <1>7, <2>1 DEF Orderly
<1>8. i > a => j > a
  BY <1>2, <1>4
<1>9. i > a => ~(i <= a)
  BY <1>2, <1>4
<1>10. j > a => ~(j <= a)
  BY <1>2, <1>4
<1> QED
  BY <1>3, <1>5, <1>6, <1>7, <1>8, <1>9, <1>10

\* Notifications of lines of client c in its n-th session, in order: messages of
\* R with places in H.
LinesTold(notes, R, H, c, n) ==
  /\ notes \in Seq(Notification) /\ Orderly(notes)
  /\ \A i \in DOMAIN notes : \E x \in H : notes[i] = Note("line", c, n, R[x])

\* The lines that are told of a datagram are in order.
LEMMA LinesOK ==
  ASSUME NEW R \in Seq(Nat), NEW N \in Nat, Increasing(R, N), NEW c \in Client, NEW n \in Nat,
         NEW H \in SUBSET DOMAIN R, \A i \in H : R[i] # 0,
         NEW f \in Ascending(H), NEW lines, lines = [i \in DOMAIN f |-> Note("line", c, n, R[f[i]])]
  PROVE  LinesTold(lines, R, H, c, n)
<1> DEFINE notes == [i \in DOMAIN f |-> Note("line", c, n, R[f[i]])]
<1>1. IsFiniteSet(H)
  <2>1. DOMAIN R = 1 .. Len(R) /\ Len(R) \in Nat
    BY LenProperties
  <2>2. IsFiniteSet(1 .. Len(R))
    BY <2>1, FS_Interval
  <2> QED
    BY <2>1, <2>2, FS_Subset
<1>2. PICK k \in Nat : k = Cardinality(H)
  BY <1>1, FS_CardinalityType
<1>3. f \in [1 .. k -> H] /\ \A i, j \in 1 .. k : i < j => f[i] < f[j]
  BY <1>2 DEF Ascending
<1>4. \A i \in 1 .. k : f[i] \in H /\ f[i] \in DOMAIN R /\ R[f[i]] \in Nat
  BY <1>3
<1>5. DOMAIN notes = 1 .. k /\ \A i \in 1 .. k : notes[i] = Note("line", c, n, R[f[i]])
  BY <1>3
<1>6. notes \in Seq(Notification)
  <2>1. \A i \in 1 .. k : Note("line", c, n, R[f[i]]) \in Notification
    BY <1>4 DEF Note, Notification
  <2>2. notes = [i \in 1 .. k |-> Note("line", c, n, R[f[i]])]
    BY <1>3
  <2> HIDE DEF notes
  <2> QED
    BY <2>1, <2>2
<1> HIDE DEF notes
<1>7. Orderly(notes)
  <2> SUFFICES ASSUME NEW i \in 1 .. k, NEW j \in 1 .. k, i < j
               PROVE  Follows(notes[i], notes[j])
    BY <1>5 DEF Orderly
  <2>1. f[i] \in DOMAIN R /\ f[j] \in DOMAIN R /\ f[i] < f[j] /\ R[f[i]] # 0 /\ R[f[j]] # 0
    BY <1>3, <1>4
  <2>2. R[f[i]] < R[f[j]]
    BY <2>1 DEF Increasing
  <2> QED
    BY <1>5, <2>2 DEF Follows, Note
<1>8. \A i \in DOMAIN notes : \E x \in H : notes[i] = Note("line", c, n, R[x])
  BY <1>4, <1>5
<1> QED
  BY <1>6, <1>7, <1>8, Zenon DEF notes, LinesTold

\* A part of the history that goes on with the next k notifications.
LEMMA StreamLonger ==
  ASSUME NEW T \in Seq(Seq(Nat)), NEW N \in Nat, StreamsOK(T, N, TRUE),
         NEW X \in Seq(Nat), \A i \in 1 .. Len(X) : X[i] = N + i,
         NEW T2 \in Seq(Seq(Nat)), Len(T2) = Len(T), T2[Len(T)] = T[Len(T)] \o X,
         \A n \in DOMAIN T : n # Len(T) => T2[n] = T[n]
  PROVE  Longer(T, T2) /\ StreamsOK(T2, N + Len(X), TRUE)
<1>1. PICK k \in Nat : k = Len(X)
  BY LenProperties
<1>2. X \in Seq(Nat) /\ Len(X) = k /\ \A i \in 1 .. k : X[i] = N + i
  BY <1>1
<1>3. PICK l \in Nat \ {0} : l = Len(T) /\ DOMAIN T = 1 .. l
  BY LenProperties DEF StreamsOK
<1>4. \A n \in 1 .. l : T[n] \in Seq(Nat)
  BY <1>3
<1>5. PICK W \in Seq(Nat) : W = T[l]
  BY <1>3, <1>4
<1>6. PICK Y \in Seq(Nat) : Y = W \o X
  BY <1>2, ConcatProperties
<1>7. PICK w \in Nat, f \in Nat : w = Len(W) /\ f = N + 1 - w
  <2>1. PICK w \in Nat : w = Len(W)
    BY LenProperties
  <2>2. w >= 1 /\ DOMAIN W = 1 .. w /\ W[1] + w - 1 = N /\ W[1] \in Nat
    <3>1. w >= 1
      BY <1>3, <1>5, <2>1 DEF StreamsOK
    <3>2. DOMAIN W = 1 .. w
      BY <2>1, LenProperties
    <3>3. W[1] \in Nat
      BY <3>1, <3>2
    <3>4. W[1] + w - 1 = N
      BY <1>3, <1>5, <2>1 DEF StreamsOK
    <3> QED
      BY <3>1, <3>2, <3>3, <3>4
  <2>3. N + 1 - w \in Nat
    BY <2>2
  <2> QED
    BY <2>1, <2>3
<1>8. Len(Y) = w + k /\ DOMAIN Y = 1 .. w + k /\ DOMAIN W = 1 .. w
      /\ \A i \in 1 .. w + k : Y[i] = IF i <= w THEN W[i] ELSE X[i - w]
  <2>1. Len(Y) = w + k
    BY <1>2, <1>6, <1>7, ConcatProperties
  <2>2. DOMAIN Y = 1 .. w + k /\ DOMAIN W = 1 .. w
    BY <1>7, <2>1, LenProperties
  <2>3. \A i \in 1 .. w + k : Y[i] = IF i <= w THEN W[i] ELSE X[i - w]
    BY <1>2, <1>6, <1>7, ConcatProperties
  <2> QED
    BY <2>1, <2>2, <2>3
<1>9. DOMAIN T2 = 1 .. l /\ T2[l] = Y /\ \A n \in 1 .. l : n # l => T2[n] = T[n]
  BY <1>3, <1>5, <1>6, LenProperties
<1>10. T2 \in Seq(Seq(Nat)) /\ Len(T2) = l
  BY <1>3
<1>11. \A n \in 1 .. l : Len(T[n]) >= 1 /\ \A i \in DOMAIN T[n] : T[n][i] = T[n][1] + i - 1 /\ T[n][i] \in 1 .. N
  BY <1>3 DEF StreamsOK
<1>12. w >= 1 /\ f + w - 1 = N /\ \A i \in 1 .. w : W[i] = f + i - 1
  <2>1. w >= 1 /\ \A i \in 1 .. w : W[i] = W[1] + i - 1
    <3>1. l \in 1 .. l
      OBVIOUS
    <3>2. Len(T[l]) >= 1 /\ \A i \in DOMAIN T[l] : T[l][i] = T[l][1] + i - 1
      BY <1>11, <3>1
    <3> QED
      BY <1>5, <1>8, <1>7, <3>2
  <2>2. W[1] + w - 1 = N
    BY <1>3, <1>5, <1>7 DEF StreamsOK
  <2>3. f + w - 1 = N
    BY <1>7
  <2>4. W[1] \in Nat
    <3>1. 1 \in 1 .. w
      BY <2>1
    <3>2. \A i \in DOMAIN W : W[i] \in Nat
      <4>1. W \in Seq(Nat)
        OBVIOUS
      <4> HIDE <1>5, <1>8, <1>9, <1>11
      <4> QED
        BY <4>1, ElementOfSeq, LenProperties
    <3>3. DOMAIN W = 1 .. w
      BY <1>8
    <3> QED
      BY <3>1, <3>2, <3>3
  <2>5. W[1] = f
    <3>1. PICK x \in Nat : x = W[1]
      BY <2>4
    <3>2. x + w - 1 = N
      BY <2>2, <3>1
    <3>3. x = f
      BY <2>3, <3>2
    <3> QED
      BY <3>1, <3>3
  <2> QED
    BY <2>1, <2>3, <2>5
<1>13. Y[1] = f /\ W[1] = f
  <2>1. 1 \in 1 .. w /\ 1 \in 1 .. w + k /\ 1 <= w /\ f + 1 - 1 = f
    BY <1>12
  <2>2. Y[1] = W[1]
    BY <1>8, <2>1
  <2> QED
    BY <1>12, <2>1, <2>2
<1>14. f >= 1
  <2>1. l \in 1 .. l /\ 1 \in DOMAIN T[l]
    BY <1>5, <1>8, <1>12
  <2>2. T[l][1] \in 1 .. N
    BY <1>11, <2>1
  <2> QED
    BY <1>5, <1>13, <2>2
<1>15. \A i \in 1 .. w + k : Y[i] = f + i - 1 /\ Y[i] \in 1 .. N + k
  <2> SUFFICES ASSUME NEW i \in 1 .. w + k
               PROVE  Y[i] = f + i - 1 /\ Y[i] \in 1 .. N + k
    OBVIOUS
  <2>1. Y[i] = f + i - 1
    <3>1. CASE i <= w
      <4>1. i \in 1 .. w
        BY <3>1
      <4> QED
        BY <1>8, <1>12, <3>1, <4>1
    <3>2. CASE i > w
      <4>1. i - w \in 1 .. k /\ ~(i <= w)
        BY <3>2
      <4>2. Y[i] = X[i - w]
        BY <1>8, <4>1
      <4>3. Y[i] = N + (i - w)
        BY <1>2, <4>1, <4>2
      <4> QED
        BY <1>12, <4>3
    <3> QED
      BY <3>1, <3>2
  <2> QED
    BY <1>12, <1>14, <2>1
<1>16. Longer(T, T2)
  <2>1. \A n \in 1 .. l : Len(T[n]) <= Len(T2[n]) /\ \A i \in DOMAIN T[n] : T2[n][i] = T[n][i]
    <3> TAKE n \in 1 .. l
    <3>1. CASE n = l
      <4>1. T[n] = W /\ T2[n] = Y
        BY <1>5, <1>9, <3>1
      <4>2. w <= w + k /\ \A i \in 1 .. w : i \in 1 .. w + k /\ i <= w
        OBVIOUS
      <4>3. \A i \in 1 .. w : Y[i] = W[i]
        BY <1>8, <4>2
      <4> QED
        BY <1>8, <1>7, <4>1, <4>2, <4>3
    <3>2. CASE n # l
      <4>1. T2[n] = T[n] /\ T[n] \in Seq(Nat)
        BY <1>4, <1>9, <3>2
      <4>2. Len(T[n]) \in Nat
        BY <4>1, LenProperties
      <4> QED
        BY <4>1, <4>2
    <3> QED
      BY <3>1, <3>2
  <2> QED
    BY <1>3, <1>10, <2>1 DEF Longer
<1>17. \A n \in 1 .. l : T2[n][1] = T[n][1]
  BY <1>5, <1>9, <1>13
<1>18. StreamsOK(T2, N + k, TRUE)
  <2>1. \A n \in 1 .. l : Len(T2[n]) >= 1 /\ \A i \in DOMAIN T2[n] : T2[n][i] = T2[n][1] + i - 1 /\ T2[n][i] \in 1 .. N + k
    <3> TAKE n \in 1 .. l
    <3>1. CASE n = l
      <4>1. T2[n] = Y /\ w + k >= 1
        BY <1>9, <1>12, <3>1
      <4> QED
        BY <1>8, <1>13, <1>15, <4>1
    <3>2. CASE n # l
      <4>1. T2[n] = T[n]
        BY <1>9, <3>2
      <4>2. \A x \in 1 .. N : x \in 1 .. N + k
        OBVIOUS
      <4> QED
        BY <1>11, <4>1, <4>2
    <3> QED
      BY <3>1, <3>2
  <2>2. \A n, m \in 1 .. l : n < m => \A i \in DOMAIN T2[n] : T2[n][i] < T2[m][1]
    <3> SUFFICES ASSUME NEW n \in 1 .. l, NEW m \in 1 .. l, n < m, NEW i \in DOMAIN T2[n]
                 PROVE  T2[n][i] < T2[m][1]
      OBVIOUS
    <3>1. n # l
      BY <1>3
    <3>2. T2[n] = T[n] /\ T2[m][1] = T[m][1]
      BY <1>9, <1>17, <3>1
    <3> QED
      BY <1>3, <3>2 DEF StreamsOK
  <2>3. T2[l][1] + Len(T2[l]) - 1 = N + k
    <3>1. T2[l][1] = f /\ Len(T2[l]) = w + k
      BY <1>8, <1>9, <1>13
    <3>2. f + (w + k) - 1 = N + k
      BY <1>12
    <3> QED
      BY <3>1, <3>2, Zenon
  <2>4. l >= 1 /\ DOMAIN T2 = 1 .. l /\ Len(T2) = l
    BY <1>9, <1>10
  <2> QED
    BY <2>1, <2>2, <2>3, <2>4, Zenon DEF StreamsOK
<1> QED
  BY <1>1, <1>16, <1>18

\* What was told is a part of a history that goes on.
LEMMA StreamSame ==
  ASSUME NEW T \in Seq(Seq(Nat)), NEW N \in Nat, NEW k \in Nat, NEW on, StreamsOK(T, N, on)
  PROVE  StreamsOK(T, N + k, FALSE)
<1>1. \A x \in 1 .. N : x \in 1 .. N + k
  OBVIOUS
<1> QED
  BY <1>1 DEF StreamsOK

\* A session that is new is told the history from now on.
LEMMA StreamFresh ==
  ASSUME NEW T \in Seq(Seq(Nat)), NEW N \in Nat, StreamsOK(T, N, FALSE),
         NEW X \in Seq(Nat), Len(X) >= 1, \A i \in 1 .. Len(X) : X[i] = N + i,
         NEW T2 \in Seq(Seq(Nat)), Len(T2) = Len(T) + 1, T2[Len(T) + 1] = X, \A n \in DOMAIN T : T2[n] = T[n]
  PROVE  Longer(T, T2) /\ StreamsOK(T2, N + Len(X), TRUE) /\ T2[Len(T) + 1][1] = N + 1
<1>1. PICK k \in Nat : k = Len(X) /\ k >= 1
  BY LenProperties
<1>2. \A i \in 1 .. k : X[i] = N + i
  BY <1>1
<1>3. DOMAIN X = 1 .. k
  BY <1>1, LenProperties
<1>4. PICK l \in Nat : l = Len(T) /\ DOMAIN T = 1 .. l
  BY LenProperties
<1>5. DOMAIN T2 = 1 .. l + 1 /\ T2[l + 1] = X /\ \A n \in 1 .. l : T2[n] = T[n]
  BY <1>4, LenProperties
<1>6. Len(T2) = l + 1
  BY <1>4
<1>7. \A n \in 1 .. l : T[n] \in Seq(Nat) /\ Len(T[n]) \in Nat
  BY <1>4, LenProperties
<1>8. Longer(T, T2)
  <2>1. Len(T) <= Len(T2)
    BY <1>4, <1>6
  <2>2. \A n \in 1 .. l : Len(T[n]) <= Len(T2[n]) /\ \A i \in DOMAIN T[n] : T2[n][i] = T[n][i]
    <3> TAKE n \in 1 .. l
    <3>1. T2[n] = T[n] /\ Len(T[n]) \in Nat
      BY <1>5, <1>7
    <3> QED
      BY <3>1
  <2> QED
    BY <1>4, <2>1, <2>2 DEF Longer
<1>9. X[1] = N + 1
  BY <1>1, <1>2
<1>10. \A n \in 1 .. l + 1 : Len(T2[n]) >= 1 /\ \A i \in DOMAIN T2[n] : T2[n][i] = T2[n][1] + i - 1 /\ T2[n][i] \in 1 .. N + k
  <2> TAKE n \in 1 .. l + 1
  <2>1. CASE n = l + 1
    <3>1. T2[n] = X
      BY <1>5, <2>1
    <3>2. \A i \in 1 .. k : N + i = N + 1 + i - 1 /\ N + i \in 1 .. N + k
      OBVIOUS
    <3>3. \A i \in DOMAIN X : X[i] = X[1] + i - 1 /\ X[i] \in 1 .. N + k
      <4> SUFFICES ASSUME NEW i \in 1 .. k
                   PROVE  X[i] = X[1] + i - 1 /\ X[i] \in 1 .. N + k
        BY <1>3
      <4>1. X[i] = N + i /\ X[1] = N + 1
        BY <1>2, <1>9
      <4> QED
        BY <3>2, <4>1, Zenon
    <3>4. Len(X) >= 1
      OBVIOUS
    <3> QED
      BY <3>1, <3>3, <3>4, Zenon
  <2>2. CASE n \in 1 .. l
    <3>1. T2[n] = T[n]
      BY <1>5, <2>2
    <3>2. \A x \in 1 .. N : x \in 1 .. N + k
      OBVIOUS
    <3>3. Len(T[n]) >= 1 /\ \A i \in DOMAIN T[n] : T[n][i] = T[n][1] + i - 1 /\ T[n][i] \in 1 .. N
      BY <1>4, <2>2, Zenon DEF StreamsOK
    <3>4. Len(T[n]) >= 1 /\ \A i \in DOMAIN T[n] : T[n][i] = T[n][1] + i - 1 /\ T[n][i] \in 1 .. N + k
      BY <3>2, <3>3, Zenon
    <3> QED
      BY <3>1, <3>4, Zenon
  <2>3. n = l + 1 \/ n \in 1 .. l
    OBVIOUS
  <2> QED
    BY <2>1, <2>2, <2>3, Zenon
<1>11. \A n, m \in 1 .. l + 1 : n < m => \A i \in DOMAIN T2[n] : T2[n][i] < T2[m][1]
  <2> SUFFICES ASSUME NEW n \in 1 .. l + 1, NEW m \in 1 .. l + 1, n < m, NEW i \in DOMAIN T2[n]
               PROVE  T2[n][i] < T2[m][1]
    OBVIOUS
  <2>1. n \in 1 .. l
    OBVIOUS
  <2>2. T2[n] = T[n]
    BY <1>5, <2>1
  <2>3. CASE m = l + 1
    <3>1. T2[m][1] = N + 1
      BY <1>5, <1>9, <2>3
    <3>2. T[n][i] \in 1 .. N
      BY <1>4, <2>1, <2>2 DEF StreamsOK
    <3> QED
      BY <2>2, <3>1, <3>2
  <2>4. CASE m \in 1 .. l
    <3>1. T2[m] = T[m]
      BY <1>5, <2>4
    <3> QED
      BY <1>4, <2>1, <2>2, <2>4, <3>1 DEF StreamsOK
  <2> QED
    BY <2>3, <2>4
<1>12. T2[l + 1][1] + Len(T2[l + 1]) - 1 = N + k
  <2>1. T2[l + 1][1] = N + 1 /\ Len(T2[l + 1]) = k
    BY <1>1, <1>5, <1>9
  <2> QED
    BY <2>1
<1>13. StreamsOK(T2, N + k, TRUE)
  <2>1. l + 1 >= 1
    OBVIOUS
  <2> QED
    BY <1>5, <1>6, <1>10, <1>11, <1>12, <2>1, Zenon DEF StreamsOK
<1>14. T2[l + 1][1] = N + 1
  BY <1>5, <1>9
<1> QED
  BY <1>1, <1>4, <1>8, <1>13, <1>14

\* The messages that are handled are the first, up to an empty line.
LEMMA HandledOK ==
  ASSUME NEW R \in Seq(Nat), NEW c
  PROVE  /\ Handled(c, R) \subseteq DOMAIN R /\ Cardinality(Handled(c, R)) \in Nat
         /\ \A i \in Handled(c, R) : i <= Cardinality(Handled(c, R))
<1>1. PICK l \in Nat : l = Len(R) /\ DOMAIN R = 1 .. l
  BY LenProperties
<1>2. PICK H : H = Handled(c, R)
  OBVIOUS
<1>3. H \subseteq 1 .. l
  BY <1>1, <1>2 DEF Handled
<1>4. IsFiniteSet(H) /\ Cardinality(H) \in Nat
  <2>1. IsFiniteSet(1 .. l)
    BY FS_Interval
  <2> QED
    BY <1>3, <2>1, FS_Subset, FS_CardinalityType
<1>5. ASSUME NEW i \in H
      PROVE  i <= Cardinality(H)
  <2>1. i \in 1 .. l /\ \A j \in 1 .. i : ~Empty(c, R[j])
    BY <1>1, <1>2, <1>3 DEF Handled
  <2>2. 1 .. i \subseteq H
    <3> SUFFICES ASSUME NEW j \in 1 .. i
                 PROVE  j \in H
      OBVIOUS
    <3>1. j \in 1 .. l /\ \A x \in 1 .. j : x \in 1 .. i
      BY <2>1
    <3> QED
      BY <1>1, <1>2, <2>1, <3>1 DEF Handled
  <2>3. i \in Nat /\ i >= 1 /\ i \in Int /\ 1 \in Int
    BY <2>1
  <2>4. Cardinality(1 .. i) = i
    <3>1. Cardinality(1 .. i) = IF 1 > i THEN 0 ELSE i - 1 + 1
      BY <2>3, FS_Interval
    <3> QED
      BY <2>3, <3>1
  <2>5. Cardinality(1 .. i) <= Cardinality(H)
    BY <1>4, <2>2, FS_Subset
  <2> QED
    BY <2>4, <2>5
<1> QED
  BY <1>1, <1>2, <1>3, <1>4, <1>5

\* What stays in the queue comes after what was handled.
LEMMA LeftOver ==
  ASSUME NEW R \in Seq(Nat), NEW h \in Nat, NEW N \in Nat, Increasing(R, N)
  PROVE  LET Q == SubSeq(R, h + 2, Len(R))
         IN  /\ Q \in Seq(Nat) /\ Increasing(Q, N)
             /\ \A j \in DOMAIN Q : \E y \in DOMAIN R : Q[j] = R[y] /\ y > h
             /\ \A m \in Nat : Beyond(R, 1, m) => Beyond(Q, 1, m)
<1>1. PICK l \in Nat : l = Len(R) /\ DOMAIN R = 1 .. l
  BY LenProperties
<1>2. PICK Q : Q = SubSeq(R, h + 2, l)
  OBVIOUS
<1>3. \A i \in h + 2 .. l : R[i] \in Nat
  BY <1>1
<1>4. h + 2 \in Int /\ l \in Int
  OBVIOUS
<1>5. Q \in Seq(Nat) /\ Len(Q) = (IF h + 2 <= l THEN l - (h + 2) + 1 ELSE 0)
      /\ \A i \in 1 .. l - (h + 2) + 1 : Q[i] = R[h + 2 + i - 1]
  <2>1. PICK m \in Int : m = h + 2
    BY <1>4
  <2>2. \A i \in m .. l : R[i] \in Nat
    BY <1>3, <2>1
  <2>3. /\ SubSeq(R, m, l) \in Seq(Nat)
        /\ Len(SubSeq(R, m, l)) = IF m <= l THEN l - m + 1 ELSE 0
        /\ \A i \in 1 .. l - m + 1 : SubSeq(R, m, l)[i] = R[m + i - 1]
    BY <1>4, <2>2, SubSeqProperties
  <2> QED
    BY <1>2, <2>1, <2>3
<1>6. DOMAIN Q = 1 .. Len(Q)
  BY <1>5, LenProperties
<1>7. \A j \in DOMAIN Q : j \in Nat /\ j + h + 1 \in DOMAIN R /\ Q[j] = R[j + h + 1]
  <2> SUFFICES ASSUME NEW j \in DOMAIN Q
               PROVE  j \in Nat /\ j + h + 1 \in DOMAIN R /\ Q[j] = R[j + h + 1]
    OBVIOUS
  <2>1. j \in 1 .. l - (h + 2) + 1
    BY <1>5, <1>6
  <2>2. h + 2 + j - 1 = j + h + 1 /\ j \in Nat /\ j + h + 1 \in 1 .. l
    BY <2>1
  <2>3. Q[j] = R[h + 2 + j - 1]
    BY <1>5, <2>1
  <2> QED
    BY <1>1, <2>2, <2>3
<1>8. Increasing(Q, N)
  <2>1. \A j \in DOMAIN Q : Q[j] <= N
    BY <1>7 DEF Increasing
  <2>2. ASSUME NEW i \in DOMAIN Q, NEW j \in DOMAIN Q, i < j, Q[i] # 0, Q[j] # 0
        PROVE  Q[i] < Q[j]
    <3>1. i + h + 1 < j + h + 1
      BY <1>7, <2>2
    <3>2. i + h + 1 \in DOMAIN R /\ j + h + 1 \in DOMAIN R /\ Q[i] = R[i + h + 1] /\ Q[j] = R[j + h + 1]
      BY <1>7
    <3> QED
      BY <2>2, <3>1, <3>2, Zenon DEF Increasing
  <2> QED
    BY <2>1, <2>2 DEF Increasing
<1>9. \A j \in DOMAIN Q : \E y \in DOMAIN R : Q[j] = R[y] /\ y > h
  <2> SUFFICES ASSUME NEW j \in DOMAIN Q
               PROVE  \E y \in DOMAIN R : Q[j] = R[y] /\ y > h
    OBVIOUS
  <2>1. j + h + 1 > h /\ j + h + 1 \in DOMAIN R /\ Q[j] = R[j + h + 1]
    BY <1>7
  <2> QED
    BY <2>1, Zenon
<1>10. \A m \in Nat : Beyond(R, 1, m) => Beyond(Q, 1, m)
  <2> SUFFICES ASSUME NEW m \in Nat, Beyond(R, 1, m), NEW j \in DOMAIN Q, Q[j] # 0
               PROVE  m < Q[j]
    BY DEF Beyond
  <2>1. PICK y \in DOMAIN R : Q[j] = R[y]
    BY <1>9
  <2>2. y >= 1
    BY <1>1
  <2> QED
    BY <2>1, <2>2 DEF Beyond
<1> QED
  BY <1>1, <1>2, <1>5, <1>8, <1>9, <1>10

\* Concatenation, position by position.
LEMMA ConcatParts ==
  ASSUME NEW S, NEW A \in Seq(S), NEW B \in Seq(S)
  PROVE  /\ A \o B \in Seq(S) /\ Len(A \o B) = Len(A) + Len(B)
         /\ \A i \in DOMAIN A : i \in DOMAIN (A \o B) /\ (A \o B)[i] = A[i]
         /\ \A i \in DOMAIN (A \o B) :
              \/ i \in DOMAIN A /\ (A \o B)[i] = A[i]
              \/ i - Len(A) \in DOMAIN B /\ (A \o B)[i] = B[i - Len(A)]
         /\ \A i \in DOMAIN B : Len(A) + i \in DOMAIN (A \o B) /\ (A \o B)[Len(A) + i] = B[i]
<1>1. PICK R \in Seq(S) : R = A \o B
  BY ConcatProperties
<1>2. PICK a \in Nat, b \in Nat : a = Len(A) /\ b = Len(B)
  BY LenProperties
<1>3. Len(R) = a + b /\ \A i \in 1 .. a + b : R[i] = IF i <= a THEN A[i] ELSE B[i - a]
  BY <1>1, <1>2, ConcatProperties
<1>4. DOMAIN R = 1 .. a + b /\ DOMAIN A = 1 .. a /\ DOMAIN B = 1 .. b
  BY <1>2, <1>3, LenProperties
<1>5. \A i \in 1 .. a : i \in 1 .. a + b /\ R[i] = A[i]
  BY <1>3
<1>6. \A i \in 1 .. b : a + i \in 1 .. a + b /\ R[a + i] = B[i]
  <2> TAKE i \in 1 .. b
  <2>1. a + i \in 1 .. a + b /\ ~(a + i <= a) /\ a + i - a = i
    OBVIOUS
  <2> QED
    BY <1>3, <2>1
<1>7. \A i \in 1 .. a + b : \/ i \in 1 .. a /\ R[i] = A[i]
                            \/ i - a \in 1 .. b /\ R[i] = B[i - a]
  <2> TAKE i \in 1 .. a + b
  <2>1. CASE i <= a
    BY <1>3, <2>1
  <2>2. CASE i > a
    <3>1. ~(i <= a) /\ i - a \in 1 .. b
      BY <2>2
    <3> QED
      BY <1>3, <3>1
  <2> QED
    BY <2>1, <2>2
<1> QED
  BY <1>1, <1>2, <1>3, <1>4, <1>5, <1>6, <1>7

\* A sequence of which one member is replaced.
LEMMA ExceptMember ==
  ASSUME NEW S, NEW s \in Seq(S), NEW l \in DOMAIN s, NEW x \in S
  PROVE  LET t == [s EXCEPT ![l] = x]
         IN  /\ t \in Seq(S) /\ Len(t) = Len(s) /\ t[l] = x
             /\ \A n \in DOMAIN s : n # l => t[n] = s[n]
<1>1. PICK k \in Nat : k = Len(s) /\ DOMAIN s = 1 .. k
  BY LenProperties
<1>2. s \in [1 .. k -> S]
  BY <1>1
<1>3. PICK t : t = [s EXCEPT ![l] = x]
  OBVIOUS
<1>4. t \in [1 .. k -> S] /\ t[l] = x /\ \A n \in DOMAIN s : n # l => t[n] = s[n]
  BY <1>1, <1>2, <1>3
<1>5. t \in Seq(S) /\ Len(t) = k
  BY <1>4
<1> QED
  BY <1>1, <1>3, <1>4, <1>5

\* The places of new notifications in the history.
LEMMA NewOK ==
  ASSUME TypeOK, NEW notes \in Seq(Notification)
  PROVE  New(notes) \in Seq(Nat) /\ Len(New(notes)) = Len(notes)
         /\ \A i \in 1 .. Len(notes) : New(notes)[i] = Len(log) + i
<1>1. PICK N \in Nat : N = Len(log)
  BY LenProperties DEF TypeOK
<1>2. PICK k \in Nat : k = Len(notes) /\ DOMAIN notes = 1 .. k
  BY LenProperties
<1>3. New(notes) = [i \in 1 .. k |-> N + i]
  BY <1>1, <1>2 DEF New
<1>4. [i \in 1 .. k |-> N + i] \in Seq(Nat) /\ Len([i \in 1 .. k |-> N + i]) = k
  OBVIOUS
<1>5. \A i \in 1 .. k : New(notes)[i] = N + i
  BY <1>3
<1> QED
  BY <1>1, <1>2, <1>3, <1>4, <1>5

\* T2 is what T was told and what came since, of a history of M notifications,
\* in k sessions.
GoesOn(T, T2, M, on, k) == T2 \in Seq(Seq(Nat)) /\ Longer(T, T2) /\ StreamsOK(T2, M, on) /\ Len(T2) = k

\* Who is no user is told nothing.
LEMMA ToldNothing ==
  ASSUME NEW T \in Seq(Seq(Nat)), NEW N \in Nat, NEW on, StreamsOK(T, N, on), NEW X \in Seq(Nat)
  PROVE  GoesOn(T, T, N + Len(X), FALSE, Len(T))
<1>1. \A n \in DOMAIN T : T[n] \in Seq(Nat) /\ Len(T[n]) \in Nat
  BY LenProperties
<1>2. Len(T) \in Nat
  BY LenProperties
<1>3. Longer(T, T)
  BY <1>1, <1>2 DEF Longer
<1>4. PICK k \in Nat : k = Len(X)
  BY LenProperties
<1>5. StreamsOK(T, N + k, FALSE)
  BY StreamSame
<1> QED
  BY <1>3, <1>4, <1>5 DEF GoesOn

\* A user is told what is new.
LEMMA ToldMore ==
  ASSUME NEW T \in Seq(Seq(Nat)), NEW N \in Nat, StreamsOK(T, N, TRUE),
         NEW X \in Seq(Nat), \A i \in 1 .. Len(X) : X[i] = N + i,
         NEW T2, T2 = [T EXCEPT ![Len(T)] = T[Len(T)] \o X]
  PROVE  GoesOn(T, T2, N + Len(X), TRUE, Len(T))
<1>1. PICK l \in Nat : l = Len(T) /\ DOMAIN T = 1 .. l /\ l \in 1 .. l
  <2>1. Len(T) \in Nat /\ DOMAIN T = 1 .. Len(T)
    BY LenProperties
  <2>2. Len(T) >= 1
    BY DEF StreamsOK
  <2>3. Len(T) \in 1 .. Len(T)
    BY <2>1, <2>2
  <2> QED
    BY <2>1, <2>3
<1>2. PICK Y \in Seq(Nat) : Y = T[l] \o X
  <2>1. T[l] \in Seq(Nat)
    BY <1>1
  <2> QED
    BY <2>1, ConcatProperties
<1>3. PICK R : R = [T EXCEPT ![l] = Y]
  OBVIOUS
<1>4. T2 = R
  BY <1>1, <1>2, <1>3
<1>5. R \in Seq(Seq(Nat)) /\ Len(R) = l /\ R[l] = Y /\ \A n \in 1 .. l : n # l => R[n] = T[n]
  BY <1>1, <1>3, ExceptMember
<1>6. Len(R) = Len(T) /\ R[Len(T)] = T[Len(T)] \o X /\ \A n \in DOMAIN T : n # Len(T) => R[n] = T[n]
  BY <1>1, <1>2, <1>5
<1>7. Longer(T, R) /\ StreamsOK(R, N + Len(X), TRUE)
  BY <1>5, <1>6, StreamLonger
<1> QED
  BY <1>4, <1>5, <1>6, <1>7, Zenon DEF GoesOn

\* A stream is added to those of a client.
LEMMA StreamAdded ==
  ASSUME NEW T \in Seq(Seq(Nat)), NEW X \in Seq(Nat), NEW l \in Nat, l = Len(T)
  PROVE  LET R == [Append(T, <<>>) EXCEPT ![l + 1] = X]
         IN  /\ R \in Seq(Seq(Nat)) /\ Len(R) = l + 1 /\ R[l + 1] = X
             /\ \A n \in 1 .. l : R[n] = T[n]
<1>1. <<>> \in Seq(Nat)
  OBVIOUS
<1>2. PICK U \in Seq(Seq(Nat)) : U = Append(T, <<>>)
  BY <1>1, AppendProperties
<1>3. Len(U) = l + 1 /\ \A n \in 1 .. l : U[n] = T[n]
  BY <1>1, <1>2, AppendProperties
<1>4. DOMAIN U = 1 .. l + 1
  BY <1>3, LenProperties
<1>5. PICK m \in DOMAIN U : m = l + 1
  BY <1>4
<1>6. PICK R : R = [U EXCEPT ![m] = X]
  OBVIOUS
<1>7. R \in Seq(Seq(Nat)) /\ Len(R) = Len(U) /\ R[m] = X /\ \A n \in DOMAIN U : n # m => R[n] = U[n]
  BY <1>6, ExceptMember
<1>8. \A n \in 1 .. l : n \in DOMAIN U /\ n # m
  BY <1>4, <1>5
<1>9. \A n \in 1 .. l : R[n] = T[n]
  BY <1>3, <1>7, <1>8
<1> QED
  BY <1>2, <1>3, <1>5, <1>6, <1>7, <1>9

\* T2 has the streams of T, and X after them.
Added(T, T2, X) ==
  T2 \in Seq(Seq(Nat)) /\ Len(T2) = Len(T) + 1 /\ T2[Len(T) + 1] = X /\ \A n \in DOMAIN T : T2[n] = T[n]

\* What a new user is told: the new notifications, in a stream of their own.
LEMMA StreamFirst ==
  ASSUME NEW T \in Seq(Seq(Nat)), NEW X \in Seq(Nat),
         NEW U, U = Append(T, <<>>), NEW T2, T2 = [U EXCEPT ![Len(U)] = U[Len(U)] \o X]
  PROVE  Added(T, T2, X)
<1>1. <<>> \in Seq(Nat)
  OBVIOUS
<1>2. PICK l \in Nat : l = Len(T) /\ DOMAIN T = 1 .. l
  BY LenProperties
<1>3. U \in Seq(Seq(Nat)) /\ Len(U) = l + 1 /\ U[l + 1] = <<>> /\ \A n \in 1 .. l : U[n] = T[n]
  BY <1>1, <1>2, AppendProperties
<1>4. PICK R : R = [U EXCEPT ![l + 1] = X]
  OBVIOUS
<1>5. T2 = R
  BY <1>3, <1>4, ConcatEmptySeq
<1>6. R \in Seq(Seq(Nat)) /\ Len(R) = l + 1 /\ R[l + 1] = X /\ \A n \in 1 .. l : R[n] = T[n]
  BY <1>2, <1>4, StreamAdded
<1> QED
  BY <1>2, <1>5, <1>6 DEF Added

\* A new user is told the history from its coming in.
LEMMA ToldFresh ==
  ASSUME NEW T \in Seq(Seq(Nat)), NEW N \in Nat, StreamsOK(T, N, FALSE),
         NEW X \in Seq(Nat), Len(X) >= 1, \A i \in 1 .. Len(X) : X[i] = N + i,
         NEW T2, Added(T, T2, X)
  PROVE  GoesOn(T, T2, N + Len(X), TRUE, Len(T) + 1)
<1>1. T2 \in Seq(Seq(Nat)) /\ Len(T2) = Len(T) + 1 /\ T2[Len(T) + 1] = X /\ \A n \in DOMAIN T : T2[n] = T[n]
  BY Zenon DEF Added
<1>2. Longer(T, T2)
  BY <1>1, StreamFresh, Zenon
<1>3. StreamsOK(T2, N + Len(X), TRUE)
  BY <1>1, StreamFresh, Zenon
<1> QED
  BY <1>2, <1>3, <1>1, Zenon DEF GoesOn

\* What a client has received is what it was told, also when it is told more.
LEMMA HeardLonger ==
  ASSUME TypeOK, NEW d \in Client, HeardOK(d), UNCHANGED <<heard, shown>>,
         told'[d] \in Seq(Seq(Nat)), Longer(told[d], told'[d])
  PROVE  HeardOK(d)'
<1>1. PICK T \in Seq(Seq(Nat)), T2 \in Seq(Seq(Nat)) : T = told[d] /\ T2 = told'[d]
  BY DEF TypeOK
<1>2. AllSegments(T) \subseteq AllSegments(T2)
  BY <1>1, AllSegmentsGrow
<1>3. Receives(heard[d], AllSegments(T2))
  BY <1>1, <1>2, ReceivesMore DEF HeardOK
<1>4. \A i \in DOMAIN shown[d] : [sn |-> i, msg |-> shown[d][i].note] \in AllSegments(T2)
  BY <1>1, <1>2 DEF HeardOK
<1> QED
  BY <1>1, <1>3, <1>4 DEF HeardOK

\* The sessions of a client begin with its joining, also when it makes a fresh
\* one.
LEMMA JoinsLonger ==
  ASSUME TypeOK, NEW d \in Client, JoinsOK(d), StreamsOK(told[d], Len(log), d \in users),
         NEW notes \in Seq(Notification), log' = log \o notes, NEW fresh \in BOOLEAN,
         Longer(told[d], told'[d]), told'[d] \in Seq(Seq(Nat)),
         Len(told'[d]) = IF fresh THEN Len(told[d]) + 1 ELSE Len(told[d]),
         fresh => /\ told'[d][Len(told[d]) + 1][1] = Len(log) + 1
                  /\ Len(notes) >= 1 /\ notes[1] = Note("join", d, Len(told[d]) + 1, 0)
  PROVE  JoinsOK(d)'
<1>1. PICK T \in Seq(Seq(Nat)), T2 \in Seq(Seq(Nat)) : T = told[d] /\ T2 = told'[d]
  BY DEF TypeOK
<1>2. PICK l \in Nat : l = Len(T) /\ DOMAIN T = 1 .. l
  BY LenProperties
<1>3. PICK L \in Seq(Notification) : L = log
  BY DEF TypeOK
<1>4. /\ \A i \in DOMAIN L : i \in DOMAIN (L \o notes) /\ (L \o notes)[i] = L[i]
      /\ \A i \in DOMAIN notes : (L \o notes)[Len(L) + i] = notes[i]
  <2>1. \A i \in DOMAIN L : i \in DOMAIN (L \o notes) /\ (L \o notes)[i] = L[i]
    BY ConcatParts, SMTT(30)
  <2>2. \A i \in DOMAIN notes : (L \o notes)[Len(L) + i] = notes[i]
    BY ConcatParts, SMTT(30)
  <2> QED
    BY <2>1, <2>2
<1>5. DOMAIN L = 1 .. Len(L) /\ DOMAIN notes = 1 .. Len(notes)
  BY LenProperties
<1>6. ASSUME NEW n \in 1 .. l
      PROVE  log'[T2[n][1]] = Note("join", d, n, 0)
  <2>1. T[n] \in Seq(Nat) /\ Len(T[n]) >= 1
    <3>1. StreamsOK(T, Len(log), d \in users)
      BY <1>1
    <3>2. T[n] \in Seq(Nat)
      BY <1>2
    <3> QED
      BY <1>2, <3>1, <3>2 DEF StreamsOK
  <2>2. 1 \in DOMAIN T[n]
    BY <2>1, LenProperties
  <2>3. T2[n][1] = T[n][1]
    BY <1>1, <1>2, <2>2 DEF Longer
  <2>4. T[n][1] \in 1 .. Len(L)
    BY <1>1, <1>2, <1>3, <2>2 DEF StreamsOK
  <2>5. (L \o notes)[T[n][1]] = L[T[n][1]]
    BY <1>4, <1>5, <2>4
  <2> QED
    BY <1>1, <1>2, <1>3, <2>3, <2>5 DEF JoinsOK
<1>7. ASSUME fresh
      PROVE  log'[T2[l + 1][1]] = Note("join", d, l + 1, 0)
  <2>1. T2[l + 1][1] = Len(L) + 1 /\ 1 \in DOMAIN notes /\ notes[1] = Note("join", d, l + 1, 0)
    <3>1. Len(notes) \in Nat
      BY LenProperties
    <3> QED
      BY <1>1, <1>2, <1>3, <1>5, <1>7, <3>1
  <2> QED
    BY <1>3, <1>4, <2>1
<1>8. DOMAIN T2 = 1 .. IF fresh THEN l + 1 ELSE l
  <2>1. Len(T2) = IF fresh THEN l + 1 ELSE l
    BY <1>1, <1>2
  <2> QED
    BY <2>1, LenProperties
<1>9. ASSUME NEW n \in DOMAIN T2
      PROVE  log'[T2[n][1]] = Note("join", d, n, 0)
  <2>1. n \in 1 .. l \/ (fresh /\ n = l + 1)
    <3>1. CASE fresh
      <4>1. n \in 1 .. l + 1
        BY <1>8, <3>1, Zenon
      <4> QED
        BY <3>1, <4>1, SMTT(20)
    <3>2. CASE ~fresh
      BY <1>8, <3>2, Zenon
    <3> QED
      BY <3>1, <3>2
  <2> QED
    BY <1>6, <1>7, <2>1
<1> QED
  BY <1>1, <1>9 DEF JoinsOK, Note

\* Nothing is notified of those who are not concerned.
LEMMA LogOthers ==
  ASSUME TypeOK, NEW d \in Client, LogOK(d), SessionOK(d), NEW notes \in Seq(Notification), log' = log \o notes,
         \A i \in DOMAIN notes : notes[i].who # d,
         UNCHANGED <<typed, said>>, sessions'[d] = sessions[d], Len(told'[d]) = Len(told[d])
  PROVE  LogOK(d)' /\ SessionOK(d)'
<1>1. PICK L \in Seq(Notification) : L = log
  BY DEF TypeOK
<1>2. \A i \in DOMAIN (L \o notes) :
        \/ i \in DOMAIN L /\ (L \o notes)[i] = L[i]
        \/ i - Len(L) \in DOMAIN notes /\ (L \o notes)[i] = notes[i - Len(L)]
  BY ConcatParts
<1>3. \A i \in DOMAIN log' : log'[i].who = d => i \in DOMAIN log /\ log'[i] = log[i]
  BY <1>1, <1>2
<1>4. LogOK(d)'
  <2> SUFFICES ASSUME NEW i \in DOMAIN log', log'[i].who = d
               PROVE  /\ log'[i].session \in 1 .. Len(told'[d]) /\ log'[i].line <= Len(typed'[d])
                      /\ sessions'[d].open /\ log'[i].session = Len(told'[d]) =>
                           /\ log'[i].kind # "left"
                           /\ log'[i].kind = "line" =>
                                /\ Beyond(sessions'[d].r.queue, 1, log'[i].line)
                                /\ Beyond(said'[d], sessions'[d].r.nxt, log'[i].line)
    BY Zenon DEF LogOK, Beyond
  <2>1. i \in DOMAIN log /\ log'[i] = log[i] /\ log[i].who = d
    BY <1>3
  <2> HIDE DEF Beyond
  <2> QED
    BY <2>1 DEF LogOK
<1>5. SessionOK(d)'
  BY DEF SessionOK
<1> QED
  BY <1>4, <1>5

\* At the start nobody is there.
LEMMA InitOK == Init => IInv
<1> SUFFICES ASSUME Init
             PROVE  IInv
  OBVIOUS
<1> USE DEF Init
<1>1. ikcp_create \in Receiver
  BY DEF ikcp_create, Receiver, Position
<1>2. TypeOK
  <2>1. None \in [open : BOOLEAN, r : Receiver, timed : BOOLEAN] /\ None.open = FALSE
    BY <1>1 DEF None
  <2>2. typed \in [Client -> Seq(Kind)] /\ said \in [Client -> Seq(Nat)] /\ log \in Seq(Notification)
        /\ told \in [Client -> Seq(Seq(Nat))] /\ shown \in [Client -> Seq([note : Nat, whole : BOOLEAN])]
    OBVIOUS
  <2>3. sessions \in [Client -> [open : BOOLEAN, r : Receiver, timed : BOOLEAN]] /\ heard \in [Client -> Receiver]
    BY <1>1, <2>1
  <2>4. users = {c \in Client : sessions[c].open}
    BY <2>1
  <2> QED
    BY <2>2, <2>3, <2>4 DEF TypeOK
<1>3. Orderly(log)
  BY DEF Orderly
<1>4. ASSUME NEW c \in Client
      PROVE  SessionOK(c) /\ LogOK(c) /\ JoinsOK(c) /\ HeardOK(c) /\ StreamsOK(told[c], Len(log), c \in users)
  <2>1. SessionOK(c)
    BY DEF SessionOK, Increasing, None
  <2>2. LogOK(c) /\ JoinsOK(c) /\ StreamsOK(told[c], Len(log), c \in users)
    BY DEF LogOK, JoinsOK, StreamsOK
  <2>3. IsFiniteSet({})
    BY FS_EmptySet
  <2>4. heard[c] = ikcp_create /\ shown[c] = <<>>
    OBVIOUS
  <2>5. Receives(ikcp_create, AllSegments(told[c]))
    BY <1>1, <2>3 DEF Receives, ikcp_create
  <2>6. ikcp_create.queue = <<>> /\ ikcp_create.nxt = 1
    BY DEF ikcp_create
  <2>7. HeardOK(c)
    BY <2>4, <2>5, <2>6 DEF HeardOK
  <2> QED
    BY <2>1, <2>2, <2>7
<1> QED
  BY <1>2, <1>3, <1>4 DEF IInv

\* A message of a client that is given to KCP: a new line, or no line.
LEMMA SaidMore ==
  ASSUME IInv, NEW c \in Client, NEW m \in Nat, NEW N \in Nat, Len(typed[c]) <= N, m <= N,
         m # 0 => m > Len(typed[c]), said' = [said EXCEPT ![c] = Append(@, m)],
         typed' \in [Client -> Seq(Kind)], Len(typed'[c]) = N, \A d \in Client : d # c => typed'[d] = typed[d],
         UNCHANGED <<heard, shown, serverVars>>
  PROVE  IInv'
<1> USE DEF serverVars
<1>1. PICK s \in Seq(Nat), t \in Seq(Nat) : s = said[c] /\ t = Append(s, m)
  <2>1. said[c] \in Seq(Nat)
    BY DEF IInv, TypeOK
  <2>2. Append(said[c], m) \in Seq(Nat)
    BY <2>1, AppendProperties
  <2> QED
    BY <2>1, <2>2
<1>2. PICK l \in Nat : l = Len(s) /\ DOMAIN s = 1 .. l
  BY LenProperties
<1>3. Len(t) = l + 1 /\ DOMAIN t = 1 .. l + 1 /\ t[l + 1] = m /\ \A i \in 1 .. l : t[i] = s[i]
  <2>1. Len(t) = l + 1 /\ t[l + 1] = m /\ \A i \in 1 .. l : t[i] = s[i]
    BY <1>1, <1>2, AppendProperties
  <2> QED
    BY <2>1, LenProperties
<1>4. said' = [said EXCEPT ![c] = t] /\ said'[c] = t /\ \A d \in Client : d # c => said'[d] = said[d]
  BY <1>1 DEF IInv, TypeOK
<1>5. TypeOK'
  BY <1>4 DEF IInv, TypeOK
<1>6. PICK M \in Nat : M = Len(typed[c])
  BY LenProperties DEF IInv, TypeOK
<1>7. \A x \in Nat : x <= M => x <= N
  BY <1>6
<1>8. \A Q \in Seq(Nat) : Increasing(Q, M) => Increasing(Q, N)
  <2> SUFFICES ASSUME NEW Q \in Seq(Nat), Increasing(Q, M)
               PROVE  Increasing(Q, N)
    OBVIOUS
  <2>1. \A i \in DOMAIN Q : Q[i] \in Nat
    OBVIOUS
  <2> QED
    BY <1>7, <2>1 DEF Increasing
<1>9. ASSUME NEW x \in Nat, x <= M, NEW k \in Nat, Beyond(s, k, x)
      PROVE  Beyond(t, k, x)
  <2> SUFFICES ASSUME NEW j \in 1 .. l + 1, j >= k, t[j] # 0
               PROVE  x < t[j]
    BY <1>3 DEF Beyond
  <2>1. CASE j = l + 1
    BY <1>3, <1>6, <1>9, <2>1
  <2>2. CASE j \in 1 .. l
    BY <1>2, <1>3, <1>9, <2>2 DEF Beyond
  <2> QED
    BY <2>1, <2>2
<1>10. Segments(s) \subseteq Segments(t)
  <2>1. l <= l + 1
    OBVIOUS
  <2>2. Len(s) <= Len(t) /\ \A i \in DOMAIN s : t[i] = s[i]
    BY <1>2, <1>3, <2>1
  <2> QED
    BY <2>2, SegmentsGrow
<1>11. SessionOK(c)
  BY DEF IInv
<1>12. Increasing(t, N)
  <2>1. Increasing(s, M)
    BY <1>1, <1>6, <1>11 DEF SessionOK
  <2>2. \A i \in 1 .. l : s[i] \in Nat /\ s[i] <= M
    <3>1. \A i \in DOMAIN s : s[i] \in Nat
      OBVIOUS
    <3> QED
      BY <1>2, <2>1, <3>1 DEF Increasing
  <2>3. \A i \in 1 .. l + 1 : t[i] <= N
    <3> TAKE i \in 1 .. l + 1
    <3>1. i = l + 1 \/ i \in 1 .. l
      OBVIOUS
    <3> QED
      BY <1>3, <1>7, <2>2, <3>1
  <2>4. \A i, j \in 1 .. l + 1 : i < j /\ t[i] # 0 /\ t[j] # 0 => t[i] < t[j]
    <3> SUFFICES ASSUME NEW i \in 1 .. l + 1, NEW j \in 1 .. l + 1, i < j, t[i] # 0, t[j] # 0
                 PROVE  t[i] < t[j]
      OBVIOUS
    <3>1. i \in 1 .. l /\ t[i] = s[i]
      BY <1>3
    <3>2. CASE j = l + 1
      BY <1>3, <1>6, <2>2, <3>1, <3>2
    <3>3. CASE j \in 1 .. l
      BY <1>2, <1>3, <2>1, <3>1, <3>3 DEF Increasing
    <3> QED
      BY <3>2, <3>3
  <2> QED
    BY <1>3, <2>3, <2>4 DEF Increasing
<1>13. SessionOK(c)'
  <2> SUFFICES ASSUME sessions[c].open
               PROVE  /\ Receives(sessions[c].r, Segments(t))
                      /\ Increasing(sessions[c].r.queue, N)
                      /\ \A i \in DOMAIN sessions[c].r.queue : sessions[c].r.queue[i] # 0 =>
                           Beyond(t, sessions[c].r.nxt, sessions[c].r.queue[i])
    BY <1>4, <1>12 DEF SessionOK
  <2>1. PICK r \in Receiver : r = sessions[c].r
    BY DEF IInv, TypeOK
  <2>2. r.queue \in Seq(Nat) /\ r.nxt \in Nat
    BY DEF Receiver, Position
  <2>3. Receives(r, Segments(s)) /\ Increasing(r.queue, M)
        /\ \A i \in DOMAIN r.queue : r.queue[i] # 0 => Beyond(s, r.nxt, r.queue[i])
    BY <1>1, <1>6, <1>11, <2>1 DEF SessionOK
  <2>4. Receives(r, Segments(t)) /\ Increasing(r.queue, N)
    BY <1>8, <1>10, <2>2, <2>3, ReceivesMore
  <2>5. \A i \in DOMAIN r.queue : r.queue[i] \in Nat /\ r.queue[i] <= M
    BY <2>2, <2>3 DEF Increasing
  <2>6. \A i \in DOMAIN r.queue : r.queue[i] # 0 => Beyond(t, r.nxt, r.queue[i])
    BY <1>9, <2>2, <2>3, <2>5
  <2> QED
    BY <2>1, <2>4, <2>6
<1>14. LogOK(c)'
  <2>1. LogOK(c)
    BY DEF IInv
  <2> SUFFICES ASSUME NEW i \in DOMAIN log, log[i].who = c
               PROVE  /\ log[i].session \in 1 .. Len(told[c]) /\ log[i].line <= N
                      /\ sessions[c].open /\ log[i].session = Len(told[c]) =>
                           /\ log[i].kind # "left"
                           /\ log[i].kind = "line" => /\ Beyond(sessions[c].r.queue, 1, log[i].line)
                                                      /\ Beyond(t, sessions[c].r.nxt, log[i].line)
    BY <1>4 DEF LogOK
  <2>2. log[i].line \in Nat /\ log[i].line <= M /\ sessions[c].r.nxt \in Nat
    <3>1. log[i] \in Notification /\ sessions[c].r \in Receiver
      BY DEF IInv, TypeOK
    <3>2. log[i].line \in Nat /\ sessions[c].r.nxt \in Nat
      BY <3>1 DEF Notification, Receiver, Position
    <3>3. log[i].line <= M
      BY <1>6, <2>1 DEF LogOK
    <3> QED
      BY <3>2, <3>3
  <2>3. log[i].line <= N
    BY <1>7, <2>2
  <2>4. Beyond(s, sessions[c].r.nxt, log[i].line) => Beyond(t, sessions[c].r.nxt, log[i].line)
    BY <1>9, <2>2
  <2> HIDE DEF Beyond
  <2> QED
    BY <1>1, <2>1, <2>3, <2>4 DEF LogOK
<1>15. ASSUME NEW d \in Client
       PROVE  (SessionOK(d) /\ LogOK(d) /\ JoinsOK(d) /\ HeardOK(d) /\ StreamsOK(told[d], Len(log), d \in users))'
  <2>1. SessionOK(d) /\ LogOK(d) /\ JoinsOK(d) /\ HeardOK(d) /\ StreamsOK(told[d], Len(log), d \in users)
    BY DEF IInv
  <2>2. (JoinsOK(d) /\ HeardOK(d) /\ StreamsOK(told[d], Len(log), d \in users))'
    BY <2>1 DEF JoinsOK, HeardOK
  <2>3. CASE d = c
    BY <1>13, <1>14, <2>2, <2>3
  <2>4. CASE d # c
    <3>1. said'[d] = said[d] /\ typed'[d] = typed[d]
      BY <1>4, <2>4
    <3>2. SessionOK(d)'
      BY <2>1, <3>1 DEF SessionOK
    <3>3. LogOK(d)'
      BY <2>1, <3>1 DEF LogOK
    <3> QED
      BY <2>2, <3>2, <3>3
  <2> QED
    BY <2>3, <2>4
<1>16. Orderly(log)'
  BY DEF IInv
<1> QED
  BY <1>5, <1>15, <1>16 DEF IInv

\* The user types a line.
LEMMA TypeStep == ASSUME IInv, NEW c \in Client, NEW kind \in Kind, Type(c, kind) PROVE IInv'
<1>1. PICK M \in Nat : M = Len(typed[c])
  BY LenProperties DEF IInv, TypeOK
<1>2. typed' = [typed EXCEPT ![c] = Append(@, kind)] /\ said' = [said EXCEPT ![c] = Append(@, M + 1)]
      /\ UNCHANGED <<heard, shown, serverVars>>
  BY <1>1 DEF Type
<1>3. typed[c] \in Seq(Kind) /\ Append(typed[c], kind) \in Seq(Kind) /\ Len(Append(typed[c], kind)) = M + 1
  BY <1>1, AppendProperties DEF IInv, TypeOK
<1>4. typed' \in [Client -> Seq(Kind)] /\ Len(typed'[c]) = M + 1 /\ \A d \in Client : d # c => typed'[d] = typed[d]
  BY <1>2, <1>3 DEF IInv, TypeOK
<1>5. M + 1 \in Nat /\ M <= M + 1 /\ M + 1 > M /\ M + 1 <= M + 1
  OBVIOUS
<1> QED
  BY <1>1, <1>2, <1>4, <1>5, SaidMore

\* A keep-alive command is no line.
LEMMA KeepAliveStep == ASSUME IInv, NEW c \in Client, KeepAlive(c) PROVE IInv'
<1>1. PICK M \in Nat : M = Len(typed[c])
  BY LenProperties DEF IInv, TypeOK
<1>2. typed' = typed /\ said' = [said EXCEPT ![c] = Append(@, 0)] /\ UNCHANGED <<heard, shown, serverVars>>
  BY DEF KeepAlive, KEEP_ALIVE_CMD
<1>3. 0 <= M /\ M <= M /\ 0 \in Nat
  OBVIOUS
<1>4. typed' \in [Client -> Seq(Kind)] /\ Len(typed'[c]) = M /\ \A d \in Client : d # c => typed'[d] = typed[d]
  BY <1>1, <1>2 DEF IInv, TypeOK
<1> QED
  BY <1>1, <1>2, <1>3, <1>4, SaidMore

\* What a client shows.
Shown == [note : Nat, whole : BOOLEAN]

\* HandleMessage is given every message that was read.
LEMMA HandleMessagesOK ==
  ASSUME NEW q \in Seq(Nat)
  PROVE  /\ HandleMessages(q) \in Seq(Shown) /\ Len(HandleMessages(q)) = Len(q)
         /\ \A i \in DOMAIN q : HandleMessages(q)[i].note = q[i]
<1>1. PICK l \in Nat : l = Len(q) /\ DOMAIN q = 1 .. l
  BY LenProperties
<1> DEFINE w(i) == i = 1 \/ Size(log[q[i]]) <= Size(log[q[i - 1]])
<1>2. \A i \in 1 .. l : w(i) \in BOOLEAN
  OBVIOUS
<1>3. HandleMessages(q) = [i \in 1 .. l |-> [note |-> q[i], whole |-> w(i)]]
  BY <1>1 DEF HandleMessages
<1> HIDE DEF w
<1>4. \A i \in 1 .. l : [note |-> q[i], whole |-> w(i)] \in Shown
  BY <1>1, <1>2 DEF Shown
<1>5. HandleMessages(q) \in Seq(Shown) /\ Len(HandleMessages(q)) = l
  BY <1>3, <1>4
<1>6. \A i \in 1 .. l : HandleMessages(q)[i].note = q[i]
  BY <1>3
<1> QED
  BY <1>1, <1>5, <1>6

\* The client receives a datagram and shows what it can.
LEMMA RunStep == ASSUME IInv, NEW c \in Client, Run(c) PROVE IInv'
<1> USE DEF serverVars
<1>1. PICK n \in DOMAIN told[c] : \E segs \in Datagrams(told[c][n]) :
        /\ heard' = [heard EXCEPT ![c] = [ikcp_input(heard[c], segs) EXCEPT !.queue = <<>>]]
        /\ shown' = [shown EXCEPT ![c] = @ \o HandleMessages(ikcp_input(heard[c], segs).queue)]
  BY DEF Run
<1>2. PICK segs \in Datagrams(told[c][n]) :
        /\ heard' = [heard EXCEPT ![c] = [ikcp_input(heard[c], segs) EXCEPT !.queue = <<>>]]
        /\ shown' = [shown EXCEPT ![c] = @ \o HandleMessages(ikcp_input(heard[c], segs).queue)]
  BY <1>1
<1>3. UNCHANGED <<typed, said, serverVars>>
  BY DEF Run
<1>4. PICK T \in Seq(Seq(Nat)), h \in Receiver, s \in Seq(Shown) : T = told[c] /\ h = heard[c] /\ s = shown[c]
  BY DEF IInv, TypeOK, Shown
<1>5. PICK G \in SUBSET Segs : G = AllSegments(T)
  BY <1>2, <1>4, AllDatagramsOK
<1>6. segs \in SUBSET G /\ IsFiniteSet(segs)
  BY <1>2, <1>4, <1>5, AllDatagramsOK
<1>7. Receives(h, G) /\ h.queue = <<>> /\ Len(s) = h.nxt - 1
      /\ \A i \in DOMAIN s : [sn |-> i, msg |-> s[i].note] \in G
  BY <1>4, <1>5 DEF IInv, HeardOK
<1>8. PICK r : r = ikcp_input(h, segs)
  OBVIOUS
<1>9. PICK k \in Nat, q \in Seq(Nat) :
        /\ Receives(r, G) /\ r.nxt = h.nxt + k /\ r.queue = h.queue \o q
        /\ Len(q) = k /\ \A i \in 1 .. k : [sn |-> h.nxt + i - 1, msg |-> q[i]] \in G
  BY <1>6, <1>7, <1>8, InputOK
<1>10. r.queue = q
  BY <1>7, <1>9, ConcatEmptySeq
<1>11. PICK H \in Seq(Shown) : H = HandleMessages(q)
  BY HandleMessagesOK
<1>12. Len(H) = k /\ DOMAIN H = 1 .. k /\ \A i \in 1 .. k : H[i].note = q[i]
  <2>1. DOMAIN q = 1 .. k
    BY <1>9, LenProperties
  <2>2. Len(H) = k
    BY <1>9, <1>11, HandleMessagesOK
  <2>3. DOMAIN H = 1 .. k
    BY <2>2, LenProperties
  <2>4. \A i \in 1 .. k : H[i].note = q[i]
    BY <1>11, <2>1, HandleMessagesOK
  <2> QED
    BY <2>2, <2>3, <2>4
<1>13. PICK s2 \in Seq(Shown) : s2 = s \o H
  BY ConcatProperties
<1>14. PICK h2 : h2 = [r EXCEPT !.queue = <<>>]
  OBVIOUS
<1>15. heard' = [heard EXCEPT ![c] = h2] /\ shown' = [shown EXCEPT ![c] = s2]
  BY <1>2, <1>4, <1>8, <1>10, <1>11, <1>13, <1>14
<1>16. h2 \in Receiver /\ h2.nxt = h.nxt + k /\ h2.early = r.early /\ h2.queue = <<>>
  <2>1. r \in Receiver
    BY <1>9 DEF Receives
  <2>2. h2 = [nxt |-> r.nxt, early |-> r.early, queue |-> <<>>]
    BY <1>14, <2>1 DEF Receiver
  <2>3. r.nxt \in Position /\ r.early \in SUBSET Segs /\ <<>> \in Seq(Nat)
    BY <2>1 DEF Receiver
  <2> QED
    BY <1>9, <2>2, <2>3 DEF Receiver
<1>17. Receives(h2, G)
  BY <1>9, <1>16 DEF Receives
<1>18. heard'[c] = h2 /\ shown'[c] = s2 /\ \A d \in Client : d # c => heard'[d] = heard[d] /\ shown'[d] = shown[d]
  BY <1>15 DEF IInv, TypeOK
<1>19. TypeOK'
  BY <1>3, <1>15, <1>16 DEF IInv, TypeOK, Shown
<1>20. h.nxt \in Nat /\ h.nxt >= 1
  BY DEF Receiver, Position
<1>21. Len(s2) = h.nxt - 1 + k
  BY <1>7, <1>12, <1>13, ConcatParts
<1>22. ASSUME NEW i \in DOMAIN s2
       PROVE  [sn |-> i, msg |-> s2[i].note] \in G
  <2>1. \/ i \in DOMAIN s /\ s2[i] = s[i]
        \/ i - Len(s) \in DOMAIN H /\ s2[i] = H[i - Len(s)]
    BY <1>13, ConcatParts
  <2>2. i \in Nat
    OBVIOUS
  <2>3. CASE i \in DOMAIN s /\ s2[i] = s[i]
    BY <1>7, <2>3
  <2>4. CASE i - Len(s) \in DOMAIN H /\ s2[i] = H[i - Len(s)]
    <3>1. PICK j \in 1 .. k : j = i - Len(s)
      BY <1>12, <2>4
    <3>2. h.nxt + j - 1 = i
      <4>1. PICK a \in Nat : a = h.nxt
        BY <1>20
      <4>2. j = i - (a - 1) /\ j \in Nat
        BY <1>7, <3>1, <4>1
      <4>3. a + j - 1 = i
        BY <2>2, <4>2, SMTT(20)
      <4> QED
        BY <4>1, <4>3
    <3>3. s2[i].note = q[j]
      BY <1>12, <2>4, <3>1
    <3> QED
      BY <1>9, <3>2, <3>3
  <2> QED
    BY <2>1, <2>3, <2>4
<1>23. HeardOK(c)'
  <2>1. Len(s2) = h2.nxt - 1
    BY <1>16, <1>20, <1>21
  <2>2. told'[c] = T
    BY <1>3, <1>4
  <2> QED
    BY <1>5, <1>16, <1>17, <1>18, <1>22, <2>1, <2>2 DEF HeardOK
<1>24. ASSUME NEW d \in Client
       PROVE  (SessionOK(d) /\ LogOK(d) /\ JoinsOK(d) /\ HeardOK(d) /\ StreamsOK(told[d], Len(log), d \in users))'
  <2>1. SessionOK(d) /\ LogOK(d) /\ JoinsOK(d) /\ HeardOK(d) /\ StreamsOK(told[d], Len(log), d \in users)
    BY DEF IInv
  <2>2. SessionOK(d)' /\ LogOK(d)'
    BY <1>3, <2>1 DEF SessionOK, LogOK
  <2>3. (JoinsOK(d) /\ StreamsOK(told[d], Len(log), d \in users))'
    BY <1>3, <2>1 DEF JoinsOK
  <2>4. d # c => HeardOK(d)'
    BY <1>3, <1>18, <2>1 DEF HeardOK
  <2> QED
    BY <1>23, <2>2, <2>3, <2>4
<1>25. Orderly(log)'
  BY <1>3 DEF IInv
<1> QED
  BY <1>19, <1>24, <1>25 DEF IInv

\* The time without a keep-alive begins to count.
LEMMA StartTimerStep == ASSUME IInv, NEW c \in Client, StartTimer(c) PROVE IInv'
<1> USE DEF clientVars
<1>1. sessions' = [sessions EXCEPT ![c].timed = TRUE] /\ UNCHANGED <<clientVars, users, log, told>>
  BY DEF StartTimer
<1>2. \A d \in Client : sessions'[d].open = sessions[d].open /\ sessions'[d].r = sessions[d].r
  BY <1>1 DEF IInv, TypeOK
<1>3. TypeOK'
  <2>1. sessions' \in [Client -> [open : BOOLEAN, r : Receiver, timed : BOOLEAN]]
    BY <1>1 DEF IInv, TypeOK
  <2>2. users' = {d \in Client : sessions'[d].open}
    BY <1>1, <1>2 DEF IInv, TypeOK
  <2> QED
    BY <1>1, <2>1, <2>2 DEF IInv, TypeOK
<1>4. ASSUME NEW d \in Client
      PROVE  (SessionOK(d) /\ LogOK(d) /\ JoinsOK(d) /\ HeardOK(d) /\ StreamsOK(told[d], Len(log), d \in users))'
  <2>1. SessionOK(d) /\ LogOK(d) /\ JoinsOK(d) /\ HeardOK(d) /\ StreamsOK(told[d], Len(log), d \in users)
    BY DEF IInv
  <2>2. SessionOK(d)'
    BY <1>1, <1>2, <2>1 DEF SessionOK
  <2>3. LogOK(d)'
    BY <1>1, <1>2, <2>1 DEF LogOK
  <2>4. (JoinsOK(d) /\ HeardOK(d) /\ StreamsOK(told[d], Len(log), d \in users))'
    BY <1>1, <2>1 DEF JoinsOK, HeardOK
  <2> QED
    BY <2>2, <2>3, <2>4
<1>5. Orderly(log)'
  BY <1>1 DEF IInv
<1> QED
  BY <1>3, <1>4, <1>5 DEF IInv

\* A session that is dropped is left, and its client is told nothing more of it.
LEMMA TimeoutStep == ASSUME IInv, NEW c \in Client, Timeout(c) PROVE IInv'
<1> USE DEF clientVars
<1>1. PICK us \in SUBSET Client : us = users \ {c} /\ users' = us
  BY DEF Timeout, IInv, TypeOK
<1>2. PICK T \in Seq(Seq(Nat)), l \in Nat : T = told[c] /\ l = Len(T)
  <2>1. told[c] \in Seq(Seq(Nat))
    BY DEF IInv, TypeOK
  <2> QED
    BY <2>1, LenProperties
<1>3. PICK a \in Notification : a = Note("left", c, l, 0)
  BY DEF Note, Notification
<1>4. PICK notes \in Seq(Notification) : notes = <<Note("left", c, l, 0)>>
  <2>1. <<a>> \in Seq(Notification)
    OBVIOUS
  <2> QED
    BY <1>3, <2>1
<1>5. sessions[c].open /\ sessions' = [sessions EXCEPT ![c] = None] /\ UNCHANGED clientVars
  BY DEF Timeout
<1>6. Len(notes) = 1 /\ DOMAIN notes = {1} /\ notes[1] = Note("left", c, l, 0)
  BY <1>4
<1>7. log' = log \o notes
  BY <1>2, <1>4 DEF Timeout, Notify
<1>8. TypeOK /\ Orderly(log) /\ \A d \in Client :
        SessionOK(d) /\ LogOK(d) /\ JoinsOK(d) /\ HeardOK(d) /\ StreamsOK(told[d], Len(log), d \in users)
  BY DEF IInv
<1>9. PICK X \in Seq(Nat) : X = New(notes) /\ Len(X) = Len(notes) /\ \A i \in 1 .. Len(notes) : X[i] = Len(log) + i
  BY <1>8, NewOK
<1>10. told' = [d \in Client |-> told'[d]]
       /\ \A d \in Client : told'[d] = IF d \in us THEN [told[d] EXCEPT ![Len(told[d])] = @ \o X] ELSE told[d]
  <2>1. told' = [d \in Client |->
          IF d \in users' THEN [told[d] EXCEPT ![Len(told[d])] = @ \o New(<<Note("left", c, Len(told[c]), 0)>>)]
          ELSE told[d]]
    BY DEF Timeout, Notify
  <2>2. <<Note("left", c, Len(told[c]), 0)>> = notes
    BY <1>2, <1>4
  <2>3. told' = [d \in Client |-> IF d \in us THEN [told[d] EXCEPT ![Len(told[d])] = @ \o X] ELSE told[d]]
    BY <1>1, <1>9, <2>1, <2>2
  <2> QED
    BY <2>3
<1>11. c \notin us /\ us \subseteq users \cup {c}
  BY <1>1
<1>12. told' \in [Client -> Seq(Seq(Nat))] /\ \A d \in Client :
         /\ Longer(told[d], told'[d]) /\ StreamsOK(told'[d], Len(log) + Len(notes), d \in us)
         /\ Len(told'[d]) = Len(told[d])
  <2>1. ASSUME NEW d \in Client
        PROVE  /\ told'[d] \in Seq(Seq(Nat)) /\ Longer(told[d], told'[d])
               /\ StreamsOK(told'[d], Len(log) + Len(notes), d \in us) /\ Len(told'[d]) = Len(told[d])
    <3>1. PICK Td \in Seq(Seq(Nat)) : Td = told[d]
      BY <1>8 DEF TypeOK
    <3>2. PICK N \in Nat : N = Len(log)
      BY <1>8, LenProperties DEF TypeOK
    <3>3. \A i \in 1 .. Len(X) : X[i] = N + i
      BY <1>9, <3>2
    <3>4. CASE d \in us
      <4>1. (d \in users) = TRUE /\ (d \in us) = TRUE
        BY <1>1, <3>4
      <4>2. StreamsOK(Td, N, TRUE)
        BY <1>8, <3>1, <3>2, <4>1
      <4>3. PICK T2 : T2 = [Td EXCEPT ![Len(Td)] = Td[Len(Td)] \o X]
        OBVIOUS
      <4>4. told'[d] = T2
        BY <1>10, <3>1, <3>4, <4>3
      <4>5. GoesOn(Td, T2, N + Len(X), TRUE, Len(Td))
        BY <3>3, <4>2, <4>3, ToldMore
      <4> QED
        BY <1>9, <3>1, <3>2, <4>1, <4>4, <4>5 DEF GoesOn
    <3>5. CASE d \notin us
      <4>1. (d \in us) = FALSE /\ told'[d] = Td
        BY <1>10, <3>1, <3>5
      <4>2. GoesOn(Td, Td, N + Len(X), FALSE, Len(Td))
        <5>1. PICK on : on = (d \in users)
          OBVIOUS
        <5>2. StreamsOK(Td, N, on)
          BY <1>8, <3>1, <3>2, <5>1
        <5> QED
          BY <5>2, ToldNothing
      <4> QED
        BY <1>9, <3>1, <3>2, <4>1, <4>2 DEF GoesOn
    <3> QED
      BY <3>4, <3>5
  <2>2. told' \in [Client -> Seq(Seq(Nat))]
    BY <1>10, <2>1
  <2> QED
    BY <2>1, <2>2
<1>13. log \in Seq(Notification) /\ log' \in Seq(Notification) /\ Len(log') = Len(log) + Len(notes)
  BY <1>7, <1>8, ConcatParts DEF TypeOK
<1>14. sessions'[c] = None /\ \A d \in Client : d # c => sessions'[d] = sessions[d]
  BY <1>5, <1>8 DEF TypeOK
<1>15. None.open = FALSE /\ None \in [open : BOOLEAN, r : Receiver, timed : BOOLEAN]
  BY DEF None, Receiver, ikcp_create, Position
<1>16. TypeOK'
  <2>1. sessions' \in [Client -> [open : BOOLEAN, r : Receiver, timed : BOOLEAN]]
    BY <1>5, <1>8, <1>15 DEF TypeOK
  <2>2. users' = {d \in Client : sessions'[d].open}
    BY <1>1, <1>8, <1>14, <1>15 DEF TypeOK
  <2> QED
    BY <1>5, <1>8, <1>12, <1>13, <2>1, <2>2 DEF TypeOK
<1>17. LogOK(c)
  BY <1>8
<1>18. ASSUME NEW i \in DOMAIN log, log[i].who = c
       PROVE  log[i].session \in 1 .. l /\ log[i].line <= Len(typed[c])
              /\ (log[i].session = l => Follows(log[i], notes[1]))
  <2>1. log[i] \in Notification
    BY <1>13
  <2>2. log[i].session = l => log[i].kind # "left"
    BY <1>2, <1>5, <1>17, <1>18 DEF LogOK
  <2>3. log[i].session = l => Follows(log[i], notes[1])
    BY <1>6, <2>1, <2>2 DEF Follows, Note, Notification
  <2> QED
    BY <1>2, <1>17, <1>18, <2>3 DEF LogOK
<1>19. Orderly(log)'
  <2>1. Orderly(notes)
    BY <1>6 DEF Orderly
  <2>2. \A i \in DOMAIN log, j \in DOMAIN notes :
          log[i].who = notes[j].who /\ log[i].session = notes[j].session => Follows(log[i], notes[j])
    BY <1>6, <1>18 DEF Note
  <2>3. Orderly(log \o notes)
    BY <1>8, <1>13, <2>1, <2>2, OrderlyConcat
  <2> QED
    BY <1>7, <2>3
<1>20. l >= 1
  <2>1. (c \in users) = TRUE
    BY <1>5, <1>8 DEF TypeOK
  <2> QED
    BY <1>2, <1>8, <2>1 DEF StreamsOK
<1>21. LogOK(c)'
  <2> SUFFICES ASSUME NEW i \in DOMAIN (log \o notes), (log \o notes)[i].who = c
               PROVE  (log \o notes)[i].session \in 1 .. l /\ (log \o notes)[i].line <= Len(typed[c])
    BY <1>2, <1>5, <1>7, <1>12, <1>14, <1>15 DEF LogOK
  <2>1. CASE i \in DOMAIN log /\ (log \o notes)[i] = log[i]
    BY <1>18, <2>1
  <2>2. CASE i - Len(log) \in DOMAIN notes /\ (log \o notes)[i] = notes[i - Len(log)]
    <3>1. (log \o notes)[i] = Note("left", c, l, 0)
      BY <1>6, <2>2
    <3>2. Len(typed[c]) \in Nat
      BY <1>8, LenProperties DEF TypeOK
    <3> QED
      BY <1>20, <3>1, <3>2 DEF Note
  <2> QED
    BY <1>13, <2>1, <2>2, ConcatParts
<1>22. SessionOK(c)'
  BY <1>5, <1>8, <1>14, <1>15 DEF SessionOK
<1>23. ASSUME NEW d \in Client
       PROVE  (SessionOK(d) /\ LogOK(d) /\ JoinsOK(d) /\ HeardOK(d) /\ StreamsOK(told[d], Len(log), d \in users))'
  <2>1. StreamsOK(told'[d], Len(log'), d \in users')
    BY <1>1, <1>12, <1>13
  <2>2. told'[d] \in Seq(Seq(Nat))
    BY <1>12
  <2>3. HeardOK(d)'
    BY <1>5, <1>8, <1>12, <2>2, HeardLonger
  <2>4. JoinsOK(d)'
    BY <1>7, <1>8, <1>12, <2>2, JoinsLonger
  <2>5. ASSUME d # c
        PROVE  SessionOK(d)' /\ LogOK(d)'
    <3>1. \A i \in DOMAIN notes : notes[i].who # d
      BY <1>6, <2>5 DEF Note
    <3> QED
      BY <1>5, <1>7, <1>8, <1>12, <1>14, <2>5, <3>1, LogOthers
  <2> QED
    BY <1>21, <1>22, <2>1, <2>3, <2>4, <2>5
<1> QED
  BY <1>16, <1>19, <1>23 DEF IInv

\* The receiver of a session, whose client says stream and has typed N lines.
QueueOK(r, stream, N) ==
  /\ Receives(r, Segments(stream)) /\ Increasing(r.queue, N)
  /\ \A i \in DOMAIN r.queue : r.queue[i] # 0 => Beyond(stream, r.nxt, r.queue[i])

\* What it will handle comes after line m.
Ahead(r, stream, m) == Beyond(r.queue, 1, m) /\ Beyond(stream, r.nxt, m)

\* It goes on after the lines that it was to go on after before.
Later(r, r2, stream) == \A m \in Nat : Ahead(r, stream, m) => Ahead(r2, stream, m)

\* A session without messages.
LEMMA QueueEmpty ==
  ASSUME NEW stream \in Seq(Nat), NEW N \in Nat
  PROVE  QueueOK(ikcp_create, stream, N)
<1>1. IsFiniteSet({})
  BY FS_EmptySet
<1>2. Receives(ikcp_create, Segments(stream))
  BY <1>1 DEF Receives, ikcp_create, Receiver, Position
<1>3. ikcp_create.queue = <<>>
  BY DEF ikcp_create
<1> QED
  BY <1>2, <1>3 DEF QueueOK, Increasing

\* A datagram keeps the order of the messages to be handled.
LEMMA QueueInput ==
  ASSUME NEW stream \in Seq(Nat), NEW N \in Nat, Increasing(stream, N), NEW r0, QueueOK(r0, stream, N),
         NEW segs \in Datagrams(stream), NEW r, r = ikcp_input(r0, segs)
  PROVE  QueueOK(r, stream, N) /\ \A m \in Nat : Ahead(r0, stream, m) => Ahead(r, stream, m)
<1>1. PICK G \in SUBSET Segs : G = Segments(stream)
  BY SegmentsOK
<1>2. segs \in SUBSET G /\ IsFiniteSet(segs)
  BY <1>1, DatagramsOK
<1>3. Receives(r0, G)
  BY <1>1 DEF QueueOK
<1>4. PICK k \in Nat, q \in Seq(Nat) :
        /\ Receives(r, G) /\ r.nxt = r0.nxt + k /\ r.queue = r0.queue \o q
        /\ Len(q) = k /\ \A i \in 1 .. k : [sn |-> r0.nxt + i - 1, msg |-> q[i]] \in G
  BY <1>2, <1>3, InputOK
<1>5. PICK nxt \in Position, Q \in Seq(Nat) : nxt = r0.nxt /\ Q = r0.queue
  BY <1>3 DEF Receives, Receiver
<1>6. \A i \in 1 .. Len(q) : nxt + i - 1 \in DOMAIN stream /\ q[i] = stream[nxt + i - 1]
  <2> SUFFICES ASSUME NEW i \in 1 .. k
               PROVE  nxt + i - 1 \in DOMAIN stream /\ q[i] = stream[nxt + i - 1]
    BY <1>4
  <2>1. PICK p : p = nxt + i - 1
    OBVIOUS
  <2>2. [sn |-> p, msg |-> q[i]] \in Segments(stream)
    BY <1>1, <1>4, <1>5, <2>1
  <2>3. p \in DOMAIN stream /\ q[i] = stream[p]
    BY <2>2 DEF Segments
  <2> QED
    BY <2>1, <2>3
<1>7. Increasing(Q, N) /\ \A i \in DOMAIN Q : Q[i] # 0 => Beyond(stream, nxt, Q[i])
  BY <1>5 DEF QueueOK
<1>8. PICK R : R = Q \o q
  OBVIOUS
<1>9. /\ Increasing(R, N)
      /\ \A i \in DOMAIN R : R[i] # 0 => Beyond(stream, nxt + Len(q), R[i])
      /\ \A m \in Nat : Beyond(Q, 1, m) /\ Beyond(stream, nxt, m) =>
           Beyond(R, 1, m) /\ Beyond(stream, nxt + Len(q), m)
  BY <1>6, <1>7, <1>8, QueueGrows
<1>10. r.queue = R /\ r.nxt = nxt + Len(q)
  BY <1>4, <1>5, <1>8
<1>11. QueueOK(r, stream, N)
  BY <1>1, <1>4, <1>9, <1>10 DEF QueueOK
<1>12. \A m \in Nat : Ahead(r0, stream, m) => Ahead(r, stream, m)
  BY <1>5, <1>9, <1>10 DEF Ahead
<1> QED
  BY <1>11, <1>12

\* Messages are handled from the front: what stays is in order, and comes after
\* what is ahead of the queue and after the lines that were handled.
LEMMA QueueHandled ==
  ASSUME NEW stream \in Seq(Nat), NEW N \in Nat, NEW r, QueueOK(r, stream, N),
         NEW h \in Nat, NEW r2, r2 = [r EXCEPT !.queue = SubSeq(@, h + 2, Len(@))]
  PROVE  /\ QueueOK(r2, stream, N) /\ Later(r, r2, stream)
         /\ \A x \in DOMAIN r.queue : x <= h /\ r.queue[x] # 0 => Ahead(r2, stream, r.queue[x])
<1>1. r \in Receiver /\ Receives(r, Segments(stream))
  BY DEF QueueOK, Receives
<1>2. PICK R \in Seq(Nat), nxt \in Position : R = r.queue /\ nxt = r.nxt
  BY <1>1 DEF Receiver
<1>3. PICK Q : Q = SubSeq(R, h + 2, Len(R))
  OBVIOUS
<1>4. Increasing(R, N) /\ \A i \in DOMAIN R : R[i] # 0 => Beyond(stream, nxt, R[i])
  BY <1>2 DEF QueueOK
<1>5. /\ Q \in Seq(Nat) /\ Increasing(Q, N)
      /\ \A j \in DOMAIN Q : \E y \in DOMAIN R : Q[j] = R[y] /\ y > h
      /\ \A m \in Nat : Beyond(R, 1, m) => Beyond(Q, 1, m)
  BY <1>3, <1>4, LeftOver
<1>6. r2 = [r EXCEPT !.queue = Q]
  BY <1>2, <1>3
<1>7. r2 \in Receiver /\ r2.queue = Q /\ r2.nxt = nxt /\ r2.early = r.early
  BY <1>1, <1>2, <1>5, <1>6 DEF Receiver
<1>8. Receives(r2, Segments(stream))
  BY <1>1, <1>7 DEF Receives
<1>9. \A j \in DOMAIN Q : Q[j] # 0 => Beyond(stream, nxt, Q[j])
  BY <1>4, <1>5
<1>10. QueueOK(r2, stream, N)
  BY <1>5, <1>7, <1>8, <1>9 DEF QueueOK
<1>11. \A m \in Nat : Ahead(r, stream, m) => Ahead(r2, stream, m)
  BY <1>2, <1>5, <1>7 DEF Ahead
<1>12. ASSUME NEW x \in DOMAIN R, x <= h, R[x] # 0
       PROVE  Ahead(r2, stream, R[x])
  <2>1. Beyond(stream, nxt, R[x])
    BY <1>4, <1>12
  <2>2. ASSUME NEW j \in DOMAIN Q, Q[j] # 0
        PROVE  R[x] < Q[j]
    <3>1. PICK y \in DOMAIN R : Q[j] = R[y] /\ y > h
      BY <1>5
    <3>2. x < y
      BY <1>12, <3>1
    <3> QED
      BY <1>4, <1>12, <2>2, <3>1, <3>2 DEF Increasing
  <2>3. Beyond(Q, 1, R[x])
    BY <2>2 DEF Beyond
  <2> QED
    BY <1>7, <2>1, <2>3 DEF Ahead
<1> QED
  BY <1>2, <1>10, <1>11, <1>12 DEF Later

\* Who is not new is told what is new if it is a user.
LEMMA NotifyUser ==
  ASSUME TypeOK, NEW d \in Client, StreamsOK(told[d], Len(log), d \in users), NEW us, d \in us => d \in users,
         NEW X \in Seq(Nat), \A i \in 1 .. Len(X) : X[i] = Len(log) + i,
         told'[d] = IF d \in us THEN [told[d] EXCEPT ![Len(told[d])] = @ \o X] ELSE told[d]
  PROVE  GoesOn(told[d], told'[d], Len(log) + Len(X), d \in us, Len(told[d]))
<1>1. PICK Td \in Seq(Seq(Nat)) : Td = told[d]
  BY DEF TypeOK
<1>2. PICK N \in Nat : N = Len(log)
  BY LenProperties DEF TypeOK
<1>3. \A i \in 1 .. Len(X) : X[i] = N + i
  BY <1>2
<1>4. CASE d \in us
  <2>1. (d \in users) = TRUE /\ (d \in us) = TRUE
    BY <1>4
  <2>2. StreamsOK(Td, N, TRUE)
    BY <1>1, <1>2, <2>1
  <2>3. PICK T2 : T2 = [Td EXCEPT ![Len(Td)] = Td[Len(Td)] \o X]
    OBVIOUS
  <2>4. told'[d] = T2
    BY <1>1, <1>4, <2>3
  <2>5. GoesOn(Td, T2, N + Len(X), TRUE, Len(Td))
    BY <1>3, <2>2, <2>3, ToldMore
  <2> QED
    BY <1>1, <1>2, <2>1, <2>4, <2>5
<1>5. CASE d \notin us
  <2>1. (d \in us) = FALSE /\ told'[d] = Td
    BY <1>1, <1>5
  <2>2. PICK on : on = (d \in users)
    OBVIOUS
  <2>3. StreamsOK(Td, N, on)
    BY <1>1, <1>2, <2>2
  <2>4. GoesOn(Td, Td, N + Len(X), FALSE, Len(Td))
    BY <2>3, ToldNothing
  <2> QED
    BY <1>1, <1>2, <2>1, <2>4
<1> QED
  BY <1>4, <1>5

\* Who comes in is told the history from there.
LEMMA NotifyFresh ==
  ASSUME TypeOK, NEW d \in Client, StreamsOK(told[d], Len(log), d \in users),
         NEW X \in Seq(Nat), Len(X) >= 1, \A i \in 1 .. Len(X) : X[i] = Len(log) + i,
         NEW U, U = Append(told[d], <<>>), told'[d] = [U EXCEPT ![Len(U)] = @ \o X]
  PROVE  GoesOn(told[d], told'[d], Len(log) + Len(X), TRUE, Len(told[d]) + 1)
         /\ told'[d][Len(told[d]) + 1][1] = Len(log) + 1
<1>1. PICK Td \in Seq(Seq(Nat)) : Td = told[d]
  BY DEF TypeOK
<1>2. PICK N \in Nat : N = Len(log)
  BY LenProperties DEF TypeOK
<1>3. \A i \in 1 .. Len(X) : X[i] = N + i
  BY <1>2
<1>4. StreamsOK(Td, N, FALSE)
  BY <1>1, <1>2 DEF StreamsOK
<1>5. PICK T2 : T2 = [U EXCEPT ![Len(U)] = U[Len(U)] \o X]
  OBVIOUS
<1>6. Added(Td, T2, X)
  <2>1. U = Append(Td, <<>>)
    BY <1>1
  <2> QED
    BY <1>5, <2>1, StreamFirst, Zenon
<1>7. GoesOn(Td, T2, N + Len(X), TRUE, Len(Td) + 1)
  BY <1>3, <1>4, <1>6, ToldFresh, Zenon
<1>8. T2[Len(Td) + 1][1] = N + 1
  <2>1. Len(X) \in Nat
    BY LenProperties
  <2>2. X[1] = N + 1
    BY <1>3, <2>1
  <2> QED
    BY <1>6, <2>2 DEF Added
<1> QED
  BY <1>1, <1>2, <1>5, <1>7, <1>8

\* What handling a datagram does to the session of its client, which is fresh
\* or not and the m-th, and what it gives notice of: messages of this session,
\* that it begins if it is fresh, and lines in order that come after those told
\* and before those to be handled.
Notices(c, fresh, m, r2, notes) ==
  /\ notes \in Seq(Notification) /\ Orderly(notes)
  /\ fresh => Len(notes) >= 1 /\ notes[1] = Note("join", c, m, 0)
  /\ \A i \in DOMAIN notes :
       /\ notes[i].who = c /\ notes[i].session = m /\ notes[i].line <= Len(typed[c])
       /\ notes[i].kind = "line" \/ (fresh /\ notes[i].kind = "join")
       /\ notes[i].kind = "line" => Ahead(r2, said[c], notes[i].line)
       /\ ~fresh => \A x \in Nat : Ahead(sessions[c].r, said[c], x) => x < notes[i].line
Handles(c, fresh, m, r2, timed, notes) ==
  /\ fresh = ~sessions[c].open /\ m = (IF fresh THEN Len(told[c]) + 1 ELSE Len(told[c]))
  /\ sessions' = [sessions EXCEPT ![c] = [open |-> TRUE, r |-> r2, timed |-> timed]]
  /\ QueueOK(r2, said[c], Len(typed[c]))
  /\ ~fresh => \A x \in Nat : Ahead(sessions[c].r, said[c], x) => Ahead(r2, said[c], x)
  /\ Notices(c, fresh, m, r2, notes)
  /\ users' = users \cup {c} /\ UNCHANGED clientVars
  /\ log' = log \o notes
  /\ told' = [d \in Client |->
       LET stream == IF fresh /\ d = c THEN Append(told[d], <<>>) ELSE told[d]
       IN  IF d \in users' THEN [stream EXCEPT ![Len(stream)] = @ \o New(notes)] ELSE stream]

\* A datagram of a client is handled by its session, or by a fresh one.
LEMMA SessionHandles ==
  ASSUME IInv, NEW c \in Client, HandleSession(c)
  PROVE  \E fr \in BOOLEAN, m \in Nat : \E r2 : \E timed \in BOOLEAN, notes \in Seq(Notification) :
           Handles(c, fr, m, r2, timed, notes)
<1> USE DEF clientVars
<1> DEFINE fresh == ~sessions[c].open
           s == IF fresh THEN [None EXCEPT !.open = TRUE] ELSE sessions[c]
           n == Len(told[c]) + IF fresh THEN 1 ELSE 0
           read(segs) == ikcp_input(s.r, segs)
           lost(segs, i) == IsAlive(c, read(segs).queue, i)
           handled(segs) == Handled(c, read(segs).queue)
           joined == IF fresh THEN <<Note("join", c, n, 0)>> ELSE <<>>
           spoken(segs, lines) == [i \in DOMAIN lines |-> Note("line", c, n, read(segs).queue[lines[i]])]
           streams == [told EXCEPT ![c] = IF fresh THEN Append(@, <<>>) ELSE @]
\* What the step does, its parts named.
<1>1. PICK segs \in Datagrams(said[c]) :
        /\ sessions' = [sessions EXCEPT ![c] =
             [open |-> TRUE,
              r |-> [read(segs) EXCEPT !.queue = SubSeq(@, Cardinality(handled(segs)) + 2, Len(@))],
              timed |-> s.timed \/ \E i \in handled(segs) : lost(segs, i)]]
        /\ users' = users \cup {c}
        /\ \E lines \in Ascending({i \in handled(segs) : ~lost(segs, i)}) :
             Notify(streams, users', joined \o spoken(segs, lines))
        /\ UNCHANGED clientVars
  BY DEF HandleSession
<1>2. PICK lines \in Ascending({i \in handled(segs) : ~lost(segs, i)}) :
        Notify(streams, users', joined \o spoken(segs, lines))
  BY <1>1
<1>3. TypeOK /\ Orderly(log) /\ \A d \in Client :
        SessionOK(d) /\ LogOK(d) /\ JoinsOK(d) /\ HeardOK(d) /\ StreamsOK(told[d], Len(log), d \in users)
  BY DEF IInv
<1>4. PICK fr \in BOOLEAN : fr = fresh
  OBVIOUS
<1>5. PICK T \in Seq(Seq(Nat)), l \in Nat : T = told[c] /\ l = Len(T)
  <2>1. told[c] \in Seq(Seq(Nat))
    BY <1>3 DEF TypeOK
  <2> QED
    BY <2>1, LenProperties
<1>6. PICK m \in Nat : m = n /\ m = (IF fr THEN l + 1 ELSE l)
  <2>1. PICK m \in Nat : m = (IF fr THEN l + 1 ELSE l)
    OBVIOUS
  <2>2. CASE fr = TRUE
    <3>1. fresh
      BY <1>4, <2>2
    <3>2. n = Len(told[c]) + 1
      BY <3>1
    <3>3. m = l + 1
      BY <2>1, <2>2
    <3> HIDE DEF n
    <3> QED
      BY <1>5, <2>1, <3>2, <3>3
  <2>3. CASE fr = FALSE
    <3>1. ~fresh
      BY <1>4, <2>3
    <3>2. n = Len(told[c]) + 0
      BY <3>1
    <3>3. m = l
      BY <2>1, <2>3
    <3> HIDE DEF n
    <3> QED
      BY <1>5, <2>1, <3>2, <3>3
  <2> QED
    BY <2>2, <2>3
<1>7. PICK stream \in Seq(Nat), N \in Nat : stream = said[c] /\ N = Len(typed[c])
  <2>1. said[c] \in Seq(Nat) /\ typed[c] \in Seq(Kind)
    BY <1>3 DEF TypeOK
  <2> QED
    BY <2>1, LenProperties
<1>8. PICK r0 : r0 = s.r
  OBVIOUS
<1>9. Increasing(stream, N) /\ QueueOK(r0, stream, N)
  <2>1. SessionOK(c)
    BY <1>3
  <2>2. CASE fresh
    <3>1. r0 = ikcp_create
      BY <1>8, <2>2 DEF None
    <3> QED
      BY <1>7, <2>1, <3>1, QueueEmpty DEF SessionOK
  <2>3. CASE ~fresh
    <3>1. r0 = sessions[c].r /\ sessions[c].open
      BY <1>8, <2>3
    <3> QED
      BY <1>7, <2>1, <3>1 DEF SessionOK, QueueOK
  <2> QED
    BY <2>2, <2>3
<1>10. PICK r : r = ikcp_input(r0, segs)
  OBVIOUS
<1>11. QueueOK(r, stream, N) /\ \A x \in Nat : Ahead(r0, stream, x) => Ahead(r, stream, x)
  BY <1>1, <1>7, <1>9, <1>10, QueueInput
<1>12. PICK R \in Seq(Nat) : R = r.queue /\ Increasing(R, N) /\ DOMAIN R \subseteq Nat
  <2>1. r.queue \in Seq(Nat)
    BY <1>11 DEF QueueOK, Receives, Receiver
  <2> QED
    BY <1>11, <2>1 DEF QueueOK
<1>13. PICK h \in Nat : h = Cardinality(handled(segs)) /\ handled(segs) \subseteq DOMAIN R /\ \A i \in handled(segs) : i <= h
  BY <1>8, <1>10, <1>12, HandledOK
<1>14. PICK H \in SUBSET DOMAIN R : H = {i \in handled(segs) : ~lost(segs, i)} /\ (\A i \in H : i <= h) /\ \A i \in H : R[i] # 0
  <2>1. {i \in handled(segs) : ~lost(segs, i)} \in SUBSET DOMAIN R
    BY <1>13
  <2>2. ASSUME NEW i \in {x \in handled(segs) : ~lost(segs, x)}
        PROVE  R[i] # 0
    <3>1. i \in Nat /\ i \in 1 .. i /\ \A x \in i + 1 .. i : FALSE
      <4>1. i \in DOMAIN R
        BY <1>13
      <4> QED
        BY <4>1
    <3>2. ~IsAlive(c, R, i)
      BY <1>8, <1>10, <1>12
    <3> QED
      BY <3>1, <3>2 DEF IsAlive, KEEP_ALIVE_CMD
  <2> QED
    BY <1>13, <2>1, <2>2
<1>15. PICK J \in Seq(Notification) : J = joined
  <2>1. PICK a \in Notification : a = Note("join", c, n, 0)
    BY <1>6 DEF Note, Notification
  <2>2. <<a>> \in Seq(Notification) /\ <<>> \in Seq(Notification)
    OBVIOUS
  <2>3. joined = <<a>> \/ joined = <<>>
    BY <2>1
  <2> QED
    BY <2>2, <2>3
<1>16. PICK L \in Seq(Notification) : L = spoken(segs, lines) /\ LinesTold(L, R, H, c, m)
  <2>1. lines \in Ascending(H)
    BY <1>2, <1>14
  <2>2. PICK L : L = spoken(segs, lines)
    OBVIOUS
  <2>3. L = [i \in DOMAIN lines |-> Note("line", c, m, R[lines[i]])]
    BY <1>6, <1>8, <1>10, <1>12, <2>2
  <2>4. LinesTold(L, R, H, c, m)
    BY <1>12, <1>14, <2>1, <2>3, LinesOK, Zenon
  <2> QED
    BY <2>2, <2>4, Zenon DEF LinesTold
<1>17. J = (IF fr THEN <<Note("join", c, m, 0)>> ELSE <<>>)
  BY <1>4, <1>6, <1>15
<1>18. PICK r2 : r2 = [r EXCEPT !.queue = SubSeq(@, h + 2, Len(@))]
  OBVIOUS
<1>19. PICK timed \in BOOLEAN : timed = (s.timed \/ \E i \in handled(segs) : lost(segs, i))
  OBVIOUS
<1>20. sessions' = [sessions EXCEPT ![c] = [open |-> TRUE, r |-> r2, timed |-> timed]]
  BY <1>1, <1>8, <1>10, <1>13, <1>18, <1>19
<1>21. users' = users \cup {c} /\ UNCHANGED clientVars
  BY <1>1
<1>22. PICK notes \in Seq(Notification) : notes = J \o L
  BY ConcatProperties
<1>23. PICK S : S = streams
  OBVIOUS
<1>24. Notify(S, users', notes)
  BY <1>2, <1>15, <1>16, <1>22, <1>23
<1>25. \A d \in Client : S[d] = IF fr /\ d = c THEN Append(told[d], <<>>) ELSE told[d]
  BY <1>3, <1>4, <1>23 DEF TypeOK
<1> HIDE DEF fresh, s, n, read, lost, handled, joined, spoken, streams
<1>26. log' = log \o notes /\ told' = [d \in Client |->
         LET w == IF fr /\ d = c THEN Append(told[d], <<>>) ELSE told[d]
         IN  IF d \in users' THEN [w EXCEPT ![Len(w)] = @ \o New(notes)] ELSE w]
  BY <1>24, <1>25 DEF Notify
<1>27. \A i \in DOMAIN J : fr /\ J[i] = Note("join", c, m, 0)
  BY <1>17
<1>28. \A i \in DOMAIN L : \E x \in H : L[i] = Note("line", c, m, R[x])
  BY <1>16 DEF LinesTold
<1>29. Orderly(notes)
  <2>1. Orderly(J)
    <3>1. \A i, j \in DOMAIN J : ~(i < j)
      BY <1>17
    <3> QED
      BY <3>1 DEF Orderly
  <2>2. Orderly(L)
    BY <1>16 DEF LinesTold
  <2>3. \A i \in DOMAIN J, j \in DOMAIN L : Follows(J[i], L[j])
    BY <1>27, <1>28 DEF Follows, Note
  <2> QED
    BY <1>22, <2>1, <2>2, <2>3, OrderlyConcat
<1>30. fr => Len(notes) >= 1 /\ notes[1] = Note("join", c, m, 0)
  <2> SUFFICES ASSUME fr
               PROVE  Len(notes) >= 1 /\ notes[1] = Note("join", c, m, 0)
    OBVIOUS
  <2>1. Len(J) = 1 /\ 1 \in DOMAIN J /\ J[1] = Note("join", c, m, 0)
    BY <1>17
  <2>2. Len(notes) = Len(J) + Len(L)
    BY <1>22, ConcatProperties
  <2>3. \A i \in DOMAIN J : notes[i] = J[i]
    <3>1. \A i \in DOMAIN J : (J \o L)[i] = J[i]
      BY ConcatParts
    <3> QED
      BY <1>22, <3>1
  <2>4. Len(L) \in Nat
    BY LenProperties
  <2> QED
    BY <2>1, <2>2, <2>4, <2>3
<1>31. QueueOK(r2, stream, N) /\ (\A x \in Nat : Ahead(r, stream, x) => Ahead(r2, stream, x))
       /\ \A x \in DOMAIN R : x <= h /\ R[x] # 0 => Ahead(r2, stream, R[x])
  <2>1. QueueOK(r, stream, N)
    BY <1>11
  <2>2. QueueOK(r2, stream, N)
    BY <1>18, <2>1, QueueHandled, Zenon
  <2>3. \A x \in Nat : Ahead(r, stream, x) => Ahead(r2, stream, x)
    <3>1. Later(r, r2, stream)
      BY <1>18, <2>1, QueueHandled, Zenon
    <3> QED
      BY <3>1 DEF Later
  <2>4. \A x \in DOMAIN r.queue : x <= h /\ r.queue[x] # 0 => Ahead(r2, stream, r.queue[x])
    BY <1>18, <2>1, QueueHandled, Zenon
  <2> QED
    BY <1>12, <2>2, <2>4, <2>3, Zenon
<1>32. ASSUME NEW x \in H
       PROVE  /\ R[x] \in Nat /\ R[x] <= N /\ Ahead(r2, stream, R[x])
              /\ \A y \in Nat : Ahead(r0, stream, y) => y < R[x]
  <2>1. x \in DOMAIN R /\ R[x] \in Nat /\ x <= h /\ R[x] # 0 /\ x >= 1
    BY <1>14
  <2>2. R[x] <= N
    BY <1>12, <2>1 DEF Increasing
  <2>3. Ahead(r2, stream, R[x])
    BY <1>31, <2>1
  <2>4. ASSUME NEW y \in Nat, Ahead(r0, stream, y)
        PROVE  y < R[x]
    <3>1. Ahead(r, stream, y)
      BY <1>11, <2>4
    <3> QED
      BY <1>12, <2>1, <3>1 DEF Ahead, Beyond
  <2> QED
    BY <2>1, <2>2, <2>3, <2>4
<1>33. ~fr => sessions[c].r = r0
  <2>1. ~fr => s = sessions[c]
    BY <1>4 DEF s, fresh
  <2> QED
    BY <1>8, <2>1
<1>34. ASSUME NEW i \in DOMAIN notes
       PROVE  /\ notes[i].who = c /\ notes[i].session = m /\ notes[i].line <= N
              /\ notes[i].kind = "line" \/ (fr /\ notes[i].kind = "join")
              /\ notes[i].kind = "line" => Ahead(r2, stream, notes[i].line)
              /\ ~fr => \A x \in Nat : Ahead(sessions[c].r, stream, x) => x < notes[i].line
  <2>1. (notes[i] = Note("join", c, m, 0) /\ fr) \/ \E x \in H : notes[i] = Note("line", c, m, R[x])
    <3>1. \/ i \in DOMAIN J /\ notes[i] = J[i]
          \/ i - Len(J) \in DOMAIN L /\ notes[i] = L[i - Len(J)]
      BY <1>22, ConcatParts
    <3> QED
      BY <1>27, <1>28, <3>1
  <2>2. CASE notes[i] = Note("join", c, m, 0) /\ fr
    BY <2>2 DEF Note
  <2>3. CASE \E x \in H : notes[i] = Note("line", c, m, R[x])
    <3>1. PICK x \in H : notes[i] = Note("line", c, m, R[x])
      BY <2>3
    <3>2. PICK v : v = R[x]
      OBVIOUS
    <3>3. notes[i].who = c /\ notes[i].session = m /\ notes[i].line = v /\ notes[i].kind = "line"
      BY <3>1, <3>2 DEF Note
    <3> QED
      BY <1>32, <1>33, <3>2, <3>3
  <2> QED
    BY <2>1, <2>2, <2>3
<1>35. Notices(c, fr, m, r2, notes)
  BY <1>7, <1>29, <1>30, <1>34 DEF Notices
<1>36. ~fr => \A x \in Nat : Ahead(sessions[c].r, stream, x) => Ahead(r2, stream, x)
  BY <1>11, <1>31, <1>33
<1>37. fr = ~sessions[c].open /\ m = (IF fr THEN Len(told[c]) + 1 ELSE Len(told[c]))
  BY <1>4, <1>5, <1>6 DEF fresh
<1>38. Handles(c, fr, m, r2, timed, notes)
  BY <1>7, <1>20, <1>21, <1>26, <1>31, <1>35, <1>36, <1>37 DEF Handles
<1> QED
  BY <1>38

\* What client d is told when a datagram of c is handled.
ToldOf(d, c, fresh, notes) ==
  /\ GoesOn(told[d], told'[d], Len(log) + Len(notes), d \in users',
          IF fresh /\ d = c THEN Len(told[d]) + 1 ELSE Len(told[d]))
  /\ fresh /\ d = c => told'[d][Len(told[d]) + 1][1] = Len(log) + 1

\* Handling a datagram goes on with what the clients were told.
LEMMA HandledTold ==
  ASSUME IInv, NEW c \in Client, NEW fr \in BOOLEAN, NEW m \in Nat, NEW r2, NEW timed \in BOOLEAN,
         NEW notes \in Seq(Notification), Handles(c, fr, m, r2, timed, notes), NEW d \in Client
  PROVE  ToldOf(d, c, fr, notes)
<1>1. TypeOK /\ StreamsOK(told[d], Len(log), d \in users)
  BY DEF IInv
<1>2. PICK X \in Seq(Nat) : X = New(notes) /\ Len(X) = Len(notes) /\ \A i \in 1 .. Len(notes) : X[i] = Len(log) + i
  BY <1>1, NewOK
<1>3. \A i \in 1 .. Len(X) : X[i] = Len(log) + i
  BY <1>2
<1>4. told'[d] = LET w == IF fr /\ d = c THEN Append(told[d], <<>>) ELSE told[d]
                 IN  IF d \in users' THEN [w EXCEPT ![Len(w)] = @ \o X] ELSE w
  BY <1>2 DEF Handles
<1>5. PICK us : us = users' /\ us = users \cup {c}
  BY DEF Handles
<1>6. CASE fr /\ d = c
  <2>1. (d \in us) = TRUE
    BY <1>5, <1>6
  <2>2. Len(X) >= 1
    BY <1>2, <1>6 DEF Handles, Notices
  <2>3. PICK U : U = Append(told[d], <<>>)
    OBVIOUS
  <2>4. told'[d] = [U EXCEPT ![Len(U)] = @ \o X]
    BY <1>4, <1>5, <1>6, <2>1, <2>3
  <2>5. GoesOn(told[d], told'[d], Len(log) + Len(X), TRUE, Len(told[d]) + 1)
    BY <1>1, <1>3, <2>2, <2>3, <2>4, NotifyFresh, Zenon
  <2>6. told'[d][Len(told[d]) + 1][1] = Len(log) + 1
    BY <1>1, <1>3, <2>2, <2>3, <2>4, NotifyFresh, Zenon
  <2> QED
    BY <1>2, <1>5, <1>6, <2>1, <2>5, <2>6 DEF ToldOf
<1>7. CASE ~(fr /\ d = c)
  <2>1. d \in us => d \in users
    <3>1. c \in users \/ fr
      BY <1>1 DEF Handles, TypeOK
    <3> QED
      BY <1>5, <1>7, <3>1
  <2>2. told'[d] = IF d \in us THEN [told[d] EXCEPT ![Len(told[d])] = @ \o X] ELSE told[d]
    BY <1>4, <1>5, <1>7
  <2>3. GoesOn(told[d], told'[d], Len(log) + Len(X), d \in us, Len(told[d]))
    BY <1>1, <1>3, <2>1, <2>2, NotifyUser, Zenon
  <2> QED
    BY <1>2, <1>5, <1>7, <2>3 DEF ToldOf
<1> QED
  BY <1>6, <1>7

\* A datagram of a client leaves the invariant true.
LEMMA HandleSessionStep == ASSUME IInv, NEW c \in Client, HandleSession(c) PROVE IInv'
<1> USE DEF clientVars
<1>1. PICK fr \in BOOLEAN, m \in Nat : \E r2 : \E timed \in BOOLEAN, notes \in Seq(Notification) :
        Handles(c, fr, m, r2, timed, notes)
  BY SessionHandles, Zenon
<1>2. PICK r2 : \E timed \in BOOLEAN, notes \in Seq(Notification) : Handles(c, fr, m, r2, timed, notes)
  BY <1>1
<1>3. PICK timed \in BOOLEAN, notes \in Seq(Notification) : Handles(c, fr, m, r2, timed, notes)
  BY <1>2
<1>4. TypeOK /\ Orderly(log) /\ \A d \in Client :
        SessionOK(d) /\ LogOK(d) /\ JoinsOK(d) /\ HeardOK(d) /\ StreamsOK(told[d], Len(log), d \in users)
  BY DEF IInv
<1>5. /\ fr = ~sessions[c].open /\ m = (IF fr THEN Len(told[c]) + 1 ELSE Len(told[c]))
      /\ sessions' = [sessions EXCEPT ![c] = [open |-> TRUE, r |-> r2, timed |-> timed]]
      /\ users' = users \cup {c} /\ log' = log \o notes /\ UNCHANGED clientVars
  BY <1>3 DEF Handles
<1>6. ~fr => \A x \in Nat : Ahead(sessions[c].r, said[c], x) => Ahead(r2, said[c], x)
  BY <1>3 DEF Handles
<1>7. Notices(c, fr, m, r2, notes)
  BY <1>3 DEF Handles
<1>8. QueueOK(r2, said[c], Len(typed[c]))
  BY <1>3 DEF Handles
<1>9. \A d \in Client : ToldOf(d, c, fr, notes)
  BY <1>3, HandledTold, Zenon
<1>10. /\ log \in Seq(Notification) /\ log' \in Seq(Notification) /\ Len(log') = Len(log) + Len(notes)
       /\ \A i \in DOMAIN log' : \/ i \in DOMAIN log /\ log'[i] = log[i]
                                 \/ i - Len(log) \in DOMAIN notes /\ log'[i] = notes[i - Len(log)]
  BY <1>4, <1>5, ConcatParts DEF TypeOK
<1>11. told' \in [Client -> Seq(Seq(Nat))] /\ \A d \in Client :
         /\ told'[d] \in Seq(Seq(Nat)) /\ Longer(told[d], told'[d]) /\ StreamsOK(told'[d], Len(log'), d \in users')
         /\ Len(told'[d]) = (IF fr /\ d = c THEN Len(told[d]) + 1 ELSE Len(told[d]))
  <2>1. told' = [d \in Client |-> told'[d]]
    BY <1>3 DEF Handles
  <2>2. ASSUME NEW d \in Client
        PROVE  /\ told'[d] \in Seq(Seq(Nat)) /\ Longer(told[d], told'[d]) /\ StreamsOK(told'[d], Len(log'), d \in users')
               /\ Len(told'[d]) = (IF fr /\ d = c THEN Len(told[d]) + 1 ELSE Len(told[d]))
    BY <1>9, <1>10, Zenon DEF GoesOn, ToldOf
  <2> QED
    BY <2>1, <2>2
<1>12. sessions'[c] = [open |-> TRUE, r |-> r2, timed |-> timed] /\ \A d \in Client : d # c => sessions'[d] = sessions[d]
  BY <1>4, <1>5 DEF TypeOK
<1>13. TypeOK'
  <2>1. r2 \in Receiver
    BY <1>8 DEF QueueOK, Receives
  <2>2. sessions' \in [Client -> [open : BOOLEAN, r : Receiver, timed : BOOLEAN]]
    BY <1>4, <1>5, <2>1 DEF TypeOK
  <2>3. users' = {d \in Client : sessions'[d].open}
    BY <1>4, <1>5, <1>12 DEF TypeOK
  <2> QED
    BY <1>4, <1>5, <1>10, <1>11, <2>2, <2>3 DEF TypeOK
\* The session and what was told of it.
<1>14. m = Len(told'[c]) /\ m >= 1 /\ Len(told[c]) \in Nat /\ Len(typed[c]) \in Nat
  <2>1. Len(told[c]) \in Nat /\ Len(typed[c]) \in Nat
    BY <1>4, LenProperties DEF TypeOK
  <2>2. m = Len(told'[c])
    BY <1>5, <1>11
  <2>3. ~fr => Len(told[c]) >= 1
    <3>1. ~fr => (c \in users) = TRUE
      BY <1>4, <1>5 DEF TypeOK
    <3> QED
      BY <1>4, <3>1 DEF StreamsOK
  <2> QED
    BY <1>5, <2>1, <2>2, <2>3
<1>15. ASSUME NEW i \in DOMAIN log, log[i].who = c
       PROVE  /\ log[i] \in Notification /\ log[i].session \in 1 .. m /\ log[i].line <= Len(typed[c])
              /\ log[i].session = m =>
                   ~fr /\ log[i].kind # "left" /\ (log[i].kind = "line" => Ahead(sessions[c].r, said[c], log[i].line))
  <2>1. log[i] \in Notification
    BY <1>10
  <2>2. LogOK(c)
    BY <1>4
  <2>3. log[i].session \in 1 .. Len(told[c]) /\ log[i].line <= Len(typed[c])
    BY <1>15, <2>2 DEF LogOK
  <2>4. log[i].session \in 1 .. m /\ (log[i].session = m => ~fr)
    BY <1>5, <1>14, <2>3
  <2>5. ASSUME log[i].session = m
        PROVE  log[i].kind # "left" /\ (log[i].kind = "line" => Ahead(sessions[c].r, said[c], log[i].line))
    <3>1. sessions[c].open /\ m = Len(told[c])
      BY <1>5, <2>4, <2>5
    <3> QED
      BY <1>15, <2>2, <2>5, <3>1 DEF LogOK, Ahead
  <2> QED
    BY <2>1, <2>3, <2>4, <2>5
<1>16. \A i \in DOMAIN notes :
         /\ notes[i].who = c /\ notes[i].session = m /\ notes[i].line <= Len(typed[c])
         /\ notes[i].kind = "line" \/ (fr /\ notes[i].kind = "join")
         /\ notes[i].kind = "line" => Ahead(r2, said[c], notes[i].line)
         /\ ~fr => \A x \in Nat : Ahead(sessions[c].r, said[c], x) => x < notes[i].line
  BY <1>7 DEF Notices
<1>17. Orderly(log)'
  <2>1. ASSUME NEW i \in DOMAIN log, NEW j \in DOMAIN notes,
               log[i].who = notes[j].who, log[i].session = notes[j].session
        PROVE  Follows(log[i], notes[j])
    <3>1. log[i].who = c /\ log[i].session = m
      BY <1>16, <2>1
    <3>2. ~fr /\ log[i].kind # "left" /\ (log[i].kind = "line" => Ahead(sessions[c].r, said[c], log[i].line))
      BY <1>15, <3>1
    <3>3. log[i].line \in Nat /\ log[i].kind \in {"join", "left", "line"}
      BY <1>15, <3>1 DEF Notification
    <3>4. notes[j].kind = "line"
      BY <1>16, <3>2
    <3>5. log[i].kind = "line" => log[i].line < notes[j].line
      BY <1>16, <3>2, <3>3
    <3> QED
      BY <3>2, <3>3, <3>4, <3>5 DEF Follows
  <2>2. Orderly(notes)
    BY <1>7 DEF Notices
  <2>3. Orderly(log \o notes)
    BY <1>4, <1>10, <2>1, <2>2, OrderlyConcat
  <2> QED
    BY <1>5, <2>3
<1>18. LogOK(c)'
  <2>1. ASSUME NEW i \in DOMAIN log', log'[i].who = c
        PROVE  /\ log'[i].session \in 1 .. m /\ log'[i].line <= Len(typed[c])
               /\ log'[i].session = m =>
                    /\ log'[i].kind # "left"
                    /\ log'[i].kind = "line" => Ahead(r2, said[c], log'[i].line)
    <3>1. CASE i \in DOMAIN log /\ log'[i] = log[i]
      <4>1. log[i].line \in Nat
        BY <1>15, <2>1, <3>1 DEF Notification
      <4> QED
        BY <1>6, <1>15, <2>1, <3>1, <4>1
    <3>2. CASE i - Len(log) \in DOMAIN notes /\ log'[i] = notes[i - Len(log)]
      <4>1. m \in 1 .. m
        BY <1>14
      <4> QED
        BY <1>16, <3>2, <4>1
    <3> QED
      BY <1>10, <2>1, <3>1, <3>2
  <2>2. sessions'[c].r = r2 /\ typed' = typed /\ said' = said
    BY <1>5, <1>12
  <2> QED
    BY <1>14, <2>1, <2>2, Zenon DEF LogOK, Ahead
<1>19. SessionOK(c)'
  <2>1. Increasing(said[c], Len(typed[c]))
    BY <1>4 DEF SessionOK
  <2>2. sessions'[c].r = r2 /\ typed' = typed /\ said' = said
    BY <1>5, <1>12
  <2> QED
    BY <1>8, <2>1, <2>2, Zenon DEF SessionOK, QueueOK
<1>20. ASSUME NEW d \in Client
       PROVE  (SessionOK(d) /\ LogOK(d) /\ JoinsOK(d) /\ HeardOK(d) /\ StreamsOK(told[d], Len(log), d \in users))'
  <2>1. HeardOK(d)'
    BY <1>4, <1>5, <1>11, HeardLonger
  <2>2. PICK f \in BOOLEAN : f = (fr /\ d = c)
    OBVIOUS
  <2>3. JoinsOK(d)'
    <3>1. Len(told'[d]) = IF f THEN Len(told[d]) + 1 ELSE Len(told[d])
      BY <1>11, <2>2
    <3>2. f => /\ told'[d][Len(told[d]) + 1][1] = Len(log) + 1
               /\ Len(notes) >= 1 /\ notes[1] = Note("join", d, Len(told[d]) + 1, 0)
      BY <1>5, <1>7, <1>9, <2>2 DEF Notices, ToldOf
    <3> QED
      BY <1>4, <1>5, <1>11, <3>1, <3>2, JoinsLonger
  <2>4. ASSUME d # c
        PROVE  SessionOK(d)' /\ LogOK(d)'
    <3>1. \A i \in DOMAIN notes : notes[i].who # d
      BY <1>16, <2>4
    <3> QED
      BY <1>4, <1>5, <1>11, <1>12, <2>4, <3>1, LogOthers
  <2> QED
    BY <1>11, <1>18, <1>19, <2>1, <2>3, <2>4
<1> QED
  BY <1>13, <1>17, <1>20 DEF IInv

\* Every step keeps it.
LEMMA NextOK == IInv /\ [Next]_vars => IInv'
<1> SUFFICES ASSUME IInv, [Next]_vars
             PROVE  IInv'
  OBVIOUS
<1>1. CASE Next
  <2>1. PICK c \in Client :
          \/ (\E kind \in Kind : Type(c, kind)) \/ KeepAlive(c) \/ Run(c)
          \/ HandleSession(c) \/ StartTimer(c) \/ Timeout(c)
    BY <1>1 DEF Next
  <2>2. ASSUME NEW kind \in Kind, Type(c, kind) PROVE IInv'
    BY <2>2, TypeStep
  <2>3. CASE KeepAlive(c)
    BY <2>3, KeepAliveStep
  <2>4. CASE Run(c)
    BY <2>4, RunStep
  <2>5. CASE HandleSession(c)
    BY <2>5, HandleSessionStep
  <2>6. CASE StartTimer(c)
    BY <2>6, StartTimerStep
  <2>7. CASE Timeout(c)
    BY <2>7, TimeoutStep
  <2> QED
    BY <2>1, <2>2, <2>3, <2>4, <2>5, <2>6, <2>7
<1>2. CASE UNCHANGED vars
  <2> USE <1>2 DEF vars, clientVars, serverVars
  <2>1. TypeOK' /\ Orderly(log)'
    BY DEF IInv, TypeOK, Orderly
  <2>2. ASSUME NEW c \in Client
        PROVE  (SessionOK(c) /\ LogOK(c) /\ JoinsOK(c) /\ HeardOK(c) /\ StreamsOK(told[c], Len(log), c \in users))'
    <3>1. SessionOK(c) /\ LogOK(c) /\ JoinsOK(c) /\ HeardOK(c) /\ StreamsOK(told[c], Len(log), c \in users)
      BY DEF IInv
    <3>2. SessionOK(c)'
      BY <3>1 DEF SessionOK
    <3>3. LogOK(c)'
      BY <3>1 DEF LogOK
    <3>4. JoinsOK(c)' /\ HeardOK(c)'
      BY <3>1 DEF JoinsOK, HeardOK
    <3>5. StreamsOK(told[c], Len(log), c \in users)'
      BY <3>1
    <3> QED
      BY <3>2, <3>3, <3>4, <3>5
  <2> QED
    BY <2>1, <2>2 DEF IInv
<1> QED
  BY <1>1, <1>2

\* The inductive invariant: sessions read the messages of their client in
\* order, every session of a client is told one part of the history, and the
\* client shows these parts one message of each number.
THEOREM Invariance == Spec => []IInv
  BY InitOK, NextOK, PTL DEF Spec

\* TypeOK: what the server and the clients keep has its type, and the users are
\* those whose session is open.
THEOREM TypeCorrect == Spec => []TypeOK
<1>1. IInv => TypeOK
  BY DEF IInv
<1> QED
  BY <1>1, Invariance, PTL

\* OrderlySession: in each of its sessions a client speaks only after it has
\* joined and before it has left, and its lines are told in the order they were
\* typed, each once.
THEOREM OrderlySessionHolds == Spec => []OrderlySession
<1>1. IInv => OrderlySession
  <2> SUFFICES ASSUME IInv, NEW i \in DOMAIN log, NEW j \in DOMAIN log,
                      i < j, log[i].who = log[j].who, log[i].session = log[j].session
               PROVE  CASE log[i].kind = "join" -> log[j].kind # "join"
                        [] log[i].kind = "left" -> FALSE
                        [] log[i].kind = "line" -> log[j].kind = "left" \/ (log[j].kind = "line" /\ log[i].line < log[j].line)
    BY DEF OrderlySession
  <2>1. Follows(log[i], log[j])
    BY DEF IInv, Orderly
  <2> QED
    BY <2>1 DEF Follows
<1> QED
  BY <1>1, Invariance, PTL

\* What a client shows at place i is what one of its sessions was told at i.
LEMMA ShownTold ==
  ASSUME IInv, NEW c \in Client, NEW i \in DOMAIN shown[c]
  PROVE  \E n \in DOMAIN told[c] : i \in DOMAIN told[c][n] /\ shown[c][i].note = told[c][n][i]
<1>1. PICK p : p = [sn |-> i, msg |-> shown[c][i].note]
  OBVIOUS
<1>2. p \in AllSegments(told[c])
  BY <1>1 DEF IInv, HeardOK
<1>3. PICK n \in DOMAIN told[c] : p \in Segments(told[c][n])
  BY <1>2 DEF AllSegments
<1>4. PICK k \in DOMAIN told[c][n] : p = [sn |-> k, msg |-> told[c][n][k]]
  BY <1>3 DEF Segments
<1>5. k = i /\ shown[c][i].note = told[c][n][i]
  BY <1>1, <1>4
<1> QED
  BY <1>4, <1>5

\* ShownOnce: no client is shown a notification twice, even if its session was
\* dropped and made anew and datagrams of the old one arrive after those of the
\* new.
THEOREM ShownOnceHolds == Spec => []ShownOnce
<1>1. ASSUME IInv, NEW c \in Client, NEW i \in DOMAIN shown[c], NEW j \in DOMAIN shown[c],
             shown[c][i].note = shown[c][j].note
      PROVE  i = j
  <2>1. PICK n \in DOMAIN told[c] : i \in DOMAIN told[c][n] /\ shown[c][i].note = told[c][n][i]
    BY <1>1, ShownTold
  <2>2. PICK m \in DOMAIN told[c] : j \in DOMAIN told[c][m] /\ shown[c][j].note = told[c][m][j]
    BY <1>1, ShownTold
  <2>3. PICK T \in Seq(Seq(Nat)) : T = told[c]
    BY <1>1 DEF IInv, TypeOK
  <2>4. n \in Nat /\ m \in Nat /\ T[n] \in Seq(Nat) /\ T[m] \in Seq(Nat)
    <3>1. PICK l \in Nat : DOMAIN T = 1 .. l
      BY LenProperties
    <3>2. n \in 1 .. l /\ m \in 1 .. l
      BY <2>1, <2>2, <2>3, <3>1
    <3>3. T \in Seq(Seq(Nat)) /\ n \in DOMAIN T /\ m \in DOMAIN T
      BY <3>1, <3>2
    <3>4. T[n] \in Seq(Nat) /\ T[m] \in Seq(Nat)
      BY <3>3
    <3> QED
      BY <3>2, <3>4
  <2>5. i \in Nat /\ j \in Nat /\ i >= 1 /\ j >= 1
    <3>1. PICK v \in Nat : DOMAIN T[n] = 1 .. v
      BY <2>4, LenProperties
    <3>2. PICK w \in Nat : DOMAIN T[m] = 1 .. w
      BY <2>4, LenProperties
    <3>3. i \in 1 .. v /\ j \in 1 .. w
      BY <2>1, <2>2, <2>3, <3>1, <3>2
    <3> QED
      BY <3>3
  <2>6. StreamsOK(T, Len(log), c \in users)
    BY <1>1, <2>3 DEF IInv
  <2>7. PICK a : a = T[n][1]
    OBVIOUS
  <2>8. PICK b : b = T[m][1]
    OBVIOUS
  <2>9. /\ T[n][i] = a + i - 1 /\ T[n][i] \in Nat /\ a \in Nat
        /\ T[m][j] = b + j - 1 /\ T[m][j] \in Nat /\ b \in Nat
    <3>1. T[n][i] = a + i - 1 /\ T[m][j] = b + j - 1
      BY <2>1, <2>2, <2>3, <2>6, <2>7, <2>8 DEF StreamsOK
    <3>2. \A x \in DOMAIN T[n] : T[n][x] \in Nat
      BY <2>4
    <3>3. \A x \in DOMAIN T[m] : T[m][x] \in Nat
      BY <2>4
    <3>4. 1 \in DOMAIN T[n]
      BY <2>1, <2>3, <2>4, <2>6, LenProperties DEF StreamsOK
    <3>5. 1 \in DOMAIN T[m]
      BY <2>2, <2>3, <2>4, <2>6, LenProperties DEF StreamsOK
    <3> QED
      BY <2>1, <2>2, <2>3, <2>7, <2>8, <3>1, <3>2, <3>3, <3>4, <3>5
  <2>10. n < m => T[n][i] < b
    BY <2>1, <2>2, <2>3, <2>6, <2>8 DEF StreamsOK
  <2>11. m < n => T[m][j] < a
    BY <2>1, <2>2, <2>3, <2>6, <2>7 DEF StreamsOK
  <2>12. T[n][i] = T[m][j]
    BY <1>1, <2>1, <2>2, <2>3
  <2>13. ~(n < m) /\ ~(m < n)
    BY <2>5, <2>9, <2>10, <2>11, <2>12
  <2>14. n = m
    BY <2>4, <2>13
  <2>15. a = b
    BY <2>7, <2>8, <2>14
  <2> QED
    BY <2>5, <2>9, <2>12, <2>15
<1>2. IInv => ShownOnce
  <2> SUFFICES ASSUME IInv, NEW c \in Client,
                      NEW i \in DOMAIN shown[c], NEW j \in DOMAIN shown[c], ShownNotes(c)[i] = ShownNotes(c)[j]
               PROVE  i = j
    BY DEF ShownOnce, IsInjective, ShownNotes
  <2>1. shown[c][i].note = shown[c][j].note
    BY DEF ShownNotes
  <2> QED
    BY <1>1, <2>1
<1> QED
  BY <1>2, Invariance, PTL

\* RoomHistory: what a client is shown is the history of the room, without a
\* gap, from its own arrival on, as long as the server did not drop it and take
\* it for a new user.
THEOREM RoomHistoryHolds == Spec => []RoomHistory
<1>1. ASSUME IInv, NEW c \in Client, Len(told[c]) <= 1, NEW i \in DOMAIN shown[c]
      PROVE  shown[c][i].note = JoinedAt(c) + i - 1
  <2>1. PICK n \in DOMAIN told[c] : i \in DOMAIN told[c][n] /\ shown[c][i].note = told[c][n][i]
    BY <1>1, ShownTold
  <2>2. PICK T \in Seq(Seq(Nat)) : T = told[c]
    BY <1>1 DEF IInv, TypeOK
  <2>3. PICK l \in Nat : l = Len(T) /\ DOMAIN T = 1 .. l
    BY LenProperties
  <2>4. n = 1 /\ 1 \in DOMAIN T /\ Len(T) = 1
    <3>1. n \in 1 .. l /\ l <= 1
      BY <1>1, <2>1, <2>2, <2>3
    <3>2. n = 1 /\ l = 1 /\ 1 \in 1 .. l
      BY <3>1
    <3> QED
      BY <2>3, <3>2
  <2>5. StreamsOK(T, Len(log), c \in users) /\ JoinsOK(c) /\ LogOK(c) /\ Orderly(log) /\ log \in Seq(Notification)
    BY <1>1, <2>2 DEF IInv, TypeOK
  <2>6. PICK f : f = T[1][1]
    OBVIOUS
  <2>7. T[1][i] = f + i - 1
    BY <2>1, <2>2, <2>4, <2>5, <2>6 DEF StreamsOK
  <2>8. f \in DOMAIN log
    <3>1. T \in Seq(Seq(Nat)) /\ 1 \in DOMAIN T
      BY <2>4
    <3>2. T[1] \in Seq(Nat)
      BY <3>1
    <3>3. T[1] \in Seq(Nat) /\ Len(T[1]) >= 1
      BY <2>4, <2>5, <3>2 DEF StreamsOK
    <3>4. 1 \in DOMAIN T[1]
      BY <3>3, LenProperties
    <3>5. f \in 1 .. Len(log)
      BY <2>4, <2>5, <2>6, <3>4 DEF StreamsOK
    <3> QED
      BY <2>5, <3>5, LenProperties
  <2>9. log[f] = Note("join", c, 1, 0)
    BY <2>2, <2>4, <2>5, <2>6 DEF JoinsOK
  <2>10. log[f].kind = "join" /\ log[f].who = c /\ log[f].session = 1
    BY <2>9 DEF Note
  <2>11. ASSUME NEW j \in DOMAIN log, log[j].kind = "join", log[j].who = c
         PROVE  j = f
    <3>1. log[j].session = 1
      <4>1. log[j].session \in 1 .. Len(T)
        BY <2>2, <2>5, <2>11 DEF LogOK
      <4> QED
        BY <2>4, <4>1
    <3>2. ~(j < f)
      <4>1. ~Follows(log[j], log[f])
        BY <2>10, <2>11 DEF Follows
      <4> QED
        BY <2>5, <2>8, <2>10, <2>11, <3>1, <4>1 DEF Orderly
    <3>3. ~(f < j)
      <4>1. ~Follows(log[f], log[j])
        BY <2>10, <2>11 DEF Follows
      <4> QED
        BY <2>5, <2>8, <2>10, <2>11, <3>1, <4>1 DEF Orderly
    <3>4. f \in Nat /\ j \in Nat
      BY <2>5, <2>8
    <3> QED
      BY <3>2, <3>3, <3>4
  <2>12. JoinedAt(c) = f
    BY <2>8, <2>10, <2>11 DEF JoinedAt
  <2> QED
    BY <2>1, <2>2, <2>4, <2>7, <2>12
<1>2. IInv => RoomHistory
  BY <1>1 DEF RoomHistory
<1> QED
  BY <1>2, Invariance, PTL
=============================================================================
