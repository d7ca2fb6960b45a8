---------------------------- MODULE UringEchoProofs ----------------------------
(***************************************************************************)
(* Theorems about UringEcho, for every number of clients, of descriptors   *)
(* and of pieces a connection has room for.                                *)
(***************************************************************************)
EXTENDS UringEcho, FiniteSetTheorems, TLAPS

(***************************************************************************)
(* The descriptor that an operation or a completion is about: for an       *)
(* accept, the one it returned.  What is under way for a descriptor is in  *)
(* exactly one of three places.                                            *)
(***************************************************************************)
About(e) == IF e.event = "ACCEPT" THEN e.res ELSE e.fd

InSet(S, fd) == \E o \in S : o.event # "ACCEPT" /\ o.fd = fd
InCq(fd) == \E k \in 1 .. Len(cq) : About(cq[k]) = fd

Op == {o \in [event : {"ACCEPT", "READ", "WRITE"}, fd : Fd \cup {Bad}, len : Nat] :
         /\ o.event = "ACCEPT" => o = Accept
         /\ o.event = "READ" => o = Recv(o.fd)
         /\ o.event = "WRITE" => o.fd # Bad /\ o.len > 0}

Cqe == {e \in [event : {"ACCEPT", "READ", "WRITE"}, fd : Fd \cup {Bad}, res : Int] :
          /\ e.event = "ACCEPT" => e.fd = Bad /\ e.res \in Fd \cup {Bad}
          /\ e.event = "READ" => e.res >= 0 /\ (e.fd = Bad => e.res = 0)
          /\ e.event = "WRITE" => e.fd # Bad}

TcpOK ==
  /\ phase \in [Client -> {"idle", "open", "closed", "reset"}] /\ backlog \subseteq Client
  /\ owner \in [Fd -> Client \cup {None}]
  /\ \A f, g \in Fd : owner[f] \notin backlog /\ (owner[f] = owner[g] => f = g \/ owner[f] = None)
  /\ \A c \in Client : phase[c] = "idle" => c \notin backlog /\ \A fd \in Fd : owner[fd] # c
  /\ sent \in [Client -> Nat] /\ spent \subseteq Client /\ crashed = FALSE
  /\ inbox \in [Client -> Seq(Client \X Nat)] /\ outbox \in [Client -> Seq(Client \X Nat)]
  /\ got \in [Client -> Seq(Client \X Nat)]

UringOK ==
  /\ sq \subseteq Op /\ ops \subseteq Op /\ cq \in Seq(Cqe) /\ nready \in 0 .. Len(cq)
  /\ buffer \in Seq(Client \X Nat) /\ cut \subseteq Client

\* Each of the three places holds at most one thing about a connection, ...
OneInEach ==
  /\ \A o, p \in sq : o.event # "ACCEPT" /\ p.event # "ACCEPT" /\ o.fd = p.fd => o = p
  /\ \A o, p \in ops : o.event # "ACCEPT" /\ p.event # "ACCEPT" /\ o.fd = p.fd => o = p
  /\ \A j, k \in 1 .. Len(cq) : About(cq[j]) = About(cq[k]) /\ About(cq[j]) # Bad => j = k

\* ... no two of them do, and one does if there is a connection.
OnePlace == \A fd \in Fd :
  /\ ~(InSet(sq, fd) /\ InSet(ops, fd)) /\ ~(InSet(sq, fd) /\ InCq(fd)) /\ ~(InSet(ops, fd) /\ InCq(fd))
  /\ owner[fd] # None <=> InSet(sq, fd) \/ InSet(ops, fd) \/ InCq(fd)

\* The same of the accept, which is always under way.
AcceptDone == \E k \in 1 .. Len(cq) : cq[k].event = "ACCEPT"
OneAccept ==
  /\ \A j, k \in 1 .. Len(cq) : cq[j].event = "ACCEPT" /\ cq[k].event = "ACCEPT" => j = k
  /\ Accept \in sq \/ Accept \in ops \/ AcceptDone
  /\ ~(Accept \in sq /\ Accept \in ops) /\ ~(Accept \in sq /\ AcceptDone) /\ ~(Accept \in ops /\ AcceptDone)

(***************************************************************************)
(* How much is still to be echoed: what was received, or is about to be    *)
(* sent, is in the buffer, and was sent by the client.                     *)
(***************************************************************************)
Size(s) == Len(s)
Held(c) == Size(got[c]) + Size(outbox[c]) + Size(inbox[c])
Carries(fd, n) ==
  \/ \E o \in sq \cup ops : o.event = "WRITE" /\ o.fd = fd /\ o.len = n
  \/ \E k \in 1 .. Len(cq) : cq[k].event = "READ" /\ cq[k].fd = fd /\ cq[k].res = n /\ n > 0
AmountsOK ==
  /\ \A c \in Client : Held(c) <= sent[c]
  /\ \A fd \in Fd, n \in Nat : Carries(fd, n) =>
       n <= Size(buffer) /\ Held(owner[fd]) + n <= sent[owner[fd]]

IInv == TcpOK /\ UringOK /\ OneInEach /\ OnePlace /\ OneAccept /\ AmountsOK

Assumed == None \notin Client /\ Fd \subseteq Nat \ {Bad} /\ Room \in Nat

\* The sizes are numbers.
LEMMA HeldIsNat ==
  ASSUME TcpOK
  PROVE  \A c \in Client : /\ Size(got[c]) \in Nat /\ Size(outbox[c]) \in Nat /\ Size(inbox[c]) \in Nat
                           /\ Held(c) \in Nat /\ sent[c] \in Nat
<1> SUFFICES ASSUME NEW c \in Client
             PROVE  /\ Size(got[c]) \in Nat /\ Size(outbox[c]) \in Nat /\ Size(inbox[c]) \in Nat
                    /\ Held(c) \in Nat /\ sent[c] \in Nat
  OBVIOUS
<1>1. Size(got[c]) \in Nat /\ Size(outbox[c]) \in Nat /\ Size(inbox[c]) \in Nat /\ sent[c] \in Nat
  BY DEF TcpOK, Size
<1> QED
  BY <1>1 DEF Held

\* What is carried for a descriptor is carried for a client.
LEMMA CarriedIsOwned ==
  ASSUME TcpOK, UringOK, OnePlace, NEW fd \in Fd, NEW n \in Nat, Carries(fd, n)
  PROVE  owner[fd] \in Client
<1>1. InSet(sq, fd) \/ InSet(ops, fd) \/ InCq(fd)
  BY DEF Carries, InSet, InCq, About
<1> QED
  BY <1>1 DEF OnePlace, TcpOK

\* The server begins with one accept prepared and no connection.
LEMMA InitIInv ==
  ASSUME Assumed, Init
  PROVE  IInv
<1>1. TcpOK
  BY DEF Init, TcpInit, TcpOK, Assumed
<1>2. Accept \in Op
  BY DEF Op, Accept, Bad
<1>3. UringOK
  BY <1>2 DEF Init, UringOK
<1>4. OneInEach /\ OnePlace /\ OneAccept
  BY DEF Init, TcpInit, OneInEach, OnePlace, OneAccept, AcceptDone, InSet, InCq, Accept, None
<1>5. AmountsOK
  <2>1. Size(<<>>) = 0
    BY DEF Size
  <2> QED
    BY <2>1 DEF Init, TcpInit, AmountsOK, Carries, Held, Accept
<1> QED
  BY <1>1, <1>3, <1>4, <1>5 DEF IInv

\* What a client does leaves the operations alone, and what it has sent, the
\* server has not received, and it has got, can only drift apart.
LEMMA ClientsStep ==
  ASSUME Assumed, IInv, Clients
  PROVE  IInv'
<1>1. PICK c \in Client :
        /\ Connect(c) \/ Read(c) \/ HangUp(c) \/ Send(c, <<c, sent[c] + 1>>)
        /\ UNCHANGED uringVars
  BY DEF Clients
<1>2. <<c, sent[c] + 1>> \in Client \X Nat
  BY DEF IInv, TcpOK
<1>3. TcpOK'
  <2>1. CASE Connect(c)
    BY <2>1 DEF IInv, TcpOK, Connect, Assumed
  <2>2. CASE Read(c)
    <3>1. got[c] \o outbox[c] \in Seq(Client \X Nat) /\ <<>> \in Seq(Client \X Nat)
      BY DEF IInv, TcpOK
    <3>2. got' \in [Client -> Seq(Client \X Nat)] /\ outbox' \in [Client -> Seq(Client \X Nat)]
      BY <2>2, <3>1 DEF IInv, TcpOK, Read
    <3> QED
      BY <2>2, <3>2 DEF IInv, TcpOK, Read
  <2>3. CASE HangUp(c)
    BY <2>3 DEF IInv, TcpOK, HangUp
  <2>4. CASE Send(c, <<c, sent[c] + 1>>)
    BY <2>4, <1>2 DEF IInv, TcpOK, Send
  <2> QED
    BY <1>1, <2>1, <2>2, <2>3, <2>4
<1>4. UringOK' /\ OneInEach' /\ OneAccept'
  BY <1>1 DEF IInv, UringOK, OneInEach, OneAccept, AcceptDone, About, uringVars
<1>5. owner' = owner
  BY <1>1 DEF Connect, Read, HangUp, Send
<1>6. OnePlace'
  BY <1>1, <1>5 DEF IInv, OnePlace, InSet, InCq, About, uringVars
<1>7. AmountsOK'
  <2>1. \A d \in Client : Held(d)' - sent'[d] <= Held(d) - sent[d]
    <3> SUFFICES ASSUME NEW d \in Client
                 PROVE  Held(d)' - sent'[d] <= Held(d) - sent[d]
      OBVIOUS
    <3>1. TcpOK
      BY DEF IInv
    <3>2. Size(got[d]) \in Nat /\ Size(outbox[d]) \in Nat /\ Size(inbox[d]) \in Nat /\ sent[d] \in Nat
      BY <3>1, HeldIsNat
    <3>3. CASE Connect(c)
      BY <3>2, <3>3 DEF Connect, Held
    <3>4. CASE Read(c)
      <4>1. Size(got[c] \o outbox[c]) = Size(got[c]) + Size(outbox[c]) /\ Size(<<>>) = 0
        <5>1. got[c] \in Seq(Client \X Nat) /\ outbox[c] \in Seq(Client \X Nat)
          BY <3>1 DEF TcpOK
        <5> QED
          BY <5>1 DEF Size
      <4>2. Size(got'[d]) + Size(outbox'[d]) = Size(got[d]) + Size(outbox[d])
        <5>1. d # c => got'[d] = got[d] /\ outbox'[d] = outbox[d]
          BY <3>1, <3>4 DEF TcpOK, Read
        <5>2. got'[c] = got[c] \o outbox[c] /\ outbox'[c] = <<>>
          BY <3>1, <3>4 DEF TcpOK, Read
        <5>3. Size(got'[c]) = Size(got[c]) + Size(outbox[c]) /\ Size(outbox'[c]) = 0
          BY <4>1, <5>2
        <5> QED
          BY <3>2, <5>1, <5>3
      <4>3. Size(got'[d]) \in Nat /\ Size(outbox'[d]) \in Nat
        BY <1>3 DEF TcpOK, Size
      <4>4. inbox' = inbox /\ sent' = sent
        BY <3>4 DEF Read
      <4> QED
        BY <3>2, <4>2, <4>3, <4>4 DEF Held
    <3>5. CASE HangUp(c)
      <4>1. Size(<<>>) = 0
        BY DEF Size
      <4>2. Size(outbox'[d]) = Size(outbox[d]) \/ Size(outbox'[d]) = 0
        BY <3>1, <3>5, <4>1 DEF TcpOK, HangUp
      <4>3. got' = got /\ inbox' = inbox /\ sent' = sent
        BY <3>5 DEF HangUp
      <4> QED
        BY <3>2, <4>2, <4>3 DEF Held
    <3>6. CASE Send(c, <<c, sent[c] + 1>>)
      <4>1. Size(Append(inbox[c], <<c, sent[c] + 1>>)) = Size(inbox[c]) + 1
        BY <1>2, <3>1 DEF TcpOK, Size
      <4>2. Size(inbox'[d]) - sent'[d] = Size(inbox[d]) - sent[d]
        <5>1. d # c => inbox'[d] = inbox[d] /\ sent'[d] = sent[d]
          BY <3>1, <3>6 DEF TcpOK, Send
        <5>2. inbox'[c] = Append(inbox[c], <<c, sent[c] + 1>>) /\ sent'[c] = sent[c] + 1
          BY <3>1, <3>6 DEF TcpOK, Send
        <5>3. Size(inbox'[c]) = Size(inbox[c]) + 1
          BY <4>1, <5>2
        <5>4. sent[c] \in Nat /\ Size(inbox[c]) \in Nat
          BY <1>2, <3>1 DEF TcpOK, Size
        <5>5. CASE d = c
          <6>1. Size(inbox'[c]) - sent'[c] = (Size(inbox[c]) + 1) - (sent[c] + 1)
            BY <5>2, <5>3
          <6>2. (Size(inbox[c]) + 1) - (sent[c] + 1) = Size(inbox[c]) - sent[c]
            BY <5>4
          <6> QED
            BY <5>5, <6>1, <6>2
        <5> QED
          BY <5>1, <5>5
      <4>3. Size(inbox'[d]) \in Nat /\ sent'[d] \in Nat /\ got' = got /\ outbox' = outbox
        BY <1>3, <3>6 DEF TcpOK, Size, Send
      <4> QED
        BY <3>2, <4>2, <4>3 DEF Held
    <3> QED
      BY <1>1, <3>3, <3>4, <3>5, <3>6
  <2>2. \A d \in Client : Held(d) \in Int /\ Held(d)' \in Int /\ sent[d] \in Int /\ sent'[d] \in Int
    <3>1. TcpOK
      BY DEF IInv
    <3>2. \A d \in Client : Held(d) \in Int /\ sent[d] \in Int
      BY <3>1, HeldIsNat
    <3>3. \A d \in Client : Held(d)' \in Int /\ sent'[d] \in Int
      <4>1. \A d \in Client : /\ Size(got'[d]) \in Nat /\ Size(outbox'[d]) \in Nat
                              /\ Size(inbox'[d]) \in Nat /\ sent'[d] \in Nat
        BY <1>3 DEF TcpOK, Size
      <4> QED
        BY <4>1 DEF Held
    <3> QED
      BY <3>2, <3>3
  <2>3. \A n \in Int, d \in Client : Held(d) + n <= sent[d] => Held(d)' + n <= sent'[d]
    BY <2>1, <2>2
  <2>4. \A d \in Client : Held(d)' <= sent'[d]
    BY <2>1, <2>2 DEF IInv, AmountsOK
  <2>5. \A fd \in Fd, n \in Nat : Carries(fd, n)' <=> Carries(fd, n)
    BY <1>1 DEF Carries, uringVars
  <2>6. \A fd \in Fd, n \in Nat : Carries(fd, n) => owner[fd] \in Client
    <3>1. TcpOK /\ UringOK /\ OnePlace
      BY DEF IInv
    <3> QED
      BY <3>1, CarriedIsOwned
  <2>7. buffer' = buffer
    BY <1>1 DEF uringVars
  <2> QED
    BY <1>5, <2>3, <2>4, <2>5, <2>6, <2>7 DEF IInv, AmountsOK
<1> QED
  BY <1>3, <1>4, <1>6, <1>7 DEF IInv
--------------------------------------------------------------------------------
\* An operation that completes moves from the kernel to the completions; only
\* an accept that succeeded brings a connection with it.
LEMMA CompleteStep ==
  ASSUME Assumed, TcpOK, UringOK, OneInEach, OnePlace, OneAccept,
         NEW op \in ops, NEW res, Complete(op, res), Completion(op.event, op.fd, res) \in Cqe,
         \/ owner' = owner /\ (op.event = "ACCEPT" => res = Bad)
         \/ /\ op.event = "ACCEPT" /\ res \in Fd /\ owner[res] = None
            /\ \E c \in Client : owner' = [owner EXCEPT ![res] = c]
  PROVE  /\ sq' \subseteq Op /\ ops' \subseteq Op /\ cq' \in Seq(Cqe) /\ nready' \in 0 .. Len(cq')
         /\ OneInEach' /\ OnePlace' /\ OneAccept'
<1> DEFINE e == Completion(op.event, op.fd, res)
<1>1. op \in Op /\ op.fd \in Fd \cup {Bad}
  BY DEF UringOK, Op
<1>2. e.event = op.event /\ e.fd = op.fd /\ e.res = res /\ About(e) = (IF op.event = "ACCEPT" THEN res ELSE op.fd)
  BY DEF Completion, About
<1>3. e \in Cqe
  OBVIOUS
<1>4. cq' = Append(cq, e) /\ ops' = ops \ {op} /\ sq' = sq /\ nready' = nready
  BY DEF Complete
<1> HIDE DEF e
<1>5. /\ cq \in Seq(Cqe) /\ cq' \in Seq(Cqe) /\ Len(cq) \in Nat /\ Len(cq') = Len(cq) + 1
      /\ cq'[Len(cq) + 1] = e /\ \A k \in 1 .. Len(cq) : cq'[k] = cq[k]
  BY <1>3, <1>4 DEF UringOK
<1>6. \A k \in 1 .. Len(cq') : k \in 1 .. Len(cq) \/ k = Len(cq) + 1
  BY <1>5
<1>7. \A fd : InCq(fd)' <=> InCq(fd) \/ fd = About(e)
  BY <1>5, <1>6 DEF InCq, About
<1>8. \A fd : InSet(ops', fd) <=> InSet(ops, fd) /\ (op.event # "ACCEPT" => fd # op.fd)
  BY <1>4 DEF InSet, OneInEach
<1>9. About(e) \in Fd => ~InCq(About(e))
  <2>1. CASE op.event # "ACCEPT"
    <3>1. InSet(ops, op.fd) /\ About(e) = op.fd
      BY <1>2, <2>1 DEF InSet
    <3> QED
      BY <3>1 DEF OnePlace
  <2>2. CASE op.event = "ACCEPT" /\ res = Bad
    BY <1>2, <2>2 DEF Assumed
  <2>3. CASE op.event = "ACCEPT" /\ res # Bad
    BY <1>2, <2>3 DEF OnePlace
  <2> QED
    BY <2>1, <2>2, <2>3
<1>10. OneInEach'
  <2>1. \A j, k \in 1 .. Len(cq') : About(cq'[j]) = About(cq'[k]) /\ About(cq'[j]) # Bad => j = k
    <3>1. About(e) # Bad => About(e) \in Fd
      BY <1>1, <1>2, <1>3 DEF Cqe
    <3>2. \A k \in 1 .. Len(cq) : About(cq[k]) = About(e) => About(e) = Bad
      BY <1>9, <3>1 DEF InCq
    <3> QED
      BY <1>5, <1>6, <3>2 DEF OneInEach
  <2>2. About(e)' = About(e) /\ \A k \in 1 .. Len(cq') : About(cq[k])' = About(cq'[k])
    BY DEF About
  <2> QED
    BY <1>4, <2>1, <2>2 DEF OneInEach
<1>11. OnePlace'
  <2> SUFFICES ASSUME NEW fd \in Fd
      PROVE  /\ ~(InSet(sq', fd) /\ InSet(ops', fd)) /\ ~(InSet(sq', fd) /\ InCq(fd)') /\ ~(InSet(ops', fd) /\ InCq(fd)')
             /\ owner'[fd] # None <=> InSet(sq', fd) \/ InSet(ops', fd) \/ InCq(fd)'
    BY DEF OnePlace, InSet
  <2>1. CASE op.event # "ACCEPT"
    <3>1. InSet(ops, op.fd)
      BY <2>1 DEF InSet
    <3> QED
      BY <1>2, <1>4, <1>7, <1>8, <2>1, <3>1 DEF OnePlace
  <2>2. CASE op.event = "ACCEPT" /\ res = Bad
    BY <1>2, <1>4, <1>7, <1>8, <2>2 DEF OnePlace, Assumed
  <2>3. CASE op.event = "ACCEPT" /\ res # Bad
    <3>1. owner'[fd] # None <=> owner[fd] # None \/ fd = res
      BY <2>3 DEF TcpOK, Assumed
    <3>2. owner[res] = None /\ res \in Fd
      BY <2>3
    <3> QED
      BY <1>2, <1>4, <1>7, <1>8, <2>3, <3>1, <3>2 DEF OnePlace
  <2> QED
    BY <2>1, <2>2, <2>3
<1>12. OneAccept'
  <2>1. op.event = "ACCEPT" <=> op = Accept
    BY <1>1 DEF Op, Accept
  <2>2. AcceptDone' <=> AcceptDone \/ op.event = "ACCEPT"
    BY <1>2, <1>5, <1>6 DEF AcceptDone
  <2>3. op = Accept => ~AcceptDone
    BY DEF OneAccept
  <2>4. \A j, k \in 1 .. Len(cq') : cq'[j].event = "ACCEPT" /\ cq'[k].event = "ACCEPT" => j = k
    BY <1>2, <1>5, <1>6, <2>1, <2>3 DEF OneAccept, AcceptDone
  <2> QED
    BY <1>4, <2>1, <2>2, <2>3, <2>4 DEF OneAccept
<1>13. nready' \in 0 .. Len(cq')
  BY <1>4, <1>5 DEF UringOK
<1> QED
  BY <1>4, <1>5, <1>10, <1>11, <1>12, <1>13 DEF UringOK

\* main takes a completion and prepares, about the same connection, the next
\* operation, unless the connection ends with it; the next accept goes with
\* the completion of an accept.
LEMMA HandleStep ==
  ASSUME Assumed, TcpOK, UringOK, OneInEach, OnePlace, OneAccept,
         nready > 0, Handled, NEW new \in SUBSET Op, sq' = sq \cup new,
         Accept \in new <=> Head(cq).event = "ACCEPT",
         \A o, p \in new : o.event # "ACCEPT" /\ p.event # "ACCEPT" => o = p,
         \A o \in new : o.event # "ACCEPT" => o.fd = About(Head(cq)),
         \A fd \in Fd : /\ fd # About(Head(cq)) => (owner'[fd] # None <=> owner[fd] # None)
                        /\ fd = About(Head(cq)) => (owner'[fd] # None <=> InSet(new, fd))
  PROVE  /\ sq' \subseteq Op /\ ops' \subseteq Op /\ cq' \in Seq(Cqe) /\ nready' \in 0 .. Len(cq')
         /\ OneInEach' /\ OnePlace' /\ OneAccept'
<1> DEFINE e == Head(cq)
<1>1. cq \in Seq(Cqe) /\ Len(cq) \in Nat /\ Len(cq) > 0 /\ cq' = Tail(cq) /\ ops' = ops /\ nready' = nready - 1
  BY DEF UringOK, Handled
<1>2. /\ cq' \in Seq(Cqe) /\ Len(cq') = Len(cq) - 1 /\ e = cq[1] /\ e \in Cqe
      /\ \A k \in 1 .. Len(cq') : cq'[k] = cq[k + 1]
  BY <1>1
<1> HIDE DEF e
<1>3. \A k \in 2 .. Len(cq) : k - 1 \in 1 .. Len(cq') /\ cq'[k - 1] = cq[k]
  BY <1>1, <1>2
<1>4. \A j, k \in 1 .. Len(cq') : j + 1 \in 2 .. Len(cq) /\ (j + 1 = k + 1 => j = k)
  BY <1>1, <1>2
<1>5. 1 \in 1 .. Len(cq) /\ \A k \in 1 .. Len(cq) : k = 1 \/ k \in 2 .. Len(cq)
  BY <1>1
<1>6. \A k \in 2 .. Len(cq) : k \in 1 .. Len(cq) /\ k # 1
  BY <1>1
<1>7. \A fd \in Fd : InCq(fd)' <=> InCq(fd) /\ fd # About(e)
  <2> SUFFICES ASSUME NEW fd \in Fd
               PROVE  InCq(fd)' <=> InCq(fd) /\ fd # About(e)
    OBVIOUS
  <2>1. InCq(fd)' <=> \E k \in 1 .. Len(cq') : About(cq'[k]) = fd
    BY DEF InCq, About
  <2>2. fd # Bad
    BY DEF Assumed
  <2>3. ASSUME NEW k \in 1 .. Len(cq'), About(cq'[k]) = fd
        PROVE  InCq(fd) /\ fd # About(e)
    BY <1>2, <1>4, <1>5, <1>6, <2>2, <2>3 DEF InCq, OneInEach
  <2>4. ASSUME InCq(fd), fd # About(e)
        PROVE  \E k \in 1 .. Len(cq') : About(cq'[k]) = fd
    BY <1>2, <1>3, <1>5, <2>4 DEF InCq
  <2> QED
    BY <2>1, <2>3, <2>4
<1>8. \A fd : InSet(sq', fd) <=> InSet(sq, fd) \/ InSet(new, fd)
  BY DEF InSet
<1>9. \A fd : InSet(new, fd) => fd = About(e)
  BY DEF InSet, e
<1>10. About(e) \in Fd => InCq(About(e))
  BY <1>2, <1>5 DEF InCq
<1>11. OneInEach'
  <2>1. \A j, k \in 1 .. Len(cq') : About(cq'[j]) = About(cq'[k]) /\ About(cq'[j]) # Bad => j = k
    BY <1>2, <1>4, <1>6 DEF OneInEach
  <2>2. \A k \in 1 .. Len(cq') : About(cq[k])' = About(cq'[k])
    BY DEF About
  <2>3. ASSUME NEW o \in sq, NEW p \in new, o.event # "ACCEPT", p.event # "ACCEPT", o.fd = p.fd
        PROVE  o = p
    <3>1. o \in Op /\ p \in Op /\ p.fd \in Fd \cup {Bad}
      BY DEF UringOK, Op
    <3>2. p.fd \notin Fd
      <4>1. InSet(sq, p.fd) /\ p.fd = About(e)
        BY <2>3 DEF InSet, e
      <4> QED
        BY <1>10, <4>1 DEF OnePlace
    <3>3. o.fd = Bad /\ p.fd = Bad
      BY <2>3, <3>1, <3>2
    <3> QED
      BY <2>3, <3>1, <3>3 DEF Op
  <2>4. \A o, p \in sq' : o.event # "ACCEPT" /\ p.event # "ACCEPT" /\ o.fd = p.fd => o = p
    BY <2>3 DEF OneInEach
  <2> QED
    BY <1>1, <2>1, <2>2, <2>4 DEF OneInEach
<1>12. OnePlace'
  <2> SUFFICES ASSUME NEW fd \in Fd
      PROVE  /\ ~(InSet(sq', fd) /\ InSet(ops', fd)) /\ ~(InSet(sq', fd) /\ InCq(fd)') /\ ~(InSet(ops', fd) /\ InCq(fd)')
             /\ owner'[fd] # None <=> InSet(sq', fd) \/ InSet(ops', fd) \/ InCq(fd)'
    BY DEF OnePlace, InSet
  <2> QED
    BY <1>1, <1>7, <1>8, <1>9, <1>10 DEF OnePlace, e
<1>13. OneAccept'
  <2>1. AcceptDone' <=> \E k \in 1 .. Len(cq') : cq'[k].event = "ACCEPT"
    BY DEF AcceptDone
  <2>2. e.event = "ACCEPT" => AcceptDone /\ ~AcceptDone'
    BY <1>2, <1>4, <1>5, <1>6, <2>1 DEF OneAccept, AcceptDone
  <2>3. e.event # "ACCEPT" => (AcceptDone' <=> AcceptDone)
    <3>1. AcceptDone' => AcceptDone
      <4> SUFFICES ASSUME NEW k \in 1 .. Len(cq'), cq'[k].event = "ACCEPT"
                   PROVE  AcceptDone
        BY <2>1
      <4>1. k + 1 \in 1 .. Len(cq) /\ cq[k + 1].event = "ACCEPT"
        BY <1>2, <1>4, <1>6
      <4> QED
        BY <4>1 DEF AcceptDone
    <3>2. e.event # "ACCEPT" /\ AcceptDone => AcceptDone'
      <4> SUFFICES ASSUME e.event # "ACCEPT", NEW k \in 1 .. Len(cq), cq[k].event = "ACCEPT"
                   PROVE  AcceptDone'
        BY DEF AcceptDone
      <4>1. k \in 2 .. Len(cq)
        BY <1>2, <1>5
      <4> QED
        BY <1>3, <2>1, <4>1
    <3> QED
      BY <3>1, <3>2
  <2>4. \A j, k \in 1 .. Len(cq') : cq'[j].event = "ACCEPT" /\ cq'[k].event = "ACCEPT" => j = k
    <3> SUFFICES ASSUME NEW j \in 1 .. Len(cq'), NEW k \in 1 .. Len(cq'),
                        cq'[j].event = "ACCEPT", cq'[k].event = "ACCEPT"
                 PROVE  j = k
      OBVIOUS
    <3>1. j + 1 \in 1 .. Len(cq) /\ k + 1 \in 1 .. Len(cq) /\ cq[j + 1].event = "ACCEPT" /\ cq[k + 1].event = "ACCEPT"
      BY <1>2, <1>4, <1>6
    <3>2. j + 1 = k + 1
      BY <3>1 DEF OneAccept
    <3> QED
      BY <1>4, <3>2
  <2> QED
    BY <1>1, <2>2, <2>3, <2>4 DEF OneAccept, e
<1>14. sq' \subseteq Op /\ nready' \in 0 .. Len(cq')
  BY <1>1, <1>2 DEF UringOK
<1> QED
  BY <1>1, <1>2, <1>11, <1>12, <1>13, <1>14 DEF UringOK

\* Nothing comes to be carried for a connection when an operation completes,
\* but what a recv received.
LEMMA CarriedAfterComplete ==
  ASSUME UringOK, NEW op \in ops, NEW res, Complete(op, res), Completion(op.event, op.fd, res) \in Cqe,
         NEW fd \in Fd, NEW n \in Nat, Carries(fd, n)'
  PROVE  \/ Carries(fd, n)
         \/ op.event = "READ" /\ fd = op.fd /\ n = res
<1> DEFINE e == Completion(op.event, op.fd, res)
<1>1. e.event = op.event /\ e.fd = op.fd /\ e.res = res /\ e \in Cqe
  BY DEF Completion
<1>2. cq' = Append(cq, e) /\ ops' = ops \ {op} /\ sq' = sq
  BY DEF Complete
<1> HIDE DEF e
<1>3. /\ cq \in Seq(Cqe) /\ Len(cq) \in Nat /\ Len(cq') = Len(cq) + 1
      /\ cq'[Len(cq) + 1] = e /\ \A k \in 1 .. Len(cq) : cq'[k] = cq[k]
  BY <1>1, <1>2 DEF UringOK
<1>4. \A k \in 1 .. Len(cq') : k \in 1 .. Len(cq) \/ k = Len(cq) + 1
  BY <1>3
<1> QED
  BY <1>1, <1>2, <1>3, <1>4 DEF Carries

\* A send that completes leaves nothing to be carried for its connection.
LEMMA NothingAfterSend ==
  ASSUME UringOK, NEW op \in ops, NEW res, Complete(op, res), op.event = "WRITE",
         Completion(op.event, op.fd, res) \in Cqe, op.fd \in Fd, op.fd # Bad,
         OneInEach', OnePlace', NEW n \in Nat
  PROVE  ~Carries(op.fd, n)'
<1> DEFINE e == Completion(op.event, op.fd, res)  fd == op.fd  last == Len(cq')
<1>1. e.event = "WRITE" /\ e.fd = fd /\ e \in Cqe /\ cq' = Append(cq, e)
  BY DEF Completion, Complete
<1> HIDE DEF e
<1>2. last \in 1 .. Len(cq') /\ cq'[last] = e
  BY <1>1 DEF UringOK
<1> HIDE DEF last
<1>3. \A k \in 1 .. Len(cq') : About(cq[k])' = About(cq'[k])
  BY DEF About
<1>4. InCq(fd)'
  BY <1>1, <1>2, <1>3 DEF InCq, About
<1>5. ~InSet(sq', fd) /\ ~InSet(ops', fd)
  BY <1>4 DEF OnePlace, InSet
<1>6. \A k \in 1 .. Len(cq') : About(cq'[k]) = fd => k = last
  BY <1>1, <1>2, <1>3 DEF OneInEach, About
<1> QED
  BY <1>1, <1>2, <1>5, <1>6 DEF Carries, InSet, About

\* The kernel executes an accept.
LEMMA ExecuteAcceptStep ==
  ASSUME Assumed, IInv, ExecuteAccept
  PROVE  IInv'
<1> USE DEF IInv
<1>1. /\ Accept \in ops /\ \E res \in Fd \cup {Bad} : Complete(Accept, res)
      /\ buffer' = buffer /\ cut' = cut
  BY DEF ExecuteAccept, Complete
<1>2. \A res \in Fd \cup {Bad} : Completion(Accept.event, Accept.fd, res) \in Cqe
  BY DEF Cqe, Completion, Accept, Bad, Assumed
<1>3. Accept.event = "ACCEPT"
  BY DEF Accept
<1>4. CASE \E c \in Client, fd \in Fd : accept(c, fd) /\ Complete(Accept, fd)
  <2>1. PICK c \in Client, fd \in Fd : accept(c, fd) /\ Complete(Accept, fd)
    BY <1>4
  <2>2. TcpOK'
    BY <2>1 DEF TcpOK, accept, Assumed
  <2>3. /\ owner' = [owner EXCEPT ![fd] = c] /\ owner[fd] = None
        /\ UNCHANGED <<got, outbox, inbox, sent>>
    BY <2>1 DEF accept
  <2>4. UringOK' /\ OneInEach' /\ OnePlace' /\ OneAccept'
    BY <1>1, <1>2, <1>3, <2>1, <2>3, CompleteStep DEF UringOK
  <2>5. AmountsOK'
    <3>1. \A f \in Fd, n \in Nat : Carries(f, n)' => Carries(f, n)
      BY <1>1, <1>2, <1>3, <2>1, CarriedAfterComplete
    <3>2. \A f \in Fd, n \in Nat : Carries(f, n)' => owner[f] \in Client
      BY <3>1, CarriedIsOwned
    <3>3. \A f \in Fd, n \in Nat : Carries(f, n)' => owner'[f] = owner[f]
      BY <2>3, <3>2 DEF TcpOK, Assumed
    <3>4. \A d : Held(d)' = Held(d)
      BY <2>3 DEF Held
    <3> QED
      BY <1>1, <2>3, <3>1, <3>3, <3>4 DEF AmountsOK
  <2> QED
    BY <2>2, <2>4, <2>5
<1>5. CASE Complete(Accept, Bad) /\ UNCHANGED tcpVars
  <2>1. TcpOK' /\ owner' = owner /\ (\A d : Held(d)' = Held(d)) /\ sent' = sent
    BY <1>5 DEF TcpOK, tcpVars, Held
  <2>2. UringOK' /\ OneInEach' /\ OnePlace' /\ OneAccept'
    BY <1>1, <1>2, <1>3, <1>5, <2>1, CompleteStep DEF UringOK
  <2>3. \A f \in Fd, n \in Nat : Carries(f, n)' => Carries(f, n)
    BY <1>1, <1>2, <1>3, <1>5, CarriedAfterComplete
  <2>4. AmountsOK'
    BY <1>1, <2>1, <2>3 DEF AmountsOK
  <2> QED
    BY <2>1, <2>2, <2>4
<1> QED
  BY <1>4, <1>5 DEF ExecuteAccept

\* Nothing but the operation itself moves: a recv that found the end, a send
\* that failed.
LEMMA CompleteOnly ==
  ASSUME Assumed, IInv, NEW op \in ops, NEW res, Complete(op, res), op.event # "ACCEPT",
         Completion(op.event, op.fd, res) \in Cqe, op.event = "READ" => res = 0,
         UNCHANGED <<tcpVars, buffer, cut>>
  PROVE  IInv'
<1> USE DEF IInv
<1>1. TcpOK' /\ owner' = owner /\ (\A d : Held(d)' = Held(d)) /\ sent' = sent /\ buffer' = buffer /\ cut' = cut
  BY DEF TcpOK, tcpVars, Held
<1>2. UringOK' /\ OneInEach' /\ OnePlace' /\ OneAccept'
  BY <1>1, CompleteStep DEF UringOK
<1>3. \A fd \in Fd, n \in Nat : Carries(fd, n)' => Carries(fd, n) \/ n = 0
  BY CarriedAfterComplete
<1>4. \A fd \in Fd : ~Carries(fd, 0)'
  BY <1>2 DEF Carries, UringOK, Op
<1>5. AmountsOK'
  BY <1>1, <1>3, <1>4 DEF AmountsOK
<1> QED
  BY <1>1, <1>2, <1>5

\* What is received overwrites as much of the buffer.
LEMMA Overwritten ==
  ASSUME NEW S, NEW s \in Seq(S), NEW b \in Seq(S), NEW n \in 1 .. Len(s)
  PROVE  LET t == SubSeq(s, 1, n) \o SubSeq(b, n + 1, Len(b))
         IN  t \in Seq(S) /\ n <= Size(t) /\ Size(b) <= Size(t)
<1> DEFINE first == SubSeq(s, 1, n)  rest == SubSeq(b, n + 1, Len(b))
<1>1. first \in Seq(S) /\ Size(first) = n
  BY DEF Size
<1>2. rest \in Seq(S) /\ Size(rest) \in Nat /\ (n <= Size(b) => Size(rest) = Size(b) - n)
  BY DEF Size
<1>3. Size(b) \in Nat
  BY DEF Size
<1> HIDE DEF first, rest
<1>4. first \o rest \in Seq(S) /\ Size(first \o rest) = Size(first) + Size(rest)
  <2>1. first \in Seq(S) /\ rest \in Seq(S)
    BY <1>1, <1>2
  <2> QED
    BY <2>1 DEF Size
<1>5. n <= Size(first \o rest) /\ Size(b) <= Size(first \o rest)
  BY <1>1, <1>2, <1>3, <1>4
<1> QED
  BY <1>4, <1>5 DEF first, rest

\* The kernel executes a recv: what is received is what the client has sent
\* and not yet got back.
LEMMA ExecuteRecvStep ==
  ASSUME Assumed, IInv, NEW op \in ops, ExecuteRecv(op)
  PROVE  IInv'
<1> USE DEF IInv
<1> DEFINE fd == op.fd
<1>1. op.event = "READ" /\ op \in Op /\ fd \in Fd \cup {Bad} /\ cut' = cut
  BY DEF ExecuteRecv, UringOK, Op
<1>2. CASE /\ fd # Bad
           /\ \E n \in 1 .. Len(inbox[owner[fd]]) :
                /\ recv(fd, n) /\ Complete(op, n)
                /\ buffer' = Received(fd, n) \o SubSeq(buffer, n + 1, Len(buffer))
  <2>1. fd \in Fd /\ owner[fd] \in Client
    <3>1. fd \in Fd /\ InSet(ops, fd)
      BY <1>1, <1>2 DEF InSet
    <3> QED
      BY <3>1 DEF OnePlace, TcpOK
  <2>2. PICK c \in Client : c = owner[fd]
    BY <2>1
  <2>3. PICK n \in 1 .. Len(inbox[c]) :
           /\ recv(fd, n) /\ Complete(op, n)
           /\ buffer' = SubSeq(inbox[c], 1, n) \o SubSeq(buffer, n + 1, Len(buffer))
    BY <1>2, <2>2 DEF Received
  <2>4. inbox[c] \in Seq(Client \X Nat) /\ buffer \in Seq(Client \X Nat) /\ Size(buffer) \in Nat
    BY DEF TcpOK, UringOK, Size
  <2>5. n \in Nat /\ n > 0
    BY <2>4
  <2> DEFINE rest == SubSeq(inbox[c], n + 1, Len(inbox[c]))
  <2>6. rest \in Seq(Client \X Nat) /\ Size(rest) = Size(inbox[c]) - n
    BY <2>4, <2>5 DEF Size
  <2>7. /\ inbox' = [inbox EXCEPT ![c] = rest]
        /\ UNCHANGED <<phase, backlog, owner, sent, outbox, got, spent, crashed>>
    BY <2>2, <2>3 DEF recv
  <2> HIDE DEF rest
  <2>8. TcpOK'
    BY <2>6, <2>7 DEF TcpOK
  <2>9. buffer' \in Seq(Client \X Nat) /\ n <= Size(buffer') /\ Size(buffer) <= Size(buffer')
    BY <2>3, <2>4, Overwritten
  <2>10. Size(buffer') \in Nat
    BY <2>9 DEF Size
  <2>11. Completion(op.event, fd, n) \in Cqe
    <3>1. Completion("READ", fd, n) \in [event : {"ACCEPT", "READ", "WRITE"}, fd : Fd \cup {Bad}, res : Int]
      BY <1>1, <2>5 DEF Completion
    <3>2. fd # Bad /\ n >= 0
      BY <1>2, <2>5
    <3> QED
      BY <1>1, <3>1, <3>2 DEF Cqe, Completion
  <2>12. UringOK' /\ OneInEach' /\ OnePlace' /\ OneAccept'
    BY <1>1, <2>3, <2>7, <2>9, <2>11, CompleteStep DEF UringOK
  <2>13. Held(c) \in Int /\ Held(c)' = Held(c) - n
    <3>1. Size(got[c]) \in Nat /\ Size(outbox[c]) \in Nat /\ Size(inbox[c]) \in Nat
      BY HeldIsNat
    <3>2. Size(inbox'[c]) = Size(inbox[c]) - n
      BY <2>6, <2>7 DEF TcpOK
    <3> QED
      BY <2>5, <2>7, <3>1, <3>2 DEF Held
  <2>14. \A d \in Client : d # c => Held(d)' = Held(d)
    BY <2>7 DEF Held, TcpOK
  <2>15. \A d \in Client : Held(d) \in Nat /\ sent[d] \in Nat /\ Held(d) <= sent[d]
    BY HeldIsNat DEF AmountsOK
  <2>16. \A d \in Client : Held(d)' \in Int /\ Held(d)' <= Held(d)
    BY <2>5, <2>13, <2>14, <2>15
  <2>17. \A f \in Fd, m \in Nat : Carries(f, m)' => Carries(f, m) \/ (f = fd /\ m = n)
    BY <2>3, <2>11, CarriedAfterComplete
  <2>18. ASSUME NEW f \in Fd, NEW m \in Nat, Carries(f, m), NEW d \in Client, d = owner[f]
         PROVE  m <= Size(buffer') /\ Held(d)' + m <= sent[d]
    <3>1. m <= Size(buffer) /\ Held(d) + m <= sent[d]
      BY <2>18 DEF AmountsOK
    <3>2. Held(d) \in Nat /\ sent[d] \in Nat /\ Held(d)' \in Int /\ Held(d)' <= Held(d)
      BY <2>15, <2>16
    <3>3. m <= Size(buffer')
      BY <2>4, <2>9, <2>10, <3>1
    <3> QED
      BY <3>1, <3>2, <3>3
  <2>19. n <= Size(buffer') /\ Held(c)' + n <= sent[c]
    BY <2>5, <2>9, <2>13, <2>15
  <2>20. AmountsOK'
    <3>1. \A d \in Client : Held(d)' <= sent'[d]
      BY <2>7, <2>15, <2>16
    <3>2. ASSUME NEW f \in Fd, NEW m \in Nat, Carries(f, m)'
          PROVE  \E d \in Client : d = owner'[f] /\ m <= Size(buffer') /\ Held(d)' + m <= sent'[d]
      <4>1. CASE Carries(f, m)
        <5>1. owner[f] \in Client
          BY <4>1, CarriedIsOwned
        <5> QED
          BY <2>7, <2>18, <4>1, <5>1
      <4>2. CASE f = fd /\ m = n
        BY <2>2, <2>7, <2>19, <4>2
      <4> QED
        BY <2>17, <3>2, <4>1, <4>2
    <3> QED
      BY <3>1, <3>2 DEF AmountsOK
  <2> QED
    BY <2>8, <2>12, <2>20
<1>3. CASE Complete(op, 0) /\ UNCHANGED <<tcpVars, buffer>>
  <2>1. Completion(op.event, fd, 0) \in Cqe
    BY <1>1 DEF Cqe, Completion
  <2> QED
    BY <1>1, <1>3, <2>1, CompleteOnly
<1> QED
  BY <1>2, <1>3 DEF ExecuteRecv

\* The kernel executes a send: no more than the client is owed.
LEMMA ExecuteSendStep ==
  ASSUME Assumed, IInv, NEW op \in ops, ExecuteSend(op)
  PROVE  IInv'
<1> USE DEF IInv
<1> DEFINE fd == op.fd
<1>1. op.event = "WRITE" /\ op \in Op /\ fd \in Fd /\ fd # Bad /\ op.len \in Nat /\ op.len > 0 /\ buffer' = buffer
  BY DEF ExecuteSend, UringOK, Op
<1>2. owner[fd] \in Client
  <2>1. InSet(ops, fd)
    BY <1>1 DEF InSet
  <2> QED
    BY <1>1, <2>1 DEF OnePlace, TcpOK
<1>3. PICK c \in Client : c = owner[fd]
  BY <1>2
<1>4. \A res \in Int : Completion(op.event, fd, res) \in Cqe
  <2> SUFFICES ASSUME NEW res \in Int
               PROVE  Completion("WRITE", fd, res) \in Cqe
    BY <1>1
  <2>1. Completion("WRITE", fd, res) \in [event : {"ACCEPT", "READ", "WRITE"}, fd : Fd \cup {Bad}, res : Int]
    BY <1>1 DEF Completion
  <2> QED
    BY <1>1, <2>1 DEF Cqe, Completion
<1>5. CASE /\ Len(outbox[c]) < Room
           /\ LET n == IF Room - Len(outbox[c]) < op.len THEN Room - Len(outbox[c]) ELSE op.len
              IN  /\ outbox' = [outbox EXCEPT ![c] = @ \o SubSeq(buffer, 1, n)]
                  /\ cut' = IF n < op.len THEN cut \cup {c} ELSE cut
                  /\ Complete(op, n)
           /\ UNCHANGED <<phase, backlog, owner, sent, inbox, got, spent, crashed>>
  <2> DEFINE n == IF Room - Len(outbox[c]) < op.len THEN Room - Len(outbox[c]) ELSE op.len
  <2>1. /\ outbox' = [outbox EXCEPT ![c] = @ \o SubSeq(buffer, 1, n)]
        /\ cut' \in {cut, cut \cup {c}} /\ Complete(op, n)
        /\ UNCHANGED <<phase, backlog, owner, sent, inbox, got, spent, crashed>>
    BY <1>5
  <2>2. n \in Nat /\ n <= op.len
    <3>1. Len(outbox[c]) \in Nat
      BY DEF TcpOK
    <3> QED
      BY <1>1, <1>5, <3>1 DEF Assumed
  <2> HIDE DEF n
  <2>3. op.len <= Size(buffer) /\ Held(c) + op.len <= sent[c]
    <3>1. Carries(fd, op.len)
      BY <1>1 DEF Carries
    <3> QED
      BY <1>1, <1>3, <3>1 DEF AmountsOK
  <2>4. SubSeq(buffer, 1, n) \in Seq(Client \X Nat) /\ Size(SubSeq(buffer, 1, n)) = n
    <3>1. buffer \in Seq(Client \X Nat) /\ n <= Len(buffer)
      BY <1>1, <2>2, <2>3 DEF UringOK, Size
    <3> QED
      BY <2>2, <3>1 DEF Size
  <2> DEFINE after == outbox[c] \o SubSeq(buffer, 1, n)
  <2>5. after \in Seq(Client \X Nat) /\ Size(after) = Size(outbox[c]) + n
    <3>1. outbox[c] \in Seq(Client \X Nat) /\ SubSeq(buffer, 1, n) \in Seq(Client \X Nat)
      BY <2>4 DEF TcpOK
    <3>2. after \in Seq(Client \X Nat) /\ Size(after) = Size(outbox[c]) + Size(SubSeq(buffer, 1, n))
      BY <3>1 DEF Size
    <3> QED
      BY <2>4, <3>2
  <2>6. outbox' = [outbox EXCEPT ![c] = after]
    BY <2>1
  <2> HIDE DEF after
  <2>7. TcpOK'
    <3>1. outbox' \in [Client -> Seq(Client \X Nat)]
      BY <2>5, <2>6 DEF TcpOK
    <3> QED
      BY <2>1, <3>1 DEF TcpOK
  <2>8. UringOK' /\ OneInEach' /\ OnePlace' /\ OneAccept'
    BY <1>1, <1>4, <2>1, <2>2, CompleteStep DEF UringOK
  <2>9. Held(c) \in Int /\ Held(c)' = Held(c) + n
    <3>1. Size(got[c]) \in Nat /\ Size(outbox[c]) \in Nat /\ Size(inbox[c]) \in Nat
      BY HeldIsNat
    <3>2. Size(outbox'[c]) = Size(outbox[c]) + n
      BY <2>5, <2>6 DEF TcpOK
    <3> QED
      BY <2>1, <2>2, <3>1, <3>2 DEF Held
  <2>10. \A d \in Client : d # c => Held(d)' = Held(d)
    BY <2>1, <2>6 DEF Held, TcpOK
  <2>11. \A f \in Fd, m \in Nat : Carries(f, m)' => Carries(f, m) /\ f # fd
    BY <1>1, <1>4, <2>1, <2>2, <2>8, CarriedAfterComplete, NothingAfterSend
  <2>12. AmountsOK'
    <3>1. \A d \in Client : Held(d) \in Nat /\ sent[d] \in Nat /\ Held(d) <= sent[d]
      BY HeldIsNat DEF AmountsOK
    <3>2. Held(c)' <= sent[c]
      BY <1>1, <2>2, <2>3, <2>9, <3>1
    <3>3. \A d \in Client : Held(d)' <= sent'[d]
      BY <2>1, <2>10, <3>1, <3>2
    <3>4. ASSUME NEW f \in Fd, NEW m \in Nat, Carries(f, m)'
          PROVE  m <= Size(buffer') /\ \E d \in Client : d = owner'[f] /\ Held(d)' + m <= sent'[d]
      <4>1. Carries(f, m) /\ f # fd
        BY <2>11, <3>4
      <4>2. PICK d \in Client : d = owner[f]
        BY <4>1, CarriedIsOwned
      <4>3. d # c
        BY <1>1, <1>3, <4>1, <4>2 DEF TcpOK, Assumed
      <4> QED
        BY <1>1, <2>1, <2>10, <4>1, <4>2, <4>3 DEF AmountsOK
    <3> QED
      BY <3>3, <3>4 DEF AmountsOK
  <2> QED
    BY <2>7, <2>8, <2>12
<1>6. CASE Complete(op, -1) /\ UNCHANGED <<tcpVars, cut>>
  BY <1>1, <1>4, <1>6, CompleteOnly
<1> QED
  BY <1>3, <1>5, <1>6 DEF ExecuteSend

\* main submits what is prepared, and takes the completions there are.
LEMMA BatchStep ==
  ASSUME Assumed, IInv, io_uring_submit \/ io_uring_peek_batch_cqe
  PROVE  IInv'
<1> USE DEF IInv
<1>1. UNCHANGED <<tcpVars, cq, buffer, cut>>
  BY DEF io_uring_submit, io_uring_peek_batch_cqe
<1>2. TcpOK' /\ owner' = owner /\ sent' = sent /\ \A d : Held(d)' = Held(d)
  BY <1>1 DEF TcpOK, tcpVars, Held
<1>3. /\ UNCHANGED <<sq, ops>> \/ (ops' = sq \cup ops /\ sq' = {})
      /\ sq' \cup ops' = sq \cup ops
  BY DEF io_uring_submit, io_uring_peek_batch_cqe
<1>4. UringOK'
  BY <1>1, <1>3 DEF UringOK, io_uring_submit, io_uring_peek_batch_cqe
<1>5. \A fd : InCq(fd)' <=> InCq(fd)
  BY <1>1 DEF InCq, About
<1>6. OneInEach'
  <2>1. CASE UNCHANGED <<sq, ops>>
    BY <1>1, <2>1 DEF OneInEach, About
  <2>2. CASE ops' = sq \cup ops /\ sq' = {}
    <3>1. ASSUME NEW o \in sq, NEW p \in ops, o.event # "ACCEPT", p.event # "ACCEPT", o.fd = p.fd
          PROVE  o = p
      <4>1. o \in Op /\ p \in Op /\ o.fd \in Fd \cup {Bad}
        BY DEF UringOK, Op
      <4>2. o.fd \notin Fd
        BY <3>1 DEF OnePlace, InSet
      <4> QED
        BY <3>1, <4>1, <4>2 DEF Op
    <3>2. \A o, p \in ops' : o.event # "ACCEPT" /\ p.event # "ACCEPT" /\ o.fd = p.fd => o = p
      BY <2>2, <3>1 DEF OneInEach
    <3> QED
      BY <1>1, <2>2, <3>2 DEF OneInEach, About
  <2> QED
    BY <1>3, <2>1, <2>2
<1>7. OnePlace'
  <2> SUFFICES ASSUME NEW fd \in Fd
      PROVE  /\ ~(InSet(sq', fd) /\ InSet(ops', fd)) /\ ~(InSet(sq', fd) /\ InCq(fd)') /\ ~(InSet(ops', fd) /\ InCq(fd)')
             /\ owner'[fd] # None <=> InSet(sq', fd) \/ InSet(ops', fd) \/ InCq(fd)'
    BY DEF OnePlace, InSet
  <2>1. UNCHANGED <<sq, ops>> \/ (~InSet(sq', fd) /\ (InSet(ops', fd) <=> InSet(sq, fd) \/ InSet(ops, fd)))
    BY <1>3 DEF InSet
  <2> QED
    BY <1>2, <1>5, <2>1 DEF OnePlace
<1>8. OneAccept'
  BY <1>1, <1>3 DEF OneAccept, AcceptDone
<1>9. AmountsOK'
  <2>1. \A fd, n : Carries(fd, n)' <=> Carries(fd, n)
    BY <1>1, <1>3 DEF Carries
  <2> QED
    BY <1>1, <1>2, <2>1 DEF AmountsOK
<1> QED
  BY <1>2, <1>4, <1>6, <1>7, <1>8, <1>9

\* After a completion is handled, nothing is carried that was not before.
LEMMA CarriedAfterHandled ==
  ASSUME UringOK, nready > 0, Handled, NEW fd \in Fd, NEW n \in Nat, Carries(fd, n)'
  PROVE  \/ Carries(fd, n)
         \/ \E o \in sq' \ sq : o.event = "WRITE" /\ o.fd = fd /\ o.len = n
<1>1. cq \in Seq(Cqe) /\ Len(cq) \in Nat /\ Len(cq) > 0 /\ cq' = Tail(cq) /\ ops' = ops
  BY DEF UringOK, Handled
<1>2. \A k \in 1 .. Len(cq') : k + 1 \in 1 .. Len(cq) /\ cq'[k] = cq[k + 1]
  BY <1>1
<1> QED
  BY <1>1, <1>2 DEF Carries

\* main handles a completion.
LEMMA HandleCqeStep ==
  ASSUME Assumed, IInv, HandleCqe
  PROVE  IInv'
<1> USE DEF IInv
<1> DEFINE e == Head(cq)
<1>1. nready > 0 /\ Handled /\ e = cq[1] /\ 1 \in 1 .. Len(cq) /\ e \in Cqe /\ buffer' = buffer /\ cut' = cut
  BY DEF HandleCqe, Handled, UringOK
<1> HIDE DEF e
<1>2. /\ e.event \in {"ACCEPT", "READ", "WRITE"} /\ e.fd \in Fd \cup {Bad}
      /\ About(e) = IF e.event = "ACCEPT" THEN e.res ELSE e.fd
  BY <1>1 DEF Cqe, About
<1>3. About(e) \in Fd => InCq(About(e)) /\ owner[About(e)] \in Client /\ owner[About(e)] # None
  <2> HAVE About(e) \in Fd
  <2>1. InCq(About(e))
    BY <1>1 DEF InCq
  <2> QED
    BY <2>1 DEF OnePlace, TcpOK
<1>4. \A fd : InSet({}, fd) <=> FALSE
  BY DEF InSet
<1>5. Recv(Bad) \in Op /\ Accept \in Op /\ \A fd \in Fd : Recv(fd) \in Op
  BY DEF Recv, Accept, Op
<1>6. Accept.event = "ACCEPT" /\ \A fd : Recv(fd).event = "READ" /\ Recv(fd).fd = fd
  BY DEF Recv, Accept
<1>7. ASSUME UNCHANGED tcpVars, \A fd \in Fd, n \in Nat : Carries(fd, n)' => Carries(fd, n)
      PROVE  TcpOK' /\ AmountsOK'
  <2>1. TcpOK' /\ owner' = owner /\ sent' = sent /\ \A d : Held(d)' = Held(d)
    BY <1>7 DEF TcpOK, tcpVars, Held
  <2> QED
    BY <1>1, <1>7, <2>1 DEF AmountsOK
<1>8. CASE e.event = "ACCEPT" /\ on_accept(e.res)
  <2> DEFINE new == {Accept, Recv(e.res)}
  <2>1. sq' = sq \cup new /\ UNCHANGED tcpVars /\ e.res \in Fd \cup {Bad} /\ About(e) = e.res
    BY <1>1, <1>2, <1>8 DEF on_accept, Cqe
  <2>2. new \in SUBSET Op
    BY <1>5, <2>1
  <2>3. InSet(new, e.res)
    BY <1>6 DEF InSet
  <2>4. \A o \in new : o.event # "ACCEPT" => o = Recv(e.res)
    BY <1>6
  <2> HIDE DEF new
  <2>5. /\ Accept \in new <=> e.event = "ACCEPT"
        /\ \A o, p \in new : o.event # "ACCEPT" /\ p.event # "ACCEPT" => o = p
        /\ \A o \in new : o.event # "ACCEPT" => o.fd = About(e)
    BY <1>6, <1>8, <2>1, <2>4 DEF new
  <2>6. \A fd \in Fd : /\ fd # About(e) => (owner'[fd] # None <=> owner[fd] # None)
                       /\ fd = About(e) => (owner'[fd] # None <=> InSet(new, fd))
    BY <1>3, <2>1, <2>3 DEF tcpVars
  <2>7. UringOK' /\ OneInEach' /\ OnePlace' /\ OneAccept'
    BY <1>1, <2>1, <2>2, <2>5, <2>6, HandleStep DEF UringOK, e
  <2>8. \A fd \in Fd, n \in Nat : Carries(fd, n)' => Carries(fd, n)
    <3>1. \A o \in sq' \ sq : o.event # "WRITE"
      BY <1>6, <2>1, <2>4
    <3> QED
      BY <1>1, <3>1, CarriedAfterHandled
  <2> QED
    BY <1>7, <2>1, <2>7, <2>8
<1>9. CASE e.event = "READ" /\ on_read(e.fd, e.res) /\ e.res > 0
  <2> DEFINE o == SendBack(e.fd, e.res)
  <2>1. e.fd \in Fd /\ e.fd # Bad /\ e.res \in Nat /\ About(e) = e.fd
    BY <1>1, <1>2, <1>9 DEF Cqe
  <2>2. sq' = sq \cup {o} /\ UNCHANGED tcpVars
    BY <1>9 DEF on_read, set_event_send
  <2>3. o.event = "WRITE" /\ o.fd = e.fd /\ o.len = e.res /\ o \in Op
    BY <1>9, <2>1 DEF Op, SendBack
  <2> HIDE DEF o
  <2>4. {o} \in SUBSET Op /\ InSet({o}, e.fd) /\ Accept # o
    BY <1>6, <2>3 DEF InSet
  <2>5. \A fd \in Fd : /\ fd # About(e) => (owner'[fd] # None <=> owner[fd] # None)
                       /\ fd = About(e) => (owner'[fd] # None <=> InSet({o}, fd))
    BY <1>3, <2>1, <2>2, <2>4 DEF tcpVars
  <2>6. UringOK' /\ OneInEach' /\ OnePlace' /\ OneAccept'
    BY <1>1, <1>9, <2>1, <2>2, <2>3, <2>4, <2>5, HandleStep DEF UringOK, e
  <2>7. Carries(e.fd, e.res)
    BY <1>1, <1>9, <2>1 DEF Carries
  <2>8. \A fd \in Fd, n \in Nat : Carries(fd, n)' => Carries(fd, n)
    BY <1>1, <2>2, <2>3, <2>7, CarriedAfterHandled
  <2> QED
    BY <1>7, <2>2, <2>6, <2>8
<1>10. CASE e.event = "READ" /\ on_read(e.fd, e.res) /\ ~(e.res > 0)
  <2>1. /\ sq' = sq /\ About(e) = e.fd
        /\ IF e.fd = Bad THEN UNCHANGED tcpVars ELSE close(e.fd)
    BY <1>2, <1>10 DEF on_read
  <2>2. sq' = sq \cup {} /\ {} \in SUBSET Op
    BY <2>1
  <2>3. \A fd \in Fd : /\ fd # About(e) => (owner'[fd] # None <=> owner[fd] # None)
                       /\ fd = About(e) => (owner'[fd] # None <=> InSet({}, fd))
    BY <1>2, <1>4, <2>1 DEF tcpVars, close, TcpOK, Assumed
  <2>4. UringOK' /\ OneInEach' /\ OnePlace' /\ OneAccept'
    BY <1>1, <1>10, <2>2, <2>3, HandleStep DEF UringOK, e
  <2>5. \A fd \in Fd, n \in Nat : Carries(fd, n)' => Carries(fd, n)
    BY <1>1, <2>1, CarriedAfterHandled
  <2>6. CASE e.fd = Bad
    BY <1>7, <2>1, <2>4, <2>5, <2>6
  <2>7. CASE e.fd # Bad
    <3>1. close(e.fd) /\ e.fd \in Fd
      BY <1>2, <2>1, <2>7
    <3>2. TcpOK'
      BY <3>1 DEF TcpOK, close, Assumed
    <3>3. sent' = sent /\ \A d : Held(d)' = Held(d)
      BY <3>1 DEF close, Held
    <3>4. ASSUME NEW fd \in Fd, NEW n \in Nat, Carries(fd, n)'
          PROVE  Carries(fd, n) /\ owner'[fd] = owner[fd]
      <4>1. InSet(sq, fd)' \/ InSet(ops, fd)' \/ InCq(fd)'
        BY <3>4 DEF Carries, InSet, InCq, About
      <4>2. owner'[fd] # None
        BY <2>4, <4>1 DEF OnePlace
      <4> QED
        BY <2>5, <3>1, <3>4, <4>2 DEF TcpOK, close
    <3>5. AmountsOK'
      BY <1>1, <3>3, <3>4 DEF AmountsOK
    <3> QED
      BY <2>4, <3>2, <3>5
  <2> QED
    BY <2>6, <2>7
<1>11. CASE e.event = "WRITE" /\ on_write(e.fd)
  <2>1. sq' = sq \cup {Recv(e.fd)} /\ UNCHANGED tcpVars /\ About(e) = e.fd /\ e.fd \in Fd
    BY <1>1, <1>2, <1>11 DEF on_write, set_event_recv, Cqe
  <2>2. {Recv(e.fd)} \in SUBSET Op /\ InSet({Recv(e.fd)}, e.fd) /\ Accept # Recv(e.fd)
    BY <1>5, <1>6, <2>1 DEF InSet
  <2>3. \A fd \in Fd : /\ fd # About(e) => (owner'[fd] # None <=> owner[fd] # None)
                       /\ fd = About(e) => (owner'[fd] # None <=> InSet({Recv(e.fd)}, fd))
    BY <1>3, <2>1, <2>2 DEF tcpVars
  <2>4. UringOK' /\ OneInEach' /\ OnePlace' /\ OneAccept'
    BY <1>1, <1>6, <1>11, <2>1, <2>2, <2>3, HandleStep DEF UringOK, e
  <2>5. \A fd \in Fd, n \in Nat : Carries(fd, n)' => Carries(fd, n)
    BY <1>1, <1>6, <2>1, CarriedAfterHandled
  <2> QED
    BY <1>7, <2>1, <2>4, <2>5
<1> QED
  BY <1>8, <1>9, <1>10, <1>11 DEF HandleCqe, e

\* Every step preserves the invariant.
LEMMA NextIInv ==
  ASSUME Assumed, IInv, [Next]_vars
  PROVE  IInv'
<1>1. CASE main
  BY <1>1, BatchStep, HandleCqeStep DEF main
<1>2. CASE Kernel
  BY <1>2, ExecuteAcceptStep, ExecuteRecvStep, ExecuteSendStep DEF Kernel
<1>3. CASE Clients
  BY <1>3, ClientsStep
<1>4. CASE UNCHANGED vars
  BY <1>4 DEF vars, tcpVars, uringVars, IInv, TcpOK, UringOK, OneInEach, OnePlace, OneAccept, AcceptDone,
              AmountsOK, Carries, Held, InSet, InCq, About
<1> QED
  BY <1>1, <1>2, <1>3, <1>4 DEF Next

\* What the invariant says in the words of the specification: the accept that
\* is under way is a set of one, ...
LEMMA OneAcceptCounted ==
  ASSUME UringOK, OneAccept
  PROVE  Cardinality(Accepts) = 1
<1>1. {o \in sq \cup ops : o.event = "ACCEPT"} \subseteq {Accept}
  BY DEF UringOK, Op
<1>2. Accept.event = "ACCEPT"
  BY DEF Accept
<1>3. \E x : Accepts = {x}
  <2>1. CASE Accept \in sq \/ Accept \in ops
    <3>1. ~AcceptDone
      BY <2>1 DEF OneAccept
    <3>2. Accepts = {Accept}
      BY <1>1, <1>2, <2>1, <3>1 DEF Accepts, AcceptDone
    <3> QED
      BY <3>2
  <2>2. CASE AcceptDone
    <3>1. PICK k \in 1 .. Len(cq) : cq[k].event = "ACCEPT"
      BY <2>2 DEF AcceptDone
    <3>2. Accepts = {k}
      BY <1>1, <2>2, <3>1 DEF Accepts, OneAccept
    <3> QED
      BY <3>2
  <2> QED
    BY <2>1, <2>2 DEF OneAccept
<1> QED
  BY <1>3, FS_Singleton

\* ... and so is what is under way for a connection; without one it is empty.
LEMMA OneUnderWayCounted ==
  ASSUME Assumed, UringOK, OneInEach, OnePlace, NEW fd \in Fd
  PROVE  Cardinality(UnderWay(fd)) = IF owner[fd] = None THEN 0 ELSE 1
<1> DEFINE Pending == {o \in sq \cup ops : o.event # "ACCEPT" /\ o.fd = fd}
           Indices == {k \in 1 .. Len(cq) : About(cq[k]) = fd}
           Done == {<<k, cq[k]>> : k \in Indices}
<1>1. UnderWay(fd) = Pending \cup Done
  <2>1. {i \in 1 .. Len(cq) : fd = IF cq[i].event = "ACCEPT" THEN cq[i].res ELSE cq[i].fd} = Indices
    BY DEF About
  <2> QED
    BY <2>1 DEF UnderWay
<1>2. Pending # {} <=> InSet(sq, fd) \/ InSet(ops, fd)
  BY DEF InSet
<1>3. \A o, p \in Pending : o = p
  BY DEF OneInEach, OnePlace, InSet
<1>4. \A j, k \in Indices : j = k
  BY DEF OneInEach, Assumed
<1>5. Indices # {} <=> InCq(fd)
  BY DEF InCq
<1>6. \A d, e \in Done : d = e
  BY <1>4
<1>7. Done # {} <=> Indices # {}
  OBVIOUS
<1> HIDE DEF Pending, Indices, Done
<1>8. CASE owner[fd] = None
  <2>1. UnderWay(fd) = {}
    BY <1>1, <1>2, <1>5, <1>7, <1>8 DEF OnePlace
  <2> QED
    BY <1>8, <2>1, FS_EmptySet
<1>9. CASE owner[fd] # None
  <2>1. Pending = {} \/ Done = {}
    BY <1>2, <1>5, <1>7 DEF OnePlace
  <2>2. Pending # {} \/ Done # {}
    BY <1>2, <1>5, <1>7, <1>9 DEF OnePlace
  <2>3. \E x : UnderWay(fd) = {x}
    <3>1. PICK x : x \in UnderWay(fd)
      BY <1>1, <2>2
    <3>2. \A y \in UnderWay(fd) : y = x
      BY <1>1, <1>3, <1>6, <2>1, <3>1
    <3>3. UnderWay(fd) = {x}
      BY <3>1, <3>2
    <3> QED
      BY <3>3
  <2> QED
    BY <1>9, <2>3, FS_Singleton
<1> QED
  BY <1>8, <1>9

\* The invariant implies the properties.
LEMMA IInvImplies ==
  ASSUME Assumed, IInv
  PROVE  TypeOK /\ OneUnderWay /\ NeverTooMuch
<1> USE DEF IInv
<1>1. TypeOK
  BY DEF TypeOK, TcpTypeOK, TcpOK, UringOK, Op
<1>2. OneUnderWay
  BY OneAcceptCounted, OneUnderWayCounted DEF OneUnderWay
<1>3. NeverTooMuch
  <2>1. \A c \in Client : Size(got[c]) + Size(outbox[c]) <= sent[c]
    BY HeldIsNat DEF Held, AmountsOK
  <2> QED
    BY <2>1, Zenon DEF NeverTooMuch, Size
<1> QED
  BY <1>1, <1>2, <1>3

\* At every moment main, the kernel or the batch in hand has exactly one accept
\* and exactly one operation for every connection, and none for a descriptor
\* that was closed, in whatever order the kernel executes and the clients come
\* and go: the handlers of uring_tcp_server.c prepare one operation each.
\* Nobody is sent more than it sent.
THEOREM OneOperationEach ==
  ASSUME None \notin Client, Fd \subseteq Nat \ {Bad}, Room \in Nat
  PROVE  Spec => [](TypeOK /\ OneUnderWay /\ NeverTooMuch)
<1> USE DEF Assumed
<1>1. Init => IInv
  BY InitIInv
<1>2. IInv /\ [Next]_vars => IInv'
  BY NextIInv
<1>3. IInv => TypeOK /\ OneUnderWay /\ NeverTooMuch
  BY IInvImplies
<1> QED
  BY <1>1, <1>2, <1>3, PTL DEF Spec
================================================================================
