----------------------------- MODULE ReactorProofs -----------------------------
(***************************************************************************)
(* Theorems about the servers that are built on Reactor, and about         *)
(* PollServer, for every number of clients, of descriptors and of pieces a *)
(* connection has room for.                                                *)
(***************************************************************************)
EXTENDS EchoReactor, FiniteSetTheorems, SequenceTheorems, TLAPS

(***************************************************************************)
(* The other servers have the same clients: PollServer a loop of its own,  *)
(* WebServer and WebSocket the same reactor.                               *)
(***************************************************************************)
CONSTANTS MaxFailures, Messages, Patient
VARIABLES watched, maxfd, revents, i, failures

Poll == INSTANCE PollServer
Web == INSTANCE WebServer
WS == INSTANCE WebSocket

Size(s) == Len(s)

\* The pieces of client c from number n + 1 on.
Numbered(s, c, n) == \A k \in 1 .. Len(s) : s[k] = <<c, n + k>>

\* The concatenation of pieces that follow each other.
LEMMA NumberedConcat ==
  ASSUME NEW S, NEW s \in Seq(S), NEW t \in Seq(S), NEW c, NEW n \in Nat,
         Numbered(s, c, n), Numbered(t, c, n + Size(s))
  PROVE  s \o t \in Seq(S) /\ Size(s \o t) = Size(s) + Size(t) /\ Numbered(s \o t, c, n)
<1>1. s \o t \in Seq(S) /\ Size(s \o t) = Size(s) + Size(t) /\ Size(s) \in Nat /\ Size(t) \in Nat
  BY DEF Size
<1>2. ASSUME NEW k \in 1 .. Len(s \o t)
      PROVE  (s \o t)[k] = <<c, n + k>>
  <2>1. CASE k <= Len(s)
    BY <2>1 DEF Numbered
  <2>2. CASE ~(k <= Len(s))
    <3>1. (s \o t)[k] = t[k - Len(s)] /\ k - Len(s) \in 1 .. Len(t)
      BY <2>2
    <3>2. t[k - Len(s)] = <<c, (n + Len(s)) + (k - Len(s))>>
      BY <3>1 DEF Numbered, Size
    <3>3. (n + Len(s)) + (k - Len(s)) = n + k
      OBVIOUS
    <3> QED
      BY <3>1, <3>2, <3>3
  <2> QED
    BY <2>1, <2>2
<1> QED
  BY <1>1, <1>2 DEF Numbered

\* Pieces that follow each other, cut in two.
LEMMA NumberedCut ==
  ASSUME NEW S, NEW s \in Seq(S), NEW m \in 0 .. Len(s), NEW c, NEW n \in Nat, Numbered(s, c, n)
  PROVE  LET first == SubSeq(s, 1, m)  rest == SubSeq(s, m + 1, Len(s))
         IN  /\ first \in Seq(S) /\ Size(first) = m /\ Numbered(first, c, n)
             /\ rest \in Seq(S) /\ Size(rest) = Size(s) - m /\ Numbered(rest, c, n + m)
<1> DEFINE first == SubSeq(s, 1, m)  rest == SubSeq(s, m + 1, Len(s))
<1>1. first \in Seq(S) /\ Size(first) = m /\ rest \in Seq(S) /\ Size(rest) = Size(s) - m
  BY DEF Size
<1>2. \A k \in 1 .. Len(first) : first[k] = s[k] /\ k \in 1 .. Len(s)
  OBVIOUS
<1>3. \A k \in 1 .. Len(rest) : rest[k] = s[m + k] /\ m + k \in 1 .. Len(s) /\ n + (m + k) = (n + m) + k
  OBVIOUS
<1> HIDE DEF first, rest
<1>4. Numbered(first, c, n)
  BY <1>2 DEF Numbered
<1>5. Numbered(rest, c, n + m)
  BY <1>3 DEF Numbered
<1> QED
  BY <1>1, <1>4, <1>5 DEF first, rest

\* One more piece.
LEMMA NumberedAppend ==
  ASSUME NEW S, NEW s \in Seq(S), NEW c, NEW n \in Nat, Numbered(s, c, n),
         NEW x \in S, x = <<c, n + Size(s) + 1>>
  PROVE  Append(s, x) \in Seq(S) /\ Size(Append(s, x)) = Size(s) + 1 /\ Numbered(Append(s, x), c, n)
<1>1. Append(s, x) \in Seq(S) /\ Size(Append(s, x)) = Size(s) + 1
  BY DEF Size
<1>2. ASSUME NEW k \in 1 .. Len(Append(s, x))
      PROVE  Append(s, x)[k] = <<c, n + k>>
  <2>1. CASE k \in 1 .. Len(s)
    BY <2>1 DEF Numbered
  <2>2. CASE k = Len(s) + 1
    <3>1. Append(s, x)[k] = x /\ n + Len(s) + 1 = n + k
      BY <2>2
    <3> QED
      BY <3>1 DEF Size
  <2> QED
    BY <2>1, <2>2
<1> QED
  BY <1>1, <1>2 DEF Numbered
--------------------------------------------------------------------------------
(***************************************************************************)
(* The connections of any server, which receives elements of P and sends   *)
(* elements of Q.                                                          *)
(***************************************************************************)
TcpHas(P, Q) ==
  /\ phase \in [Client -> {"idle", "open", "closed", "reset"}] /\ backlog \subseteq Client
  /\ owner \in [Fd -> Client \cup {None}]
  /\ \A f, g \in Fd : owner[f] \notin backlog /\ (owner[f] = owner[g] => f = g \/ owner[f] = None)
  /\ \A c \in Client : phase[c] = "idle" => c \notin backlog /\ \A fd \in Fd : owner[fd] # c
  /\ sent \in [Client -> Nat] /\ spent \subseteq Client /\ crashed \in BOOLEAN
  /\ inbox \in [Client -> Seq(P)] /\ outbox \in [Client -> Seq(Q)] /\ got \in [Client -> Seq(Q)]

(***************************************************************************)
(* The events of any reactor.  An event stays true until it is handled     *)
(* because a batch names no descriptor twice, and what it reports is what  *)
(* is still watched for.                                                   *)
(***************************************************************************)
Watched ==
  /\ interest \in [Fd -> {{}, {"IN"}, {"OUT"}}]
  /\ \A fd \in Fd : interest[fd] = {} <=> owner[fd] = None

EvsOK ==
  /\ evs \in Seq([fd : Fd \cup {Listening}, e : {{"IN"}, {"OUT"}}])
  /\ \A j, k \in 1 .. Len(evs) : evs[j].fd = evs[k].fd => j = k
  /\ \A k \in 1 .. Len(evs) : evs[k].fd \in Fd => evs[k].e = interest[evs[k].fd]

ReactorInv(P, Q) == TcpHas(P, Q) /\ Watched /\ EvsOK /\ EventsHold

Assumed == None \notin Client /\ IsFiniteSet(Fd) /\ Fd \subseteq Nat \ {Listening} /\ Room \in Nat

\* After the event in hand is handled the others of the batch are still true,
\* if what was done concerns its descriptor only.
LEMMA RestHolds ==
  ASSUME Assumed, EvsOK, EventsHold, evs # <<>>, evs' = Tail(evs),
         Head(evs).fd # Listening => backlog' = backlog,
         \A f \in Fd : f # Head(evs).fd /\ owner[f] # None =>
            /\ owner'[f] # None /\ interest'[f] = interest[f]
            /\ (Readable(f) => Readable(f)') /\ (Writable(f) => Writable(f)')
  PROVE  EvsOK' /\ EventsHold'
<1> DEFINE x == Head(evs).fd  Event == [fd : Fd \cup {Listening}, e : {{"IN"}, {"OUT"}}]  t == Tail(evs)
<1>1. evs \in Seq(Event) /\ evs # <<>>
  BY DEF EvsOK
<1>2. /\ t \in Seq(Event) /\ \A k \in 1 .. Len(t) : t[k] = evs[k + 1]
      /\ \A k \in 1 .. Len(t) : k + 1 \in 1 .. Len(evs) /\ k + 1 # 1
      /\ Head(evs) = evs[1] /\ 1 \in 1 .. Len(evs)
      /\ \A j, k \in 1 .. Len(t) : j + 1 = k + 1 => j = k
  <2> HIDE DEF Event
  <2> QED
    BY <1>1
<1> HIDE DEF t
<1>3. \A k \in 1 .. Len(t) : t[k].fd # x
  BY <1>2 DEF EvsOK
<1>4. \A j, k \in 1 .. Len(t) : t[j].fd = t[k].fd => j = k
  <2> SUFFICES ASSUME NEW j \in 1 .. Len(t), NEW k \in 1 .. Len(t), t[j].fd = t[k].fd
               PROVE  j + 1 = k + 1
    BY <1>2
  <2> QED
    BY <1>2 DEF EvsOK
<1>5. ASSUME NEW k \in 1 .. Len(t), NEW f \in Fd, f = t[k].fd
      PROVE  /\ owner'[f] # None /\ t[k].e = interest'[f]
             /\ "IN" \in t[k].e => Readable(f)'
             /\ "OUT" \in t[k].e => Writable(f)'
  <2>1. t[k] = evs[k + 1] /\ k + 1 \in 1 .. Len(evs)
    BY <1>2
  <2>2. f # Listening
    BY DEF Assumed
  <2>3. /\ owner[f] # None /\ t[k].e = interest[f]
        /\ "IN" \in t[k].e => Readable(f)
        /\ "OUT" \in t[k].e => Writable(f)
    BY <1>5, <2>1, <2>2 DEF EvsOK, EventsHold
  <2> QED
    BY <1>3, <1>5, <2>3
<1>6. ASSUME NEW k \in 1 .. Len(t), t[k].fd = Listening
      PROVE  backlog' # {}
  <2>1. backlog # {} /\ x # Listening
    BY <1>2, <1>3, <1>6 DEF EventsHold
  <2> QED
    BY <2>1
<1>7. EvsOK'
  BY <1>2, <1>4, <1>5 DEF EvsOK, t
<1>8. EventsHold'
  <2>1. evs' = t /\ \A k \in 1 .. Len(t) : t[k].fd \in Fd \cup {Listening}
    <3>1. evs' = t
      BY DEF t
    <3> HIDE DEF Event
    <3>2. \A k \in 1 .. Len(t) : t[k] \in Event
      BY <1>2
    <3>3. \A v \in Event : v.fd \in Fd \cup {Listening}
      BY DEF Event
    <3> QED
      BY <3>1, <3>2, <3>3
  <2> SUFFICES ASSUME NEW k \in 1 .. Len(t), NEW f \in Fd \cup {Listening}, f = t[k].fd
               PROVE  IF f = Listening THEN backlog' # {}
                      ELSE /\ owner'[f] # None
                           /\ "IN" \in t[k].e => Readable(f)'
                           /\ "OUT" \in t[k].e => Writable(f)'
    BY <2>1 DEF EventsHold, Readable, Writable, Gone
  <2> QED
    BY <1>5, <1>6
<1> QED
  BY <1>7, <1>8

\* The event in hand: watching one thing at a time, it is the only one of its
\* record.
LEMMA InHandFacts ==
  ASSUME Assumed, NEW P, NEW Q, ReactorInv(P, Q), NEW fd \in Fd \cup {Listening}, NEW e \in {"IN", "OUT"}, Dispatch(fd, e)
  PROVE  /\ evs # <<>> /\ evs' = Tail(evs) /\ Head(evs).fd = fd /\ crashed = FALSE
         /\ fd = Listening => backlog # {}
         /\ fd # Listening => /\ fd \in Fd /\ interest[fd] = {e} /\ owner[fd] \in Client
                              /\ e = "IN" => Readable(fd)
                              /\ e = "OUT" => Writable(fd)
<1>1. evs # <<>> /\ crashed = FALSE /\ Head(evs).fd = fd /\ e \in Head(evs).e
  BY DEF Dispatch, ReactorInv, TcpHas
<1>2. Head(evs) = evs[1] /\ 1 \in 1 .. Len(evs) /\ evs[1].e \in {{"IN"}, {"OUT"}}
  <2> DEFINE Event == [fd : Fd \cup {Listening}, e : {{"IN"}, {"OUT"}}]
  <2>1. evs \in Seq(Event) /\ evs # <<>>
    BY <1>1 DEF ReactorInv, EvsOK
  <2> HIDE DEF Event
  <2>2. Head(evs) = evs[1] /\ 1 \in 1 .. Len(evs) /\ evs[1] \in Event
    BY <2>1
  <2> QED
    BY <2>2 DEF Event
<1>3. Head(evs).e = {e}
  BY <1>1, <1>2
<1>4. evs' = Tail(evs)
  BY <1>3 DEF Dispatch
<1>5. fd = Listening => backlog # {}
  BY <1>1, <1>2 DEF ReactorInv, EventsHold
<1>6. fd # Listening => /\ fd \in Fd /\ interest[fd] = {e} /\ owner[fd] \in Client
                        /\ e = "IN" => Readable(fd)
                        /\ e = "OUT" => Writable(fd)
  <2> HAVE fd # Listening
  <2>1. fd \in Fd /\ interest[fd] = {e}
    BY <1>1, <1>2, <1>3 DEF ReactorInv, EvsOK
  <2>2. owner[fd] \in Client
    BY <1>1, <1>2 DEF ReactorInv, EventsHold, TcpHas
  <2>3. /\ e = "IN" => Readable(fd)
        /\ e = "OUT" => Writable(fd)
    BY <1>1, <1>2, <1>3 DEF ReactorInv, EventsHold
  <2> QED
    BY <2>1, <2>2, <2>3
<1> QED
  BY <1>1, <1>4, <1>5, <1>6

\* There are finitely many events to report: one for each descriptor.
LEMMA EventsFinite ==
  ASSUME Assumed
  PROVE  IsFiniteSet(Events)
<1> DEFINE f == [v \in Events |-> v.fd]  All == Fd \cup {Listening}
<1>1. IsFiniteSet(All)
  BY FS_AddElement DEF Assumed
<1>2. f \in [Events -> All]
  BY DEF Events
<1>3. \A v, w \in Events : f[v] = f[w] => v = w
  BY DEF Events, Assumed
<1>4. f \in Injection(Events, All)
  BY <1>2, <1>3 DEF Injection, IsInjective
<1> QED
  BY <1>1, <1>4, FS_Injection
--------------------------------------------------------------------------------
\* epoll_wait reports what is true at that moment.
LEMMA BatchHolds ==
  ASSUME Assumed, Watched, epoll_wait
  PROVE  EvsOK' /\ EventsHold'
<1> DEFINE Event == [fd : Fd \cup {Listening}, e : {{"IN"}, {"OUT"}}]  D == 1 .. Cardinality(Events)
<1>1. UNCHANGED <<tcpVars, conn_list, interest>> /\ evs' \in SetToSeqs(Events)
  BY DEF epoll_wait
<1>2. \A v \in Events : /\ v \in Event /\ (v.fd = Listening => backlog # {})
                        /\ v.fd # Listening => /\ v.fd \in Fd /\ owner[v.fd] # None /\ v.e = interest[v.fd]
                                               /\ "IN" \in v.e => Readable(v.fd)
                                               /\ "OUT" \in v.e => Writable(v.fd)
  <2> SUFFICES ASSUME NEW v \in Events
               PROVE  /\ v \in Event /\ (v.fd = Listening => backlog # {})
                      /\ v.fd # Listening => /\ v.fd \in Fd /\ owner[v.fd] # None /\ v.e = interest[v.fd]
                                             /\ "IN" \in v.e => Readable(v.fd)
                                             /\ "OUT" \in v.e => Writable(v.fd)
    OBVIOUS
  <2>1. CASE v = [fd |-> Listening, e |-> {"IN"}] /\ backlog # {}
    BY <2>1
  <2>2. CASE \E f \in Fd : Reported(f) # {} /\ v = [fd |-> f, e |-> Reported(f)]
    <3>1. PICK f \in Fd : Reported(f) # {} /\ v = [fd |-> f, e |-> Reported(f)]
      BY <2>2
    <3>2. interest[f] \in {{}, {"IN"}, {"OUT"}} /\ Reported(f) \subseteq interest[f]
      BY DEF Watched, Reported
    <3>3. Reported(f) = interest[f] /\ Reported(f) \in {{"IN"}, {"OUT"}}
      BY <3>1, <3>2
    <3>4. /\ "IN" \in Reported(f) => Readable(f)
          /\ "OUT" \in Reported(f) => Writable(f)
      BY DEF Reported
    <3>5. owner[f] # None
      BY <3>2, <3>3 DEF Watched
    <3>6. v.fd = f /\ v.e = Reported(f) /\ f # Listening
      BY <3>1 DEF Assumed
    <3> QED
      BY <3>1, <3>3, <3>4, <3>5, <3>6
  <2> QED
    BY <2>1, <2>2 DEF Events
<1>3. \A v, w \in Events : v.fd = w.fd => v = w
  BY DEF Events, Assumed
<1>4. Cardinality(Events) \in Nat
  BY EventsFinite, FS_CardinalityType
<1>5. evs' \in [D -> Events] /\ \A j, k \in D : j # k => evs'[j] # evs'[k]
  BY <1>1 DEF SetToSeqs
<1>6. evs' \in Seq(Events) /\ Len(evs') = Cardinality(Events)
  BY <1>4, <1>5
<1>7. \A k \in 1 .. Len(evs') : evs'[k] \in Events
  BY <1>5, <1>6
<1>8. \A j, k \in 1 .. Len(evs') : evs'[j].fd = evs'[k].fd => j = k
  BY <1>3, <1>5, <1>6
<1> HIDE DEF D
<1>9. EvsOK'
  <2>1. evs' \in Seq(Event)
    <3>1. Events \subseteq Event
      BY <1>2
    <3> HIDE DEF Event
    <3> QED
      BY <1>6, <3>1
  <2>2. \A k \in 1 .. Len(evs') : evs'[k].fd \in Fd => evs'[k].e = interest'[evs'[k].fd]
    BY <1>1, <1>2, <1>7 DEF Assumed
  <2> QED
    BY <1>8, <2>1, <2>2 DEF EvsOK
<1>10. EventsHold'
  BY <1>1, <1>2, <1>7 DEF EventsHold, Readable, Writable, Gone, tcpVars
<1> QED
  BY <1>9, <1>10

\* What a client does is typed like everything else ...
LEMMA ClientTyped ==
  ASSUME Assumed, NEW P, NEW Q, TcpHas(P, Q), NEW c \in Client, NEW x \in P,
         Connect(c) \/ Read(c) \/ HangUp(c) \/ Send(c, x)
  PROVE  TcpHas(P, Q)'
<1>1. inbox[c] \in Seq(P) /\ outbox[c] \in Seq(Q) /\ got[c] \in Seq(Q) /\ <<>> \in Seq(Q)
  BY DEF TcpHas
<1>2. CASE Connect(c)
  BY <1>2 DEF TcpHas, Connect, Assumed
<1>3. CASE Read(c)
  <2> DEFINE after == got[c] \o outbox[c]
  <2>1. after \in Seq(Q)
    BY <1>1
  <2>2. /\ got' = [got EXCEPT ![c] = after] /\ outbox' = [outbox EXCEPT ![c] = <<>>]
        /\ UNCHANGED <<phase, backlog, owner, sent, inbox, spent, crashed>>
    BY <1>3 DEF Read
  <2> HIDE DEF after
  <2>3. got' \in [Client -> Seq(Q)] /\ outbox' \in [Client -> Seq(Q)]
    BY <1>1, <2>1, <2>2 DEF TcpHas
  <2> QED
    BY <2>2, <2>3 DEF TcpHas
<1>4. CASE HangUp(c)
  <2>1. outbox' \in [Client -> Seq(Q)]
    BY <1>1, <1>4 DEF TcpHas, HangUp
  <2> QED
    BY <1>4, <2>1 DEF TcpHas, HangUp
<1>5. CASE Send(c, x)
  <2> DEFINE after == Append(inbox[c], x)
  <2>1. after \in Seq(P)
    BY <1>1
  <2>2. inbox' = [inbox EXCEPT ![c] = after]
    BY <1>5 DEF Send
  <2> HIDE DEF after
  <2>3. inbox' \in [Client -> Seq(P)]
    BY <2>1, <2>2 DEF TcpHas
  <2> QED
    BY <1>5, <2>3 DEF TcpHas, Send
<1> QED
  BY <1>2, <1>3, <1>4, <1>5

\* ... and what could be read or written stays so.
LEMMA StaysReady ==
  ASSUME Assumed, NEW P, NEW Q, TcpHas(P, Q), NEW c \in Client, NEW x \in P,
         Connect(c) \/ Read(c) \/ HangUp(c) \/ Send(c, x),
         NEW fd \in Fd, owner[fd] # None
  PROVE  /\ owner'[fd] # None
         /\ Readable(fd) => Readable(fd)'
         /\ Writable(fd) => Writable(fd)'
<1>1. inbox[c] \in Seq(P) /\ Len(outbox[c]) \in Nat
  BY DEF TcpHas
<1>2. /\ owner' = owner
      /\ \A d \in Client \ {c} : phase'[d] = phase[d] /\ inbox'[d] = inbox[d] /\ outbox'[d] = outbox[d]
  BY DEF Connect, Read, HangUp, Send, TcpHas
<1>3. CASE owner[fd] # c
  <2>1. owner[fd] \in Client \ {c}
    BY <1>3 DEF TcpHas
  <2> QED
    BY <1>2, <2>1 DEF Readable, Writable, Gone
<1>4. CASE owner[fd] = c
  <2>1. ~Connect(c)
    BY <1>4 DEF TcpHas, Connect
  <2>2. CASE Read(c)
    <3>1. inbox' = inbox /\ outbox'[c] = <<>> /\ phase' = phase
      BY <2>2 DEF Read, TcpHas
    <3>2. Len(outbox[c]) < Room => Len(<<>>) < Room
      BY <1>1 DEF Assumed
    <3> QED
      BY <1>2, <1>4, <3>1, <3>2 DEF Readable, Writable, Gone
  <2>3. CASE HangUp(c)
    <3>1. Gone(c)'
      BY <2>3 DEF HangUp, Gone, TcpHas
    <3> QED
      BY <1>2, <1>4, <3>1 DEF Readable, Writable, Gone
  <2>4. CASE Send(c, x)
    <3>1. inbox'[c] = Append(inbox[c], x) /\ outbox' = outbox /\ phase' = phase
      BY <2>4 DEF Send, TcpHas
    <3>2. Len(Append(inbox[c], x)) = Len(inbox[c]) + 1 /\ Len(inbox[c]) \in Nat
      BY <1>1
    <3>3. Len(<<>>) = 0
      OBVIOUS
    <3>4. Append(inbox[c], x) # <<>>
      BY <3>2, <3>3
    <3>5. inbox'[c] # <<>>
      BY <3>1, <3>4
    <3> QED
      BY <1>2, <1>4, <3>1, <3>5 DEF Readable, Writable, Gone
  <2> QED
    BY <2>1, <2>2, <2>3, <2>4
<1> QED
  BY <1>3, <1>4

\* A batch names descriptors.
LEMMA EvsName ==
  ASSUME EvsOK
  PROVE  \A k \in 1 .. Len(evs) : evs[k].fd \in Fd \cup {Listening}
<1> DEFINE Event == [fd : Fd \cup {Listening}, e : {{"IN"}, {"OUT"}}]
<1>1. evs \in Seq(Event)
  BY DEF EvsOK
<1>2. \A v \in Event : v.fd \in Fd \cup {Listening}
  OBVIOUS
<1> HIDE DEF Event
<1>3. \A k \in 1 .. Len(evs) : evs[k] \in Event
  BY <1>1
<1> QED
  BY <1>2, <1>3

\* So an event that was true stays true whatever the clients do.
LEMMA ClientReactor ==
  ASSUME Assumed, NEW P, NEW Q, ReactorInv(P, Q), NEW c \in Client, NEW x \in P,
         Connect(c) \/ Read(c) \/ HangUp(c) \/ Send(c, x), UNCHANGED <<interest, evs>>
  PROVE  ReactorInv(P, Q)'
<1> USE DEF ReactorInv
<1>1. TcpHas(P, Q)'
  BY ClientTyped
<1>2. owner' = owner /\ backlog \subseteq backlog'
  BY DEF Connect, Read, HangUp, Send
<1>3. Watched' /\ EvsOK'
  BY <1>2 DEF Watched, EvsOK
<1>4. EventsHold'
  <2> SUFFICES ASSUME NEW k \in 1 .. Len(evs), NEW f \in Fd \cup {Listening}, f = evs[k].fd
               PROVE  IF f = Listening THEN backlog' # {}
                      ELSE /\ owner'[f] # None
                           /\ "IN" \in evs[k].e => Readable(f)'
                           /\ "OUT" \in evs[k].e => Writable(f)'
    BY EvsName DEF EventsHold, Readable, Writable, Gone
  <2> QED
    BY <1>2, StaysReady DEF EventsHold
<1> QED
  BY <1>1, <1>3, <1>4

--------------------------------------------------------------------------------
(***************************************************************************)
(* EchoReactor.                                                            *)
(***************************************************************************)
Piece == Client \X Nat

TcpOK == TcpHas(Piece, Piece)

ConnOK ==
  /\ conn_list \in [Fd -> [rbuffer : Seq(Piece), wbuffer : Seq(Piece), status : 0 .. 2]]
  /\ Watched

(***************************************************************************)
(* Where the pieces are that a client has sent: got back, on the way back, *)
(* in the buffer of its record while EPOLLOUT is watched, or not received  *)
(* yet, in that order; none is missing until the client is gone.           *)
(***************************************************************************)
Held(c) == Size(got[c]) + Size(outbox[c]) + Size(inbox[c])
InHand(fd) == IF interest[fd] = {"OUT"} THEN Size(conn_list[fd].wbuffer) ELSE 0

Accepted(c) == \E fd \in Fd : owner[fd] = c

\* A client that has left too early.
Rude(c) == Gone(c) /\ Size(got[c]) < sent[c]

ClientOK(c) ==
  /\ Numbered(got[c], c, 0) /\ Held(c) <= sent[c]
  /\ Gone(c) => outbox[c] = <<>>
  /\ ~Gone(c) => /\ Numbered(outbox[c], c, Size(got[c]))
                 /\ Numbered(inbox[c], c, sent[c] - Size(inbox[c]))
                 /\ ~Accepted(c) => Held(c) = sent[c]
  /\ phase[c] = "reset" \/ c \in spent => Rude(c)

ConnectionOK(fd, c) ==
  /\ Held(c) + InHand(fd) <= sent[c]
  /\ interest[fd] = {"OUT"} => InHand(fd) > 0
  /\ ~Gone(c) => /\ Held(c) + InHand(fd) = sent[c]
                 /\ interest[fd] = {"OUT"} =>
                      Numbered(conn_list[fd].wbuffer, c, Size(got[c]) + Size(outbox[c]))

PiecesOK ==
  /\ \A c \in Client : ClientOK(c)
  /\ \A fd \in Fd, c \in Client : owner[fd] = c => ConnectionOK(fd, c)

RudeCrash == crashed => \E c \in Client : Rude(c)

IInv == TcpOK /\ ConnOK /\ EvsOK /\ EventsHold /\ PiecesOK /\ RudeCrash

\* The sizes are numbers.
LEMMA SizesAreNat ==
  ASSUME TcpOK, NEW c \in Client
  PROVE  /\ Size(got[c]) \in Nat /\ Size(outbox[c]) \in Nat /\ Size(inbox[c]) \in Nat
         /\ Held(c) \in Nat /\ sent[c] \in Nat
<1>1. Size(got[c]) \in Nat /\ Size(outbox[c]) \in Nat /\ Size(inbox[c]) \in Nat /\ sent[c] \in Nat
  BY DEF TcpOK, TcpHas, Size
<1> QED
  BY <1>1 DEF Held

\* So is what is in hand.
LEMMA InHandIsNat ==
  ASSUME ConnOK, NEW fd \in Fd
  PROVE  InHand(fd) \in Nat
<1>1. Size(conn_list[fd].wbuffer) \in Nat
  BY DEF ConnOK, Watched, Size
<1> QED
  BY <1>1 DEF InHand

\* At the beginning nobody has sent anything.
LEMMA InitIInv ==
  ASSUME Assumed, Init
  PROVE  IInv
<1> USE DEF Init, ReactorInit, TcpInit
<1>1. <<>> \in Seq(Piece) /\ Size(<<>>) = 0 /\ \A c, n : Numbered(<<>>, c, n)
  BY DEF Size, Numbered
<1>2. TcpOK
  <2>1. inbox \in [Client -> Seq(Piece)] /\ outbox \in [Client -> Seq(Piece)] /\ got \in [Client -> Seq(Piece)]
    BY <1>1
  <2> QED
    BY <2>1 DEF TcpOK, TcpHas, Assumed
<1>3. ConnOK
  <2>1. Fresh \in [rbuffer : Seq(Piece), wbuffer : Seq(Piece), status : 0 .. 2]
    BY <1>1 DEF Fresh
  <2> QED
    BY <2>1 DEF ConnOK, Watched
<1>4. EvsOK /\ EventsHold
  BY DEF EvsOK, EventsHold
<1>5. PiecesOK
  <2>1. \A c \in Client : ClientOK(c)
    BY <1>1 DEF ClientOK, Held, Gone
  <2>2. \A fd \in Fd, c \in Client : owner[fd] # c
    BY DEF Assumed
  <2> QED
    BY <2>1, <2>2 DEF PiecesOK
<1>6. RudeCrash
  BY DEF RudeCrash
<1> QED
  BY <1>2, <1>3, <1>4, <1>5, <1>6 DEF IInv
\* Nothing changes for a client when nothing of it does ...
LEMMA ClientSame ==
  ASSUME NEW c \in Client, ClientOK(c),
         phase'[c] = phase[c], sent'[c] = sent[c], inbox'[c] = inbox[c], outbox'[c] = outbox[c], got'[c] = got[c],
         c \in spent' => c \in spent, Accepted(c) => Accepted(c)'
  PROVE  ClientOK(c)' /\ Held(c)' = Held(c) /\ (Gone(c)' <=> Gone(c)) /\ (Rude(c)' <=> Rude(c))
<1>1. Held(c)' = Held(c) /\ (Gone(c)' <=> Gone(c)) /\ (Rude(c)' <=> Rude(c))
  BY DEF Held, Gone, Rude
<1>2. ClientOK(c)'
  BY <1>1 DEF ClientOK, Numbered
<1> QED
  BY <1>1, <1>2

\* ... nor for its connection.
LEMMA ConnectionSame ==
  ASSUME NEW fd \in Fd, NEW c \in Client, ConnectionOK(fd, c),
         phase'[c] = phase[c], sent'[c] = sent[c], inbox'[c] = inbox[c], outbox'[c] = outbox[c], got'[c] = got[c],
         interest'[fd] = interest[fd], conn_list'[fd] = conn_list[fd]
  PROVE  ConnectionOK(fd, c)'
<1>1. Held(c)' = Held(c) /\ (Gone(c)' <=> Gone(c)) /\ InHand(fd)' = InHand(fd)
  BY DEF Held, Gone, InHand
<1> QED
  BY <1>1 DEF ConnectionOK, Numbered

\* epoll_wait changes nothing else.
LEMMA EpollWaitStep ==
  ASSUME Assumed, IInv, epoll_wait
  PROVE  IInv'
<1> USE DEF IInv
<1>1. UNCHANGED <<tcpVars, conn_list, interest>>
  BY DEF epoll_wait
<1>2. EvsOK' /\ EventsHold'
  BY BatchHolds DEF ConnOK
<1>3. TcpOK' /\ ConnOK'
  BY <1>1 DEF TcpOK, TcpHas, tcpVars, ConnOK, Watched
<1>4. PiecesOK'
  BY <1>1, ClientSame, ConnectionSame DEF PiecesOK, tcpVars, Accepted
<1>5. RudeCrash'
  BY <1>1 DEF RudeCrash, Rude, Gone, tcpVars
<1> QED
  BY <1>2, <1>3, <1>4, <1>5

\* What becomes of the pieces of a client when it does something.
LEMMA ClientActs ==
  ASSUME Assumed, TcpOK, NEW c \in Client, ClientOK(c),
         Connect(c) \/ Read(c) \/ HangUp(c) \/ Send(c, <<c, sent[c] + 1>>)
  PROVE  /\ TcpOK' /\ ClientOK(c)' /\ ~Gone(c) /\ UNCHANGED <<owner, spent, crashed>>
         /\ \A d \in Client \ {c} : /\ phase'[d] = phase[d] /\ sent'[d] = sent[d] /\ inbox'[d] = inbox[d]
                                    /\ outbox'[d] = outbox[d] /\ got'[d] = got[d]
         /\ \A n \in Nat : Held(c) + n = sent[c] =>
              /\ Held(c)' + n <= sent'[c]
              /\ ~Gone(c)' => Held(c)' + n = sent'[c]
         /\ ~Gone(c)' => Size(got[c])' + Size(outbox[c])' = Size(got[c]) + Size(outbox[c])
<1>2. /\ UNCHANGED <<owner, spent, crashed>>
      /\ \A d \in Client \ {c} : /\ phase'[d] = phase[d] /\ sent'[d] = sent[d] /\ inbox'[d] = inbox[d]
                                 /\ outbox'[d] = outbox[d] /\ got'[d] = got[d]
  BY DEF Connect, Read, HangUp, Send, TcpOK, TcpHas
<1>3. /\ phase[c] \in {"idle", "open"} /\ ~Gone(c) /\ c \notin spent
      /\ (Connect(c) => phase[c] = "idle") /\ (~Connect(c) => phase[c] = "open")
  <2>1. phase[c] \in {"idle", "open"} /\ (Connect(c) => phase[c] = "idle") /\ (~Connect(c) => phase[c] = "open")
    BY DEF Connect, Read, HangUp, Send
  <2>2. ~Gone(c)
    BY <2>1 DEF Gone
  <2> QED
    BY <2>1, <2>2 DEF ClientOK, Rude
<1>4. Size(<<>>) = 0 /\ <<>> \in Seq(Piece)
  BY DEF Size
<1>5. /\ Size(got[c]) \in Nat /\ Size(outbox[c]) \in Nat /\ Size(inbox[c]) \in Nat /\ sent[c] \in Nat
      /\ Held(c) = Size(got[c]) + Size(outbox[c]) + Size(inbox[c]) /\ Held(c) <= sent[c]
      /\ got[c] \in Seq(Piece) /\ outbox[c] \in Seq(Piece) /\ inbox[c] \in Seq(Piece)
      /\ Numbered(got[c], c, 0) /\ Numbered(outbox[c], c, Size(got[c]))
      /\ Numbered(inbox[c], c, sent[c] - Size(inbox[c]))
  BY <1>3, <1>4, SizesAreNat DEF TcpOK, TcpHas, ClientOK, Held
<1>1. TcpOK'
  <2>1. <<c, sent[c] + 1>> \in Piece
    BY <1>5 DEF Piece
  <2> QED
    BY <2>1, ClientTyped DEF TcpOK
<1>6. CASE Connect(c)
  <2>1. phase'[c] = "open" /\ UNCHANGED <<owner, sent, inbox, outbox, got, spent>>
    BY <1>6 DEF Connect, TcpOK, TcpHas
  <2>2. Held(c)' = Held(c) /\ ~Gone(c)' /\ (Accepted(c)' <=> Accepted(c))
    BY <2>1 DEF Gone, Held, Accepted
  <2>3. ClientOK(c)'
    BY <1>3, <2>1, <2>2 DEF ClientOK, Numbered
  <2> QED
    BY <1>1, <1>2, <1>3, <1>5, <2>1, <2>2, <2>3
<1>7. CASE Read(c)
  <2> DEFINE after == got[c] \o outbox[c]
  <2>1. after \in Seq(Piece) /\ Size(after) = Size(got[c]) + Size(outbox[c]) /\ Numbered(after, c, 0)
    <3>1. 0 + Size(got[c]) = Size(got[c])
      BY <1>5
    <3> QED
      BY <1>5, <3>1, NumberedConcat
  <2>2. /\ got' = [got EXCEPT ![c] = after] /\ outbox' = [outbox EXCEPT ![c] = <<>>]
        /\ UNCHANGED <<phase, backlog, owner, sent, inbox, spent, crashed>>
    BY <1>7 DEF Read
  <2> HIDE DEF after
  <2>3. got'[c] = after /\ outbox'[c] = <<>>
    BY <1>4, <2>1, <2>2 DEF TcpOK, TcpHas
  <2>5. Held(c)' = Held(c) /\ ~Gone(c)' /\ (Accepted(c)' <=> Accepted(c))
    BY <1>3, <1>4, <1>5, <2>1, <2>2, <2>3 DEF Held, Gone, Accepted
  <2>6. ClientOK(c)'
    <3>1. Numbered(outbox'[c], c, Size(got'[c])) /\ Numbered(got'[c], c, 0)
      BY <2>1, <2>3 DEF Numbered
    <3>2. Numbered(inbox'[c], c, sent'[c] - Size(inbox'[c]))
      BY <1>5, <2>2
    <3>3. c \notin spent' /\ phase'[c] = "open"
      BY <1>3, <1>7, <2>2 DEF Read
    <3> QED
      BY <1>3, <2>2, <2>5, <3>1, <3>2, <3>3 DEF ClientOK, Numbered
  <2>7. Size(got'[c]) + Size(outbox'[c]) = Size(got[c]) + Size(outbox[c])
    BY <1>4, <1>5, <2>1, <2>3
  <2> QED
    BY <1>1, <1>2, <1>3, <1>5, <2>2, <2>5, <2>6, <2>7
<1>8. CASE HangUp(c)
  <2>1. /\ phase' = [phase EXCEPT ![c] = IF outbox[c] = <<>> THEN "closed" ELSE "reset"]
        /\ outbox' = [outbox EXCEPT ![c] = <<>>]
        /\ UNCHANGED <<backlog, owner, sent, inbox, got, spent, crashed>>
    BY <1>8 DEF HangUp
  <2>2. outbox'[c] = <<>>
    BY <1>4, <2>1 DEF TcpOK, TcpHas
  <2>3. Gone(c)' /\ (phase'[c] = "reset" => outbox[c] # <<>>)
    BY <2>1 DEF Gone, TcpOK, TcpHas
  <2>4. Held(c)' <= Held(c) /\ Held(c)' \in Nat
    BY <1>4, <1>5, <2>1, <2>2 DEF Held
  <2>5. outbox[c] # <<>> => Size(got[c]) < sent[c]
    <3>1. outbox[c] # <<>> => Size(outbox[c]) > 0
      BY <1>5 DEF Size
    <3> QED
      BY <1>5, <3>1
  <2>6. ClientOK(c)'
    <3>1. Numbered(got'[c], c, 0) /\ Held(c)' <= sent'[c]
      BY <1>5, <2>1, <2>4 DEF Numbered
    <3>2. phase'[c] = "reset" \/ c \in spent' => Rude(c)'
      BY <1>3, <2>1, <2>3, <2>5 DEF Rude
    <3> QED
      BY <2>2, <2>3, <3>1, <3>2 DEF ClientOK
  <2>7. \A n \in Nat : Held(c) + n = sent[c] => Held(c)' + n <= sent'[c]
    BY <1>5, <2>1, <2>4
  <2> QED
    BY <1>1, <1>2, <1>3, <2>3, <2>6, <2>7
<1>9. CASE Send(c, <<c, sent[c] + 1>>)
  <2> DEFINE x == <<c, sent[c] + 1>>  after == Append(inbox[c], x)
  <2>1. after \in Seq(Piece) /\ Size(after) = Size(inbox[c]) + 1 /\ Numbered(after, c, sent[c] - Size(inbox[c]))
    <3>1. x \in Piece /\ x = <<c, (sent[c] - Size(inbox[c])) + Size(inbox[c]) + 1>> /\ sent[c] - Size(inbox[c]) \in Nat
      <4>1. (sent[c] - Size(inbox[c])) + Size(inbox[c]) + 1 = sent[c] + 1 /\ sent[c] - Size(inbox[c]) \in Nat
        BY <1>5
      <4> QED
        BY <1>5, <4>1 DEF Piece
    <3> HIDE DEF x
    <3> QED
      BY <1>5, <3>1, NumberedAppend, SMTT(30)
  <2>2. /\ sent' = [sent EXCEPT ![c] = @ + 1] /\ inbox' = [inbox EXCEPT ![c] = after]
        /\ UNCHANGED <<phase, backlog, owner, outbox, got, spent, crashed>>
    BY <1>9 DEF Send
  <2> HIDE DEF after
  <2>3. inbox'[c] = after /\ sent'[c] = sent[c] + 1
    BY <2>1, <2>2 DEF TcpOK, TcpHas
  <2>4. Held(c)' = Held(c) + 1 /\ ~Gone(c)' /\ (Accepted(c)' <=> Accepted(c))
    BY <1>3, <1>5, <2>1, <2>2, <2>3 DEF Held, Gone, Accepted
  <2>5. Held(c) \in Nat
    BY <1>5
  <2>6. ClientOK(c)'
    <3>1. sent'[c] - Size(inbox'[c]) = sent[c] - Size(inbox[c])
      BY <1>5, <2>1, <2>3
    <3>2. Numbered(inbox'[c], c, sent'[c] - Size(inbox'[c]))
      BY <2>1, <2>3, <3>1
    <3>3. Numbered(got'[c], c, 0) /\ Numbered(outbox'[c], c, Size(got'[c]))
      BY <1>5, <2>2 DEF Numbered
    <3>4. c \notin spent' /\ phase'[c] = "open"
      BY <1>3, <1>9, <2>2 DEF Send
    <3>5. Held(c)' <= sent'[c] /\ (~Accepted(c) => Held(c)' = sent'[c])
      BY <1>3, <1>5, <2>3, <2>4, <2>5 DEF ClientOK
    <3> QED
      BY <2>4, <3>2, <3>3, <3>4, <3>5 DEF ClientOK
  <2>7. ASSUME NEW n \in Nat, Held(c) + n = sent[c]
        PROVE  Held(c)' + n = sent'[c] /\ Held(c)' + n <= sent'[c]
    <3>1. (Held(c) + 1) + n = sent[c] + 1
      BY <1>5, <2>5, <2>7
    <3> QED
      BY <1>5, <2>3, <2>4, <3>1
  <2>8. got' = got /\ outbox' = outbox
    BY <2>2
  <2> QED
    BY <1>1, <1>2, <1>3, <2>6, <2>7, <2>8
<1> QED
  BY <1>6, <1>7, <1>8, <1>9

\* What a client does, to the whole state.
LEMMA ClientsStep ==
  ASSUME Assumed, IInv, Clients
  PROVE  IInv'
<1> USE DEF IInv
<1>1. PICK c \in Client :
        /\ Connect(c) \/ Read(c) \/ HangUp(c) \/ Send(c, <<c, sent[c] + 1>>)
        /\ UNCHANGED <<conn_list, interest, evs>>
  BY DEF Clients, reactorVars
<1>2. ClientOK(c)
  BY DEF PiecesOK
<1>3. /\ TcpOK' /\ ClientOK(c)' /\ ~Gone(c) /\ UNCHANGED <<owner, spent, crashed>>
      /\ \A d \in Client \ {c} : /\ phase'[d] = phase[d] /\ sent'[d] = sent[d] /\ inbox'[d] = inbox[d]
                                 /\ outbox'[d] = outbox[d] /\ got'[d] = got[d]
      /\ \A n \in Nat : Held(c) + n = sent[c] =>
           /\ Held(c)' + n <= sent'[c]
           /\ ~Gone(c)' => Held(c)' + n = sent'[c]
      /\ ~Gone(c)' => Size(got[c])' + Size(outbox[c])' = Size(got[c]) + Size(outbox[c])
  BY <1>1, <1>2, ClientActs
<1>4. ReactorInv(Piece, Piece)'
  <2>1. <<c, sent[c] + 1>> \in Piece
    BY DEF Piece, TcpOK, TcpHas
  <2> QED
    BY <1>1, <2>1, ClientReactor DEF ReactorInv, TcpOK, ConnOK
<1>5. ConnOK' /\ EvsOK' /\ EventsHold'
  BY <1>1, <1>4 DEF ConnOK, Watched, ReactorInv
<1>6. ASSUME NEW fd \in Fd, owner[fd] = c
      PROVE  ConnectionOK(fd, c)'
  <2>1. ConnectionOK(fd, c) /\ InHand(fd)' = InHand(fd) /\ InHand(fd) \in Nat
    BY <1>1, <1>6, InHandIsNat DEF PiecesOK, InHand
  <2>2. Held(c) + InHand(fd) = sent[c]
    BY <1>3, <2>1 DEF ConnectionOK
  <2>3. /\ Held(c)' + InHand(fd)' <= sent'[c]
        /\ ~Gone(c)' => Held(c)' + InHand(fd)' = sent'[c]
    BY <1>3, <2>1, <2>2
  <2> QED
    BY <1>1, <1>3, <2>1, <2>3 DEF ConnectionOK, Numbered
<1>7. PiecesOK'
  <2>1. \A d \in Client \ {c} : ClientOK(d)'
    BY <1>3, ClientSame DEF PiecesOK, Accepted
  <2>2. \A fd \in Fd, d \in Client \ {c} : owner[fd] = d => ConnectionOK(fd, d)'
    BY <1>1, <1>3, ConnectionSame DEF PiecesOK
  <2> QED
    BY <1>3, <1>6, <2>1, <2>2 DEF PiecesOK
<1>8. RudeCrash'
  <2>1. \A d \in Client : Rude(d) => d # c
    BY <1>3 DEF Rude
  <2>2. \A d \in Client \ {c} : Rude(d) => Rude(d)'
    BY <1>3 DEF Rude, Gone
  <2> QED
    BY <1>3, <2>1, <2>2 DEF RudeCrash
<1> QED
  BY <1>3, <1>5, <1>7, <1>8
--------------------------------------------------------------------------------
\* accept takes a client that waits, and its record is emptied.
LEMMA AcceptStep ==
  ASSUME Assumed, IInv, Dispatch(Listening, "IN"), accept_cb
  PROVE  IInv'
<1> USE DEF IInv
<1>1. evs # <<>> /\ evs' = Tail(evs) /\ Head(evs).fd = Listening /\ Listening \notin Fd
  BY InHandFacts DEF Assumed, ReactorInv, TcpOK, ConnOK
<1>2. CASE \E c \in Client, fd \in Fd : accept(c, fd) /\ event_register(fd)
  <2>1. PICK c \in Client, fd \in Fd : accept(c, fd) /\ event_register(fd)
    BY <1>2
  <2>2. /\ c \in backlog /\ backlog' = backlog \ {c} /\ owner[fd] = None /\ owner' = [owner EXCEPT ![fd] = c]
        /\ UNCHANGED <<phase, sent, inbox, outbox, got, spent, crashed>>
        /\ interest' = [interest EXCEPT ![fd] = {"IN"}]
    BY <2>1 DEF accept, event_register, set_event
  <2>3. /\ conn_list' \in [Fd -> [rbuffer : Seq(Piece), wbuffer : Seq(Piece), status : 0 .. 2]]
        /\ \A f \in Fd \ {fd} : conn_list'[f] = conn_list[f]
    <3>1. <<>> \in Seq(Piece)
      OBVIOUS
    <3> QED
      BY <2>1, <3>1 DEF ConnOK, Watched, event_register
  <2>4. /\ \A f \in Fd \ {fd} : owner'[f] = owner[f] /\ interest'[f] = interest[f]
        /\ owner'[fd] = c /\ interest'[fd] = {"IN"} /\ c # None
        /\ \A f \in Fd : owner[f] # c
    BY <2>2 DEF TcpOK, TcpHas, ConnOK, Watched, Assumed
  <2>5. TcpOK'
    BY <2>2, <2>4 DEF TcpOK, TcpHas
  <2>6. ConnOK'
    BY <2>2, <2>3, <2>4 DEF ConnOK, Watched
  <2>7. EvsOK' /\ EventsHold'
    <3>1. \A f \in Fd : owner[f] # None =>
            /\ owner'[f] # None /\ interest'[f] = interest[f]
            /\ (Readable(f) => Readable(f)') /\ (Writable(f) => Writable(f)')
      BY <2>2, <2>4 DEF Readable, Writable, Gone
    <3> QED
      BY <1>1, <3>1, RestHolds
  <2>8. \A d \in Client : ClientOK(d)'
    <3> SUFFICES ASSUME NEW d \in Client
                 PROVE  ClientOK(d)'
      OBVIOUS
    <3>1. Accepted(d) => Accepted(d)'
      BY <2>2, <2>4 DEF Accepted, Assumed
    <3> QED
      BY <2>2, <3>1, ClientSame DEF PiecesOK
  <2>9. ConnectionOK(fd, c)'
    <3>1. ClientOK(c) /\ ~Accepted(c) /\ Held(c)' = Held(c) /\ InHand(fd)' = 0 /\ (Gone(c)' <=> Gone(c))
      BY <2>2, <2>4 DEF PiecesOK, Accepted, Held, InHand, Gone
    <3>2. Held(c) <= sent[c] /\ Held(c) \in Nat /\ sent[c] \in Nat /\ (~Gone(c) => Held(c) = sent[c])
      BY <3>1, SizesAreNat DEF ClientOK
    <3> QED
      BY <2>2, <2>4, <3>1, <3>2 DEF ConnectionOK
  <2>10. \A f \in Fd \ {fd}, d \in Client : owner[f] = d => ConnectionOK(f, d)'
    BY <2>2, <2>3, <2>4, ConnectionSame DEF PiecesOK
  <2>11. PiecesOK'
    BY <2>4, <2>8, <2>9, <2>10 DEF PiecesOK
  <2>12. RudeCrash'
    BY <2>2 DEF RudeCrash, Rude, Gone
  <2> QED
    BY <2>5, <2>6, <2>7, <2>11, <2>12
<1>3. CASE UNCHANGED <<tcpVars, conn_list, interest>>
  <2>1. EvsOK' /\ EventsHold'
    BY <1>1, <1>3, RestHolds DEF tcpVars, Readable, Writable, Gone
  <2>2. TcpOK' /\ ConnOK' /\ RudeCrash'
    BY <1>3 DEF TcpOK, TcpHas, ConnOK, Watched, RudeCrash, Rude, Gone, tcpVars
  <2>3. PiecesOK'
    BY <1>3, ClientSame, ConnectionSame DEF PiecesOK, tcpVars, Accepted
  <2> QED
    BY <2>1, <2>2, <2>3
<1> QED
  BY <1>2, <1>3 DEF accept_cb

\* A callback concerns one descriptor and the client behind it.
LEMMA OneConcerned ==
  ASSUME Assumed, TcpOK, EvsOK, EventsHold, PiecesOK,
         NEW fd \in Fd, NEW c \in Client, owner[fd] = c,
         evs # <<>>, evs' = Tail(evs), Head(evs).fd = fd, backlog' = backlog,
         owner'[fd] \in {c, None}, spent' \subseteq spent \cup {c},
         \A f \in Fd \ {fd} : /\ owner'[f] = owner[f] /\ interest'[f] = interest[f]
                              /\ conn_list'[f] = conn_list[f],
         \A d \in Client \ {c} : /\ phase'[d] = phase[d] /\ sent'[d] = sent[d] /\ inbox'[d] = inbox[d]
                                 /\ outbox'[d] = outbox[d] /\ got'[d] = got[d],
         ClientOK(c)', owner'[fd] = c => ConnectionOK(fd, c)'
  PROVE  EvsOK' /\ EventsHold' /\ PiecesOK'
<1>1. \A f \in Fd \ {fd} : owner[f] # None => owner[f] \in Client \ {c}
  BY DEF TcpOK, TcpHas, Assumed
<1>2. EvsOK' /\ EventsHold'
  <2>1. \A f \in Fd : f # fd /\ owner[f] # None =>
          /\ owner'[f] # None /\ interest'[f] = interest[f]
          /\ (Readable(f) => Readable(f)') /\ (Writable(f) => Writable(f)')
    BY <1>1 DEF Readable, Writable, Gone
  <2> QED
    BY <2>1, RestHolds
<1>3. \A d \in Client \ {c} : ClientOK(d)'
  <2> SUFFICES ASSUME NEW d \in Client \ {c}
               PROVE  ClientOK(d)'
    OBVIOUS
  <2>1. Accepted(d) => Accepted(d)'
    BY DEF Accepted
  <2> QED
    BY <2>1, ClientSame DEF PiecesOK
<1>4. \A f \in Fd \ {fd}, d \in Client : owner'[f] = d => ConnectionOK(f, d)'
  <2> SUFFICES ASSUME NEW f \in Fd \ {fd}, NEW d \in Client, owner'[f] = d
               PROVE  ConnectionOK(f, d)'
    OBVIOUS
  <2>1. owner[f] = d /\ d # c
    BY <1>1 DEF Assumed
  <2> QED
    BY <2>1, ConnectionSame DEF PiecesOK
<1>5. PiecesOK'
  BY <1>3, <1>4 DEF PiecesOK, Assumed
<1> QED
  BY <1>2, <1>5

\* recv takes some of what has arrived; a connection that was closed is closed
\* here too, one that was reset is the end.
LEMMA RecvStep ==
  ASSUME Assumed, IInv, NEW fd \in Fd, Dispatch(fd, "IN"), recv_cb(fd)
  PROVE  IInv'
<1> USE DEF IInv
<1>1. /\ evs # <<>> /\ evs' = Tail(evs) /\ Head(evs).fd = fd /\ owner[fd] \in Client
      /\ interest[fd] = {"IN"} /\ InHand(fd) = 0
  <2>1. fd # Listening
    BY DEF Assumed
  <2> QED
    BY <2>1, InHandFacts DEF InHand, ReactorInv, TcpOK, ConnOK
<1>0. PICK c \in Client : owner[fd] = c
  BY <1>1
<1>2. ClientOK(c) /\ ConnectionOK(fd, c) /\ Accepted(c)
  BY <1>0 DEF PiecesOK, Accepted
<1>3. /\ Size(got[c]) \in Nat /\ Size(outbox[c]) \in Nat /\ Size(inbox[c]) \in Nat /\ sent[c] \in Nat
      /\ Held(c) = Size(got[c]) + Size(outbox[c]) + Size(inbox[c]) /\ Held(c) <= sent[c] /\ inbox[c] \in Seq(Piece)
  BY <1>2, SizesAreNat DEF TcpOK, TcpHas, ClientOK, Held
<1>4. ASSUME NEW n \in 1 .. Len(inbox[c]), recv(fd, n),
             conn_list' = [conn_list EXCEPT ![fd].rbuffer = Received(fd, n), ![fd].wbuffer = Received(fd, n)],
             set_event(fd, "OUT")
      PROVE  IInv'
  <2> DEFINE first == SubSeq(inbox[c], 1, n)  rest == SubSeq(inbox[c], n + 1, Len(inbox[c]))
  <2>1. /\ inbox' = [inbox EXCEPT ![c] = rest] /\ interest' = [interest EXCEPT ![fd] = {"OUT"}]
        /\ conn_list' = [conn_list EXCEPT ![fd].rbuffer = first, ![fd].wbuffer = first]
        /\ UNCHANGED <<phase, backlog, owner, sent, outbox, got, spent, crashed>>
    BY <1>0, <1>4 DEF recv, set_event, Received
  <2>2. /\ n \in Nat /\ n > 0 /\ n <= Size(inbox[c]) /\ first \in Seq(Piece) /\ Size(first) = n
        /\ rest \in Seq(Piece) /\ Size(rest) = Size(inbox[c]) - n
    <3>1. n \in Nat /\ n > 0 /\ n <= Size(inbox[c])
      BY <1>3 DEF Size
    <3>2. first \in Seq(Piece) /\ Size(first) = n /\ rest \in Seq(Piece) /\ Size(rest) = Size(inbox[c]) - n
      BY <1>3 DEF Size
    <3> QED
      BY <3>1, <3>2
  <2>3. ~Gone(c) => /\ Numbered(first, c, sent[c] - Size(inbox[c]))
                    /\ Numbered(rest, c, (sent[c] - Size(inbox[c])) + n)
    <3> HAVE ~Gone(c)
    <3>1. Numbered(inbox[c], c, sent[c] - Size(inbox[c]))
      BY <1>2 DEF ClientOK
    <3>2. sent[c] - Size(inbox[c]) \in Nat /\ n \in 0 .. Len(inbox[c])
      BY <1>3
    <3> QED
      BY <1>3, <3>1, <3>2, NumberedCut
  <2> HIDE DEF first, rest
  <2>4. /\ inbox' \in [Client -> Seq(Piece)] /\ inbox'[c] = rest
        /\ conn_list' \in [Fd -> [rbuffer : Seq(Piece), wbuffer : Seq(Piece), status : 0 .. 2]]
        /\ conn_list'[fd].wbuffer = first /\ interest'[fd] = {"OUT"}
    <3>1. inbox' \in [Client -> Seq(Piece)] /\ inbox'[c] = rest
      BY <2>1, <2>2 DEF TcpOK, TcpHas
    <3>2. interest'[fd] = {"OUT"}
      BY <2>1 DEF ConnOK, Watched
    <3>3. /\ conn_list' \in [Fd -> [rbuffer : Seq(Piece), wbuffer : Seq(Piece), status : 0 .. 2]]
          /\ conn_list'[fd].wbuffer = first
      <4> DEFINE Pieces == Seq(Piece)
      <4>1. first \in Pieces /\ conn_list \in [Fd -> [rbuffer : Pieces, wbuffer : Pieces, status : 0 .. 2]]
        BY <2>2 DEF ConnOK, Watched
      <4> HIDE DEF Pieces
      <4>2. /\ conn_list' \in [Fd -> [rbuffer : Pieces, wbuffer : Pieces, status : 0 .. 2]]
            /\ conn_list'[fd].wbuffer = first
        BY <2>1, <4>1
      <4> QED
        BY <4>2 DEF Pieces
    <3> QED
      BY <3>1, <3>2, <3>3
  <2>6. TcpOK'
    BY <2>1, <2>4 DEF TcpOK, TcpHas
  <2>7. ConnOK'
    BY <1>0, <2>1, <2>4 DEF ConnOK, Watched, Assumed
  <2>8. Held(c)' = Held(c) - n /\ InHand(fd)' = n /\ (Gone(c)' <=> Gone(c)) /\ sent'[c] = sent[c]
        /\ Held(c) \in Nat
    BY <1>3, <2>1, <2>2, <2>4 DEF Held, InHand, Gone
  <2>9. ClientOK(c)'
    <3>1. Numbered(got'[c], c, 0) /\ Held(c)' <= sent'[c] /\ Accepted(c)'
      <4>1. Numbered(got'[c], c, 0) /\ got' = got /\ owner' = owner
        BY <1>2, <2>1 DEF ClientOK, Numbered
      <4>2. Held(c)' <= sent'[c]
        BY <1>3, <2>2, <2>8
      <4>3. Accepted(c)'
        BY <1>0, <4>1 DEF Accepted
      <4> QED
        BY <4>1, <4>2, <4>3
    <3>2. sent'[c] - Size(inbox'[c]) = (sent[c] - Size(inbox[c])) + n
      BY <1>3, <2>1, <2>2, <2>4
    <3>3. ~Gone(c) => /\ Numbered(inbox'[c], c, sent'[c] - Size(inbox'[c]))
                      /\ Numbered(outbox'[c], c, Size(got'[c]))
      BY <1>2, <2>1, <2>3, <2>4, <3>2 DEF ClientOK, Numbered
    <3>4. (phase'[c] = "reset" \/ c \in spent' => Rude(c)') /\ (Gone(c) => outbox'[c] = <<>>)
      BY <1>2, <2>1 DEF ClientOK, Rude, Gone
    <3> QED
      BY <2>8, <3>1, <3>3, <3>4 DEF ClientOK
  <2>10. ConnectionOK(fd, c)'
    <3>1. Held(c)' + InHand(fd)' <= sent'[c] /\ (~Gone(c) => Held(c)' + InHand(fd)' = sent'[c])
      BY <1>1, <1>2, <1>3, <2>2, <2>8 DEF ConnectionOK
    <3>2. ~Gone(c) => sent[c] - Size(inbox[c]) = Size(got'[c]) + Size(outbox'[c])
      BY <1>1, <1>2, <1>3, <2>1 DEF ConnectionOK
    <3>3. ~Gone(c) => Numbered(first, c, Size(got'[c]) + Size(outbox'[c]))
      BY <2>3, <3>2
    <3>4. ~Gone(c) => Numbered(conn_list'[fd].wbuffer, c, Size(got'[c]) + Size(outbox'[c]))
      BY <2>4, <3>3
    <3> QED
      BY <2>2, <2>8, <3>1, <3>4 DEF ConnectionOK, Numbered
  <2>11. EvsOK' /\ EventsHold' /\ PiecesOK'
    <3>1. /\ \A f \in Fd \ {fd} : interest'[f] = interest[f] /\ conn_list'[f] = conn_list[f]
          /\ \A d \in Client \ {c} : inbox'[d] = inbox[d]
      BY <2>1 DEF ConnOK, Watched, TcpOK, TcpHas
    <3> QED
      BY <1>0, <1>1, <2>1, <2>9, <2>10, <3>1, OneConcerned
  <2>12. RudeCrash'
    BY <2>1 DEF RudeCrash, Rude, Gone
  <2> QED
    BY <2>6, <2>7, <2>11, <2>12
<1>5. CASE AtEnd(fd, "closed") /\ close_and_del(fd) /\ UNCHANGED conn_list
  <2>1. /\ Gone(c) /\ owner' = [owner EXCEPT ![fd] = None] /\ interest' = [interest EXCEPT ![fd] = {}]
        /\ UNCHANGED <<conn_list, phase, backlog, sent, inbox, outbox, got, spent, crashed>>
    BY <1>0, <1>5 DEF AtEnd, Gone, close_and_del, close
  <2>2. TcpOK'
    BY <2>1 DEF TcpOK, TcpHas, Assumed
  <2>3. ConnOK'
    BY <2>1 DEF ConnOK, Watched, TcpOK, TcpHas
  <2>4. ClientOK(c)'
    BY <1>2, <2>1 DEF ClientOK, Gone, Held, Numbered, Rude
  <2>5. EvsOK' /\ EventsHold' /\ PiecesOK'
    <3>1. /\ owner'[fd] = None
          /\ \A f \in Fd \ {fd} : owner'[f] = owner[f] /\ interest'[f] = interest[f]
      BY <2>1 DEF ConnOK, Watched, TcpOK, TcpHas
    <3>2. c # None
      BY <1>1 DEF Assumed
    <3> QED
      BY <1>0, <1>1, <2>1, <2>4, <3>1, <3>2, OneConcerned
  <2>6. RudeCrash'
    BY <2>1 DEF RudeCrash, Rude, Gone
  <2> QED
    BY <2>2, <2>3, <2>5, <2>6
<1>6. CASE AtEnd(fd, "reset") /\ Crash /\ UNCHANGED <<conn_list, interest>>
  <2>1. /\ phase[c] = "reset" /\ crashed' = TRUE
        /\ UNCHANGED <<conn_list, interest, phase, backlog, owner, sent, inbox, outbox, got, spent>>
    BY <1>0, <1>6 DEF AtEnd, Crash
  <2>2. TcpOK' /\ ConnOK'
    BY <2>1 DEF TcpOK, TcpHas, ConnOK, Watched
  <2>3. Rude(c)'
    BY <1>2, <2>1 DEF ClientOK, Rude, Gone
  <2>4. ClientOK(c)' /\ ConnectionOK(fd, c)'
    BY <1>2, <1>1, <2>1, ClientSame, ConnectionSame DEF Accepted
  <2>5. EvsOK' /\ EventsHold' /\ PiecesOK'
    BY <1>0, <1>1, <2>1, <2>4, OneConcerned
  <2> QED
    BY <1>1, <2>2, <2>3, <2>5 DEF RudeCrash
<1> QED
  BY <1>0, <1>4, <1>5, <1>6 DEF recv_cb

\* send gives back what is in the buffer; it is lost when the client is gone,
\* and the second time this may be the end.
LEMMA SendStep ==
  ASSUME Assumed, IInv, NEW fd \in Fd, Dispatch(fd, "OUT"), send_cb(fd)
  PROVE  IInv'
<1> USE DEF IInv
<1>1. /\ evs # <<>> /\ evs' = Tail(evs) /\ Head(evs).fd = fd /\ owner[fd] \in Client
      /\ interest[fd] = {"OUT"}
  <2>1. fd # Listening
    BY DEF Assumed
  <2> QED
    BY <2>1, InHandFacts DEF ReactorInv, TcpOK, ConnOK
<1>2. PICK c \in Client : owner[fd] = c
  BY <1>1
<1> DEFINE buf == conn_list[fd].wbuffer
<1>3. ClientOK(c) /\ ConnectionOK(fd, c) /\ Accepted(c)
  BY <1>2 DEF PiecesOK, Accepted
<1>4. /\ Size(got[c]) \in Nat /\ Size(outbox[c]) \in Nat /\ Size(inbox[c]) \in Nat /\ sent[c] \in Nat
      /\ Held(c) = Size(got[c]) + Size(outbox[c]) + Size(inbox[c]) /\ Held(c) \in Nat
      /\ Held(c) <= sent[c] /\ outbox[c] \in Seq(Piece)
  BY <1>3, SizesAreNat DEF TcpOK, TcpHas, ClientOK, Held
<1>5. buf \in Seq(Piece) /\ Size(buf) \in Nat /\ Size(buf) > 0 /\ Held(c) + Size(buf) <= sent[c]
  <2>1. buf \in Seq(Piece)
    BY DEF ConnOK, Watched
  <2> QED
    BY <1>1, <1>3, <2>1 DEF ConnectionOK, InHand, Size
<1>6. interest' = [interest EXCEPT ![fd] = {"IN"}] /\ interest'[fd] = {"IN"} /\ conn_list' = conn_list
  BY DEF send_cb, set_event, ConnOK, Watched
<1>7. InHand(fd)' = 0
  BY <1>6 DEF InHand
<1>8. \A f \in Fd \ {fd} : interest'[f] = interest[f] /\ conn_list'[f] = conn_list[f]
  BY <1>6 DEF ConnOK, Watched
<1>9. ASSUME owner' = owner
      PROVE  ConnOK'
  BY <1>2, <1>6, <1>9 DEF ConnOK, Watched, Assumed
<1>10. CASE /\ ~Gone(c) /\ outbox' = [outbox EXCEPT ![c] = @ \o buf]
            /\ UNCHANGED <<phase, backlog, owner, sent, inbox, got, spent, crashed>>
  <2> DEFINE after == outbox[c] \o buf
  <2>1. after \in Seq(Piece) /\ Size(after) = Size(outbox[c]) + Size(buf) /\ Numbered(after, c, Size(got[c]))
    <3>1. Numbered(outbox[c], c, Size(got[c])) /\ Numbered(buf, c, Size(got[c]) + Size(outbox[c]))
      BY <1>1, <1>3, <1>10 DEF ClientOK, ConnectionOK
    <3> HIDE DEF buf
    <3> QED
      BY <1>4, <1>5, <3>1, NumberedConcat
  <2> HIDE DEF after, buf
  <2>2. outbox' \in [Client -> Seq(Piece)] /\ outbox'[c] = after
    BY <1>10, <2>1 DEF TcpOK, TcpHas, after
  <2>3. TcpOK'
    BY <1>10, <2>2 DEF TcpOK, TcpHas
  <2>4. /\ Held(c)' = Held(c) + Size(buf) /\ Held(c)' <= sent'[c] /\ ~Gone(c)'
    <3>1. UNCHANGED <<phase, sent, inbox, got>> /\ ~Gone(c)
      BY <1>10
    <3>2. Held(c)' = Held(c) + Size(buf)
      BY <1>4, <1>5, <2>1, <2>2, <3>1 DEF Held
    <3> QED
      BY <1>4, <1>5, <3>1, <3>2 DEF Gone
  <2>5. ClientOK(c)'
    <3>1. Numbered(got'[c], c, 0) /\ Numbered(outbox'[c], c, Size(got'[c]))
      BY <1>3, <1>10, <2>1, <2>2 DEF ClientOK, Numbered
    <3>2. Numbered(inbox'[c], c, sent'[c] - Size(inbox'[c]))
      BY <1>3, <1>10 DEF ClientOK, Numbered
    <3>3. Accepted(c)' /\ ~(phase'[c] = "reset") /\ c \notin spent'
      BY <1>3, <1>10 DEF ClientOK, Rude, Gone, Accepted
    <3> QED
      BY <2>4, <3>1, <3>2, <3>3 DEF ClientOK
  <2>6. ConnectionOK(fd, c)'
    <3>1. Held(c) + Size(buf) = sent[c]
      BY <1>1, <1>3, <1>10 DEF ConnectionOK, InHand, buf
    <3>2. Held(c)' + 0 = sent'[c] /\ Held(c)' + 0 <= sent'[c]
      BY <1>4, <1>5, <1>10, <2>4, <3>1
    <3> QED
      BY <1>6, <1>7, <2>4, <3>2 DEF ConnectionOK
  <2>7. EvsOK' /\ EventsHold' /\ PiecesOK'
    <3>1. \A d \in Client \ {c} : outbox'[d] = outbox[d]
      BY <1>10 DEF TcpOK, TcpHas
    <3> QED
      BY <1>1, <1>2, <1>8, <1>10, <2>5, <2>6, <3>1, OneConcerned
  <2>8. RudeCrash'
    BY <1>10 DEF RudeCrash, Rude, Gone
  <2> QED
    BY <1>9, <1>10, <2>3, <2>7, <2>8
<1>11. CASE /\ Gone(c) /\ spent' = spent \cup {c}
            /\ UNCHANGED <<phase, backlog, owner, sent, inbox, outbox, got, crashed>>
  <2> HIDE DEF buf
  <2>1. TcpOK' /\ ConnOK'
    BY <1>9, <1>11 DEF TcpOK, TcpHas
  <2>2. Held(c)' = Held(c) /\ Gone(c)' /\ Rude(c)'
    BY <1>4, <1>5, <1>11 DEF Held, Gone, Rude
  <2>3. ClientOK(c)' /\ ConnectionOK(fd, c)'
    <3>1. ClientOK(c)'
      BY <1>3, <1>11, <2>2 DEF ClientOK, Numbered
    <3>2. Held(c)' + 0 <= sent'[c]
      BY <1>4, <1>11, <2>2
    <3> QED
      BY <1>6, <1>7, <2>2, <3>1, <3>2 DEF ConnectionOK
  <2>4. EvsOK' /\ EventsHold' /\ PiecesOK'
    BY <1>1, <1>2, <1>8, <1>11, <2>3, OneConcerned
  <2>5. RudeCrash'
    BY <1>11 DEF RudeCrash, Rude, Gone
  <2> QED
    BY <2>1, <2>4, <2>5
<1>12. CASE c \in spent /\ Crash
  <2>1. crashed' = TRUE /\ UNCHANGED <<phase, backlog, owner, sent, inbox, outbox, got, spent>>
    BY <1>12 DEF Crash
  <2> HIDE DEF buf
  <2>2. TcpOK' /\ ConnOK'
    BY <1>9, <2>1 DEF TcpOK, TcpHas
  <2>3. Held(c)' = Held(c) /\ Gone(c) /\ Gone(c)' /\ Rude(c)'
    BY <1>3, <1>12, <2>1 DEF Held, Gone, Rude, ClientOK
  <2>4. ClientOK(c)' /\ ConnectionOK(fd, c)'
    <3>1. ClientOK(c)'
      BY <1>3, <2>1, <2>3 DEF ClientOK, Numbered
    <3>2. Held(c)' + 0 <= sent'[c]
      BY <1>4, <2>1, <2>3
    <3> QED
      BY <1>6, <1>7, <2>3, <3>1, <3>2 DEF ConnectionOK
  <2>5. EvsOK' /\ EventsHold' /\ PiecesOK'
    BY <1>1, <1>2, <1>8, <2>1, <2>4, OneConcerned
  <2> QED
    BY <2>2, <2>3, <2>5 DEF RudeCrash
<1> QED
  BY <1>2, <1>10, <1>11, <1>12 DEF send_cb, send

\* Every step.
LEMMA NextIInv ==
  ASSUME Assumed, IInv, [Next]_vars
  PROVE  IInv'
<1>1. CASE main
  BY <1>1, EpollWaitStep, AcceptStep, RecvStep, SendStep DEF main
<1>2. CASE Clients
  BY <1>2, ClientsStep
<1>3. CASE UNCHANGED vars
  <2>1. EvsOK' /\ EventsHold'
    BY <1>3 DEF IInv, EvsOK, EventsHold, Readable, Writable, Gone, vars, tcpVars, reactorVars
  <2>2. TcpOK' /\ ConnOK' /\ RudeCrash'
    BY <1>3 DEF IInv, TcpOK, TcpHas, ConnOK, Watched, RudeCrash, Rude, Gone, vars, tcpVars, reactorVars
  <2>3. PiecesOK'
    BY <1>3, ClientSame, ConnectionSame DEF IInv, PiecesOK, vars, tcpVars, reactorVars, Accepted
  <2> QED
    BY <2>1, <2>2, <2>3 DEF IInv
<1> QED
  BY <1>1, <1>2, <1>3 DEF Next
--------------------------------------------------------------------------------
\* What the invariant is for.
LEMMA IInvTypeOK ==
  ASSUME IInv
  PROVE  TypeOK
<1>1. \A k \in 1 .. Len(evs) : evs[k].fd \in Fd \cup {Listening}
  <2> DEFINE Event == [fd : Fd \cup {Listening}, e : {{"IN"}, {"OUT"}}]
  <2>1. evs \in Seq(Event)
    BY DEF IInv, EvsOK
  <2>2. \A v \in Event : v.fd \in Fd \cup {Listening}
    OBVIOUS
  <2> HIDE DEF Event
  <2> QED
    BY <2>1, <2>2
<1>2. DOMAIN conn_list = Fd /\ \A fd \in Fd : conn_list[fd].status \in 0 .. 2
  <2> DEFINE Pieces == Seq(Piece)
  <2>1. conn_list \in [Fd -> [rbuffer : Pieces, wbuffer : Pieces, status : 0 .. 2]]
    BY DEF IInv, ConnOK, Watched
  <2> HIDE DEF Pieces
  <2> QED
    BY <2>1
<1>3. /\ interest \in [Fd -> {{}, {"IN"}, {"OUT"}}]
      /\ \A fd \in Fd : (interest[fd] = {}) = (owner[fd] = None)
  BY DEF IInv, ConnOK, Watched
<1>4. TcpTypeOK
  BY DEF IInv, TcpOK, TcpHas, TcpTypeOK
<1> QED
  BY <1>1, <1>2, <1>3, <1>4 DEF TypeOK, ReactorTypeOK

\* What has been sent back is the beginning of what was sent: for a client
\* that is gone only what it has read counts.
LEMMA EchoesRight ==
  ASSUME TcpOK, \A c \in Client : ClientOK(c)
  PROVE  RightAnswers
<1> SUFFICES ASSUME NEW c \in Client
             PROVE  IsPrefix(got[c] \o outbox[c], Echo(c))
  BY DEF RightAnswers
<1> DEFINE s == got[c] \o outbox[c]
<1>1. /\ ClientOK(c) /\ got[c] \in Seq(Piece) /\ outbox[c] \in Seq(Piece) /\ sent[c] \in Nat
      /\ Size(got[c]) \in Nat /\ Size(outbox[c]) \in Nat /\ Size(inbox[c]) \in Nat
      /\ Held(c) = Size(got[c]) + Size(outbox[c]) + Size(inbox[c]) /\ Held(c) <= sent[c]
  BY SizesAreNat DEF TcpOK, TcpHas, ClientOK, Held
<1>2. Numbered(got[c], c, 0) /\ Numbered(outbox[c], c, 0 + Size(got[c]))
  <2>1. 0 + Size(got[c]) = Size(got[c])
    BY <1>1
  <2>2. CASE Gone(c)
    BY <1>1, <2>2 DEF ClientOK, Numbered
  <2>3. CASE ~Gone(c)
    BY <1>1, <2>1, <2>3 DEF ClientOK
  <2> QED
    BY <2>2, <2>3, <1>1 DEF ClientOK
<1>3. s \in Seq(Piece) /\ Size(s) = Size(got[c]) + Size(outbox[c]) /\ Numbered(s, c, 0)
  BY <1>1, <1>2, NumberedConcat
<1> HIDE DEF s
<1>4. Size(s) \in Nat /\ Size(s) <= sent[c]
  BY <1>1, <1>3
<1>5. Len(s) \in Nat /\ Len(s) <= sent[c]
  BY <1>4 DEF Size
<1>6. Echo(c) \in Seq(Client \X Nat) /\ Len(Echo(c)) = sent[c] /\ \A k \in 1 .. sent[c] : Echo(c)[k] = <<c, k>>
  BY <1>1 DEF Echo
<1>7. SubSeq(s, 1, Len(s)) = SubSeq(Echo(c), 1, Len(s))
  <2>1. \A k \in 1 .. Len(s) : s[k] = Echo(c)[k]
    <3> SUFFICES ASSUME NEW k \in 1 .. Len(s)
                 PROVE  s[k] = Echo(c)[k]
      OBVIOUS
    <3>1. s[k] = <<c, 0 + k>> /\ 0 + k = k
      BY <1>3 DEF Numbered
    <3>2. Echo(c)[k] = <<c, k>>
      BY <1>1, <1>5 DEF Echo
    <3> QED
      BY <3>1, <3>2
  <2> QED
    BY <1>3, <1>5, <1>6, <2>1
<1>8. IsPrefix(s, Echo(c))
  BY <1>5, <1>6, <1>7 DEF IsPrefix
<1> QED
  BY <1>8 DEF s

\* Only a client that left before it had read everything is the end.
LEMMA IInvRude ==
  ASSUME IInv
  PROVE  OnlyRudeCrash
<1>1. ASSUME crashed
      PROVE  \E c \in Client : Gone(c) /\ Len(got[c]) < sent[c]
  <2>1. PICK c \in Client : Gone(c) /\ Size(got[c]) < sent[c]
    BY <1>1 DEF IInv, RudeCrash, Rude
  <2>2. Len(got[c]) < sent[c]
    BY <2>1 DEF Size
  <2> QED
    BY <2>1, <2>2
<1> QED
  BY <1>1 DEF OnlyRudeCrash
--------------------------------------------------------------------------------
\* The invariant holds in every behaviour.
THEOREM IInvHolds ==
  ASSUME Assumed
  PROVE  Spec => []IInv
<1>1. Init => IInv
  BY InitIInv
<1>2. IInv /\ [Next]_vars => IInv'
  BY NextIInv
<1> QED
  BY <1>1, <1>2, PTL DEF Spec

\* No callback of the echo server is called for an event that holds no longer:
\* recv and accept find what they need, no descriptor was closed and given away
\* since epoll_wait.
THEOREM CallbacksOfTrueEvents ==
  ASSUME None \notin Client, IsFiniteSet(Fd), Fd \subseteq Nat \ {Listening}, Room \in Nat
  PROVE  Spec => [](TypeOK /\ EventsHold)
<1>1. IInv => TypeOK /\ EventsHold
  BY IInvTypeOK DEF IInv
<1> QED
  BY <1>1, IInvHolds, PTL DEF Assumed

\* Every client gets back the pieces it sent, in their order and nothing else,
\* however they were cut and put together on their way through the buffers.
THEOREM EverythingInOrder ==
  ASSUME None \notin Client, IsFiniteSet(Fd), Fd \subseteq Nat \ {Listening}, Room \in Nat
  PROVE  Spec => []RightAnswers
<1>1. IInv => RightAnswers
  BY EchoesRight DEF IInv, PiecesOK
<1> QED
  BY <1>1, IInvHolds, PTL DEF Assumed

\* A copy of (size_t)-1 bytes or a second write to a lost connection ends the
\* server only when a client left before it had read everything.
THEOREM RudeClientsOnly ==
  ASSUME None \notin Client, IsFiniteSet(Fd), Fd \subseteq Nat \ {Listening}, Room \in Nat
  PROVE  Spec => []OnlyRudeCrash
<1>1. IInv => OnlyRudeCrash
  BY IInvRude
<1> QED
  BY <1>1, IInvHolds, PTL DEF Assumed
--------------------------------------------------------------------------------
(***************************************************************************)
(* PollServer.  What poll reports is used in one turn of the loop, which   *)
(* closes a descriptor only after it has passed it and accepts before it   *)
(* looks at any connection: so a report that is still to be used is about  *)
(* the connection it was made for.  No piece is in hand between two steps. *)
(***************************************************************************)
PollOK ==
  /\ watched \subseteq Fd \cup {0} /\ maxfd \in Fd \cup {0} /\ revents \subseteq 0 .. maxfd /\ i \in Int
  /\ i = -1 \/ i \in 0 .. maxfd + 1

ReportsTrue ==
  \A fd \in revents : i <= fd /\ i # -1 => IF fd = 0 THEN backlog # {} ELSE Readable(fd)

AllThere(c) == ClientOK(c) /\ (~Gone(c) => Held(c) = sent[c])

PollInv == TcpOK /\ PollOK /\ ReportsTrue /\ \A c \in Client : AllThere(c)

PollAssumed(N) == None \notin Client /\ N \in Nat /\ Fd = 1 .. N /\ Room \in Nat

\* Nothing has been sent, and the first thing to do is to poll.
LEMMA InitPollInv ==
  ASSUME NEW N, PollAssumed(N), Poll!Init
  PROVE  PollInv
<1> USE DEF Poll!Init, Poll!TcpInit
<1>1. <<>> \in Seq(Piece) /\ Size(<<>>) = 0 /\ \A c, n : Numbered(<<>>, c, n)
  BY DEF Size, Numbered
<1>2. TcpOK
  <2>1. inbox \in [Client -> Seq(Piece)] /\ outbox \in [Client -> Seq(Piece)] /\ got \in [Client -> Seq(Piece)]
    BY <1>1
  <2> QED
    BY <2>1 DEF TcpOK, TcpHas, PollAssumed, Poll!None, None
<1>3. PollOK /\ ReportsTrue
  BY DEF PollOK, ReportsTrue, Poll!Listening, Poll!Polling
<1>4. \A c \in Client : AllThere(c)
  BY <1>1 DEF AllThere, ClientOK, Held, Gone
<1> QED
  BY <1>2, <1>3, <1>4 DEF PollInv

\* What a client does: nothing that was reported is taken back.
LEMMA ClientsPollInv ==
  ASSUME NEW N, PollAssumed(N), PollInv, Poll!Clients
  PROVE  PollInv'
<1> USE DEF PollInv
<1>1. PICK c \in Client :
        /\ Connect(c) \/ Read(c) \/ HangUp(c) \/ Send(c, <<c, sent[c] + 1>>)
        /\ UNCHANGED <<watched, maxfd, revents, i>>
  BY DEF Poll!Clients, Poll!pollVars, Poll!Connect, Connect, Poll!Read, Read, Poll!HangUp, HangUp,
         Poll!Send, Send
<1>2. Assumed
  BY FS_Interval DEF PollAssumed, Assumed, Listening
<1>3. ClientOK(c) /\ AllThere(c)
  BY DEF AllThere
<1>4. /\ TcpOK' /\ ClientOK(c)' /\ ~Gone(c) /\ UNCHANGED <<owner, spent, crashed>>
      /\ \A d \in Client \ {c} : /\ phase'[d] = phase[d] /\ sent'[d] = sent[d] /\ inbox'[d] = inbox[d]
                                 /\ outbox'[d] = outbox[d] /\ got'[d] = got[d]
      /\ \A n \in Nat : Held(c) + n = sent[c] =>
           /\ Held(c)' + n <= sent'[c]
           /\ ~Gone(c)' => Held(c)' + n = sent'[c]
  BY <1>1, <1>2, <1>3, ClientActs
<1>5. AllThere(c)'
  <2>1. Held(c) \in Nat /\ Held(c)' \in Nat /\ sent[c] \in Nat /\ sent'[c] \in Nat
    <3>1. Size(got[c])' \in Nat /\ Size(outbox[c])' \in Nat /\ Size(inbox[c])' \in Nat /\ sent'[c] \in Nat
      BY <1>4 DEF TcpOK, TcpHas, Size
    <3>2. Held(c)' \in Nat
      BY <3>1 DEF Held
    <3> QED
      BY <3>1, <3>2, SizesAreNat
  <2>2. Held(c) + 0 = sent[c]
    BY <1>3, <1>4, <2>1 DEF AllThere
  <2>3. ~Gone(c)' => Held(c)' + 0 = sent'[c]
    BY <1>4, <2>2
  <2> QED
    BY <1>4, <2>1, <2>3 DEF AllThere
<1>6. \A d \in Client \ {c} : AllThere(d)'
  BY <1>4, ClientSame DEF AllThere, Accepted
<1>7. PollOK'
  BY <1>1 DEF PollOK
<1>8. ReportsTrue'
  <2> SUFFICES ASSUME NEW fd \in revents, i <= fd, i # -1
               PROVE  IF fd = 0 THEN backlog' # {} ELSE Readable(fd)'
    BY <1>1 DEF ReportsTrue
  <2>1. backlog \subseteq backlog' /\ <<c, sent[c] + 1>> \in Piece
    <3>1. sent[c] \in Nat
      BY DEF TcpOK, TcpHas
    <3>2. <<c, sent[c] + 1>> \in Piece
      BY <3>1 DEF Piece
    <3>3. backlog \subseteq backlog'
      BY <1>1 DEF Connect, Read, HangUp, Send
    <3> QED
      BY <3>2, <3>3
  <2>2. ASSUME fd # 0
        PROVE  fd \in Fd
    BY <2>2 DEF PollOK, PollAssumed
  <2>3. ASSUME fd # 0
        PROVE  Readable(fd)'
    <3>1. Readable(fd) /\ owner[fd] # None /\ fd \in Fd
      BY <2>2, <2>3 DEF ReportsTrue, Readable
    <3> QED
      BY <1>1, <1>2, <2>1, <3>1, StaysReady DEF TcpOK
  <2> QED
    BY <2>1, <2>3 DEF ReportsTrue
<1> QED
  BY <1>4, <1>5, <1>6, <1>7, <1>8

\* poll reports what is there.
LEMMA PollPollInv ==
  ASSUME NEW N, PollAssumed(N), PollInv, Poll!poll
  PROVE  PollInv'
<1> USE DEF PollInv
<1> DEFINE ready == {fd \in watched : fd <= maxfd /\ Poll!HasInput(fd)}
<1>1. /\ revents' = ready \cup {fd \in revents : fd > maxfd} /\ i' = 0
      /\ UNCHANGED <<phase, backlog, owner, sent, inbox, outbox, got, spent, crashed, watched, maxfd>>
  BY DEF Poll!poll, Poll!Listening, Poll!tcpVars
<1>2. maxfd \in Nat /\ watched \subseteq Nat /\ \A fd \in revents : ~(fd > maxfd)
  BY DEF PollOK, PollAssumed
<1>3. revents' = ready
  BY <1>1, <1>2
<1>4. PollOK'
  <2>1. \A f \in revents' : f \in Nat /\ f <= maxfd
    BY <1>2, <1>3
  <2>2. revents' \subseteq 0 .. maxfd
    BY <1>2, <2>1
  <2> QED
    BY <1>1, <1>2, <2>2 DEF PollOK
<1>5. ReportsTrue'
  BY <1>1, <1>3 DEF ReportsTrue, Poll!HasInput, Poll!Listening, Poll!Readable, Readable, Poll!Gone, Gone, Poll!None, None
<1>6. TcpOK' /\ \A c \in Client : AllThere(c)'
  BY <1>1, ClientSame DEF TcpOK, TcpHas, AllThere, Accepted
<1> QED
  BY <1>4, <1>5, <1>6

\* accept takes a descriptor that is free, and so has not been reported.
LEMMA AcceptPollInv ==
  ASSUME NEW N, PollAssumed(N), PollInv, Poll!LookAtListening
  PROVE  PollInv'
<1> USE DEF PollInv
<1>1. i = 0 /\ i' = 1 /\ revents' = revents
  BY DEF Poll!LookAtListening, Poll!Listening
<1>2. CASE \E c \in Client, fd \in Fd :
             /\ Poll!accept(c, fd) /\ watched' = watched \cup {fd} /\ maxfd' = Poll!MaxFd(fd)
  <2>1. PICK c \in Client, fd \in Fd :
          /\ Poll!accept(c, fd) /\ watched' = watched \cup {fd} /\ maxfd' = Poll!MaxFd(fd)
    BY <1>2
  <2>2. /\ c \in backlog /\ backlog' = backlog \ {c} /\ owner[fd] = None /\ owner' = [owner EXCEPT ![fd] = c]
        /\ UNCHANGED <<phase, sent, inbox, outbox, got, spent, crashed>>
        /\ maxfd' = IF fd > maxfd THEN fd ELSE maxfd
    BY <2>1 DEF Poll!accept, Poll!MaxFd, Poll!None, None
  <2>3. /\ \A f \in Fd \ {fd} : owner'[f] = owner[f]
        /\ owner'[fd] = c /\ c # None /\ \A f \in Fd : owner[f] # c
    BY <2>2 DEF TcpOK, TcpHas, PollAssumed
  <2>4. TcpOK'
    BY <2>2, <2>3 DEF TcpOK, TcpHas
  <2>5. PollOK'
    BY <1>1, <2>1, <2>2 DEF PollOK, PollAssumed
  <2>6. ReportsTrue'
    <3> SUFFICES ASSUME NEW f \in revents, 1 <= f
                 PROVE  Readable(f)'
      BY <1>1 DEF ReportsTrue
    <3>1. f \in Fd /\ Readable(f)
      BY <1>1 DEF ReportsTrue, PollOK, PollAssumed
    <3>2. f # fd
      BY <2>2, <3>1 DEF Readable
    <3> QED
      BY <2>2, <2>3, <3>1, <3>2 DEF Readable, Gone
  <2>7. ASSUME NEW d \in Client
        PROVE  AllThere(d)'
    <3>1. Accepted(d) => Accepted(d)'
      BY <2>2, <2>3 DEF Accepted, PollAssumed
    <3> QED
      BY <2>2, <3>1, ClientSame DEF AllThere
  <2> QED
    BY <2>4, <2>5, <2>6, <2>7
<1>3. CASE UNCHANGED <<Poll!tcpVars, watched, maxfd>> /\ 0 \notin revents
  <2>1. UNCHANGED <<phase, backlog, owner, sent, inbox, outbox, got, spent, crashed, watched, maxfd>>
    BY <1>3 DEF Poll!tcpVars
  <2>2. TcpOK' /\ \A c \in Client : AllThere(c)'
    BY <2>1, ClientSame DEF TcpOK, TcpHas, AllThere, Accepted
  <2>3. PollOK'
    BY <1>1, <2>1 DEF PollOK, PollAssumed
  <2>4. ReportsTrue'
    <3> SUFFICES ASSUME NEW f \in revents, 1 <= f
                 PROVE  Readable(f)'
      BY <1>1 DEF ReportsTrue
    <3> QED
      BY <1>1, <2>1 DEF ReportsTrue, PollOK, PollAssumed, Readable, Gone
  <2> QED
    BY <2>2, <2>3, <2>4
<1> QED
  BY <1>2, <1>3 DEF Poll!LookAtListening, Poll!Listening

\* The pieces of a client that is looked at go back to it, or are lost when it
\* is gone.
LEMMA EchoesPollInv ==
  ASSUME NEW N, PollAssumed(N), PollInv, NEW fd \in Fd, NEW c \in Client, owner[fd] = c, Poll!Echoes(fd)
  PROVE  /\ TcpOK' /\ \A d \in Client : AllThere(d)'
         /\ watched' \subseteq Fd \cup {0} /\ backlog' = backlog
         /\ \A f \in Fd \ {fd} : Readable(f) => Readable(f)'
<1> USE DEF PollInv
<1>1. /\ ClientOK(c) /\ AllThere(c) /\ Accepted(c) /\ c # None
      /\ Size(got[c]) \in Nat /\ Size(outbox[c]) \in Nat /\ Size(inbox[c]) \in Nat /\ sent[c] \in Nat
      /\ Held(c) = Size(got[c]) + Size(outbox[c]) + Size(inbox[c]) /\ Held(c) <= sent[c]
      /\ inbox[c] \in Seq(Piece) /\ outbox[c] \in Seq(Piece) /\ watched \subseteq Fd \cup {0}
      /\ \A f \in Fd \ {fd} : owner[f] # c
  BY SizesAreNat DEF TcpOK, TcpHas, ClientOK, Held, AllThere, Accepted, PollOK, PollAssumed
<1>2. ASSUME NEW n \in 1 .. Len(inbox[c]),
             inbox' = [inbox EXCEPT ![c] = SubSeq(@, n + 1, Len(@))],
             UNCHANGED <<phase, backlog, owner, sent, got, watched>>,
             \/ /\ ~Gone(c) /\ outbox' = [outbox EXCEPT ![c] = @ \o SubSeq(inbox[c], 1, n)]
                /\ UNCHANGED <<spent, crashed>>
             \/ Gone(c) /\ spent' = spent \cup {c} /\ UNCHANGED <<outbox, crashed>>
             \/ c \in spent /\ crashed' = TRUE /\ UNCHANGED <<outbox, spent>>
      PROVE  TcpOK' /\ \A d \in Client : AllThere(d)'
  <2> DEFINE first == SubSeq(inbox[c], 1, n)  rest == SubSeq(inbox[c], n + 1, Len(inbox[c]))
             after == outbox[c] \o first
  <2>1. /\ n \in Nat /\ n > 0 /\ n <= Size(inbox[c]) /\ first \in Seq(Piece) /\ Size(first) = n
        /\ rest \in Seq(Piece) /\ Size(rest) = Size(inbox[c]) - n
    <3>1. n \in Nat /\ n > 0 /\ n <= Size(inbox[c])
      BY <1>1 DEF Size
    <3>2. first \in Seq(Piece) /\ Size(first) = n /\ rest \in Seq(Piece) /\ Size(rest) = Size(inbox[c]) - n
      BY <1>1 DEF Size
    <3> QED
      BY <3>1, <3>2
  <2>2. ~Gone(c) => /\ Numbered(first, c, sent[c] - Size(inbox[c]))
                    /\ Numbered(rest, c, (sent[c] - Size(inbox[c])) + n)
    <3> HAVE ~Gone(c)
    <3>1. Numbered(inbox[c], c, sent[c] - Size(inbox[c]))
      BY <1>1 DEF ClientOK
    <3>2. sent[c] - Size(inbox[c]) \in Nat /\ n \in 0 .. Len(inbox[c])
      BY <1>1
    <3> QED
      BY <1>1, <3>1, <3>2, NumberedCut
  <2>3. ~Gone(c) => /\ after \in Seq(Piece) /\ Size(after) = Size(outbox[c]) + n
                    /\ Numbered(after, c, Size(got[c]))
    <3> HAVE ~Gone(c)
    <3>1. Numbered(outbox[c], c, Size(got[c]))
      BY <1>1 DEF ClientOK
    <3>2. Held(c) = sent[c]
      BY <1>1 DEF AllThere
    <3>3. sent[c] - Size(inbox[c]) = Size(got[c]) + Size(outbox[c])
      BY <1>1, <3>2
    <3>4. Numbered(first, c, Size(got[c]) + Size(outbox[c]))
      BY <2>2, <3>3
    <3> HIDE DEF first
    <3> QED
      BY <1>1, <2>1, <3>1, <3>4, NumberedConcat
  <2>4. inbox' = [inbox EXCEPT ![c] = rest] /\ (~Gone(c) => outbox' = [outbox EXCEPT ![c] = after] \/ c \in spent)
    BY <1>2
  <2>5. c \in spent => Gone(c)
    BY <1>1 DEF ClientOK, Rude
  <2>6. /\ ~Gone(c) => outbox' = [outbox EXCEPT ![c] = after] /\ spent' = spent
        /\ Gone(c) => outbox' = outbox
        /\ spent' \subseteq spent \cup {c} /\ crashed' \in BOOLEAN
        /\ UNCHANGED <<phase, backlog, owner, sent, got, watched>>
    BY <1>2, <2>5 DEF TcpOK, TcpHas
  <2> HIDE DEF first, rest, after
  <2>7. inbox' \in [Client -> Seq(Piece)] /\ outbox' \in [Client -> Seq(Piece)] /\ inbox'[c] = rest
        /\ (~Gone(c) => outbox'[c] = after) /\ (Gone(c) => outbox'[c] = outbox[c])
        /\ \A d \in Client \ {c} : inbox'[d] = inbox[d] /\ outbox'[d] = outbox[d]
    <3>1. /\ inbox' \in [Client -> Seq(Piece)] /\ inbox'[c] = rest
          /\ \A d \in Client \ {c} : inbox'[d] = inbox[d]
      BY <2>1, <2>4 DEF TcpOK, TcpHas
    <3>2. CASE Gone(c)
      BY <2>6, <3>1, <3>2 DEF TcpOK, TcpHas
    <3>3. CASE ~Gone(c)
      <4>1. outbox' = [outbox EXCEPT ![c] = after] /\ after \in Seq(Piece)
        BY <2>3, <2>6, <3>3
      <4>2. /\ outbox' \in [Client -> Seq(Piece)] /\ outbox'[c] = after
            /\ \A d \in Client \ {c} : outbox'[d] = outbox[d]
        BY <4>1 DEF TcpOK, TcpHas
      <4> QED
        BY <3>1, <3>3, <4>2
    <3> QED
      BY <3>2, <3>3
  <2>8. TcpOK'
    BY <2>6, <2>7 DEF TcpOK, TcpHas
  <2>9. (Gone(c)' <=> Gone(c)) /\ Accepted(c)' /\ sent'[c] = sent[c] /\ got'[c] = got[c] /\ phase'[c] = phase[c]
    BY <1>1, <2>6 DEF Gone, Accepted
  <2>10. AllThere(c)'
    <3>1. CASE ~Gone(c)
      <4>1. Held(c)' = Held(c)
        BY <1>1, <2>1, <2>3, <2>7, <2>9, <3>1 DEF Held
      <4>2. sent'[c] - Size(inbox'[c]) = (sent[c] - Size(inbox[c])) + n
        BY <1>1, <2>1, <2>7, <2>9
      <4>3. Numbered(inbox'[c], c, sent'[c] - Size(inbox'[c])) /\ Numbered(outbox'[c], c, Size(got'[c]))
        BY <2>2, <2>3, <2>7, <2>9, <3>1, <4>2
      <4>4. ~(phase'[c] = "reset") /\ c \notin spent'
        BY <2>5, <2>6, <2>9, <3>1 DEF Gone
      <4>5. Numbered(got'[c], c, 0)
        BY <1>1, <2>9 DEF ClientOK, Numbered
      <4> QED
        BY <1>1, <2>9, <3>1, <4>1, <4>3, <4>4, <4>5 DEF AllThere, ClientOK
    <3>2. CASE Gone(c)
      <4>1. Held(c)' = Held(c) - n /\ outbox[c] = <<>> /\ outbox'[c] = <<>>
        BY <1>1, <2>1, <2>7, <2>9, <3>2 DEF Held, ClientOK
      <4>2. Held(c)' <= sent'[c] /\ Size(got'[c]) < sent'[c]
        BY <1>1, <2>1, <2>9, <4>1
      <4>3. Numbered(got'[c], c, 0)
        BY <1>1, <2>9 DEF ClientOK, Numbered
      <4>4. Gone(c)' /\ Rude(c)'
        BY <2>9, <3>2, <4>2 DEF Rude
      <4> QED
        BY <4>1, <4>2, <4>3, <4>4 DEF AllThere, ClientOK
    <3> QED
      BY <3>1, <3>2
  <2>11. \A d \in Client \ {c} : AllThere(d)'
    BY <2>6, <2>7, ClientSame DEF AllThere, Accepted
  <2> QED
    BY <2>8, <2>10, <2>11
<1>3. CASE \E n \in 1 .. Len(inbox[c]) :
             /\ \/ /\ ~Gone(c) /\ outbox' = [outbox EXCEPT ![c] = @ \o SubSeq(inbox[c], 1, n)]
                   /\ UNCHANGED <<spent, crashed>>
                \/ Gone(c) /\ spent' = spent \cup {c} /\ UNCHANGED <<outbox, crashed>>
                \/ c \in spent /\ crashed' = TRUE /\ UNCHANGED <<outbox, spent>>
             /\ inbox' = [inbox EXCEPT ![c] = SubSeq(@, n + 1, Len(@))]
             /\ UNCHANGED <<phase, backlog, owner, sent, got, watched>>
  <2>1. \A d \in Client \ {c} : inbox'[d] = inbox[d]
    BY <1>3 DEF TcpOK, TcpHas
  <2>2. \A f \in Fd \ {fd} : owner[f] # None => owner[f] \in Client \ {c}
    BY <1>1 DEF TcpOK, TcpHas
  <2>3. \A f \in Fd \ {fd} : Readable(f) => Readable(f)'
    BY <1>3, <2>1, <2>2 DEF Readable, Gone
  <2> QED
    BY <1>1, <1>2, <1>3, <2>3
<1>4. CASE phase[c] = "closed" /\ owner' = [owner EXCEPT ![fd] = None] /\ watched' = watched \ {fd}
           /\ UNCHANGED <<phase, backlog, sent, inbox, outbox, got, spent, crashed>>
  <2>1. TcpOK'
    BY <1>4 DEF TcpOK, TcpHas, PollAssumed
  <2>2. \A f \in Fd \ {fd} : owner'[f] = owner[f]
    BY <1>4 DEF TcpOK, TcpHas
  <2>3. AllThere(c)'
    BY <1>1, <1>4 DEF AllThere, ClientOK, Gone, Held, Numbered, Rude
  <2>4. ASSUME NEW d \in Client \ {c}
        PROVE  AllThere(d)'
    <3>1. Accepted(d) => Accepted(d)'
      BY <2>2 DEF Accepted
    <3> QED
      BY <1>4, <3>1, ClientSame DEF AllThere
  <2>5. \A f \in Fd \ {fd} : Readable(f) => Readable(f)'
    BY <1>4, <2>2 DEF Readable, Gone
  <2> QED
    BY <1>1, <1>4, <2>1, <2>3, <2>4, <2>5
<1>5. CASE crashed' = TRUE /\ UNCHANGED <<phase, backlog, owner, sent, inbox, outbox, got, spent, watched>>
  <2>1. TcpOK' /\ \A d \in Client : AllThere(d)'
    BY <1>5, ClientSame DEF TcpOK, TcpHas, AllThere, Accepted
  <2> QED
    BY <1>1, <1>5, <2>1 DEF Readable, Gone
<1> QED
  <2> USE DEF Poll!Echoes, Poll!Gone, Gone, Poll!Received, Poll!AtEnd, Poll!close, Poll!None, None, Poll!Crash
  <2>1. CASE Poll!AtEnd(fd, "closed") /\ Poll!close(fd) /\ watched' = watched \ {fd}
    BY <1>4, <2>1
  <2>2. CASE Poll!AtEnd(fd, "reset") /\ Poll!Crash /\ UNCHANGED watched
    BY <1>5, <2>2
  <2>3. CASE ~(Poll!AtEnd(fd, "closed") /\ Poll!close(fd) /\ watched' = watched \ {fd})
             /\ ~(Poll!AtEnd(fd, "reset") /\ Poll!Crash /\ UNCHANGED watched)
    BY <1>3, <2>3
  <2> QED
    BY <2>1, <2>2, <2>3

\* The loop goes on to the next descriptor.
LEMMA LookAtPollInv ==
  ASSUME NEW N, PollAssumed(N), PollInv, Poll!LookAt(i)
  PROVE  PollInv'
<1> USE DEF PollInv
<1> DEFINE fd == i
<1>1. /\ i > 0 /\ UNCHANGED <<maxfd, revents>> /\ (i <= maxfd => i' = i + 1) /\ (~(i <= maxfd) => i' = -1)
      /\ i \in Int /\ maxfd \in Nat
  BY DEF Poll!LookAt, Poll!Listening, Poll!Polling, PollOK, PollAssumed
<1>2. revents \subseteq Int /\ \A f \in revents : f # 0 => f \in Fd
  BY DEF PollOK, PollAssumed
<1>3. CASE i <= maxfd /\ i \in revents /\ Poll!Echoes(i)
  <2>1. i \in Fd /\ Readable(i)
    BY <1>1, <1>2, <1>3 DEF ReportsTrue
  <2>2. PICK c \in Client : owner[i] = c
    BY <2>1 DEF Readable, TcpOK, TcpHas
  <2>3. /\ TcpOK' /\ \A d \in Client : AllThere(d)'
        /\ watched' \subseteq Fd \cup {0} /\ backlog' = backlog
        /\ \A f \in Fd \ {i} : Readable(f) => Readable(f)'
    BY <1>3, <2>1, <2>2, EchoesPollInv
  <2>4. PollOK'
    BY <1>1, <1>3, <2>3 DEF PollOK
  <2>5. ReportsTrue'
    <3> SUFFICES ASSUME NEW f \in revents, i + 1 <= f
                 PROVE  Readable(f)'
      BY <1>1, <1>2, <1>3 DEF ReportsTrue
    <3>1. f \in Fd /\ f # i /\ Readable(f)
      BY <1>1, <1>2 DEF ReportsTrue
    <3> QED
      BY <2>3, <3>1
  <2> QED
    BY <2>3, <2>4, <2>5
<1>4. CASE UNCHANGED <<Poll!tcpVars, watched>>
  <2>1. UNCHANGED <<phase, backlog, owner, sent, inbox, outbox, got, spent, crashed, watched>>
    BY <1>4 DEF Poll!tcpVars
  <2>2. TcpOK' /\ \A c \in Client : AllThere(c)'
    BY <2>1, ClientSame DEF TcpOK, TcpHas, AllThere, Accepted
  <2>3. PollOK'
    BY <1>1, <2>1 DEF PollOK
  <2>4. ReportsTrue'
    BY <1>1, <1>2, <2>1 DEF ReportsTrue, Readable, Gone
  <2> QED
    BY <2>2, <2>3, <2>4
<1> QED
  BY <1>3, <1>4 DEF Poll!LookAt

\* Every step.
LEMMA NextPollInv ==
  ASSUME NEW N, PollAssumed(N), PollInv, [Poll!Next]_(Poll!vars)
  PROVE  PollInv'
<1>1. CASE Poll!main
  BY <1>1, PollPollInv, AcceptPollInv, LookAtPollInv DEF Poll!main
<1>2. CASE Poll!Clients
  BY <1>2, ClientsPollInv
<1>3. CASE UNCHANGED Poll!vars
  <2>1. UNCHANGED <<phase, backlog, owner, sent, inbox, outbox, got, spent, crashed, watched, maxfd, revents, i>>
    BY <1>3 DEF Poll!vars, Poll!tcpVars, Poll!pollVars
  <2>2. TcpOK' /\ \A c \in Client : AllThere(c)'
    BY <2>1, ClientSame DEF PollInv, TcpOK, TcpHas, AllThere, Accepted
  <2> QED
    BY <2>1, <2>2 DEF PollInv, PollOK, ReportsTrue, Readable, Gone
<1> QED
  BY <1>1, <1>2, <1>3 DEF Poll!Next

\* 2.1.2_poll.c calls accept and recv only where something waits for them,
\* though it never clears revents and closes descriptors on its way, and gives
\* every client back what it sent, in order and nothing else.
THEOREM PollEchoes ==
  ASSUME NEW N \in Nat, Fd = 1 .. N, None \notin Client, Room \in Nat
  PROVE  Poll!Spec => [](Poll!TypeOK /\ Poll!ReportsHold /\ Poll!EchoedInOrder)
<1> USE DEF PollAssumed
<1>1. Poll!Init => PollInv
  BY InitPollInv
<1>2. PollInv /\ [Poll!Next]_(Poll!vars) => PollInv'
  BY NextPollInv
<1>3. PollInv => Poll!TypeOK /\ Poll!ReportsHold /\ Poll!EchoedInOrder
  <2> SUFFICES ASSUME PollInv
               PROVE  Poll!TypeOK /\ Poll!ReportsHold /\ Poll!EchoedInOrder
    OBVIOUS
  <2>1. Poll!TcpTypeOK
    BY DEF PollInv, TcpOK, TcpHas, Poll!TcpTypeOK, Poll!None, None
  <2>2. Poll!Cardinality(Fd) = N
    <3>1. Cardinality(Fd) = N
      BY FS_Interval
    <3> QED
      BY <3>1 DEF Poll!Cardinality, Cardinality
  <2>3. /\ watched \subseteq Fd \cup {0} /\ maxfd \in Fd \cup {0} /\ revents \subseteq Fd \cup {0}
        /\ i \in -1 .. N + 1
    BY DEF PollInv, PollOK
  <2>4. Poll!TypeOK
    BY <2>1, <2>2, <2>3 DEF Poll!TypeOK, Poll!Listening, Poll!Polling
  <2>5. Poll!ReportsHold
    BY DEF PollInv, ReportsTrue, Poll!ReportsHold, Poll!Listening, Poll!Polling, Poll!Readable, Readable,
           Poll!Gone, Gone, Poll!None, None
  <2>6. Poll!EchoedInOrder
    <3>1. RightAnswers
      BY EchoesRight DEF PollInv, AllThere
    <3> QED
      BY <3>1 DEF RightAnswers, Echo, IsPrefix, Poll!EchoedInOrder, Poll!Echo, Poll!IsPrefix
  <2> QED
    BY <2>4, <2>5, <2>6
<1> QED
  BY <1>1, <1>2, <1>3, PTL DEF Poll!Spec
--------------------------------------------------------------------------------
(***************************************************************************)
(* What the callbacks of any reactor do to its events.                     *)
(***************************************************************************)
\* accept_cb: a new descriptor is in no batch.
LEMMA AcceptReactor ==
  ASSUME Assumed, NEW P, NEW Q, ReactorInv(P, Q), Dispatch(Listening, "IN"),
         \/ \E c \in Client, fd \in Fd : accept(c, fd) /\ set_event(fd, "IN")
         \/ UNCHANGED <<tcpVars, interest>>
  PROVE  ReactorInv(P, Q)'
<1> USE DEF ReactorInv
<1>1. evs # <<>> /\ evs' = Tail(evs) /\ Head(evs).fd = Listening /\ Listening \notin Fd
  BY InHandFacts DEF Assumed
<1>2. CASE \E c \in Client, fd \in Fd : accept(c, fd) /\ set_event(fd, "IN")
  <2>1. PICK c \in Client, fd \in Fd : accept(c, fd) /\ set_event(fd, "IN")
    BY <1>2
  <2>2. /\ c \in backlog /\ backlog' = backlog \ {c} /\ owner[fd] = None /\ owner' = [owner EXCEPT ![fd] = c]
        /\ UNCHANGED <<phase, sent, inbox, outbox, got, spent, crashed>>
        /\ interest' = [interest EXCEPT ![fd] = {"IN"}]
    BY <2>1 DEF accept, set_event
  <2>3. /\ \A f \in Fd \ {fd} : owner'[f] = owner[f] /\ interest'[f] = interest[f]
        /\ owner'[fd] = c /\ interest'[fd] = {"IN"} /\ c # None
    BY <2>2 DEF TcpHas, Watched, Assumed
  <2>4. TcpHas(P, Q)'
    BY <2>2, <2>3 DEF TcpHas
  <2>5. Watched'
    BY <2>2, <2>3 DEF Watched
  <2>6. \A f \in Fd : owner[f] # None =>
          /\ owner'[f] # None /\ interest'[f] = interest[f]
          /\ (Readable(f) => Readable(f)') /\ (Writable(f) => Writable(f)')
    BY <2>2, <2>3 DEF Readable, Writable, Gone
  <2> QED
    BY <1>1, <2>4, <2>5, <2>6, RestHolds
<1>3. CASE UNCHANGED <<tcpVars, interest>>
  <2>1. EvsOK' /\ EventsHold'
    BY <1>1, <1>3, RestHolds DEF tcpVars, Readable, Writable, Gone
  <2> QED
    BY <1>3, <2>1 DEF TcpHas, Watched, tcpVars
<1> QED
  BY <1>2, <1>3

\* recv_cb and send_cb concern one client, and the others keep what they have.
LEMMA CallbackReactor ==
  ASSUME Assumed, NEW P, NEW Q, ReactorInv(P, Q), NEW fd \in Fd, NEW c \in Client, owner[fd] = c,
         NEW e \in {"IN", "OUT"}, Dispatch(fd, e), TcpHas(P, Q)', Watched', backlog' = backlog,
         \A f \in Fd \ {fd} : owner'[f] = owner[f] /\ interest'[f] = interest[f],
         \A d \in Client \ {c} : phase'[d] = phase[d] /\ inbox'[d] = inbox[d] /\ outbox'[d] = outbox[d]
  PROVE  ReactorInv(P, Q)'
<1> USE DEF ReactorInv
<1>1. evs # <<>> /\ evs' = Tail(evs) /\ Head(evs).fd = fd
  BY InHandFacts
<1>2. \A f \in Fd \ {fd} : owner[f] # None => owner[f] \in Client \ {c}
  BY DEF TcpHas, Assumed
<1>3. \A f \in Fd : f # fd /\ owner[f] # None =>
        /\ owner'[f] # None /\ interest'[f] = interest[f]
        /\ (Readable(f) => Readable(f)') /\ (Writable(f) => Writable(f)')
  BY <1>2 DEF Readable, Writable, Gone
<1> QED
  BY <1>1, <1>3, RestHolds

\* The beginning of recv_cb: what is received, and what is left of it.
LEMMA RecvReactor ==
  ASSUME Assumed, NEW P, NEW Q, ReactorInv(P, Q), NEW fd \in Fd, Dispatch(fd, "IN"),
         NEW n \in 1 .. Len(inbox[owner[fd]]), recv(fd, n), set_event(fd, "OUT")
  PROVE  /\ ReactorInv(P, Q)' /\ owner[fd] \in Client /\ Received(fd, n) \in Seq(P)
         /\ interest' = [interest EXCEPT ![fd] = {"OUT"}] /\ interest'[fd] = {"OUT"}
         /\ n \in Nat /\ n > 0 /\ Len(inbox'[owner[fd]]) = Len(inbox[owner[fd]]) - n
         /\ \A d \in Client \ {owner[fd]} : inbox'[d] = inbox[d]
         /\ UNCHANGED <<phase, backlog, owner, sent, outbox, got, spent, crashed>>
<1> USE DEF ReactorInv
<1> DEFINE c == owner[fd]  rest == SubSeq(inbox[c], n + 1, Len(inbox[c]))
<1>1. c \in Client
  <2>1. fd # Listening
    BY DEF Assumed
  <2> QED
    BY <2>1, InHandFacts
<1>2. inbox[c] \in Seq(P)
  BY <1>1 DEF TcpHas
<1>3. rest \in Seq(P) /\ Len(rest) = Len(inbox[c]) - n /\ Received(fd, n) \in Seq(P) /\ n \in Nat /\ n > 0
  BY <1>2 DEF Received
<1>4. /\ inbox' = [inbox EXCEPT ![c] = rest] /\ interest' = [interest EXCEPT ![fd] = {"OUT"}]
      /\ UNCHANGED <<phase, backlog, owner, sent, outbox, got, spent, crashed>>
  BY DEF recv, set_event
<1> HIDE DEF rest
<1>5. inbox' \in [Client -> Seq(P)] /\ inbox'[c] = rest /\ \A d \in Client \ {c} : inbox'[d] = inbox[d]
  BY <1>1, <1>3, <1>4 DEF TcpHas
<1>6. interest'[fd] = {"OUT"} /\ \A f \in Fd \ {fd} : interest'[f] = interest[f]
  BY <1>4 DEF Watched
<1>7. TcpHas(P, Q)'
  BY <1>4, <1>5 DEF TcpHas
<1>8. Watched'
  BY <1>1, <1>4, <1>6 DEF Watched, Assumed
<1>9. ReactorInv(P, Q)'
  BY <1>1, <1>4, <1>5, <1>6, <1>7, <1>8, CallbackReactor
<1> QED
  BY <1>1, <1>3, <1>4, <1>5, <1>6, <1>9

\* The end of a connection.
LEMMA CloseReactor ==
  ASSUME Assumed, NEW P, NEW Q, ReactorInv(P, Q), NEW fd \in Fd, Dispatch(fd, "IN"), close_and_del(fd)
  PROVE  /\ ReactorInv(P, Q)' /\ owner[fd] \in Client /\ owner' = [owner EXCEPT ![fd] = None]
         /\ interest' = [interest EXCEPT ![fd] = {}]
         /\ UNCHANGED <<phase, backlog, sent, inbox, outbox, got, spent, crashed>>
<1> USE DEF ReactorInv
<1>1. owner[fd] \in Client
  <2>1. fd # Listening
    BY DEF Assumed
  <2> QED
    BY <2>1, InHandFacts
<1>2. /\ owner' = [owner EXCEPT ![fd] = None] /\ interest' = [interest EXCEPT ![fd] = {}]
      /\ UNCHANGED <<phase, backlog, sent, inbox, outbox, got, spent, crashed>>
  BY DEF close_and_del, close
<1>3. TcpHas(P, Q)'
  BY <1>2 DEF TcpHas, Assumed
<1>4. Watched'
  BY <1>2 DEF Watched, TcpHas
<1>5. \A f \in Fd \ {fd} : owner'[f] = owner[f] /\ interest'[f] = interest[f]
  BY <1>2 DEF TcpHas, Watched
<1>6. ReactorInv(P, Q)'
  BY <1>1, <1>2, <1>3, <1>4, <1>5, CallbackReactor
<1> QED
  BY <1>1, <1>2, <1>6

\* The end of send_cb: what is sent, if anything, and what is watched next.
LEMMA SendReactor ==
  ASSUME Assumed, NEW P, NEW Q, ReactorInv(P, Q), NEW fd \in Fd, Dispatch(fd, "OUT"),
         NEW s \in Seq(Q), send(fd, s) \/ UNCHANGED tcpVars, NEW e \in {"IN", "OUT"}, set_event(fd, e)
  PROVE  /\ ReactorInv(P, Q)' /\ owner[fd] \in Client /\ interest[fd] = {"OUT"}
         /\ interest' = [interest EXCEPT ![fd] = {e}] /\ interest'[fd] = {e}
         /\ UNCHANGED <<phase, backlog, owner, sent, inbox, got>>
         /\ \A d \in Client \ {owner[fd]} : outbox'[d] = outbox[d]
         /\ spent' \subseteq spent \cup {owner[fd]}
         /\ \/ /\ ~Gone(owner[fd]) /\ outbox'[owner[fd]] = outbox[owner[fd]] \o s /\ UNCHANGED <<spent, crashed>>
            \/ /\ Gone(owner[fd]) /\ outbox' = outbox /\ crashed' = crashed
            \/ owner[fd] \in spent /\ crashed' /\ UNCHANGED <<outbox, spent>>
            \/ UNCHANGED tcpVars /\ ~send(fd, s)
<1> USE DEF ReactorInv
<1> DEFINE c == owner[fd]  after == outbox[c] \o s
<1>1. c \in Client /\ interest[fd] = {"OUT"}
  <2>1. fd # Listening
    BY DEF Assumed
  <2> QED
    BY <2>1, InHandFacts
<1>2. after \in Seq(Q)
  <2>1. outbox[c] \in Seq(Q)
    BY <1>1 DEF TcpHas
  <2> QED
    BY <2>1
<1> HIDE DEF after
<1>3. /\ UNCHANGED <<phase, backlog, owner, sent, inbox, got>>
      /\ spent' \subseteq spent \cup {c} /\ crashed' \in BOOLEAN
      /\ \/ ~Gone(c) /\ outbox' = [outbox EXCEPT ![c] = after] /\ UNCHANGED <<spent, crashed>>
         \/ Gone(c) /\ outbox' = outbox /\ crashed' = crashed
         \/ c \in spent /\ crashed' /\ UNCHANGED <<outbox, spent>>
         \/ UNCHANGED tcpVars /\ ~send(fd, s)
  <2>1. CASE UNCHANGED tcpVars /\ ~send(fd, s)
    BY <2>1 DEF tcpVars, TcpHas
  <2>2. CASE send(fd, s)
    BY <2>2 DEF send, Crash, TcpHas, after
  <2> QED
    BY <2>1, <2>2
<1>4. /\ outbox' \in [Client -> Seq(Q)] /\ \A d \in Client \ {c} : outbox'[d] = outbox[d]
      /\ outbox' = [outbox EXCEPT ![c] = after] => outbox'[c] = after
  <2>1. outbox \in [Client -> Seq(Q)]
    BY DEF TcpHas
  <2>2. CASE outbox' = outbox
    BY <1>1, <2>1, <2>2
  <2>3. CASE outbox' = [outbox EXCEPT ![c] = after]
    BY <1>1, <1>2, <2>1, <2>3
  <2> QED
    BY <1>3, <2>2, <2>3 DEF tcpVars
<1>5. TcpHas(P, Q)'
  BY <1>1, <1>3, <1>4 DEF TcpHas
<1>6. interest' = [interest EXCEPT ![fd] = {e}]
  BY DEF set_event
<1>7. interest'[fd] = {e} /\ \A f \in Fd \ {fd} : interest'[f] = interest[f]
  BY <1>6 DEF Watched
<1>8. Watched'
  BY <1>1, <1>3, <1>6, <1>7 DEF Watched, Assumed
<1>9. ReactorInv(P, Q)'
  BY <1>1, <1>3, <1>4, <1>5, <1>7, <1>8, CallbackReactor
<1> QED
  BY <1>1, <1>3, <1>4, <1>6, <1>7, <1>9 DEF after

--------------------------------------------------------------------------------
(***************************************************************************)
(* WebServer.                                                              *)
(***************************************************************************)
Request == {"request"}
Reply == {"head", "body"}

\* What a client has been sent, read or not.
Stream(c) == got[c] \o outbox[c]

BodiesIn(s) == {k \in 1 .. Len(s) : s[k] = "body"}
EndsIn(s, x) == Len(s) > 0 /\ s[Len(s)] = x

AfterHead(s) == \A k \in 1 .. Len(s) : s[k] = "body" => k > 1 /\ s[k - 1] = "head"
HeadsFollowed(s) == \A k \in 1 .. Len(s) - 1 : s[k] = "head" => s[k + 1] = "body"

(***************************************************************************)
(* The status of a record is what the answer to its client has come to:    *)
(* after the head it is 1, and until it is 2 a request is still to be      *)
(* answered.                                                               *)
(***************************************************************************)
WebConnOK ==
  /\ conn_list \in [Fd -> [rbuffer : Seq(Request), wbuffer : Seq(Reply), status : 0 .. 2]]
  /\ \A fd \in Fd : interest[fd] = {"OUT"} /\ conn_list[fd].status = 1 => conn_list[fd].wbuffer = <<"head">>
  /\ failures \in 0 .. MaxFailures

Answering(c, status) == \E fd \in Fd : owner[fd] = c /\ interest[fd] = {"OUT"} /\ conn_list[fd].status \in status
Due(c) == IF Answering(c, {0, 1}) THEN 1 ELSE 0

AnswersOK(c) ==
  /\ AfterHead(Stream(c)) /\ (failures = 0 => HeadsFollowed(Stream(c)))
  /\ Cardinality(BodiesIn(Stream(c))) + Len(inbox[c]) + Due(c) <= sent[c]
  /\ Gone(c) => outbox[c] = <<>>
  /\ c \in spent => Gone(c) /\ Cardinality(BodiesIn(got[c])) < sent[c]
  /\ ~Gone(c) /\ Answering(c, {1}) => EndsIn(Stream(c), "head")
  /\ ~Gone(c) /\ failures = 0 /\ EndsIn(Stream(c), "head") => Answering(c, {1})

WebRudeCrash == crashed => \E c \in Client : Gone(c) /\ Cardinality(BodiesIn(got[c])) < sent[c]

WebInv == ReactorInv(Request, Reply) /\ WebConnOK /\ (\A c \in Client : AnswersOK(c)) /\ WebRudeCrash

WebAssumed == Assumed /\ MaxFailures \in Nat

\* There are finitely many bodies in a sequence, and its beginnings have no more.
LEMMA BodiesAreFew ==
  ASSUME NEW s \in Seq(Reply)
  PROVE  IsFiniteSet(BodiesIn(s)) /\ Cardinality(BodiesIn(s)) \in Nat
<1>1. IsFiniteSet(1 .. Len(s)) /\ BodiesIn(s) \in SUBSET (1 .. Len(s))
  BY FS_Interval DEF BodiesIn
<1> QED
  BY <1>1, FS_Subset, FS_CardinalityType

LEMMA FewerBefore ==
  ASSUME NEW s \in Seq(Reply), NEW t \in Seq(Reply)
  PROVE  Cardinality(BodiesIn(s)) <= Cardinality(BodiesIn(s \o t))
<1>1. s \o t \in Seq(Reply) /\ Len(s) \in Nat /\ Len(s) <= Len(s \o t)
      /\ \A k \in 1 .. Len(s) : (s \o t)[k] = s[k] /\ k \in 1 .. Len(s \o t)
  BY ConcatProperties
<1>2. BodiesIn(s) \in SUBSET BodiesIn(s \o t)
  BY <1>1 DEF BodiesIn
<1> QED
  BY <1>1, <1>2, BodiesAreFew, FS_Subset

\* A head may be put after anything but a head, a body after a head.
LEMMA ReplyAppended ==
  ASSUME NEW s \in Seq(Reply), NEW x \in Reply, AfterHead(s), x = "body" => EndsIn(s, "head")
  PROVE  LET t == Append(s, x)
         IN  /\ AfterHead(t) /\ EndsIn(t, x)
             /\ HeadsFollowed(s) /\ (x = "head" => ~EndsIn(s, "head")) => HeadsFollowed(t)
             /\ Cardinality(BodiesIn(t)) = IF x = "body" THEN Cardinality(BodiesIn(s)) + 1
                                           ELSE Cardinality(BodiesIn(s))
<1> DEFINE t == Append(s, x)
<1>1. /\ t \in Seq(Reply) /\ Len(t) = Len(s) + 1 /\ Len(s) \in Nat /\ t[Len(s) + 1] = x
      /\ \A k \in 1 .. Len(s) : t[k] = s[k]
  BY AppendProperties
<1> HIDE DEF t
<1>2. AfterHead(t) /\ EndsIn(t, x)
  <2>1. ASSUME NEW k \in 1 .. Len(t), t[k] = "body"
        PROVE  k > 1 /\ t[k - 1] = "head"
    <3>1. CASE k = Len(s) + 1
      <4>1. Len(s) > 0 /\ s[Len(s)] = "head" /\ Len(s) \in 1 .. Len(s)
        BY <1>1, <2>1, <3>1 DEF EndsIn
      <4>2. k - 1 = Len(s) /\ t[Len(s)] = s[Len(s)]
        BY <1>1, <3>1, <4>1
      <4> QED
        BY <1>1, <3>1, <4>1, <4>2
    <3>2. CASE k # Len(s) + 1
      <4>1. k \in 1 .. Len(s) /\ s[k] = "body"
        BY <1>1, <2>1, <3>2
      <4>2. k > 1 /\ s[k - 1] = "head" /\ k - 1 \in 1 .. Len(s)
        BY <1>1, <4>1 DEF AfterHead
      <4> QED
        BY <1>1, <4>2
    <3> QED
      BY <3>1, <3>2
  <2> QED
    BY <1>1, <2>1 DEF AfterHead, EndsIn
<1>3. ASSUME HeadsFollowed(s), x = "head" => ~EndsIn(s, "head")
      PROVE  HeadsFollowed(t)
  <2> SUFFICES ASSUME NEW k \in 1 .. Len(t) - 1, t[k] = "head"
               PROVE  t[k + 1] = "body"
    BY DEF HeadsFollowed
  <2>1. k \in 1 .. Len(s) /\ s[k] = "head"
    BY <1>1
  <2>2. CASE k = Len(s)
    <3>1. EndsIn(s, "head")
      BY <1>1, <2>1, <2>2 DEF EndsIn
    <3>2. x = "body"
      BY <1>3, <3>1 DEF Reply
    <3> QED
      BY <1>1, <2>2, <3>2
  <2>3. CASE k # Len(s)
    <3>1. k \in 1 .. Len(s) - 1 /\ k + 1 \in 1 .. Len(s)
      BY <1>1, <2>1, <2>3
    <3> QED
      BY <1>1, <1>3, <2>1, <3>1 DEF HeadsFollowed
  <2> QED
    BY <2>2, <2>3
<1>4. Cardinality(BodiesIn(t)) = IF x = "body" THEN Cardinality(BodiesIn(s)) + 1 ELSE Cardinality(BodiesIn(s))
  <2>1. CASE x = "body"
    <3>1. BodiesIn(t) = BodiesIn(s) \cup {Len(s) + 1} /\ Len(s) + 1 \notin BodiesIn(s)
      BY <1>1, <2>1 DEF BodiesIn
    <3> QED
      BY <2>1, <3>1, BodiesAreFew, FS_AddElement
  <2>2. CASE x # "body"
    <3>1. BodiesIn(t) = BodiesIn(s)
      BY <1>1, <2>2 DEF BodiesIn
    <3> QED
      BY <2>2, <3>1
  <2> QED
    BY <2>1, <2>2
<1> QED
  BY <1>2, <1>3, <1>4 DEF t

\* What is read, sent or lost of a stream.
LEMMA Streams ==
  ASSUME NEW s \in Seq(Reply), NEW t \in Seq(Reply)
  PROVE  /\ s \o t \in Seq(Reply) /\ s \o <<>> = s /\ (s \o t) \o <<>> = s \o t
         /\ \A x \in Reply : <<x>> \in Seq(Reply) /\ s \o (t \o <<x>>) = Append(s \o t, x)
         /\ AfterHead(s \o t) => AfterHead(s)
         /\ HeadsFollowed(s \o t) => HeadsFollowed(s)
<1>1. /\ s \o t \in Seq(Reply) /\ Len(s) \in Nat /\ Len(s \o t) = Len(s) + Len(t) /\ Len(t) \in Nat
      /\ \A k \in 1 .. Len(s) : (s \o t)[k] = s[k]
  BY ConcatProperties
<1>2. s \o <<>> = s /\ (s \o t) \o <<>> = s \o t
  BY <1>1, ConcatEmptySeq
<1>3. ASSUME NEW x \in Reply
      PROVE  <<x>> \in Seq(Reply) /\ s \o (t \o <<x>>) = Append(s \o t, x)
  <2>1. <<x>> \in Seq(Reply)
    OBVIOUS
  <2> HIDE DEF Reply
  <2>2. (s \o t) \o <<x>> = s \o (t \o <<x>>)
    BY <2>1, ConcatAssociative
  <2>3. Append(s \o t, x) = (s \o t) \o <<x>>
    BY <1>1, AppendIsConcat
  <2> QED
    BY <2>1, <2>2, <2>3
<1>4. AfterHead(s \o t) => AfterHead(s)
  <2> HAVE AfterHead(s \o t)
  <2> SUFFICES ASSUME NEW k \in 1 .. Len(s), s[k] = "body"
               PROVE  k > 1 /\ s[k - 1] = "head"
    BY DEF AfterHead
  <2>1. k \in 1 .. Len(s \o t) /\ (s \o t)[k] = "body"
    BY <1>1
  <2>2. k > 1 /\ (s \o t)[k - 1] = "head"
    BY <2>1 DEF AfterHead
  <2>3. k - 1 \in 1 .. Len(s)
    BY <1>1, <2>2
  <2> QED
    BY <1>1, <2>2, <2>3
<1>5. HeadsFollowed(s \o t) => HeadsFollowed(s)
  <2> HAVE HeadsFollowed(s \o t)
  <2> SUFFICES ASSUME NEW k \in 1 .. Len(s) - 1, s[k] = "head"
               PROVE  s[k + 1] = "body"
    BY DEF HeadsFollowed
  <2>1. k \in 1 .. Len(s) /\ k + 1 \in 1 .. Len(s) /\ k \in 1 .. Len(s \o t) - 1
    BY <1>1
  <2> QED
    BY <1>1, <2>1 DEF HeadsFollowed
<1> QED
  BY <1>1, <1>2, <1>3, <1>4, <1>5

\* The connections, the clients and the events are those of Reactor.
LEMMA WebSame ==
  /\ Web!epoll_wait => epoll_wait
  /\ \A fd, e : (Web!Dispatch(fd, e) => Dispatch(fd, e)) /\ (Web!set_event(fd, e) => set_event(fd, e))
  /\ \A c : (Web!Connect(c) => Connect(c)) /\ (Web!Read(c) => Read(c)) /\ (Web!HangUp(c) => HangUp(c))
  /\ \A c, x : Web!Send(c, x) => Send(c, x)
  /\ \A c, fd : Web!accept(c, fd) => accept(c, fd)
  /\ \A fd, n : (Web!recv(fd, n) => recv(fd, n)) /\ Web!Received(fd, n) = Received(fd, n)
  /\ \A fd : Web!close_and_del(fd) => close_and_del(fd)
  /\ \A fd, s : Web!send(fd, s) <=> send(fd, s)
  /\ UNCHANGED Web!tcpVars <=> UNCHANGED tcpVars
<1>1. Web!None = None /\ Web!Listening = Listening /\ (UNCHANGED Web!tcpVars <=> UNCHANGED tcpVars) /\ \A c : Web!Gone(c) <=> Gone(c)
  BY DEF Web!None, None, Web!Listening, Listening, Web!tcpVars, tcpVars, Web!Gone, Gone
<1>2. Web!Events = Events
  <2>1. \A fd : (Web!Readable(fd) <=> Readable(fd)) /\ (Web!Writable(fd) <=> Writable(fd))
    BY <1>1 DEF Web!Readable, Readable, Web!Writable, Writable
  <2>2. \A fd : Web!Reported(fd) = Reported(fd)
    BY <2>1 DEF Web!Reported, Reported
  <2> QED
    BY <1>1, <2>2 DEF Web!Events, Events
<1>3. Web!epoll_wait => epoll_wait
  <2>1. \A S : Web!Cardinality(S) = Cardinality(S)
    BY DEF Web!Cardinality, Cardinality
  <2>2. \A S : Web!SetToSeqs(S) = SetToSeqs(S)
    BY <2>1 DEF Web!SetToSeqs, SetToSeqs
  <2> QED
    BY <1>1, <1>2, <2>2 DEF Web!epoll_wait, epoll_wait, Web!tcpVars, tcpVars
<1>4. \A fd, e : (Web!Dispatch(fd, e) => Dispatch(fd, e)) /\ (Web!set_event(fd, e) => set_event(fd, e))
  BY DEF Web!Dispatch, Dispatch, Web!set_event, set_event
<1>5. /\ \A c : (Web!Connect(c) => Connect(c)) /\ (Web!Read(c) => Read(c)) /\ (Web!HangUp(c) => HangUp(c))
      /\ \A c, x : Web!Send(c, x) => Send(c, x)
  BY DEF Web!Connect, Connect, Web!Read, Read, Web!HangUp, HangUp, Web!Send, Send
<1>6. /\ \A c, fd : Web!accept(c, fd) => accept(c, fd)
      /\ \A fd, n : (Web!recv(fd, n) => recv(fd, n)) /\ Web!Received(fd, n) = Received(fd, n)
  BY <1>1 DEF Web!accept, accept, Web!recv, recv, Web!Received, Received
<1>7. \A fd : Web!close_and_del(fd) => close_and_del(fd)
  BY <1>1 DEF Web!close_and_del, close_and_del, Web!close, close
<1>8. \A fd, s : Web!send(fd, s) <=> send(fd, s)
  BY <1>1 DEF Web!send, send, Web!Crash, Crash
<1> QED
  BY <1>1, <1>3, <1>4, <1>5, <1>6, <1>7, <1>8

\* Nothing is asked for, and nothing answered.
LEMMA InitWebInv ==
  ASSUME WebAssumed, Web!Init
  PROVE  WebInv
<1> USE DEF Web!Init, Web!ReactorInit, Web!TcpInit
<1>1. <<>> \in Seq(Request) /\ <<>> \in Seq(Reply) /\ Len(<<>>) = 0 /\ <<>> \o <<>> = <<>>
  <2>1. <<>> \in Seq(Request) /\ <<>> \in Seq(Reply) /\ Len(<<>>) = 0
    OBVIOUS
  <2> QED
    BY <2>1, Streams
<1>2. TcpHas(Request, Reply)
  BY <1>1 DEF TcpHas, WebAssumed, Assumed, Web!None, None
<1>3. Watched /\ EvsOK /\ EventsHold
  BY DEF Watched, EvsOK, EventsHold, Web!None, None
<1>4. WebConnOK
  BY <1>1 DEF WebConnOK, Web!Fresh, WebAssumed
<1>5. ASSUME NEW c \in Client
      PROVE  AnswersOK(c)
  <2>1. Stream(c) = <<>> /\ inbox[c] = <<>> /\ sent[c] = 0 /\ outbox[c] = <<>> /\ spent = {}
    BY <1>1 DEF Stream
  <2>2. Due(c) = 0 /\ ~Answering(c, {1})
    BY DEF Due, Answering
  <2>3. BodiesIn(<<>>) = {}
    BY <1>1 DEF BodiesIn
  <2>4. Cardinality(BodiesIn(<<>>)) = 0
    BY <2>3, FS_EmptySet
  <2> QED
    BY <1>1, <2>1, <2>2, <2>4 DEF AnswersOK, AfterHead, HeadsFollowed, EndsIn
<1> QED
  BY <1>2, <1>3, <1>4, <1>5 DEF WebInv, ReactorInv, WebRudeCrash

\* A client that nothing happens to.
LEMMA AnswersSame ==
  ASSUME NEW d \in Client, AnswersOK(d), d \in spent' => d \in spent, failures' = 0 => failures = 0,
         phase'[d] = phase[d], sent'[d] = sent[d], inbox'[d] = inbox[d], outbox'[d] = outbox[d], got'[d] = got[d],
         Answering(d, {1})' <=> Answering(d, {1}), Answering(d, {0, 1})' <=> Answering(d, {0, 1})
  PROVE  AnswersOK(d)'
<1>1. Stream(d)' = Stream(d) /\ (Gone(d)' <=> Gone(d)) /\ Due(d)' = Due(d)
  BY DEF Stream, Gone, Due
<1>2. /\ AfterHead(Stream(d)) /\ (failures = 0 => HeadsFollowed(Stream(d)))
      /\ Cardinality(BodiesIn(Stream(d))) + Len(inbox[d]) + Due(d) <= sent[d]
      /\ Gone(d) => outbox[d] = <<>>
      /\ d \in spent => Gone(d) /\ Cardinality(BodiesIn(got[d])) < sent[d]
      /\ ~Gone(d) /\ Answering(d, {1}) => EndsIn(Stream(d), "head")
      /\ ~Gone(d) /\ failures = 0 /\ EndsIn(Stream(d), "head") => Answering(d, {1})
  BY DEF AnswersOK
<1> QED
  BY <1>1, <1>2 DEF AnswersOK

\* The callbacks of a descriptor concern the client behind it.
LEMMA OthersAnswered ==
  ASSUME WebAssumed, WebInv, NEW fd \in Fd, NEW c \in Client, owner[fd] = c, owner'[fd] \in {c, None},
         \A f \in Fd \ {fd} : /\ owner'[f] = owner[f] /\ interest'[f] = interest[f]
                              /\ conn_list'[f] = conn_list[f],
         \A d \in Client \ {c} : /\ phase'[d] = phase[d] /\ sent'[d] = sent[d] /\ inbox'[d] = inbox[d]
                                 /\ outbox'[d] = outbox[d] /\ got'[d] = got[d],
         spent' \subseteq spent \cup {c}, failures' = 0 => failures = 0
  PROVE  \A d \in Client \ {c} : AnswersOK(d)'
<1> SUFFICES ASSUME NEW d \in Client \ {c}
             PROVE  AnswersOK(d)'
  OBVIOUS
<1>1. owner[fd] # d /\ owner'[fd] # d
  BY DEF WebAssumed, Assumed
<1>2. \A S : Answering(d, S)' <=> Answering(d, S)
  BY <1>1 DEF Answering
<1> QED
  BY <1>2, AnswersSame DEF WebInv

\* epoll_wait asks what there is.
LEMMA EpollWaitWebInv ==
  ASSUME WebAssumed, WebInv, Web!epoll_wait, UNCHANGED failures
  PROVE  WebInv'
<1> USE DEF WebInv, ReactorInv, WebAssumed
<1>1. epoll_wait /\ UNCHANGED <<tcpVars, conn_list, interest>>
  BY WebSame DEF epoll_wait
<1>2. EvsOK' /\ EventsHold'
  BY <1>1, BatchHolds
<1>3. TcpHas(Request, Reply)' /\ Watched' /\ WebConnOK' /\ WebRudeCrash'
  BY <1>1 DEF TcpHas, Watched, WebConnOK, WebRudeCrash, Gone, tcpVars
<1>4. \A d \in Client : AnswersOK(d)'
  BY <1>1, AnswersSame DEF tcpVars, Answering
<1> QED
  BY <1>2, <1>3, <1>4

\* A client reads what it was sent, asks for more, or goes.
LEMMA ClientsWebInv ==
  ASSUME WebAssumed, WebInv, Web!Clients
  PROVE  WebInv'
<1> USE DEF WebInv, WebAssumed
<1>1. PICK c \in Client : /\ Connect(c) \/ Read(c) \/ HangUp(c) \/ Send(c, "request")
                          /\ UNCHANGED <<conn_list, interest, evs, failures>>
  BY WebSame DEF Web!Clients, Web!reactorVars
<1>2. ReactorInv(Request, Reply)'
  BY <1>1, ClientReactor DEF Request
<1>3. /\ UNCHANGED <<owner, spent, crashed>> /\ \A S : Answering(c, S)' <=> Answering(c, S)
      /\ \A d \in Client \ {c} : /\ phase'[d] = phase[d] /\ sent'[d] = sent[d] /\ inbox'[d] = inbox[d]
                                 /\ outbox'[d] = outbox[d] /\ got'[d] = got[d]
                                 /\ \A S : Answering(d, S)' <=> Answering(d, S)
  <2>1. /\ UNCHANGED <<owner, spent, crashed>>
        /\ \A d \in Client \ {c} : /\ phase'[d] = phase[d] /\ sent'[d] = sent[d] /\ inbox'[d] = inbox[d]
                                   /\ outbox'[d] = outbox[d] /\ got'[d] = got[d]
    BY <1>1 DEF Connect, Read, HangUp, Send, ReactorInv, TcpHas
  <2> QED
    BY <1>1, <2>1 DEF Answering
<1>4. \A d \in Client \ {c} : AnswersOK(d)'
  BY <1>1, <1>3, AnswersSame
<1>5. /\ phase[c] \in {"idle", "open"} /\ ~Gone(c) /\ c \notin spent
      /\ AfterHead(Stream(c)) /\ (failures = 0 => HeadsFollowed(Stream(c)))
      /\ Cardinality(BodiesIn(Stream(c))) + Len(inbox[c]) + Due(c) <= sent[c]
      /\ Answering(c, {1}) => EndsIn(Stream(c), "head")
      /\ failures = 0 /\ EndsIn(Stream(c), "head") => Answering(c, {1})
      /\ Due(c) \in {0, 1} /\ Due(c)' = Due(c) /\ sent[c] \in Nat
      /\ got[c] \in Seq(Reply) /\ outbox[c] \in Seq(Reply) /\ inbox[c] \in Seq(Request) /\ Len(inbox[c]) \in Nat
  <2>1. phase[c] \in {"idle", "open"}
    BY <1>1 DEF Connect, Read, HangUp, Send
  <2>2. ~Gone(c)
    BY <2>1 DEF Gone
  <2> QED
    BY <1>3, <2>1, <2>2 DEF AnswersOK, Due, ReactorInv, TcpHas
<1>6. Cardinality(BodiesIn(Stream(c))) \in Nat /\ Cardinality(BodiesIn(got[c])) \in Nat
      /\ Cardinality(BodiesIn(got[c])) <= Cardinality(BodiesIn(Stream(c)))
  BY <1>5, Streams, BodiesAreFew, FewerBefore DEF Stream
<1>7. AnswersOK(c)'
  <2>1. CASE Connect(c)
    <3>1. phase'[c] = "open" /\ UNCHANGED <<sent, inbox, outbox, got>>
      BY <2>1 DEF Connect, ReactorInv, TcpHas
    <3>2. ~Gone(c)' /\ Stream(c)' = Stream(c)
      BY <3>1 DEF Gone, Stream
    <3> QED
      BY <1>1, <1>3, <1>5, <3>1, <3>2 DEF AnswersOK
  <2>2. CASE Read(c)
    <3>1. got'[c] = Stream(c) /\ outbox'[c] = <<>> /\ UNCHANGED <<phase, sent, inbox>>
      BY <2>2 DEF Read, Stream, ReactorInv, TcpHas
    <3>2. ~Gone(c)' /\ Stream(c)' = Stream(c)
      BY <1>5, <3>1, Streams DEF Gone, Stream
    <3> QED
      BY <1>1, <1>3, <1>5, <3>1, <3>2 DEF AnswersOK
  <2>3. CASE HangUp(c)
    <3>1. outbox'[c] = <<>> /\ UNCHANGED <<sent, inbox, got>>
      BY <2>3 DEF HangUp, ReactorInv, TcpHas
    <3>2. Gone(c)'
      BY <2>3 DEF HangUp, Gone, ReactorInv, TcpHas
    <3>3. Stream(c)' = got[c] /\ AfterHead(got[c]) /\ (failures = 0 => HeadsFollowed(got[c]))
      BY <1>5, <3>1, Streams DEF Stream
    <3>4. Cardinality(BodiesIn(got[c])) + Len(inbox[c]) + Due(c) <= sent[c]
      BY <1>5, <1>6
    <3> QED
      BY <1>1, <1>3, <1>5, <3>1, <3>2, <3>3, <3>4 DEF AnswersOK
  <2>4. CASE Send(c, "request")
    <3>1. inbox'[c] = Append(inbox[c], "request") /\ sent'[c] = sent[c] + 1 /\ UNCHANGED <<phase, outbox, got>>
      BY <2>4 DEF Send, ReactorInv, TcpHas
    <3>2. Len(inbox'[c]) = Len(inbox[c]) + 1
      BY <1>5, <3>1
    <3>3. ~Gone(c)' /\ Stream(c)' = Stream(c)
      BY <1>5, <3>1 DEF Gone, Stream
    <3>4. Cardinality(BodiesIn(Stream(c)))' + Len(inbox'[c]) + Due(c)' <= sent'[c]
      BY <1>5, <1>6, <3>1, <3>2, <3>3
    <3> QED
      BY <1>1, <1>3, <1>5, <3>1, <3>3, <3>4 DEF AnswersOK
  <2> QED
    BY <1>1, <2>1, <2>2, <2>3, <2>4
<1>8. WebConnOK'
  BY <1>1 DEF WebConnOK
<1>9. WebRudeCrash'
  <2>1. \A d \in Client : Gone(d) => d # c
    BY <1>5
  <2>2. \A d \in Client \ {c} : (Gone(d)' <=> Gone(d)) /\ got'[d] = got[d] /\ sent'[d] = sent[d]
    BY <1>3 DEF Gone
  <2> QED
    BY <1>3, <2>1, <2>2 DEF WebRudeCrash
<1> QED
  BY <1>2, <1>4, <1>7, <1>8, <1>9

\* A new connection has nothing to be answered: epoll watches it for IN.
LEMMA AcceptWebInv ==
  ASSUME WebAssumed, WebInv, Web!Dispatch(Listening, "IN"), Web!accept_cb, UNCHANGED failures
  PROVE  WebInv'
<1> USE DEF WebInv, WebAssumed
<1>1. Dispatch(Listening, "IN")
  BY WebSame
<1>2. CASE \E c \in Client, fd \in Fd :
             /\ accept(c, fd) /\ set_event(fd, "IN")
             /\ conn_list' = [conn_list EXCEPT ![fd].rbuffer = <<>>, ![fd].wbuffer = <<>>]
  <2>1. PICK c \in Client, fd \in Fd :
             /\ accept(c, fd) /\ set_event(fd, "IN")
             /\ conn_list' = [conn_list EXCEPT ![fd].rbuffer = <<>>, ![fd].wbuffer = <<>>]
    BY <1>2
  <2>2. ReactorInv(Request, Reply)'
    BY <1>1, <2>1, AcceptReactor
  <2>3. /\ owner[fd] = None /\ owner' = [owner EXCEPT ![fd] = c] /\ c \in backlog
        /\ interest' = [interest EXCEPT ![fd] = {"IN"}]
        /\ UNCHANGED <<phase, sent, inbox, outbox, got, spent, crashed>>
    BY <2>1 DEF accept, set_event
  <2>4. /\ conn_list' \in [Fd -> [rbuffer : Seq(Request), wbuffer : Seq(Reply), status : 0 .. 2]]
        /\ \A f \in Fd \ {fd} : conn_list'[f] = conn_list[f]
    <3> DEFINE Requests == Seq(Request)  Replies == Seq(Reply)
    <3>1. <<>> \in Requests /\ <<>> \in Replies
      OBVIOUS
    <3>2. conn_list \in [Fd -> [rbuffer : Requests, wbuffer : Replies, status : 0 .. 2]]
      BY DEF WebConnOK
    <3> HIDE DEF Requests, Replies
    <3>3. /\ conn_list' \in [Fd -> [rbuffer : Requests, wbuffer : Replies, status : 0 .. 2]]
          /\ \A f \in Fd \ {fd} : conn_list'[f] = conn_list[f]
      BY <2>1, <3>1, <3>2
    <3> QED
      BY <3>3 DEF Requests, Replies
  <2>5. /\ \A f \in Fd \ {fd} : owner'[f] = owner[f] /\ interest'[f] = interest[f]
        /\ owner'[fd] = c /\ interest'[fd] = {"IN"} /\ \A f \in Fd : owner[f] # c
    BY <2>3 DEF ReactorInv, TcpHas, Watched
  <2>6. WebConnOK'
    <3>1. {"IN"} # {"OUT"}
      OBVIOUS
    <3> QED
      BY <2>4, <2>5, <3>1 DEF WebConnOK
  <2>7. \A S : \A d \in Client : Answering(d, S)' <=> Answering(d, S)
    <3>1. {"IN"} # {"OUT"} /\ \A d \in Client : owner[fd] # d
      BY <2>3 DEF Assumed
    <3> QED
      BY <2>4, <2>5, <3>1 DEF Answering
  <2>8. \A d \in Client : AnswersOK(d)'
    BY <2>3, <2>7, AnswersSame
  <2>9. WebRudeCrash'
    BY <2>3 DEF WebRudeCrash, Gone
  <2> QED
    BY <2>2, <2>6, <2>8, <2>9
<1>3. CASE UNCHANGED <<tcpVars, conn_list, interest>>
  <2>1. ReactorInv(Request, Reply)'
    BY <1>1, <1>3, AcceptReactor
  <2>2. WebConnOK' /\ WebRudeCrash'
    BY <1>3 DEF WebConnOK, WebRudeCrash, Gone, tcpVars
  <2>3. \A d \in Client : AnswersOK(d)'
    BY <1>3, AnswersSame DEF tcpVars, Answering
  <2> QED
    BY <2>1, <2>2, <2>3
<1> QED
  BY <1>2, <1>3, WebSame DEF Web!accept_cb, Web!event_register

\* What is received is one request, however much it is.
LEMMA RecvWebInv ==
  ASSUME WebAssumed, WebInv, NEW fd \in Fd, Web!Dispatch(fd, "IN"), Web!recv_cb(fd), UNCHANGED failures
  PROVE  WebInv'
<1> USE DEF WebInv, WebAssumed
<1>1. Dispatch(fd, "IN") /\ interest[fd] = {"IN"} /\ owner[fd] \in Client /\ fd # Listening
  <2>1. fd # Listening
    BY DEF Assumed
  <2> QED
    BY <2>1, WebSame, InHandFacts
<1>2. PICK c \in Client : owner[fd] = c
  BY <1>1
<1>3. \A f \in Fd : f # fd => owner[f] # c
  BY <1>2 DEF ReactorInv, TcpHas, Assumed
<1>4. /\ AnswersOK(c) /\ ~Answering(c, {1}) /\ ~Answering(c, {0, 1}) /\ Due(c) = 0 /\ sent[c] \in Nat
      /\ got[c] \in Seq(Reply) /\ outbox[c] \in Seq(Reply) /\ Len(inbox[c]) \in Nat
      /\ Cardinality(BodiesIn(Stream(c))) \in Nat
  <2>1. {"IN"} # {"OUT"}
    OBVIOUS
  <2>2. ~Answering(c, {1}) /\ ~Answering(c, {0, 1})
    BY <1>1, <1>2, <1>3, <2>1 DEF Answering
  <2>3. got[c] \in Seq(Reply) /\ outbox[c] \in Seq(Reply) /\ Len(inbox[c]) \in Nat /\ sent[c] \in Nat
    BY DEF ReactorInv, TcpHas
  <2> QED
    BY <2>2, <2>3, Streams, BodiesAreFew DEF Due, Stream
<1>5. /\ AfterHead(Stream(c)) /\ (failures = 0 => HeadsFollowed(Stream(c)))
      /\ Cardinality(BodiesIn(Stream(c))) + Len(inbox[c]) <= sent[c]
      /\ Gone(c) => outbox[c] = <<>>
      /\ c \in spent => Gone(c) /\ Cardinality(BodiesIn(got[c])) < sent[c]
      /\ ~Gone(c) /\ failures = 0 => ~EndsIn(Stream(c), "head")
  <2>1. Cardinality(BodiesIn(Stream(c))) + Len(inbox[c]) + 0 <= sent[c]
    BY <1>4 DEF AnswersOK
  <2> QED
    BY <1>4, <2>1 DEF AnswersOK
<1>6. CASE \E n \in 1 .. Len(inbox[c]) :
             /\ recv(fd, n) /\ set_event(fd, "OUT")
             /\ conn_list' = [conn_list EXCEPT ![fd] = Web!http_request([@ EXCEPT !.rbuffer = Received(fd, n)])]
  <2>1. PICK n \in 1 .. Len(inbox[c]) :
             /\ recv(fd, n) /\ set_event(fd, "OUT")
             /\ conn_list' = [conn_list EXCEPT ![fd] = Web!http_request([@ EXCEPT !.rbuffer = Received(fd, n)])]
    BY <1>6
  <2>2. /\ ReactorInv(Request, Reply)' /\ Received(fd, n) \in Seq(Request)
        /\ interest' = [interest EXCEPT ![fd] = {"OUT"}] /\ interest'[fd] = {"OUT"}
        /\ n \in Nat /\ n > 0 /\ Len(inbox'[c]) = Len(inbox[c]) - n
        /\ \A d \in Client \ {c} : inbox'[d] = inbox[d]
        /\ UNCHANGED <<phase, backlog, owner, sent, outbox, got, spent, crashed>>
    BY <1>1, <1>2, <2>1, RecvReactor
  <2>3. /\ conn_list' \in [Fd -> [rbuffer : Seq(Request), wbuffer : Seq(Reply), status : 0 .. 2]]
        /\ conn_list'[fd].status = 0 /\ \A f \in Fd \ {fd} : conn_list'[f] = conn_list[f]
    <3> DEFINE Requests == Seq(Request)  Replies == Seq(Reply)
    <3>1. <<>> \in Replies /\ Received(fd, n) \in Requests
      BY <2>2
    <3>2. conn_list \in [Fd -> [rbuffer : Requests, wbuffer : Replies, status : 0 .. 2]]
      BY DEF WebConnOK
    <3> HIDE DEF Requests, Replies
    <3> DEFINE cn == Web!http_request([conn_list[fd] EXCEPT !.rbuffer = Received(fd, n)])
    <3>3. cn \in [rbuffer : Requests, wbuffer : Replies, status : 0 .. 2] /\ cn.status = 0
      <4> DEFINE with == [conn_list[fd] EXCEPT !.rbuffer = Received(fd, n)]
      <4>1. with \in [rbuffer : Requests, wbuffer : Replies, status : 0 .. 2]
        BY <3>1, <3>2
      <4> HIDE DEF with
      <4>2. cn = [with EXCEPT !.wbuffer = <<>>, !.status = 0]
        BY DEF Web!http_request, with
      <4>3. cn = [rbuffer |-> with.rbuffer, wbuffer |-> <<>>, status |-> 0]
        BY <4>1, <4>2
      <4>4. 0 \in 0 .. 2
        OBVIOUS
      <4> QED
        BY <3>1, <4>1, <4>3, <4>4
    <3>4. conn_list' = [conn_list EXCEPT ![fd] = cn]
      BY <2>1
    <3> HIDE DEF cn
    <3>5. /\ conn_list' \in [Fd -> [rbuffer : Requests, wbuffer : Replies, status : 0 .. 2]]
          /\ conn_list'[fd].status = 0 /\ \A f \in Fd \ {fd} : conn_list'[f] = conn_list[f]
      BY <3>2, <3>3, <3>4
    <3> QED
      BY <3>5 DEF Requests, Replies
  <2>4. \A f \in Fd \ {fd} : interest'[f] = interest[f]
    BY <2>2 DEF ReactorInv, Watched
  <2>5. WebConnOK'
    <3>1. \A f \in Fd : interest'[f] = {"OUT"} /\ conn_list'[f].status = 1 => conn_list'[f].wbuffer = <<"head">>
      <4> SUFFICES ASSUME NEW f \in Fd, interest'[f] = {"OUT"}, conn_list'[f].status = 1
                   PROVE  conn_list'[f].wbuffer = <<"head">>
        OBVIOUS
      <4>1. f # fd
        <5>1. conn_list'[fd].status = 0 /\ 0 # 1
          BY <2>3
        <5> QED
          BY <5>1
      <4>2. interest[f] = {"OUT"} /\ conn_list'[f] = conn_list[f]
        BY <2>3, <2>4, <4>1
      <4> QED
        BY <4>2 DEF WebConnOK
    <3> QED
      BY <2>3, <3>1 DEF WebConnOK
  <2>6. Due(c)' = 1 /\ ~Answering(c, {1})'
    BY <1>2, <1>3, <2>2, <2>3 DEF Due, Answering
  <2>7. AnswersOK(c)'
    <3>1. Stream(c)' = Stream(c) /\ (Gone(c)' <=> Gone(c))
      BY <2>2 DEF Stream, Gone
    <3>2. Cardinality(BodiesIn(Stream(c)))' + Len(inbox'[c]) + Due(c)' <= sent'[c]
      BY <1>4, <1>5, <2>2, <2>6, <3>1
    <3> QED
      BY <1>5, <2>2, <2>6, <3>1, <3>2 DEF AnswersOK
  <2>8. \A d \in Client \ {c} : AnswersOK(d)'
    BY <1>2, <2>2, <2>3, <2>4, OthersAnswered
  <2>9. WebRudeCrash'
    BY <2>2 DEF WebRudeCrash, Gone
  <2> QED
    BY <2>2, <2>5, <2>7, <2>8, <2>9
<1>7. CASE Gone(c) /\ close_and_del(fd) /\ UNCHANGED conn_list
  <2>1. /\ ReactorInv(Request, Reply)' /\ owner' = [owner EXCEPT ![fd] = None]
        /\ interest' = [interest EXCEPT ![fd] = {}]
        /\ UNCHANGED <<phase, backlog, sent, inbox, outbox, got, spent, crashed>>
    BY <1>1, <1>7, CloseReactor
  <2>2. /\ \A f \in Fd \ {fd} : owner'[f] = owner[f] /\ interest'[f] = interest[f]
        /\ owner'[fd] = None /\ interest'[fd] = {}
    BY <2>1 DEF ReactorInv, TcpHas, Watched
  <2>3. WebConnOK'
    <3>1. {"OUT"} # {}
      OBVIOUS
    <3> QED
      BY <1>7, <2>2, <3>1 DEF WebConnOK
  <2>4. ~Answering(c, {1})' /\ ~Answering(c, {0, 1})'
    BY <1>3, <2>2 DEF Answering, Assumed
  <2>5. AnswersOK(c)'
    <3>1. Answering(c, {1})' <=> Answering(c, {1})
      BY <1>4, <2>4
    <3>2. Answering(c, {0, 1})' <=> Answering(c, {0, 1})
      BY <1>4, <2>4
    <3> QED
      BY <2>1, <3>1, <3>2, AnswersSame
  <2>6. \A d \in Client \ {c} : AnswersOK(d)'
    BY <1>2, <1>7, <2>1, <2>2, OthersAnswered
  <2>7. WebRudeCrash'
    BY <2>1 DEF WebRudeCrash, Gone
  <2> QED
    BY <2>1, <2>3, <2>5, <2>6, <2>7
<1> QED
  <2>1. ASSUME NEW how \in {"closed", "reset"}, Web!AtEnd(fd, how)
        PROVE  Gone(c)
    BY <1>2, <2>1 DEF Web!AtEnd, Gone
  <2> QED
    BY <1>2, <1>6, <1>7, <2>1, WebSame DEF Web!recv_cb

(***************************************************************************)
(* What http_response makes of a record, and what is written with it: a    *)
(* head, before which there was none or after which open failed; the body  *)
(* after its head; or nothing.                                             *)
(***************************************************************************)
LEMMA Responses ==
  ASSUME NEW cn \in [rbuffer : Seq(Request), wbuffer : Seq(Reply), status : 0 .. 2], NEW opened \in BOOLEAN,
         cn.status = 1 => cn.wbuffer = <<"head">>
  PROVE  LET next == Web!http_response(cn, opened)
             w    == Web!Written(cn, opened)
         IN  /\ next \in [rbuffer : Seq(Request), wbuffer : Seq(Reply), status : 0 .. 2]
             /\ \/ w = <<"head">> /\ cn.status \in {0, 1} /\ next.status = 1 /\ next.wbuffer = <<"head">>
                   /\ (cn.status = 1 => ~opened)
                \/ w = <<"body">> /\ cn.status = 1 /\ next.status = 2
                \/ w = <<>> /\ cn.status \in {0, 2} /\ next.status \in {0, 2}
             /\ Web!NextEvent(next) = IF next.status = 0 THEN "IN" ELSE "OUT"
<1> DEFINE Requests == Seq(Request)  Replies == Seq(Reply)
           Record == [rbuffer : Requests, wbuffer : Replies, status : 0 .. 2]
           next == Web!http_response(cn, opened)  w == Web!Written(cn, opened)
           Answers(n, v) ==
             /\ n \in Record
             /\ \/ v = <<"head">> /\ cn.status \in {0, 1} /\ n.status = 1 /\ n.wbuffer = <<"head">>
                   /\ (cn.status = 1 => ~opened)
                \/ v = <<"body">> /\ cn.status = 1 /\ n.status = 2
                \/ v = <<>> /\ cn.status \in {0, 2} /\ n.status \in {0, 2}
             /\ Web!NextEvent(n) = IF n.status = 0 THEN "IN" ELSE "OUT"
<1>1. <<>> \in Replies /\ <<"head">> \in Replies
  BY DEF Reply
<1> HIDE DEF Requests, Replies
<1>2. cn \in Record /\ cn.status \in {0, 1, 2} /\ 1 \in 0 .. 2 /\ 2 \in 0 .. 2 /\ 0 \in 0 .. 2
  BY DEF Requests, Replies
<1>3. CASE opened /\ cn.status = 0
  <2>1. next = [cn EXCEPT !.wbuffer = <<"head">>, !.status = 1]
    BY <1>3 DEF Web!http_response
  <2>2. next = [rbuffer |-> cn.rbuffer, wbuffer |-> <<"head">>, status |-> 1]
    BY <1>2, <2>1
  <2>3. next \in Record /\ next.wbuffer = <<"head">> /\ next.status = 1 /\ cn.status # 1 /\ next.status # 0
    <3>1. next \in Record /\ next.wbuffer = <<"head">> /\ next.status = 1
      BY <1>1, <1>2, <2>2
    <3> HIDE DEF next
    <3> QED
      BY <1>3, <3>1
  <2>4. w = <<"head">>
    BY <2>3 DEF Web!Written
  <2>5. Web!NextEvent(next) = "OUT"
    BY <2>3 DEF Web!NextEvent
  <2> HIDE DEF next, w
  <2>6. Answers(next, w)
    BY <1>2, <1>3, <2>3, <2>4, <2>5
  <2> QED
    BY <2>6 DEF next, w, Requests, Replies
<1>4. CASE opened /\ cn.status = 1
  <2>1. next = [cn EXCEPT !.status = 2] /\ w = <<"body">>
    BY <1>4 DEF Web!http_response, Web!Written
  <2>2. next = [rbuffer |-> cn.rbuffer, wbuffer |-> cn.wbuffer, status |-> 2]
    BY <1>2, <2>1
  <2>3. next \in Record /\ next.status = 2 /\ next.status # 0
    BY <1>1, <1>2, <2>2
  <2>4. Web!NextEvent(next) = "OUT"
    BY <2>3 DEF Web!NextEvent
  <2> HIDE DEF next, w
  <2>5. Answers(next, w)
    BY <1>2, <1>4, <2>1, <2>3, <2>4
  <2> QED
    BY <2>5 DEF next, w, Requests, Replies
<1>5. CASE opened /\ cn.status = 2
  <2>1. next = [cn EXCEPT !.wbuffer = <<>>, !.status = 0]
    BY <1>5 DEF Web!http_response
  <2>2. next = [rbuffer |-> cn.rbuffer, wbuffer |-> <<>>, status |-> 0]
    BY <1>2, <2>1
  <2>3. next \in Record /\ next.status = 0 /\ cn.status # 1 /\ next.status # 1
    <3>1. next \in Record /\ next.status = 0
      BY <1>1, <1>2, <2>2
    <3> HIDE DEF next
    <3> QED
      BY <1>5, <3>1
  <2>4. w = <<>>
    BY <2>3 DEF Web!Written
  <2>5. Web!NextEvent(next) = "IN"
    BY <2>3 DEF Web!NextEvent
  <2> HIDE DEF next, w
  <2>6. Answers(next, w)
    BY <1>2, <1>5, <2>3, <2>4, <2>5
  <2> QED
    BY <2>6 DEF next, w, Requests, Replies
<1>6. CASE ~opened
  <2>1. next = cn
    BY <1>6 DEF Web!http_response
  <2>2. w = IF cn.status = 1 THEN <<"head">> ELSE <<>>
    BY <1>6, <2>1 DEF Web!Written
  <2>3. Web!NextEvent(next) = IF next.status = 0 THEN "IN" ELSE "OUT"
    BY DEF Web!NextEvent
  <2> HIDE DEF next, w
  <2>4. Answers(next, w)
    BY <1>2, <1>6, <2>1, <2>2, <2>3
  <2> QED
    BY <2>4 DEF next, w, Requests, Replies
<1> QED
  BY <1>2, <1>3, <1>4, <1>5, <1>6

\* What is written to a client is what its record says is due to it.
LEMMA SendWebInv ==
  ASSUME WebAssumed, WebInv, NEW fd \in Fd, Web!Dispatch(fd, "OUT"), Web!send_cb(fd)
  PROVE  WebInv'
<1> USE DEF WebInv, WebAssumed
<1>1. Dispatch(fd, "OUT") /\ interest[fd] = {"OUT"} /\ owner[fd] \in Client
  <2>1. fd # Listening
    BY DEF Assumed
  <2> QED
    BY <2>1, WebSame, InHandFacts
<1>2. PICK c \in Client : owner[fd] = c
  BY <1>1
<1>3. PICK opened \in BOOLEAN :
        /\ opened \/ failures < MaxFailures
        /\ failures' = IF opened THEN failures ELSE failures + 1
        /\ IF Web!Written(conn_list[fd], opened) = <<>> THEN UNCHANGED tcpVars
           ELSE send(fd, Web!Written(conn_list[fd], opened))
        /\ conn_list' = [conn_list EXCEPT ![fd] = Web!http_response(conn_list[fd], opened)]
        /\ set_event(fd, Web!NextEvent(Web!http_response(conn_list[fd], opened)))
  BY WebSame DEF Web!send_cb
<1> DEFINE cn == conn_list[fd]  next == Web!http_response(cn, opened)  w == Web!Written(cn, opened)
           Record == [rbuffer : Seq(Request), wbuffer : Seq(Reply), status : 0 .. 2]
           Bodies(s) == Cardinality(BodiesIn(s))
<1>4. /\ conn_list \in [Fd -> Record] /\ next \in Record
      /\ \/ w = <<"head">> /\ cn.status \in {0, 1} /\ next.status = 1 /\ next.wbuffer = <<"head">>
            /\ (cn.status = 1 => ~opened)
         \/ w = <<"body">> /\ cn.status = 1 /\ next.status = 2
         \/ w = <<>> /\ cn.status \in {0, 2} /\ next.status \in {0, 2}
      /\ Web!NextEvent(next) = IF next.status = 0 THEN "IN" ELSE "OUT"
  <2>1. conn_list \in [Fd -> Record] /\ cn \in Record
    BY DEF WebConnOK
  <2>2. cn.status = 1 => cn.wbuffer = <<"head">>
    BY <1>1 DEF WebConnOK
  <2> QED
    BY <2>1, <2>2, Responses
<1>5. /\ failures \in Nat /\ failures' \in 0 .. MaxFailures /\ (failures' = 0 => failures = 0 /\ opened)
  BY <1>3 DEF WebConnOK
<1>6. w \in Seq(Reply) /\ (send(fd, w) \/ UNCHANGED tcpVars) /\ (~send(fd, w) => w = <<>>)
      /\ (w # <<>> => \E x \in Reply : w = <<x>>)
  <2>1. "head" \in Reply /\ "body" \in Reply /\ \A x \in Reply : <<x>> \in Seq(Reply)
    BY DEF Reply
  <2>2. <<>> \in Seq(Reply)
    OBVIOUS
  <2> HIDE DEF w, next
  <2>3. w \in Seq(Reply) /\ (w # <<>> => \E x \in Reply : w = <<x>>)
    BY <1>4, <2>1, <2>2
  <2> QED
    BY <1>3, <2>3 DEF w
<1>7. PICK e \in {"IN", "OUT"} : Web!NextEvent(next) = e /\ set_event(fd, e)
  BY <1>3, <1>4
<1>8. /\ conn_list' = [conn_list EXCEPT ![fd] = next] /\ conn_list'[fd] = next
      /\ conn_list' \in [Fd -> Record] /\ \A f \in Fd \ {fd} : conn_list'[f] = conn_list[f]
  <2>1. conn_list' = [conn_list EXCEPT ![fd] = next]
    BY <1>3
  <2> HIDE DEF next, Record
  <2> QED
    BY <1>4, <2>1
<1> HIDE DEF next, w, Record
<1>9. /\ ReactorInv(Request, Reply)'
      /\ interest' = [interest EXCEPT ![fd] = {e}] /\ interest'[fd] = {e}
      /\ UNCHANGED <<phase, backlog, owner, sent, inbox, got>>
      /\ \A d \in Client \ {c} : outbox'[d] = outbox[d]
      /\ spent' \subseteq spent \cup {c}
      /\ \/ /\ ~Gone(c) /\ outbox'[c] = outbox[c] \o w /\ UNCHANGED <<spent, crashed>>
         \/ /\ Gone(c) /\ outbox' = outbox /\ crashed' = crashed
         \/ c \in spent /\ crashed' /\ UNCHANGED <<outbox, spent>>
         \/ UNCHANGED tcpVars /\ ~send(fd, w)
  <2>1. send(fd, w) \/ UNCHANGED tcpVars
    BY <1>6
  <2>2. set_event(fd, e)
    BY <1>7
  <2> HIDE DEF WebInv
  <2>3. /\ ReactorInv(Request, Reply)'
        /\ interest' = [interest EXCEPT ![fd] = {e}] /\ interest'[fd] = {e}
        /\ UNCHANGED <<phase, backlog, owner, sent, inbox, got>>
        /\ \A d \in Client \ {owner[fd]} : outbox'[d] = outbox[d]
        /\ spent' \subseteq spent \cup {owner[fd]}
        /\ \/ /\ ~Gone(owner[fd]) /\ outbox'[owner[fd]] = outbox[owner[fd]] \o w /\ UNCHANGED <<spent, crashed>>
           \/ /\ Gone(owner[fd]) /\ outbox' = outbox /\ crashed' = crashed
           \/ owner[fd] \in spent /\ crashed' /\ UNCHANGED <<outbox, spent>>
           \/ UNCHANGED tcpVars /\ ~send(fd, w)
    <3>1. Assumed /\ ReactorInv(Request, Reply)
      BY DEF WebInv
    <3>2. w \in Seq(Reply)
      BY <1>6
    <3> QED
      BY <1>1, <2>1, <2>2, <3>1, <3>2, SendReactor
  <2> QED
    BY <1>2, <2>3
<1>10. \A f \in Fd \ {fd} : interest'[f] = interest[f] /\ owner[f] # c
  BY <1>2, <1>9 DEF ReactorInv, Watched, TcpHas, Assumed
<1>11. WebConnOK'
  <2>1. \A f \in Fd : interest'[f] = {"OUT"} /\ conn_list'[f].status = 1 => conn_list'[f].wbuffer = <<"head">>
    <3>1. next.status = 1 => next.wbuffer = <<"head">>
      BY <1>4
    <3> QED
      BY <1>8, <1>10, <3>1 DEF WebConnOK
  <2> QED
    BY <1>5, <1>8, <2>1 DEF WebConnOK, Record
<1>12. /\ Answering(c, {1}) <=> cn.status = 1
       /\ Answering(c, {0, 1}) <=> cn.status \in {0, 1}
       /\ Answering(c, {1})' <=> next.status = 1
       /\ Answering(c, {0, 1})' <=> next.status = 1
  <2>1. /\ Answering(c, {1}) <=> cn.status = 1
        /\ Answering(c, {0, 1}) <=> cn.status \in {0, 1}
    BY <1>1, <1>2, <1>10 DEF Answering
  <2>2. next.status \in {0, 1} /\ interest'[fd] = {"OUT"} <=> next.status = 1
    BY <1>4, <1>7, <1>9
  <2>3. \A f \in Fd \ {fd} : owner'[f] # c /\ owner'[fd] = c
    BY <1>2, <1>9, <1>10
  <2>4. Answering(c, {1})' <=> interest'[fd] = {"OUT"} /\ next.status = 1
    BY <1>2, <1>8, <1>9, <2>3 DEF Answering
  <2>5. Answering(c, {0, 1})' <=> interest'[fd] = {"OUT"} /\ next.status \in {0, 1}
    BY <1>2, <1>8, <1>9, <2>3 DEF Answering
  <2> QED
    BY <2>1, <2>2, <2>4, <2>5
<1>13. /\ AfterHead(Stream(c)) /\ (failures = 0 => HeadsFollowed(Stream(c)))
       /\ Bodies(Stream(c)) + Len(inbox[c]) + Due(c) <= sent[c]
       /\ Gone(c) => outbox[c] = <<>>
       /\ c \in spent => Gone(c) /\ Bodies(got[c]) < sent[c]
       /\ ~Gone(c) /\ cn.status = 1 => EndsIn(Stream(c), "head")
       /\ ~Gone(c) /\ failures = 0 /\ EndsIn(Stream(c), "head") => cn.status = 1
       /\ Due(c) = (IF cn.status \in {0, 1} THEN 1 ELSE 0) /\ Due(c)' = (IF next.status = 1 THEN 1 ELSE 0)
  BY <1>12 DEF AnswersOK, Due
<1>14. /\ got[c] \in Seq(Reply) /\ outbox[c] \in Seq(Reply) /\ Len(inbox[c]) \in Nat /\ sent[c] \in Nat
       /\ Stream(c) \in Seq(Reply) /\ Bodies(Stream(c)) \in Nat /\ got[c] \o <<>> = got[c]
  <2>1. got[c] \in Seq(Reply) /\ outbox[c] \in Seq(Reply) /\ Len(inbox[c]) \in Nat /\ sent[c] \in Nat
    BY DEF ReactorInv, TcpHas
  <2> QED
    BY <2>1, Streams, BodiesAreFew DEF Stream
<1>15. (Gone(c)' <=> Gone(c)) /\ got'[c] = got[c] /\ sent'[c] = sent[c] /\ inbox'[c] = inbox[c]
  BY <1>9 DEF Gone
<1>16. AnswersOK(c)'
  <2>1. CASE w = <<>>
    <3>1. outbox' = outbox /\ spent' = spent
      BY <1>3, <2>1 DEF w, tcpVars
    <3>2. Stream(c)' = Stream(c)
      BY <1>15, <3>1 DEF Stream
    <3>3. cn.status # 1 /\ next.status # 1
      BY <1>4, <2>1
    <3>4. Bodies(Stream(c)) + Len(inbox[c]) <= sent[c] /\ Due(c)' = 0
      BY <1>13, <1>14, <3>3
    <3>5. Bodies(Stream(c))' + Len(inbox'[c]) + Due(c)' <= sent'[c]
      BY <1>14, <1>15, <3>2, <3>4
    <3> QED
      BY <1>5, <1>12, <1>13, <1>15, <3>1, <3>2, <3>3, <3>5 DEF AnswersOK
  <2>2. CASE w # <<>> /\ ~Gone(c)
    <3>1. outbox'[c] = outbox[c] \o w /\ spent' = spent /\ c \notin spent
      BY <1>6, <1>9, <1>13, <2>2
    <3>2. PICK x \in Reply : w = <<x>>
      BY <1>6, <2>2
    <3>3. Stream(c)' = Append(Stream(c), x)
      <4>1. got[c] \o (outbox[c] \o <<x>>) = Append(got[c] \o outbox[c], x)
        BY <1>14, Streams
      <4> QED
        BY <1>15, <3>1, <3>2, <4>1 DEF Stream
    <3>4. CASE x = "head"
      <4>1. w = <<"head">> /\ cn.status \in {0, 1} /\ next.status = 1 /\ (cn.status = 1 => ~opened)
        BY <1>4, <3>2, <3>4
      <4>2. failures' = 0 => failures = 0 /\ ~EndsIn(Stream(c), "head")
        BY <1>5, <1>13, <2>2, <4>1
      <4>3. /\ AfterHead(Stream(c)') /\ EndsIn(Stream(c)', "head") /\ Bodies(Stream(c)') = Bodies(Stream(c))
            /\ failures' = 0 => HeadsFollowed(Stream(c)')
        BY <1>13, <1>14, <3>3, <3>4, <4>2, ReplyAppended
      <4>4. Bodies(Stream(c)') + Len(inbox'[c]) + Due(c)' <= sent'[c]
        BY <1>13, <1>14, <1>15, <4>1, <4>3
      <4> QED
        BY <1>12, <1>15, <2>2, <3>1, <4>1, <4>3, <4>4 DEF AnswersOK
    <3>5. CASE x = "body"
      <4>1. cn.status = 1 /\ next.status # 1
        BY <1>4, <3>2, <3>5
      <4>2. EndsIn(Stream(c), "head")
        BY <1>13, <2>2, <4>1
      <4>3. /\ AfterHead(Stream(c)') /\ EndsIn(Stream(c)', "body") /\ Bodies(Stream(c)') = Bodies(Stream(c)) + 1
            /\ failures' = 0 => HeadsFollowed(Stream(c)')
        BY <1>5, <1>13, <1>14, <3>3, <3>5, <4>2, ReplyAppended
      <4>4. ~EndsIn(Stream(c)', "head")
        BY <4>3 DEF EndsIn
      <4>5. Bodies(Stream(c)') + Len(inbox'[c]) + Due(c)' <= sent'[c]
        BY <1>13, <1>14, <1>15, <4>1, <4>3
      <4> QED
        BY <1>12, <1>15, <2>2, <3>1, <4>1, <4>3, <4>4, <4>5 DEF AnswersOK
    <3> QED
      BY <3>4, <3>5 DEF Reply
  <2>3. CASE w # <<>> /\ Gone(c)
    <3>1. outbox' = outbox /\ outbox[c] = <<>>
      BY <1>6, <1>9, <1>13, <2>3
    <3>2. Stream(c)' = Stream(c) /\ Stream(c) = got[c]
      BY <1>14, <1>15, <3>1 DEF Stream
    <3>3. Due(c) = 1 /\ Due(c)' \in {0, 1}
      BY <1>4, <1>13, <2>3
    <3>4. Bodies(got[c]) < sent[c] /\ Bodies(Stream(c)) + Len(inbox[c]) + Due(c)' <= sent[c]
      BY <1>13, <1>14, <3>2, <3>3
    <3> QED
      BY <1>5, <1>13, <1>15, <2>3, <3>1, <3>2, <3>4 DEF AnswersOK
  <2> QED
    BY <2>1, <2>2, <2>3
<1>17. \A d \in Client \ {c} : AnswersOK(d)'
  BY <1>2, <1>5, <1>8, <1>9, <1>10, OthersAnswered
<1>18. WebRudeCrash'
  <2>1. crashed' => crashed \/ c \in spent
    BY <1>9 DEF tcpVars
  <2>2. \A d \in Client : (Gone(d)' <=> Gone(d)) /\ got'[d] = got[d] /\ sent'[d] = sent[d]
    BY <1>9 DEF Gone
  <2> QED
    BY <1>13, <2>1, <2>2 DEF WebRudeCrash
<1> QED
  BY <1>9, <1>11, <1>16, <1>17, <1>18

\* Every step.
LEMMA NextWebInv ==
  ASSUME WebAssumed, WebInv, [Web!Next]_(Web!vars)
  PROVE  WebInv'
<1>1. CASE Web!main
  <2>1. Web!Listening = Listening
    BY DEF Web!Listening, Listening
  <2> QED
    BY <1>1, <2>1, EpollWaitWebInv, AcceptWebInv, RecvWebInv, SendWebInv DEF Web!main
<1>2. CASE Web!Clients
  BY <1>2, ClientsWebInv
<1>3. CASE UNCHANGED Web!vars
  <2>1. UNCHANGED <<phase, backlog, owner, sent, inbox, outbox, got, spent, crashed, conn_list, interest, evs, failures>>
    BY <1>3 DEF Web!vars, Web!tcpVars, Web!reactorVars
  <2>2. TcpHas(Request, Reply)' /\ Watched' /\ EvsOK' /\ EventsHold' /\ WebConnOK' /\ WebRudeCrash'
    BY <2>1 DEF WebInv, ReactorInv, TcpHas, Watched, EvsOK, EventsHold, Readable, Writable, Gone, WebConnOK,
                WebRudeCrash
  <2>3. \A d \in Client : AnswersOK(d)'
    BY <2>1, AnswersSame DEF WebInv, Answering
  <2> QED
    BY <2>2, <2>3 DEF WebInv, ReactorInv
<1> QED
  BY <1>1, <1>2, <1>3 DEF Web!Next

(***************************************************************************)
(* The callbacks of the web server are called for events that still hold;  *)
(* what a client is sent are answers, the body of each right after its     *)
(* head and no more of them than it asked for, even when open fails; and   *)
(* the server ends only because of a client that left without its answer.  *)
(***************************************************************************)
THEOREM WebAnswers ==
  ASSUME None \notin Client, IsFiniteSet(Fd), Fd \subseteq Nat \ {Listening}, Room \in Nat, MaxFailures \in Nat
  PROVE  Web!Spec => [](Web!TypeOK /\ Web!EventsHold /\ Web!Answers /\ Web!OnlyRudeCrash)
<1>1. Web!Init => WebInv
  BY InitWebInv DEF WebAssumed, Assumed
<1>2. WebInv /\ [Web!Next]_(Web!vars) => WebInv'
  BY NextWebInv DEF WebAssumed, Assumed
<1>3. WebInv => Web!TypeOK /\ Web!EventsHold /\ Web!Answers /\ Web!OnlyRudeCrash
  <2> SUFFICES ASSUME WebInv
               PROVE  Web!TypeOK /\ Web!EventsHold /\ Web!Answers /\ Web!OnlyRudeCrash
    OBVIOUS
  <2> USE DEF WebInv, ReactorInv
  <2>1. Web!TcpTypeOK
    BY DEF TcpHas, Web!TcpTypeOK, Web!None, None
  <2>2. /\ DOMAIN conn_list = Fd /\ \A fd \in Fd : conn_list[fd].status \in 0 .. 2
        /\ failures \in 0 .. MaxFailures
    BY DEF WebConnOK
  <2>3. \A k \in 1 .. Len(evs) : evs[k].fd \in Fd \cup {Web!Listening}
    BY EvsName DEF Web!Listening, Listening
  <2>4. Web!TypeOK
    BY <2>1, <2>2, <2>3 DEF Watched, Web!TypeOK, Web!ReactorTypeOK, Web!None, None
  <2>5. Web!EventsHold
    BY DEF EventsHold, Web!EventsHold, Web!Listening, Listening, Web!Readable, Readable, Web!Writable, Writable,
           Web!Gone, Gone, Web!None, None
  <2>6. \A s : Web!Bodies(s) = Cardinality(BodiesIn(s))
    BY DEF Web!Bodies, BodiesIn, Web!Cardinality, Cardinality
  <2>7. \A c \in Client : Cardinality(BodiesIn(Stream(c))) <= sent[c]
    <3> SUFFICES ASSUME NEW c \in Client
                 PROVE  Cardinality(BodiesIn(Stream(c))) <= sent[c]
      OBVIOUS
    <3>1. got[c] \in Seq(Reply) /\ outbox[c] \in Seq(Reply) /\ Len(inbox[c]) \in Nat /\ sent[c] \in Nat
      BY DEF TcpHas
    <3>2. Cardinality(BodiesIn(Stream(c))) \in Nat /\ Due(c) \in Nat
      BY <3>1, Streams, BodiesAreFew DEF Stream, Due
    <3>3. Cardinality(BodiesIn(Stream(c))) + Len(inbox[c]) + Due(c) <= sent[c]
      BY DEF AnswersOK
    <3> QED
      BY <3>1, <3>2, <3>3
  <2>8. Web!Answers
    BY <2>6, <2>7 DEF AnswersOK, AfterHead, HeadsFollowed, Stream, Web!Answers
  <2>9. Web!OnlyRudeCrash
    BY <2>6 DEF WebRudeCrash, Web!OnlyRudeCrash, Web!Gone, Gone
  <2> QED
    BY <2>4, <2>5, <2>8, <2>9
<1> QED
  BY <1>1, <1>2, <1>3, PTL DEF Web!Spec

--------------------------------------------------------------------------------
(***************************************************************************)
(* WebSocket.                                                              *)
(***************************************************************************)
WsFrame == {WS!Upgrade} \cup {WS!Frame(c, k, len) : c \in Client, k \in Nat, len \in Nat}
WsReply == {WS!SwitchingProtocols} \cup {WS!encode_packet(WS!decode_packet(f)) : f \in WsFrame}

\* The j-th thing client c sends, and the echo of its k-th message.
Sent(c, j) == IF j = 1 THEN WS!Upgrade ELSE WS!Frame(c, j - 1, Messages[c][j - 1])
EchoOf(c, k) == [len |-> Messages[c][k], text |-> <<c, k>>]

\* How much of it the server has received, and what it is about to send back.
Taken(c) == sent[c] - Len(inbox[c])
Pending(fd) == IF interest[fd] = {"OUT"} THEN conn_list[fd].wbuffer ELSE <<>>

(***************************************************************************)
(* What a client that has sent m things is sent, s, when n of them have    *)
(* been taken: each element stands for one that was taken, and the numbers *)
(* of the echoes, which no later one can have, go up.                      *)
(***************************************************************************)
Short(c, m) == \A k \in 1 .. m - 1 : Messages[c][k] < 126
MadeOf(s, c, n, m) ==
  /\ Len(s) <= n
  /\ s # <<>> => s[1] = WS!SwitchingProtocols
  /\ Short(c, m) => \A k \in 2 .. Len(s) :
       /\ \E j \in 1 .. n - 1 : s[k] = EchoOf(c, j)
       /\ k > 2 => s[k - 1].text[2] < s[k].text[2]

WsConnOK ==
  /\ conn_list \in [Fd -> [rbuffer : Seq(WsFrame), wbuffer : Seq(WsReply), status : 0 .. 2]]
  /\ \A fd \in Fd : interest[fd] = {"OUT"} => Len(conn_list[fd].wbuffer) = 1

(***************************************************************************)
(* The frames arrive in order.  A client sends none before its upgrade is  *)
(* answered, so that an echo is never the first thing it is sent.          *)
(***************************************************************************)
FramesOK(c) ==
  /\ Taken(c) \in Nat /\ \A k \in 1 .. Len(inbox[c]) : inbox[c][k] = Sent(c, Taken(c) + k)
  /\ sent[c] <= Len(Messages[c]) + 1 /\ (sent[c] > 1 => got[c] # <<>>)
  /\ phase[c] = "idle" \/ c \in backlog => Taken(c) = 0

EchoesOK(c) ==
  /\ FramesOK(c) /\ MadeOf(Stream(c), c, Taken(c), sent[c])
  /\ Gone(c) => outbox[c] = <<>>
  /\ c \in spent => Gone(c) /\ Len(got[c]) < sent[c]

\* The status of a record is 0 until the upgrade is received.
SessionOK(fd, c) ==
  /\ conn_list[fd].status = IF Taken(c) = 0 THEN 0 ELSE 1
  /\ Len(Stream(c)) + Len(Pending(fd)) <= Taken(c)
  /\ ~Gone(c) => MadeOf(Stream(c) \o Pending(fd), c, Taken(c), sent[c])

WsRudeCrash == crashed => \E c \in Client : Gone(c) /\ Len(got[c]) < sent[c]

WsInv ==
  /\ ReactorInv(WsFrame, WsReply) /\ WsConnOK /\ WsRudeCrash
  /\ \A c \in Client : EchoesOK(c)
  /\ \A fd \in Fd, c \in Client : owner[fd] = c => SessionOK(fd, c)

WsAssumed == Assumed /\ Messages \in [Client -> Seq(Nat)]

\* The connections, the clients and the events are those of Reactor here too.
LEMMA WsSame ==
  /\ WS!epoll_wait => epoll_wait
  /\ \A fd, e : (WS!Dispatch(fd, e) => Dispatch(fd, e)) /\ (WS!set_event(fd, e) => set_event(fd, e))
  /\ \A c : (WS!Connect(c) => Connect(c)) /\ (WS!Read(c) => Read(c)) /\ (WS!HangUp(c) => HangUp(c))
  /\ \A c, x : WS!Send(c, x) => Send(c, x)
  /\ \A c, fd : WS!accept(c, fd) => accept(c, fd)
  /\ \A fd, n : (WS!recv(fd, n) => recv(fd, n)) /\ WS!Received(fd, n) = Received(fd, n)
  /\ \A fd : WS!close_and_del(fd) => close_and_del(fd)
  /\ \A fd, s : WS!send(fd, s) <=> send(fd, s)
  /\ UNCHANGED WS!tcpVars <=> UNCHANGED tcpVars
<1>1. WS!None = None /\ WS!Listening = Listening /\ (UNCHANGED WS!tcpVars <=> UNCHANGED tcpVars) /\ \A c : WS!Gone(c) <=> Gone(c)
  BY DEF WS!None, None, WS!Listening, Listening, WS!tcpVars, tcpVars, WS!Gone, Gone
<1>2. WS!Events = Events
  <2>1. \A fd : (WS!Readable(fd) <=> Readable(fd)) /\ (WS!Writable(fd) <=> Writable(fd))
    BY <1>1 DEF WS!Readable, Readable, WS!Writable, Writable
  <2>2. \A fd : WS!Reported(fd) = Reported(fd)
    BY <2>1 DEF WS!Reported, Reported
  <2> QED
    BY <1>1, <2>2 DEF WS!Events, Events
<1>3. WS!epoll_wait => epoll_wait
  <2>1. \A S : WS!Cardinality(S) = Cardinality(S)
    BY DEF WS!Cardinality, Cardinality
  <2>2. \A S : WS!SetToSeqs(S) = SetToSeqs(S)
    BY <2>1 DEF WS!SetToSeqs, SetToSeqs
  <2> QED
    BY <1>1, <1>2, <2>2 DEF WS!epoll_wait, epoll_wait, WS!tcpVars, tcpVars
<1>4. \A fd, e : (WS!Dispatch(fd, e) => Dispatch(fd, e)) /\ (WS!set_event(fd, e) => set_event(fd, e))
  BY DEF WS!Dispatch, Dispatch, WS!set_event, set_event
<1>5. /\ \A c : (WS!Connect(c) => Connect(c)) /\ (WS!Read(c) => Read(c)) /\ (WS!HangUp(c) => HangUp(c))
      /\ \A c, x : WS!Send(c, x) => Send(c, x)
  BY DEF WS!Connect, Connect, WS!Read, Read, WS!HangUp, HangUp, WS!Send, Send
<1>6. /\ \A c, fd : WS!accept(c, fd) => accept(c, fd)
      /\ \A fd, n : (WS!recv(fd, n) => recv(fd, n)) /\ WS!Received(fd, n) = Received(fd, n)
  BY <1>1 DEF WS!accept, accept, WS!recv, recv, WS!Received, Received
<1>7. \A fd : WS!close_and_del(fd) => close_and_del(fd)
  BY <1>1 DEF WS!close_and_del, close_and_del, WS!close, close
<1>8. \A fd, s : WS!send(fd, s) <=> send(fd, s)
  BY <1>1 DEF WS!send, send, WS!Crash, Crash
<1> QED
  BY <1>1, <1>3, <1>4, <1>5, <1>6, <1>7, <1>8

\* What a client sends is well formed, and a short text is echoed whole.
LEMMA FrameSent ==
  ASSUME WsAssumed, NEW c \in Client, NEW j \in Nat, 0 < j, j <= Len(Messages[c]) + 1
  PROVE  Sent(c, j) \in WsFrame
<1>1. CASE j = 1
  BY <1>1 DEF Sent, WsFrame
<1>2. CASE j # 1
  <2>1. j - 1 \in Nat /\ j - 1 \in 1 .. Len(Messages[c]) /\ Messages[c][j - 1] \in Nat
    BY <1>2 DEF WsAssumed
  <2> QED
    BY <1>2, <2>1 DEF Sent, WsFrame
<1> QED
  BY <1>1, <1>2

LEMMA ShortEchoed ==
  ASSUME NEW c, NEW j \in Nat, j > 1, Messages[c][j - 1] \in Nat, Messages[c][j - 1] < 126
  PROVE  WS!encode_packet(WS!decode_packet(Sent(c, j))) = EchoOf(c, j - 1)
<1> DEFINE len == Messages[c][j - 1]  f == Sent(c, j)
<1>1. WS!Extension(len) = 0 /\ WS!Code(len) = len
  <2>1. PICK most \in Nat : most = 65535
    OBVIOUS
  <2>2. WS!Extension(len) = CASE len < 126 -> 0 [] len \in 126 .. most -> 2 [] OTHER -> 8
    BY <2>1 DEF WS!Extension
  <2>3. len \notin 126 .. most
    OBVIOUS
  <2>4. WS!Extension(len) = 0
    BY <2>2, <2>3
  <2> QED
    BY <2>4 DEF WS!Code
<1>2. f.text = <<c, j - 1>> /\ f.code = len /\ f.start = 6
  BY <1>1 DEF Sent, WS!Frame
<1> HIDE DEF f
<1>3. WS!decode_packet(f) = [size |-> len, text |-> <<c, j - 1>>]
  BY <1>2 DEF WS!decode_packet
<1> QED
  BY <1>3 DEF WS!encode_packet, EchoOf, f

\* More may be taken and sent, and what is sent back last may be lost.
LEMMA MadeLater ==
  ASSUME NEW s \in Seq(WsReply), NEW c, NEW n \in Nat, NEW m \in Nat, NEW n2 \in Nat, NEW m2 \in Nat,
         n <= n2, m <= m2, MadeOf(s, c, n, m)
  PROVE  MadeOf(s, c, n2, m2)
<1>1. Short(c, m2) => Short(c, m)
  BY DEF Short
<1>2. \A j \in 1 .. n - 1 : j \in 1 .. n2 - 1
  OBVIOUS
<1>3. Len(s) <= n2
  BY DEF MadeOf
<1> QED
  BY <1>1, <1>2, <1>3 DEF MadeOf

LEMMA MadeBefore ==
  ASSUME NEW s \in Seq(WsReply), NEW t \in Seq(WsReply), NEW c, NEW n \in Nat, NEW m \in Nat,
         MadeOf(s \o t, c, n, m)
  PROVE  MadeOf(s, c, n, m)
<1>1. /\ s \o t \in Seq(WsReply) /\ Len(s) \in Nat /\ Len(s \o t) = Len(s) + Len(t) /\ Len(t) \in Nat
      /\ \A k \in 1 .. Len(s) : (s \o t)[k] = s[k]
  BY ConcatProperties
<1>2. Len(s) <= n
  BY <1>1 DEF MadeOf
<1>3. s # <<>> => s[1] = WS!SwitchingProtocols
  <2> HAVE s # <<>>
  <2>1. 1 \in 1 .. Len(s) /\ s \o t # <<>>
    BY <1>1
  <2> QED
    BY <1>1, <2>1 DEF MadeOf
<1>4. ASSUME Short(c, m), NEW k \in 2 .. Len(s)
      PROVE  /\ \E j \in 1 .. n - 1 : s[k] = EchoOf(c, j)
             /\ k > 2 => s[k - 1].text[2] < s[k].text[2]
  <2>1. k \in 2 .. Len(s \o t) /\ (s \o t)[k] = s[k] /\ (s \o t)[k - 1] = s[k - 1]
    BY <1>1, <1>4
  <2> QED
    BY <1>4, <2>1 DEF MadeOf
<1> QED
  BY <1>2, <1>3, <1>4 DEF MadeOf

\* The echo of the first thing that is taken next may follow.
LEMMA MadeNext ==
  ASSUME NEW s \in Seq(WsReply), NEW c, NEW n \in Nat, NEW m \in Nat, NEW n2 \in Nat, n < n2, n > 0, s # <<>>,
         MadeOf(s, c, n, m), NEW r \in WsReply, Short(c, m) => r = EchoOf(c, n)
  PROVE  MadeOf(Append(s, r), c, n2, m)
<1> DEFINE t == Append(s, r)
<1>1. /\ t \in Seq(WsReply) /\ Len(t) = Len(s) + 1 /\ Len(s) \in Nat /\ t[Len(s) + 1] = r
      /\ \A k \in 1 .. Len(s) : t[k] = s[k]
  BY AppendProperties
<1> HIDE DEF t
<1>2. Len(t) <= n2
  BY <1>1 DEF MadeOf
<1>3. t[1] = WS!SwitchingProtocols
  <2>1. 1 \in 1 .. Len(s)
    BY <1>1
  <2> QED
    BY <1>1, <2>1 DEF MadeOf
<1>4. ASSUME Short(c, m), NEW k \in 2 .. Len(t)
      PROVE  /\ \E j \in 1 .. n2 - 1 : t[k] = EchoOf(c, j)
             /\ k > 2 => t[k - 1].text[2] < t[k].text[2]
  <2>1. CASE k \in 2 .. Len(s)
    <3>1. t[k] = s[k] /\ t[k - 1] = s[k - 1]
      BY <1>1, <2>1
    <3>2. PICK j \in 1 .. n - 1 : s[k] = EchoOf(c, j)
      BY <1>4, <2>1 DEF MadeOf
    <3>3. j \in 1 .. n2 - 1
      OBVIOUS
    <3> QED
      BY <1>4, <2>1, <3>1, <3>2, <3>3 DEF MadeOf
  <2>2. CASE k = Len(s) + 1
    <3>1. t[k] = EchoOf(c, n) /\ n \in 1 .. n2 - 1
      BY <1>1, <1>4, <2>2
    <3>2. ASSUME k > 2
          PROVE  t[k - 1].text[2] < t[k].text[2]
      <4>1. k - 1 \in 2 .. Len(s) /\ t[k - 1] = s[k - 1]
        BY <1>1, <2>2, <3>2
      <4>2. PICK j \in 1 .. n - 1 : s[k - 1] = EchoOf(c, j)
        BY <1>4, <4>1 DEF MadeOf
      <4>3. EchoOf(c, j).text[2] = j /\ EchoOf(c, n).text[2] = n
        BY DEF EchoOf
      <4> QED
        BY <3>1, <4>1, <4>2, <4>3
    <3> QED
      BY <3>1, <3>2
  <2> QED
    BY <1>1, <2>1, <2>2
<1> QED
  BY <1>2, <1>3, <1>4 DEF MadeOf, t

\* Nothing has been sent.
LEMMA InitWsInv ==
  ASSUME WsAssumed, WS!Init
  PROVE  WsInv
<1> USE DEF WS!Init, WS!ReactorInit, WS!TcpInit
<1>1. <<>> \in Seq(WsFrame) /\ <<>> \in Seq(WsReply) /\ Len(<<>>) = 0 /\ <<>> \o <<>> = <<>>
  <2>1. <<>> \in Seq(WsFrame) /\ <<>> \in Seq(WsReply) /\ Len(<<>>) = 0
    OBVIOUS
  <2> QED
    BY <2>1, ConcatEmptySeq
<1>2. TcpHas(WsFrame, WsReply)
  BY <1>1 DEF TcpHas, WsAssumed, Assumed, WS!None, None
<1>3. Watched /\ EvsOK /\ EventsHold
  BY DEF Watched, EvsOK, EventsHold, WS!None, None
<1>4. WsConnOK
  BY <1>1 DEF WsConnOK, WS!Fresh, WsAssumed
<1>5. ASSUME NEW c \in Client
      PROVE  EchoesOK(c)
  <2>1. Stream(c) = <<>> /\ inbox[c] = <<>> /\ sent[c] = 0 /\ outbox[c] = <<>> /\ spent = {} /\ Taken(c) = 0
    BY <1>1 DEF Stream, Taken
  <2>2. MadeOf(<<>>, c, 0, 0)
    BY <1>1 DEF MadeOf
  <2>3. sent[c] <= Len(Messages[c]) + 1 /\ ~(sent[c] > 1)
    BY <2>1 DEF WsAssumed
  <2> QED
    BY <1>1, <2>1, <2>2, <2>3 DEF EchoesOK, FramesOK
<1>6. \A fd \in Fd, c \in Client : owner[fd] # c
  BY DEF WsAssumed, Assumed, WS!None, None
<1> QED
  BY <1>2, <1>3, <1>4, <1>5, <1>6 DEF WsInv, ReactorInv, WsRudeCrash

\* A client that nothing happens to, and a connection.
LEMMA EchoesSame ==
  ASSUME NEW d \in Client, EchoesOK(d), d \in spent' => d \in spent, d \in backlog' => d \in backlog,
         phase'[d] = phase[d], sent'[d] = sent[d], inbox'[d] = inbox[d], outbox'[d] = outbox[d], got'[d] = got[d]
  PROVE  EchoesOK(d)'
<1>1. Stream(d)' = Stream(d) /\ (Gone(d)' <=> Gone(d)) /\ Taken(d)' = Taken(d)
  BY DEF Stream, Gone, Taken
<1>2. FramesOK(d)'
  BY <1>1 DEF EchoesOK, FramesOK
<1> QED
  BY <1>1, <1>2 DEF EchoesOK

LEMMA SessionSame ==
  ASSUME NEW fd \in Fd, NEW d \in Client, SessionOK(fd, d),
         conn_list'[fd] = conn_list[fd], interest'[fd] = interest[fd],
         phase'[d] = phase[d], sent'[d] = sent[d], inbox'[d] = inbox[d], outbox'[d] = outbox[d], got'[d] = got[d]
  PROVE  SessionOK(fd, d)'
<1>1. Stream(d)' = Stream(d) /\ (Gone(d)' <=> Gone(d)) /\ Taken(d)' = Taken(d) /\ Pending(fd)' = Pending(fd)
  BY DEF Stream, Gone, Taken, Pending
<1> QED
  BY <1>1 DEF SessionOK

\* The callbacks of a descriptor concern the client behind it.
LEMMA OthersEchoed ==
  ASSUME WsAssumed, WsInv, NEW fd \in Fd, NEW c \in Client, owner[fd] = c, owner'[fd] \in {c, None},
         \A f \in Fd \ {fd} : /\ owner'[f] = owner[f] /\ interest'[f] = interest[f]
                              /\ conn_list'[f] = conn_list[f],
         \A d \in Client \ {c} : /\ phase'[d] = phase[d] /\ sent'[d] = sent[d] /\ inbox'[d] = inbox[d]
                                 /\ outbox'[d] = outbox[d] /\ got'[d] = got[d],
         spent' \subseteq spent \cup {c}, backlog' = backlog,
         EchoesOK(c)', owner'[fd] = c => SessionOK(fd, c)'
  PROVE  /\ \A d \in Client : EchoesOK(d)'
         /\ \A f \in Fd, d \in Client : owner'[f] = d => SessionOK(f, d)'
<1>1. \A d \in Client \ {c} : EchoesOK(d)'
  BY EchoesSame DEF WsInv
<1>2. ASSUME NEW f \in Fd, NEW d \in Client, owner'[f] = d
      PROVE  SessionOK(f, d)'
  <2>1. CASE f = fd
    BY <1>2, <2>1 DEF WsAssumed, Assumed
  <2>2. CASE f # fd
    <3>1. owner[f] = d /\ d \in Client \ {c}
      BY <1>2, <2>2 DEF WsInv, ReactorInv, TcpHas, WsAssumed, Assumed
    <3> QED
      BY <2>2, <3>1, SessionSame DEF WsInv
  <2> QED
    BY <2>1, <2>2
<1> QED
  BY <1>1, <1>2

\* epoll_wait asks what there is.
LEMMA EpollWaitWsInv ==
  ASSUME WsAssumed, WsInv, WS!epoll_wait
  PROVE  WsInv'
<1> USE DEF WsInv, ReactorInv, WsAssumed
<1>1. epoll_wait /\ UNCHANGED <<tcpVars, conn_list, interest>>
  BY WsSame DEF epoll_wait
<1>2. EvsOK' /\ EventsHold'
  BY <1>1, BatchHolds
<1>3. TcpHas(WsFrame, WsReply)' /\ Watched' /\ WsConnOK' /\ WsRudeCrash'
  BY <1>1 DEF TcpHas, Watched, WsConnOK, WsRudeCrash, Gone, tcpVars
<1>4. \A d \in Client : EchoesOK(d)'
  BY <1>1, EchoesSame DEF tcpVars
<1>5. \A fd \in Fd, d \in Client : owner'[fd] = d => SessionOK(fd, d)'
  BY <1>1, SessionSame DEF tcpVars
<1> QED
  BY <1>2, <1>3, <1>4, <1>5

\* A client sends what comes next, reads, or goes.
LEMMA ClientsWsInv ==
  ASSUME WsAssumed, WsInv, WS!Clients
  PROVE  WsInv'
<1> USE DEF WsInv, WsAssumed
<1>1. PICK c \in Client : /\ Connect(c) \/ Read(c) \/ HangUp(c)
                             \/ /\ Send(c, Sent(c, sent[c] + 1)) /\ sent[c] <= Len(Messages[c])
                                /\ sent[c] > 0 => got[c] # <<>>
                          /\ UNCHANGED <<conn_list, interest, evs>>
  <2>1. \A c \in Client : sent[c] \in Nat /\ Len(Messages[c]) \in Nat
    BY DEF ReactorInv, TcpHas
  <2>2. PICK c \in Client : /\ Connect(c) \/ Read(c) \/ HangUp(c) \/ WS!Sends(c)
                            /\ UNCHANGED <<conn_list, interest, evs>>
    BY WsSame DEF WS!Clients, WS!reactorVars
  <2>3. ASSUME WS!Sends(c)
        PROVE  /\ Send(c, Sent(c, sent[c] + 1)) /\ sent[c] <= Len(Messages[c])
               /\ sent[c] > 0 => got[c] # <<>>
    <3>1. CASE sent[c] = 0
      <4>1. WS!Send(c, WS!Upgrade) /\ sent[c] + 1 = 1
        BY <2>3, <3>1 DEF WS!Sends
      <4> QED
        BY <2>1, <3>1, <4>1, WsSame DEF Sent
    <3>2. CASE sent[c] # 0
      <4>1. /\ WS!Send(c, WS!Frame(c, sent[c], Messages[c][sent[c]])) /\ got[c] # <<>>
            /\ sent[c] <= Len(Messages[c])
        BY <2>3, <3>2 DEF WS!Sends
      <4>2. sent[c] + 1 # 1 /\ (sent[c] + 1) - 1 = sent[c]
        BY <2>1, <3>2
      <4>3. Sent(c, sent[c] + 1) = WS!Frame(c, sent[c], Messages[c][sent[c]])
        BY <4>2 DEF Sent
      <4> QED
        BY <4>1, <4>3, WsSame
    <3> QED
      BY <3>1, <3>2
  <2> QED
    BY <2>2, <2>3
<1> DEFINE x == Sent(c, sent[c] + 1)
<1>2. /\ got[c] \in Seq(WsReply) /\ outbox[c] \in Seq(WsReply) /\ inbox[c] \in Seq(WsFrame) /\ Len(inbox[c]) \in Nat
      /\ Stream(c) \in Seq(WsReply) /\ Len(got[c]) \in Nat /\ Len(outbox[c]) \in Nat /\ sent[c] \in Nat
      /\ Len(Stream(c)) = Len(got[c]) + Len(outbox[c]) /\ Messages[c] \in Seq(Nat) /\ Len(Messages[c]) \in Nat
      /\ got[c] \o <<>> = got[c] /\ Stream(c) \o <<>> = Stream(c)
  <2>1. /\ got[c] \in Seq(WsReply) /\ outbox[c] \in Seq(WsReply) /\ inbox[c] \in Seq(WsFrame) /\ sent[c] \in Nat
        /\ Messages[c] \in Seq(Nat)
    BY DEF ReactorInv, TcpHas
  <2>2. Stream(c) \in Seq(WsReply) /\ Len(Stream(c)) = Len(got[c]) + Len(outbox[c])
    BY <2>1, ConcatProperties DEF Stream
  <2> QED
    BY <2>1, <2>2, ConcatEmptySeq
<1>3. ReactorInv(WsFrame, WsReply)'
  <2>1. CASE Connect(c) \/ Read(c) \/ HangUp(c)
    <3>1. WS!Upgrade \in WsFrame
      BY DEF WsFrame
    <3> QED
      BY <1>1, <2>1, <3>1, ClientReactor
  <2>2. CASE Send(c, x) /\ sent[c] <= Len(Messages[c])
    <3>1. x \in WsFrame
      <4>1. sent[c] + 1 \in Nat /\ 0 < sent[c] + 1 /\ sent[c] + 1 <= Len(Messages[c]) + 1
        BY <1>2, <2>2
      <4> QED
        BY <4>1, FrameSent
    <3> QED
      BY <1>1, <2>2, <3>1, ClientReactor
  <2> QED
    BY <1>1, <2>1, <2>2
<1>4. /\ UNCHANGED <<owner, spent, crashed>> /\ backlog' \subseteq backlog \cup {c}
      /\ \A d \in Client \ {c} : /\ phase'[d] = phase[d] /\ sent'[d] = sent[d] /\ inbox'[d] = inbox[d]
                                 /\ outbox'[d] = outbox[d] /\ got'[d] = got[d]
  BY <1>1 DEF Connect, Read, HangUp, Send, ReactorInv, TcpHas
<1>5. \A d \in Client \ {c} : EchoesOK(d)'
  BY <1>4, EchoesSame
<1>6. \A fd \in Fd, d \in Client \ {c} : owner'[fd] = d => SessionOK(fd, d)'
  BY <1>1, <1>4, SessionSame
<1>7. phase[c] \in {"idle", "open"} /\ ~Gone(c) /\ c \notin spent
  <2>1. phase[c] \in {"idle", "open"}
    BY <1>1 DEF Connect, Read, HangUp, Send
  <2>2. ~Gone(c)
    BY <2>1 DEF Gone
  <2> QED
    BY <2>1, <2>2 DEF EchoesOK
<1>8. /\ Taken(c) \in Nat /\ \A k \in 1 .. Len(inbox[c]) : inbox[c][k] = Sent(c, Taken(c) + k)
      /\ sent[c] <= Len(Messages[c]) + 1 /\ (sent[c] > 1 => got[c] # <<>>)
      /\ phase[c] = "idle" \/ c \in backlog => Taken(c) = 0
      /\ MadeOf(Stream(c), c, Taken(c), sent[c])
  BY DEF EchoesOK, FramesOK
<1>9. \A fd \in Fd : owner[fd] = c =>
        /\ Pending(fd)' = Pending(fd) /\ Pending(fd) \in Seq(WsReply) /\ Len(Pending(fd)) \in Nat
        /\ conn_list[fd].status = IF Taken(c) = 0 THEN 0 ELSE 1
        /\ Len(Stream(c)) + Len(Pending(fd)) <= Taken(c)
        /\ MadeOf(Stream(c) \o Pending(fd), c, Taken(c), sent[c])
        /\ Stream(c) \o Pending(fd) \in Seq(WsReply)
  <2> SUFFICES ASSUME NEW fd \in Fd, owner[fd] = c
               PROVE  /\ Pending(fd)' = Pending(fd) /\ Pending(fd) \in Seq(WsReply) /\ Len(Pending(fd)) \in Nat
                      /\ conn_list[fd].status = IF Taken(c) = 0 THEN 0 ELSE 1
                      /\ Len(Stream(c)) + Len(Pending(fd)) <= Taken(c)
                      /\ MadeOf(Stream(c) \o Pending(fd), c, Taken(c), sent[c])
                      /\ Stream(c) \o Pending(fd) \in Seq(WsReply)
    OBVIOUS
  <2>1. Pending(fd)' = Pending(fd)
    BY <1>1 DEF Pending
  <2>2. Pending(fd) \in Seq(WsReply)
    <3>1. conn_list[fd].wbuffer \in Seq(WsReply) /\ <<>> \in Seq(WsReply)
      BY DEF WsConnOK
    <3> QED
      BY <3>1 DEF Pending
  <2>3. SessionOK(fd, c)
    OBVIOUS
  <2>4. Stream(c) \o Pending(fd) \in Seq(WsReply) /\ Len(Pending(fd)) \in Nat
    BY <1>2, <2>2, ConcatProperties
  <2>5. /\ conn_list[fd].status = IF Taken(c) = 0 THEN 0 ELSE 1
        /\ Len(Stream(c)) + Len(Pending(fd)) <= Taken(c)
        /\ MadeOf(Stream(c) \o Pending(fd), c, Taken(c), sent[c])
    BY <1>7, <2>3 DEF SessionOK
  <2> QED
    BY <2>1, <2>2, <2>4, <2>5
<1>10. EchoesOK(c)' /\ \A fd \in Fd : owner'[fd] = c => SessionOK(fd, c)'
  <2>1. CASE Connect(c)
    <3>1. phase[c] = "idle" /\ phase'[c] = "open" /\ UNCHANGED <<owner, sent, inbox, outbox, got>>
      BY <2>1 DEF Connect, ReactorInv, TcpHas
    <3>2. ~Gone(c)' /\ Stream(c)' = Stream(c) /\ Taken(c)' = Taken(c) /\ Taken(c) = 0
      BY <1>8, <3>1 DEF Gone, Stream, Taken
    <3>3. EchoesOK(c)'
      BY <1>4, <1>7, <1>8, <3>1, <3>2 DEF EchoesOK, FramesOK
    <3> QED
      BY <3>1, <3>3 DEF ReactorInv, TcpHas
  <2>2. CASE Read(c)
    <3>1. /\ got'[c] = Stream(c) /\ outbox'[c] = <<>> /\ outbox[c] # <<>>
          /\ UNCHANGED <<phase, backlog, owner, sent, inbox>>
      BY <2>2 DEF Read, Stream, ReactorInv, TcpHas
    <3>2. ~Gone(c)' /\ Stream(c)' = Stream(c) /\ Taken(c)' = Taken(c) /\ got'[c] # <<>>
      <4>1. Len(outbox[c]) > 0
        BY <1>2, <3>1
      <4>2. Stream(c) # <<>>
        <5>1. Len(Stream(c)) = Len(got[c]) + Len(outbox[c]) /\ Len(got[c]) \in Nat /\ Len(outbox[c]) \in Nat
          BY <1>2
        <5> DEFINE all == Len(Stream(c))  read == Len(got[c])  rest == Len(outbox[c])
        <5>2. all = read + rest /\ read \in Nat /\ rest \in Nat /\ rest > 0
          BY <4>1, <5>1
        <5> HIDE DEF all, read, rest
        <5>3. all # 0
          BY <5>2
        <5>4. Len(<<>>) = 0
          OBVIOUS
        <5> QED
          BY <5>3, <5>4 DEF all
      <4> QED
        BY <1>2, <1>7, <3>1, <4>2 DEF Gone, Stream, Taken
    <3>3. EchoesOK(c)'
      BY <1>4, <1>7, <1>8, <3>1, <3>2 DEF EchoesOK, FramesOK
    <3>4. \A fd \in Fd : owner'[fd] = c => SessionOK(fd, c)'
      BY <1>1, <1>9, <3>1, <3>2 DEF SessionOK
    <3> QED
      BY <3>3, <3>4
  <2>3. CASE HangUp(c)
    <3>1. outbox'[c] = <<>> /\ UNCHANGED <<backlog, owner, sent, inbox, got>> /\ phase[c] = "open"
      BY <2>3 DEF HangUp, ReactorInv, TcpHas
    <3>2. Gone(c)' /\ phase'[c] # "idle"
      BY <2>3 DEF HangUp, Gone, ReactorInv, TcpHas
    <3>3. Stream(c)' = got[c] /\ Taken(c)' = Taken(c) /\ MadeOf(got[c], c, Taken(c), sent[c])
      BY <1>2, <1>8, <3>1, MadeBefore DEF Stream, Taken
    <3>4. EchoesOK(c)'
      BY <1>4, <1>7, <1>8, <3>1, <3>2, <3>3 DEF EchoesOK, FramesOK
    <3>5. \A fd \in Fd : owner'[fd] = c => SessionOK(fd, c)'
      <4>1. \A fd \in Fd : owner[fd] = c => Len(got[c]) + Len(Pending(fd)) <= Taken(c)
        <5> SUFFICES ASSUME NEW fd \in Fd, owner[fd] = c
                     PROVE  Len(got[c]) + Len(Pending(fd)) <= Taken(c)
          OBVIOUS
        <5>1. Len(Pending(fd)) \in Nat /\ Len(Stream(c)) + Len(Pending(fd)) <= Taken(c)
          BY <1>9
        <5>2. Len(Stream(c)) = Len(got[c]) + Len(outbox[c]) /\ Len(got[c]) \in Nat /\ Len(outbox[c]) \in Nat
          BY <1>2
        <5> DEFINE all == Len(Stream(c))  read == Len(got[c])  rest == Len(outbox[c])  more == Len(Pending(fd))
        <5>3. all = read + rest /\ read \in Nat /\ rest \in Nat /\ more \in Nat /\ all + more <= Taken(c)
          BY <5>1, <5>2
        <5>4. Taken(c) \in Nat
          BY <1>8
        <5> HIDE DEF all, read, rest, more
        <5>5. read + more <= Taken(c)
          BY <5>3, <5>4
        <5> QED
          BY <5>5 DEF read, more
      <4> QED
        BY <1>1, <1>9, <3>1, <3>2, <3>3, <4>1 DEF SessionOK
    <3> QED
      BY <3>4, <3>5
  <2>4. CASE Send(c, x) /\ sent[c] <= Len(Messages[c]) /\ (sent[c] > 0 => got[c] # <<>>)
    <3>1. inbox'[c] = Append(inbox[c], x) /\ sent'[c] = sent[c] + 1 /\ UNCHANGED <<phase, backlog, owner, outbox, got>>
      BY <2>4 DEF Send, ReactorInv, TcpHas
    <3>2. Len(inbox'[c]) = Len(inbox[c]) + 1 /\ ~Gone(c)' /\ Stream(c)' = Stream(c)
      BY <1>2, <1>7, <3>1 DEF Gone, Stream
    <3>3. Taken(c)' = Taken(c)
      BY <1>2, <3>1, <3>2 DEF Taken
    <3>4. \A k \in 1 .. Len(inbox'[c]) : inbox'[c][k] = Sent(c, Taken(c) + k)
      <4> SUFFICES ASSUME NEW k \in 1 .. Len(inbox'[c])
                   PROVE  inbox'[c][k] = Sent(c, Taken(c) + k)
        OBVIOUS
      <4> HIDE DEF x
      <4>1. CASE k \in 1 .. Len(inbox[c])
        BY <1>2, <1>8, <3>1, <4>1
      <4>2. CASE k = Len(inbox[c]) + 1
        <5>1. inbox'[c][k] = x
          BY <1>2, <3>1, <4>2
        <5>2. Taken(c) + k = sent[c] + 1
          BY <1>2, <4>2 DEF Taken
        <5> QED
          BY <5>1, <5>2 DEF x
      <4> QED
        BY <1>2, <3>2, <4>1, <4>2
    <3>5. \A s \in Seq(WsReply) : MadeOf(s, c, Taken(c), sent[c]) => MadeOf(s, c, Taken(c), sent[c] + 1)
      BY <1>2, <1>8, MadeLater
    <3>6. EchoesOK(c)'
      <4>1. sent'[c] <= Len(Messages[c]) + 1 /\ (sent'[c] > 1 => got'[c] # <<>>)
        BY <1>2, <2>4, <3>1
      <4>2. FramesOK(c)'
        BY <1>8, <3>1, <3>3, <3>4, <4>1 DEF FramesOK
      <4>3. MadeOf(Stream(c), c, Taken(c), sent'[c])
        BY <1>2, <1>8, <3>1, <3>5
      <4> QED
        BY <1>4, <1>7, <3>2, <3>3, <4>2, <4>3 DEF EchoesOK
    <3>7. \A fd \in Fd : owner'[fd] = c => SessionOK(fd, c)'
      <4> SUFFICES ASSUME NEW fd \in Fd, owner[fd] = c
                   PROVE  SessionOK(fd, c)'
        BY <3>1
      <4>1. MadeOf(Stream(c) \o Pending(fd), c, Taken(c), sent'[c])
        BY <1>9, <3>1, <3>5
      <4> QED
        BY <1>1, <1>9, <3>2, <3>3, <4>1 DEF SessionOK
    <3> QED
      BY <3>6, <3>7
  <2> QED
    BY <1>1, <2>1, <2>2, <2>3, <2>4
<1>11. WsConnOK'
  BY <1>1 DEF WsConnOK
<1>12. WsRudeCrash'
  <2>1. \A d \in Client : Gone(d) => d # c
    BY <1>7
  <2>2. \A d \in Client \ {c} : (Gone(d)' <=> Gone(d)) /\ got'[d] = got[d] /\ sent'[d] = sent[d]
    BY <1>4 DEF Gone
  <2> QED
    BY <1>4, <2>1, <2>2 DEF WsRudeCrash
<1> QED
  BY <1>3, <1>5, <1>6, <1>10, <1>11, <1>12

\* A new connection starts with a fresh record, and nothing taken from it.
LEMMA AcceptWsInv ==
  ASSUME WsAssumed, WsInv, WS!Dispatch(Listening, "IN"), WS!accept_cb
  PROVE  WsInv'
<1> USE DEF WsInv, WsAssumed
<1>1. Dispatch(Listening, "IN")
  BY WsSame
<1>2. CASE \E c \in Client, fd \in Fd :
             accept(c, fd) /\ set_event(fd, "IN") /\ conn_list' = [conn_list EXCEPT ![fd] = WS!Fresh]
  <2>1. PICK c \in Client, fd \in Fd :
             accept(c, fd) /\ set_event(fd, "IN") /\ conn_list' = [conn_list EXCEPT ![fd] = WS!Fresh]
    BY <1>2
  <2>2. ReactorInv(WsFrame, WsReply)'
    BY <1>1, <2>1, AcceptReactor
  <2>3. /\ owner[fd] = None /\ owner' = [owner EXCEPT ![fd] = c] /\ c \in backlog /\ backlog' = backlog \ {c}
        /\ interest' = [interest EXCEPT ![fd] = {"IN"}]
        /\ UNCHANGED <<phase, sent, inbox, outbox, got, spent, crashed>>
    BY <2>1 DEF accept, set_event
  <2>4. /\ conn_list' \in [Fd -> [rbuffer : Seq(WsFrame), wbuffer : Seq(WsReply), status : 0 .. 2]]
        /\ \A f \in Fd \ {fd} : conn_list'[f] = conn_list[f]
        /\ conn_list'[fd].status = 0 /\ conn_list'[fd].wbuffer = <<>>
    <3> DEFINE Record == [rbuffer : Seq(WsFrame), wbuffer : Seq(WsReply), status : 0 .. 2]
    <3>1. WS!Fresh \in Record /\ WS!Fresh.status = 0 /\ WS!Fresh.wbuffer = <<>>
      BY DEF WS!Fresh
    <3>2. conn_list \in [Fd -> Record]
      BY DEF WsConnOK
    <3> HIDE DEF Record
    <3>3. /\ conn_list' \in [Fd -> Record] /\ \A f \in Fd \ {fd} : conn_list'[f] = conn_list[f]
          /\ conn_list'[fd] = WS!Fresh
      BY <2>1, <3>1, <3>2
    <3> QED
      BY <3>1, <3>3 DEF Record
  <2>5. /\ \A f \in Fd \ {fd} : owner'[f] = owner[f] /\ interest'[f] = interest[f]
        /\ owner'[fd] = c /\ interest'[fd] = {"IN"} /\ \A f \in Fd : owner[f] # c
    BY <2>3 DEF ReactorInv, TcpHas, Watched
  <2>6. WsConnOK'
    <3>1. {"IN"} # {"OUT"}
      OBVIOUS
    <3> QED
      BY <2>4, <2>5, <3>1 DEF WsConnOK
  <2>7. \A d \in Client : EchoesOK(d)'
    BY <2>3, EchoesSame
  <2>8. SessionOK(fd, c)'
    <3>1. Taken(c)' = 0 /\ Taken(c) = 0 /\ MadeOf(Stream(c), c, 0, sent[c])
      BY <2>3 DEF EchoesOK, FramesOK, Taken
    <3>2. Pending(fd)' = <<>> /\ Stream(c)' = Stream(c)
      <4>1. {"IN"} # {"OUT"}
        OBVIOUS
      <4> QED
        BY <2>3, <2>5, <4>1 DEF Pending, Stream
    <3>3. Stream(c) \in Seq(WsReply) /\ Stream(c) \o <<>> = Stream(c) /\ Len(Stream(c)) \in Nat
      <4>1. got[c] \in Seq(WsReply) /\ outbox[c] \in Seq(WsReply)
        BY DEF ReactorInv, TcpHas
      <4>2. Stream(c) \in Seq(WsReply)
        BY <4>1, ConcatProperties DEF Stream
      <4> QED
        BY <4>2, ConcatEmptySeq
    <3>4. Len(Stream(c)) <= 0 /\ Len(<<>>) = 0 /\ Len(Stream(c)) + 0 <= 0
      BY <3>1, <3>3 DEF MadeOf
    <3> QED
      BY <2>3, <2>4, <3>1, <3>2, <3>3, <3>4 DEF SessionOK
  <2>9. ASSUME NEW f \in Fd, NEW d \in Client, owner'[f] = d
        PROVE  SessionOK(f, d)'
    <3>1. CASE f = fd
      BY <2>5, <2>8, <2>9, <3>1
    <3>2. CASE f # fd
      BY <2>3, <2>4, <2>5, <2>9, <3>2, SessionSame
    <3> QED
      BY <3>1, <3>2
  <2>10. WsRudeCrash'
    BY <2>3 DEF WsRudeCrash, Gone
  <2> QED
    BY <2>2, <2>6, <2>7, <2>9, <2>10
<1>3. CASE UNCHANGED <<tcpVars, conn_list, interest>>
  <2>1. ReactorInv(WsFrame, WsReply)'
    BY <1>1, <1>3, AcceptReactor
  <2>2. WsConnOK' /\ WsRudeCrash'
    BY <1>3 DEF WsConnOK, WsRudeCrash, Gone, tcpVars
  <2>3. \A d \in Client : EchoesOK(d)'
    BY <1>3, EchoesSame DEF tcpVars
  <2>4. \A fd \in Fd, d \in Client : owner'[fd] = d => SessionOK(fd, d)'
    BY <1>3, SessionSame DEF tcpVars
  <2> QED
    BY <2>1, <2>2, <2>3, <2>4
<1> QED
  BY <1>2, <1>3, WsSame DEF WS!accept_cb, WS!event_register

\* What ws_request makes of what was received, a.
LEMMA Requested ==
  ASSUME NEW cn \in [rbuffer : Seq(WsFrame), wbuffer : Seq(WsReply), status : 0 .. 2], cn.status \in {0, 1},
         cn.rbuffer # <<>>, cn.status = 0 => cn.rbuffer[1] = WS!Upgrade
  PROVE  LET next == WS!ws_request(cn)
         IN  /\ next \in [rbuffer : Seq(WsFrame), wbuffer : Seq(WsReply), status : 0 .. 2] /\ next.status = 1
             /\ next.wbuffer = IF cn.status = 0 THEN <<WS!SwitchingProtocols>>
                               ELSE <<WS!encode_packet(WS!decode_packet(cn.rbuffer[1]))>>
<1> DEFINE Frames == Seq(WsFrame)  Replies == Seq(WsReply)
           Record == [rbuffer : Frames, wbuffer : Replies, status : 0 .. 2]
           echo == WS!encode_packet(WS!decode_packet(cn.rbuffer[1]))
<1>1. cn.rbuffer \in Seq(WsFrame) /\ cn.rbuffer # <<>>
  OBVIOUS
<1>2. Head(cn.rbuffer) = cn.rbuffer[1] /\ 1 \in DOMAIN cn.rbuffer /\ cn.rbuffer[1] \in WsFrame
  <2>1. \A s \in Seq(WsFrame) : s # <<>> => Head(s) = s[1] /\ 1 \in DOMAIN s /\ s[1] \in WsFrame
    OBVIOUS
  <2> QED
    BY <1>1, <2>1
<1>3. <<WS!SwitchingProtocols>> \in Replies /\ <<echo>> \in Replies
  <2>1. WS!SwitchingProtocols \in WsReply /\ echo \in WsReply
    BY <1>2 DEF WsReply
  <2> HIDE DEF echo
  <2> QED
    BY <2>1
<1>4. cn \in Record /\ 1 \in 0 .. 2
  OBVIOUS
<1> HIDE DEF Frames, Replies, echo
<1>5. CASE cn.status = 0
  <2>1. WS!Upgrade \in WS!ToSet(cn.rbuffer)
    BY <1>2, <1>5 DEF WS!ToSet
  <2>2. WS!ws_request(cn) = [[cn EXCEPT !.wbuffer = <<WS!SwitchingProtocols>>] EXCEPT !.status = 1]
    BY <1>5, <2>1 DEF WS!ws_request, WS!handshake
  <2>3. WS!ws_request(cn) = [rbuffer |-> cn.rbuffer, wbuffer |-> <<WS!SwitchingProtocols>>, status |-> 1]
    BY <1>4, <2>2
  <2> QED
    BY <1>3, <1>4, <1>5, <2>3 DEF Frames, Replies
<1>6. CASE cn.status = 1
  <2>1. WS!ws_request(cn) = [cn EXCEPT !.wbuffer = <<echo>>]
    BY <1>2, <1>6 DEF WS!ws_request, echo
  <2>2. WS!ws_request(cn) = [rbuffer |-> cn.rbuffer, wbuffer |-> <<echo>>, status |-> 1]
    BY <1>4, <1>6, <2>1
  <2> QED
    BY <1>3, <1>4, <1>6, <2>2 DEF Frames, Replies, echo
<1> QED
  BY <1>5, <1>6

\* What the first thing received, f, is answered with follows what was sent.
LEMMA Answered ==
  ASSUME NEW c, NEW s \in Seq(WsReply), NEW n \in Nat, NEW m \in Nat, NEW k \in Nat, k > 0, n + k <= m,
         NEW r \in WsReply, MadeOf(s, c, n, m), Messages[c] \in Seq(Nat), m <= Len(Messages[c]) + 1,
         n = 0 => r = WS!SwitchingProtocols,
         n > 0 => s # <<>> /\ r = WS!encode_packet(WS!decode_packet(Sent(c, n + 1)))
  PROVE  MadeOf(s \o <<r>>, c, n + k, m)
<1>1. s \o <<r>> = Append(s, r) /\ Len(s) \in Nat /\ (s = <<>> => Append(s, r) = <<r>>)
  <2>1. s \o <<r>> = Append(s, r)
    BY AppendIsConcat
  <2>2. <<r>> \in Seq(WsReply) /\ Len(s) \in Nat
    OBVIOUS
  <2>3. <<>> \o <<r>> = <<r>>
    BY <2>2, ConcatEmptySeq
  <2> QED
    BY <2>1, <2>2, <2>3
<1>2. CASE n = 0
  <2>1. Len(s) <= n
    BY DEF MadeOf
  <2>2. s = <<>>
    BY <1>1, <1>2, <2>1
  <2>3. Append(s, r) = <<r>> /\ Len(<<r>>) = 1 /\ <<r>>[1] = r /\ 1 <= n + k
    BY <1>1, <1>2, <2>2
  <2>4. 2 .. 1 = {}
    OBVIOUS
  <2>5. MadeOf(<<r>>, c, n + k, m)
    BY <1>2, <2>3, <2>4 DEF MadeOf
  <2> QED
    BY <1>1, <2>3, <2>5
<1>3. CASE n > 0
  <2>1. Short(c, m) => r = EchoOf(c, n)
    <3> HAVE Short(c, m)
    <3>1. n + 1 \in Nat /\ n + 1 > 1 /\ (n + 1) - 1 = n /\ n \in 1 .. m - 1 /\ n \in 1 .. Len(Messages[c])
      BY <1>1, <1>3
    <3>2. Messages[c][n] \in Nat
      BY <3>1
    <3>3. Messages[c][n] < 126
      BY <3>1 DEF Short
    <3> QED
      BY <1>3, <3>1, <3>2, <3>3, ShortEchoed
  <2>2. n + k \in Nat /\ n < n + k
    BY <1>3
  <2> QED
    BY <1>1, <1>3, <2>1, <2>2, MadeNext
<1> QED
  BY <1>2, <1>3

\* What is received is taken in order, and one answer to it is about to be
\* sent.
LEMMA RecvWsInv ==
  ASSUME WsAssumed, WsInv, NEW fd \in Fd, WS!Dispatch(fd, "IN"), WS!recv_cb(fd)
  PROVE  WsInv'
<1> USE DEF WsInv, WsAssumed
<1>1. Dispatch(fd, "IN") /\ interest[fd] = {"IN"} /\ owner[fd] \in Client /\ fd # Listening
  <2>1. fd # Listening
    BY DEF Assumed
  <2> QED
    BY <2>1, WsSame, InHandFacts
<1>2. PICK c \in Client : owner[fd] = c
  BY <1>1
<1>3. /\ got[c] \in Seq(WsReply) /\ outbox[c] \in Seq(WsReply) /\ inbox[c] \in Seq(WsFrame) /\ Len(inbox[c]) \in Nat
      /\ Stream(c) \in Seq(WsReply) /\ Len(Stream(c)) \in Nat /\ sent[c] \in Nat
      /\ Messages[c] \in Seq(Nat) /\ (got[c] # <<>> => Stream(c) # <<>>) /\ Stream(c) \o <<>> = Stream(c)
  <2>1. /\ got[c] \in Seq(WsReply) /\ outbox[c] \in Seq(WsReply) /\ inbox[c] \in Seq(WsFrame) /\ sent[c] \in Nat
        /\ Messages[c] \in Seq(Nat)
    BY DEF ReactorInv, TcpHas
  <2>2. Stream(c) \in Seq(WsReply) /\ Len(Stream(c)) = Len(got[c]) + Len(outbox[c])
    BY <2>1, ConcatProperties DEF Stream
  <2>3. got[c] # <<>> => Stream(c) # <<>>
    <3> HAVE got[c] # <<>>
    <3>1. Len(got[c]) \in Nat /\ Len(got[c]) # 0 /\ Len(outbox[c]) \in Nat
      BY <2>1
    <3> DEFINE all == Len(Stream(c))  read == Len(got[c])  rest == Len(outbox[c])
    <3>2. all = read + rest /\ read \in Nat /\ rest \in Nat /\ read # 0
      BY <2>2, <3>1
    <3> HIDE DEF all, read, rest
    <3>3. all # 0
      BY <3>2
    <3>4. Len(<<>>) = 0
      OBVIOUS
    <3> QED
      BY <3>3, <3>4 DEF all
  <2>4. Len(inbox[c]) \in Nat /\ Len(Stream(c)) \in Nat
    <3>1. \A s \in Seq(WsFrame) : Len(s) \in Nat
      OBVIOUS
    <3>2. \A s \in Seq(WsReply) : Len(s) \in Nat
      OBVIOUS
    <3> QED
      BY <2>1, <2>2, <3>1, <3>2
  <2>5. Stream(c) \o <<>> = Stream(c)
    BY <2>2, ConcatEmptySeq
  <2> QED
    BY <2>1, <2>2, <2>3, <2>4, <2>5
<1>4. /\ EchoesOK(c) /\ SessionOK(fd, c) /\ Taken(c) \in Nat /\ Taken(c) = sent[c] - Len(inbox[c])
      /\ sent[c] <= Len(Messages[c]) + 1 /\ (sent[c] > 1 => got[c] # <<>>)
      /\ \A k \in 1 .. Len(inbox[c]) : inbox[c][k] = Sent(c, Taken(c) + k)
      /\ MadeOf(Stream(c), c, Taken(c), sent[c]) /\ phase[c] # "idle" /\ c \notin backlog
      /\ conn_list[fd].status = IF Taken(c) = 0 THEN 0 ELSE 1
  <2>1. phase[c] # "idle" /\ c \notin backlog
    BY <1>2 DEF ReactorInv, TcpHas
  <2> QED
    BY <1>2, <2>1 DEF EchoesOK, FramesOK, SessionOK, Taken
<1>5. CASE \E n \in 1 .. Len(inbox[c]) :
             /\ recv(fd, n) /\ set_event(fd, "OUT")
             /\ conn_list' = [conn_list EXCEPT ![fd] = WS!ws_request([@ EXCEPT !.rbuffer = Received(fd, n)])]
  <2>1. PICK n \in 1 .. Len(inbox[c]) :
             /\ recv(fd, n) /\ set_event(fd, "OUT")
             /\ conn_list' = [conn_list EXCEPT ![fd] = WS!ws_request([@ EXCEPT !.rbuffer = Received(fd, n)])]
    BY <1>5
  <2>2. /\ ReactorInv(WsFrame, WsReply)' /\ Received(fd, n) \in Seq(WsFrame)
        /\ interest' = [interest EXCEPT ![fd] = {"OUT"}] /\ interest'[fd] = {"OUT"}
        /\ n \in Nat /\ n > 0 /\ n <= Len(inbox[c]) /\ Len(inbox'[c]) = Len(inbox[c]) - n
        /\ \A d \in Client \ {c} : inbox'[d] = inbox[d]
        /\ UNCHANGED <<phase, backlog, owner, sent, outbox, got, spent, crashed>>
    BY <1>1, <1>2, <2>1, RecvReactor
  <2>3. Received(fd, n) # <<>> /\ Received(fd, n)[1] = Sent(c, Taken(c) + 1)
    <3>1. \A s \in Seq(WsFrame) : n <= Len(s) => SubSeq(s, 1, n)[1] = s[1] /\ Len(SubSeq(s, 1, n)) = n
      BY <2>2
    <3>2. Received(fd, n)[1] = inbox[c][1] /\ Len(Received(fd, n)) = n
      BY <1>2, <1>3, <2>2, <3>1 DEF Received
    <3>3. 1 \in 1 .. Len(inbox[c])
      BY <2>2
    <3>4. Received(fd, n) # <<>>
      <4>1. Len(<<>>) = 0 /\ n # 0
        BY <2>2
      <4> QED
        BY <3>2, <4>1
    <3> QED
      BY <1>4, <3>2, <3>3, <3>4
  <2> DEFINE Record == [rbuffer : Seq(WsFrame), wbuffer : Seq(WsReply), status : 0 .. 2]
             cn == [conn_list[fd] EXCEPT !.rbuffer = Received(fd, n)]
             next == WS!ws_request(cn)
             f == Sent(c, Taken(c) + 1)
             r == IF Taken(c) = 0 THEN WS!SwitchingProtocols ELSE WS!encode_packet(WS!decode_packet(f))
  <2>4. cn \in Record /\ cn.status = conn_list[fd].status /\ cn.rbuffer = Received(fd, n)
    <3> DEFINE Frames == Seq(WsFrame)  Replies == Seq(WsReply)
    <3>1. conn_list[fd] \in [rbuffer : Frames, wbuffer : Replies, status : 0 .. 2] /\ Received(fd, n) \in Frames
      BY <2>2 DEF WsConnOK
    <3> HIDE DEF Frames, Replies
    <3>2. /\ cn \in [rbuffer : Frames, wbuffer : Replies, status : 0 .. 2]
          /\ cn.status = conn_list[fd].status /\ cn.rbuffer = Received(fd, n)
      BY <3>1
    <3> QED
      BY <3>2 DEF Frames, Replies
  <2>5. next \in Record /\ next.status = 1 /\ next.wbuffer = <<r>>
    <3>1. Taken(c) = 0 => f = WS!Upgrade
      BY DEF Sent
    <3>2. /\ cn \in Record /\ cn.status \in {0, 1} /\ (cn.status = 0 <=> Taken(c) = 0)
          /\ cn.rbuffer # <<>> /\ cn.rbuffer[1] = f
      <4>1. cn.status = IF Taken(c) = 0 THEN 0 ELSE 1
        BY <1>4, <2>4
      <4>2. 0 # 1
        OBVIOUS
      <4> HIDE DEF cn, Record
      <4> QED
        BY <2>3, <2>4, <4>1, <4>2
    <3> HIDE DEF cn, f
    <3>3. /\ next \in Record /\ next.status = 1
          /\ next.wbuffer = IF cn.status = 0 THEN <<WS!SwitchingProtocols>>
                            ELSE <<WS!encode_packet(WS!decode_packet(cn.rbuffer[1]))>>
      BY <3>1, <3>2, Requested
    <3> HIDE DEF next, Record
    <3> QED
      BY <3>2, <3>3
  <2>6. r \in WsReply
    <3>1. f \in WsFrame
      <4>1. Taken(c) + 1 \in Nat /\ 0 < Taken(c) + 1 /\ Taken(c) + 1 <= sent[c]
        <5> DEFINE there == Len(inbox[c])
        <5>1. Taken(c) = sent[c] - there /\ Taken(c) \in Nat /\ sent[c] \in Nat /\ there \in Nat /\ n > 0 /\ n <= there
          BY <1>3, <1>4, <2>2
        <5> HIDE DEF there
        <5> QED
          BY <5>1, <2>2
      <4>2. Len(Messages[c]) \in Nat /\ sent[c] <= Len(Messages[c]) + 1 /\ sent[c] \in Nat
        BY <1>3, <1>4
      <4>3. Taken(c) + 1 <= Len(Messages[c]) + 1
        <5> DEFINE all == Len(Messages[c])  one == Taken(c) + 1
        <5>1. one \in Nat /\ one <= sent[c] /\ all \in Nat /\ sent[c] <= all + 1 /\ sent[c] \in Nat
          BY <4>1, <4>2
        <5> HIDE DEF all, one
        <5>2. one <= all + 1
          BY <5>1
        <5> QED
          BY <5>2 DEF all, one
      <4> QED
        BY <4>1, <4>3, FrameSent
    <3> HIDE DEF f
    <3> QED
      BY <3>1 DEF WsReply
  <2>7. /\ conn_list' \in [Fd -> Record] /\ conn_list'[fd] = next
        /\ \A g \in Fd \ {fd} : conn_list'[g] = conn_list[g]
    <3>1. conn_list \in [Fd -> Record] /\ conn_list' = [conn_list EXCEPT ![fd] = next]
      BY <2>1 DEF WsConnOK
    <3> HIDE DEF next, Record
    <3> QED
      BY <2>5, <3>1
  <2> HIDE DEF cn, next, r
  <2>8. \A g \in Fd \ {fd} : interest'[g] = interest[g] /\ owner'[g] = owner[g]
    BY <2>2 DEF ReactorInv, Watched
  <2>9. WsConnOK'
    <3>1. Len(conn_list'[fd].wbuffer) = 1
      <4>1. Len(<<r>>) = 1
        OBVIOUS
      <4> QED
        BY <2>5, <2>7, <4>1
    <3>2. \A g \in Fd \ {fd} : interest'[g] = {"OUT"} => Len(conn_list'[g].wbuffer) = 1
      BY <2>7, <2>8 DEF WsConnOK
    <3> QED
      BY <2>7, <3>1, <3>2 DEF WsConnOK
  <2>10. /\ Taken(c)' = Taken(c) + n /\ Stream(c)' = Stream(c) /\ (Gone(c)' <=> Gone(c))
         /\ Taken(c) + n <= sent[c] /\ Taken(c) + n \in Nat /\ Taken(c) + n # 0
    <3>1. Taken(c)' = sent[c] - (Len(inbox[c]) - n)
      BY <2>2 DEF Taken
    <3> DEFINE there == Len(inbox[c])
    <3>2. /\ Taken(c) = sent[c] - there /\ Taken(c) \in Nat /\ sent[c] \in Nat /\ there \in Nat
          /\ n \in Nat /\ n > 0 /\ n <= there /\ Taken(c)' = sent[c] - (there - n)
      BY <1>3, <1>4, <2>2, <3>1
    <3>3. Stream(c)' = Stream(c) /\ (Gone(c)' <=> Gone(c))
      BY <2>2 DEF Stream, Gone
    <3> HIDE DEF there
    <3>4. /\ Taken(c)' = Taken(c) + n /\ Taken(c) + n <= sent[c] /\ Taken(c) + n \in Nat /\ Taken(c) + n # 0
      BY <3>2
    <3> QED
      BY <3>3, <3>4
  <2>11. EchoesOK(c)'
    <3>1. \A k \in 1 .. Len(inbox'[c]) : inbox'[c][k] = Sent(c, (Taken(c) + n) + k)
      <4> SUFFICES ASSUME NEW k \in 1 .. Len(inbox'[c])
                   PROVE  inbox'[c][k] = Sent(c, (Taken(c) + n) + k)
        OBVIOUS
      <4>1. inbox' = [inbox EXCEPT ![c] = SubSeq(@, n + 1, Len(@))]
        BY <1>2, <2>1 DEF recv
      <4>2. inbox'[c] = SubSeq(inbox[c], n + 1, Len(inbox[c]))
        BY <4>1 DEF ReactorInv, TcpHas
      <4>3. k \in Nat /\ k > 0 /\ n + k \in 1 .. Len(inbox[c]) /\ k \in 1 .. Len(inbox[c]) - n
        BY <1>3, <2>2
      <4>4. \A s \in Seq(WsFrame) : k \in 1 .. Len(s) - n => SubSeq(s, n + 1, Len(s))[k] = s[n + k]
        BY <2>2
      <4>5. inbox'[c][k] = inbox[c][n + k]
        BY <1>3, <4>2, <4>3, <4>4
      <4>6. Taken(c) + (n + k) = (Taken(c) + n) + k
        BY <1>4, <2>2, <4>3
      <4> QED
        BY <1>4, <4>3, <4>5, <4>6
    <3>2. FramesOK(c)'
      BY <1>4, <2>2, <2>10, <3>1 DEF FramesOK
    <3>3. MadeOf(Stream(c), c, Taken(c) + n, sent[c])
      <4>1. Taken(c) <= Taken(c) + n /\ sent[c] <= sent[c]
        BY <1>3, <1>4, <2>2
      <4> QED
        BY <1>3, <1>4, <2>10, <4>1, MadeLater
    <3> QED
      BY <1>4, <2>2, <2>10, <3>2, <3>3 DEF EchoesOK
  <2>12. SessionOK(fd, c)'
    <3>1. Pending(fd)' = <<r>> /\ Len(<<r>>) = 1
      BY <2>2, <2>5, <2>7 DEF Pending
    <3>2. conn_list'[fd].status = IF Taken(c)' = 0 THEN 0 ELSE 1
      BY <2>5, <2>7, <2>10
    <3>3. Len(Stream(c)) + 1 <= Taken(c) + n
      <4>1. Len(Stream(c)) <= Taken(c)
        BY <1>4 DEF MadeOf
      <4> QED
        BY <1>3, <1>4, <2>2, <4>1
    <3>4. MadeOf(Stream(c) \o <<r>>, c, Taken(c) + n, sent[c])
      <4>1. Taken(c) = 0 => r = WS!SwitchingProtocols
        BY DEF r
      <4>2. Taken(c) > 0 => Stream(c) # <<>> /\ r = WS!encode_packet(WS!decode_packet(Sent(c, Taken(c) + 1)))
        <5> HAVE Taken(c) > 0
        <5>1. sent[c] > 1 /\ Taken(c) # 0
          BY <1>3, <1>4, <2>2, <2>10
        <5> QED
          BY <1>3, <1>4, <5>1 DEF r, f
      <4> HIDE DEF f
      <4> QED
        BY <1>3, <1>4, <2>2, <2>6, <2>10, <4>1, <4>2, Answered
    <3> QED
      BY <2>2, <2>10, <3>1, <3>2, <3>3, <3>4 DEF SessionOK
  <2>13. WsRudeCrash'
    BY <2>2 DEF WsRudeCrash, Gone
  <2>14. /\ \A d \in Client : EchoesOK(d)'
         /\ \A g \in Fd, d \in Client : owner'[g] = d => SessionOK(g, d)'
    BY <1>2, <2>2, <2>7, <2>8, <2>11, <2>12, OthersEchoed
  <2> QED
    BY <2>2, <2>9, <2>13, <2>14
<1>6. CASE close_and_del(fd) /\ UNCHANGED conn_list
  <2>1. /\ ReactorInv(WsFrame, WsReply)' /\ owner' = [owner EXCEPT ![fd] = None]
        /\ interest' = [interest EXCEPT ![fd] = {}]
        /\ UNCHANGED <<phase, backlog, sent, inbox, outbox, got, spent, crashed>>
    BY <1>1, <1>6, CloseReactor
  <2>2. /\ \A g \in Fd \ {fd} : owner'[g] = owner[g] /\ interest'[g] = interest[g]
        /\ owner'[fd] = None /\ interest'[fd] = {} /\ c # None
    BY <2>1 DEF ReactorInv, TcpHas, Watched, Assumed
  <2>3. WsConnOK'
    <3>1. {"OUT"} # {}
      OBVIOUS
    <3> QED
      BY <1>6, <2>2, <3>1 DEF WsConnOK
  <2>4. EchoesOK(c)'
    BY <1>4, <2>1, EchoesSame
  <2>5. WsRudeCrash'
    BY <2>1 DEF WsRudeCrash, Gone
  <2>6. /\ \A d \in Client : EchoesOK(d)'
        /\ \A g \in Fd, d \in Client : owner'[g] = d => SessionOK(g, d)'
    BY <1>2, <1>6, <2>1, <2>2, <2>4, OthersEchoed
  <2> QED
    BY <2>1, <2>3, <2>5, <2>6
<1> QED
  BY <1>2, <1>5, <1>6, WsSame DEF WS!recv_cb

\* What was about to be sent is sent, or the client is gone.
LEMMA SendWsInv ==
  ASSUME WsAssumed, WsInv, NEW fd \in Fd, WS!Dispatch(fd, "OUT"), WS!send_cb(fd)
  PROVE  WsInv'
<1> USE DEF WsInv, WsAssumed
<1>1. Dispatch(fd, "OUT") /\ interest[fd] = {"OUT"} /\ owner[fd] \in Client
  <2>1. fd # Listening
    BY DEF Assumed
  <2> QED
    BY <2>1, WsSame, InHandFacts
<1>2. PICK c \in Client : owner[fd] = c
  BY <1>1
<1> DEFINE w == conn_list[fd].wbuffer
<1>3. w \in Seq(WsReply) /\ Len(w) = 1 /\ Pending(fd) = w
  BY <1>1 DEF WsConnOK, Pending
<1>4. w # <<>>
  <2>1. Len(<<>>) = 0 /\ Len(<<>>) # 1
    OBVIOUS
  <2> QED
    BY <1>3, <2>1
<1>5. send(fd, w) /\ set_event(fd, "IN") /\ UNCHANGED conn_list
  BY <1>4, WsSame DEF WS!send_cb
<1> HIDE DEF w
<1>6. /\ ReactorInv(WsFrame, WsReply)'
      /\ interest' = [interest EXCEPT ![fd] = {"IN"}] /\ interest'[fd] = {"IN"}
      /\ UNCHANGED <<phase, backlog, owner, sent, inbox, got>>
      /\ \A d \in Client \ {c} : outbox'[d] = outbox[d]
      /\ spent' \subseteq spent \cup {c}
      /\ \/ ~Gone(c) /\ outbox'[c] = outbox[c] \o w /\ UNCHANGED <<spent, crashed>>
         \/ Gone(c) /\ outbox' = outbox /\ crashed' = crashed
         \/ c \in spent /\ crashed' /\ UNCHANGED <<outbox, spent>>
  <2>1. Assumed /\ ReactorInv(WsFrame, WsReply)
    OBVIOUS
  <2> HIDE DEF WsInv, WsAssumed
  <2>2. /\ ReactorInv(WsFrame, WsReply)'
        /\ interest' = [interest EXCEPT ![fd] = {"IN"}] /\ interest'[fd] = {"IN"}
        /\ UNCHANGED <<phase, backlog, owner, sent, inbox, got>>
        /\ \A d \in Client \ {owner[fd]} : outbox'[d] = outbox[d]
        /\ spent' \subseteq spent \cup {owner[fd]}
        /\ \/ /\ ~Gone(owner[fd]) /\ outbox'[owner[fd]] = outbox[owner[fd]] \o w /\ UNCHANGED <<spent, crashed>>
           \/ /\ Gone(owner[fd]) /\ outbox' = outbox /\ crashed' = crashed
           \/ owner[fd] \in spent /\ crashed' /\ UNCHANGED <<outbox, spent>>
           \/ UNCHANGED tcpVars /\ ~send(fd, w)
    BY <1>1, <1>3, <1>5, <2>1, SendReactor
  <2> QED
    BY <1>2, <1>5, <2>2
<1>7. /\ got[c] \in Seq(WsReply) /\ outbox[c] \in Seq(WsReply) /\ sent[c] \in Nat
      /\ Stream(c) \in Seq(WsReply) /\ Stream(c) \o <<>> = Stream(c) /\ got[c] \o <<>> = got[c]
      /\ got[c] \o (outbox[c] \o w) = Stream(c) \o w /\ Stream(c) \o w \in Seq(WsReply)
      /\ Len(Stream(c) \o w) = Len(Stream(c)) + Len(w) /\ Len(Stream(c)) \in Nat
      /\ Len(Stream(c)) = Len(got[c]) + Len(outbox[c]) /\ (Stream(c) \o w) \o <<>> = Stream(c) \o w
      /\ Len(inbox[c]) \in Nat
  <2>1. got[c] \in Seq(WsReply) /\ outbox[c] \in Seq(WsReply) /\ sent[c] \in Nat /\ inbox[c] \in Seq(WsFrame)
    BY DEF ReactorInv, TcpHas
  <2>2. Stream(c) \in Seq(WsReply) /\ Len(Stream(c)) = Len(got[c]) + Len(outbox[c])
    BY <2>1, ConcatProperties DEF Stream
  <2>3. Stream(c) \o w \in Seq(WsReply) /\ Len(Stream(c) \o w) = Len(Stream(c)) + Len(w)
    BY <1>3, <2>2, ConcatProperties
  <2>4. got[c] \o (outbox[c] \o w) = (got[c] \o outbox[c]) \o w
    <3> DEFINE Replies == Seq(WsReply)  read == got[c]  rest == outbox[c]
    <3>1. w \in Replies /\ read \in Replies /\ rest \in Replies
      BY <1>3, <2>1
    <3>2. \A s, t, u \in Replies : (s \o t) \o u = s \o (t \o u)
      BY ConcatAssociative
    <3> HIDE DEF Replies, read, rest
    <3>3. read \o (rest \o w) = (read \o rest) \o w
      BY <3>1, <3>2
    <3> QED
      BY <3>3 DEF read, rest
  <2>5. Len(Stream(c)) \in Nat /\ Len(inbox[c]) \in Nat
    <3>1. \A s \in Seq(WsFrame) : Len(s) \in Nat
      OBVIOUS
    <3>2. \A s \in Seq(WsReply) : Len(s) \in Nat
      OBVIOUS
    <3> QED
      BY <2>1, <2>2, <3>1, <3>2
  <2> QED
    BY <2>1, <2>2, <2>3, <2>4, <2>5, ConcatEmptySeq DEF Stream
<1>8. /\ EchoesOK(c) /\ FramesOK(c) /\ SessionOK(fd, c) /\ Taken(c) \in Nat /\ Taken(c) <= sent[c]
      /\ (Gone(c)' <=> Gone(c)) /\ Taken(c)' = Taken(c) /\ Pending(fd)' = <<>>
      /\ Len(Stream(c)) + 1 <= Taken(c)
  <2>1. {"IN"} # {"OUT"}
    OBVIOUS
  <2>2. EchoesOK(c) /\ FramesOK(c) /\ SessionOK(fd, c) /\ Taken(c) \in Nat
    BY <1>2 DEF EchoesOK, FramesOK
  <2>3. Taken(c) = sent[c] - Len(inbox[c])
    BY DEF Taken
  <2>4. Taken(c) <= sent[c]
    BY <1>7, <2>2, <2>3
  <2>5. Len(Stream(c)) + 1 <= Taken(c)
    BY <1>3, <2>2 DEF SessionOK
  <2> QED
    BY <1>6, <2>1, <2>2, <2>4, <2>5 DEF Gone, Taken, Pending
<1>9. FramesOK(c)'
  BY <1>6, <1>8 DEF FramesOK
<1>10. EchoesOK(c)' /\ SessionOK(fd, c)'
  <2>1. CASE ~Gone(c) /\ outbox'[c] = outbox[c] \o w /\ UNCHANGED <<spent, crashed>>
    <3>1. Stream(c)' = Stream(c) \o w
      BY <1>6, <1>7, <2>1 DEF Stream
    <3>2. MadeOf(Stream(c) \o w, c, Taken(c), sent[c])
      BY <1>3, <1>8, <2>1 DEF SessionOK
    <3>3. EchoesOK(c)'
      BY <1>6, <1>8, <1>9, <2>1, <3>1, <3>2 DEF EchoesOK
    <3>4. Len(Stream(c) \o w) + Len(<<>>) <= Taken(c)
      <4>1. Len(Stream(c) \o w) = Len(Stream(c)) + 1 /\ Len(<<>>) = 0 /\ Len(Stream(c)) \in Nat
        BY <1>3, <1>7
      <4> DEFINE all == Len(Stream(c) \o w)  some == Len(Stream(c))  none == Len(<<>>)
      <4>2. all = some + 1 /\ none = 0 /\ some \in Nat /\ some + 1 <= Taken(c) /\ Taken(c) \in Nat
        BY <1>8, <4>1
      <4> HIDE DEF all, some, none
      <4>3. all + none <= Taken(c)
        BY <4>2
      <4> QED
        BY <4>3 DEF all, none
    <3> QED
      BY <1>5, <1>6, <1>7, <1>8, <3>1, <3>2, <3>3, <3>4 DEF SessionOK
  <2>2. CASE Gone(c) /\ outbox' = outbox
    <3>1. Stream(c)' = Stream(c) /\ outbox[c] = <<>> /\ Stream(c) = got[c]
      BY <1>6, <1>7, <1>8, <2>2 DEF Stream, EchoesOK
    <3>2. Len(got[c]) < sent[c]
      <4>1. Len(got[c]) = Len(Stream(c))
        BY <3>1
      <4>2. Len(got[c]) + 1 <= Taken(c) /\ Len(got[c]) \in Nat
        BY <1>7, <1>8, <4>1
      <4> QED
        BY <1>7, <1>8, <4>2
    <3>3. EchoesOK(c)'
      BY <1>6, <1>8, <1>9, <2>2, <3>1, <3>2 DEF EchoesOK
    <3>4. Len(Stream(c)) + Len(<<>>) <= Taken(c)
      <4>1. Len(<<>>) = 0
        OBVIOUS
      <4> DEFINE some == Len(Stream(c))  none == Len(<<>>)
      <4>2. none = 0 /\ some \in Nat /\ some + 1 <= Taken(c) /\ Taken(c) \in Nat
        BY <1>7, <1>8, <4>1
      <4> HIDE DEF some, none
      <4>3. some + none <= Taken(c)
        BY <4>2
      <4> QED
        BY <4>3 DEF some, none
    <3> QED
      BY <1>5, <1>6, <1>8, <2>2, <3>1, <3>3, <3>4 DEF SessionOK
  <2>3. c \in spent => Gone(c)
    BY <1>8 DEF EchoesOK
  <2> QED
    BY <1>6, <2>1, <2>2, <2>3
<1>11. WsConnOK'
  <2>1. \A f \in Fd : interest'[f] = {"OUT"} => interest[f] = {"OUT"}
    <3>1. {"IN"} # {"OUT"}
      OBVIOUS
    <3> QED
      BY <1>6, <3>1 DEF ReactorInv, Watched
  <2> QED
    BY <1>5, <2>1 DEF WsConnOK
<1>12. WsRudeCrash'
  <2>1. crashed' => crashed \/ c \in spent
    BY <1>6
  <2>2. \A d \in Client : (Gone(d)' <=> Gone(d)) /\ got'[d] = got[d] /\ sent'[d] = sent[d]
    BY <1>6 DEF Gone
  <2>3. c \in spent => Gone(c) /\ Len(got[c]) < sent[c]
    BY <1>8 DEF EchoesOK
  <2> QED
    BY <2>1, <2>2, <2>3 DEF WsRudeCrash
<1>13. \A f \in Fd \ {fd} : interest'[f] = interest[f] /\ owner'[f] = owner[f] /\ conn_list'[f] = conn_list[f]
  BY <1>5, <1>6 DEF ReactorInv, Watched
<1>14. /\ \A d \in Client : EchoesOK(d)'
       /\ \A f \in Fd, d \in Client : owner'[f] = d => SessionOK(f, d)'
  BY <1>2, <1>6, <1>10, <1>13, OthersEchoed
<1> QED
  BY <1>6, <1>11, <1>12, <1>14

\* Every step.
LEMMA NextWsInv ==
  ASSUME WsAssumed, WsInv, [WS!Next]_(WS!vars)
  PROVE  WsInv'
<1>1. CASE WS!main
  <2>1. WS!Listening = Listening
    BY DEF WS!Listening, Listening
  <2> QED
    BY <1>1, <2>1, EpollWaitWsInv, AcceptWsInv, RecvWsInv, SendWsInv DEF WS!main
<1>2. CASE WS!Clients
  BY <1>2, ClientsWsInv
<1>3. CASE UNCHANGED WS!vars
  <2>1. UNCHANGED <<phase, backlog, owner, sent, inbox, outbox, got, spent, crashed, conn_list, interest, evs>>
    BY <1>3 DEF WS!vars, WS!tcpVars, WS!reactorVars
  <2>2. TcpHas(WsFrame, WsReply)' /\ Watched' /\ EvsOK' /\ EventsHold' /\ WsConnOK' /\ WsRudeCrash'
    BY <2>1 DEF WsInv, ReactorInv, TcpHas, Watched, EvsOK, EventsHold, Readable, Writable, Gone, WsConnOK,
                WsRudeCrash
  <2>3. \A d \in Client : EchoesOK(d)'
    BY <2>1, EchoesSame DEF WsInv
  <2>4. \A fd \in Fd, d \in Client : owner'[fd] = d => SessionOK(fd, d)'
    BY <2>1, SessionSame DEF WsInv
  <2> QED
    BY <2>2, <2>3, <2>4 DEF WsInv, ReactorInv
<1> QED
  BY <1>1, <1>2, <1>3 DEF WS!Next

(***************************************************************************)
(* The callbacks of the WebSocket server are called for events that still  *)
(* hold; whatever a client sends, it is first sent the answer to its       *)
(* upgrade, then, as long as its texts were short, texts of its own, whole *)
(* and in order; and the server ends only because of a client that left    *)
(* before it had read everything.                                          *)
(***************************************************************************)
THEOREM WebSocketEchoes ==
  ASSUME None \notin Client, IsFiniteSet(Fd), Fd \subseteq Nat \ {Listening}, Room \in Nat,
         Messages \in [Client -> Seq(Nat)]
  PROVE  WS!Spec => [](WS!TypeOK /\ WS!EventsHold /\ WS!Echoes /\ WS!OnlyRudeCrash)
<1>1. WS!Init => WsInv
  BY InitWsInv DEF WsAssumed, Assumed
<1>2. WsInv /\ [WS!Next]_(WS!vars) => WsInv'
  BY NextWsInv DEF WsAssumed, Assumed
<1>3. WsInv => WS!TypeOK /\ WS!EventsHold /\ WS!Echoes /\ WS!OnlyRudeCrash
  <2> SUFFICES ASSUME WsInv
               PROVE  WS!TypeOK /\ WS!EventsHold /\ WS!Echoes /\ WS!OnlyRudeCrash
    OBVIOUS
  <2> USE DEF WsInv, ReactorInv
  <2>1. WS!TcpTypeOK
    BY DEF TcpHas, WS!TcpTypeOK, WS!None, None
  <2>2. DOMAIN conn_list = Fd /\ \A fd \in Fd : conn_list[fd].status \in 0 .. 2
    BY DEF WsConnOK
  <2>3. \A k \in 1 .. Len(evs) : evs[k].fd \in Fd \cup {WS!Listening}
    BY EvsName DEF WS!Listening, Listening
  <2>4. WS!TypeOK
    BY <2>1, <2>2, <2>3 DEF Watched, WS!TypeOK, WS!ReactorTypeOK, WS!None, None
  <2>5. WS!EventsHold
    BY DEF EventsHold, WS!EventsHold, WS!Listening, Listening, WS!Readable, Readable, WS!Writable, Writable,
           WS!Gone, Gone, WS!None, None
  <2>6. WS!Echoes
    <3> SUFFICES ASSUME NEW c \in Client, Stream(c) # <<>>
                 PROVE  /\ Stream(c)[1] = WS!SwitchingProtocols
                        /\ Short(c, sent[c]) => \A k \in 2 .. Len(Stream(c)) :
                             /\ \E j \in 1 .. sent[c] - 1 : Stream(c)[k] = EchoOf(c, j)
                             /\ k > 2 => Stream(c)[k - 1].text[2] < Stream(c)[k].text[2]
      BY DEF WS!Echoes, WS!ShortOnly, Short, Stream, EchoOf
    <3>1. MadeOf(Stream(c), c, Taken(c), sent[c]) /\ Taken(c) \in Nat
      BY DEF EchoesOK, FramesOK
    <3>2. \A j \in 1 .. Taken(c) - 1 : j \in 1 .. sent[c] - 1
      <4>1. sent[c] \in Nat /\ Len(inbox[c]) \in Nat
        BY DEF TcpHas
      <4>2. Taken(c) = sent[c] - Len(inbox[c])
        BY DEF Taken
      <4> QED
        BY <3>1, <4>1, <4>2
    <3> QED
      BY <3>1, <3>2 DEF MadeOf
  <2>7. WS!OnlyRudeCrash
    BY DEF WsRudeCrash, WS!OnlyRudeCrash, WS!Gone, Gone
  <2> QED
    BY <2>4, <2>5, <2>6, <2>7
<1> QED
  BY <1>1, <1>2, <1>3, PTL DEF WS!Spec

================================================================================
