--------------------------- MODULE EpollReaderProofs ---------------------------
(***************************************************************************)
(* Theorems about EpollReader, for every number of clients, descriptors    *)
(* and ports.                                                              *)
(***************************************************************************)
EXTENDS EpollReader, FiniteSetTheorems, TLAPS

(***************************************************************************)
(* The server with a thread for every client has the same clients, prints  *)
(* what it receives in the same way, and keeps its descriptors in cells.   *)
(***************************************************************************)
CONSTANT Cell
VARIABLES cells, cell, threads

Threads == INSTANCE OneByOne

(***************************************************************************)
(* Edge-triggered, a descriptor is closed only when it is read to its end, *)
(* and it is read because it was in the batch: ReadsConnections needs that *)
(* no batch names a descriptor twice, nor the one that is being read.      *)
(***************************************************************************)
TcpOK ==
  /\ phase \in [Client -> {"idle", "open", "closed", "reset"}] /\ backlog \subseteq Client
  /\ owner \in [Fd -> Client \cup {None}]
  /\ \A f, g \in Fd : owner[f] \notin backlog /\ (owner[f] = owner[g] => f = g \/ owner[f] = None)
  /\ \A c \in Client : phase[c] = "idle" => c \notin backlog /\ \A fd \in Fd : owner[fd] # c
  /\ sent \in [Client -> Nat] /\ spent \subseteq Client /\ crashed \in BOOLEAN
  /\ inbox \in [Client -> Seq(Client \X Nat)] /\ taken \in [Client -> Seq(Client \X Nat)]

ReaderOK ==
  /\ program \in {"tcp_epoll", "tcp_Server"} /\ listening \subseteq Port /\ edges \subseteq Fd
  /\ reading \in Fd \cup {NoFd} /\ evs \in Seq(Fd \cup {Listener(p) : p \in Port})

NoneTwice ==
  /\ \A j, k \in 1 .. Len(evs) : evs[j] = evs[k] => j = k
  /\ \A k \in 1 .. Len(evs) : evs[k] # reading

IInv == TcpOK /\ ReaderOK /\ NoneTwice /\ ReadsConnections /\ NoForgottenInput /\ KeepsListening

Assumed ==
  /\ None \notin Client /\ IsFiniteSet(Fd) /\ Fd \subseteq Nat \ {NoFd}
  /\ IsFiniteSet(Port) /\ Port \subseteq Nat /\ MAX_PORT \in Nat

\* At the beginning there is no connection.
LEMMA InitIInv ==
  ASSUME Assumed, Init
  PROVE  IInv
<1>1. TcpOK /\ ReaderOK
  <2>1. TcpOK
    <3>1. inbox \in [Client -> Seq(Client \X Nat)] /\ taken \in [Client -> Seq(Client \X Nat)]
      BY DEF Init, TcpInit
    <3> QED
      BY <3>1 DEF Init, TcpInit, TcpOK, Assumed
  <2>2. ReaderOK
    BY DEF Init, ReaderOK
  <2> QED
    BY <2>1, <2>2
<1>2. NoneTwice /\ ReadsConnections /\ NoForgottenInput
  BY DEF Init, TcpInit, NoneTwice, ReadsConnections, NoForgottenInput
<1>3. KeepsListening
  BY DEF Init, KeepsListening, Assumed
<1> QED
  BY <1>1, <1>2, <1>3 DEF IInv

\* A batch names everything that is ready, and nothing twice.
LEMMA Batch ==
  ASSUME NEW S, IsFiniteSet(S), NEW b \in SetToSeqs(S)
  PROVE  /\ b \in Seq(S) /\ \A j, k \in 1 .. Len(b) : b[j] = b[k] => j = k
         /\ \A x \in S : \E k \in 1 .. Len(b) : b[k] = x
<1> DEFINE D == 1 .. Cardinality(S)
<1>1. Cardinality(S) \in Nat /\ IsFiniteSet(D) /\ Cardinality(D) = Cardinality(S)
  BY FS_CardinalityType, FS_Interval
<1>2. b \in [D -> S] /\ \A j, k \in D : j # k => b[j] # b[k]
  BY DEF SetToSeqs
<1>3. b \in Seq(S) /\ Len(b) = Cardinality(S)
  BY <1>1, <1>2
<1>4. b \in Injection(D, S)
  BY <1>2 DEF Injection, IsInjective
<1> HIDE DEF D
<1>5. b \in Surjection(D, S)
  BY <1>1, <1>4, FS_Injection
<1> USE DEF D
<1>6. \A x \in S : \E k \in D : b[k] = x
  BY <1>5 DEF Surjection
<1> QED
  BY <1>2, <1>3, <1>6

\* What a client does about a connection makes an edge.
LEMMA ClientsStep ==
  ASSUME Assumed, IInv, Clients
  PROVE  IInv'
<1> USE DEF IInv
<1>1. PICK c \in Client :
        /\ \/ Connect(c) /\ UNCHANGED edges
           \/ Send(c, <<c, sent[c] + 1>>) /\ Edge(c)
           \/ HangUp(c) /\ Edge(c)
        /\ UNCHANGED <<program, listening, evs, reading, taken>>
  BY DEF Clients
<1>2. TcpOK'
  <2>1. CASE Connect(c)
    BY <1>1, <2>1 DEF TcpOK, Connect, Assumed
  <2>2. CASE Send(c, <<c, sent[c] + 1>>)
    <3>1. <<c, sent[c] + 1>> \in Client \X Nat
      BY DEF TcpOK
    <3> QED
      BY <1>1, <2>2, <3>1 DEF TcpOK, Send
  <2>3. CASE HangUp(c)
    BY <1>1, <2>3 DEF TcpOK, HangUp
  <2> QED
    BY <1>1, <2>1, <2>2, <2>3
<1>3. owner' = owner /\ edges \subseteq edges' /\ edges' \subseteq edges \cup {fd \in Fd : owner[fd] = c}
  BY <1>1 DEF Connect, Send, HangUp, Edge
<1>4. ReaderOK' /\ NoneTwice' /\ KeepsListening'
  BY <1>1, <1>3 DEF ReaderOK, NoneTwice, KeepsListening
<1>5. ReadsConnections'
  BY <1>1, <1>3 DEF ReadsConnections, Assumed
<1>6. NoForgottenInput'
  <2> SUFFICES ASSUME NEW fd \in Fd, owner'[fd] # None, Readable(fd)'
               PROVE  fd \in edges' \cup {reading'} \cup ToSet(evs')
    BY DEF NoForgottenInput
  <2>1. CASE owner[fd] # c
    <3>1. inbox'[owner[fd]] = inbox[owner[fd]] /\ phase'[owner[fd]] = phase[owner[fd]] /\ owner[fd] \in Client
      BY <1>1, <1>3, <2>1 DEF TcpOK, Connect, Send, HangUp
    <3>2. Readable(fd)
      BY <1>3, <3>1 DEF Readable, Gone
    <3> QED
      BY <1>1, <1>3, <3>2 DEF NoForgottenInput
  <2>2. CASE owner[fd] = c /\ Connect(c)
    BY <2>2 DEF Connect, TcpOK
  <2>3. CASE owner[fd] = c /\ ~Connect(c)
    BY <1>1, <2>3 DEF Edge
  <2> QED
    BY <2>1, <2>2, <2>3
<1> QED
  BY <1>2, <1>4, <1>5, <1>6

\* There are finitely many listeners: one for each port.
LEMMA ListenersFinite ==
  ASSUME NEW P \in SUBSET Nat, IsFiniteSet(P)
  PROVE  IsFiniteSet({Listener(p) : p \in P})
<1> DEFINE f == [x \in {Listener(p) : p \in P} |-> -1 - x]
<1>1. \A p \in P : -1 - Listener(p) = p
  BY DEF Listener
<1>2. f \in Injection({Listener(p) : p \in P}, P)
  <2>1. f \in [{Listener(p) : p \in P} -> P]
    BY <1>1
  <2>2. \A a, b \in {Listener(p) : p \in P} : f[a] = f[b] => a = b
    BY <1>1 DEF Listener
  <2> QED
    BY <2>1, <2>2 DEF Injection, IsInjective
<1> QED
  BY <1>2, FS_Injection

\* epoll_wait reports every edge, and forgets it.
LEMMA EpollWaitStep ==
  ASSUME Assumed, IInv, epoll_wait
  PROVE  IInv'
<1> USE DEF IInv
<1> DEFINE L == {Listener(p) : p \in {q \in listening : Waiting(q) # {}}}
           ready == edges \cup L
<1>1. /\ evs = <<>> /\ reading = NoFd /\ evs' \in SetToSeqs(ready) /\ edges' = {}
      /\ UNCHANGED <<tcpVars, program, listening, reading, taken>>
  BY DEF epoll_wait
<1> HIDE DEF L
<1> DEFINE Ringing == {q \in listening : Waiting(q) # {}}
<1>2. L \subseteq {Listener(p) : p \in Port} /\ IsFiniteSet(L)
  <2>1. Ringing \in SUBSET Port /\ Ringing \in SUBSET Nat
    BY DEF ReaderOK, Assumed
  <2>2. IsFiniteSet(Ringing)
    BY <2>1, FS_Subset DEF Assumed
  <2>3. L = {Listener(p) : p \in Ringing}
    BY DEF L
  <2> HIDE DEF Ringing
  <2>4. IsFiniteSet(L)
    BY <2>1, <2>2, <2>3, ListenersFinite
  <2> QED
    BY <2>1, <2>3, <2>4
<1>3. IsFiniteSet(ready)
  <2>1. IsFiniteSet(edges)
    BY FS_Subset DEF ReaderOK, Assumed
  <2> QED
    BY <1>2, <2>1, FS_Union
<1>4. ready \subseteq Fd \cup {Listener(p) : p \in Port} /\ NoFd \notin ready
  <2>1. \A p \in Port : Listener(p) # NoFd
    BY DEF Listener, NoFd, Assumed
  <2>2. edges \subseteq Fd /\ NoFd \notin Fd
    BY DEF ReaderOK, Assumed
  <2> QED
    BY <1>2, <2>1, <2>2
<1> HIDE DEF ready
<1>5. /\ evs' \in Seq(ready) /\ \A j, k \in 1 .. Len(evs') : evs'[j] = evs'[k] => j = k
      /\ \A x \in ready : \E k \in 1 .. Len(evs') : evs'[k] = x
  BY <1>1, <1>3, Batch
<1>6. \A k \in 1 .. Len(evs') : evs'[k] \in ready
  BY <1>5
<1>7. TcpOK' /\ ReaderOK' /\ KeepsListening'
  BY <1>1, <1>4, <1>5 DEF TcpOK, tcpVars, ReaderOK, KeepsListening
<1>8. NoneTwice'
  BY <1>1, <1>4, <1>5, <1>6 DEF NoneTwice
<1>9. ReadsConnections'
  <2>1. \A x \in ready : x > 0 => x \in edges
    BY <1>2 DEF ready, Listener, Assumed
  <2> QED
    BY <1>1, <1>6, <2>1 DEF ReadsConnections, tcpVars
<1>10. NoForgottenInput'
  <2> SUFFICES ASSUME NEW fd \in Fd, owner'[fd] # None, Readable(fd)'
               PROVE  fd \in ToSet(evs')
    BY DEF NoForgottenInput
  <2>1. Readable(fd) /\ owner[fd] # None
    BY <1>1 DEF Readable, Gone, tcpVars
  <2>2. fd \in edges
    BY <1>1, <2>1 DEF NoForgottenInput, ToSet, Assumed
  <2>3. PICK k \in 1 .. Len(evs') : evs'[k] = fd
    BY <1>5, <2>2 DEF ready
  <2> QED
    BY <1>5, <2>3 DEF ToSet
<1> QED
  BY <1>7, <1>8, <1>9, <1>10

\* What the loop takes from the batch is not in the rest of it.
LEMMA Taken ==
  ASSUME Assumed, ReaderOK, NoneTwice, evs # <<>>
  PROVE  /\ Tail(evs) \in Seq(Fd \cup {Listener(p) : p \in Port})
         /\ Head(evs) \in Fd \cup {Listener(p) : p \in Port}
         /\ Head(evs) = evs[1] /\ 1 \in 1 .. Len(evs)
         /\ \A j, k \in 1 .. Len(Tail(evs)) : Tail(evs)[j] = Tail(evs)[k] => j = k
         /\ \A k \in 1 .. Len(Tail(evs)) : /\ Tail(evs)[k] # Head(evs) /\ Tail(evs)[k] # reading
                                           /\ \E j \in 1 .. Len(evs) : evs[j] = Tail(evs)[k]
         /\ \A x \in ToSet(evs) : x = Head(evs) \/ x \in ToSet(Tail(evs))
<1> DEFINE E == Fd \cup {Listener(p) : p \in Port}  t == Tail(evs)
<1> HIDE DEF E
<1>1. evs \in Seq(E) /\ evs # <<>>
  BY DEF ReaderOK, E
<1>2. /\ t \in Seq(E) /\ Len(t) = Len(evs) - 1 /\ \A k \in 1 .. Len(t) : t[k] = evs[k + 1]
      /\ Head(evs) = evs[1] /\ Len(evs) \in Nat /\ Len(evs) > 0 /\ Head(evs) \in E
  BY <1>1
<1> HIDE DEF t
<1>3. \A k \in 1 .. Len(t) : k + 1 \in 1 .. Len(evs) /\ k + 1 # 1
  BY <1>2
<1>4. 1 \in 1 .. Len(evs)
  BY <1>2
<1>5. \A j, k \in 1 .. Len(t) : t[j] = t[k] => j = k
  <2> SUFFICES ASSUME NEW j \in 1 .. Len(t), NEW k \in 1 .. Len(t), t[j] = t[k]
               PROVE  j = k
    OBVIOUS
  <2>1. j + 1 = k + 1
    BY <1>2, <1>3 DEF NoneTwice
  <2> QED
    BY <1>2, <2>1
<1>6. \A k \in 1 .. Len(t) : t[k] # Head(evs) /\ t[k] # reading /\ \E j \in 1 .. Len(evs) : evs[j] = t[k]
  BY <1>2, <1>3, <1>4 DEF NoneTwice
<1>7. \A x \in ToSet(evs) : x = Head(evs) \/ x \in ToSet(t)
  <2> SUFFICES ASSUME NEW j \in 1 .. Len(evs), evs[j] # Head(evs)
               PROVE  evs[j] \in ToSet(t)
    BY <1>1 DEF ToSet
  <2>1. j - 1 \in 1 .. Len(t) /\ (j - 1) + 1 = j
    BY <1>2
  <2>2. t[j - 1] = evs[j]
    BY <1>2, <2>1
  <2> QED
    BY <1>2, <2>1, <2>2 DEF ToSet
<1> QED
  BY <1>2, <1>4, <1>5, <1>6, <1>7 DEF t, E

\* A batch names descriptors of connections, which are positive, and of
\* listeners, which are negative.
LEMMA Names ==
  ASSUME Assumed, NEW x \in Fd \cup {Listener(p) : p \in Port}
  PROVE  /\ x \in Int /\ x # NoFd
         /\ x \in Fd => x > 0 /\ ~(x < 0)
         /\ x \notin Fd => x < 0 /\ ~(x > 0) /\ -1 - x \in Port
<1>1. CASE x \in Fd
  BY <1>1 DEF Assumed, NoFd
<1>2. CASE x \notin Fd
  <2>1. PICK p \in Port : x = -1 - p
    BY <1>2 DEF Listener
  <2>2. p \in Nat
    BY DEF Assumed
  <2>3. -1 - x = p /\ x < 0 /\ x \in Int
    BY <2>1, <2>2
  <2> QED
    BY <1>2, <2>3 DEF NoFd
<1> QED
  BY <1>1, <1>2

\* Nothing in a batch is NoFd.
LEMMA NotNoFd ==
  ASSUME Assumed, ReaderOK
  PROVE  \A k \in 1 .. Len(evs) : evs[k] # NoFd /\ (evs[k] > 0 => evs[k] \in Fd)
<1>1. \A x \in Fd \cup {Listener(p) : p \in Port} : x # NoFd /\ (x > 0 => x \in Fd)
  BY Names
<1> QED
  BY <1>1 DEF ReaderOK

\* The loop goes on to the next event of the batch.
LEMMA HandleEventStep ==
  ASSUME Assumed, IInv, HandleEvent
  PROVE  IInv'
<1> USE DEF IInv
<1> DEFINE fd == Head(evs)
<1>1. evs # <<>> /\ reading = NoFd /\ evs' = Tail(evs) /\ program' = program
  BY DEF HandleEvent
<1>2. fd \in Fd \cup {Listener(p) : p \in Port}
  BY <1>1, Taken
<1>3. fd \in Int /\ (fd \in Fd <=> ~(fd < 0)) /\ (fd \in Fd => fd > 0) /\ (fd < 0 => -1 - fd \in Port)
  BY <1>2, Names
<1>4. (fd \in Fd => owner[fd] # None) /\ \A k \in 1 .. Len(evs') : evs'[k] > 0 => owner[evs'[k]] # None
  <2>1. fd \in Fd => owner[fd] # None
    BY <1>1, <1>3, Taken DEF ReadsConnections
  <2>2. \A k \in 1 .. Len(evs') : \E j \in 1 .. Len(evs) : evs[j] = evs'[k]
    BY <1>1, Taken
  <2> QED
    BY <2>1, <2>2 DEF ReadsConnections
<1>5. /\ evs' \in Seq(Fd \cup {Listener(p) : p \in Port})
      /\ \A j, k \in 1 .. Len(evs') : evs'[j] = evs'[k] => j = k
      /\ \A k \in 1 .. Len(evs') : evs'[k] # fd /\ evs'[k] # NoFd
      /\ \A x \in ToSet(evs) : x = fd \/ x \in ToSet(evs')
  <2>1. \A k \in 1 .. Len(Tail(evs)) : Tail(evs)[k] # NoFd
    BY <1>1, Taken
  <2> QED
    BY <1>1, <2>1, Taken
<1>6. CASE islistenfd(fd) /\ accept_event(fd)
  <2>1. fd < 0 /\ listening' = listening /\ reading' = reading /\ taken' = taken
    BY <1>6 DEF islistenfd, accept_event
  <2>2. CASE UNCHANGED <<tcpVars, edges>>
    <3>1. TcpOK' /\ ReaderOK' /\ NoneTwice' /\ KeepsListening'
      BY <1>1, <1>5, <2>1, <2>2 DEF TcpOK, tcpVars, ReaderOK, NoneTwice, KeepsListening
    <3>2. ReadsConnections'
      BY <1>1, <1>4, <2>1, <2>2 DEF ReadsConnections, tcpVars
    <3>3. NoForgottenInput'
      BY <1>3, <1>5, <2>1, <2>2 DEF NoForgottenInput, Readable, Gone, tcpVars
    <3> QED
      BY <3>1, <3>2, <3>3
  <2>3. CASE ~UNCHANGED <<tcpVars, edges>>
    <3>1. PICK c \in backlog, new \in Fd :
             /\ accept(c, new)
             /\ edges' = IF inbox[c] # <<>> \/ Gone(c) THEN edges \cup {new} ELSE edges
      BY <1>6, <2>3 DEF accept_event, Waiting
    <3>2. /\ owner' = [owner EXCEPT ![new] = c] /\ owner[new] = None /\ c \in Client /\ c # None
          /\ backlog' = backlog \ {c} /\ UNCHANGED <<phase, sent, inbox, spent, crashed>>
      BY <3>1 DEF accept, TcpOK, Assumed
    <3>3. TcpOK' /\ ReaderOK' /\ NoneTwice' /\ KeepsListening'
      <4>1. TcpOK'
        BY <2>1, <3>2 DEF TcpOK, Assumed
      <4>2. ReaderOK' /\ NoneTwice' /\ KeepsListening'
        BY <1>1, <1>5, <2>1, <3>1 DEF ReaderOK, NoneTwice, KeepsListening
      <4> QED
        BY <4>1, <4>2
    <3>4. \A f \in Fd : f # new => owner'[f] = owner[f]
      BY <3>2 DEF TcpOK
    <3>5. owner'[new] = c
      BY <3>2 DEF TcpOK
    <3>6. ReadsConnections'
      <4>1. \A f \in edges' : owner'[f] # None
        BY <3>1, <3>2, <3>4, <3>5 DEF ReadsConnections, ReaderOK
      <4>2. \A k \in 1 .. Len(evs') : evs'[k] > 0 => owner'[evs'[k]] # None
        <5> SUFFICES ASSUME NEW k \in 1 .. Len(evs'), evs'[k] > 0
                     PROVE  owner'[evs'[k]] # None
          OBVIOUS
        <5>1. evs'[k] \in Fd
          <6>1. evs'[k] \in Fd \cup {Listener(p) : p \in Port}
            BY <1>5
          <6> QED
            BY <6>1, Names
        <5>2. owner[evs'[k]] # None
          BY <1>4
        <5> QED
          BY <3>2, <3>4, <5>1, <5>2
      <4> QED
        BY <1>1, <2>1, <4>1, <4>2 DEF ReadsConnections
    <3>7. NoForgottenInput'
      <4> SUFFICES ASSUME NEW f \in Fd, owner'[f] # None, Readable(f)'
                   PROVE  f \in edges' \cup {reading'} \cup ToSet(evs')
        BY DEF NoForgottenInput
      <4>1. CASE f = new
        BY <3>1, <3>2, <3>5, <4>1 DEF Readable, Gone
      <4>2. CASE f # new
        <5>1. Readable(f) /\ owner[f] # None
          BY <3>2, <3>4, <4>2 DEF Readable, Gone
        <5> QED
          BY <1>3, <1>5, <2>1, <3>1, <5>1 DEF NoForgottenInput
      <4> QED
        BY <4>1, <4>2
    <3> QED
      BY <3>3, <3>6, <3>7
  <2> QED
    BY <2>2, <2>3
<1>7. CASE fd < 0 /\ ~islistenfd(fd) /\ listener_event(fd)
  <2> DEFINE p == -1 - fd  W == Waiting(p)
  <2>1. program # "tcp_epoll" /\ ~(p < MAX_PORT)
    BY <1>7 DEF islistenfd, ReaderOK
  <2>2. W \subseteq backlog
    BY DEF Waiting
  <2>3. /\ listening' = listening \ {p} /\ backlog' = backlog \ W
        /\ phase' = [c \in Client |-> IF c \in W THEN "reset" ELSE phase[c]]
        /\ UNCHANGED <<owner, sent, inbox, outbox, got, spent, crashed, edges, reading, taken>>
    BY <1>7 DEF listener_event
  <2> HIDE DEF W
  <2>4. TcpOK'
    BY <2>2, <2>3 DEF TcpOK
  <2>5. ReaderOK' /\ NoneTwice'
    BY <1>1, <1>5, <2>3 DEF ReaderOK, NoneTwice
  <2>6. KeepsListening'
    BY <1>1, <2>1, <2>3 DEF KeepsListening
  <2>7. ReadsConnections'
    BY <1>1, <1>4, <2>3 DEF ReadsConnections
  <2>8. NoForgottenInput'
    <3> SUFFICES ASSUME NEW f \in Fd, owner'[f] # None, Readable(f)'
                 PROVE  f \in edges' \cup {reading'} \cup ToSet(evs')
      BY DEF NoForgottenInput
    <3>1. owner[f] \in Client /\ owner[f] \notin W
      BY <2>2, <2>3 DEF TcpOK
    <3>2. Readable(f)
      BY <2>3, <3>1 DEF Readable, Gone
    <3> QED
      BY <1>3, <1>5, <1>7, <2>3, <3>1, <3>2 DEF NoForgottenInput
  <2> QED
    BY <2>4, <2>5, <2>6, <2>7, <2>8
<1>8. CASE ~(fd < 0) /\ client_event(fd)
  <2>1. fd \in Fd /\ reading' = fd /\ UNCHANGED <<tcpVars, listening, edges, taken>>
    BY <1>3, <1>8 DEF client_event
  <2>2. TcpOK' /\ ReaderOK' /\ NoneTwice' /\ KeepsListening'
    BY <1>1, <1>5, <2>1 DEF TcpOK, tcpVars, ReaderOK, NoneTwice, KeepsListening
  <2>3. ReadsConnections'
    BY <1>4, <2>1 DEF ReadsConnections, tcpVars
  <2>4. NoForgottenInput'
    <3> SUFFICES ASSUME NEW f \in Fd, owner'[f] # None, Readable(f)'
                 PROVE  f \in edges' \cup {reading'} \cup ToSet(evs')
      BY DEF NoForgottenInput
    <3>1. Readable(f) /\ owner[f] # None
      BY <2>1 DEF Readable, Gone, tcpVars
    <3> QED
      BY <1>1, <1>5, <2>1, <3>1 DEF NoForgottenInput, Assumed
  <2> QED
    BY <2>2, <2>3, <2>4
<1> QED
  BY <1>3, <1>6, <1>7, <1>8 DEF HandleEvent, islistenfd

\* One turn of the reading loop: only the end of a connection closes its
\* descriptor, which nothing names any more.
LEMMA ReadOnStep ==
  ASSUME Assumed, IInv, ReadOn
  PROVE  IInv'
<1> USE DEF IInv
<1> DEFINE fd == reading
<1>1. fd \in Fd /\ fd # NoFd /\ owner[fd] \in Client /\ program' = program /\ listening' = listening /\ evs' = evs
  BY DEF ReadOn, ReaderOK, ReadsConnections, TcpOK
<1>2. KeepsListening' /\ spent' = spent /\ sent' = sent
  BY <1>1 DEF KeepsListening, ReadOn, RecvData, RecvNothing, RecvError, RecvEnd, recv, close, tcpVars
<1>3. CASE RecvData(fd)
  <2>1. PICK n \in 1 .. Len(inbox[owner[fd]]) :
          /\ recv(fd, n) /\ taken' = [taken EXCEPT ![owner[fd]] = @ \o Received(fd, n)]
          /\ UNCHANGED <<edges, reading>>
    BY <1>3 DEF RecvData
  <2> DEFINE c == owner[fd]  first == SubSeq(inbox[c], 1, n)  rest == SubSeq(inbox[c], n + 1, Len(inbox[c]))
  <2>2. inbox[c] \in Seq(Client \X Nat) /\ taken[c] \in Seq(Client \X Nat)
    BY <1>1 DEF TcpOK
  <2>3. first \in Seq(Client \X Nat) /\ rest \in Seq(Client \X Nat)
    BY <2>2
  <2>4. taken[c] \o first \in Seq(Client \X Nat)
    BY <2>2, <2>3
  <2>5. /\ inbox' = [inbox EXCEPT ![c] = rest] /\ taken' = [taken EXCEPT ![c] = taken[c] \o first]
        /\ UNCHANGED <<phase, backlog, owner, sent, spent, crashed>>
    BY <2>1 DEF recv, Received
  <2>6. inbox' \in [Client -> Seq(Client \X Nat)] /\ taken' \in [Client -> Seq(Client \X Nat)]
    BY <1>1, <2>3, <2>4, <2>5 DEF TcpOK
  <2>7. TcpOK' /\ ReaderOK' /\ NoneTwice' /\ ReadsConnections'
    BY <1>1, <2>1, <2>5, <2>6 DEF TcpOK, ReaderOK, NoneTwice, ReadsConnections
  <2>8. NoForgottenInput'
    <3> SUFFICES ASSUME NEW f \in Fd, owner'[f] # None, Readable(f)', f # fd
                 PROVE  f \in edges' \cup ToSet(evs')
      BY <2>1 DEF NoForgottenInput
    <3>1. owner[f] # c /\ owner[f] \in Client /\ owner[f] # None
      BY <1>1, <2>5 DEF TcpOK, Assumed
    <3>2. Readable(f)
      BY <2>5, <3>1 DEF Readable, Gone, TcpOK
    <3> QED
      BY <1>1, <2>1, <3>1, <3>2 DEF NoForgottenInput
  <2> QED
    BY <1>2, <2>7, <2>8
<1>4. CASE RecvNothing(fd)
  <2>1. ~Readable(fd) /\ reading' = NoFd /\ UNCHANGED <<tcpVars, edges, taken>>
    BY <1>4 DEF RecvNothing
  <2>2. \A k \in 1 .. Len(evs) : evs[k] # NoFd
    BY NotNoFd
  <2>3. TcpOK' /\ ReaderOK' /\ NoneTwice' /\ ReadsConnections'
    BY <1>1, <2>1, <2>2 DEF TcpOK, tcpVars, ReaderOK, NoneTwice, ReadsConnections
  <2>4. NoForgottenInput'
    BY <1>1, <2>1 DEF NoForgottenInput, Readable, Gone, tcpVars
  <2> QED
    BY <1>2, <2>3, <2>4
<1>5. CASE RecvError(fd)
  <2>1. /\ phase[owner[fd]] = "reset" /\ phase' = [phase EXCEPT ![owner[fd]] = "closed"]
        /\ UNCHANGED <<backlog, owner, sent, inbox, spent, crashed, edges, reading, taken>>
    BY <1>5 DEF RecvError, AtEnd
  <2>2. TcpOK' /\ ReaderOK' /\ NoneTwice' /\ ReadsConnections'
    BY <1>1, <2>1 DEF TcpOK, ReaderOK, NoneTwice, ReadsConnections
  <2>3. \A d \in Client : Gone(d)' <=> Gone(d)
    BY <2>1 DEF Gone, TcpOK
  <2>4. NoForgottenInput'
    <3> SUFFICES ASSUME NEW f \in Fd, owner'[f] # None, Readable(f)'
                 PROVE  f \in edges' \cup {reading'} \cup ToSet(evs')
      BY DEF NoForgottenInput
    <3>1. owner[f] \in Client /\ owner[f] # None
      BY <2>1 DEF TcpOK
    <3>2. inbox[owner[f]] # <<>> \/ Gone(owner[f])
      <4>1. inbox'[owner'[f]] # <<>> \/ Gone(owner[f])'
        BY DEF Readable, Gone
      <4>2. phase'[owner'[f]] \in {"closed", "reset"} => phase[owner[f]] \in {"closed", "reset"}
        BY <2>1, <3>1 DEF TcpOK
      <4> QED
        BY <2>1, <4>1, <4>2 DEF Gone
    <3> QED
      BY <1>1, <2>1, <3>1, <3>2 DEF NoForgottenInput, Readable
  <2> QED
    BY <1>2, <2>2, <2>4
<1>6. CASE RecvEnd(fd)
  <2>1. /\ owner' = [owner EXCEPT ![fd] = None] /\ edges' = edges \ {fd} /\ reading' = NoFd
        /\ UNCHANGED <<phase, backlog, sent, inbox, spent, crashed, taken>>
    BY <1>6 DEF RecvEnd, close
  <2>2. \A k \in 1 .. Len(evs) : evs[k] # NoFd
    BY NotNoFd
  <2>3. TcpOK' /\ ReaderOK' /\ NoneTwice'
    BY <1>1, <2>1, <2>2 DEF TcpOK, ReaderOK, NoneTwice, Assumed
  <2>4. \A f \in Fd : f # fd => owner'[f] = owner[f]
    BY <2>1 DEF TcpOK
  <2>5. ReadsConnections'
    <3>1. \A f \in edges' : owner'[f] # None
      BY <2>1, <2>4 DEF ReadsConnections, ReaderOK
    <3>2. ASSUME NEW k \in 1 .. Len(evs), evs[k] > 0
          PROVE  owner'[evs[k]] # None
      <4>1. evs[k] \in Fd /\ evs[k] # fd
        BY <3>2, NotNoFd DEF NoneTwice
      <4> QED
        BY <2>4, <3>2, <4>1 DEF ReadsConnections
    <3> QED
      BY <1>1, <2>1, <3>1, <3>2 DEF ReadsConnections
  <2>6. NoForgottenInput'
    <3> SUFFICES ASSUME NEW f \in Fd, owner'[f] # None, Readable(f)'
                 PROVE  f \in edges' \cup ToSet(evs')
      BY DEF NoForgottenInput
    <3>1. f # fd /\ owner'[f] = owner[f]
      BY <2>1, <2>4 DEF TcpOK
    <3>2. Readable(f) /\ owner[f] # None
      BY <2>1, <3>1 DEF Readable, Gone
    <3> QED
      BY <1>1, <2>1, <3>1, <3>2 DEF NoForgottenInput
  <2> QED
    BY <1>2, <2>3, <2>5, <2>6
<1> QED
  BY <1>3, <1>4, <1>5, <1>6 DEF ReadOn

\* Every step preserves the invariant.
LEMMA NextIInv ==
  ASSUME Assumed, IInv, [Next]_vars
  PROVE  IInv'
<1>1. CASE main
  BY <1>1, EpollWaitStep, HandleEventStep, ReadOnStep DEF main
<1>2. CASE Clients
  BY <1>2, ClientsStep
<1>3. CASE UNCHANGED vars
  BY <1>3 DEF vars, tcpVars, readerVars, IInv, TcpOK, ReaderOK, NoneTwice, ReadsConnections,
              NoForgottenInput, KeepsListening, Readable, Gone
<1> QED
  BY <1>1, <1>2, <1>3 DEF Next

\* However data, hang-ups and new clients fall between the calls of
\* tcp_epoll.c and tcp_Server.c, an edge that is reported once is enough:
\* whatever has arrived on a connection is still to be reported, is in the
\* batch or is being read, no closed descriptor is read, and the listeners
\* that islistenfd knows stay open.
THEOREM NothingForgotten ==
  ASSUME None \notin Client, IsFiniteSet(Fd), Fd \subseteq Nat \ {NoFd},
         IsFiniteSet(Port), Port \subseteq Nat, MAX_PORT \in Nat
  PROVE  Spec => [](TypeOK /\ ReadersSound /\ KeepsListening)
<1> USE DEF Assumed
<1>1. Init => IInv
  BY InitIInv
<1>2. IInv /\ [Next]_vars => IInv'
  BY NextIInv
<1>3. IInv => TypeOK /\ ReadersSound /\ KeepsListening
  BY DEF IInv, TypeOK, TcpTypeOK, TcpOK, ReaderOK, ReadersSound
<1> QED
  BY <1>1, <1>2, <1>3, PTL DEF Spec
--------------------------------------------------------------------------------
(***************************************************************************)
(* OneByOne.  A cell is written before a thread knows of it and read       *)
(* before it is freed: the cells that are allocated and not main's are     *)
(* those of the threads that have not started, and every connection is in  *)
(* one cell or with one thread.                                            *)
(***************************************************************************)
Given(x) == [arg |-> x, client_fd |-> 0]
Running(fd) == [arg |-> Threads!NoCell, client_fd |-> fd]

CellsOK ==
  /\ cells \in [DOMAIN cells -> Fd \cup {0}] /\ DOMAIN cells \subseteq Cell
  /\ cell \in DOMAIN cells \cup {Threads!NoCell}
  /\ threads \subseteq {Given(x) : x \in Cell} \cup {Running(fd) : fd \in Fd}
  /\ \A x \in Cell : Given(x) \in threads <=> x \in DOMAIN cells /\ x # cell
  /\ \A x \in DOMAIN cells : x # cell => cells[x] # 0

HandedOver ==
  /\ \A x \in DOMAIN cells : cells[x] # 0 => owner[cells[x]] # None /\ Running(cells[x]) \notin threads
  /\ \A x, y \in DOMAIN cells : cells[x] = cells[y] /\ cells[x] # 0 => x = y
  /\ \A fd \in Fd : Running(fd) \in threads => owner[fd] # None
  /\ \A fd \in Fd : owner[fd] # None => Running(fd) \in threads \/ \E x \in DOMAIN cells : cells[x] = fd

CellInv == TcpOK /\ CellsOK /\ HandedOver

CellsAssumed == None \notin Client /\ 0 \notin Fd /\ Threads!NoCell \notin Cell

\* Before anything is allocated.
LEMMA InitCellInv ==
  ASSUME CellsAssumed, Threads!Init
  PROVE  CellInv
<1> USE DEF Threads!Init, Threads!TcpInit
<1>1. inbox \in [Client -> Seq(Client \X Nat)] /\ taken \in [Client -> Seq(Client \X Nat)]
  OBVIOUS
<1>2. TcpOK
  BY <1>1 DEF TcpOK, CellsAssumed, None, Threads!None
<1>3. DOMAIN cells = {} /\ cells \in [{} -> Fd \cup {0}]
  OBVIOUS
<1>4. CellsOK /\ HandedOver
  BY <1>3 DEF CellsOK, HandedOver, Threads!None, None
<1> QED
  BY <1>2, <1>4 DEF CellInv

\* The clients do not touch the cells.
LEMMA ClientsCellInv ==
  ASSUME CellsAssumed, CellInv, Threads!Clients
  PROVE  CellInv'
<1> USE DEF CellInv
<1>1. PICK c \in Client :
        /\ Threads!Connect(c) \/ Threads!HangUp(c) \/ Threads!Send(c, <<c, sent[c] + 1>>)
        /\ UNCHANGED <<cells, cell, threads, taken>>
  BY DEF Threads!Clients, Threads!threadVars
<1>2. TcpOK'
  <2>1. CASE Threads!Connect(c)
    BY <1>1, <2>1 DEF TcpOK, Threads!Connect, CellsAssumed
  <2>2. CASE Threads!HangUp(c)
    BY <1>1, <2>2 DEF TcpOK, Threads!HangUp
  <2>3. CASE Threads!Send(c, <<c, sent[c] + 1>>)
    <3>1. <<c, sent[c] + 1>> \in Client \X Nat
      BY DEF TcpOK
    <3> QED
      BY <1>1, <2>3, <3>1 DEF TcpOK, Threads!Send
  <2> QED
    BY <1>1, <2>1, <2>2, <2>3
<1>3. owner' = owner
  BY <1>1 DEF Threads!Connect, Threads!HangUp, Threads!Send
<1> QED
  BY <1>1, <1>2, <1>3 DEF CellsOK, HandedOver

\* The two kinds of thread differ.
LEMMA KindsDiffer ==
  ASSUME CellsAssumed
  PROVE  /\ \A x \in Cell, fd \in Fd : Given(x) # Running(fd)
         /\ \A x, y \in Cell : Given(x) = Given(y) => x = y
         /\ \A f, g \in Fd : Running(f) = Running(g) => f = g
  BY DEF CellsAssumed, Given, Running

\* malloc gives out a cell that nobody has.
LEMMA MallocCellInv ==
  ASSUME CellsAssumed, CellInv, Threads!Malloc
  PROVE  CellInv'
<1> USE DEF CellInv
<1>1. PICK x \in Cell \ DOMAIN cells :
        /\ cell = Threads!NoCell /\ cell' = x
        /\ cells' = [y \in DOMAIN cells \cup {x} |-> IF y = x THEN 0 ELSE cells[y]]
        /\ UNCHANGED <<Threads!tcpVars, threads, taken>>
  BY DEF Threads!Malloc, Threads!Allocated
<1>2. DOMAIN cells' = DOMAIN cells \cup {x} /\ cells'[x] = 0 /\ \A y \in DOMAIN cells : cells'[y] = cells[y]
  BY <1>1
<1>3. TcpOK' /\ owner' = owner
  BY <1>1 DEF TcpOK, Threads!tcpVars
<1>4. CellsOK'
  BY <1>1, <1>2 DEF CellsOK, CellsAssumed
<1>5. HandedOver'
  BY <1>1, <1>2, <1>3 DEF HandedOver, CellsAssumed
<1> QED
  BY <1>3, <1>4, <1>5

\* accept writes main's own cell; when it fails the cell is freed.
LEMMA AcceptCellInv ==
  ASSUME CellsAssumed, CellInv, Threads!Accept
  PROVE  CellInv'
<1> USE DEF CellInv
<1>1. cell \in DOMAIN cells /\ cells[cell] = 0 /\ UNCHANGED <<threads, taken>> /\ cell # Threads!NoCell
  BY DEF Threads!Accept, CellsOK
<1>2. CASE \E c \in Client, fd \in Fd :
             Threads!accept(c, fd) /\ cells' = [cells EXCEPT ![cell] = fd] /\ UNCHANGED cell
  <2>1. PICK c \in Client, fd \in Fd :
          /\ c \in backlog /\ owner[fd] = None /\ backlog' = backlog \ {c} /\ owner' = [owner EXCEPT ![fd] = c]
          /\ UNCHANGED <<phase, sent, inbox, spent, crashed>>
          /\ cells' = [cells EXCEPT ![cell] = fd] /\ cell' = cell
    BY <1>2 DEF Threads!accept, Threads!None, None
  <2>2. TcpOK'
    BY <1>1, <2>1 DEF TcpOK, CellsAssumed
  <2>3. /\ owner'[fd] = c /\ c # None /\ \A f \in Fd : f # fd => owner'[f] = owner[f]
        /\ DOMAIN cells' = DOMAIN cells /\ cells'[cell] = fd
        /\ \A x \in DOMAIN cells : x # cell => cells'[x] = cells[x] /\ cells[x] # fd
        /\ Running(fd) \notin threads
    BY <1>1, <2>1 DEF TcpOK, CellsAssumed, CellsOK, HandedOver
  <2>4. CellsOK'
    BY <1>1, <2>1, <2>3 DEF CellsOK, CellsAssumed
  <2>5. HandedOver'
    BY <1>1, <2>1, <2>3 DEF HandedOver, CellsOK, CellsAssumed
  <2> QED
    BY <2>2, <2>4, <2>5
<1>3. CASE /\ cells' = Threads!Restrict(cells, DOMAIN cells \ {cell}) /\ cell' = Threads!NoCell
           /\ UNCHANGED Threads!tcpVars
  <2>1. DOMAIN cells' = DOMAIN cells \ {cell} /\ \A x \in DOMAIN cells' : cells'[x] = cells[x]
    BY <1>3 DEF Threads!Restrict
  <2>2. TcpOK' /\ owner' = owner
    BY <1>1, <1>3 DEF TcpOK, Threads!tcpVars
  <2>3. CellsOK'
    <3>1. cells' \in [DOMAIN cells' -> Fd \cup {0}]
      BY <1>3 DEF Threads!Restrict, CellsOK
    <3> QED
      BY <1>1, <1>3, <2>1, <3>1 DEF CellsOK, CellsAssumed
  <2>4. HandedOver'
    BY <1>1, <2>1, <2>2 DEF HandedOver, CellsAssumed
  <2> QED
    BY <2>2, <2>3, <2>4
<1> QED
  BY <1>2, <1>3 DEF Threads!Accept, Threads!Allocated

\* The new thread is given main's cell.
LEMMA CreateCellInv ==
  ASSUME CellsAssumed, CellInv, Threads!pthread_create
  PROVE  CellInv'
<1> USE DEF CellInv
<1>1. /\ cell \in DOMAIN cells /\ cell \in Cell /\ cells[cell] # 0 /\ threads' = threads \cup {Given(cell)}
      /\ cell' = Threads!NoCell /\ UNCHANGED <<Threads!tcpVars, cells, taken>>
  BY DEF Threads!pthread_create, CellsOK, Given
<1>2. TcpOK' /\ owner' = owner
  BY <1>1 DEF TcpOK, Threads!tcpVars
<1>3. CellsOK'
  BY <1>1, KindsDiffer DEF CellsOK, CellsAssumed
<1>4. \A fd \in Fd : Running(fd) \in threads' <=> Running(fd) \in threads
  BY <1>1, KindsDiffer
<1>5. HandedOver'
  BY <1>1, <1>2, <1>4 DEF HandedOver, CellsOK
<1> QED
  BY <1>2, <1>3, <1>5

\* A thread that starts takes over the descriptor and frees the cell.
LEMMA StartCellInv ==
  ASSUME CellsAssumed, CellInv, NEW t \in threads, Threads!HandlerStart(t)
  PROVE  CellInv'
<1> USE DEF CellInv
<1>1. PICK x \in Cell : t = Given(x)
  BY DEF Threads!HandlerStart, CellsOK, Running, CellsAssumed
<1> DEFINE fd == cells[x]
<1>2. x \in DOMAIN cells /\ x # cell /\ fd \in Fd /\ owner[fd] # None /\ Running(fd) \notin threads
  BY <1>1 DEF CellsOK, HandedOver
<1>3. /\ threads' = (threads \ {Given(x)}) \cup {Running(fd)}
      /\ cells' = Threads!Restrict(cells, DOMAIN cells \ {x}) /\ UNCHANGED <<Threads!tcpVars, cell, taken>>
  BY <1>1 DEF Threads!HandlerStart, Threads!Allocated, Given, Running
<1>4. DOMAIN cells' = DOMAIN cells \ {x} /\ \A y \in DOMAIN cells' : cells'[y] = cells[y]
  BY <1>3 DEF Threads!Restrict
<1>5. TcpOK' /\ owner' = owner
  BY <1>3 DEF TcpOK, Threads!tcpVars
<1>6. /\ \A y \in Cell : Given(y) \in threads' <=> Given(y) \in threads /\ y # x
      /\ \A f \in Fd : Running(f) \in threads' <=> Running(f) \in threads \/ f = fd
  BY <1>2, <1>3, KindsDiffer
<1>7. CellsOK'
  <2>1. cells' \in [DOMAIN cells' -> Fd \cup {0}]
    BY <1>3 DEF Threads!Restrict, CellsOK
  <2>2. threads' \subseteq {Given(y) : y \in Cell} \cup {Running(f) : f \in Fd}
    BY <1>2, <1>3 DEF CellsOK
  <2> QED
    BY <1>2, <1>3, <1>4, <1>6, <2>1, <2>2 DEF CellsOK
<1>8. HandedOver'
  <2>1. \A y \in DOMAIN cells' : cells'[y] # 0 => /\ owner'[cells'[y]] # None
                                                 /\ Running(cells'[y]) \notin threads'
    BY <1>2, <1>4, <1>5, <1>6 DEF HandedOver, CellsOK
  <2>2. \A f \in Fd : owner'[f] # None => Running(f) \in threads' \/ \E y \in DOMAIN cells' : cells'[y] = f
    BY <1>2, <1>4, <1>5, <1>6 DEF HandedOver
  <2> QED
    BY <1>2, <1>4, <1>5, <1>6, <2>1, <2>2 DEF HandedOver
<1> QED
  BY <1>5, <1>7, <1>8

\* A thread that reads is the only one of its descriptor, which it closes.
LEMMA RecvCellInv ==
  ASSUME CellsAssumed, CellInv, NEW t \in threads, Threads!HandlerRecv(t)
  PROVE  CellInv'
<1> USE DEF CellInv
<1>1. PICK fd \in Fd : t = Running(fd)
  BY DEF Threads!HandlerRecv, CellsOK, Given
<1>2. owner[fd] \in Client /\ UNCHANGED <<cells, cell>> /\ t.client_fd = fd
  BY <1>1 DEF Threads!HandlerRecv, HandedOver, TcpOK, Running
<1> DEFINE c == owner[fd]
<1>3. CASE \E n \in 1 .. Len(inbox[c]) :
             /\ Threads!recv(fd, n) /\ taken' = [taken EXCEPT ![c] = @ \o Threads!Received(fd, n)]
             /\ UNCHANGED threads
  <2>1. PICK n \in 1 .. Len(inbox[c]) :
          /\ Threads!recv(fd, n) /\ taken' = [taken EXCEPT ![c] = @ \o Threads!Received(fd, n)]
          /\ UNCHANGED threads
    BY <1>3
  <2> DEFINE first == SubSeq(inbox[c], 1, n)  rest == SubSeq(inbox[c], n + 1, Len(inbox[c]))
  <2>2. inbox[c] \in Seq(Client \X Nat) /\ taken[c] \in Seq(Client \X Nat)
    BY <1>2 DEF TcpOK
  <2>3. first \in Seq(Client \X Nat) /\ rest \in Seq(Client \X Nat)
    BY <2>2
  <2>4. taken[c] \o first \in Seq(Client \X Nat)
    BY <2>2, <2>3
  <2>5. /\ inbox' = [inbox EXCEPT ![c] = rest] /\ taken' = [taken EXCEPT ![c] = taken[c] \o first]
        /\ UNCHANGED <<phase, backlog, owner, sent, spent, crashed>>
    BY <2>1 DEF Threads!recv, Threads!Received
  <2>6. inbox' \in [Client -> Seq(Client \X Nat)] /\ taken' \in [Client -> Seq(Client \X Nat)]
    BY <1>2, <2>3, <2>4, <2>5 DEF TcpOK
  <2> QED
    BY <1>2, <2>1, <2>5, <2>6 DEF TcpOK, CellsOK, HandedOver
<1>4. CASE Threads!close(fd) /\ threads' = threads \ {t} /\ UNCHANGED taken
  <2>1. /\ owner' = [owner EXCEPT ![fd] = None] /\ threads' = threads \ {Running(fd)}
        /\ UNCHANGED <<phase, backlog, sent, inbox, spent, crashed, taken>>
    BY <1>1, <1>4 DEF Threads!close, Threads!None, None
  <2>2. TcpOK'
    BY <2>1 DEF TcpOK, CellsAssumed
  <2>3. /\ \A f \in Fd : f # fd => owner'[f] = owner[f]
        /\ \A f \in Fd : Running(f) \in threads' <=> Running(f) \in threads /\ f # fd
        /\ \A x \in Cell : Given(x) \in threads' <=> Given(x) \in threads
        /\ owner'[fd] = None /\ \A x \in DOMAIN cells : cells[x] # fd
    BY <1>1, <2>1, KindsDiffer DEF TcpOK, HandedOver, CellsAssumed
  <2>4. CellsOK'
    BY <1>2, <2>1, <2>3 DEF CellsOK
  <2>5. HandedOver'
    BY <1>2, <2>1, <2>3 DEF HandedOver, CellsOK
  <2> QED
    BY <2>2, <2>4, <2>5
<1> QED
  BY <1>2, <1>3, <1>4 DEF Threads!HandlerRecv

\* Every step.
LEMMA NextCellInv ==
  ASSUME CellsAssumed, CellInv, [Threads!Next]_(Threads!vars)
  PROVE  CellInv'
<1>1. CASE Threads!main
  BY <1>1, MallocCellInv, AcceptCellInv, CreateCellInv DEF Threads!main
<1>2. CASE \E t \in threads : Threads!client_handler(t)
  BY <1>2, StartCellInv, RecvCellInv DEF Threads!client_handler
<1>3. CASE Threads!Clients
  BY <1>3, ClientsCellInv
<1>4. CASE UNCHANGED Threads!vars
  BY <1>4 DEF Threads!vars, Threads!tcpVars, Threads!threadVars, CellInv, TcpOK, CellsOK, HandedOver
<1> QED
  BY <1>1, <1>2, <1>3, <1>4 DEF Threads!Next

\* What the invariant is for.
LEMMA CellInvSound ==
  ASSUME CellsAssumed, CellInv
  PROVE  Threads!TypeOK /\ Threads!OneReader
<1> USE DEF CellInv
<1>1. Threads!TypeOK
  <2>1. Threads!TcpTypeOK
    BY DEF TcpOK, Threads!TcpTypeOK, Threads!None, None
  <2>2. \A t \in threads : t.arg \in Cell \cup {Threads!NoCell} /\ t.client_fd \in Fd \cup {0}
    BY DEF CellsOK, Given, Running
  <2> QED
    BY <2>1, <2>2 DEF CellsOK, TcpOK, Threads!TypeOK, Threads!Allocated
<1>2. ASSUME NEW fd \in Fd
      PROVE  LET readers == {x \in DOMAIN cells : cells[x] = fd} \cup {t \in threads : t.client_fd = fd}
             IN  Cardinality(readers) = IF owner[fd] = None THEN 0 ELSE 1
  <2> DEFINE readers == {x \in DOMAIN cells : cells[x] = fd} \cup {t \in threads : t.client_fd = fd}
  <2>1. \A t \in threads : t.client_fd = fd <=> t = Running(fd)
    BY DEF CellsOK, Given, Running, CellsAssumed
  <2>2. CASE owner[fd] = None
    <3>1. readers = {}
      BY <2>1, <2>2 DEF HandedOver, CellsAssumed
    <3> QED
      BY <2>2, <3>1, FS_EmptySet
  <2>3. CASE owner[fd] # None /\ Running(fd) \in threads
    <3>1. readers = {Running(fd)}
      BY <2>1, <2>3 DEF HandedOver, CellsAssumed
    <3> QED
      BY <2>3, <3>1, FS_Singleton
  <2>4. CASE owner[fd] # None /\ Running(fd) \notin threads
    <3>1. PICK x \in DOMAIN cells : cells[x] = fd
      BY <2>4 DEF HandedOver
    <3>2. readers = {x}
      BY <2>1, <2>4, <3>1 DEF HandedOver, CellsAssumed
    <3> QED
      BY <2>4, <3>2, FS_Singleton
  <2> QED
    BY <2>2, <2>3, <2>4
<1>3. DOMAIN cells = ({cell} \ {Threads!NoCell}) \cup {t.arg : t \in {u \in threads : u.client_fd = 0}}
  <2> DEFINE starting == {t.arg : t \in {u \in threads : u.client_fd = 0}}
  <2>1. \A t \in threads : t.client_fd = 0 => \E x \in Cell : t = Given(x)
    BY DEF CellsOK, Running, CellsAssumed
  <2>2. \A x \in Cell : x \in starting <=> Given(x) \in threads
    BY <2>1 DEF Given
  <2>3. starting \subseteq Cell
    BY <2>1 DEF Given
  <2>4. \A x \in Cell : x \in starting <=> x \in DOMAIN cells /\ x # cell
    BY <2>2 DEF CellsOK
  <2> HIDE DEF starting
  <2> QED
    BY <2>3, <2>4 DEF CellsOK, CellsAssumed, starting
<1>4. \A S : Threads!Cardinality(S) = Cardinality(S)
  BY DEF Threads!Cardinality, Cardinality
<1> QED
  BY <1>1, <1>2, <1>3, <1>4 DEF Threads!OneReader, Threads!Allocated, Threads!None, None

\* tcp_onebyone.c hands every descriptor over in a cell that main does not
\* write again before the thread has read it: every connection has exactly one
\* reader and every cell somebody who frees it.
THEOREM OneReaderEach ==
  ASSUME None \notin Client, 0 \notin Fd, Threads!NoCell \notin Cell
  PROVE  Threads!Spec => [](Threads!TypeOK /\ Threads!OneReader)
<1> USE DEF CellsAssumed
<1>1. Threads!Init => CellInv
  BY InitCellInv
<1>2. CellInv /\ [Threads!Next]_(Threads!vars) => CellInv'
  BY NextCellInv
<1>3. CellInv => Threads!TypeOK /\ Threads!OneReader
  BY CellInvSound
<1> QED
  BY <1>1, <1>2, <1>3, PTL DEF Threads!Spec
================================================================================
