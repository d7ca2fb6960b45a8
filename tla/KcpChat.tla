------------------------------ MODULE KcpChat ------------------------------
(***************************************************************************)
(* The chat room over KCP: chat_server.cc on kcp_server.cc, and clients    *)
(* that are chat_client.cc on kcp_client.cc.  The server keeps a session   *)
(* for each conversation it hears of, and drops it when no keep-alive was  *)
(* handled for a while; then the next datagram makes a fresh one, whoever  *)
(* sent it and however old it is.                                          *)
(*                                                                         *)
(* KcpServer holds mtx_ while it handles a datagram and while it updates   *)
(* its sessions, so these are steps; of the client, so are a round of the  *)
(* thread that calls Run and a line of input.                              *)
(*                                                                         *)
(* Of KCP, which Kcp models, only this is left: a message (each fits into  *)
(* one segment) has a number in its session, and from the time it was      *)
(* given to ikcp_send on it may arrive, alone or with another in the same  *)
(* datagram, early or late, never or again.                                *)
(***************************************************************************)
EXTENDS Integers, FiniteSetsExt, SequencesExt

CONSTANTS
  Client,              \* the clients; their conversation numbers differ
  MaxLines, MaxAlive,  \* bound: lines and keep-alive commands, of all clients
  MaxJoins             \* bound: sessions the server makes, of all clients

ASSUME BoundsAssumption == MaxLines \in Nat /\ MaxAlive \in Nat /\ MaxJoins \in Nat

VARIABLES
  typed,     \* the lines typed at each client
  said,      \* the messages each client gave to KCP
  heard,     \* what each client's KCP has received
  shown,     \* what each client's HandleMessage was given
  sessions,  \* KcpServer's sessions_
  users,     \* ChatServer's users_: whose session is notified
  log,       \* what the server has notified its users of
  told       \* the messages the server gave to KCP, in each session of a client

clientVars == <<typed, said, heard, shown>>
serverVars == <<sessions, users, log, told>>
vars == <<clientVars, serverVars>>

\* What matters of a line: it is empty, or it is the beginning of the
\* keep-alive command ("K"), or it is something else, longer than the command.
Kind == {"empty", "prefix", "text"}

\* A message of a client is one of its lines or the keep-alive command, one
\* of the server is a member of the log.
KEEP_ALIVE_CMD == 0

\* The receiving side of KCP: the next number, what came early, and what is
\* ready to be read.
ikcp_create == [nxt |-> 1, early |-> {}, queue |-> <<>>]

\* Segments that are not old wait for those before them; once these are there
\* they can be read.
ikcp_input(r, segs) ==
  LET Sns(ss) == {s.sn : s \in ss}
      kept == r.early \cup {s \in segs : s.sn >= r.nxt /\ s.sn \notin Sns(r.early)}
      n == Max({j \in 0 .. Cardinality(kept) : \A i \in 0 .. j - 1 : r.nxt + i \in Sns(kept)})
  IN  [nxt |-> r.nxt + n,
       early |-> {s \in kept : s.sn >= r.nxt + n},
       queue |-> r.queue \o [i \in 1 .. n |-> (CHOOSE s \in kept : s.sn = r.nxt + i - 1).msg]]

\* What may come in one datagram of a stream of messages: two of them, one, or
\* none (acknowledgements only).
Datagrams(stream) == {{[sn |-> i, msg |-> stream[i]] : i \in D} : D \in {{i, j} : i, j \in DOMAIN stream} \cup {{}}}

None == [open |-> FALSE, r |-> ikcp_create, timed |-> FALSE]

Init ==
  /\ typed = [c \in Client |-> <<>>] /\ said = [c \in Client |-> <<>>]
  /\ heard = [c \in Client |-> ikcp_create] /\ shown = [c \in Client |-> <<>>]
  /\ sessions = [c \in Client |-> None] /\ users = {}
  /\ log = <<>> /\ told = [c \in Client |-> <<>>]

(***************************************************************************)
(* The client.  One that ends, without a word to the server, is one that   *)
(* does nothing from then on.                                              *)
(***************************************************************************)

Total(f(_)) == MapThenSumSet(f, Client)

\* The user types a line.
Type(c, kind) ==
  /\ Total(LAMBDA d : Len(typed[d])) < MaxLines
  /\ typed' = [typed EXCEPT ![c] = Append(@, kind)]
  /\ said' = [said EXCEPT ![c] = Append(@, Len(typed[c]) + 1)]
  /\ UNCHANGED <<heard, shown, serverVars>>

\* KcpSession::Update finds that it is time for a keep-alive command.
KeepAlive(c) ==
  /\ Total(LAMBDA d : Len(said[d]) - Len(typed[d])) < MaxAlive
  /\ said' = [said EXCEPT ![c] = Append(@, KEEP_ALIVE_CMD)]
  /\ UNCHANGED <<typed, heard, shown, serverVars>>

\* How long a notification is, compared with others.
Size(note) == CASE note.kind # "line" -> 2
                [] note.kind = "line" /\ typed[note.who][note.line] = "prefix" -> 1
                [] OTHER -> 3

\* Run's loop over the messages of one datagram reads each into body, which
\* has been cut to the size of the one before: resize then fills what is
\* beyond that with zeros.
HandleMessages(queue) ==
  [i \in DOMAIN queue |->
     [note |-> queue[i], whole |-> i = 1 \/ Size(log[queue[i]]) <= Size(log[queue[i - 1]])]]

\* Fault: the messages are looked at, and stay in the queue.
Run_Peeking(c) ==
  /\ \E n \in DOMAIN told[c] : \E segs \in Datagrams(told[c][n]) :
       LET r == ikcp_input(heard[c], segs) IN
         /\ heard' = [heard EXCEPT ![c] = r]
         /\ shown' = [shown EXCEPT ![c] = @ \o HandleMessages(r.queue)]
  /\ UNCHANGED <<typed, said, serverVars>>

\* A datagram of any of the client's sessions, also of one that is gone.
Run(c) ==
  /\ \E n \in DOMAIN told[c] : \E segs \in Datagrams(told[c][n]) :
       LET r == ikcp_input(heard[c], segs) IN
         /\ heard' = [heard EXCEPT ![c] = [r EXCEPT !.queue = <<>>]]
         /\ shown' = [shown EXCEPT ![c] = @ \o HandleMessages(r.queue)]
  /\ UNCHANGED <<typed, said, serverVars>>

(***************************************************************************)
(* The server.                                                             *)
(***************************************************************************)
Note(kind, c, session, line) == [kind |-> kind, who |-> c, session |-> session, line |-> line]
New(notes) == [i \in DOMAIN notes |-> Len(log) + i]

\* Fault: a user is not told what it said itself.
Notify_Others(streams, us, notes) ==
  /\ log' = log \o notes
  /\ told' = [c \in Client |->
       IF c \in us
       THEN [streams[c] EXCEPT ![Len(streams[c])] = @ \o SelectSeq(New(notes), LAMBDA i : log'[i].who # c)]
       ELSE streams[c]]

\* Every user is sent the notifications, in their order.
Notify(streams, us, notes) ==
  /\ log' = log \o notes
  /\ told' = [c \in Client |->
       IF c \in us THEN [streams[c] EXCEPT ![Len(streams[c])] = @ \o New(notes)] ELSE streams[c]]

\* HandleSession's loop over the messages ends at an empty line.
Empty(c, m) == m # KEEP_ALIVE_CMD /\ typed[c][m] = "empty"
Handled(c, queue) == {i \in DOMAIN queue : \A j \in 1 .. i : ~Empty(c, queue[j])}

\* A line is taken for the keep-alive command when buf_ holds the command
\* after the line was read into it: the command was there, and the line is a
\* beginning of it.
IsAlive(c, queue, i) ==
  \E j \in 1 .. i : /\ queue[j] = KEEP_ALIVE_CMD
                    /\ \A n \in j + 1 .. i : queue[n] = KEEP_ALIVE_CMD \/ typed[c][queue[n]] = "prefix"

\* What the members of a set of numbers are in ascending order.
Ascending(S) == {f \in [1 .. Cardinality(S) -> S] : \A i, j \in DOMAIN f : i < j => f[i] < f[j]}

\* A datagram of a conversation without a session makes one, and its user is
\* among those who are told; then its messages are read and handled.
HandleSession(c) ==
  \E segs \in Datagrams(said[c]) :
    LET fresh == ~sessions[c].open
        s == IF fresh THEN [None EXCEPT !.open = TRUE] ELSE sessions[c]
        n == Len(told[c]) + IF fresh THEN 1 ELSE 0
        r == ikcp_input(s.r, segs)
        handled == Handled(c, r.queue)
    IN  /\ said[c] # <<>> /\ (fresh => Total(LAMBDA d : Len(told[d])) < MaxJoins)
        /\ sessions' = [sessions EXCEPT ![c] =
             [open |-> TRUE,
              r |-> [r EXCEPT !.queue = SubSeq(@, Cardinality(handled) + 2, Len(@))],
              timed |-> s.timed \/ \E i \in handled : IsAlive(c, r.queue, i)]]
        /\ users' = users \cup {c}
        /\ \E lines \in Ascending({i \in handled : ~IsAlive(c, r.queue, i)}) :
             Notify([told EXCEPT ![c] = IF fresh THEN Append(@, <<>>) ELSE @], users',
                    (IF fresh THEN <<Note("join", c, n, 0)>> ELSE <<>>)
                      \o [i \in DOMAIN lines |-> Note("line", c, n, r.queue[lines[i]])])
        /\ UNCHANGED clientVars

\* KcpServer::Update comes to a session for the first time: the time without a
\* keep-alive begins to count.
StartTimer(c) ==
  /\ sessions[c].open /\ ~sessions[c].timed
  /\ sessions' = [sessions EXCEPT ![c].timed = TRUE]
  /\ UNCHANGED <<clientVars, users, log, told>>

\* Fault: the session that was closed stays in sessions_.
Timeout_Kept(c) ==
  /\ sessions[c].open /\ sessions[c].timed /\ c \in users
  /\ users' = users \ {c}
  /\ Notify(told, users', <<Note("left", c, Len(told[c]), 0)>>)
  /\ UNCHANGED <<clientVars, sessions>>

\* KcpServer::Update finds that the last keep-alive was too long ago.
Timeout(c) ==
  /\ sessions[c].open /\ sessions[c].timed
  /\ users' = users \ {c}
  /\ sessions' = [sessions EXCEPT ![c] = None]
  /\ Notify(told, users', <<Note("left", c, Len(told[c]), 0)>>)
  /\ UNCHANGED clientVars

Next ==
  \E c \in Client :
    \/ (\E kind \in Kind : Type(c, kind)) \/ KeepAlive(c) \/ Run(c)
    \/ HandleSession(c) \/ StartTimer(c) \/ Timeout(c)

Spec == Init /\ [][Next]_vars

(***************************************************************************)
(* Properties.                                                             *)
(***************************************************************************)
Position == Nat \ {0}
Segs == [sn : Position, msg : Nat]
Receiver == [nxt : Position, early : SUBSET Segs, queue : Seq(Nat)]
Notification == [kind : {"join", "left", "line"}, who : Client, session : Nat, line : Nat]

\* The users are those whose session is open.
TypeOK ==
  /\ typed \in [Client -> Seq(Kind)] /\ said \in [Client -> Seq(Nat)]
  /\ heard \in [Client -> Receiver] /\ shown \in [Client -> Seq([note : Nat, whole : BOOLEAN])]
  /\ sessions \in [Client -> [open : BOOLEAN, r : Receiver, timed : BOOLEAN]]
  /\ users = {c \in Client : sessions[c].open}
  /\ log \in Seq(Notification) /\ told \in [Client -> Seq(Seq(Nat))]

ShownNotes(c) == [i \in DOMAIN shown[c] |-> shown[c][i].note]
JoinedAt(c) == CHOOSE i \in DOMAIN log : log[i].kind = "join" /\ log[i].who = c

\* What a client is shown is the history of the room, without a gap, from its
\* own arrival on, as long as the server did not drop it and take it for a new
\* user: however others come, go and talk meanwhile.
RoomHistory ==
  \A c \in Client : Len(told[c]) <= 1 =>
    \A i \in DOMAIN shown[c] : shown[c][i].note = JoinedAt(c) + i - 1

\* No client is shown a notification twice, even if its session was dropped
\* and made anew and datagrams of the old one arrive after those of the new.
ShownOnce == \A c \in Client : IsInjective(ShownNotes(c))

\* In each of its sessions a client speaks only after it has joined and before
\* it has left, and its lines are told in the order they were typed, each once.
OrderlySession ==
  \A i, j \in DOMAIN log :
    i < j /\ log[i].who = log[j].who /\ log[i].session = log[j].session =>
      CASE log[i].kind = "join" -> log[j].kind # "join"
        [] log[i].kind = "left" -> FALSE
        [] log[i].kind = "line" -> log[j].kind = "left" \/ (log[j].kind = "line" /\ log[i].line < log[j].line)

\* chat_client.cc, line 31: HandleMessage is given the message that the server
\* sent.
ShownAsSent == \A c \in Client : \A i \in DOMAIN shown[c] : shown[c][i].whole
=============================================================================
