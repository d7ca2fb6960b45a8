------------------------------- MODULE TcpP2p -------------------------------
(***************************************************************************)
(* Two peers that run 2.2.1_tcp_p2p.c: each listens (lfd) and connects to  *)
(* the other (cfd) from the same port, goes on with whichever connection   *)
(* comes first, and then conveys what its user types.                      *)
(*                                                                         *)
(* The kernel's part is TCP with reliable connections and level-triggered  *)
(* epoll.  A process takes a batch of events with epoll_wait and then      *)
(* handles one after the other, as they were when it asked.                *)
(***************************************************************************)
EXTENDS Integers, FiniteSets, SequencesExt

CONSTANTS
  BindFails,  \* may bind(cfd) fail?  a set of booleans
  MaxTyped,   \* bound: the pieces of text typed at each peer
  Room        \* pieces that fit into the kernel's buffers of a connection

ASSUME BoundsAssumption ==
  BindFails \subseteq BOOLEAN /\ MaxTyped \in [{1, 2} -> Nat] /\ Room \in Nat

Peer == {1, 2}
Other(p) == 3 - p
Socket == {"cfd", "afd"}  \* connecting, and accepted from lfd
Fd == Socket \cup {"lfd", "stdin"}

VARIABLES
  stage,           \* how far each main has come
  bound,           \* cfd has lfd's port
  ends,            \* the state of each peer's sockets, as the kernel sees it
  crossed,         \* both cfd's are the ends of the same connection
  inbox,           \* what has been sent to each socket and not been received
  cfd, conn_inflight, established_fd, g_stop,  \* cfd: main still has it, it is not -1
  interest,        \* what epoll watches each descriptor for
  evs,             \* the events of the last epoll_wait that are not handled yet
  typed,           \* how many pieces were typed, and how many main has read
  ob,              \* the outbuf: data and off
  shown            \* what was received and printed

kernelVars == <<ends, crossed, inbox>>
mainVars == <<cfd, conn_inflight, established_fd>>
vars == <<stage, bound, kernelVars, mainVars, g_stop, interest, evs, typed, ob, shown>>

None == "none"
Open(p, s) == ends[p][s] \in {"queued", "open"}

\* The other end of a connection.
Far(p, s) == <<Other(p), IF s = "afd" \/ crossed THEN "cfd" ELSE "afd">>
FarOpen(p, s) == Open(Far(p, s)[1], Far(p, s)[2])
FarInbox(p, s) == inbox[Far(p, s)[1]][Far(p, s)[2]]

outbuf_init == [data |-> <<>>, off |-> 0]
outbuf_empty(b) == b.off >= Len(b.data)
Unsent(b) == SubSeq(b.data, b.off + 1, Len(b.data))
\* Fault: the part that was sent is dropped, but not forgotten.
outbuf_compact_Off(b) == [data |-> Unsent(b), off |-> b.off]

outbuf_compact(b) == [data |-> Unsent(b), off |-> 0]

outbuf_append(b, p) ==
  LET c == IF b.off > 0 /\ Len(b.data) - b.off < Len(b.data) THEN outbuf_compact(b) ELSE b
  IN  [c EXCEPT !.data = @ \o p]

Init ==
  /\ stage = [p \in Peer |-> "start"] /\ bound \in [Peer -> {~f : f \in BindFails}]
  /\ ends = [p \in Peer |-> [s \in Socket |-> None]] /\ crossed = FALSE
  /\ inbox = [p \in Peer |-> [s \in Socket |-> <<>>]]
  /\ cfd = [p \in Peer |-> TRUE] /\ conn_inflight = [p \in Peer |-> FALSE]
  /\ established_fd = [p \in Peer |-> None] /\ g_stop = [p \in Peer |-> FALSE]
  /\ interest = [p \in Peer |-> [fd \in Fd |-> {}]] /\ evs = [p \in Peer |-> {}]
  /\ typed = [p \in Peer |-> [user |-> 0, main |-> 0]]
  /\ ob = [p \in Peer |-> outbuf_init] /\ shown = [p \in Peer |-> <<>>]

(***************************************************************************)
(* The kernel and the user.                                                *)
(***************************************************************************)

\* What epoll reports of a descriptor.  ERR and HUP are always reported.
Ready(p, fd) ==
  CASE fd = "lfd" -> IF ends[p]["afd"] = "queued" THEN {"IN"} ELSE {}
    [] fd = "stdin" -> IF typed[p].main < typed[p].user THEN {"IN"} ELSE {}
    [] fd \in Socket /\ ends[p][fd] = "refused" -> {"OUT", "ERR", "HUP"}
    [] fd \in Socket /\ ends[p][fd] = "open" ->
         (IF Len(FarInbox(p, fd)) < Room \/ ~FarOpen(p, fd) THEN {"OUT"} ELSE {})
           \cup (IF inbox[p][fd] # <<>> \/ ~FarOpen(p, fd) THEN {"IN"} ELSE {})
           \cup (IF ~FarOpen(p, fd) THEN {"RDHUP"} ELSE {})
    [] OTHER -> {}

Reported(p, fd) == Ready(p, fd) \cap (interest[p][fd] \cup {"ERR", "HUP"})
Events(p) == {[fd |-> fd, e |-> Reported(p, fd)] :
                fd \in {f \in Fd : interest[p][f] # {} /\ Reported(p, f) # {}}}

\* The SYN of p arrives: at a cfd that connects back from the same ports, so
\* that both are one connection; or at a peer that listens; or at neither.
SynArrives(p) ==
  LET q == Other(p) IN
  /\ ends[p]["cfd"] = "syn"
  /\ IF ends[q]["cfd"] = "syn" /\ bound[p] /\ bound[q]
     THEN /\ ends' = [x \in Peer |-> [ends[x] EXCEPT !["cfd"] = "open"]]
          /\ crossed' = TRUE
     ELSE /\ ends' = IF stage[q] \in {"listening", "stage1"}
                     THEN [ends EXCEPT ![p]["cfd"] = "open", ![q]["afd"] = "queued"]
                     ELSE [ends EXCEPT ![p]["cfd"] = "refused"]
          /\ UNCHANGED crossed
  /\ UNCHANGED <<stage, bound, inbox, mainVars, g_stop, interest, evs, typed, ob, shown>>

Type(p) ==
  /\ typed[p].user < MaxTyped[p]
  /\ typed' = [typed EXCEPT ![p].user = @ + 1]
  /\ UNCHANGED <<stage, bound, kernelVars, mainVars, g_stop, interest, evs, ob, shown>>

on_sigint(p) ==
  /\ stage[p] # "exited" /\ ~g_stop[p]
  /\ g_stop' = [g_stop EXCEPT ![p] = TRUE]
  /\ UNCHANGED <<stage, bound, kernelVars, mainVars, interest, evs, typed, ob, shown>>

(***************************************************************************)
(* main, until a connection is established.                                *)
(***************************************************************************)
Listen(p) ==
  /\ stage[p] = "start" /\ stage' = [stage EXCEPT ![p] = "listening"]
  /\ UNCHANGED <<bound, kernelVars, mainVars, g_stop, interest, evs, typed, ob, shown>>

\* connect fails at once if the peer's connection, already at lfd, has the
\* same addresses and ports.
Connect(p) ==
  LET free == ends[p]["afd"] = None \/ ~bound[p] \/ ~bound[Other(p)] IN
  /\ stage[p] = "listening" /\ stage' = [stage EXCEPT ![p] = "stage1"]
  /\ ends' = [ends EXCEPT ![p]["cfd"] = IF free THEN "syn" ELSE None]
  /\ conn_inflight' = [conn_inflight EXCEPT ![p] = free]
  /\ interest' = [interest EXCEPT ![p] = [@ EXCEPT !["lfd"] = {"IN", "RDHUP"}, !["stdin"] = {"IN"},
                                                   !["cfd"] = IF free THEN {"OUT", "ERR", "HUP"} ELSE {}]]
  /\ UNCHANGED <<bound, crossed, inbox, cfd, established_fd, g_stop, evs, typed, ob, shown>>

\* The loops call epoll_wait when a batch is handled and nothing stops them.
epoll_wait(p) ==
  /\ evs[p] = {} /\ ~g_stop[p] /\ Events(p) # {}
  /\ stage[p] = "stage2" \/ (stage[p] = "stage1" /\ established_fd[p] = None)
  /\ evs' = [evs EXCEPT ![p] = Events(p)]
  /\ UNCHANGED <<stage, bound, kernelVars, mainVars, g_stop, interest, typed, ob, shown>>

\* One event of the first stage: a connection to accept, the outcome of
\* connect, or something that has to wait for the second stage.
Accepts(p, ev) ==
  /\ ev.fd = "lfd" /\ "IN" \in ev.e
  /\ ends' = [ends EXCEPT ![p]["afd"] = "open"]
  /\ established_fd' = [established_fd EXCEPT ![p] = "afd"]
  /\ UNCHANGED <<cfd, conn_inflight, interest>>

Connected(p, ev) ==
  /\ ev.fd = "cfd" /\ conn_inflight[p] /\ ends[p]["cfd"] # "refused"
  /\ established_fd' = [established_fd EXCEPT ![p] = "cfd"] /\ cfd' = [cfd EXCEPT ![p] = FALSE]
  /\ UNCHANGED <<ends, conn_inflight, interest>>

\* Fault: it is lfd that is removed from epoll.
ConnectFailed_Lfd(p, ev) ==
  /\ ev.fd = "cfd" /\ conn_inflight[p] /\ ends[p]["cfd"] = "refused"
  /\ conn_inflight' = [conn_inflight EXCEPT ![p] = FALSE]
  /\ interest' = [interest EXCEPT ![p]["lfd"] = {}]
  /\ UNCHANGED <<ends, cfd, established_fd>>

ConnectFailed(p, ev) ==
  /\ ev.fd = "cfd" /\ conn_inflight[p] /\ ends[p]["cfd"] = "refused"
  /\ conn_inflight' = [conn_inflight EXCEPT ![p] = FALSE]
  /\ interest' = [interest EXCEPT ![p]["cfd"] = {}]
  /\ UNCHANGED <<ends, cfd, established_fd>>

Ignored(ev) == ev.fd = "stdin" /\ UNCHANGED <<ends, mainVars, interest>>

Stage1Event(p, ev) ==
  /\ stage[p] = "stage1" /\ evs' = [evs EXCEPT ![p] = @ \ {ev}]
  /\ Accepts(p, ev) \/ Connected(p, ev) \/ ConnectFailed(p, ev) \/ Ignored(ev)
  /\ UNCHANGED <<stage, bound, crossed, inbox, g_stop, typed, ob, shown>>

\* The descriptors that are not needed are closed.  A socket that epoll knows
\* already is not added again: it keeps the events that were watched before.
Closed(p, unused) ==
  [ends EXCEPT ![p] = [s \in Socket |-> IF s \in unused /\ @[s] # None THEN "closed" ELSE @[s]]]
Unused(p) == {s \in Socket : (s = "cfd" /\ cfd[p]) \/ (s = "afd" /\ ends[p][s] = "queued")}

Establish(p) ==
  LET fd == established_fd[p]
      watched == [interest[p] EXCEPT !["lfd"] = {}, !["cfd"] = IF cfd[p] THEN {} ELSE @]
  IN  /\ stage[p] = "stage1" /\ evs[p] = {} /\ fd # None
      /\ ends' = Closed(p, Unused(p))
      /\ interest' = [interest EXCEPT ![p] = IF watched[fd] # {} THEN watched
                                              ELSE [watched EXCEPT ![fd] = {"IN", "RDHUP"}]]
      /\ stage' = [stage EXCEPT ![p] = "stage2"]
      /\ UNCHANGED <<bound, crossed, inbox, mainVars, g_stop, evs, typed, ob, shown>>

(***************************************************************************)
(* main, once it is.                                                       *)
(***************************************************************************)
Watch(p, e) == interest' = [interest EXCEPT ![p][established_fd[p]] = e]

ReadStdin(p, ev) ==
  /\ ev.fd = "stdin"
  /\ \E m \in typed[p].main + 1 .. typed[p].user :
       /\ typed' = [typed EXCEPT ![p].main = m]
       /\ ob' = [ob EXCEPT ![p] = outbuf_append(@, [i \in 1 .. m - typed[p].main |-> typed[p].main + i])]
  /\ Watch(p, {"IN", "RDHUP", "OUT"})
  /\ evs' = [evs EXCEPT ![p] = @ \ {ev}]
  /\ UNCHANGED <<inbox, g_stop, shown>>

\* Peer closed: what it sent last is not looked at.
PeerClosed(p, ev) ==
  /\ ev.fd = established_fd[p] /\ ev.e \cap {"RDHUP", "HUP"} # {}
  /\ g_stop' = [g_stop EXCEPT ![p] = TRUE] /\ evs' = [evs EXCEPT ![p] = {}]
  /\ UNCHANGED <<inbox, interest, typed, ob, shown>>

\* What outbuf_flush_fd sends: as much as the kernel takes.
Sendable(p) == LET fd == established_fd[p] IN
  IF FarOpen(p, fd)
  THEN SubSeq(Unsent(ob[p]), 1, Min({Room - Len(FarInbox(p, fd)), Len(Unsent(ob[p]))}))
  ELSE Unsent(ob[p])

\* Fault: off is not set back when everything is sent.
outbuf_flush_fd_Len(b, sent) ==
  [data |-> IF b.off + Len(sent) >= Len(b.data) THEN <<>> ELSE b.data, off |-> b.off + Len(sent)]

outbuf_flush_fd(b, sent) ==
  IF b.off + Len(sent) >= Len(b.data) THEN outbuf_init ELSE [b EXCEPT !.off = @ + Len(sent)]

\* Fault: epoll is told only when there was something to send.
WatchAfter_Sent(p, b) ==
  IF outbuf_empty(b) /\ ~outbuf_empty(ob[p]) THEN Watch(p, {"IN", "RDHUP"}) ELSE UNCHANGED interest

\* When all is sent, epoll is told to watch for input only.
WatchAfter(p, b) == IF outbuf_empty(b) THEN Watch(p, {"IN", "RDHUP"}) ELSE UNCHANGED interest

\* An event of the connection: receive, then send.  If the peer has gone since,
\* sending may succeed or end the process.
Conveys(p, ev) ==
  LET fd == established_fd[p]
      far == Far(p, fd)
      sends == "OUT" \in ev.e
      sent == IF sends THEN Sendable(p) ELSE <<>>
      left == IF sends THEN outbuf_flush_fd(ob[p], sent) ELSE ob[p]
  IN  /\ ev.fd = fd /\ ev.e \cap {"RDHUP", "HUP"} = {}
      /\ \E m \in IF "IN" \in ev.e THEN 1 .. Len(inbox[p][fd]) ELSE {0} :
           /\ shown' = [shown EXCEPT ![p] = @ \o SubSeq(inbox[p][fd], 1, m)]
           /\ inbox' = [inbox EXCEPT ![p][fd] = SubSeq(@, m + 1, Len(@)),
                                     ![far[1]][far[2]] = IF FarOpen(p, fd) THEN @ \o sent ELSE @]
      /\ ob' = [ob EXCEPT ![p] = left]
      /\ \E fails \in IF sent # <<>> /\ ~FarOpen(p, fd) THEN BOOLEAN ELSE {FALSE} :
           g_stop' = [g_stop EXCEPT ![p] = @ \/ fails]
      /\ IF sends THEN WatchAfter(p, left) ELSE UNCHANGED interest
      /\ evs' = [evs EXCEPT ![p] = IF g_stop'[p] /\ ~g_stop[p] THEN {} ELSE @ \ {ev}]
      /\ UNCHANGED typed

\* A descriptor that main has forgotten (see SameConnection) does nothing.
Forgotten(p, ev) ==
  /\ ev.fd \in Socket \ {established_fd[p]} /\ evs' = [evs EXCEPT ![p] = @ \ {ev}]
  /\ UNCHANGED <<inbox, g_stop, interest, typed, ob, shown>>

Stage2Event(p, ev) ==
  /\ stage[p] = "stage2"
  /\ ReadStdin(p, ev) \/ PeerClosed(p, ev) \/ Conveys(p, ev) \/ Forgotten(p, ev)
  /\ UNCHANGED <<stage, bound, ends, crossed, mainVars>>

\* The process ends, and with it all its connections.
Exit(p) ==
  /\ g_stop[p] /\ evs[p] = {}
  /\ stage[p] = "stage2" \/ (stage[p] = "stage1" /\ established_fd[p] = None)
  /\ stage' = [stage EXCEPT ![p] = "exited"] /\ ends' = Closed(p, Socket)
  /\ ob' = [ob EXCEPT ![p] = outbuf_init]
  /\ UNCHANGED <<bound, crossed, inbox, mainVars, g_stop, interest, evs, typed, shown>>

Handles(p) == \E ev \in evs[p] : Stage1Event(p, ev) \/ Stage2Event(p, ev)
Main(p) == Listen(p) \/ Connect(p) \/ epoll_wait(p) \/ Handles(p) \/ Establish(p) \/ Exit(p)

Next == \E p \in Peer : SynArrives(p) \/ Type(p) \/ on_sigint(p) \/ Main(p)

Spec == Init /\ [][Next]_vars

\* The processes run and the network delivers SYNs.  Nobody has to type or to
\* press Ctrl+C.
FairSpec == Spec /\ \A p \in Peer : WF_vars(Main(p)) /\ WF_vars(SynArrives(p))

(***************************************************************************)
(* Properties.                                                             *)
(***************************************************************************)
Piece(p) == 1 .. MaxTyped[p]

TypeOK ==
  /\ stage \in [Peer -> {"start", "listening", "stage1", "stage2", "exited"}] /\ bound \in [Peer -> BOOLEAN]
  /\ ends \in [Peer -> [Socket -> {None, "syn", "refused", "queued", "open", "closed"}]]
  /\ crossed \in BOOLEAN /\ \A p \in Peer, s \in Socket : inbox[p][s] \in BoundedSeq(Piece(Other(p)), Room)
  /\ cfd \in [Peer -> BOOLEAN] /\ conn_inflight \in [Peer -> BOOLEAN]
  /\ established_fd \in [Peer -> Socket \cup {None}] /\ g_stop \in [Peer -> BOOLEAN]
  /\ interest \in [Peer -> [Fd -> SUBSET {"IN", "OUT", "RDHUP", "ERR", "HUP"}]]
  /\ \A p \in Peer :
       /\ \A ev \in evs[p] : ev.fd \in Fd /\ ev.e # {}
       /\ typed[p] \in [user : 0 .. MaxTyped[p], main : 0 .. MaxTyped[p]]
       /\ ob[p].data \in Seq(Piece(p)) /\ ob[p].off \in 0 .. Len(ob[p].data)
       /\ shown[p] \in Seq(Piece(Other(p)))

Chats(p) == stage[p] = "stage2" /\ ~g_stop[p]

\* While both chat they are the two ends of one connection.  That is so because
\* both connect from the port they listen on: if one's bind(cfd) fails, which
\* line 249 says may be ignored, each may settle on another connection.
SameConnection ==
  (\A p \in Peer : Chats(p)) =>
    \A p \in Peer : Far(p, established_fd[p]) = <<Other(p), established_fd[Other(p)]>>

\* A socket that cannot take all of the outbuf is watched until it can: no
\* line waits in the outbuf for the user to type the next one.
WaitsForRoom ==
  \A p \in Peer : stage[p] = "stage2" /\ ~outbuf_empty(ob[p]) => "OUT" \in interest[p][established_fd[p]]

\* Nothing that was read from stdin is lost, doubled or out of order on its way
\* through the outbuf, short sends and batches of old events: while both chat
\* over the same connection it is printed by the other, in the kernel, or in
\* the outbuf of a socket that is watched for room; and whatever happens, what
\* is printed is the beginning of what was typed.
Conveyed ==
  /\ SameConnection /\ WaitsForRoom
  /\ \A p \in Peer : LET q == Other(p) IN
       /\ IsPrefix(shown[q], [i \in 1 .. typed[p].main |-> i])
       /\ Chats(p) /\ Chats(q) =>
            shown[q] \o inbox[q][established_fd[q]] \o Unsent(ob[p]) = [i \in 1 .. typed[p].main |-> i]

\* Whoever is first, and whether their SYNs meet or not, two peers that nobody
\* stops come to chat, although connect may be refused or find its address in
\* use.
Meet == <>((\A p \in Peer : stage[p] = "stage2") \/ \E p \in Peer : g_stop[p])

\* What is typed is printed by the other, also after connect was the faster
\* way and established_fd could not be added to epoll, unless somebody stops.
Arrives ==
  \A p \in Peer : \A i \in 1 .. MaxTyped[p] :
    typed[p].user >= i ~> Len(shown[Other(p)]) >= i \/ \E q \in Peer : g_stop[q]
=============================================================================
