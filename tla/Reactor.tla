-------------------------------- MODULE Reactor --------------------------------
(***************************************************************************)
(* The part the reactors of this repository share: one record per          *)
(* descriptor, one thread that asks epoll (level-triggered) for a batch of *)
(* events and calls the callbacks one after the other.  The callbacks are  *)
(* in EchoReactor, WebServer and WebSocket.                                *)
(***************************************************************************)
EXTENDS TcpClients

Listening == 0  \* the listening descriptor

VARIABLES
  conn_list,  \* the record of each descriptor: buffers and status
  interest,   \* what epoll watches each descriptor for
  evs         \* the events of the last epoll_wait that are not handled yet

reactorVars == <<conn_list, interest, evs>>

Fresh == [rbuffer |-> <<>>, wbuffer |-> <<>>, status |-> 0]

ReactorTypeOK ==
  /\ TcpTypeOK
  /\ DOMAIN conn_list = Fd /\ \A fd \in Fd : conn_list[fd].status \in 0 .. 2
  /\ interest \in [Fd -> {{}, {"IN"}, {"OUT"}}] /\ \A fd \in Fd : (interest[fd] = {}) = (owner[fd] = None)
  /\ \A k \in 1 .. Len(evs) : evs[k].fd \in Fd \cup {Listening}

ReactorInit ==
  /\ TcpInit
  /\ conn_list = [fd \in Fd |-> Fresh] /\ interest = [fd \in Fd |-> {}] /\ evs = <<>>

Reported(fd) ==
  {e \in interest[fd] : IF e = "IN" THEN Readable(fd) ELSE Writable(fd)}

Events ==
  {[fd |-> fd, e |-> Reported(fd)] : fd \in {f \in Fd : Reported(f) # {}}}
    \cup (IF backlog = {} THEN {} ELSE {[fd |-> Listening, e |-> {"IN"}]})

\* A batch comes in any order.
epoll_wait ==
  /\ evs = <<>> /\ ~crashed /\ Events # {}
  /\ evs' \in SetToSeqs(Events)
  /\ UNCHANGED <<tcpVars, conn_list, interest>>

\* The event in hand.  The loop looks at EPOLLIN first, then at EPOLLOUT.
Dispatch(fd, e) ==
  /\ evs # <<>> /\ ~crashed /\ Head(evs).fd = fd /\ e \in Head(evs).e
  /\ e = "OUT" => "IN" \notin Head(evs).e
  /\ evs' = IF Head(evs).e = {e} THEN Tail(evs) ELSE [evs EXCEPT ![1].e = @ \ {e}]

\* Fault: both events are watched.
set_event_Both(fd, event) == interest' = [interest EXCEPT ![fd] = {"IN", "OUT"}]

set_event(fd, event) == interest' = [interest EXCEPT ![fd] = {event}]

close_and_del(fd) ==
  /\ close(fd) /\ interest' = [interest EXCEPT ![fd] = {}]

(***************************************************************************)
(* A callback is called for an event that still holds: the descriptor has  *)
(* not been closed and given to another client since epoll_wait, and recv  *)
(* and accept, which block, find what they need.  One call that waited     *)
(* would stop the server for every client.                                 *)
(***************************************************************************)
EventsHold ==
  \A k \in 1 .. Len(evs) : LET ev == evs[k] IN
    IF ev.fd = Listening THEN backlog # {}
    ELSE /\ owner[ev.fd] # None
         /\ "IN" \in ev.e => Readable(ev.fd)
         /\ "OUT" \in ev.e => Writable(ev.fd)
================================================================================
