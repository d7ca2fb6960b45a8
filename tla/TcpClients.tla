------------------------------ MODULE TcpClients -------------------------------
(***************************************************************************)
(* What the servers of this repository run against: clients, and the       *)
(* kernel's connections between them and the server.  A client connects,   *)
(* sends, reads what the server wrote, and may hang up at any time.  Data  *)
(* is a stream of pieces: several pieces may be received at once.          *)
(*                                                                         *)
(* No server of this repository handles SIGPIPE, so writing twice to a     *)
(* client that is gone may end it.                                         *)
(***************************************************************************)
EXTENDS Integers, FiniteSets, SequencesExt

CONSTANTS
  Client,
  Fd,    \* the descriptors a process may have for connections, 1 .. n
  Room   \* pieces that fit into the kernel's buffers of a connection

None == "none"

VARIABLES
  phase,    \* of each client: "idle", "open", or gone: "closed" or "reset"
  backlog,  \* the clients that wait to be accepted
  owner,    \* whose connection each descriptor of the server is
  sent,     \* how many pieces each client has sent
  inbox,    \* the pieces the server has not received yet
  outbox,   \* the pieces the client has not read yet
  got,      \* all pieces the client has read
  spent,    \* the gone clients a write to which has already failed
  crashed   \* the server process has ended

tcpVars == <<phase, backlog, owner, sent, inbox, outbox, got, spent, crashed>>

TcpTypeOK ==
  /\ phase \in [Client -> {"idle", "open", "closed", "reset"}] /\ backlog \subseteq Client
  /\ owner \in [Fd -> Client \cup {None}]
  /\ \A f, g \in Fd : owner[f] \notin backlog /\ (owner[f] = owner[g] => f = g \/ owner[f] = None)
  /\ sent \in [Client -> Nat] /\ spent \subseteq Client /\ crashed \in BOOLEAN

TcpInit ==
  /\ phase = [c \in Client |-> "idle"] /\ backlog = {} /\ owner = [fd \in Fd |-> None]
  /\ sent = [c \in Client |-> 0] /\ inbox = [c \in Client |-> <<>>]
  /\ outbox = [c \in Client |-> <<>>] /\ got = [c \in Client |-> <<>>]
  /\ spent = {} /\ crashed = FALSE

Gone(c) == phase[c] \in {"closed", "reset"}

(***************************************************************************)
(* The clients.                                                            *)
(***************************************************************************)
Connect(c) ==
  /\ phase[c] = "idle" /\ phase' = [phase EXCEPT ![c] = "open"]
  /\ backlog' = backlog \cup {c}
  /\ UNCHANGED <<owner, sent, inbox, outbox, got, spent, crashed>>

Send(c, piece) ==
  /\ phase[c] = "open" /\ ~crashed
  /\ sent' = [sent EXCEPT ![c] = @ + 1] /\ inbox' = [inbox EXCEPT ![c] = Append(@, piece)]
  /\ UNCHANGED <<phase, backlog, owner, outbox, got, spent, crashed>>

Read(c) ==
  /\ phase[c] = "open" /\ outbox[c] # <<>>
  /\ got' = [got EXCEPT ![c] = @ \o outbox[c]] /\ outbox' = [outbox EXCEPT ![c] = <<>>]
  /\ UNCHANGED <<phase, backlog, owner, sent, inbox, spent, crashed>>

\* A client that closes its socket while there is something to read resets
\* the connection.
HangUp(c) ==
  /\ phase[c] = "open"
  /\ phase' = [phase EXCEPT ![c] = IF outbox[c] = <<>> THEN "closed" ELSE "reset"]
  /\ outbox' = [outbox EXCEPT ![c] = <<>>]
  /\ UNCHANGED <<backlog, owner, sent, inbox, got, spent, crashed>>

(***************************************************************************)
(* The server's calls.                                                     *)
(***************************************************************************)
Readable(fd) == owner[fd] # None /\ (inbox[owner[fd]] # <<>> \/ Gone(owner[fd]))
Writable(fd) == owner[fd] # None /\ (Len(outbox[owner[fd]]) < Room \/ Gone(owner[fd]))

\* accept takes the lowest free descriptor.  It may also fail: for want of
\* descriptors, or of memory.
accept(c, fd) ==
  /\ c \in backlog /\ owner[fd] = None /\ \A f \in Fd : f < fd => owner[f] # None
  /\ backlog' = backlog \ {c} /\ owner' = [owner EXCEPT ![fd] = c]
  /\ UNCHANGED <<phase, sent, inbox, outbox, got, spent, crashed>>

AcceptFails == backlog # {}

\* recv takes n pieces.
recv(fd, n) ==
  /\ n \in 1 .. Len(inbox[owner[fd]])
  /\ inbox' = [inbox EXCEPT ![owner[fd]] = SubSeq(@, n + 1, Len(@))]
  /\ UNCHANGED <<phase, backlog, owner, sent, outbox, got, spent, crashed>>

Received(fd, n) == SubSeq(inbox[owner[fd]], 1, n)

\* recv returns 0, or -1 for a connection that was reset.
AtEnd(fd, how) == inbox[owner[fd]] = <<>> /\ phase[owner[fd]] = how

close(fd) ==
  /\ owner' = [owner EXCEPT ![fd] = None]
  /\ UNCHANGED <<phase, backlog, sent, inbox, outbox, got, spent, crashed>>

Crash ==
  /\ crashed' = TRUE
  /\ UNCHANGED <<phase, backlog, owner, sent, inbox, outbox, got, spent>>

\* A blocking write returns when there was room for all of it (at most Room
\* pieces).  To a client that is gone the first write is lost or fails, and a
\* later one may raise SIGPIPE.
send(fd, pieces) ==
  LET c == owner[fd] IN
  \/ /\ ~Gone(c) /\ Len(outbox[c]) + Len(pieces) <= Room
     /\ outbox' = [outbox EXCEPT ![c] = @ \o pieces]
     /\ UNCHANGED <<phase, backlog, owner, sent, inbox, got, spent, crashed>>
  \/ /\ Gone(c) /\ spent' = spent \cup {c}
     /\ UNCHANGED <<phase, backlog, owner, sent, inbox, outbox, got, crashed>>
  \/ c \in spent /\ Crash
================================================================================
