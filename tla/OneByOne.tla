-------------------------------- MODULE OneByOne -------------------------------
(***************************************************************************)
(* tcp_onebyone.c: main accepts and makes a detached thread for every      *)
(* client, which reads until the client is gone and prints what comes.     *)
(* The descriptor is handed over in a cell of its own that main allocates  *)
(* before accept and the thread frees.                                     *)
(***************************************************************************)
EXTENDS TcpClients

CONSTANTS
  Sends,  \* bound: how many pieces each client sends
  Cell    \* bound: the cells malloc can give out

NoCell == "no cell"

VARIABLES
  cells,    \* what is in each allocated cell: a descriptor, or 0 before accept
  cell,     \* main's client_fd
  threads,  \* the threads: the cell each was given, and its client_fd once it has read it
  taken     \* what was received from each client, and printed

threadVars == <<cells, cell, threads, taken>>
vars == <<tcpVars, threadVars>>

Allocated == DOMAIN cells

Init ==
  /\ TcpInit /\ cells = <<>> /\ cell = NoCell /\ threads = {}
  /\ taken = [c \in Client |-> <<>>]

\* Fault: one cell serves every client.
Malloc_Static ==
  /\ cell = NoCell
  /\ \E x \in Cell : /\ Allocated \subseteq {x}
                     /\ cell' = x /\ cells' = (x :> 0) @@ cells
  /\ UNCHANGED <<tcpVars, threads, taken>>

Malloc ==
  /\ cell = NoCell
  /\ \E x \in Cell \ Allocated :
       cell' = x /\ cells' = [y \in Allocated \cup {x} |-> IF y = x THEN 0 ELSE cells[y]]
  /\ UNCHANGED <<tcpVars, threads, taken>>

Accept ==
  /\ cell # NoCell /\ cells[cell] = 0
  /\ \/ \E c \in Client, fd \in Fd : accept(c, fd) /\ cells' = [cells EXCEPT ![cell] = fd] /\ UNCHANGED cell
     \/ /\ AcceptFails /\ cells' = Restrict(cells, Allocated \ {cell}) /\ cell' = NoCell
        /\ UNCHANGED tcpVars
  /\ UNCHANGED <<threads, taken>>

pthread_create ==
  /\ cell # NoCell /\ cells[cell] # 0
  /\ threads' = threads \cup {[arg |-> cell, client_fd |-> 0]} /\ cell' = NoCell
  /\ UNCHANGED <<tcpVars, cells, taken>>

main == Malloc \/ Accept \/ pthread_create

\* A thread takes the descriptor and frees the cell.
HandlerStart(t) ==
  /\ t.client_fd = 0
  /\ threads' = (threads \ {t}) \cup {[arg |-> NoCell, client_fd |-> cells[t.arg]]}
  /\ cells' = Restrict(cells, Allocated \ {t.arg})
  /\ UNCHANGED <<tcpVars, cell, taken>>

HandlerRecv(t) == LET fd == t.client_fd IN
  /\ fd # 0 /\ UNCHANGED <<cells, cell>>
  /\ \/ \E n \in 1 .. Len(inbox[owner[fd]]) :
          /\ recv(fd, n) /\ taken' = [taken EXCEPT ![owner[fd]] = @ \o Received(fd, n)]
          /\ UNCHANGED threads
     \/ /\ \E how \in {"closed", "reset"} : AtEnd(fd, how)
        /\ close(fd) /\ threads' = threads \ {t} /\ UNCHANGED taken

client_handler(t) == HandlerStart(t) \/ HandlerRecv(t)

Clients ==
  \E c \in Client :
    /\ Connect(c) \/ HangUp(c) \/ (sent[c] < Sends[c] /\ Send(c, <<c, sent[c] + 1>>))
    /\ UNCHANGED threadVars

Next == main \/ (\E t \in threads : client_handler(t)) \/ Clients

Spec == Init /\ [][Next]_vars
FairSpec == /\ Spec /\ WF_vars(main)
            /\ \A x \in Cell : WF_vars(\E t \in threads : t.arg = x /\ HandlerStart(t))
            /\ \A fd \in Fd : WF_vars(\E t \in threads : t.client_fd = fd /\ HandlerRecv(t))
--------------------------------------------------------------------------------
\* The descriptors somebody is to read: in a cell, or a thread's.
InCells == {x \in Allocated : cells[x] # 0}

TypeOK ==
  /\ TcpTypeOK /\ Allocated \subseteq Cell /\ cell \in Allocated \cup {NoCell}
  /\ \A t \in threads : t.arg \in Cell \cup {NoCell} /\ t.client_fd \in Fd \cup {0}
  /\ taken \in [Client -> Seq(Client \X Nat)]

\* Every connection has one reader, which has it from a cell that nobody
\* else writes; and every cell that is not main's is some thread's to free.
OneReader ==
  /\ \A fd \in Fd :
       LET readers == {x \in Allocated : cells[x] = fd} \cup {t \in threads : t.client_fd = fd}
       IN  Cardinality(readers) = IF owner[fd] = None THEN 0 ELSE 1
  /\ Allocated = ({cell} \ {NoCell}) \cup {t.arg : t \in {u \in threads : u.client_fd = 0}}

\* Everything a client sends is received, and its descriptor given back.
AllTaken == \A c \in Client :
  (\E fd \in Fd : owner[fd] = c) ~>
    /\ Gone(c) => \A fd \in Fd : owner[fd] # c
    /\ taken[c] = [k \in 1 .. sent[c] |-> <<c, k>>]
================================================================================
