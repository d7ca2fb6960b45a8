------------------------------ MODULE ConnPool ------------------------------
(***************************************************************************)
(* The pool of database connections of connpool.h.  Both functions hold    *)
(* pool->lock from their first to their last access to the pool, so each   *)
(* is one step; the threads that call them are Client.  The handle of slot *)
(* i is called i; a connection that failed in init_conn_pool leaves NULL.  *)
(***************************************************************************)
EXTENDS Integers, FiniteSets

CONSTANTS CONNECTION_POOL_SIZE, Client

ASSUME PoolSizeAssumption == CONNECTION_POOL_SIZE \in Nat \ {0}

Slot == 0 .. CONNECTION_POOL_SIZE - 1
NULL == -1

VARIABLES
  conns,    \* pool->conns
  used,     \* pool->used
  holding,  \* the clients between get_conn and release_conn
  conn      \* what get_conn returned to each of them

vars == <<conns, used, holding, conn>>

\* The loops over the pool stop at the first slot of S.
IsFirst(i, S) == i \in S /\ \A j \in S : i <= j

init_conn_pool ==
  /\ conns \in {f \in [Slot -> Slot \cup {NULL}] : \A i \in Slot : f[i] \in {i, NULL}}
  /\ used = [i \in Slot |-> FALSE]
  /\ holding = {} /\ conn = [c \in Client |-> NULL]

\* Fault: the slot is handed out but not marked.
get_conn_Unmarked(c) ==
  LET unused == {i \in Slot : ~used[i]} IN
    /\ c \notin holding
    /\ holding' = holding \cup {c}
    /\ \/ \E i \in unused : IsFirst(i, unused) /\ conn' = [conn EXCEPT ![c] = conns[i]]
       \/ unused = {} /\ conn' = [conn EXCEPT ![c] = NULL]
    /\ UNCHANGED <<conns, used>>

\* The first slot that is not used is marked and its handle returned, even
\* if that is NULL; NULL is also the answer when every slot is used.
get_conn(c) ==
  LET unused == {i \in Slot : ~used[i]} IN
    /\ c \notin holding
    /\ holding' = holding \cup {c}
    /\ \/ \E i \in unused :
            /\ IsFirst(i, unused)
            /\ used' = [used EXCEPT ![i] = TRUE]
            /\ conn' = [conn EXCEPT ![c] = conns[i]]
       \/ unused = {} /\ conn' = [conn EXCEPT ![c] = NULL] /\ UNCHANGED used
    /\ UNCHANGED conns

\* Fault: the handle is put into the first unused slot instead of its own.
release_conn_Elsewhere(c) ==
  LET unused == {i \in Slot : ~used[i]} IN
    /\ c \in holding
    /\ holding' = holding \ {c}
    /\ \E i \in unused : IsFirst(i, unused) /\ conns' = [conns EXCEPT ![i] = conn[c]]
    /\ conn' = [conn EXCEPT ![c] = NULL]
    /\ UNCHANGED used

\* The first slot with this handle is given back; NULL finds the first slot
\* that failed, if there is one.
release_conn(c) ==
  LET mine == {i \in Slot : conns[i] = conn[c]} IN
    /\ c \in holding
    /\ holding' = holding \ {c}
    /\ \/ \E i \in mine : IsFirst(i, mine) /\ used' = [used EXCEPT ![i] = FALSE]
       \/ mine = {} /\ UNCHANGED used
    /\ conn' = [conn EXCEPT ![c] = NULL]
    /\ UNCHANGED conns

Next == \E c \in Client : get_conn(c) \/ release_conn(c)

Spec == init_conn_pool /\ [][Next]_vars

(***************************************************************************)
(* Properties.                                                             *)
(***************************************************************************)
TypeOK ==
  /\ conns \in [Slot -> Slot \cup {NULL}] /\ \A i \in Slot : conns[i] \in {i, NULL}
  /\ used \in [Slot -> BOOLEAN]
  /\ holding \in SUBSET Client
  /\ conn \in [Client -> Slot \cup {NULL}]

\* No two clients ever work on the same connection.
ExclusiveConnection ==
  \A c, d \in holding : conn[c] = conn[d] /\ conn[c] # NULL => c = d

\* A connection is marked used exactly while a client has it: none is leaked
\* and none is handed out while in use, even when clients give back the NULL
\* they got because a slot had failed or the pool was exhausted.
UsedIsHeld ==
  \A i \in Slot : conns[i] # NULL => (used[i] <=> \E c \in holding : conn[c] = i)

\* Neither of the two is inductive alone: a connection is given to one client
\* only because it was not used, and is not used only when nobody has it.
PoolSafe == UsedIsHeld /\ ExclusiveConnection
=============================================================================
