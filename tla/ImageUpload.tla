---------------------------- MODULE ImageUpload ----------------------------
(***************************************************************************)
(* The program of threadpool+connpool: the workers of ThreadPool run a     *)
(* task_entry that takes a connection from ConnPool, writes an image with  *)
(* it and gives it back.  threadpool.h is the code of threadpool.c but for *)
(* task_entry, so ThreadPool's actions are used as they are, and its       *)
(* task_entry is the end of the longer one here.                           *)
(***************************************************************************)
EXTENDS ThreadPool

CONSTANT CONNECTION_POOL_SIZE

VARIABLES
  conns, used, holding, conn,  \* the connection pool
  stored,                      \* the tasks whose image was written
  crashed                      \* the process died of a NULL connection

CP == INSTANCE ConnPool WITH Client <- Worker

poolVars == <<conns, used, holding, conn>>
uploadVars == <<vars, poolVars, stored, crashed>>

\* init_conn_pool runs after nThreadPoolCreate and before the first task is
\* pushed, so no worker can see the connection pool without it.
UploadInit ==
  /\ Init /\ CP!init_conn_pool
  /\ stored = {} /\ crashed = FALSE

Running(w) == At(w, "run") /\ ~crashed

EntryGet(w) ==
  /\ Running(w) /\ w \notin holding /\ held[w] \notin stored
  /\ CP!get_conn(w)
  /\ UNCHANGED <<vars, stored, crashed>>

\* mysql_write_image: mysql_stmt_init dereferences the connection at once.
\* Whether read_image succeeded makes no difference to the control flow.
EntryWrite(w) ==
  /\ Running(w) /\ w \in holding /\ held[w] \notin stored
  /\ \/ conn[w] = CP!NULL /\ crashed' = TRUE /\ UNCHANGED stored
     \/ conn[w] # CP!NULL /\ stored' = stored \cup {held[w]} /\ UNCHANGED crashed
  /\ UNCHANGED <<vars, poolVars>>

\* Fault: the connection is not given back.
EntryRelease_Leak(w) ==
  /\ Running(w) /\ w \in holding /\ held[w] \in stored
  /\ holding' = holding \ {w}
  /\ UNCHANGED <<vars, conns, used, conn, stored, crashed>>

EntryRelease(w) ==
  /\ Running(w) /\ w \in holding /\ held[w] \in stored
  /\ CP!release_conn(w)
  /\ UNCHANGED <<vars, stored, crashed>>

\* The image task and the task are freed, and the worker goes on.
EntryEnd(w) ==
  /\ Running(w) /\ w \notin holding /\ held[w] \in stored
  /\ task_entry(w)
  /\ UNCHANGED <<poolVars, stored, crashed>>

\* Main, and a worker outside task_entry.
MainStep ==
  /\ ~crashed
  /\ MainCreates \/ MainPushes \/ Getchar \/ MainDestroys
  /\ UNCHANGED <<poolVars, stored, crashed>>

WorkerStep(w) ==
  /\ ~crashed
  /\ WorkerSyncs(w) \/ WorkerSpuriousWakeup(w)
  /\ UNCHANGED <<poolVars, stored, crashed>>

Ended == (crashed \/ mpc = "exited") /\ UNCHANGED uploadVars

UploadNext ==
  \/ MainStep
  \/ \E w \in Worker :
       WorkerStep(w) \/ EntryGet(w) \/ EntryWrite(w) \/ EntryRelease(w) \/ EntryEnd(w)
  \/ Ended

UploadSpec == UploadInit /\ [][UploadNext]_uploadVars

(***************************************************************************)
(* Properties.                                                             *)
(***************************************************************************)
UploadTypeOK ==
  /\ TypeOK /\ CP!TypeOK
  /\ stored \in SUBSET Task /\ crashed \in BOOLEAN

\* A worker outside task_entry has no connection: every path through
\* task_entry that comes back gives the connection back, also while the
\* thread pool is being destroyed, so no connection is lost to the others.
NoConnectionKept ==
  /\ \A w \in Worker : w \in holding => wpc[w] = "run"
  /\ \A i \in CP!Slot : used[i] => \E w \in holding : conn[w] = conns[i]

\* With every connection made and one for each task or each worker, no
\* interleaving brings a worker to write with a NULL connection.
EnoughConnections ==
  /\ \A i \in CP!Slot : conns[i] # CP!NULL
  /\ CONNECTION_POOL_SIZE >= TASKSIZE \/ CONNECTION_POOL_SIZE >= LastWorker
NoCrash == EnoughConnections => ~crashed

\* What the upload promises of its connections.
UploadsSafe == UploadTypeOK /\ NoConnectionKept /\ NoCrash
=============================================================================
