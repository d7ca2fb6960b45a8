----------------------------- MODULE ThreadPool -----------------------------
(***************************************************************************)
(* The thread pool of threadpool.c: one owner thread (main) creates the    *)
(* workers, pushes tasks, waits in getchar() and destroys the pool; every  *)
(* worker runs nThreadPoolCallback.  The tasks and the mutex/condition     *)
(* variable pair are shared; the list of workers is only touched by main.  *)
(*                                                                         *)
(* One action is one step between two points where another thread can      *)
(* observe or change what the step uses.  The pthread calls are external   *)
(* and behave as glibc's: a mutex that is in use is not destroyed (EBUSY), *)
(* locking a destroyed mutex returns EINVAL at once without locking it,    *)
(* and pthread_cond_wait may wake spuriously.  No return value of these    *)
(* calls is looked at by the code.                                         *)
(***************************************************************************)
EXTENDS Integers, Sequences, FiniteSets

CONSTANTS
  numWorkers,   \* the argument of nThreadPoolCreate (THREADCOUNT)
  TASKSIZE,     \* how many tasks main pushes
  Garbage       \* what worker->terminate may hold in memory fresh from malloc

ASSUME NumWorkersAssumption == numWorkers \in Int
ASSUME TaskSizeAssumption == TASKSIZE \in Nat
ASSUME GarbageAssumption == Garbage \in SUBSET BOOLEAN /\ Garbage # {}

\* The worker created in round i of the loop is called i.  LIST_INSERT puts
\* every new worker in front, so the next pointer of worker w leads to w - 1
\* and worker 1 ends the list; NULL is 0.
LastWorker == IF numWorkers < 1 THEN 1 ELSE numWorkers
Worker == 1 .. LastWorker
Task == 1 .. TASKSIZE
NULL == 0

Main == 0          \* the owner thread, as an owner of the mutex
Free == -1         \* the mutex is not locked
Destroyed == -2    \* pthread_mutex_destroy succeeded

VARIABLES
  mpc,         \* where main is
  cur,         \* main's pointer worker in the walk of nThreadPoolDestory
  pushed,      \* main's loop counter: tasks 1..pushed were given to PushTask
  workers,     \* pool->workers, the head of the list of workers
  tasks,       \* pool->tasks, the list of tasks from its head
  mutex,       \* pool->mutex: its owner, Free or Destroyed
  wpc,         \* where each worker is
  terminate,   \* worker->terminate
  held,        \* the local task of each worker, NULL if it has none
  executed     \* how often the task_func of each task ran to its end

vars == <<mpc, cur, pushed, workers, tasks, mutex, wpc, terminate, held, executed>>
mainVars == <<cur, pushed, workers>>

MainPC == {"create", "push", "insert", "signal", "unlock", "getchar",
           "mark", "next", "dlock", "broadcast", "dunlock", "null",
           "mutex_destroy", "cond_destroy", "exited"}
WorkerPC == {"unborn", "lock", "test", "waiting", "relock", "check", "take",
             "unlock", "run", "free", "gone"}

\* Main is inside nThreadPoolDestory, or has left it.
InDestory == mpc \in {"mark", "next", "dlock", "broadcast", "dunlock", "null",
                      "mutex_destroy", "cond_destroy", "exited"}
\* nThreadPoolDestory has had the mutex: every worker it found is marked.
Locked == mpc \in {"broadcast", "dunlock", "null", "mutex_destroy",
                   "cond_destroy", "exited"}

Born(w) == wpc[w] # "unborn"
Alive(w) == wpc[w] \notin {"unborn", "gone"}

Init ==
  /\ mpc = "create" /\ cur = NULL /\ pushed = 0
  /\ workers = NULL /\ tasks = <<>> /\ mutex = Free
  /\ wpc = [w \in Worker |-> "unborn"]
  /\ terminate = [w \in Worker |-> FALSE]
  /\ held = [w \in Worker |-> NULL]
  /\ executed = [t \in Task |-> 0]

(***************************************************************************)
(* The pthread calls.                                                      *)
(***************************************************************************)
pthread_mutex_lock(t) ==
  \/ mutex = Free /\ mutex' = t
  \/ mutex = Destroyed /\ mutex' = mutex

pthread_mutex_unlock(t) == mutex' = IF mutex = t THEN Free ELSE mutex

pthread_mutex_destroy == mutex' = IF mutex = Free THEN Destroyed ELSE mutex

\* A signal wakes one of the threads that wait, if there is one.
pthread_cond_signal ==
  \/ \E w \in Worker :
       wpc[w] = "waiting" /\ wpc' = [wpc EXCEPT ![w] = "relock"]
  \/ (\A w \in Worker : wpc[w] # "waiting") /\ wpc' = wpc

pthread_cond_broadcast ==
  wpc' = [w \in Worker |-> IF wpc[w] = "waiting" THEN "relock" ELSE wpc[w]]

(***************************************************************************)
(* main: nThreadPoolCreate.                                                *)
(***************************************************************************)

\* One round of the loop.  memset(worker, 0, sizeof(worker)) clears a
\* pointer's worth of bytes, not the field terminate.
CreateWorker ==
  /\ mpc = "create"
  /\ LET w == workers + 1 IN
       /\ workers' = w
       /\ \E g \in Garbage : terminate' = [terminate EXCEPT ![w] = g]
       /\ wpc' = [wpc EXCEPT ![w] = "lock"]
       /\ mpc' = IF w = LastWorker THEN "push" ELSE "create"
  /\ UNCHANGED <<cur, pushed, tasks, mutex, held, executed>>

\* malloc or pthread_create fails: -2 or -3 is returned, the workers made so
\* far stay, and main, which ignores the result, goes on.
CreateFails ==
  /\ mpc = "create"
  /\ mpc' = "push"
  /\ UNCHANGED <<mainVars, tasks, mutex, wpc, terminate, held, executed>>

(***************************************************************************)
(* main: the loop of nThreadPoolPushTask.                                  *)
(***************************************************************************)
\* Fault: the loop of main runs once too often.
PushLock_OneMore ==
  /\ mpc = "push" /\ pushed <= TASKSIZE
  /\ pthread_mutex_lock(Main)
  /\ mpc' = "insert"
  /\ UNCHANGED <<mainVars, tasks, wpc, terminate, held, executed>>

\* Fault: PushTask does not take the mutex.
PushLock_Unlocked ==
  /\ mpc = "push" /\ pushed < TASKSIZE
  /\ mpc' = "insert"
  /\ UNCHANGED <<mainVars, mutex, tasks, wpc, terminate, held, executed>>

PushLock ==
  /\ mpc = "push" /\ pushed < TASKSIZE
  /\ pthread_mutex_lock(Main)
  /\ mpc' = "insert"
  /\ UNCHANGED <<mainVars, tasks, wpc, terminate, held, executed>>

PushInsert ==
  /\ mpc = "insert"
  /\ pushed' = pushed + 1
  /\ tasks' = <<pushed + 1>> \o tasks
  /\ mpc' = "signal"
  /\ UNCHANGED <<cur, workers, mutex, wpc, terminate, held, executed>>

\* Fault: the signal is forgotten.
PushSignal_None ==
  /\ mpc = "signal"
  /\ mpc' = "unlock"
  /\ UNCHANGED <<mainVars, tasks, mutex, wpc, terminate, held, executed>>

PushSignal ==
  /\ mpc = "signal"
  /\ pthread_cond_signal
  /\ mpc' = "unlock"
  /\ UNCHANGED <<mainVars, tasks, mutex, terminate, held, executed>>

PushUnlock ==
  /\ mpc = "unlock"
  /\ pthread_mutex_unlock(Main)
  /\ mpc' = "push"
  /\ UNCHANGED <<mainVars, tasks, wpc, terminate, held, executed>>

PushDone ==
  /\ mpc = "push" /\ pushed = TASKSIZE
  /\ mpc' = "getchar"
  /\ UNCHANGED <<mainVars, tasks, mutex, wpc, terminate, held, executed>>

(***************************************************************************)
(* main: the user presses a key and nThreadPoolDestory runs.               *)
(***************************************************************************)
Getchar ==
  /\ mpc = "getchar"
  /\ cur' = workers
  /\ mpc' = IF workers = NULL THEN "dlock" ELSE "mark"
  /\ UNCHANGED <<pushed, workers, tasks, mutex, wpc, terminate, held, executed>>

\* Fault: one flag for all the workers instead of one for each.
DestoryMark_All ==
  /\ mpc = "mark"
  /\ terminate' = [w \in Worker |-> TRUE]
  /\ mpc' = "next"
  /\ UNCHANGED <<mainVars, tasks, mutex, wpc, held, executed>>

\* worker->terminate = 1, without the mutex.
DestoryMark ==
  /\ mpc = "mark"
  /\ terminate' = [terminate EXCEPT ![cur] = TRUE]
  /\ mpc' = "next"
  /\ UNCHANGED <<mainVars, tasks, mutex, wpc, held, executed>>

\* worker = worker->next.  The worker may have freed itself since it was
\* marked; free leaves the field next, behind the first 16 bytes, as it was.
DestoryNext ==
  /\ mpc = "next"
  /\ cur' = cur - 1
  /\ mpc' = IF cur' = NULL THEN "dlock" ELSE "mark"
  /\ UNCHANGED <<pushed, workers, tasks, mutex, wpc, terminate, held, executed>>

DestoryLock ==
  /\ mpc = "dlock"
  /\ pthread_mutex_lock(Main)
  /\ mpc' = "broadcast"
  /\ UNCHANGED <<mainVars, tasks, wpc, terminate, held, executed>>

\* Fault: pthread_cond_signal where all must be woken.
DestoryBroadcast_One ==
  /\ mpc = "broadcast"
  /\ pthread_cond_signal
  /\ mpc' = "dunlock"
  /\ UNCHANGED <<mainVars, tasks, mutex, terminate, held, executed>>

DestoryBroadcast ==
  /\ mpc = "broadcast"
  /\ pthread_cond_broadcast
  /\ mpc' = "dunlock"
  /\ UNCHANGED <<mainVars, tasks, mutex, terminate, held, executed>>

DestoryUnlock ==
  /\ mpc = "dunlock"
  /\ pthread_mutex_unlock(Main)
  /\ mpc' = "null"
  /\ UNCHANGED <<mainVars, tasks, wpc, terminate, held, executed>>

\* Both list heads are reset without the mutex: what is queued is dropped.
DestoryNull ==
  /\ mpc = "null"
  /\ workers' = NULL /\ tasks' = <<>>
  /\ mpc' = "mutex_destroy"
  /\ UNCHANGED <<cur, pushed, mutex, wpc, terminate, held, executed>>

DestoryMutex ==
  /\ mpc = "mutex_destroy"
  /\ pthread_mutex_destroy
  /\ mpc' = "cond_destroy"
  /\ UNCHANGED <<mainVars, tasks, wpc, terminate, held, executed>>

\* pthread_cond_destroy blocks while a thread still waits on the condition
\* variable; then main returns, which ends the process with all its threads.
DestoryCond ==
  /\ mpc = "cond_destroy"
  /\ \A w \in Worker : wpc[w] # "waiting"
  /\ mpc' = "exited"
  /\ UNCHANGED <<mainVars, tasks, mutex, wpc, terminate, held, executed>>

(***************************************************************************)
(* A worker: nThreadPoolCallback.                                          *)
(***************************************************************************)
At(w, l) == wpc[w] = l /\ mpc # "exited"

WorkerLock(w) ==
  /\ At(w, "lock")
  /\ pthread_mutex_lock(w)
  /\ wpc' = [wpc EXCEPT ![w] = "test"]
  /\ UNCHANGED <<mpc, mainVars, tasks, terminate, held, executed>>

\* The inner while: leave it when there is a task or the worker must stop,
\* else pthread_cond_wait, which unlocks and waits in one step.
WorkerTest(w) ==
  /\ At(w, "test")
  /\ \/ /\ tasks = <<>> /\ ~terminate[w]
        /\ wpc' = [wpc EXCEPT ![w] = "waiting"]
        /\ pthread_mutex_unlock(w)
     \/ /\ tasks # <<>> \/ terminate[w]
        /\ wpc' = [wpc EXCEPT ![w] = "check"]
        /\ UNCHANGED mutex
  /\ UNCHANGED <<mpc, mainVars, tasks, terminate, held, executed>>

WorkerSpuriousWakeup(w) ==
  /\ At(w, "waiting")
  /\ wpc' = [wpc EXCEPT ![w] = "relock"]
  /\ UNCHANGED <<mpc, mainVars, tasks, mutex, terminate, held, executed>>

\* Fault: if instead of while around pthread_cond_wait.
WorkerRelock_If(w) ==
  /\ At(w, "relock")
  /\ pthread_mutex_lock(w)
  /\ wpc' = [wpc EXCEPT ![w] = "check"]
  /\ UNCHANGED <<mpc, mainVars, tasks, terminate, held, executed>>

\* A woken thread takes the mutex again and evaluates the inner while again.
WorkerRelock(w) ==
  /\ At(w, "relock")
  /\ pthread_mutex_lock(w)
  /\ wpc' = [wpc EXCEPT ![w] = "test"]
  /\ UNCHANGED <<mpc, mainVars, tasks, terminate, held, executed>>

\* Fault: terminate is only looked at while the list is empty.
WorkerCheck_TaskFirst(w) ==
  /\ At(w, "check")
  /\ \/ /\ terminate[w] /\ tasks = <<>>
        /\ wpc' = [wpc EXCEPT ![w] = "free"]
        /\ pthread_mutex_unlock(w)
     \/ /\ tasks # <<>>
        /\ wpc' = [wpc EXCEPT ![w] = "take"]
        /\ UNCHANGED mutex
  /\ UNCHANGED <<mpc, mainVars, tasks, terminate, held, executed>>

WorkerCheck(w) ==
  /\ At(w, "check")
  /\ \/ /\ terminate[w]
        /\ wpc' = [wpc EXCEPT ![w] = "free"]
        /\ pthread_mutex_unlock(w)
     \/ /\ ~terminate[w]
        /\ wpc' = [wpc EXCEPT ![w] = "take"]
        /\ UNCHANGED mutex
  /\ UNCHANGED <<mpc, mainVars, tasks, terminate, held, executed>>

\* Fault: the head is read but not removed.
WorkerTake_NoRemove(w) ==
  /\ At(w, "take") /\ tasks # <<>>
  /\ held' = [held EXCEPT ![w] = Head(tasks)]
  /\ wpc' = [wpc EXCEPT ![w] = "unlock"]
  /\ UNCHANGED <<mpc, mainVars, tasks, mutex, terminate, executed>>

\* With no task at the head LIST_REMOVE would dereference NULL.
WorkerTake(w) ==
  /\ At(w, "take") /\ tasks # <<>>
  /\ held' = [held EXCEPT ![w] = Head(tasks)]
  /\ tasks' = Tail(tasks)
  /\ wpc' = [wpc EXCEPT ![w] = "unlock"]
  /\ UNCHANGED <<mpc, mainVars, mutex, terminate, executed>>

WorkerUnlock(w) ==
  /\ At(w, "unlock")
  /\ pthread_mutex_unlock(w)
  /\ wpc' = [wpc EXCEPT ![w] = "run"]
  /\ UNCHANGED <<mpc, mainVars, tasks, terminate, held, executed>>

\* task->task_func(task), which ends by freeing the task.
task_entry(w) ==
  /\ At(w, "run")
  /\ executed' = [executed EXCEPT ![held[w]] = @ + 1]
  /\ held' = [held EXCEPT ![w] = NULL]
  /\ wpc' = [wpc EXCEPT ![w] = "lock"]
  /\ UNCHANGED <<mpc, mainVars, tasks, mutex, terminate>>

WorkerFree(w) ==
  /\ At(w, "free")
  /\ wpc' = [wpc EXCEPT ![w] = "gone"]
  /\ UNCHANGED <<mpc, mainVars, tasks, mutex, terminate, held, executed>>

(***************************************************************************)
(* The system.                                                             *)
(***************************************************************************)
MainCreates == CreateWorker \/ CreateFails
MainPushes == PushLock \/ PushInsert \/ PushSignal \/ PushUnlock \/ PushDone
MainDestroys ==
  \/ DestoryMark \/ DestoryNext \/ DestoryLock \/ DestoryBroadcast
  \/ DestoryUnlock \/ DestoryNull \/ DestoryMutex \/ DestoryCond

WorkerSyncs(w) ==
  \/ WorkerLock(w) \/ WorkerTest(w) \/ WorkerRelock(w) \/ WorkerCheck(w)
  \/ WorkerTake(w) \/ WorkerUnlock(w) \/ WorkerFree(w)

Exited == mpc = "exited" /\ UNCHANGED vars

Next ==
  \/ MainCreates \/ MainPushes \/ Getchar \/ MainDestroys
  \/ \E w \in Worker : WorkerSyncs(w) \/ WorkerSpuriousWakeup(w) \/ task_entry(w)
  \/ Exited

Spec == Init /\ [][Next]_vars

\* Every thread keeps running, and a thread that asks for a mutex which is
\* released again and again gets it at last.  Nothing makes the user press a
\* key, pthread_create fail or a wakeup be spurious.
Fairness ==
  /\ WF_vars(MainCreates \/ MainPushes \/ MainDestroys)
  /\ SF_vars(PushLock) /\ SF_vars(DestoryLock)
  /\ \A w \in Worker :
       /\ WF_vars(WorkerSyncs(w)) /\ WF_vars(task_entry(w))
       /\ SF_vars(WorkerLock(w)) /\ SF_vars(WorkerRelock(w))

FairSpec == Spec /\ Fairness

(***************************************************************************)
(* Properties.                                                             *)
(***************************************************************************)
TypeOK ==
  /\ mpc \in MainPC
  /\ cur \in Worker \cup {NULL}
  /\ pushed \in 0 .. TASKSIZE
  /\ workers \in Worker \cup {NULL}
  /\ tasks \in Seq(Task)
  /\ mutex \in Worker \cup {Main, Free, Destroyed}
  /\ wpc \in [Worker -> WorkerPC]
  /\ terminate \in [Worker -> BOOLEAN]
  /\ held \in [Worker -> Task \cup {NULL}]
  /\ executed \in [Task -> Nat]
\* The threads that are about to write pool->tasks: main in PushTask or at
\* the reset in Destory, a worker at LIST_REMOVE.
Writers ==
  {w \in Worker : wpc[w] = "take"} \cup {m \in {Main} : mpc \in {"insert", "null"}}

\* Two threads never write the task list at the same time, although
\* nThreadPoolDestory resets it after it has released the mutex, workers may
\* still be inside the loop and the mutex is destroyed under them.
TaskListHasOneWriter == \A s, t \in Writers : s = t

\* nThreadPoolCallback never applies LIST_REMOVE to an empty list, whatever
\* spurious wakeups, other workers or the reset in nThreadPoolDestory do
\* between the test of the list and its use.
TakeFindsTask == \A w \in Worker : wpc[w] = "take" => tasks # <<>>

\* The signal of nThreadPoolPushTask is never lost: while no worker has been
\* told to stop, tasks are queued only if some worker is awake and will look
\* at the list again, or main is just about to signal.
NoLostWakeup ==
  (/\ tasks # <<>>
   /\ \E w \in Worker : Alive(w)
   /\ \A w \in Worker : ~terminate[w])
  => \/ \E w \in Worker : Alive(w) /\ wpc[w] # "waiting"
     \/ mpc = "signal"

\* The tasks that are in the list, and those a worker has taken.
Queued == {tasks[i] : i \in DOMAIN tasks}
Held == {held[w] : w \in {v \in Worker : held[v] # NULL}}
Executed == {t \in Task : executed[t] # 0}

\* A task is in one place and runs at most once: a pushed task is queued
\* once, or held by one worker, or was executed once and freed, and is only
\* missing when nThreadPoolDestory dropped it; so no task_entry runs twice on
\* a task and none reads a task that was freed.
ExactlyOnce ==
  /\ \A i, j \in DOMAIN tasks : tasks[i] = tasks[j] => i = j
  /\ \A v, w \in Worker : held[v] = held[w] /\ held[v] # NULL => v = w
  /\ \A t \in Task : executed[t] <= 1
  /\ Queued \cap Held = {} /\ (Queued \cup Held) \cap Executed = {}
  /\ Queued \cup Held \cup Executed \subseteq 1 .. pushed
  /\ mpc \notin {"mutex_destroy", "cond_destroy", "exited"}
       => Queued \cup Held \cup Executed = 1 .. pushed

\* nThreadPoolDestory reaches only workers that still exist: the one it is
\* about to mark has not freed itself, although it is read without the mutex
\* and marked workers free themselves all the while.  (The window that is left
\* is the read of worker->next after the mark.)
MarkedWorkerExists == mpc = "mark" => Alive(cur)

\* Once nThreadPoolDestory has had the mutex, no worker takes a task any more
\* and none goes to sleep: the tasks that are left are dropped, not started.
NothingStartsAfterDestory ==
  [][Locked => \A w \in Worker : /\ held'[w] \in {held[w], NULL}
                                 /\ wpc'[w] = "waiting" => wpc[w] = "waiting"]_vars

\* A pushed task is executed at last unless the pool is destroyed first,
\* provided nThreadPoolCreate made at least one worker.
PushedTaskRuns ==
  \A t \in Task :
    (pushed >= t /\ workers # NULL) ~> (executed[t] = 1 \/ InDestory)

\* nThreadPoolDestory returns: no worker keeps the mutex, and no worker stays
\* asleep on the condition variable that is destroyed.
DestoryReturns == InDestory ~> mpc = "exited"
\* The pool does what TaskPool promises: it closes when nThreadPoolDestory
\* gets the mutex, not earlier, and a task counts as started when it is taken
\* off the list.
Abstract == INSTANCE TaskPool WITH
  queued <- Queued, running <- Held, finished <- Executed, open <- ~Locked

ImplementsTaskPool == Abstract!Spec

\* threadpool.c, lines 85 and 94: a worker is told to stop by the later
\* nThreadPoolDestory, which sets worker->terminate = 1.
StopsOnlyOnDestory == \A w \in Worker : wpc[w] = "free" => InDestory
(***************************************************************************)
(* The inductive invariant.                                                *)
(***************************************************************************)
MainInCS == mpc \in {"insert", "signal", "unlock", "broadcast", "dunlock"}
WorkerInCS(w) == wpc[w] \in {"test", "check", "take", "unlock"}

\* What main knows: its loops are within bounds, the workers it created are in the list, and the
\* walk of nThreadPoolDestory has marked all those it has passed.
MainInv ==
  /\ mpc = "create" => workers < LastWorker
  /\ mpc = "insert" => pushed < TASKSIZE
  /\ mpc \notin {"mutex_destroy", "cond_destroy", "exited"}
       => \A w \in Worker : Born(w) <=> w <= workers
  /\ mpc \in {"mark", "next"} => cur \in 1 .. workers
  /\ mpc = "mark" => \A w \in Worker : Born(w) /\ w > cur => terminate[w]
  /\ mpc = "next" => \A w \in Worker : Born(w) /\ w >= cur => terminate[w]
  /\ mpc = "dlock" \/ Locked => \A w \in Worker : Born(w) => terminate[w]
  /\ \A w \in Worker : wpc[w] \in {"free", "gone"} => terminate[w]

\* Who is between lock and unlock owns the mutex, as long as it exists; and
\* when nThreadPoolDestory has had it, nobody is about to take a task.
MutexInv ==
  /\ MainInCS => mutex = Main
  /\ \A w \in Worker : WorkerInCS(w) => mutex \in {w, Destroyed}
  /\ mutex = Destroyed => mpc \in {"cond_destroy", "exited"}
  /\ Locked => \A w \in Worker : wpc[w] \notin {"take", "unlock"}

\* What a worker has learnt of the list stays true until it uses it, and it
\* has a task of its own from taking it to the end of task_entry.
WorkerInv ==
  /\ \A w \in Worker : wpc[w] = "check" => tasks # <<>> \/ terminate[w]
  /\ \A w \in Worker : wpc[w] = "take" => tasks # <<>>
  /\ \A w \in Worker : held[w] # NULL <=> wpc[w] \in {"unlock", "run"}

IInv == TypeOK /\ MainInv /\ MutexInv /\ WorkerInv
=============================================================================
