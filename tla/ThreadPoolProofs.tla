-------------------------- MODULE ThreadPoolProofs --------------------------
(***************************************************************************)
(* Theorems about ThreadPool, for every number of workers and tasks and    *)
(* for every content of fresh memory.  The inductive invariant IInv adds   *)
(* to the properties who owns the mutex where, and what the walk of        *)
(* nThreadPoolDestory has reached.                                         *)
(*                                                                         *)
(* Then about ImageUpload, for every number of connections as well and     *)
(* whichever of them failed.  The upload implements the thread pool, whose *)
(* theorems therefore hold of it, and they in turn say how many workers    *)
(* can be inside task_entry at once.                                       *)
(***************************************************************************)
EXTENDS ImageUpload, SequenceTheorems, FiniteSetTheorems, TLAPS

-----------------------------------------------------------------------------
(***************************************************************************)
(* Lists of tasks.                                                         *)
(***************************************************************************)

\* PushInsert puts a task in front of the others.
LEMMA InsertAtHead ==
  ASSUME NEW S, NEW s \in Seq(S), NEW e \in S
  PROVE  LET c == <<e>> \o s
         IN  /\ c \in Seq(S) /\ c # <<>>
             /\ Len(c) = Len(s) + 1 /\ DOMAIN c = 1 .. Len(s) + 1
             /\ c[1] = e /\ \A i \in 1 .. Len(s) : c[i + 1] = s[i]
  OBVIOUS

\* LIST_REMOVE of the head leaves the others, one place further to the front.
LEMMA RemoveHead ==
  ASSUME NEW S, NEW s \in Seq(S), s # <<>>
  PROVE  /\ Len(s) \in Nat \ {0} /\ DOMAIN s = 1 .. Len(s)
         /\ Head(s) = s[1] /\ Head(s) \in S
         /\ Tail(s) \in Seq(S) /\ Len(Tail(s)) = Len(s) - 1
         /\ DOMAIN Tail(s) = 1 .. Len(s) - 1
         /\ \A i \in 1 .. Len(s) - 1 : Tail(s)[i] = s[i + 1]
  OBVIOUS

-----------------------------------------------------------------------------
\* A negative or zero numWorkers is replaced by 1 (nThreadPoolCreate).
LEMMA WorkersExist == LastWorker \in Nat \ {0}
  BY NumWorkersAssumption DEF LastWorker

\* The strengthened invariant is inductive: one step for each action, and
\* under it one for each of its parts where the action can disturb them.
LEMMA IInvStep == IInv /\ [Next]_vars => IInv'
<1> SUFFICES ASSUME IInv, [Next]_vars PROVE IInv'
  OBVIOUS
<1> USE WorkersExist, TaskSizeAssumption, GarbageAssumption
    DEF MainPC, WorkerPC, NULL, Main, Free, Destroyed, Task, Worker,
        mainVars, Born, Locked, MainInCS, WorkerInCS
<1>0. TypeOK /\ MainInv /\ MutexInv /\ WorkerInv
  BY DEF IInv
<1>1. CASE CreateWorker
  BY <1>0, <1>1 DEF CreateWorker, IInv, TypeOK, MainInv, MutexInv, WorkerInv
<1>2. CASE CreateFails
  BY <1>0, <1>2 DEF CreateFails, IInv, TypeOK, MainInv, MutexInv, WorkerInv
<1>3. CASE PushLock
  BY <1>0, <1>3 DEF PushLock, pthread_mutex_lock, IInv, TypeOK, MainInv, MutexInv, WorkerInv
<1>4. CASE PushInsert
  <2>1. TypeOK'
    BY <1>0, <1>4, InsertAtHead DEF PushInsert, TypeOK, MainInv
  <2>2. MainInv'
    BY <1>0, <1>4 DEF PushInsert, TypeOK, MainInv
  <2>3. MutexInv'
    BY <1>0, <1>4 DEF PushInsert, TypeOK, MainInv, MutexInv
  <2>4. WorkerInv'
    BY <1>0, <1>4, InsertAtHead DEF PushInsert, TypeOK, MainInv, MutexInv, WorkerInv
  <2> QED
    BY <2>1, <2>2, <2>3, <2>4 DEF IInv
<1>5. CASE PushSignal
  <2>1. TypeOK'
    BY <1>0, <1>5 DEF PushSignal, pthread_cond_signal, TypeOK, MainInv
  <2>2. MainInv'
    BY <1>0, <1>5 DEF PushSignal, pthread_cond_signal, TypeOK, MainInv
  <2>3. MutexInv'
    BY <1>0, <1>5 DEF PushSignal, pthread_cond_signal, TypeOK, MainInv, MutexInv
  <2>4. WorkerInv'
    BY <1>0, <1>5, SMTT(30) DEF PushSignal, pthread_cond_signal, TypeOK, MainInv, MutexInv, WorkerInv
  <2> QED
    BY <2>1, <2>2, <2>3, <2>4 DEF IInv
<1>6. CASE PushUnlock
  BY <1>0, <1>6 DEF PushUnlock, pthread_mutex_unlock, IInv, TypeOK, MainInv, MutexInv, WorkerInv
<1>7. CASE PushDone
  BY <1>0, <1>7 DEF PushDone, IInv, TypeOK, MainInv, MutexInv, WorkerInv
<1>8. CASE Getchar
  BY <1>0, <1>8 DEF Getchar, IInv, TypeOK, MainInv, MutexInv, WorkerInv
<1>9. CASE DestoryMark
  BY <1>0, <1>9 DEF DestoryMark, IInv, TypeOK, MainInv, MutexInv, WorkerInv
<1>10. CASE DestoryNext
  BY <1>0, <1>10 DEF DestoryNext, IInv, TypeOK, MainInv, MutexInv, WorkerInv
<1>11. CASE DestoryLock
  BY <1>0, <1>11 DEF DestoryLock, pthread_mutex_lock, IInv, TypeOK, MainInv, MutexInv, WorkerInv
<1>12. CASE DestoryBroadcast
  BY <1>0, <1>12 DEF DestoryBroadcast, pthread_cond_broadcast, IInv, TypeOK, MainInv, MutexInv, WorkerInv
<1>13. CASE DestoryUnlock
  BY <1>0, <1>13 DEF DestoryUnlock, pthread_mutex_unlock, IInv, TypeOK, MainInv, MutexInv, WorkerInv
<1>14. CASE DestoryNull
  BY <1>0, <1>14 DEF DestoryNull, IInv, TypeOK, MainInv, MutexInv, WorkerInv
<1>15. CASE DestoryMutex
  BY <1>0, <1>15 DEF DestoryMutex, pthread_mutex_destroy, IInv, TypeOK, MainInv, MutexInv, WorkerInv
<1>16. CASE DestoryCond
  BY <1>0, <1>16 DEF DestoryCond, IInv, TypeOK, MainInv, MutexInv, WorkerInv
<1>17. ASSUME NEW w \in Worker, WorkerLock(w) PROVE IInv'
  <2>1. TypeOK'
    BY <1>0, <1>17 DEF WorkerLock, At, pthread_mutex_lock, TypeOK, MainInv
  <2>2. MainInv'
    BY <1>0, <1>17 DEF WorkerLock, At, pthread_mutex_lock, TypeOK, MainInv
  <2>3. MutexInv'
    BY <1>0, <1>17 DEF WorkerLock, At, pthread_mutex_lock, TypeOK, MainInv, MutexInv
  <2>4. WorkerInv'
    BY <1>0, <1>17 DEF WorkerLock, At, pthread_mutex_lock, TypeOK, MainInv, MutexInv, WorkerInv
  <2> QED
    BY <2>1, <2>2, <2>3, <2>4 DEF IInv
<1>18. ASSUME NEW w \in Worker, WorkerTest(w) PROVE IInv'
  <2>1. TypeOK'
    BY <1>0, <1>18, ZenonT(30) DEF WorkerTest, At, pthread_mutex_unlock, TypeOK, MainInv
  <2>2. MainInv'
    BY <1>0, <1>18, ZenonT(30) DEF WorkerTest, At, pthread_mutex_unlock, TypeOK, MainInv
  <2>3. MutexInv'
    <3>1. CASE tasks = <<>> /\ ~terminate[w]
      BY <3>1, <1>0, <1>18 DEF WorkerTest, At, pthread_mutex_unlock, TypeOK, MainInv, MutexInv
    <3>2. CASE tasks # <<>> \/ terminate[w]
      BY <3>2, <1>0, <1>18 DEF WorkerTest, At, pthread_mutex_unlock, TypeOK, MainInv, MutexInv
    <3> QED
      BY <3>1, <3>2
  <2>4. WorkerInv'
    BY <1>0, <1>18, ZenonT(30) DEF WorkerTest, At, pthread_mutex_unlock, TypeOK, MainInv, MutexInv, WorkerInv
  <2> QED
    BY <2>1, <2>2, <2>3, <2>4 DEF IInv
<1>19. ASSUME NEW w \in Worker, WorkerSpuriousWakeup(w) PROVE IInv'
  <2>1. TypeOK'
    BY <1>0, <1>19 DEF WorkerSpuriousWakeup, At, TypeOK, MainInv
  <2>2. MainInv'
    BY <1>0, <1>19 DEF WorkerSpuriousWakeup, At, TypeOK, MainInv
  <2>3. MutexInv'
    BY <1>0, <1>19 DEF WorkerSpuriousWakeup, At, TypeOK, MainInv, MutexInv
  <2>4. WorkerInv'
    BY <1>0, <1>19 DEF WorkerSpuriousWakeup, At, TypeOK, MainInv, MutexInv, WorkerInv
  <2> QED
    BY <2>1, <2>2, <2>3, <2>4 DEF IInv
<1>20. ASSUME NEW w \in Worker, WorkerRelock(w) PROVE IInv'
  <2>1. TypeOK'
    BY <1>0, <1>20 DEF WorkerRelock, At, pthread_mutex_lock, TypeOK, MainInv
  <2>2. MainInv'
    BY <1>0, <1>20 DEF WorkerRelock, At, pthread_mutex_lock, TypeOK, MainInv
  <2>3. MutexInv'
    BY <1>0, <1>20 DEF WorkerRelock, At, pthread_mutex_lock, TypeOK, MainInv, MutexInv
  <2>4. WorkerInv'
    BY <1>0, <1>20 DEF WorkerRelock, At, pthread_mutex_lock, TypeOK, MainInv, MutexInv, WorkerInv
  <2> QED
    BY <2>1, <2>2, <2>3, <2>4 DEF IInv
<1>21. ASSUME NEW w \in Worker, WorkerCheck(w) PROVE IInv'
  <2>1. TypeOK'
    BY <1>0, <1>21, ZenonT(30) DEF WorkerCheck, At, pthread_mutex_unlock, TypeOK, MainInv
  <2>2. MainInv'
    BY <1>0, <1>21 DEF WorkerCheck, At, pthread_mutex_unlock, TypeOK, MainInv
  <2>3. MutexInv'
    <3>1. CASE terminate[w]
      BY <3>1, <1>0, <1>21, SMTT(30) DEF WorkerCheck, At, pthread_mutex_unlock, TypeOK, MainInv, MutexInv
    <3>2. CASE ~terminate[w]
      BY <3>2, <1>0, <1>21 DEF WorkerCheck, At, pthread_mutex_unlock, TypeOK, MainInv, MutexInv
    <3> QED
      BY <3>1, <3>2
  <2>4. WorkerInv'
    BY <1>0, <1>21, ZenonT(30) DEF WorkerCheck, At, pthread_mutex_unlock, TypeOK, MainInv, MutexInv, WorkerInv
  <2> QED
    BY <2>1, <2>2, <2>3, <2>4 DEF IInv
<1>22. ASSUME NEW w \in Worker, WorkerTake(w) PROVE IInv'
  <2>1. TypeOK'
    BY <1>0, <1>22, RemoveHead DEF WorkerTake, At, TypeOK, MainInv
  <2>2. MainInv'
    BY <1>0, <1>22 DEF WorkerTake, At, TypeOK, MainInv
  <2>3. MutexInv'
    BY <1>0, <1>22 DEF WorkerTake, At, TypeOK, MainInv, MutexInv
  <2>4. WorkerInv'
    BY <1>0, <1>22, RemoveHead DEF WorkerTake, At, TypeOK, MainInv, MutexInv, WorkerInv
  <2> QED
    BY <2>1, <2>2, <2>3, <2>4 DEF IInv
<1>23. ASSUME NEW w \in Worker, WorkerUnlock(w) PROVE IInv'
  <2>1. TypeOK'
    BY <1>0, <1>23 DEF WorkerUnlock, At, pthread_mutex_unlock, TypeOK, MainInv
  <2>2. MainInv'
    BY <1>0, <1>23 DEF WorkerUnlock, At, pthread_mutex_unlock, TypeOK, MainInv
  <2>3. MutexInv'
    BY <1>0, <1>23 DEF WorkerUnlock, At, pthread_mutex_unlock, TypeOK, MainInv, MutexInv
  <2>4. WorkerInv'
    BY <1>0, <1>23 DEF WorkerUnlock, At, pthread_mutex_unlock, TypeOK, MainInv, MutexInv, WorkerInv
  <2> QED
    BY <2>1, <2>2, <2>3, <2>4 DEF IInv
<1>24. ASSUME NEW w \in Worker, task_entry(w) PROVE IInv'
  <2>1. TypeOK'
    BY <1>0, <1>24, SMTT(30) DEF task_entry, At, TypeOK, WorkerInv
  <2>2. MainInv'
    BY <1>0, <1>24 DEF task_entry, At, TypeOK, MainInv
  <2>3. MutexInv'
    BY <1>0, <1>24 DEF task_entry, At, TypeOK, MainInv, MutexInv
  <2>4. WorkerInv'
    BY <1>0, <1>24 DEF task_entry, At, TypeOK, MainInv, MutexInv, WorkerInv
  <2> QED
    BY <2>1, <2>2, <2>3, <2>4 DEF IInv
<1>25. ASSUME NEW w \in Worker, WorkerFree(w) PROVE IInv'
  <2>1. TypeOK'
    BY <1>0, <1>25 DEF WorkerFree, At, TypeOK, MainInv
  <2>2. MainInv'
    BY <1>0, <1>25 DEF WorkerFree, At, TypeOK, MainInv
  <2>3. MutexInv'
    BY <1>0, <1>25 DEF WorkerFree, At, TypeOK, MainInv, MutexInv
  <2>4. WorkerInv'
    BY <1>0, <1>25 DEF WorkerFree, At, TypeOK, MainInv, MutexInv, WorkerInv
  <2> QED
    BY <2>1, <2>2, <2>3, <2>4 DEF IInv
<1>26. CASE UNCHANGED vars
  BY <1>0, <1>26 DEF vars, IInv, TypeOK, MainInv, MutexInv, WorkerInv
<1> QED
  BY <1>0, <1>1, <1>2, <1>3, <1>4, <1>5, <1>6, <1>7, <1>8, <1>9, <1>10, <1>11, <1>12, <1>13, <1>14, <1>15, <1>16, <1>17, <1>18, <1>19, <1>20, <1>21, <1>22, <1>23, <1>24, <1>25, <1>26 DEF Next, MainCreates, MainPushes, MainDestroys, WorkerSyncs, Exited

\* IInv holds in every reachable state.
LEMMA IInvAlways == Spec => []IInv
<1>1. Init => IInv
  BY WorkersExist, TaskSizeAssumption
  DEF Init, IInv, TypeOK, MainInv, MutexInv, WorkerInv, MainPC, WorkerPC, NULL, Main,
      Free, Destroyed, Task, Worker, Born, Locked, MainInCS, WorkerInCS
<1> QED
  BY <1>1, IInvStep, PTL DEF Spec

\* Every variable of the pool keeps its type.
THEOREM TypeCorrect == Spec => []TypeOK
<1>1. IInv => TypeOK
  BY DEF IInv
<1> QED
  BY <1>1, IInvAlways, PTL

-----------------------------------------------------------------------------
\* Two threads never write pool->tasks at the same time, whoever they are:
\* PushTask and the workers are kept apart by the mutex, and at the unlocked
\* reset of nThreadPoolDestory every worker has its terminate flag set and
\* none is left that could still take a task.
THEOREM OneWriter == Spec => []TaskListHasOneWriter
<1>1. IInv => TaskListHasOneWriter
  <2> SUFFICES ASSUME IInv, NEW s \in Writers, NEW t \in Writers PROVE s = t
    BY DEF TaskListHasOneWriter
  <2>1. s \in Worker /\ t \in Worker => s = t
    BY DEF IInv, TypeOK, MutexInv, Writers, Worker, Main, Destroyed, Locked, WorkerInCS
  <2>2. s = Main /\ t \in Worker => FALSE
    BY WorkersExist DEF IInv, TypeOK, MutexInv, Writers, Worker, Main, Destroyed, Locked, MainInCS, WorkerInCS
  <2>3. t = Main /\ s \in Worker => FALSE
    BY WorkersExist DEF IInv, TypeOK, MutexInv, Writers, Worker, Main, Destroyed, Locked, MainInCS, WorkerInCS
  <2> QED
    BY <2>1, <2>2, <2>3 DEF Writers
<1> QED
  BY <1>1, IInvAlways, PTL

\* A worker that is about to remove the head of pool->tasks finds one.
THEOREM TakeIsSafe == Spec => []TakeFindsTask
<1>1. IInv => TakeFindsTask
  BY DEF IInv, WorkerInv, TakeFindsTask
<1> QED
  BY <1>1, IInvAlways, PTL

\* Once nThreadPoolDestory has had the mutex, no task is started and no
\* worker goes to sleep on the condition variable that is then destroyed.
THEOREM DestoryStopsWorkers == Spec => NothingStartsAfterDestory
<1>1. IInv /\ [Next]_vars
      => [Locked => \A w \in Worker : /\ held'[w] \in {held[w], NULL}
                                      /\ wpc'[w] = "waiting" => wpc[w] = "waiting"]_vars
  <2> SUFFICES ASSUME IInv, Next, Locked, NEW v \in Worker
               PROVE  /\ held'[v] \in {held[v], NULL}
                      /\ wpc'[v] = "waiting" => wpc[v] = "waiting"
    OBVIOUS
  <2> USE DEF IInv, TypeOK, MainInv, MutexInv, Locked, Born, At
  <2>1. CASE DestoryBroadcast \/ DestoryUnlock \/ DestoryNull \/ DestoryMutex \/ DestoryCond
    BY <2>1 DEF DestoryBroadcast, DestoryUnlock, DestoryNull, DestoryMutex, DestoryCond,
                pthread_cond_broadcast
  <2>2. CASE MainCreates \/ MainPushes \/ Getchar \/ DestoryMark \/ DestoryNext \/ DestoryLock
    BY <2>2 DEF MainCreates, CreateWorker, CreateFails, MainPushes, PushLock, PushInsert,
                PushSignal, PushUnlock, PushDone, Getchar, DestoryMark, DestoryNext, DestoryLock
  <2>3. ASSUME NEW w \in Worker, WorkerLock(w) \/ WorkerRelock(w) \/ WorkerCheck(w)
               \/ WorkerUnlock(w) \/ WorkerFree(w) \/ WorkerSpuriousWakeup(w)
        PROVE  held' = held /\ wpc'[v] \in {wpc[v], "test", "free", "take", "run", "gone", "relock"}
    BY <2>3 DEF WorkerLock, WorkerRelock, WorkerCheck, WorkerUnlock, WorkerFree,
                WorkerSpuriousWakeup
  <2>4. ASSUME NEW w \in Worker, WorkerTest(w)
        PROVE  held' = held /\ wpc'[v] \in {wpc[v], "check"}
    BY <2>4 DEF WorkerTest
  <2>5. ASSUME NEW w \in Worker, WorkerTake(w) PROVE FALSE
    BY <2>5 DEF WorkerTake
  <2>6. ASSUME NEW w \in Worker, task_entry(w)
        PROVE  held'[v] \in {held[v], NULL} /\ wpc'[v] \in {wpc[v], "lock"}
    BY <2>6 DEF task_entry
  <2>7. CASE Exited
    BY <2>7 DEF Exited, vars
  <2> QED
    BY <2>1, <2>2, <2>3, <2>4, <2>5, <2>6, <2>7 DEF Next, MainDestroys, WorkerSyncs
<1> QED
  BY <1>1, IInvAlways, PTL DEF Spec, NothingStartsAfterDestory

\* No wakeup is lost: tasks are never left in the list with all the workers
\* asleep.  The signal of PushTask restores what PushInsert may have broken,
\* and a worker only goes to sleep when it has seen the list empty.
THEOREM WakeupsArrive == Spec => []NoLostWakeup
<1>1. Init => NoLostWakeup
  BY DEF Init, NoLostWakeup
<1>2. IInv /\ NoLostWakeup /\ [Next]_vars => NoLostWakeup'
  <2> SUFFICES ASSUME IInv, NoLostWakeup, [Next]_vars,
                      tasks' # <<>>, \E w \in Worker : Alive(w)',
                      \A w \in Worker : ~terminate'[w]
               PROVE  (\E w \in Worker : Alive(w)' /\ wpc'[w] # "waiting") \/ mpc' = "signal"
    BY DEF NoLostWakeup
  <2> USE DEF IInv, TypeOK, Alive, NoLostWakeup, At
  <2>1. CASE CreateWorker
    <3>1. workers + 1 \in Worker
      BY <2>1, WorkersExist DEF CreateWorker, MainInv, Worker, NULL
    <3> QED
      BY <2>1, <3>1 DEF CreateWorker
  <2>2. CASE CreateFails \/ PushLock \/ PushUnlock \/ PushDone \/ Getchar \/ PushInsert
    BY <2>2 DEF CreateFails, PushLock, PushUnlock, PushDone, Getchar, PushInsert
  <2>3. CASE PushSignal
    BY <2>3 DEF PushSignal, pthread_cond_signal
  <2>4. CASE DestoryNext \/ DestoryLock \/ DestoryUnlock \/ DestoryMutex \/ DestoryCond
    BY <2>4 DEF DestoryNext, DestoryLock, DestoryUnlock, DestoryMutex, DestoryCond
  <2>5. CASE DestoryMark
    <3>1. cur \in Worker
      BY <2>5, WorkersExist DEF DestoryMark, MainInv, Worker, NULL
    <3> QED
      BY <2>5, <3>1 DEF DestoryMark
  <2>6. CASE DestoryBroadcast
    BY <2>6 DEF DestoryBroadcast, pthread_cond_broadcast
  <2>7. CASE DestoryNull
    BY <2>7 DEF DestoryNull
  <2>8. ASSUME NEW w \in Worker, WorkerTest(w)
        PROVE  wpc'[w] = "check" /\ mpc' = mpc
    BY <2>8 DEF WorkerTest
  <2>9. ASSUME NEW w \in Worker, WorkerFree(w)
        PROVE  FALSE
    BY <2>9 DEF WorkerFree, MainInv
  <2>10. ASSUME NEW w \in Worker,
                WorkerLock(w) \/ WorkerRelock(w) \/ WorkerCheck(w) \/ WorkerTake(w)
                \/ WorkerUnlock(w) \/ WorkerSpuriousWakeup(w) \/ task_entry(w)
         PROVE  wpc'[w] \in {"test", "free", "take", "unlock", "run", "relock", "lock"}
    BY <2>10 DEF WorkerLock, WorkerRelock, WorkerCheck, WorkerTake, WorkerUnlock,
                 WorkerSpuriousWakeup, task_entry
  <2>11. CASE UNCHANGED vars
    BY <2>11 DEF vars
  <2> QED
    BY <2>1, <2>2, <2>3, <2>4, <2>5, <2>6, <2>7, <2>8, <2>9, <2>10, <2>11
    DEF Next, MainCreates, MainPushes, MainDestroys, WorkerSyncs, Exited
<1> QED
  BY <1>1, <1>2, IInvAlways, PTL DEF Spec

-----------------------------------------------------------------------------
\* The flags before the walk of nThreadPoolDestory has come to them, in memory
\* that malloc hands out cleared.
UnmarkedInv ==
  \A w \in Worker : terminate[w] => InDestory /\ (mpc = "mark" => w > cur)
                                              /\ (mpc = "next" => w >= cur)

\* If fresh memory is cleared, nThreadPoolDestory finds every worker it is
\* about to mark alive: workers free themselves only behind the walk.
THEOREM WalkFindsWorkers == Garbage = {FALSE} => (Spec => []MarkedWorkerExists)
<1> SUFFICES ASSUME Garbage = {FALSE} PROVE Spec => []MarkedWorkerExists
  OBVIOUS
<1>1. Init => UnmarkedInv
  BY DEF Init, UnmarkedInv
<1>2. IInv /\ UnmarkedInv /\ [Next]_vars => UnmarkedInv'
  <2> SUFFICES ASSUME IInv, UnmarkedInv, [Next]_vars PROVE UnmarkedInv'
    OBVIOUS
  <2> USE WorkersExist DEF UnmarkedInv, InDestory, IInv, TypeOK, MainInv, Worker, NULL
  <2>1. CASE CreateWorker
    BY <2>1 DEF CreateWorker
  <2>2. CASE CreateFails \/ PushLock \/ PushInsert \/ PushSignal \/ PushUnlock \/ PushDone
    BY <2>2 DEF CreateFails, PushLock, PushInsert, PushSignal, PushUnlock, PushDone
  <2>3. CASE Getchar
    BY <2>3 DEF Getchar
  <2>4. CASE DestoryMark
    BY <2>4 DEF DestoryMark, mainVars
  <2>5. CASE DestoryNext
    BY <2>5 DEF DestoryNext
  <2>6. CASE DestoryLock \/ DestoryBroadcast \/ DestoryUnlock \/ DestoryNull
             \/ DestoryMutex \/ DestoryCond
    BY <2>6 DEF DestoryLock, DestoryBroadcast, DestoryUnlock, DestoryNull, DestoryMutex, DestoryCond
  <2>7. ASSUME NEW w \in Worker, WorkerSyncs(w) \/ WorkerSpuriousWakeup(w) \/ task_entry(w)
        PROVE  UNCHANGED <<mpc, cur, terminate>>
    BY <2>7 DEF WorkerSyncs, WorkerLock, WorkerTest, WorkerRelock, WorkerCheck, WorkerTake,
                WorkerUnlock, WorkerFree, WorkerSpuriousWakeup, task_entry, mainVars
  <2>8. CASE UNCHANGED vars
    BY <2>8 DEF vars
  <2> QED
    BY <2>1, <2>2, <2>3, <2>4, <2>5, <2>6, <2>7, <2>8
    DEF Next, MainCreates, MainPushes, MainDestroys, Exited
<1>3. IInv /\ UnmarkedInv => MarkedWorkerExists
  BY WorkersExist
  DEF IInv, TypeOK, MainInv, UnmarkedInv, MarkedWorkerExists, Alive, Born, Worker, NULL
<1> QED
  BY <1>1, <1>2, <1>3, IInvAlways, PTL DEF Spec

-----------------------------------------------------------------------------
(***************************************************************************)
(* Where the tasks are: how the steps move them.                           *)
(***************************************************************************)

\* PushInsert queues the next task.
LEMMA InsertQueues ==
  ASSUME IInv, PushInsert
  PROVE  Queued' = Queued \cup {pushed + 1} /\ Held' = Held /\ Executed' = Executed
<1>1. pushed + 1 \in Task /\ tasks \in Seq(Task) /\ tasks' = <<pushed + 1>> \o tasks
  BY TaskSizeAssumption DEF IInv, TypeOK, MainInv, PushInsert, Task
<1>2. DOMAIN tasks = 1 .. Len(tasks) /\ Len(tasks) \in Nat
  BY <1>1
<1>3. /\ DOMAIN tasks' = 1 .. Len(tasks) + 1 /\ tasks'[1] = pushed + 1
      /\ \A i \in 1 .. Len(tasks) : tasks'[i + 1] = tasks[i]
  BY <1>1, InsertAtHead
<1>4. Queued' \subseteq Queued \cup {pushed + 1}
  <2> SUFFICES ASSUME NEW i \in DOMAIN tasks' PROVE tasks'[i] \in Queued \cup {pushed + 1}
    BY DEF Queued
  <2>1. CASE i = 1
    BY <2>1, <1>3
  <2>2. CASE i # 1
    <3>1. i - 1 \in 1 .. Len(tasks) /\ (i - 1) + 1 = i
      BY <2>2, <1>2, <1>3
    <3> QED
      BY <3>1, <1>2, <1>3 DEF Queued
  <2> QED
    BY <2>1, <2>2
<1>5. Queued \cup {pushed + 1} \subseteq Queued'
  <2>1. ASSUME NEW i \in DOMAIN tasks PROVE tasks[i] \in Queued'
    <3>1. i + 1 \in DOMAIN tasks' /\ tasks'[i + 1] = tasks[i]
      BY <1>2, <1>3
    <3> QED
      BY <3>1 DEF Queued
  <2>2. pushed + 1 \in Queued'
    <3>1. 1 \in DOMAIN tasks'
      BY <1>2, <1>3
    <3> QED
      BY <3>1, <1>3 DEF Queued
  <2> QED
    BY <2>1, <2>2 DEF Queued
<1> QED
  BY <1>4, <1>5 DEF PushInsert, Held, Executed

\* WorkerTake moves the head of the list to the worker.
LEMMA TakeMoves ==
  ASSUME IInv, ExactlyOnce, NEW w \in Worker, WorkerTake(w)
  PROVE  /\ Head(tasks) \in Queued /\ Head(tasks) \in Task
         /\ Queued' = Queued \ {Head(tasks)}
         /\ Held' = Held \cup {Head(tasks)}
         /\ Executed' = Executed
<1> DEFINE h == Head(tasks)
<1>1. tasks \in Seq(Task) /\ tasks # <<>> /\ tasks' = Tail(tasks)
  BY DEF IInv, TypeOK, WorkerTake
<1>2. /\ Len(tasks) \in Nat \ {0} /\ DOMAIN tasks = 1 .. Len(tasks)
      /\ h = tasks[1] /\ h \in Task /\ DOMAIN tasks' = 1 .. Len(tasks) - 1
      /\ \A i \in 1 .. Len(tasks) - 1 : tasks'[i] = tasks[i + 1]
  BY <1>1, RemoveHead
<1>3. h \in Queued
  BY <1>2 DEF Queued
<1>4. Queued' \subseteq Queued \ {h}
  <2> SUFFICES ASSUME NEW i \in DOMAIN tasks' PROVE tasks'[i] \in Queued \ {h}
    BY DEF Queued
  <2>1. i + 1 \in DOMAIN tasks /\ 1 \in DOMAIN tasks /\ i + 1 # 1 /\ tasks'[i] = tasks[i + 1]
    BY <1>2
  <2> QED
    BY <2>1, <1>2 DEF ExactlyOnce, Queued
<1>5. Queued \ {h} \subseteq Queued'
  <2> SUFFICES ASSUME NEW i \in DOMAIN tasks, tasks[i] # h PROVE tasks[i] \in Queued'
    BY DEF Queued
  <2>1. i - 1 \in DOMAIN tasks' /\ tasks'[i - 1] = tasks[i]
    BY <1>2
  <2> QED
    BY <2>1 DEF Queued
<1>6. held \in [Worker -> Task \cup {NULL}] /\ held[w] = NULL /\ h # NULL
      /\ held' = [held EXCEPT ![w] = h]
  BY <1>2 DEF IInv, TypeOK, WorkerInv, WorkerTake, At, Task, NULL
<1>7. Held' = Held \cup {h}
  <2>1. ASSUME NEW v \in Worker, held[v] # NULL PROVE held[v] \in Held'
    <3>1. held'[v] = held[v]
      BY <1>6, <2>1
    <3> QED
      BY <2>1, <3>1 DEF Held
  <2>2. h \in Held'
    BY <1>6 DEF Held
  <2>3. ASSUME NEW v \in Worker, held'[v] # NULL PROVE held'[v] \in Held \cup {h}
    BY <1>6, <2>3 DEF Held
  <2> QED
    BY <2>1, <2>2, <2>3 DEF Held
<1> QED
  BY <1>2, <1>3, <1>4, <1>5, <1>7 DEF WorkerTake, Executed

\* task_entry ends the task the worker holds.
LEMMA EntryMoves ==
  ASSUME IInv, ExactlyOnce, NEW w \in Worker, task_entry(w)
  PROVE  /\ held[w] \in Held /\ held[w] \in Task /\ executed[held[w]] = 0
         /\ Queued' = Queued
         /\ Held' = Held \ {held[w]}
         /\ Executed' = Executed \cup {held[w]}
<1> DEFINE t == held[w]
<1>1. /\ held \in [Worker -> Task \cup {NULL}] /\ t # NULL /\ t \in Task
      /\ held' = [held EXCEPT ![w] = NULL]
      /\ executed \in [Task -> Nat] /\ executed' = [executed EXCEPT ![t] = @ + 1]
  BY DEF IInv, TypeOK, WorkerInv, task_entry, At
<1>2. t \in Held
  BY <1>1 DEF Held
<1>3. t \notin Executed /\ executed[t] = 0
  BY <1>1, <1>2 DEF ExactlyOnce, Executed
<1>4. Held' = Held \ {t}
  <2>1. ASSUME NEW v \in Worker, held[v] # NULL, held[v] # t PROVE held[v] \in Held'
    <3>1. held'[v] = held[v]
      BY <1>1, <2>1
    <3> QED
      BY <2>1, <3>1 DEF Held
  <2>2. ASSUME NEW v \in Worker, held'[v] # NULL PROVE held'[v] \in Held \ {t}
    <3>1. v # w /\ held'[v] = held[v]
      BY <1>1, <2>2
    <3>2. held[v] # t
      BY <1>1, <2>2, <3>1 DEF ExactlyOnce
    <3> QED
      BY <2>2, <3>1, <3>2 DEF Held
  <2> QED
    BY <2>1, <2>2 DEF Held
<1>5. Executed' = Executed \cup {t}
  BY <1>1 DEF Executed
<1> QED
  BY <1>1, <1>2, <1>3, <1>4, <1>5 DEF task_entry, Queued

\* DestoryNull empties the list; Locked holds before and after.
LEMMA NullDrops ==
  ASSUME DestoryNull
  PROVE  Queued' = {} /\ Held' = Held /\ Executed' = Executed /\ Locked /\ Locked'
<1>1. DOMAIN tasks' = {}
  BY DEF DestoryNull
<1> QED
  BY <1>1 DEF DestoryNull, Queued, Held, Executed, Locked

\* All the other steps leave the tasks where they are, and of main's steps
\* only DestoryLock makes Locked true.
LEMMA OthersStay ==
  ASSUME IInv, [Next]_vars, ~PushInsert, ~DestoryNull,
         \A w \in Worker : ~WorkerTake(w) /\ ~task_entry(w)
  PROVE  /\ UNCHANGED <<tasks, held, executed, pushed>>
         /\ Locked' <=> Locked \/ DestoryLock
         /\ mpc' \notin {"mutex_destroy", "cond_destroy", "exited"}
            => mpc \notin {"mutex_destroy", "cond_destroy", "exited"}
<1>1. CASE MainCreates \/ MainPushes \/ Getchar
  BY <1>1 DEF MainCreates, CreateWorker, CreateFails, MainPushes, PushLock, PushSignal, PushUnlock,
              PushDone, Getchar, Locked, DestoryLock, mainVars
<1>2. CASE MainDestroys
  BY <1>2 DEF MainDestroys, DestoryMark, DestoryNext, DestoryLock, DestoryBroadcast, DestoryUnlock,
              DestoryMutex, DestoryCond, Locked, mainVars
<1>3. ASSUME NEW w \in Worker, WorkerSyncs(w) \/ WorkerSpuriousWakeup(w)
      PROVE  UNCHANGED <<mpc, tasks, held, executed, pushed>> /\ ~DestoryLock
  <2>1. UNCHANGED <<mpc, tasks, held, executed, pushed>>
    BY <1>3 DEF WorkerSyncs, WorkerLock, WorkerTest, WorkerRelock, WorkerCheck, WorkerUnlock,
                WorkerFree, WorkerSpuriousWakeup, mainVars
  <2> QED
    BY <2>1 DEF DestoryLock
<1>4. CASE UNCHANGED vars
  BY <1>4 DEF vars, Locked, DestoryLock
<1> QED
  BY <1>1, <1>2, <1>3, <1>4 DEF Next, Exited, Locked

\* Every task is in one place and runs at most once.
THEOREM TasksRunOnce == Spec => []ExactlyOnce
<1>1. Init => ExactlyOnce
  BY TaskSizeAssumption DEF Init, ExactlyOnce, Queued, Held, Executed, Task, NULL
<1>2. IInv /\ ExactlyOnce /\ [Next]_vars => ExactlyOnce'
  <2> SUFFICES ASSUME IInv, ExactlyOnce, [Next]_vars PROVE ExactlyOnce'
    OBVIOUS
  <2>0. /\ tasks \in Seq(Task) /\ DOMAIN tasks = 1 .. Len(tasks) /\ Len(tasks) \in Nat
        /\ pushed \in 0 .. TASKSIZE /\ TASKSIZE \in Nat
        /\ held \in [Worker -> Task \cup {NULL}] /\ executed \in [Task -> Nat]
    BY TaskSizeAssumption DEF IInv, TypeOK
  <2>1. CASE PushInsert
    <3>1. Queued' = Queued \cup {pushed + 1} /\ Held' = Held /\ Executed' = Executed
      BY <2>1, InsertQueues
    <3>2. pushed + 1 \notin Queued \cup Held \cup Executed
      BY <2>0 DEF ExactlyOnce
    <3>3. ASSUME NEW i \in DOMAIN tasks', NEW j \in DOMAIN tasks', tasks'[i] = tasks'[j]
          PROVE  i = j
      <4>1. pushed + 1 \in Task
        BY <2>0, <2>1 DEF PushInsert, IInv, MainInv, Task
      <4>2. /\ DOMAIN tasks' = 1 .. Len(tasks) + 1 /\ tasks'[1] = pushed + 1
            /\ \A k \in 1 .. Len(tasks) : tasks'[k + 1] = tasks[k]
        BY <2>0, <2>1, <4>1, InsertAtHead DEF PushInsert
      <4>3. \A k \in DOMAIN tasks' \ {1} :
              k - 1 \in DOMAIN tasks /\ tasks'[k] = tasks[k - 1] /\ tasks'[k] # pushed + 1
        <5> SUFFICES ASSUME NEW k \in DOMAIN tasks', k # 1
                     PROVE  k - 1 \in DOMAIN tasks /\ tasks'[k] = tasks[k - 1] /\ tasks'[k] # pushed + 1
          OBVIOUS
        <5>1. k - 1 \in 1 .. Len(tasks) /\ (k - 1) + 1 = k
          BY <2>0, <4>2
        <5> QED
          BY <5>1, <2>0, <4>2, <3>2 DEF Queued
      <4>4. i # 1 /\ j # 1 => i - 1 = j - 1
        BY <3>3, <4>3 DEF ExactlyOnce
      <4> QED
        BY <2>0, <3>3, <4>2, <4>3, <4>4
    <3>4. UNCHANGED <<held, executed>> /\ pushed' = pushed + 1
          /\ mpc \notin {"mutex_destroy", "cond_destroy", "exited"}
      BY <2>1 DEF PushInsert
    <3>5. 1 .. pushed + 1 = (1 .. pushed) \cup {pushed + 1}
      BY <2>0
    <3> QED
      BY <3>1, <3>2, <3>3, <3>4, <3>5 DEF ExactlyOnce
  <2>2. CASE DestoryNull
    <3>1. Queued' = {} /\ Held' = Held /\ Executed' = Executed
      BY <2>2, NullDrops
    <3>2. tasks' = <<>> /\ mpc' = "mutex_destroy" /\ UNCHANGED <<held, executed, pushed>>
      BY <2>2 DEF DestoryNull
    <3> QED
      BY <3>1, <3>2 DEF ExactlyOnce
  <2>3. ASSUME NEW w \in Worker, WorkerTake(w) PROVE ExactlyOnce'
    <3> DEFINE h == Head(tasks)
    <3>1. h \in Queued /\ Queued' = Queued \ {h} /\ Held' = Held \cup {h} /\ Executed' = Executed
      BY <2>3, TakeMoves
    <3>2. /\ DOMAIN tasks' = 1 .. Len(tasks) - 1
          /\ \A k \in 1 .. Len(tasks) - 1 : tasks'[k] = tasks[k + 1]
      BY <2>0, <2>3, RemoveHead DEF WorkerTake
    <3>3. ASSUME NEW i \in DOMAIN tasks', NEW j \in DOMAIN tasks', tasks'[i] = tasks'[j]
          PROVE  i = j
      <4>1. /\ i + 1 \in DOMAIN tasks /\ tasks[i + 1] = tasks'[i]
            /\ j + 1 \in DOMAIN tasks /\ tasks[j + 1] = tasks'[j]
        BY <2>0, <3>2
      <4>2. i + 1 = j + 1
        BY <3>3, <4>1 DEF ExactlyOnce
      <4> QED
        BY <2>0, <3>2, <4>2
    <3>4. UNCHANGED <<executed, pushed, mpc>> /\ held' = [held EXCEPT ![w] = h]
      BY <2>3 DEF WorkerTake, mainVars
    <3>5. \A v \in Worker : held[v] # NULL => held[v] # h
      BY <3>1 DEF ExactlyOnce, Held
    <3>6. \A u, v \in Worker : held'[u] = held'[v] /\ held'[u] # NULL => u = v
      BY <2>0, <3>4, <3>5 DEF ExactlyOnce
    <3> QED
      BY <3>1, <3>3, <3>4, <3>6 DEF ExactlyOnce
  <2>4. ASSUME NEW w \in Worker, task_entry(w) PROVE ExactlyOnce'
    <3>1. /\ held[w] \in Held /\ held[w] \in Task /\ executed[held[w]] = 0
          /\ Queued' = Queued /\ Held' = Held \ {held[w]}
          /\ Executed' = Executed \cup {held[w]}
      BY <2>4, EntryMoves
    <3>2. /\ UNCHANGED <<tasks, pushed, mpc>> /\ held' = [held EXCEPT ![w] = NULL]
          /\ executed' = [executed EXCEPT ![held[w]] = @ + 1]
      BY <2>4 DEF task_entry, mainVars
    <3>3. \A t \in Task : executed'[t] <= 1
      BY <2>0, <3>1, <3>2 DEF ExactlyOnce
    <3>4. \A u, v \in Worker : held'[u] = held'[v] /\ held'[u] # NULL => u = v
      BY <2>0, <3>2 DEF ExactlyOnce
    <3> QED
      BY <3>1, <3>2, <3>3, <3>4 DEF ExactlyOnce
  <2>5. CASE ~PushInsert /\ ~DestoryNull /\ \A w \in Worker : ~WorkerTake(w) /\ ~task_entry(w)
    BY <2>5, OthersStay DEF ExactlyOnce, Queued, Held, Executed
  <2> QED
    BY <2>1, <2>2, <2>3, <2>4, <2>5
<1> QED
  BY <1>1, <1>2, IInvAlways, PTL DEF Spec

-----------------------------------------------------------------------------
\* The pool implements TaskPool: PushInsert submits, WorkerTake starts,
\* task_entry finishes, DestoryLock closes, DestoryNull drops, and every other
\* step of main and of the workers is invisible.
THEOREM Refinement == Spec => ImplementsTaskPool
<1> USE DEF Abstract!Submit, Abstract!Start, Abstract!Finish, Abstract!Close, Abstract!Drop,
            Abstract!vars
<1>1. Init => Abstract!Init
  BY DEF Init, Abstract!Init, Queued, Held, Executed, Locked
<1>2. IInv /\ ExactlyOnce /\ [Next]_vars => [Abstract!Next]_(Abstract!vars)
  <2> SUFFICES ASSUME IInv, ExactlyOnce, [Next]_vars
               PROVE  Abstract!Next \/ UNCHANGED Abstract!vars
    OBVIOUS
  <2>1. CASE PushInsert
    <3>1. Queued' = Queued \cup {pushed + 1} /\ Held' = Held /\ Executed' = Executed
      BY <2>1, InsertQueues
    <3>2. pushed + 1 \in Task /\ pushed + 1 \notin Queued \cup Held \cup Executed
      BY <2>1, TaskSizeAssumption DEF PushInsert, IInv, TypeOK, MainInv, Task, ExactlyOnce
    <3>3. ~Locked /\ ~Locked'
      BY <2>1 DEF PushInsert, Locked
    <3> QED
      BY <3>1, <3>2, <3>3 DEF Abstract!Next
  <2>2. CASE DestoryNull
    BY <2>2, NullDrops DEF Abstract!Next
  <2>3. ASSUME NEW w \in Worker, WorkerTake(w) PROVE Abstract!Next
    <3>1. /\ Head(tasks) \in Queued /\ Head(tasks) \in Task
          /\ Queued' = Queued \ {Head(tasks)}
          /\ Held' = Held \cup {Head(tasks)} /\ Executed' = Executed
      BY <2>3, TakeMoves
    <3>2. ~Locked /\ ~Locked'
      BY <2>3 DEF WorkerTake, At, IInv, MutexInv, Locked
    <3> QED
      BY <3>1, <3>2 DEF Abstract!Next
  <2>4. ASSUME NEW w \in Worker, task_entry(w) PROVE Abstract!Next
    <3>1. /\ held[w] \in Held /\ held[w] \in Task
          /\ Queued' = Queued /\ Held' = Held \ {held[w]}
          /\ Executed' = Executed \cup {held[w]}
      BY <2>4, EntryMoves
    <3>2. Locked' = Locked
      BY <2>4 DEF task_entry, Locked
    <3> QED
      BY <3>1, <3>2 DEF Abstract!Next
  <2>5. CASE ~PushInsert /\ ~DestoryNull /\ \A w \in Worker : ~WorkerTake(w) /\ ~task_entry(w)
    <3>1. Queued' = Queued /\ Held' = Held /\ Executed' = Executed
          /\ (Locked' <=> Locked \/ DestoryLock)
      BY <2>5, OthersStay DEF Queued, Held, Executed
    <3>2. DestoryLock => ~Locked
      BY DEF DestoryLock, Locked
    <3> QED
      BY <3>1, <3>2 DEF Abstract!Next, Locked
  <2> QED
    BY <2>1, <2>2, <2>3, <2>4, <2>5
<1> QED
  BY <1>1, <1>2, IInvAlways, TasksRunOnce, PTL DEF Spec, Abstract!Spec, ImplementsTaskPool

-----------------------------------------------------------------------------
\* Every step of the upload is a step of the thread pool or leaves it alone:
\* task_entry's own calls are not visible to the pool.
THEOREM UploadImplementsThreadPool == UploadSpec => Spec
<1>1. UploadInit => Init
  BY DEF UploadInit
<1>2. [UploadNext]_uploadVars => [Next]_vars
  <2> SUFFICES ASSUME [UploadNext]_uploadVars PROVE [Next]_vars
    OBVIOUS
  <2>1. CASE MainStep
    BY <2>1 DEF MainStep, Next
  <2>2. ASSUME NEW w \in Worker, WorkerStep(w) PROVE [Next]_vars
    BY <2>2 DEF WorkerStep, Next
  <2>3. ASSUME NEW w \in Worker, EntryGet(w) \/ EntryWrite(w) \/ EntryRelease(w) PROVE [Next]_vars
    BY <2>3 DEF EntryGet, EntryWrite, EntryRelease
  <2>4. ASSUME NEW w \in Worker, EntryEnd(w) PROVE [Next]_vars
    BY <2>4 DEF EntryEnd, Next
  <2>5. CASE UNCHANGED uploadVars
    BY <2>5 DEF uploadVars
  <2> QED
    BY <2>1, <2>2, <2>3, <2>4, <2>5 DEF UploadNext, Ended
<1> QED
  BY <1>1, <1>2, PTL DEF UploadSpec, Spec

\* In the same way the workers are clients of the connection pool, so that no
\* two of them ever write with the same connection.
THEOREM UploadImplementsConnPool == UploadSpec => CP!Spec
<1>1. UploadInit => CP!init_conn_pool
  BY DEF UploadInit
<1>2. [UploadNext]_uploadVars => [CP!Next]_(CP!vars)
  <2> SUFFICES ASSUME [UploadNext]_uploadVars PROVE [CP!Next]_(CP!vars)
    OBVIOUS
  <2> USE DEF CP!vars, poolVars
  <2>1. CASE MainStep
    BY <2>1 DEF MainStep
  <2>2. ASSUME NEW w \in Worker, WorkerStep(w) \/ EntryWrite(w) \/ EntryEnd(w)
        PROVE  UNCHANGED poolVars
    BY <2>2 DEF WorkerStep, EntryWrite, EntryEnd
  <2>3. ASSUME NEW w \in Worker, EntryGet(w) \/ EntryRelease(w) PROVE CP!Next
    BY <2>3 DEF EntryGet, EntryRelease, CP!Next
  <2>4. CASE UNCHANGED uploadVars
    BY <2>4 DEF uploadVars
  <2> QED
    BY <2>1, <2>2, <2>3, <2>4 DEF UploadNext, Ended
<1> QED
  BY <1>1, <1>2, PTL DEF UploadSpec, CP!Spec

-----------------------------------------------------------------------------
(***************************************************************************)
(* The inductive invariant of UploadsSafe.  A worker that could not get a  *)
(* connection ends the process before it comes to give anything back: so   *)
(* what is given back is never NULL (NullGoesNoFurther), and no slot of a  *)
(* connection that failed is freed in the place of another.                *)
(***************************************************************************)
NullGoesNoFurther == \A w \in holding : held[w] \in stored => conn[w] # CP!NULL
NoNull == EnoughConnections => ~crashed /\ \A w \in holding : conn[w] # CP!NULL

UploadInv == UploadTypeOK /\ NoConnectionKept /\ NullGoesNoFurther /\ NoNull

\* A worker is only refused when every slot is used, and then one of the
\* others has each of the connections: with every connection made and enough
\* of them, the others would have to be more than there are.
LEMMA OneIsLeft ==
  ASSUME CONNECTION_POOL_SIZE \in Nat \ {0}, IInv, ExactlyOnce, UploadInv, EnoughConnections,
         NEW w \in Worker, w \notin holding, wpc[w] = "run"
  PROVE  \E i \in CP!Slot : ~used[i]
<1> SUFFICES ASSUME \A i \in CP!Slot : used[i] PROVE FALSE
  OBVIOUS
<1>1. /\ LastWorker \in Nat \ {0} /\ TASKSIZE \in Nat
      /\ held \in [Worker -> Task \cup {NULL}] /\ holding \subseteq Worker
      /\ \A v \in Worker : v \in holding \/ v = w => held[v] \in Task
  BY WorkersExist, TaskSizeAssumption
  DEF UploadInv, UploadTypeOK, TypeOK, CP!TypeOK, IInv, WorkerInv, NoConnectionKept
<1>2. IsFiniteSet(holding) /\ Cardinality(holding) < CONNECTION_POOL_SIZE
  <2>1. CASE CONNECTION_POOL_SIZE >= LastWorker
    <3>1. IsFiniteSet(Worker) /\ Cardinality(Worker) = LastWorker
      BY <1>1, FS_Interval DEF Worker
    <3>2. IsFiniteSet(Worker \ {w}) /\ Cardinality(Worker \ {w}) = LastWorker - 1
      BY <3>1, FS_RemoveElement
    <3>3. holding \in SUBSET (Worker \ {w})
      BY <1>1
    <3>4. IsFiniteSet(holding) /\ Cardinality(holding) <= LastWorker - 1
      BY <3>2, <3>3, FS_Subset
    <3> QED
      BY <1>1, <2>1, <3>4, FS_CardinalityType
  <2>2. CASE CONNECTION_POOL_SIZE >= TASKSIZE
    <3> DEFINE T == Task \ {held[w]}
               f == [v \in holding |-> held[v]]
    <3>1. IsFiniteSet(Task) /\ Cardinality(Task) = TASKSIZE
      BY <1>1, FS_Interval DEF Task
    <3>2. IsFiniteSet(T) /\ Cardinality(T) = TASKSIZE - 1
      BY <1>1, <3>1, FS_RemoveElement
    <3>3. \A u, v \in holding \cup {w} : held[u] = held[v] => u = v
      BY <1>1 DEF ExactlyOnce, Task, NULL
    <3>4. f \in Injection(holding, T)
      BY <1>1, <3>3 DEF Injection, IsInjective
    <3> HIDE DEF T, f
    <3>5. IsFiniteSet(holding) /\ Cardinality(holding) <= TASKSIZE - 1
      BY <3>2, <3>4, FS_Injection
    <3> QED
      BY <1>1, <2>2, <3>5, FS_CardinalityType
  <2> QED
    BY <2>1, <2>2 DEF EnoughConnections
<1>3. IsFiniteSet(CP!Slot) /\ Cardinality(CP!Slot) = CONNECTION_POOL_SIZE
  BY FS_Interval DEF CP!Slot
<1>4. \A i \in CP!Slot : \E v \in holding : conn[v] = i
  BY DEF UploadInv, UploadTypeOK, CP!TypeOK, EnoughConnections, NoConnectionKept
<1> DEFINE g == [i \in CP!Slot |-> CHOOSE v \in holding : conn[v] = i]
<1>5. g \in [CP!Slot -> holding] /\ \A i \in CP!Slot : conn[g[i]] = i
  BY <1>4
<1> HIDE DEF g
<1>6. \E i, j \in CP!Slot : i # j /\ g[i] = g[j]
  BY <1>2, <1>3, <1>5, FS_PigeonHole
<1> QED
  BY <1>5, <1>6

LEMMA UploadInvInit == CONNECTION_POOL_SIZE \in Nat \ {0} /\ UploadInit => UploadInv
<1> SUFFICES ASSUME CONNECTION_POOL_SIZE \in Nat \ {0}, UploadInit PROVE UploadInv
  OBVIOUS
<1>1. TypeOK
  BY WorkersExist, TaskSizeAssumption
  DEF UploadInit, Init, TypeOK, MainPC, WorkerPC, NULL, Main, Free, Destroyed, Task, Worker
<1>2. CP!TypeOK
  BY DEF UploadInit, CP!init_conn_pool, CP!TypeOK, CP!NULL
<1> QED
  BY <1>1, <1>2 DEF UploadInit, CP!init_conn_pool, UploadInv, UploadTypeOK, NoConnectionKept,
                    NullGoesNoFurther, NoNull

\* The steps of main and of the workers outside task_entry, and the end of
\* task_entry, are steps of workers that have no connection.
LEMMA ConnectionsLeftAlone ==
  ASSUME UploadInv, TypeOK', UNCHANGED <<poolVars, stored, crashed>>,
         \A w \in holding : wpc'[w] = "run" /\ held'[w] = held[w]
  PROVE  UploadInv'
  BY DEF UploadInv, UploadTypeOK, CP!TypeOK, NoConnectionKept, NullGoesNoFurther, NoNull,
         EnoughConnections, poolVars

\* No step outside task_entry moves a worker that is inside.
LEMMA RunningStays ==
  ASSUME IInv, MainStep \/ \E w \in Worker : WorkerStep(w),
         NEW v \in Worker, wpc[v] = "run"
  PROVE  wpc'[v] = "run" /\ held'[v] = held[v]
<1> USE DEF IInv, TypeOK, At
<1>1. CASE MainStep /\ CreateWorker
  <2>1. ~Born(workers + 1) /\ workers + 1 # v
    BY <1>1, WorkersExist DEF CreateWorker, MainInv, Worker, NULL, Born
  <2> QED
    BY <1>1, <2>1 DEF CreateWorker
<1>2. CASE MainStep /\ ~CreateWorker
  BY <1>2 DEF MainStep, MainCreates, CreateFails, MainPushes, PushLock, PushInsert, PushSignal,
              PushUnlock, PushDone, pthread_cond_signal, Getchar,
              MainDestroys, DestoryMark, DestoryNext, DestoryLock, DestoryBroadcast,
              DestoryUnlock, DestoryNull, DestoryMutex, DestoryCond, pthread_cond_broadcast
<1>3. ASSUME NEW w \in Worker, WorkerStep(w)
      PROVE  wpc'[v] = "run" /\ held'[v] = held[v]
  BY <1>3 DEF WorkerStep, WorkerSyncs, WorkerLock, WorkerTest, WorkerRelock, WorkerCheck,
              WorkerTake, WorkerUnlock, WorkerFree, WorkerSpuriousWakeup
<1> QED
  BY <1>1, <1>2, <1>3

LEMMA UploadInvStep ==
  ASSUME CONNECTION_POOL_SIZE \in Nat \ {0}, IInv, IInv', ExactlyOnce, UploadInv,
         [UploadNext]_uploadVars
  PROVE  UploadInv'
<1>0. TypeOK /\ TypeOK'
  BY DEF IInv
<1>1. CASE MainStep \/ \E w \in Worker : WorkerStep(w)
  <2>1. UNCHANGED <<poolVars, stored, crashed>>
    BY <1>1 DEF MainStep, WorkerStep
  <2>2. \A w \in holding : wpc'[w] = "run" /\ held'[w] = held[w]
    BY <1>1, RunningStays DEF UploadInv, UploadTypeOK, CP!TypeOK, NoConnectionKept
  <2> QED
    BY <1>0, <2>1, <2>2, ConnectionsLeftAlone
<1>2. ASSUME NEW w \in Worker, EntryGet(w) PROVE UploadInv'
  <2>1. UNCHANGED <<wpc, held, stored, crashed, conns>> /\ holding' = holding \cup {w}
        /\ wpc[w] = "run" /\ w \notin holding /\ held[w] \notin stored
    BY <1>2 DEF EntryGet, Running, At, CP!get_conn, vars
  <2>2. CP!TypeOK /\ CP!TypeOK'
    BY <1>2 DEF EntryGet, CP!get_conn, UploadInv, UploadTypeOK, CP!TypeOK
  <2>3. \A v \in Worker \ {w} : conn'[v] = conn[v]
    BY <1>2, <2>2 DEF EntryGet, CP!get_conn, CP!TypeOK
  <2>4. UploadTypeOK'
    BY <1>0, <2>1, <2>2 DEF UploadInv, UploadTypeOK
  <2>5. ASSUME NEW i \in CP!Slot, used'[i]
        PROVE  \E v \in holding' : conn'[v] = conns'[i]
    <3>1. CASE used[i]
      <4>1. PICK v \in holding : conn[v] = conns[i]
        BY <3>1 DEF UploadInv, NoConnectionKept
      <4> QED
        BY <2>1, <2>2, <2>3, <4>1 DEF CP!TypeOK
    <3>2. CASE ~used[i]
      <4>1. PICK j \in CP!Slot : used' = [used EXCEPT ![j] = TRUE] /\ conn' = [conn EXCEPT ![w] = conns[j]]
        BY <1>2, <3>2 DEF EntryGet, CP!get_conn
      <4>2. i = j
        BY <2>2, <2>5, <3>2, <4>1 DEF CP!TypeOK
      <4> QED
        BY <2>1, <2>2, <4>1, <4>2 DEF CP!TypeOK
    <3> QED
      BY <3>1, <3>2
  <2>6. NoConnectionKept'
    BY <2>1, <2>5 DEF UploadInv, NoConnectionKept
  <2>7. NullGoesNoFurther'
    BY <2>1, <2>2, <2>3 DEF UploadInv, CP!TypeOK, NullGoesNoFurther
  <2>8. EnoughConnections => conn'[w] # CP!NULL
    <3> SUFFICES ASSUME EnoughConnections PROVE conn'[w] # CP!NULL
      OBVIOUS
    <3>1. PICK i \in CP!Slot : ~used[i]
      BY <2>1, OneIsLeft
    <3>2. PICK j \in CP!Slot : conn' = [conn EXCEPT ![w] = conns[j]]
      BY <1>2, <3>1 DEF EntryGet, CP!get_conn
    <3> QED
      BY <2>2, <3>2 DEF CP!TypeOK, EnoughConnections
  <2>9. NoNull'
    BY <2>1, <2>2, <2>3, <2>8 DEF UploadInv, CP!TypeOK, NoNull, EnoughConnections
  <2> QED
    BY <2>4, <2>6, <2>7, <2>9 DEF UploadInv
<1>3. ASSUME NEW w \in Worker, EntryWrite(w) PROVE UploadInv'
  <2>1. UNCHANGED <<wpc, held, poolVars>> /\ w \in holding /\ wpc[w] = "run"
    BY <1>3 DEF EntryWrite, Running, At, vars
  <2>2. held[w] \in Task
    BY <2>1 DEF IInv, TypeOK, WorkerInv
  <2>3. \A v \in holding : held[v] = held[w] => v = w
    BY <2>1, <2>2 DEF ExactlyOnce, UploadInv, UploadTypeOK, CP!TypeOK, Task, NULL
  <2>4. stored' \in SUBSET Task /\ crashed' \in BOOLEAN
    BY <1>3, <2>2 DEF EntryWrite, UploadInv, UploadTypeOK
  <2>5. UploadTypeOK'
    BY <1>0, <2>1, <2>4 DEF poolVars, UploadInv, UploadTypeOK, CP!TypeOK
  <2>6. NoConnectionKept'
    BY <2>1 DEF poolVars, UploadInv, NoConnectionKept
  <2>7. NullGoesNoFurther'
    BY <1>3, <2>1, <2>3 DEF EntryWrite, poolVars, UploadInv, NullGoesNoFurther
  <2>8. NoNull'
    BY <1>3, <2>1 DEF EntryWrite, poolVars, UploadInv, NoNull, EnoughConnections
  <2> QED
    BY <2>5, <2>6, <2>7, <2>8 DEF UploadInv
<1>4. ASSUME NEW w \in Worker, EntryRelease(w) PROVE UploadInv'
  <2>1. UNCHANGED <<wpc, held, stored, crashed, conns>> /\ holding' = holding \ {w}
        /\ w \in holding /\ conn[w] # CP!NULL /\ conn' = [conn EXCEPT ![w] = CP!NULL]
    BY <1>4 DEF EntryRelease, CP!release_conn, UploadInv, NullGoesNoFurther, vars
  <2>2. CP!TypeOK /\ CP!TypeOK'
    BY <1>4 DEF EntryRelease, CP!release_conn, UploadInv, UploadTypeOK, CP!TypeOK
  <2>3. ASSUME NEW i \in CP!Slot, used'[i]
        PROVE  \E v \in holding' : conn'[v] = conns'[i]
    <3>1. used[i] /\ (conns[i] = conn[w] => ~used'[i])
      BY <1>4, <2>1, <2>2, <2>3
      DEF EntryRelease, CP!release_conn, CP!TypeOK, CP!IsFirst, CP!NULL
    <3>2. PICK v \in holding : conn[v] = conns[i]
      BY <3>1 DEF UploadInv, NoConnectionKept
    <3> QED
      BY <2>1, <2>2, <2>3, <3>1, <3>2 DEF CP!TypeOK
  <2>4. UploadTypeOK'
    BY <1>0, <2>1, <2>2 DEF UploadInv, UploadTypeOK
  <2>5. NoConnectionKept'
    BY <2>1, <2>3 DEF UploadInv, NoConnectionKept
  <2>6. NullGoesNoFurther' /\ NoNull'
    BY <2>1, <2>2 DEF UploadInv, CP!TypeOK, NullGoesNoFurther, NoNull, EnoughConnections
  <2> QED
    BY <2>4, <2>5, <2>6 DEF UploadInv
<1>5. ASSUME NEW w \in Worker, EntryEnd(w) PROVE UploadInv'
  <2>1. UNCHANGED <<poolVars, stored, crashed>> /\ w \notin holding
    BY <1>5 DEF EntryEnd
  <2>2. \A v \in holding : wpc'[v] = "run" /\ held'[v] = held[v]
    BY <1>0, <1>5, <2>1
    DEF EntryEnd, task_entry, TypeOK, UploadInv, UploadTypeOK, CP!TypeOK, NoConnectionKept
  <2> QED
    BY <1>0, <2>1, <2>2, ConnectionsLeftAlone
<1>6. CASE UNCHANGED uploadVars
  BY <1>0, <1>6, ConnectionsLeftAlone
  DEF uploadVars, vars, UploadInv, UploadTypeOK, CP!TypeOK, NoConnectionKept
<1> QED
  BY <1>1, <1>2, <1>3, <1>4, <1>5, <1>6 DEF UploadNext, Ended

\* task_entry gives every connection back on each of its paths, also while the
\* thread pool is being destroyed, and with one connection for each task or
\* for each worker none of them writes with NULL.
THEOREM UploadIsSafe ==
  ASSUME CONNECTION_POOL_SIZE \in Nat \ {0}
  PROVE  UploadSpec => []UploadsSafe
<1>1. UploadInit => UploadInv
  BY UploadInvInit
<1>2. IInv /\ IInv' /\ ExactlyOnce /\ UploadInv /\ [UploadNext]_uploadVars => UploadInv'
  BY UploadInvStep
<1>3. UploadInv => UploadsSafe
  BY DEF UploadInv, UploadsSafe, NoNull, NoCrash
<1> QED
  BY <1>1, <1>2, <1>3, UploadImplementsThreadPool, IInvAlways, TasksRunOnce, PTL DEF UploadSpec
=============================================================================
