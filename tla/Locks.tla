-------------------------------- MODULE Locks ---------------------------------
(***************************************************************************)
(* The programs CAS.c, Atomic.c, MutexLock.c and SpinLock.c: main creates  *)
(* threads that each add 1 to one counter NUMBER times, prints the counter *)
(* now and then, and returns after a while, which ends the threads.        *)
(*                                                                         *)
(* A mutex that is not free and a spin lock that is not free make no       *)
(* difference here: the thread does not get past the call.                 *)
(***************************************************************************)
EXTENDS Integers, FiniteSets

CONSTANTS
  PTHREADCOUNT,
  NUMBER         \* how often each thread adds 1

Thread == 1 .. PTHREADCOUNT
Free == 0

VARIABLES
  way,      \* the program
  count,    \* count or number, in main
  created,  \* how many turns main's loop has made
  pc,       \* where each thread is
  old,      \* the value it has read
  done,     \* how often it has added
  lock      \* mutex or spinlock: its owner, or Free

lockVars == <<way, count, created, pc, old, done, lock>>

LocksInit ==
  /\ way \in {"CAS", "Atomic", "MutexLock", "SpinLock"}
  /\ count = 0 /\ created = 0 /\ lock = Free
  /\ pc = [t \in Thread |-> "unborn"]
  /\ old = [t \in Thread |-> 0] /\ done = [t \in Thread |-> 0]

Exited == created > PTHREADCOUNT
At(t, p) == pc[t] = p /\ ~Exited
Added(t) == done' = [done EXCEPT ![t] = @ + 1]

\* The loop goes on when a thread could not be created.
Create ==
  /\ created < PTHREADCOUNT
  /\ created' = created + 1
  /\ \E p \in {"loop", "unborn"} : pc' = [pc EXCEPT ![created'] = p]
  /\ UNCHANGED <<way, count, old, done, lock>>

\* Main has printed for the last time, however far the threads have come.
Return == created = PTHREADCOUNT /\ created' = created + 1 /\ UNCHANGED <<way, count, pc, old, done, lock>>

(***************************************************************************)
(* CAS.c.                                                                  *)
(***************************************************************************)
AddReads(t) ==
  /\ way = "CAS" /\ At(t, "loop") /\ done[t] < NUMBER
  /\ old' = [old EXCEPT ![t] = count] /\ pc' = [pc EXCEPT ![t] = "cas"]
  /\ UNCHANGED <<way, count, created, done, lock>>

\* cmpxchgl stores its operand %2, which is expected_val, and not new_val.
CAS(addr, expected_val, new_val) ==
  IF addr = expected_val THEN [success |-> TRUE, addr |-> expected_val]
                         ELSE [success |-> FALSE, addr |-> addr]

AddSwaps(t) ==
  LET r == CAS(count, old[t], old[t] + 1) IN
  /\ At(t, "cas")
  /\ count' = r.addr /\ pc' = [pc EXCEPT ![t] = "loop"]
  /\ IF r.success THEN Added(t) ELSE UNCHANGED done
  /\ UNCHANGED <<way, created, old, lock>>

(***************************************************************************)
(* Atomic.c.                                                               *)
(***************************************************************************)
\* xaddl adds its operand %2, and leaves the old value in eax.
Inc(t) ==
  /\ way = "Atomic" /\ At(t, "loop") /\ done[t] < NUMBER
  /\ count' = count + 1 /\ Added(t)
  /\ UNCHANGED <<way, created, pc, old, lock>>

(***************************************************************************)
(* MutexLock.c and SpinLock.c.                                             *)
(***************************************************************************)
\* Fault: the lock is taken whoever has it.
Lock_Any(t) ==
  /\ way \in {"MutexLock", "SpinLock"} /\ At(t, "loop") /\ done[t] < NUMBER
  /\ lock' = t /\ pc' = [pc EXCEPT ![t] = "load"]
  /\ UNCHANGED <<way, count, created, old, done>>

Lock(t) ==
  /\ way \in {"MutexLock", "SpinLock"} /\ At(t, "loop") /\ done[t] < NUMBER
  /\ lock = Free /\ lock' = t
  /\ pc' = [pc EXCEPT ![t] = "load"]
  /\ UNCHANGED <<way, count, created, old, done>>

Load(t) ==
  /\ At(t, "load")
  /\ old' = [old EXCEPT ![t] = count] /\ pc' = [pc EXCEPT ![t] = "store"]
  /\ UNCHANGED <<way, count, created, done, lock>>

Store(t) ==
  /\ At(t, "store")
  /\ count' = old[t] + 1 /\ Added(t)
  /\ pc' = [pc EXCEPT ![t] = "unlock"]
  /\ UNCHANGED <<way, created, old, lock>>

\* Fault: a thread that has added for the last time does not unlock.
Unlock_NotLast(t) ==
  /\ At(t, "unlock")
  /\ lock' = IF done[t] = NUMBER THEN lock ELSE Free
  /\ pc' = [pc EXCEPT ![t] = "loop"]
  /\ UNCHANGED <<way, count, created, old, done>>

Unlock(t) ==
  /\ At(t, "unlock")
  /\ lock' = Free /\ pc' = [pc EXCEPT ![t] = "loop"]
  /\ UNCHANGED <<way, count, created, old, done>>

Runs(t) == AddReads(t) \/ AddSwaps(t) \/ Inc(t) \/ Lock(t) \/ Load(t) \/ Store(t) \/ Unlock(t)
Ended == Exited /\ UNCHANGED lockVars

LocksNext == Create \/ Return \/ (\E t \in Thread : Runs(t)) \/ Ended

\* The threads go on; main may be asleep for as long as they need.
LocksFairness == WF_lockVars(Create) /\ \A t \in Thread : WF_lockVars(Runs(t))
LocksSpec == LocksInit /\ [][LocksNext]_lockVars /\ LocksFairness
--------------------------------------------------------------------------------
LocksTypeOK ==
  /\ way \in {"CAS", "Atomic", "MutexLock", "SpinLock"}
  /\ count \in 0 .. PTHREADCOUNT * NUMBER /\ created \in 0 .. PTHREADCOUNT + 1
  /\ pc \in [Thread -> {"unborn", "loop", "cas", "load", "store", "unlock"}]
  /\ old \in [Thread -> 0 .. PTHREADCOUNT * NUMBER] /\ done \in [Thread -> 0 .. NUMBER]
  /\ lock \in Thread \cup {Free}

\* What the threads have added: the k-th addition of thread t is <<t, k>>.
Additions == {a \in Thread \X (1 .. NUMBER) : a[2] <= done[a[1]]}

\* The counter is what the threads have added so far, in whatever way they
\* exclude each other and wherever they are: nothing that was added is lost.
EveryAddCounts == count = Cardinality(Additions)
AddsCount == way # "CAS" => EveryAddCounts
LocksCount == LocksTypeOK /\ AddsCount

\* Every thread comes to its end unless main returns first: nobody waits for
\* a lock for ever.
Finished(t) == pc[t] = "loop" /\ done[t] = NUMBER
AllFinish == \A t \in Thread : pc[t] = "loop" ~> Finished(t) \/ Exited
================================================================================
