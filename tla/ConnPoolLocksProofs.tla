------------------------- MODULE ConnPoolLocksProofs -------------------------
(***************************************************************************)
(* Theorems about ConnPool, for every size of the pool and every set of    *)
(* clients, and whichever connections failed; and about Locks, for every   *)
(* number of threads and of additions.  Both are about a few threads that  *)
(* share something under a lock.                                           *)
(***************************************************************************)
EXTENDS ConnPool, Locks, FiniteSetTheorems, TLAPS

-----------------------------------------------------------------------------
(***************************************************************************)
(* The connection pool.                                                    *)
(***************************************************************************)

\* Every variable keeps its type: no failed slot ever holds a handle and no
\* handle moves to another slot.
THEOREM TypeCorrect == Spec => []TypeOK
<1>1. init_conn_pool => TypeOK
  BY DEF init_conn_pool, TypeOK, NULL
<1>2. TypeOK /\ [Next]_vars => TypeOK'
  <2> SUFFICES ASSUME TypeOK, [Next]_vars PROVE TypeOK'
    OBVIOUS
  <2>1. ASSUME NEW c \in Client, get_conn(c) PROVE TypeOK'
    BY <2>1 DEF TypeOK, get_conn
  <2>2. ASSUME NEW c \in Client, release_conn(c) PROVE TypeOK'
    BY <2>2 DEF TypeOK, release_conn
  <2>3. CASE UNCHANGED vars
    BY <2>3 DEF TypeOK, vars
  <2> QED
    BY <2>1, <2>2, <2>3 DEF Next
<1> QED
  BY <1>1, <1>2, PTL DEF Spec

\* A connection is marked used exactly while one client has it, and so no two
\* clients ever have the same: the clients may be more than the slots, slots
\* may have failed, and clients may give back the NULL they got.
THEOREM ConnectionsSafe == Spec => []PoolSafe
<1>1. init_conn_pool => PoolSafe
  BY DEF init_conn_pool, PoolSafe, UsedIsHeld, ExclusiveConnection
<1>2. TypeOK /\ PoolSafe /\ [Next]_vars => PoolSafe'
  <2> SUFFICES ASSUME TypeOK, PoolSafe, [Next]_vars PROVE PoolSafe'
    OBVIOUS
  <2> USE DEF TypeOK, PoolSafe, UsedIsHeld, ExclusiveConnection
  <2>1. ASSUME NEW c \in Client, get_conn(c) PROVE PoolSafe'
    <3> DEFINE unused == {i \in Slot : ~used[i]}
    <3>1. ASSUME NEW i \in unused,
                 used' = [used EXCEPT ![i] = TRUE], conn' = [conn EXCEPT ![c] = conns[i]]
          PROVE  PoolSafe'
      <4>1. conns[i] # NULL => \A d \in holding : conn[d] # i
        BY DEF NULL, Slot
      <4>2. ExclusiveConnection'
        BY <2>1, <3>1, <4>1 DEF get_conn
      <4>3. UsedIsHeld'
        BY <2>1, <3>1 DEF get_conn, NULL, Slot
      <4> QED
        BY <4>2, <4>3
    <3>2. ASSUME unused = {}, conn' = [conn EXCEPT ![c] = NULL], UNCHANGED used
          PROVE  PoolSafe'
      BY <2>1, <3>2 DEF get_conn, NULL, Slot
    <3> QED
      BY <2>1, <3>1, <3>2 DEF get_conn
  <2>2. ASSUME NEW c \in Client, release_conn(c) PROVE PoolSafe'
    <3>1. ExclusiveConnection'
      BY <2>2 DEF release_conn
    <3>2. /\ \A d \in Client : conn'[d] = IF d = c THEN NULL ELSE conn[d]
          /\ holding' = holding \ {c} /\ c \in holding /\ conns' = conns
      BY <2>2 DEF release_conn
    <3>3. \A i \in Slot : conns[i] # NULL => (conns[i] = conn[c] <=> i = conn[c])
      OBVIOUS
    <3>4. \A i \in Slot : conns[i] # NULL /\ i # conn[c] => used'[i] = used[i]
      BY <2>2, <3>3 DEF release_conn
    <3>5. conn[c] \in Slot /\ conns[conn[c]] # NULL => used'[conn[c]] = FALSE
      BY <2>2, <3>3 DEF release_conn, NULL, Slot
    <3>6. ASSUME NEW i \in Slot, conns[i] # NULL
          PROVE  used'[i] <=> \E d \in holding' : conn'[d] = i
      <4>1. NULL # i
        BY DEF NULL, Slot
      <4>2. CASE i = conn[c]
        BY <3>2, <3>5, <3>6, <4>1, <4>2
      <4>3. CASE i # conn[c]
        BY <3>2, <3>4, <3>6, <4>1, <4>3
      <4> QED
        BY <4>2, <4>3
    <3>7. UsedIsHeld'
      BY <3>2, <3>6
    <3> QED
      BY <3>1, <3>7
  <2>3. CASE UNCHANGED vars
    BY <2>3 DEF vars
  <2> QED
    BY <2>1, <2>2, <2>3 DEF Next
<1> QED
  BY <1>1, <1>2, TypeCorrect, PTL DEF Spec

-----------------------------------------------------------------------------
(***************************************************************************)
(* The programs that add to one counter.                                   *)
(***************************************************************************)

Excluded == {"load", "store", "unlock"}

(***************************************************************************)
(* Nothing is lost because the value that a thread is about to store one   *)
(* more than is still the counter's: between Load and Store the thread     *)
(* owns the lock, and who stores owns it too.  In CAS.c the counter never  *)
(* changes, for all that the threads do.  NotYet is what lets a thread be  *)
(* created: the one main creates next has nothing of all this yet.         *)
(***************************************************************************)
MutualExclusion == \A t \in Thread : pc[t] \in Excluded <=> lock = t
ReadIsCurrent == \A t \in Thread : pc[t] \in {"store", "cas"} => old[t] = count
StillToAdd == \A t \in Thread : pc[t] \in {"load", "store", "cas"} => done[t] < NUMBER
OwnWay ==
  /\ \A t \in Thread : (pc[t] \in Excluded => way \in {"MutexLock", "SpinLock"})
                    /\ (pc[t] = "cas" => way = "CAS")
  /\ way = "CAS" => count = 0
NotYet == \A t \in Thread : t > created => pc[t] = "unborn"

IInv == LocksTypeOK /\ NotYet /\ MutualExclusion /\ ReadIsCurrent /\ StillToAdd /\ OwnWay /\ AddsCount

\* The additions are finitely many, at most NUMBER for each thread.
LEMMA AdditionsFinite ==
  ASSUME PTHREADCOUNT \in Nat, NUMBER \in Nat
  PROVE  /\ IsFiniteSet(Additions)
         /\ Cardinality(Additions) \in 0 .. PTHREADCOUNT * NUMBER
<1> DEFINE All == Thread \X (1 .. NUMBER)
<1>1. IsFiniteSet(Thread) /\ Cardinality(Thread) = PTHREADCOUNT
  BY FS_Interval DEF Thread
<1>2. IsFiniteSet(1 .. NUMBER) /\ Cardinality(1 .. NUMBER) = NUMBER
  BY FS_Interval
<1>3. IsFiniteSet(All) /\ Cardinality(All) = PTHREADCOUNT * NUMBER
  BY <1>1, <1>2, FS_Product
<1>4. Additions \in SUBSET All
  BY DEF Additions
<1>5. IsFiniteSet(Additions) /\ Cardinality(Additions) <= Cardinality(All)
  BY <1>3, <1>4, FS_Subset
<1>6. Cardinality(Additions) \in Nat
  BY <1>5, FS_CardinalityType
<1> QED
  BY <1>3, <1>5, <1>6

\* A thread that adds makes the additions one more.
LEMMA OneMore ==
  ASSUME PTHREADCOUNT \in Nat, NUMBER \in Nat, LocksTypeOK,
         NEW t \in Thread, done[t] < NUMBER, Added(t)
  PROVE  Cardinality(Additions)' = Cardinality(Additions) + 1
<1> DEFINE a == <<t, done[t] + 1>>
<1>1. done \in [Thread -> 0 .. NUMBER] /\ done' = [done EXCEPT ![t] = @ + 1]
  BY DEF LocksTypeOK, Added
<1>2. a \notin Additions
  BY <1>1 DEF Additions
<1>3. Additions' = Additions \cup {a}
  <2>1. ASSUME NEW u \in Thread, NEW k \in 1 .. NUMBER
        PROVE  k <= done'[u] <=> k <= done[u] \/ <<u, k>> = a
    BY <1>1
  <2> QED
    BY <1>1, <2>1 DEF Additions
<1> HIDE DEF a
<1>4. Cardinality(Additions \cup {a}) = Cardinality(Additions) + 1
  BY <1>2, AdditionsFinite, FS_AddElement
<1> QED
  BY <1>3, <1>4
--------------------------------------------------------------------------------
\* At the beginning nothing has been added and nobody has the lock.
LEMMA InitIInv ==
  ASSUME PTHREADCOUNT \in Nat, NUMBER \in Nat, LocksInit
  PROVE  IInv
<1>1. Additions = {}
  BY DEF LocksInit, Additions
<1>2. Cardinality({}) = 0
  BY FS_EmptySet
<1>3. 0 \in 0 .. PTHREADCOUNT * NUMBER /\ 0 \in 0 .. PTHREADCOUNT + 1 /\ 0 \in 0 .. NUMBER
  OBVIOUS
<1>4. LocksTypeOK
  BY <1>3 DEF LocksInit, LocksTypeOK
<1>5. NotYet /\ MutualExclusion /\ ReadIsCurrent /\ StillToAdd /\ OwnWay
  BY DEF LocksInit, NotYet, MutualExclusion, ReadIsCurrent, StillToAdd, OwnWay, Excluded, Thread, Free
<1>6. AddsCount
  BY <1>1, <1>2 DEF LocksInit, AddsCount, EveryAddCounts
<1> QED
  BY <1>4, <1>5, <1>6 DEF IInv

\* A thread that adds with count' = count + 1 keeps the sum, and the counter
\* within its bound.
LEMMA AddedCounts ==
  ASSUME PTHREADCOUNT \in Nat, NUMBER \in Nat, LocksTypeOK, AddsCount, way # "CAS", way' = way,
         NEW t \in Thread, done[t] < NUMBER, Added(t), count' = count + 1
  PROVE  AddsCount' /\ count' \in 0 .. PTHREADCOUNT * NUMBER /\ done' \in [Thread -> 0 .. NUMBER]
<1>1. done' \in [Thread -> 0 .. NUMBER]
  BY DEF LocksTypeOK, Added
<1>2. count' = Cardinality(Additions)'
  BY OneMore DEF AddsCount, EveryAddCounts
<1>3. Cardinality(Additions)' \in 0 .. PTHREADCOUNT * NUMBER
  <2> SUFFICES Cardinality(Additions') \in 0 .. PTHREADCOUNT * NUMBER
    OBVIOUS
  <2>1. IsFiniteSet(Thread \X (1 .. NUMBER)) /\ Cardinality(Thread \X (1 .. NUMBER)) = PTHREADCOUNT * NUMBER
    <3>1. IsFiniteSet(Thread) /\ Cardinality(Thread) = PTHREADCOUNT
      BY FS_Interval DEF Thread
    <3>2. IsFiniteSet(1 .. NUMBER) /\ Cardinality(1 .. NUMBER) = NUMBER
      BY FS_Interval
    <3> QED
      BY <3>1, <3>2, FS_Product
  <2>2. Additions' \in SUBSET (Thread \X (1 .. NUMBER))
    BY DEF Additions
  <2>3. IsFiniteSet(Additions') /\ Cardinality(Additions') <= PTHREADCOUNT * NUMBER
    BY <2>1, <2>2, FS_Subset
  <2> QED
    BY <2>3, FS_CardinalityType
<1> QED
  BY <1>1, <1>2, <1>3 DEF AddsCount, EveryAddCounts

\* Every step keeps the invariant.
LEMMA NextIInv ==
  ASSUME PTHREADCOUNT \in Nat, NUMBER \in Nat, IInv, [LocksNext]_lockVars
  PROVE  IInv'
<1> DEFINE Rest == NotYet /\ MutualExclusion /\ ReadIsCurrent /\ StillToAdd /\ OwnWay
<1> USE DEF IInv
<1>1. ASSUME done' = done, count' = count, way' = way
      PROVE  AddsCount'
  BY <1>1 DEF AddsCount, EveryAddCounts, Additions
<1>2. CASE Create
  <2>1. created' \in Thread /\ pc[created'] = "unborn"
    BY <1>2 DEF Create, LocksTypeOK, Thread, NotYet
  <2>2. PICK p \in {"loop", "unborn"} : pc' = [pc EXCEPT ![created'] = p]
    BY <1>2 DEF Create
  <2>3. LocksTypeOK'
    BY <1>2, <2>1, <2>2 DEF Create, LocksTypeOK, Thread, Free
  <2>4. (Rest)'
    BY <1>2, <2>1, <2>2 DEF Create, LocksTypeOK, NotYet, MutualExclusion, ReadIsCurrent, StillToAdd, OwnWay,
                      Excluded, Thread, Free
  <2> QED
    BY <1>1, <1>2, <2>3, <2>4 DEF Create
<1>3. CASE Return
  BY <1>1, <1>3 DEF Return, LocksTypeOK, NotYet, MutualExclusion, ReadIsCurrent, StillToAdd, OwnWay, Thread
<1>4. ASSUME NEW t \in Thread, AddReads(t)
      PROVE  IInv'
  <2>1. LocksTypeOK'
    BY <1>4 DEF AddReads, LocksTypeOK
  <2>2. (Rest)'
    BY <1>4 DEF AddReads, At, LocksTypeOK, NotYet, MutualExclusion, ReadIsCurrent, StillToAdd, OwnWay, Excluded
  <2> QED
    BY <1>1, <1>4, <2>1, <2>2 DEF AddReads
<1>5. ASSUME NEW t \in Thread, AddSwaps(t)
      PROVE  IInv'
  <2>1. way = "CAS" /\ count = 0 /\ done[t] < NUMBER
    BY <1>5 DEF AddSwaps, At, OwnWay, StillToAdd
  <2>2. count' = count
    BY <1>5 DEF AddSwaps, CAS
  <2>3. done' \in [Thread -> 0 .. NUMBER] /\ \A u \in Thread \ {t} : done'[u] = done[u]
    BY <1>5, <2>1 DEF AddSwaps, Added, LocksTypeOK
  <2>4. LocksTypeOK'
    BY <1>5, <2>2, <2>3 DEF AddSwaps, LocksTypeOK
  <2>5. (Rest)'
    BY <1>5, <2>1, <2>2, <2>3 DEF AddSwaps, At, LocksTypeOK, NotYet, MutualExclusion, ReadIsCurrent, StillToAdd,
                                  OwnWay, Excluded
  <2>6. AddsCount'
    BY <1>5, <2>1 DEF AddSwaps, AddsCount
  <2> QED
    BY <2>4, <2>5, <2>6
<1>6. ASSUME NEW t \in Thread, Inc(t)
      PROVE  IInv'
  <2>1. AddsCount' /\ count' \in 0 .. PTHREADCOUNT * NUMBER /\ done' \in [Thread -> 0 .. NUMBER]
    BY <1>6, AddedCounts DEF Inc
  <2>2. LocksTypeOK'
    BY <1>6, <2>1 DEF Inc, LocksTypeOK
  <2>3. \A u \in Thread : pc[u] \notin {"load", "store", "cas"}
    BY <1>6 DEF Inc, OwnWay, Excluded
  <2>4. (Rest)'
    BY <1>6, <2>3 DEF Inc, LocksTypeOK, NotYet, MutualExclusion, ReadIsCurrent, StillToAdd, OwnWay
  <2> QED
    BY <2>1, <2>2, <2>4
<1>7. ASSUME NEW t \in Thread, Lock(t)
      PROVE  IInv'
  <2>1. LocksTypeOK'
    BY <1>7 DEF Lock, LocksTypeOK
  <2>2. (Rest)'
    BY <1>7 DEF Lock, At, LocksTypeOK, NotYet, MutualExclusion, ReadIsCurrent, StillToAdd, OwnWay, Excluded,
                Thread, Free
  <2> QED
    BY <1>1, <1>7, <2>1, <2>2 DEF Lock
<1>8. ASSUME NEW t \in Thread, Load(t)
      PROVE  IInv'
  <2>1. LocksTypeOK'
    BY <1>8 DEF Load, LocksTypeOK
  <2>2. (Rest)'
    BY <1>8 DEF Load, At, LocksTypeOK, NotYet, MutualExclusion, ReadIsCurrent, StillToAdd, OwnWay, Excluded
  <2> QED
    BY <1>1, <1>8, <2>1, <2>2 DEF Load
<1>9. ASSUME NEW t \in Thread, Store(t)
      PROVE  IInv'
  <2>1. count' = count + 1 /\ done[t] < NUMBER /\ way \in {"MutexLock", "SpinLock"} /\ lock = t
    BY <1>9 DEF Store, At, ReadIsCurrent, StillToAdd, OwnWay, MutualExclusion, Excluded
  <2>2. AddsCount' /\ count' \in 0 .. PTHREADCOUNT * NUMBER /\ done' \in [Thread -> 0 .. NUMBER]
    BY <1>9, <2>1, AddedCounts DEF Store
  <2>3. LocksTypeOK'
    BY <1>9, <2>2 DEF Store, LocksTypeOK
  <2>4. \A u \in Thread \ {t} : pc[u] \notin {"load", "store", "cas"}
    BY <2>1 DEF MutualExclusion, OwnWay, Excluded
  <2>5. (Rest)'
    BY <1>9, <2>1, <2>4 DEF Store, At, LocksTypeOK, NotYet, MutualExclusion, ReadIsCurrent, StillToAdd, OwnWay,
                            Excluded
  <2> QED
    BY <2>2, <2>3, <2>5
<1>10. ASSUME NEW t \in Thread, Unlock(t)
       PROVE  IInv'
  <2>1. LocksTypeOK'
    BY <1>10 DEF Unlock, LocksTypeOK
  <2>2. (Rest)'
    BY <1>10 DEF Unlock, At, LocksTypeOK, NotYet, MutualExclusion, ReadIsCurrent, StillToAdd, OwnWay, Excluded,
                 Thread, Free
  <2> QED
    BY <1>1, <1>10, <2>1, <2>2 DEF Unlock
<1>11. CASE UNCHANGED lockVars
  BY <1>1, <1>11 DEF lockVars, LocksTypeOK, NotYet, MutualExclusion, ReadIsCurrent, StillToAdd, OwnWay
<1> QED
  BY <1>2, <1>3, <1>4, <1>5, <1>6, <1>7, <1>8, <1>9, <1>10, <1>11 DEF LocksNext, Runs, Ended

\* MutexLock.c, SpinLock.c and Atomic.c: wherever the threads are, and after
\* whatever main's exit stops, the counter is the number of the additions,
\* and stays within PTHREADCOUNT * NUMBER.
THEOREM LocksCounted ==
  ASSUME PTHREADCOUNT \in Nat, NUMBER \in Nat
  PROVE  LocksSpec => []LocksCount
<1>1. LocksInit => IInv
  BY InitIInv
<1>2. IInv /\ [LocksNext]_lockVars => IInv'
  BY NextIInv
<1>3. IInv => LocksCount
  BY DEF IInv, LocksCount
<1> QED
  BY <1>1, <1>2, <1>3, PTL DEF LocksSpec

\* MutexLock.c and SpinLock.c: at most one thread is between its lock and its
\* unlock, and what it has read is still the counter.
THEOREM OneAtATime ==
  ASSUME PTHREADCOUNT \in Nat, NUMBER \in Nat
  PROVE  LocksSpec => [](/\ \A t, u \in Thread : pc[t] \in Excluded /\ pc[u] \in Excluded => t = u
                         /\ ReadIsCurrent)
<1>1. LocksInit => IInv
  BY InitIInv
<1>2. IInv /\ [LocksNext]_lockVars => IInv'
  BY NextIInv
<1>3. IInv => /\ \A t, u \in Thread : pc[t] \in Excluded /\ pc[u] \in Excluded => t = u
              /\ ReadIsCurrent
  BY DEF IInv, MutualExclusion
<1> QED
  BY <1>1, <1>2, <1>3, PTL DEF LocksSpec
==============================================================================
