-------------------------- MODULE CacheLock_proofs --------------------------
(***************************************************************************)
(* Proofs about CacheLock for any number of calls, strategies, crashes and *)
(* failing Redis commands: every variable keeps its type, and two threads  *)
(* lead under one lock only if one of them has lost it.                    *)
(*                                                                         *)
(* OneLeader compares two threads and is not inductive: it says nothing of *)
(* what the lock holds.  HolderInv ties each of them to the lock instead,  *)
(* which holds one token only.                                             *)
(***************************************************************************)
EXTENDS CacheLock, TLAPS

\* A leader that has not lost its lock is the one the lock names.
HolderInv ==
  \A t \in Threads : Leading(t) /\ t \notin lost => lock[LockOf(t)] = t

IInv == TypeOK /\ HolderInv

\* Every thread has a lock to contend for.
LEMMA LockOfType ==
  ASSUME NEW t \in Threads
  PROVE  LockOf(t) \in Locks
  BY DEF LockOf, Locks

LEMMA TypeInit ==
  ASSUME CacheLockAssumption, Init
  PROVE  TypeOK
  BY DEF CacheLockAssumption, Init, TypeOK, Places, Locks, Threads

LEMMA TypeStep ==
  ASSUME CacheLockAssumption, TypeOK, [Next]_vars
  PROVE  TypeOK'
<1> USE CacheLockAssumption DEF CacheLockAssumption, GoTo, Places
<1>calls. \A c \in Calls : <<c, "call">> \in Threads /\ <<c, "refresh">> \in Threads
  BY DEF Threads
<1>0. /\ entry \in 0 .. writes /\ writes \in Nat
      /\ pc \in [Threads -> Places] /\ saw \in [Calls -> 0 .. writes]
  BY DEF TypeOK
<1>1. ASSUME NEW c \in Calls, Start(c) \/ Miss(c) \/ Hit(c)
      PROVE  TypeOK'
  BY <1>1, <1>calls, TypeOK DEF TypeOK, Start, Miss, Hit
<1>2. ASSUME NEW c \in Calls, HitRevalidating(c)
      PROVE  TypeOK'
  <2>1. pc' \in [Threads -> Places]
    BY <1>0, <1>2, <1>calls DEF HitRevalidating
  <2>2. saw' \in [Calls -> 0 .. writes]
    BY <1>0, <1>2 DEF HitRevalidating
  <2> QED
    BY <1>2, <2>1, <2>2, TypeOK DEF TypeOK, HitRevalidating
<1>3. ASSUME NEW c \in Calls, Persist(c)
      PROVE  TypeOK'
  <2>1. pc' \in [Threads -> Places]
    BY <1>0, <1>3, <1>calls DEF Persist
  <2>2. entry' \in 0 .. writes
    BY <1>0, <1>3 DEF Persist
  <2> QED
    BY <1>3, <2>1, <2>2, TypeOK DEF TypeOK, Persist
<1>4. ASSUME NEW c \in Calls, Crash(c)
      PROVE  TypeOK'
  <2>1. pc' \in [Threads -> Places]
    BY <1>0, <1>4 DEF Crash
  <2> QED
    BY <1>4, <2>1, TypeOK DEF TypeOK, Crash
<1>5. ASSUME NEW t \in Threads,
             Acquire(t) \/ FetchReturns(t) \/ FetchThrows(t) \/ Extend(t)
      PROVE  TypeOK'
  <2>1. pc' \in [Threads -> Places]
    BY <1>0, <1>5 DEF Acquire, FetchReturns, FetchThrows, Extend
  <2>2. lock' \in [Locks -> Threads \cup {NoThread}]
    BY <1>5, LockOfType, TypeOK DEF TypeOK, Acquire, FetchReturns, FetchThrows, Extend
  <2>3. lost' \subseteq Threads
    BY <1>5, LockOfType, TypeOK DEF TypeOK, Acquire, FetchReturns, FetchThrows, Extend
  <2> QED
    BY <1>5, <2>1, <2>2, <2>3, TypeOK
       DEF TypeOK, Acquire, FetchReturns, FetchThrows, Extend
<1>6. ASSUME NEW t \in Threads, Save(t) \/ DirectEnds(t)
      PROVE  TypeOK'
  <2>1. pc' \in [Threads -> Places]
    BY <1>0, <1>6 DEF Save, DirectEnds
  <2>2. writes' \in Nat /\ entry' \in 0 .. writes' /\ writes' >= writes
    BY <1>0, <1>6 DEF Save, DirectEnds
  <2>3. aged' \subseteq 1 .. writes'
    <3>1. aged \subseteq 1 .. writes /\ aged' = aged
      BY <1>6, TypeOK DEF TypeOK, Save, DirectEnds
    <3>2. \A n \in 1 .. writes : n \in 1 .. writes'
      BY <1>0, <2>2
    <3> QED
      BY <3>1, <3>2
  <2>4. saw' \in [Calls -> 0 .. writes']
    BY <1>0, <1>6, <2>2 DEF Save, DirectEnds
  <2> QED
    BY <1>6, <2>1, <2>2, <2>3, <2>4, TypeOK DEF TypeOK, Save, DirectEnds
<1>7. ASSUME NEW t \in Threads, Release(t) \/ ReleaseFails(t)
      PROVE  TypeOK'
  <2>1. pc' \in [Threads -> Places]
    BY <1>0, <1>7 DEF Release, ReleaseFails
  <2>2. /\ lock' \in [Locks -> Threads \cup {NoThread}]
        /\ lost' \subseteq Threads
    BY <1>7, LockOfType, TypeOK DEF TypeOK, Release, ReleaseFails
  <2>3. redisErrors' \in Nat
    BY <1>7, TypeOK DEF TypeOK, Release, ReleaseFails
  <2> QED
    BY <1>7, <2>1, <2>2, <2>3, TypeOK DEF TypeOK, Release, ReleaseFails
<1>8. ASSUME NEW t \in Threads, Poll(t) \/ GiveUp(t) \/ CommandFails(t)
      PROVE  TypeOK'
  <2>1. pc' \in [Threads -> Places]
    BY <1>0, <1>8 DEF Poll, GiveUp, CommandFails
  <2> QED
    BY <1>8, <2>1, TypeOK DEF TypeOK, Poll, GiveUp, CommandFails
<1>9. CASE Age \/ Expire
  <2>1. entry' \in 0 .. writes
    BY <1>0, <1>9 DEF Age, Expire
  <2>2. aged' \subseteq 1 .. writes
    <3>1. aged \subseteq 1 .. writes
      BY TypeOK DEF TypeOK
    <3>2. entry # 0 => entry \in 1 .. writes
      BY <1>0
    <3> QED
      BY <1>9, <3>1, <3>2 DEF Age, Expire
  <2> QED
    BY <1>9, <2>1, <2>2, TypeOK DEF TypeOK, Age, Expire
<1>10. ASSUME NEW l \in Locks, LockExpires(l)
      PROVE  TypeOK'
  BY <1>10, TypeOK DEF TypeOK, LockExpires
<1>11. CASE UNCHANGED vars
  BY <1>11, TypeOK DEF TypeOK, vars
<1> QED
  BY <1>1, <1>2, <1>3, <1>4, <1>5, <1>6, <1>7, <1>8, <1>9, <1>10, <1>11
     DEF Next, CallStep, ThreadStep

LEMMA HolderInit ==
  ASSUME Init
  PROVE  HolderInv
  BY DEF Init, HolderInv, Leading

\* Who leads after a step that lets no thread start to lead led before it.
LEMMA HolderKept ==
  ASSUME TypeOK, HolderInv,
         lock' = lock, lost' = lost,
         \A u \in Threads : Leading(u)' => Leading(u)
  PROVE  HolderInv'
  BY DEF HolderInv, LockOf

LEMMA HolderStep ==
  ASSUME CacheLockAssumption, TypeOK, HolderInv, [Next]_vars
  PROVE  HolderInv'
<1> USE CacheLockAssumption DEF CacheLockAssumption, GoTo
<1>calls. \A c \in Calls : <<c, "call">> \in Threads /\ <<c, "refresh">> \in Threads
  BY DEF Threads
<1>none. \A u \in Threads : u # NoThread
  OBVIOUS
<1>0. /\ pc \in [Threads -> Places]
      /\ lock \in [Locks -> Threads \cup {NoThread}]
  BY DEF TypeOK
<1>1. ASSUME NEW c \in Calls, Start(c) \/ CallStep(c) \/ Crash(c)
      PROVE  HolderInv'
  <2>1. lock' = lock /\ lost' = lost
    BY <1>1 DEF Start, CallStep, Miss, Hit, HitRevalidating, Persist, Crash
  <2>2. \A u \in Threads : Leading(u)' => Leading(u)
    BY <1>0, <1>1, <1>calls
       DEF Start, CallStep, Miss, Hit, HitRevalidating, Persist, Crash, Leading
  <2> QED
    BY <2>1, <2>2, HolderKept
<1>2. ASSUME NEW t \in Threads,
             \/ FetchReturns(t) \/ FetchThrows(t) \/ Save(t) \/ Poll(t)
             \/ GiveUp(t) \/ DirectEnds(t) \/ CommandFails(t)
      PROVE  HolderInv'
  <2>1. lock' = lock /\ lost' = lost
    BY <1>2 DEF FetchReturns, FetchThrows, Save, Poll, GiveUp, DirectEnds, CommandFails
  <2>2. \A u \in Threads : Leading(u)' => Leading(u)
    BY <1>0, <1>2
       DEF FetchReturns, FetchThrows, Save, Poll, GiveUp, DirectEnds, CommandFails, Leading
  <2> QED
    BY <2>1, <2>2, HolderKept
<1>3. ASSUME NEW t \in Threads, Acquire(t)
      PROVE  HolderInv'
  <2>1. CASE lock[LockOf(t)] = NoThread
    <3>1. \A u \in Threads \ {t} : Leading(u)' => Leading(u)
      BY <1>0, <1>3, <2>1 DEF Acquire, Leading
    <3> QED
      BY <1>0, <1>3, <1>none, <2>1, <3>1, LockOfType DEF Acquire, HolderInv, LockOf
  <2>2. CASE lock[LockOf(t)] # NoThread
    BY <1>0, <1>3, <2>2, HolderKept DEF Acquire, Leading
  <2> QED
    BY <2>1, <2>2
<1>4. ASSUME NEW t \in Threads, Extend(t)
      PROVE  HolderInv'
  <2>1. \A u \in Threads : Leading(u)' => Leading(u)
    BY <1>0, <1>4 DEF Extend, Leading
  <2>2. CASE lock[LockOf(t)] = NoThread
    BY <1>4, <2>1, <2>2, HolderKept DEF Extend
  <2>3. CASE lock[LockOf(t)] # NoThread
    <3>1. \A u \in Threads : u # t /\ u \notin lost' => u \notin lost /\ u # lock[LockOf(t)]
      BY <1>4, <2>3 DEF Extend
    <3> QED
      BY <1>0, <1>4, <2>1, <2>3, <3>1, LockOfType DEF Extend, HolderInv, LockOf
  <2> QED
    BY <2>2, <2>3
<1>5. ASSUME NEW t \in Threads, Release(t) \/ ReleaseFails(t)
      PROVE  HolderInv'
  <2>1. ~Leading(t)' /\ \A u \in Threads : Leading(u)' => Leading(u)
    BY <1>0, <1>5 DEF Release, ReleaseFails, Leading
  <2>2. \A u \in Threads : u # t /\ u \notin lost' =>
          u \notin lost /\ (lock[LockOf(u)] = u => lock'[LockOf(u)] = u)
    BY <1>0, <1>5, <1>none, LockOfType DEF Release, ReleaseFails
  <2> QED
    BY <2>1, <2>2 DEF HolderInv, LockOf
<1>6. CASE Age \/ Expire
  BY <1>6, HolderKept DEF Age, Expire, Leading
<1>7. ASSUME NEW l \in Locks, LockExpires(l)
      PROVE  HolderInv'
  BY <1>0, <1>7, LockOfType DEF LockExpires, HolderInv, Leading, LockOf
<1>8. CASE UNCHANGED vars
  BY <1>8, HolderKept DEF vars, Leading
<1> QED
  BY <1>1, <1>2, <1>3, <1>4, <1>5, <1>6, <1>7, <1>8 DEF Next, ThreadStep

\* Every behaviour keeps the inductive invariant.
THEOREM Invariance ==
  ASSUME CacheLockAssumption
  PROVE  Spec => []IInv
<1>1. Init => IInv
  BY TypeInit, HolderInit DEF IInv
<1>2. IInv /\ [Next]_vars => IInv'
  BY TypeStep, HolderStep DEF IInv
<1> QED
  BY <1>1, <1>2, PTL DEF Spec

\* Every variable keeps its type, whatever fails (cache.strategy.ts).
THEOREM TypeCorrect ==
  ASSUME CacheLockAssumption
  PROVE  Spec => []TypeOK
<1>1. IInv => TypeOK
  BY DEF IInv
<1> QED
  BY <1>1, Invariance, PTL

\* For any number of calls, two lead under one lock only if one of them has
\* outlived its lock or had it taken away (acquireLockAndFetch, releaseLock).
THEOREM LeadersExclude ==
  ASSUME CacheLockAssumption
  PROVE  Spec => []OneLeader
<1>1. IInv => OneLeader
  BY DEF IInv, HolderInv, OneLeader
<1> QED
  BY <1>1, Invariance, PTL

=============================================================================
