------------------------------ MODULE CacheLock ------------------------------
(***************************************************************************)
(* How concurrent calls of CacheService fill one logical key of the cache: *)
(* the strategies cacheLocking and staleWhileRevalidateWithLock, which     *)
(* share a lock in Redis, and getMultipleDataWithFallback, which has a     *)
(* lock of its own.  A call that finds nothing tries to become the leader; *)
(* the others follow, polling the entry until they give up and call the    *)
(* fallback themselves.  A hit on a stale entry starts a background        *)
(* refresh under a third lock.                                             *)
(*                                                                         *)
(* Locks are Redis keys that expire; the fallback is a database query that *)
(* may take any time or throw.  Time is abstract: entries age and expire,  *)
(* locks expire and followers give up at any moment.                       *)
(***************************************************************************)
EXTENDS Integers, FiniteSets

CONSTANTS
  Calls,           \* calls of CacheService for the key
  Method,          \* Method[c]: the strategy or operation of call c
  MaxCrashes,      \* bound: calls whose process dies
  MaxRedisErrors,  \* bound: commands to Redis that fail
  NoThread

Methods == {"cacheLocking", "staleWhileRevalidateWithLock", "multiGet"}

\* A call, and the background refresh it may start.
Threads == Calls \X {"call", "refresh"}

Locks == {"miss", "multiget", "refresh"}

ASSUME CacheLockAssumption ==
  /\ IsFiniteSet(Calls)
  /\ Method \in [Calls -> Methods]
  /\ MaxCrashes \in Nat /\ MaxRedisErrors \in Nat
  /\ NoThread \notin Threads

VARIABLES
  entry,    \* the entry under the key, by the number of its write; 0 is a miss
  writes,   \* writes of fetched data so far
  aged,     \* writes whose staleAt has passed
  lock,     \* the thread whose token a lock holds
  lost,     \* history: threads whose lock expired or was overwritten or deleted
  pc,       \* where a thread stands
  saw,      \* the entry a hit has read and will write back
  crashes, redisErrors

vars == <<entry, writes, aged, lock, lost, pc, saw, crashes, redisErrors>>

-----------------------------------------------------------------------------

LockOf(t) ==
  IF t[2] = "refresh" THEN "refresh"
  ELSE IF Method[t[1]] = "multiGet" THEN "multiget" ELSE "miss"

\* The thread has acquired a lock and has not yet released it.
Leading(t) == pc[t] \in {"fetch", "extend", "save", "release"}

GoTo(t, place) == pc' = [pc EXCEPT ![t] = place]

-----------------------------------------------------------------------------
(* Looking the entry up.                                                   *)

Start(c) ==
  /\ pc[<<c, "call">>] = "idle"
  /\ GoTo(<<c, "call">>, "lookup")
  /\ UNCHANGED <<entry, writes, aged, lock, lost, saw, crashes, redisErrors>>

Miss(c) ==
  /\ pc[<<c, "call">>] = "lookup"
  /\ entry = 0
  /\ GoTo(<<c, "call">>, "acquire")
  /\ UNCHANGED <<entry, writes, aged, lock, lost, saw, crashes, redisErrors>>

Hit(c) ==
  /\ pc[<<c, "call">>] = "lookup"
  /\ entry # 0
  /\ Method[c] # "staleWhileRevalidateWithLock"
  /\ GoTo(<<c, "call">>, "done")
  /\ UNCHANGED <<entry, writes, aged, lock, lost, saw, crashes, redisErrors>>

\* A hit of the revalidating strategy: a stale entry starts the refresh.
HitRevalidating(c) ==
  /\ pc[<<c, "call">>] = "lookup"
  /\ entry # 0
  /\ Method[c] = "staleWhileRevalidateWithLock"
  /\ saw' = [saw EXCEPT ![c] = entry]
  /\ pc' = [pc EXCEPT ![<<c, "call">>] = "persist",
                      ![<<c, "refresh">>] = IF entry \in aged THEN "acquire" ELSE @]
  /\ UNCHANGED <<entry, writes, aged, lock, lost, crashes, redisErrors>>

\* The entry is written back as it was read, its hits counted.
Persist(c) ==
  /\ pc[<<c, "call">>] = "persist"
  /\ entry' = saw[c]
  /\ GoTo(<<c, "call">>, "done")
  /\ UNCHANGED <<writes, aged, lock, lost, saw, crashes, redisErrors>>

-----------------------------------------------------------------------------
(* The leader.                                                             *)

\* Mutant: the lock is set whether or not it exists (NX dropped).
AcquireAlways(t) ==
  /\ pc[t] = "acquire"
  /\ lock' = [lock EXCEPT ![LockOf(t)] = t]
  /\ GoTo(t, "fetch")
  /\ UNCHANGED <<entry, writes, aged, lost, saw, crashes, redisErrors>>

\* SET lock token NX PX ttl.  A refresh that finds the lock taken is skipped.
Acquire(t) ==
  /\ pc[t] = "acquire"
  /\ IF lock[LockOf(t)] = NoThread
     THEN lock' = [lock EXCEPT ![LockOf(t)] = t] /\ GoTo(t, "fetch")
     ELSE UNCHANGED lock /\ GoTo(t, IF t[2] = "refresh" THEN "done" ELSE "wait")
  /\ UNCHANGED <<entry, writes, aged, lost, saw, crashes, redisErrors>>

\* The fallback returns; the revalidating strategy extends the lock of a slow
\* one.
FetchReturns(t) ==
  /\ pc[t] = "fetch"
  /\ \/ GoTo(t, "save")
     \/ LockOf(t) = "miss" /\ Method[t[1]] = "staleWhileRevalidateWithLock"
        /\ GoTo(t, "extend")
  /\ UNCHANGED <<entry, writes, aged, lock, lost, saw, crashes, redisErrors>>

\* The fallback throws, or getMultipleDataWithFallback's has nothing for the
\* key.
FetchThrows(t) ==
  /\ pc[t] = "fetch"
  /\ GoTo(t, "release")
  /\ UNCHANGED <<entry, writes, aged, lock, lost, saw, crashes, redisErrors>>

\* SET lock token XX PX ttl: an existing lock is overwritten, whoever holds it.
Extend(t) ==
  LET l == LockOf(t) IN
  /\ pc[t] = "extend"
  /\ IF lock[l] = NoThread THEN UNCHANGED <<lock, lost>>
     ELSE /\ lock' = [lock EXCEPT ![l] = t]
          /\ lost' = (lost \cup {lock[l]}) \ {t}
  /\ GoTo(t, "save")
  /\ UNCHANGED <<entry, writes, aged, saw, crashes, redisErrors>>

\* Mutant: a save that reuses the number of the write before.
SaveUncounted(t) ==
  /\ pc[t] = "save"
  /\ entry' = writes + 1
  /\ GoTo(t, "release")
  /\ UNCHANGED <<writes, aged, lock, lost, saw, crashes, redisErrors>>

Save(t) ==
  /\ pc[t] = "save"
  /\ entry' = writes + 1
  /\ writes' = writes + 1
  /\ GoTo(t, "release")
  /\ UNCHANGED <<aged, lock, lost, saw, crashes, redisErrors>>

\* The script deletes the lock if it holds this thread's token.
Release(t) ==
  /\ pc[t] = "release"
  /\ lock' = [lock EXCEPT ![LockOf(t)] = IF @ = t THEN NoThread ELSE @]
  /\ GoTo(t, "done")
  /\ UNCHANGED <<entry, writes, aged, lost, saw, crashes, redisErrors>>

\* The script fails: the lock is deleted, whoever holds it, or, when this
\* fails too, left to expire.
ReleaseFails(t) ==
  LET l == LockOf(t) IN
  /\ pc[t] = "release"
  /\ redisErrors < MaxRedisErrors
  /\ redisErrors' = redisErrors + 1
  /\ \/ /\ lock' = [lock EXCEPT ![l] = NoThread]
        /\ lost' = lost \cup ({lock[l]} \ {t, NoThread})
     \/ UNCHANGED <<lock, lost>>
  /\ GoTo(t, "done")
  /\ UNCHANGED <<entry, writes, aged, saw, crashes>>

\* A failed lookup, poll, write back or acquisition ends the thread with an
\* error; a failed extension is ignored; a failed save releases the lock.
CommandFails(t) ==
  /\ pc[t] \in {"lookup", "persist", "acquire", "extend", "save", "wait"}
  /\ redisErrors < MaxRedisErrors
  /\ redisErrors' = redisErrors + 1
  /\ GoTo(t, CASE pc[t] = "extend" -> "save"
               [] pc[t] = "save"   -> "release"
               [] OTHER            -> "done")
  /\ UNCHANGED <<entry, writes, aged, lock, lost, saw, crashes>>

-----------------------------------------------------------------------------
(* The followers.                                                          *)

Poll(t) ==
  /\ pc[t] = "wait"
  /\ entry # 0
  /\ GoTo(t, "done")
  /\ UNCHANGED <<entry, writes, aged, lock, lost, saw, crashes, redisErrors>>

\* Mutant: a follower waits until the entry appears.
GiveUpNever(t) == pc[t] = "wait" /\ Poll(t)

\* After the longest wait or the last attempt the follower calls the fallback.
GiveUp(t) ==
  /\ pc[t] = "wait"
  /\ GoTo(t, "direct")
  /\ UNCHANGED <<entry, writes, aged, lock, lost, saw, crashes, redisErrors>>

\* The strategies return what they got; getMultipleDataWithFallback caches it.
\* The fallback may also throw.
DirectEnds(t) ==
  /\ pc[t] = "direct"
  /\ \/ UNCHANGED <<entry, writes>>
     \/ /\ Method[t[1]] = "multiGet"
        /\ entry' = writes + 1
        /\ writes' = writes + 1
  /\ GoTo(t, "done")
  /\ UNCHANGED <<aged, lock, lost, saw, crashes, redisErrors>>

-----------------------------------------------------------------------------
(* Time, and the processes.                                                *)

Age ==
  /\ entry \notin aged \cup {0}
  /\ aged' = aged \cup {entry}
  /\ UNCHANGED <<entry, writes, lock, lost, pc, saw, crashes, redisErrors>>

\* The entry's time to live ends, or the key's version is incremented.
Expire ==
  /\ entry # 0
  /\ entry' = 0
  /\ UNCHANGED <<writes, aged, lock, lost, pc, saw, crashes, redisErrors>>

\* Mutant: a lock that is acquired gets no time to live.
LockExpiresIfIdle(l) ==
  /\ lock[l] # NoThread
  /\ pc[lock[l]] = "done"
  /\ lock' = [lock EXCEPT ![l] = NoThread]
  /\ lost' = lost \cup {lock[l]}
  /\ UNCHANGED <<entry, writes, aged, pc, saw, crashes, redisErrors>>

LockExpires(l) ==
  /\ lock[l] # NoThread
  /\ lock' = [lock EXCEPT ![l] = NoThread]
  /\ lost' = lost \cup {lock[l]}
  /\ UNCHANGED <<entry, writes, aged, pc, saw, crashes, redisErrors>>

\* The process of a call dies, and with it the refresh it has started.
Crash(c) ==
  /\ crashes < MaxCrashes
  /\ \E k \in {"call", "refresh"} : pc[<<c, k>>] \notin {"idle", "done", "dead"}
  /\ crashes' = crashes + 1
  /\ pc' = [t \in Threads |-> IF t[1] = c THEN "dead" ELSE pc[t]]
  /\ UNCHANGED <<entry, writes, aged, lock, lost, saw, redisErrors>>

-----------------------------------------------------------------------------
Init ==
  /\ entry = 0
  /\ writes = 0
  /\ aged = {}
  /\ lock = [l \in Locks |-> NoThread]
  /\ lost = {}
  /\ pc = [t \in Threads |-> "idle"]
  /\ saw = [c \in Calls |-> 0]
  /\ crashes = 0
  /\ redisErrors = 0

ThreadStep(t) ==
  \/ Acquire(t) \/ FetchReturns(t) \/ FetchThrows(t) \/ Extend(t) \/ Save(t)
  \/ Release(t) \/ Poll(t) \/ GiveUp(t) \/ DirectEnds(t)

CallStep(c) == Miss(c) \/ Hit(c) \/ HitRevalidating(c) \/ Persist(c)

Next ==
  \/ \E c \in Calls : Start(c) \/ CallStep(c) \/ Crash(c)
  \/ \E t \in Threads : ThreadStep(t) \/ ReleaseFails(t) \/ CommandFails(t)
  \/ Age \/ Expire
  \/ \E l \in Locks : LockExpires(l)

Spec == Init /\ [][Next]_vars

\* Awaited commands and queries settle, timers fire and locks expire.
Fairness ==
  /\ \A c \in Calls : WF_vars(CallStep(c))
  /\ \A t \in Threads : WF_vars(ThreadStep(t))
  /\ \A l \in Locks : WF_vars(LockExpires(l))

FairSpec == Spec /\ Fairness

-----------------------------------------------------------------------------
(* Properties.                                                             *)

Places == {"idle", "lookup", "persist", "acquire", "fetch", "extend", "save",
           "release", "wait", "direct", "done", "dead"}

\* Every variable keeps its type.
TypeOK ==
  /\ entry \in 0 .. writes
  /\ writes \in Nat
  /\ aged \subseteq 1 .. writes
  /\ lock \in [Locks -> Threads \cup {NoThread}]
  /\ lost \subseteq Threads
  /\ pc \in [Threads -> Places]
  /\ saw \in [Calls -> 0 .. writes]
  /\ crashes \in Nat
  /\ redisErrors \in Nat

\* Two calls lead at the same time only if one of them has outlived its lock:
\* no release, extension or late answer of one leader makes way for a second
\* (SET NX, the token and the release script of cache.strategy.ts).
OneLeader ==
  \A t, u \in Threads :
    t # u /\ Leading(t) /\ Leading(u) /\ LockOf(t) = LockOf(u) => t \in lost \/ u \in lost

\* Every call gets an answer or an error, even if its leader's fallback throws,
\* its leader dies with the lock, or the entry expires before the poll sees it.
CallsAnswered ==
  \A c \in Calls : pc[<<c, "call">>] = "lookup" ~> pc[<<c, "call">>] \in {"done", "dead"}

\* No lock outlives the calls: what a dead leader or a failed release leaves
\* behind expires.
LocksFreed == <>[](\A l \in Locks : lock[l] = NoThread)

=============================================================================
