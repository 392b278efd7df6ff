------------------------ MODULE CacheVersions_proofs ------------------------
(***************************************************************************)
(* Proof that invalidation by version numbers works for any number of      *)
(* calls and invalidating handlers: a call that starts after a change was  *)
(* invalidated returns data with that change, unless a counter was set     *)
(* back.                                                                   *)
(*                                                                         *)
(* The argument follows the pairs of a key and data that are cached under  *)
(* it or about to be.  The data were fetched after the key was computed,   *)
(* so if they lack a writer's change, the key is older than the versions   *)
(* that writer has read afterwards (RecentInv), while a call that starts   *)
(* after the writer's SET computes a newer one (DueInv).                   *)
(***************************************************************************)
EXTENDS CacheVersions, TLAPS

\* Data n are cached under key k, or a thread is about to cache them there.
Holds(k, n) ==
  \/ entry[k] = n
  \/ \E t \in Threads : pc[t] \in {"pttl", "renew", "save"} /\ key[t] = k /\ value[t] = n

\* Some entry or thread uses key k.
InUse(k) ==
  \/ entry[k] # None
  \/ \E t \in Threads : pc[t] # "idle" /\ key[t] = k

Increments(w) == Kind[w] \in Counters

\* The version of writer w's counter that it has read.
Read(w) == seen[w][Kind[w]]

\* Key k is newer than the version that the writer of commit d has read.
NewerThan(k, d) ==
  d = 0 \/ \E w \in Writers : /\ wpc[w] = "done" /\ Increments(w)
                              /\ mine[w] = d /\ Read(w) < k[Kind[w]]

DbInv == \A w \in Writers : wpc[w] # "idle" => mine[w] <= db

KnownInv == \A k \in Keys : InUse(k) => \A c \in Counters : k[c] <= version[c]

RecentInv ==
  \A k \in Keys, n \in Nat, w \in Writers :
    /\ Holds(k, n) /\ wpc[w] \in {"write", "done"} /\ Increments(w) /\ n < mine[w]
    => k[Kind[w]] <= Read(w)

DoneInv ==
  \A w \in Writers : wpc[w] = "done" /\ Increments(w) => Read(w) < version[Kind[w]]

CoveredInv == NewerThan(version, covered)

DueInv ==
  \A c \in Calls : pc[<<c, "call">>] # "idle" => NewerThan(key[<<c, "call">>], due[c])

AnswerInv == \A c \in Calls : answer[c] # None => answer[c] >= due[c]

\* A call that has not started has not answered.
IdleInv == \A c \in Calls : pc[<<c, "call">>] = "idle" => answer[c] = None

StrictInv == KnownInv /\ RecentInv /\ DoneInv /\ CoveredInv /\ DueInv /\ AnswerInv

IInv == TypeOK /\ DbInv /\ IdleInv /\ (~setBack => StrictInv)

-----------------------------------------------------------------------------
(* Types.                                                                  *)

LEMMA ThreadTypes ==
  ASSUME NEW c \in Calls
  PROVE  /\ <<c, "call">> \in Threads /\ <<c, "refresh">> \in Threads
         /\ <<c, "call">> # <<c, "refresh">>
  BY DEF Threads

\* Adding one to a version read by a writer, or resetting one, gives a key.
LEMMA KeyUpdate ==
  ASSUME NEW k \in Keys, NEW c \in Counters, NEW v \in 1 .. MaxVersion
  PROVE  [k EXCEPT ![c] = v] \in Keys
  BY DEF Keys

LEMMA TypeInit ==
  ASSUME VersionsAssumption, Init
  PROVE  TypeOK
<1>1. FirstKey \in Keys
  BY DEF VersionsAssumption, FirstKey, Keys
<1>2. 0 \in 0 .. MaxHitRenewals + 1
  BY DEF VersionsAssumption
<1>3. /\ hits \in [Keys -> 0 .. MaxHitRenewals + 1]
      /\ count \in [Threads -> 0 .. MaxHitRenewals + 1]
  BY <1>2 DEF Init
<1> QED
  BY <1>1, <1>3 DEF Init, TypeOK, Data

LEMMA TypeStep ==
  ASSUME VersionsAssumption, TypeOK, [Next]_vars
  PROVE  TypeOK'
<1> USE VersionsAssumption DEF VersionsAssumption, TypeOK, cacheVars, writerVars, holdVars
<1>1. ASSUME NEW w \in Writers, Commit(w) \/ ReadVersions(w)
      PROVE  TypeOK'
  BY <1>1 DEF Commit, ReadVersions
<1>2. ASSUME NEW w \in Writers, SetVersion(w)
      PROVE  TypeOK'
  <2>1. /\ Kind[w] \in Counters
        /\ seen[w][Kind[w]] + 1 \in 1 .. MaxVersion
    BY <1>2 DEF SetVersion, Keys
  <2>2. version' \in Keys
    BY <1>2, <2>1, KeyUpdate DEF SetVersion
  <2>3. setBack' \in BOOLEAN /\ covered' \in Nat
    BY <1>2, <2>1 DEF SetVersion, Keys
  <2> QED
    BY <1>2, <2>2, <2>3 DEF SetVersion
<1>3. ASSUME NEW w \in Writers, Remove(w)
      PROVE  TypeOK'
  BY <1>3 DEF Remove, Data
<1>4. ASSUME NEW c \in Calls, Start(c) \/ Miss(c)
      PROVE  TypeOK'
  BY <1>4, ThreadTypes DEF Start, Miss
<1>5. ASSUME NEW c \in Calls, HitSimple(c) \/ HitFresh(c) \/ HitStale(c)
      PROVE  TypeOK'
  <2> DEFINE t == <<c, "call">>
  <2>1. TakesHit(c) /\ t \in Threads /\ key[t] \in Keys
    BY <1>5, ThreadTypes DEF HitSimple, HitFresh, HitStale
  <2>2. entry[key[t]] \in Nat
    BY <2>1 DEF TakesHit, Data
  <2>3. answer' \in [Calls -> Data] /\ value' \in [Threads -> Nat]
    BY <2>1, <2>2 DEF TakesHit, Data
  <2>4. count' \in [Threads -> 0 .. MaxHitRenewals + 1]
    <3>1. hits[key[t]] \in 0 .. MaxHitRenewals + 1
      BY <2>1
    <3> QED
      BY <2>1, <3>1 DEF TakesHit
  <2>5. pc' \in [Threads -> {"idle", "lookup", "pttl", "renew", "fetch", "save", "done"}]
    BY <1>5, <2>1, ThreadTypes DEF HitSimple, HitFresh, HitStale
  <2>6. key' \in [Threads -> Keys] /\ unlimited' \in [Threads -> BOOLEAN]
    BY <1>5, <2>1, ThreadTypes DEF HitSimple, HitFresh, HitStale
  <2> QED
    BY <2>1, <2>3, <2>4, <2>5, <2>6 DEF TakesHit
<1>6. ASSUME NEW c \in Calls, AsksRemaining(c)
      PROVE  TypeOK'
  BY <1>6, ThreadTypes DEF AsksRemaining
<1>7. ASSUME NEW c \in Calls, Renew(c)
      PROVE  TypeOK'
  BY <1>7, ThreadTypes DEF Renew, Data
<1>8. ASSUME NEW t \in Threads, Fetch(t)
      PROVE  TypeOK'
  BY <1>8 DEF Fetch
<1>9. ASSUME NEW t \in Threads, Save(t)
      PROVE  TypeOK'
  <2>1. answer' \in [Calls -> Data]
    BY <1>9 DEF Save, Answers, Data, Threads
  <2>2. entry' \in [Keys -> Data] /\ hits' \in [Keys -> 0 .. MaxHitRenewals + 1]
    <3>1. 0 \in 0 .. MaxHitRenewals + 1
      OBVIOUS
    <3> QED
      BY <1>9, <3>1 DEF Save, Data
  <2>3. forever' \subseteq Keys
    BY <1>9 DEF Save
  <2> QED
    BY <1>9, <2>1, <2>2, <2>3 DEF Save
<1>10. ASSUME NEW c \in Calls, ReturnUncached(c)
      PROVE  TypeOK'
  BY <1>10, ThreadTypes DEF ReturnUncached, Answers, Data
<1>11. ASSUME NEW k \in Keys, Expire(k)
      PROVE  TypeOK'
  BY <1>11 DEF Expire, Data
<1>12. ASSUME NEW k \in Counters, VersionExpires(k)
      PROVE  TypeOK'
  <2>1. version' \in Keys
    <3>1. 1 \in 1 .. MaxVersion
      OBVIOUS
    <3> QED
      BY <1>12, <3>1, KeyUpdate DEF VersionExpires
  <2> QED
    BY <1>12, <2>1 DEF VersionExpires
<1>13. CASE UNCHANGED vars
  BY <1>13 DEF vars
<1> QED
  BY <1>1, <1>2, <1>3, <1>4, <1>5, <1>6, <1>7, <1>8, <1>9, <1>10, <1>11, <1>12, <1>13
     DEF Next

-----------------------------------------------------------------------------
(* What one step can do.                                                   *)

\* The counters only grow as long as none is set back.
LEMMA VersionGrows ==
  ASSUME VersionsAssumption, TypeOK, [Next]_vars, ~setBack'
  PROVE  /\ ~setBack
         /\ \A c \in Counters : version[c] <= version'[c]
<1> USE DEF TypeOK, Keys
<1>1. ASSUME NEW w \in Writers, SetVersion(w)
      PROVE  ~setBack /\ \A c \in Counters : version[c] <= version'[c]
  <2> DEFINE next == seen[w][Kind[w]] + 1
  <2>1. /\ Kind[w] \in Counters /\ next \in Int
        /\ \A c \in Counters : version[c] \in Int
    BY <1>1 DEF SetVersion
  <2>2. ~setBack /\ ~(next < version[Kind[w]])
    BY <1>1 DEF SetVersion
  <2>3. \A c \in Counters : version'[c] = IF c = Kind[w] THEN next ELSE version[c]
    BY <1>1, <2>1 DEF SetVersion
  <2> QED
    BY <2>1, <2>2, <2>3
<1>2. CASE UNCHANGED <<version, setBack>>
  BY <1>2
<1>3. ASSUME NEW k \in Counters, VersionExpires(k)
      PROVE  FALSE
  BY <1>3 DEF VersionExpires
<1>4. \/ \E w \in Writers : SetVersion(w)
      \/ \E k \in Counters : VersionExpires(k)
      \/ UNCHANGED <<version, setBack>>
  BY DEF Next, vars, Commit, ReadVersions, Remove, Start, Miss, HitSimple, HitFresh,
         HitStale, TakesHit, AsksRemaining, Renew, ReturnUncached, Fetch, Save, Expire
<1> QED
  BY <1>1, <1>2, <1>3, <1>4

\* A writer keeps its commit and what it has read, and reads what is current.
LEMMA WriterMoves ==
  ASSUME VersionsAssumption, TypeOK, [Next]_vars, NEW w \in Writers
  PROVE  /\ db' \in Nat /\ db <= db'
         /\ wpc[w] # "idle" => wpc'[w] # "idle" /\ mine'[w] = mine[w]
         /\ wpc[w] = "idle" /\ wpc'[w] # "idle" => wpc'[w] = "read" /\ mine'[w] = db'
         /\ wpc[w] = "read" /\ wpc'[w] \in {"write", "done"} => seen'[w] = version
         /\ wpc[w] \in {"write", "done"} => seen'[w] = seen[w]
         /\ wpc[w] = "done" => wpc'[w] = "done"
         /\ wpc'[w] = "done" => wpc[w] \in {"write", "done"}
<1> USE DEF TypeOK
<1>1. ASSUME NEW u \in Writers, Commit(u)
      PROVE  /\ db' = db + 1 /\ mine' = [mine EXCEPT ![u] = db + 1] /\ seen' = seen
             /\ wpc[u] = "idle" /\ wpc' = [wpc EXCEPT ![u] = "read"]
  BY <1>1 DEF Commit
<1>2. ASSUME NEW u \in Writers, ReadVersions(u)
      PROVE  /\ db' = db /\ mine' = mine /\ seen' = [seen EXCEPT ![u] = version]
             /\ wpc[u] = "read" /\ wpc' = [wpc EXCEPT ![u] = "write"]
  BY <1>2 DEF ReadVersions
<1>3. ASSUME NEW u \in Writers, SetVersion(u) \/ Remove(u)
      PROVE  /\ db' = db /\ mine' = mine /\ seen' = seen
             /\ wpc[u] = "write" /\ wpc' = [wpc EXCEPT ![u] = "done"]
  BY <1>3 DEF SetVersion, Remove
<1>4. \/ \E u \in Writers : Commit(u) \/ ReadVersions(u) \/ SetVersion(u) \/ Remove(u)
      \/ UNCHANGED <<db, wpc, mine, seen>>
  BY DEF Next, vars, writerVars, Start, Miss, HitSimple, HitFresh, HitStale, TakesHit,
         AsksRemaining, Renew, ReturnUncached, Fetch, Save, Expire, VersionExpires
<1>5. CASE UNCHANGED <<db, wpc, mine, seen>>
  BY <1>5
<1>6. CASE \E u \in Writers : Commit(u)
  BY <1>1, <1>6
<1>7. CASE \E u \in Writers : ReadVersions(u)
  BY <1>2, <1>7
<1>8. CASE \E u \in Writers : SetVersion(u) \/ Remove(u)
  BY <1>3, <1>8
<1> QED
  BY <1>4, <1>5, <1>6, <1>7, <1>8

\* What is cached, or about to be, was so before or has just been fetched.
LEMMA HoldsMoves ==
  ASSUME VersionsAssumption, TypeOK, [Next]_vars,
         NEW k \in Keys, NEW n \in Nat, Holds(k, n)'
  PROVE  Holds(k, n) \/ (n = db /\ InUse(k))
<1> USE DEF TypeOK
<1> DEFINE Busy(t) == pc[t] \in {"pttl", "renew", "save"}
<1>none. n # None
  BY DEF None
<1>1. CASE UNCHANGED <<entry, pc, key, value>>
  BY <1>1 DEF Holds
<1>2. ASSUME NEW t \in Threads, NEW m \in Data,
             entry' = [entry EXCEPT ![key[t]] = value[t]], Busy(t),
             pc' = [pc EXCEPT ![t] = "done"], key' = key, value' = value
      PROVE  Holds(k, n)
  BY <1>2 DEF Holds
<1>3. ASSUME NEW j \in Keys, entry' = [entry EXCEPT ![j] = None],
             UNCHANGED <<pc, key, value>>
      PROVE  Holds(k, n)
  BY <1>3, <1>none DEF Holds
<1>4. ASSUME NEW c \in Calls, Start(c) \/ Miss(c)
      PROVE  Holds(k, n)
  BY <1>4, ThreadTypes DEF Start, Miss, Holds, cacheVars, holdVars
<1>5. ASSUME NEW c \in Calls, HitSimple(c) \/ HitFresh(c) \/ HitStale(c)
      PROVE  Holds(k, n)
  <2> DEFINE t == <<c, "call">>
             u == <<c, "refresh">>
  <2>1. /\ entry' = entry /\ entry[key[t]] # None
        /\ value' = [value EXCEPT ![t] = entry[key[t]]]
        /\ \A v \in Threads \ {u} : key'[v] = key[v]
        /\ \A v \in Threads \ {t, u} : pc'[v] = pc[v]
        /\ pc'[u] = pc[u] \/ pc'[u] = "fetch"
        /\ pc'[u] = pc[u] => key'[u] = key[u] \/ pc[u] = "fetch"
    BY <1>5, ThreadTypes DEF HitSimple, HitFresh, HitStale, TakesHit, cacheVars
  <2> QED
    BY <2>1, ThreadTypes DEF Holds
<1>6. ASSUME NEW c \in Calls, AsksRemaining(c)
      PROVE  Holds(k, n)
  BY <1>6, ThreadTypes DEF AsksRemaining, Holds, cacheVars
<1>7. ASSUME NEW c \in Calls, Renew(c)
      PROVE  Holds(k, n)
  BY <1>7, ThreadTypes DEF Renew, Holds, holdVars
<1>8. ASSUME NEW t \in Threads, Fetch(t)
      PROVE  Holds(k, n) \/ (n = db /\ InUse(k))
  <2>1. /\ entry' = entry /\ key' = key /\ pc[t] = "fetch"
        /\ pc' = [pc EXCEPT ![t] = "save"] /\ value' = [value EXCEPT ![t] = db]
    BY <1>8 DEF Fetch, cacheVars
  <2> QED
    BY <2>1 DEF Holds, InUse
<1>9. ASSUME NEW t \in Threads, Save(t)
      PROVE  Holds(k, n)
  BY <1>9 DEF Save, Holds, holdVars
<1>10. ASSUME NEW c \in Calls, ReturnUncached(c)
      PROVE  Holds(k, n)
  BY <1>10, ThreadTypes DEF ReturnUncached, Holds, cacheVars, holdVars
<1>11. ASSUME NEW w \in Writers, Commit(w) \/ ReadVersions(w) \/ SetVersion(w)
       PROVE  UNCHANGED <<entry, pc, key, value>>
  BY <1>11 DEF Commit, ReadVersions, SetVersion, cacheVars, holdVars
<1>12. ASSUME NEW w \in Writers, Remove(w)
       PROVE  Holds(k, n)
  BY <1>3, <1>12 DEF Remove, holdVars
<1>13. ASSUME NEW j \in Keys, Expire(j)
       PROVE  Holds(k, n)
  BY <1>3, <1>13 DEF Expire, holdVars
<1>14. ASSUME NEW c \in Counters, VersionExpires(c)
       PROVE  UNCHANGED <<entry, pc, key, value>>
  BY <1>14 DEF VersionExpires, cacheVars, holdVars
<1>15. CASE UNCHANGED vars
  BY <1>1, <1>15 DEF vars, cacheVars, holdVars
<1> QED
  BY <1>1, <1>4, <1>5, <1>6, <1>7, <1>8, <1>9, <1>10, <1>11, <1>12, <1>13, <1>14, <1>15
     DEF Next

\* A key that comes into use is the current one.
LEMMA InUseMoves ==
  ASSUME VersionsAssumption, TypeOK, [Next]_vars, NEW k \in Keys, InUse(k)'
  PROVE  InUse(k) \/ k = version
<1> USE DEF TypeOK
<1>1. CASE UNCHANGED <<entry, pc, key>>
  BY <1>1 DEF InUse, None
<1>2. ASSUME NEW j \in Keys, entry' = [entry EXCEPT ![j] = None], UNCHANGED <<pc, key>>
      PROVE  InUse(k)
  BY <1>2 DEF InUse
<1>3. ASSUME NEW c \in Calls, Start(c)
      PROVE  InUse(k) \/ k = version
  BY <1>3, ThreadTypes DEF Start, InUse, cacheVars
<1>4. ASSUME NEW t \in Threads, pc[t] # "idle", key' = key,
             \A u \in Threads \ {t} : pc'[u] = pc[u],
             \A j \in Keys \ {key[t]} : entry'[j] = entry[j]
      PROVE  InUse(k)
  BY <1>4 DEF InUse
<1>5. ASSUME NEW c \in Calls, HitStale(c)
      PROVE  InUse(k)
  <2> DEFINE t == <<c, "call">>
             u == <<c, "refresh">>
  <2>1. /\ entry' = entry /\ pc[t] # "idle"
        /\ key' = [key EXCEPT ![u] = key[t]]
        /\ \A v \in Threads \ {t, u} : pc'[v] = pc[v]
    BY <1>5, ThreadTypes DEF HitStale, TakesHit, cacheVars
  <2> QED
    BY <2>1, ThreadTypes DEF InUse
<1>6. ASSUME NEW c \in Calls,
             \/ Miss(c) \/ HitSimple(c) \/ HitFresh(c)
             \/ AsksRemaining(c) \/ Renew(c) \/ ReturnUncached(c)
      PROVE  InUse(k)
  <2> DEFINE t == <<c, "call">>
  <2>1. /\ t \in Threads /\ pc[t] # "idle" /\ key' = key
        /\ \A u \in Threads \ {t} : pc'[u] = pc[u]
        /\ \A j \in Keys \ {key[t]} : entry'[j] = entry[j]
    BY <1>6, ThreadTypes
       DEF Miss, HitSimple, HitFresh, TakesHit, AsksRemaining, Renew, ReturnUncached, cacheVars
  <2> QED
    BY <1>4, <2>1
<1>7. ASSUME NEW t \in Threads, Fetch(t) \/ Save(t)
      PROVE  InUse(k)
  <2>1. /\ pc[t] # "idle" /\ key' = key
        /\ \A u \in Threads \ {t} : pc'[u] = pc[u]
        /\ \A j \in Keys \ {key[t]} : entry'[j] = entry[j]
    BY <1>7 DEF Fetch, Save, cacheVars
  <2> QED
    BY <1>4, <2>1
<1>8. ASSUME NEW w \in Writers, Commit(w) \/ ReadVersions(w) \/ SetVersion(w)
      PROVE  UNCHANGED <<entry, pc, key>>
  BY <1>8 DEF Commit, ReadVersions, SetVersion, cacheVars
<1>9. ASSUME NEW w \in Writers, Remove(w)
      PROVE  InUse(k)
  BY <1>2, <1>9 DEF Remove
<1>10. ASSUME NEW j \in Keys, Expire(j)
       PROVE  InUse(k)
  BY <1>2, <1>10 DEF Expire
<1>11. ASSUME NEW c \in Counters, VersionExpires(c)
       PROVE  UNCHANGED <<entry, pc, key>>
  BY <1>11 DEF VersionExpires, cacheVars
<1>12. CASE UNCHANGED vars
  BY <1>1, <1>12 DEF vars, cacheVars
<1> QED
  BY <1>1, <1>3, <1>5, <1>6, <1>7, <1>8, <1>9, <1>10, <1>11, <1>12 DEF Next

-----------------------------------------------------------------------------
(* The invariant.                                                          *)

LEMMA InvInit ==
  ASSUME VersionsAssumption, Init
  PROVE  IInv
<1>1. TypeOK
  BY TypeInit
<1>2. DbInv /\ IdleInv /\ DoneInv /\ DueInv /\ AnswerInv
  BY ThreadTypes DEF Init, DbInv, IdleInv, DoneInv, DueInv, AnswerInv
<1>3. CoveredInv
  BY DEF Init, CoveredInv, NewerThan
<1>4. KnownInv /\ RecentInv
  BY DEF Init, KnownInv, RecentInv, InUse, Holds
<1> QED
  BY <1>1, <1>2, <1>3, <1>4 DEF IInv, StrictInv

LEMMA DbStep ==
  ASSUME VersionsAssumption, TypeOK, DbInv, [Next]_vars
  PROVE  DbInv'
<1> SUFFICES ASSUME NEW w \in Writers, wpc'[w] # "idle"
             PROVE  mine'[w] <= db'
  BY DEF DbInv
<1>1. mine[w] \in Nat /\ db \in Nat
  BY DEF TypeOK
<1> QED
  BY <1>1, WriterMoves DEF DbInv

LEMMA KnownStep ==
  ASSUME VersionsAssumption, TypeOK, KnownInv, [Next]_vars, ~setBack', TypeOK'
  PROVE  KnownInv'
<1> SUFFICES ASSUME NEW k \in Keys, InUse(k)', NEW c \in Counters
             PROVE  k[c] <= version'[c]
  BY DEF KnownInv
<1>1. k[c] <= version[c]
  <2>1. k[c] \in Int
    BY DEF Keys
  <2> QED
    BY <2>1, InUseMoves DEF KnownInv
<1>2. k[c] \in Int /\ version[c] \in Int /\ version'[c] \in Int
  BY DEF TypeOK, Keys
<1> QED
  BY <1>1, <1>2, VersionGrows

\* The one place where keys, data and versions meet: data just fetched hold
\* every commit, and a writer that reads the versions reads the newest keys.
LEMMA RecentStep ==
  ASSUME VersionsAssumption, TypeOK, DbInv, KnownInv, RecentInv, [Next]_vars, ~setBack'
  PROVE  RecentInv'
<1> SUFFICES ASSUME NEW k \in Keys, NEW n \in Nat, NEW w \in Writers,
                    Holds(k, n)', wpc'[w] \in {"write", "done"}, Increments(w),
                    n < mine'[w]
             PROVE  k[Kind[w]] <= seen'[w][Kind[w]]
  BY DEF RecentInv, Increments, Read
<1>0. Kind[w] \in Counters /\ wpc[w] \in {"idle", "read", "write", "done"}
  BY DEF Increments, TypeOK
<1>1. wpc[w] # "idle" /\ mine'[w] = mine[w]
  BY <1>0, WriterMoves
<1>2. Holds(k, n)
  <2>1. n # db
    BY <1>1 DEF DbInv, TypeOK
  <2> QED
    BY <2>1, HoldsMoves
<1>3. CASE wpc[w] = "read"
  <2>1. seen'[w] = version
    BY <1>3, WriterMoves
  <2>2. InUse(k)
    BY <1>2 DEF Holds, InUse, None
  <2> QED
    BY <1>0, <2>1, <2>2 DEF KnownInv
<1>4. CASE wpc[w] \in {"write", "done"}
  <2>1. seen'[w] = seen[w]
    BY <1>4, WriterMoves
  <2> QED
    BY <1>1, <1>2, <1>4, <2>1 DEF RecentInv, Increments, Read
<1> QED
  BY <1>0, <1>1, <1>3, <1>4

LEMMA DoneStep ==
  ASSUME VersionsAssumption, TypeOK, DoneInv, [Next]_vars, ~setBack', TypeOK'
  PROVE  DoneInv'
<1> SUFFICES ASSUME NEW w \in Writers, wpc'[w] = "done", Increments(w)
             PROVE  seen'[w][Kind[w]] < version'[Kind[w]]
  BY DEF DoneInv, Increments, Read
<1>0. /\ Kind[w] \in Counters
      /\ \A c \in Counters : /\ version[c] \in Int /\ version'[c] \in Int
                            /\ seen[w][c] \in Int
  BY DEF Increments, TypeOK, Keys
<1>1. CASE wpc[w] = "done"
  BY <1>0, <1>1, WriterMoves, VersionGrows DEF DoneInv, Read
<1>2. CASE wpc[w] # "done"
  <2>1. wpc[w] = "write" /\ seen'[w] = seen[w]
    BY <1>2, WriterMoves
  <2>2. SetVersion(w)
    <3>1. \A u \in Writers \ {w} :
            ~Commit(u) /\ ~ReadVersions(u) /\ ~SetVersion(u) /\ ~Remove(u)
      BY <1>2 DEF Commit, ReadVersions, SetVersion, Remove, TypeOK
    <3>2. ~Commit(w) /\ ~ReadVersions(w) /\ ~Remove(w)
      BY <1>0, <2>1 DEF Commit, ReadVersions, Remove, Counters
    <3>3. wpc' # wpc
      BY <1>2
    <3> QED
      BY <3>1, <3>2, <3>3
         DEF Next, vars, writerVars, Start, Miss, HitSimple, HitFresh, HitStale, TakesHit,
             AsksRemaining, Renew, ReturnUncached, Fetch, Save, Expire, VersionExpires
  <2>3. version'[Kind[w]] = seen[w][Kind[w]] + 1
    BY <1>0, <2>2 DEF SetVersion, TypeOK, Keys
  <2> QED
    BY <1>0, <2>1, <2>3
<1> QED
  BY <1>1, <1>2

\* A key that was newer stays newer, and so does any greater one.
LEMMA NewerKept ==
  ASSUME VersionsAssumption, TypeOK, [Next]_vars, NEW j \in Keys, NEW k \in Keys,
         NEW d \in Nat, NewerThan(j, d), \A c \in Counters : j[c] <= k[c]
  PROVE  NewerThan(k, d)'
<1>1. CASE d = 0
  BY <1>1 DEF NewerThan
<1>2. ASSUME NEW w \in Writers, wpc[w] = "done", Increments(w), mine[w] = d,
             Read(w) < j[Kind[w]]
      PROVE  NewerThan(k, d)'
  <2>1. wpc'[w] = "done" /\ mine'[w] = d /\ seen'[w] = seen[w]
    BY <1>2, WriterMoves
  <2>2. /\ Kind[w] \in Counters /\ seen[w][Kind[w]] \in Int
        /\ j[Kind[w]] \in Int /\ k[Kind[w]] \in Int
    BY <1>2 DEF Increments, TypeOK, Keys
  <2>3. seen'[w][Kind[w]] < k[Kind[w]]
    BY <1>2, <2>1, <2>2 DEF Read
  <2> QED
    BY <1>2, <2>1, <2>3 DEF NewerThan, Increments, Read
<1> QED
  BY <1>1, <1>2 DEF NewerThan

LEMMA CoveredStep ==
  ASSUME VersionsAssumption, TypeOK, CoveredInv, DoneInv', [Next]_vars, ~setBack', TypeOK'
  PROVE  CoveredInv'
<1>0. version \in Keys /\ version' \in Keys /\ covered \in Nat
  BY DEF TypeOK
<1>1. CASE covered' = covered
  <2>1. PICK j \in Keys, k \in Keys, d \in Nat : j = version /\ k = version' /\ d = covered
    BY <1>0
  <2>2. NewerThan(j, d)
    BY <2>1 DEF CoveredInv
  <2>3. \A c \in Counters : j[c] <= k[c]
    BY <2>1, VersionGrows
  <2>4. NewerThan(k, d)'
    BY <2>2, <2>3, NewerKept
  <2> QED
    BY <1>1, <2>1, <2>4 DEF CoveredInv, NewerThan
<1>2. ASSUME NEW w \in Writers, SetVersion(w), covered' # covered
      PROVE  CoveredInv'
  <2>1. /\ covered' = mine'[w] /\ wpc'[w] = "done" /\ Increments(w)
    BY <1>2 DEF SetVersion, Increments, TypeOK
  <2>2. seen'[w][Kind[w]] < version'[Kind[w]]
    BY <2>1 DEF DoneInv, Increments, Read
  <2> QED
    BY <2>1, <2>2 DEF CoveredInv, NewerThan, Increments, Read
<1>3. covered' = covered \/ \E w \in Writers : SetVersion(w)
  BY DEF Next, vars, Commit, ReadVersions, Remove, Start, Miss, HitSimple, HitFresh,
         HitStale, TakesHit, AsksRemaining, Renew, ReturnUncached, Fetch, Save, Expire,
         VersionExpires
<1> QED
  BY <1>1, <1>2, <1>3

\* A call computes its key once; what is due to it is fixed at the same time.
LEMMA CallMoves ==
  ASSUME VersionsAssumption, TypeOK, [Next]_vars, NEW c \in Calls,
         pc'[<<c, "call">>] # "idle"
  PROVE  \/ /\ pc[<<c, "call">>] # "idle"
            /\ key'[<<c, "call">>] = key[<<c, "call">>] /\ due'[c] = due[c]
         \/ /\ key'[<<c, "call">>] = version /\ due'[c] = covered
            /\ version' = version
<1> DEFINE t == <<c, "call">>
           Kept == pc[t] # "idle" /\ key'[t] = key[t] /\ due'[c] = due[c]
<1> USE DEF TypeOK
<1>1. CASE UNCHANGED <<pc, key, due>>
  BY <1>1
<1>2. ASSUME NEW d \in Calls, Start(d)
      PROVE  Kept \/ (key'[t] = version /\ due'[c] = covered /\ version' = version)
  BY <1>2, ThreadTypes DEF Start
<1>3. ASSUME NEW d \in Calls, HitStale(d)
      PROVE  Kept
  <2>1. \A v \in Threads \ {<<d, "refresh">>} : key'[v] = key[v]
    BY <1>3, ThreadTypes DEF HitStale
  <2>2. \A v \in Threads \ {<<d, "refresh">>, <<d, "call">>} : pc'[v] = pc[v]
    BY <1>3, ThreadTypes DEF HitStale
  <2>3. t \in Threads /\ t # <<d, "refresh">> /\ (t = <<d, "call">> => pc[t] # "idle")
    BY <1>3, ThreadTypes DEF HitStale, TakesHit
  <2>4. due' = due
    BY <1>3 DEF HitStale, TakesHit
  <2> QED
    BY <2>1, <2>2, <2>3, <2>4
<1>4. ASSUME NEW v \in Threads, pc[v] # "idle", key' = key, due' = due,
             \A u \in Threads \ {v} : pc'[u] = pc[u]
      PROVE  Kept
  BY <1>4, ThreadTypes
<1>5. ASSUME NEW d \in Calls,
             \/ Miss(d) \/ HitSimple(d) \/ HitFresh(d)
             \/ AsksRemaining(d) \/ Renew(d) \/ ReturnUncached(d)
      PROVE  Kept
  <2>1. /\ <<d, "call">> \in Threads /\ pc[<<d, "call">>] # "idle" /\ key' = key
        /\ due' = due /\ \A u \in Threads \ {<<d, "call">>} : pc'[u] = pc[u]
    BY <1>5, ThreadTypes
       DEF Miss, HitSimple, HitFresh, TakesHit, AsksRemaining, Renew, ReturnUncached
  <2> QED
    BY <1>4, <2>1
<1>6. ASSUME NEW v \in Threads, Fetch(v) \/ Save(v)
      PROVE  Kept
  BY <1>4, <1>6 DEF Fetch, Save
<1>7. \/ UNCHANGED <<pc, key, due>>
      \/ \E d \in Calls :
           \/ Start(d) \/ Miss(d) \/ HitSimple(d) \/ HitFresh(d) \/ HitStale(d)
           \/ AsksRemaining(d) \/ Renew(d) \/ ReturnUncached(d)
      \/ \E v \in Threads : Fetch(v) \/ Save(v)
  BY DEF Next, vars, Commit, ReadVersions, SetVersion, Remove, Expire, VersionExpires
<1> QED
  BY <1>1, <1>2, <1>3, <1>5, <1>6, <1>7

LEMMA DueStep ==
  ASSUME VersionsAssumption, TypeOK, CoveredInv, DueInv, [Next]_vars, ~setBack'
  PROVE  DueInv'
<1> SUFFICES ASSUME NEW c \in Calls, pc'[<<c, "call">>] # "idle"
             PROVE  NewerThan(key[<<c, "call">>], due[c])'
  BY DEF DueInv
<1> DEFINE t == <<c, "call">>
<1>0. t \in Threads /\ key[t] \in Keys /\ due[c] \in Nat /\ version \in Keys /\ covered \in Nat
  BY ThreadTypes DEF TypeOK
<1>1. CASE pc[t] # "idle" /\ key'[t] = key[t] /\ due'[c] = due[c]
  <2>1. PICK k \in Keys, d \in Nat : k = key[t] /\ d = due[c]
    BY <1>0
  <2>2. NewerThan(k, d)
    BY <1>1, <2>1 DEF DueInv
  <2>3. \A e \in Counters : k[e] <= k[e]
    BY DEF Keys
  <2>4. NewerThan(k, d)'
    BY <2>2, <2>3, NewerKept
  <2> QED
    BY <1>1, <2>1, <2>4 DEF NewerThan
<1>2. CASE key'[t] = version /\ due'[c] = covered
  <2>1. PICK k \in Keys, d \in Nat : k = version /\ d = covered
    BY <1>0
  <2>2. NewerThan(k, d)
    BY <2>1 DEF CoveredInv
  <2>3. \A e \in Counters : k[e] <= k[e]
    BY DEF Keys
  <2>4. NewerThan(k, d)'
    BY <2>2, <2>3, NewerKept
  <2> QED
    BY <1>2, <2>1, <2>4 DEF NewerThan
<1> QED
  BY <1>1, <1>2, CallMoves

\* Data held under a key that is newer than a commit hold that commit.
LEMMA HeldIsRecent ==
  ASSUME VersionsAssumption, TypeOK, RecentInv,
         NEW k \in Keys, NEW n \in Nat, NEW d \in Nat, Holds(k, n), NewerThan(k, d)
  PROVE  n >= d
<1>1. ASSUME NEW w \in Writers, wpc[w] = "done", Increments(w), mine[w] = d,
             Read(w) < k[Kind[w]]
      PROVE  ~(n < d)
  <2>1. Read(w) \in Int /\ k[Kind[w]] \in Int
    BY <1>1 DEF Increments, Read, TypeOK, Keys
  <2> QED
    BY <1>1, <2>1 DEF RecentInv
<1> QED
  BY <1>1 DEF NewerThan

\* A call returns what its key holds.
LEMMA AnswerMoves ==
  ASSUME VersionsAssumption, TypeOK, [Next]_vars, NEW c \in Calls, answer'[c] # None
  PROVE  \/ /\ answer'[c] = answer[c]
            /\ due'[c] = due[c] \/ pc[<<c, "call">>] = "idle"
         \/ /\ pc[<<c, "call">>] # "idle" /\ due'[c] = due[c]
            /\ answer'[c] \in Nat /\ Holds(key[<<c, "call">>], answer'[c])
<1> DEFINE t == <<c, "call">>
<1> USE DEF TypeOK
<1>1. CASE UNCHANGED <<answer, due>>
  BY <1>1
<1>2. ASSUME NEW d \in Calls, Start(d)
      PROVE  answer'[c] = answer[c] /\ (due'[c] = due[c] \/ pc[t] = "idle")
  BY <1>2 DEF Start
<1>3. ASSUME NEW d \in Calls, TakesHit(d)
      PROVE  \/ answer'[c] = answer[c] /\ due'[c] = due[c]
             \/ /\ pc[t] # "idle" /\ due'[c] = due[c] /\ answer'[c] \in Nat
                /\ Holds(key[t], answer'[c])
  BY <1>3, ThreadTypes DEF TakesHit, Holds, Data
<1>4. ASSUME NEW v \in Threads, pc[v] = "save", Answers(v), due' = due
      PROVE  \/ answer'[c] = answer[c] /\ due'[c] = due[c]
             \/ /\ pc[t] # "idle" /\ due'[c] = due[c] /\ answer'[c] \in Nat
                /\ Holds(key[t], answer'[c])
  <2>1. CASE v = t
    BY <1>4, <2>1 DEF Answers, Holds
  <2>2. CASE v # t
    BY <1>4, <2>2 DEF Answers, Threads
  <2> QED
    BY <2>1, <2>2
<1>5. \/ UNCHANGED <<answer, due>>
      \/ \E d \in Calls : Start(d) \/ TakesHit(d)
      \/ \E v \in Threads : pc[v] = "save" /\ Answers(v) /\ due' = due
  BY ThreadTypes
     DEF Next, vars, Commit, ReadVersions, SetVersion, Remove, Expire, VersionExpires,
         Miss, HitSimple, HitFresh, HitStale, AsksRemaining, Renew, ReturnUncached,
         Fetch, Save
<1> QED
  BY <1>1, <1>2, <1>3, <1>4, <1>5

LEMMA AnswerStep ==
  ASSUME VersionsAssumption, TypeOK, IdleInv, RecentInv, DueInv, AnswerInv, [Next]_vars
  PROVE  AnswerInv'
<1> SUFFICES ASSUME NEW c \in Calls, answer'[c] # None
             PROVE  answer'[c] >= due'[c]
  BY DEF AnswerInv
<1> DEFINE t == <<c, "call">>
<1>0. t \in Threads /\ key[t] \in Keys /\ due[c] \in Nat
  BY ThreadTypes DEF TypeOK
<1>1. CASE answer'[c] = answer[c] /\ (due'[c] = due[c] \/ pc[t] = "idle")
  BY <1>1 DEF AnswerInv, IdleInv
<1>2. CASE /\ pc[t] # "idle" /\ due'[c] = due[c]
           /\ answer'[c] \in Nat /\ Holds(key[t], answer'[c])
  <2>1. NewerThan(key[t], due[c])
    BY <1>2 DEF DueInv
  <2>2. PICK n \in Nat : n = answer'[c]
    BY <1>2
  <2>3. n >= due[c]
    BY <1>0, <1>2, <2>1, <2>2, HeldIsRecent
  <2> QED
    BY <1>2, <2>2, <2>3
<1> QED
  BY <1>1, <1>2, AnswerMoves

LEMMA IdleStep ==
  ASSUME VersionsAssumption, TypeOK, IdleInv, [Next]_vars
  PROVE  IdleInv'
<1> SUFFICES ASSUME NEW c \in Calls, pc'[<<c, "call">>] = "idle"
             PROVE  answer'[c] = None
  BY DEF IdleInv
<1> DEFINE t == <<c, "call">>
           Kept == pc[t] = "idle" /\ answer'[c] = answer[c]
<1> USE DEF TypeOK
<1>1. CASE UNCHANGED <<pc, answer>>
  BY <1>1 DEF IdleInv
<1>2. ASSUME NEW d \in Calls, Start(d) \/ Miss(d) \/ AsksRemaining(d) \/ Renew(d)
      PROVE  Kept
  <2>1. <<d, "call">> # t
    BY <1>2, ThreadTypes DEF Start, Miss, AsksRemaining, Renew
  <2> QED
    BY <1>2, <2>1, ThreadTypes DEF Start, Miss, AsksRemaining, Renew
<1>3. ASSUME NEW d \in Calls, HitSimple(d) \/ HitFresh(d) \/ HitStale(d)
      PROVE  Kept
  <2>1. d # c
    BY <1>3, ThreadTypes DEF HitSimple, HitFresh, HitStale
  <2>2. t # <<d, "call">> /\ t # <<d, "refresh">>
    BY <2>1
  <2>3. pc'[t] = pc[t]
    BY <1>3, <2>2, ThreadTypes DEF HitSimple, HitFresh, HitStale
  <2>4. answer'[c] = answer[c]
    BY <1>3, <2>1 DEF HitSimple, HitFresh, HitStale, TakesHit
  <2> QED
    BY <2>3, <2>4
<1>4. ASSUME NEW v \in Threads, Save(v) \/ Fetch(v)
      PROVE  Kept
  <2>1. v # t
    BY <1>4, ThreadTypes DEF Save, Fetch
  <2>2. answer'[c] = answer[c]
    BY <1>4, <2>1 DEF Save, Fetch, Answers, Threads
  <2> QED
    BY <1>4, <2>1, <2>2, ThreadTypes DEF Save, Fetch
<1>5. ASSUME NEW d \in Calls, ReturnUncached(d)
      PROVE  Kept
  <2>1. d # c
    BY <1>5, ThreadTypes DEF ReturnUncached
  <2> QED
    BY <1>5, <2>1, ThreadTypes DEF ReturnUncached, Answers
<1>6. \/ UNCHANGED <<pc, answer>>
      \/ \E d \in Calls :
           \/ Start(d) \/ Miss(d) \/ HitSimple(d) \/ HitFresh(d) \/ HitStale(d)
           \/ AsksRemaining(d) \/ Renew(d) \/ ReturnUncached(d)
      \/ \E v \in Threads : Fetch(v) \/ Save(v)
  BY DEF Next, vars, Commit, ReadVersions, SetVersion, Remove, Expire, VersionExpires
<1> QED
  BY <1>1, <1>2, <1>3, <1>4, <1>5, <1>6 DEF IdleInv

LEMMA InvStep ==
  ASSUME VersionsAssumption, IInv, [Next]_vars
  PROVE  IInv'
<1> USE DEF IInv
<1>1. TypeOK' /\ DbInv' /\ IdleInv'
  BY TypeStep, DbStep, IdleStep
<1>2. ASSUME ~setBack'
      PROVE  StrictInv'
  <2>1. StrictInv
    BY <1>2, VersionGrows
  <2>2. KnownInv' /\ RecentInv' /\ DoneInv'
    BY <1>1, <1>2, <2>1, KnownStep, RecentStep, DoneStep DEF StrictInv
  <2>3. CoveredInv' /\ DueInv' /\ AnswerInv'
    BY <1>1, <1>2, <2>1, <2>2, CoveredStep, DueStep, AnswerStep DEF StrictInv
  <2> QED
    BY <2>2, <2>3 DEF StrictInv
<1> QED
  BY <1>1, <1>2

-----------------------------------------------------------------------------
(* The theorems.                                                           *)

\* The invariant holds in every reachable state: what is cached or held under
\* a key is recent enough for the versions in that key (remember).
THEOREM Invariance == ASSUME VersionsAssumption PROVE Spec => []IInv
<1>1. Init => IInv
  BY InvInit
<1>2. IInv /\ [Next]_vars => IInv'
  BY InvStep
<1> QED
  BY <1>1, <1>2, PTL DEF Spec

\* Every variable keeps its type, for any calls, handlers and bounds.
THEOREM TypeCorrect == ASSUME VersionsAssumption PROVE Spec => []TypeOK
<1>1. IInv => TypeOK
  BY DEF IInv
<1> QED
  BY <1>1, Invariance, PTL

\* For any number of calls and handlers, in any order of their reads and
\* writes, a call that starts after a change was invalidated returns data with
\* that change, as long as no version counter was set back (remember,
\* incrementVersion, incrementEntityVersion).
THEOREM FreshData == ASSUME VersionsAssumption PROVE Spec => []FreshUnlessSetBack
<1>1. IInv => FreshUnlessSetBack
  BY DEF IInv, StrictInv, AnswerInv, FreshUnlessSetBack
<1> QED
  BY <1>1, Invariance, PTL

=============================================================================
