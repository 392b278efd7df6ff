---------------------------- MODULE CacheVersions ----------------------------
(***************************************************************************)
(* How CacheService keeps cached data of one entity and query from being   *)
(* served after the database has changed: an entry's key carries two       *)
(* version numbers, the entity's and the query's, and a handler that has   *)
(* committed a change increments one of them, so that the next call looks  *)
(* under a key that no earlier call has filled.                            *)
(*                                                                         *)
(* The increment is a GET and a SET, not an INCR, and the version keys     *)
(* expire after seven days.  A call of remember reads the versions first,  *)
(* then looks up, fetches and saves under the key it has computed, as late *)
(* as may be.  removeData deletes the entry under the current key instead. *)
(*                                                                         *)
(* Data are numbered by the commits they contain.                          *)
(***************************************************************************)
EXTENDS Integers, FiniteSets

CONSTANTS
  Calls,               \* calls of remember for the entity and query
  Strategy,            \* Strategy[c]: the cache strategy of call c
  Writers,             \* handlers that change the data and invalidate
  Kind,                \* Kind[w]: what writer w does to the cache
  MaxHitRenewals,      \* hits of simpleFind that restart an entry's time to live
  MaxVersion,          \* bound: version numbers
  MaxVersionExpiries   \* bound: version keys that expire

Strategies == {"simpleFind", "staleWhileRevalidate", "staleWhileRevalidateWithLock"}

Counters == {"entity", "query"}

\* A call, and the background refresh it may start.
Threads == Calls \X {"call", "refresh"}

ASSUME VersionsAssumption ==
  /\ Strategy \in [Calls -> Strategies]
  /\ Kind \in [Writers -> Counters \cup {"remove"}]
  /\ MaxHitRenewals \in Nat
  /\ MaxVersion \in Nat \ {0}
  /\ MaxVersionExpiries \in Nat

Keys == [Counters -> 1 .. MaxVersion]

None == -1

VARIABLES
  db,         \* commits so far
  version,    \* the version counters; an absent key counts as 1
  entry,      \* the data cached under a key, None if there is no entry
  hits,       \* the entry's hitCount, up to the first beyond MaxHitRenewals
  forever,    \* keys whose entry has no expiry
  wpc,        \* where a writer stands
  mine,       \* the number of a writer's commit
  seen,       \* the versions a writer has read
  covered,    \* history: newest commit whose version has been incremented
  setBack,    \* history: a version counter has been set to a lower number
  expiries,   \* version keys that have expired
  pc,         \* where a thread stands
  key,        \* the key a thread has computed
  value,      \* the data a thread holds
  count,      \* the hitCount a thread will write
  unlimited,  \* the thread will write its entry without an expiry
  due,        \* history: covered when a call started
  answer      \* what a call has returned, None before

cacheVars == <<entry, hits, forever>>
writerVars == <<wpc, mine, seen>>
holdVars == <<value, count, unlimited>>
vars == <<db, version, cacheVars, writerVars, covered, setBack, expiries, pc, key,
          holdVars, due, answer>>

-----------------------------------------------------------------------------
(* The writers.                                                            *)

Commit(w) ==
  /\ wpc[w] = "idle"
  /\ db' = db + 1
  /\ mine' = [mine EXCEPT ![w] = db + 1]
  /\ wpc' = [wpc EXCEPT ![w] = "read"]
  /\ UNCHANGED <<version, cacheVars, seen, covered, setBack, expiries, pc, key,
                 holdVars, due, answer>>

\* getVersionsBatch: both counters in one round trip.
ReadVersions(w) ==
  /\ wpc[w] = "read"
  /\ seen' = [seen EXCEPT ![w] = version]
  /\ wpc' = [wpc EXCEPT ![w] = "write"]
  /\ UNCHANGED <<db, version, cacheVars, mine, covered, setBack, expiries, pc, key,
                 holdVars, due, answer>>

\* incrementEntityVersion, incrementVersion: SET to what was read, plus one.
SetVersion(w) ==
  LET k == Kind[w]
      next == seen[w][k] + 1 IN
  /\ wpc[w] = "write"
  /\ k \in Counters
  /\ next <= MaxVersion
  /\ version' = [version EXCEPT ![k] = next]
  /\ setBack' = (setBack \/ next < version[k])
  /\ covered' = IF mine[w] > covered THEN mine[w] ELSE covered
  /\ wpc' = [wpc EXCEPT ![w] = "done"]
  /\ UNCHANGED <<db, cacheVars, mine, seen, expiries, pc, key, holdVars, due, answer>>

\* removeData: the entry under the key it has computed.
Remove(w) ==
  /\ wpc[w] = "write"
  /\ Kind[w] = "remove"
  /\ entry' = [entry EXCEPT ![seen[w]] = None]
  /\ forever' = forever \ {seen[w]}
  /\ wpc' = [wpc EXCEPT ![w] = "done"]
  /\ UNCHANGED <<db, version, hits, mine, seen, covered, setBack, expiries, pc, key,
                 holdVars, due, answer>>

-----------------------------------------------------------------------------
(* remember.                                                               *)

Start(c) ==
  LET t == <<c, "call">> IN
  /\ pc[t] = "idle"
  /\ key' = [key EXCEPT ![t] = version]
  /\ due' = [due EXCEPT ![c] = covered]
  /\ pc' = [pc EXCEPT ![t] = "lookup"]
  /\ UNCHANGED <<db, version, cacheVars, writerVars, covered, setBack, expiries,
                 holdVars, answer>>

Miss(c) ==
  LET t == <<c, "call">> IN
  /\ pc[t] = "lookup"
  /\ entry[key[t]] = None
  /\ pc' = [pc EXCEPT ![t] = "fetch"]
  /\ UNCHANGED <<db, version, cacheVars, writerVars, covered, setBack, expiries, key,
                 holdVars, due, answer>>

\* The cached data is returned, to be written back with its hit counted.
TakesHit(c) ==
  LET t == <<c, "call">> IN
  /\ pc[t] = "lookup"
  /\ entry[key[t]] # None
  /\ answer' = [answer EXCEPT ![c] = entry[key[t]]]
  /\ value' = [value EXCEPT ![t] = entry[key[t]]]
  /\ count' = [count EXCEPT ![t] = IF hits[key[t]] > MaxHitRenewals
                                   THEN hits[key[t]] ELSE hits[key[t]] + 1]
  /\ UNCHANGED <<db, version, cacheVars, writerVars, covered, setBack, expiries, due>>

\* simpleFind: the first hits restart the full time to live, later ones ask
\* for the time that remains.
HitSimple(c) ==
  LET t == <<c, "call">> IN
  /\ Strategy[c] = "simpleFind"
  /\ TakesHit(c)
  /\ pc' = [pc EXCEPT ![t] = IF count'[t] <= MaxHitRenewals THEN "renew" ELSE "pttl"]
  /\ unlimited' = [unlimited EXCEPT ![t] = FALSE]
  /\ UNCHANGED key

\* The revalidating strategies: a fresh hit.
HitFresh(c) ==
  LET t == <<c, "call">> IN
  /\ Strategy[c] # "simpleFind"
  /\ TakesHit(c)
  /\ pc' = [pc EXCEPT ![t] = "pttl"]
  /\ UNCHANGED <<key, unlimited>>

\* A stale hit starts the refresh; only the strategy with a lock writes the
\* old entry back as well.
HitStale(c) ==
  LET t == <<c, "call">>
      u == <<c, "refresh">> IN
  /\ Strategy[c] # "simpleFind"
  /\ TakesHit(c)
  /\ pc' = [pc EXCEPT ![t] = IF Strategy[c] = "staleWhileRevalidateWithLock"
                             THEN "pttl" ELSE "done",
                      ![u] = "fetch"]
  /\ key' = [key EXCEPT ![u] = key[t]]
  /\ UNCHANGED unlimited

\* PTTL: without an answer simpleFind writes the entry without an expiry, the
\* others with the time to live of the entry they have read.
AsksRemaining(c) ==
  LET t == <<c, "call">> IN
  /\ pc[t] = "pttl"
  /\ unlimited' = [unlimited EXCEPT ![t] =
       /\ Strategy[c] = "simpleFind"
       /\ entry[key[t]] = None \/ key[t] \in forever]
  /\ pc' = [pc EXCEPT ![t] = "renew"]
  /\ UNCHANGED <<db, version, cacheVars, writerVars, covered, setBack, expiries, key,
                 value, count, due, answer>>

Renew(c) ==
  LET t == <<c, "call">> IN
  /\ pc[t] = "renew"
  /\ entry' = [entry EXCEPT ![key[t]] = value[t]]
  /\ hits' = [hits EXCEPT ![key[t]] = count[t]]
  /\ forever' = IF unlimited[t] THEN forever \cup {key[t]} ELSE forever \ {key[t]}
  /\ pc' = [pc EXCEPT ![t] = "done"]
  /\ UNCHANGED <<db, version, writerVars, covered, setBack, expiries, key, holdVars,
                 due, answer>>

\* The fallback's query.
Fetch(t) ==
  /\ pc[t] = "fetch"
  /\ value' = [value EXCEPT ![t] = db]
  /\ pc' = [pc EXCEPT ![t] = "save"]
  /\ UNCHANGED <<db, version, cacheVars, writerVars, covered, setBack, expiries, key,
                 count, unlimited, due, answer>>

Answers(t) == answer' = IF t[2] = "call" THEN [answer EXCEPT ![t[1]] = value[t]] ELSE answer

\* Mutant: the key is computed anew after the fallback.
SaveUnderCurrentKey(t) ==
  /\ pc[t] = "save"
  /\ entry' = [entry EXCEPT ![version] = value[t]]
  /\ hits' = [hits EXCEPT ![version] = 0]
  /\ forever' = forever \ {version}
  /\ Answers(t)
  /\ pc' = [pc EXCEPT ![t] = "done"]
  /\ UNCHANGED <<db, version, writerVars, covered, setBack, expiries, key, holdVars, due>>

Save(t) ==
  /\ pc[t] = "save"
  /\ entry' = [entry EXCEPT ![key[t]] = value[t]]
  /\ hits' = [hits EXCEPT ![key[t]] = 0]
  /\ forever' = forever \ {key[t]}
  /\ Answers(t)
  /\ pc' = [pc EXCEPT ![t] = "done"]
  /\ UNCHANGED <<db, version, writerVars, covered, setBack, expiries, key, holdVars, due>>

\* A call that has waited too long for the holder of the lock returns what it
\* has fetched and caches nothing.
ReturnUncached(c) ==
  LET t == <<c, "call">> IN
  /\ pc[t] = "save"
  /\ Strategy[c] = "staleWhileRevalidateWithLock"
  /\ Answers(t)
  /\ pc' = [pc EXCEPT ![t] = "done"]
  /\ UNCHANGED <<db, version, cacheVars, writerVars, covered, setBack, expiries, key,
                 holdVars, due>>

-----------------------------------------------------------------------------
(* Redis' clock.                                                           *)

Expire(k) ==
  /\ entry[k] # None
  /\ k \notin forever
  /\ entry' = [entry EXCEPT ![k] = None]
  /\ UNCHANGED <<db, version, hits, forever, writerVars, covered, setBack, expiries,
                 pc, key, holdVars, due, answer>>

\* Mutant: an absent version key counts as zero.
VersionExpiresToZero(k) ==
  /\ expiries < MaxVersionExpiries
  /\ version[k] > 1
  /\ version' = [version EXCEPT ![k] = 0]
  /\ setBack' = TRUE
  /\ expiries' = expiries + 1
  /\ UNCHANGED <<db, cacheVars, writerVars, covered, pc, key, holdVars, due, answer>>

\* Seven days after the last increment.
VersionExpires(k) ==
  /\ expiries < MaxVersionExpiries
  /\ version[k] > 1
  /\ version' = [version EXCEPT ![k] = 1]
  /\ setBack' = TRUE
  /\ expiries' = expiries + 1
  /\ UNCHANGED <<db, cacheVars, writerVars, covered, pc, key, holdVars, due, answer>>

-----------------------------------------------------------------------------
FirstKey == [k \in Counters |-> 1]

Init ==
  /\ db = 0
  /\ version = FirstKey
  /\ entry = [k \in Keys |-> None]
  /\ hits = [k \in Keys |-> 0]
  /\ forever = {}
  /\ wpc = [w \in Writers |-> "idle"]
  /\ mine = [w \in Writers |-> 0]
  /\ seen = [w \in Writers |-> FirstKey]
  /\ covered = 0
  /\ setBack = FALSE
  /\ expiries = 0
  /\ pc = [t \in Threads |-> "idle"]
  /\ key = [t \in Threads |-> FirstKey]
  /\ value = [t \in Threads |-> 0]
  /\ count = [t \in Threads |-> 0]
  /\ unlimited = [t \in Threads |-> FALSE]
  /\ due = [c \in Calls |-> 0]
  /\ answer = [c \in Calls |-> None]

Next ==
  \/ \E w \in Writers : Commit(w) \/ ReadVersions(w) \/ SetVersion(w) \/ Remove(w)
  \/ \E c \in Calls :
       \/ Start(c) \/ Miss(c) \/ HitSimple(c) \/ HitFresh(c) \/ HitStale(c)
       \/ AsksRemaining(c) \/ Renew(c) \/ ReturnUncached(c)
  \/ \E t \in Threads : Fetch(t) \/ Save(t)
  \/ \E k \in Keys : Expire(k)
  \/ \E k \in Counters : VersionExpires(k)

Spec == Init /\ [][Next]_vars

-----------------------------------------------------------------------------
(* Properties.                                                             *)

Data == Nat \cup {None}

\* Every variable keeps its type.
TypeOK ==
  /\ db \in Nat
  /\ version \in Keys
  /\ entry \in [Keys -> Data]
  /\ hits \in [Keys -> 0 .. MaxHitRenewals + 1]
  /\ forever \subseteq Keys
  /\ wpc \in [Writers -> {"idle", "read", "write", "done"}]
  /\ mine \in [Writers -> Nat]
  /\ seen \in [Writers -> Keys]
  /\ covered \in Nat
  /\ setBack \in BOOLEAN
  /\ expiries \in Nat
  /\ pc \in [Threads -> {"idle", "lookup", "pttl", "renew", "fetch", "save", "done"}]
  /\ key \in [Threads -> Keys]
  /\ value \in [Threads -> Nat]
  /\ count \in [Threads -> 0 .. MaxHitRenewals + 1]
  /\ unlimited \in [Threads -> BOOLEAN]
  /\ due \in [Calls -> Nat]
  /\ answer \in [Calls -> Data]

\* A call that starts after a change was invalidated returns data with that
\* change, however late other calls save what they fetched before, refreshes
\* overtake each other or hits are written back, unless a version counter was
\* set back before (remember, incrementVersion, incrementEntityVersion).
FreshUnlessSetBack ==
  \A c \in Calls : answer[c] # None /\ ~setBack => answer[c] >= due[c]

=============================================================================
