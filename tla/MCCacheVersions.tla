--------------------------- MODULE MCCacheVersions ---------------------------
(***************************************************************************)
(* Instances of CacheVersions for TLC.                                     *)
(***************************************************************************)
EXTENDS CacheVersions, TLC

CONSTANTS c1, c2, c3, w1, w2, w3

LockAndSimple == c1 :> "staleWhileRevalidateWithLock" @@ c2 :> "simpleFind"

AllSimple == [c \in Calls |-> "simpleFind"]

\* Two invalidations of the entity, one deletion of the entry.
TwoAndRemove == w1 :> "entity" @@ w2 :> "entity" @@ w3 :> "remove"

AllEntity == [w \in Writers |-> "entity"]

=============================================================================
