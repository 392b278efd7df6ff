----------------------------- MODULE MCCacheLock -----------------------------
(***************************************************************************)
(* Instances of CacheLock for TLC.                                         *)
(***************************************************************************)
EXTENDS CacheLock, TLC

CONSTANTS c1, c2, c3

\* Two revalidating calls share two locks, one batch call has its own.
Mixed == c1 :> "staleWhileRevalidateWithLock" @@ c2 :> "staleWhileRevalidateWithLock"
           @@ c3 :> "multiGet"

=============================================================================
