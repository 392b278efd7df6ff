-------------------------- MODULE MCCustomerAccounts --------------------------
(***************************************************************************)
(* Instances of CustomerAccounts for TLC.                                  *)
(***************************************************************************)
EXTENDS CustomerAccounts, TLC

CONSTANTS e1, e2, s1, p1, p2, r1, r2, r3, r4

Does(op, kind, email, old, new) ==
  [op |-> op, key |-> [kind |-> kind, email |-> email, session |-> s1],
   old |-> old, new |-> new]

Verifies(op, email) == Does(op, "verification", email, p1, p1)

Restores(op) == Does(op, "restore-password", e1, p1, p2)

\* Codes for one address, and a registration for another that shares the
\* session; then passwords and Google.
JobsFour ==
  r1 :> {Verifies("sendToken", e1)} @@
  r2 :> {Verifies("register", e1), Verifies("resendToken", e1),
         Verifies("loginWithGoogle", e1)} @@
  r3 :> {Verifies("register", e1), Verifies("register", e2), Verifies("resendToken", e1),
         Restores("sendToken"), Verifies("loginWithGoogle", e1)} @@
  r4 :> {Verifies("register", e1), Restores("restoreAuth"), Restores("restorePublic"),
         Verifies("login", e1), Verifies("loginWithGoogle", e1)}

=============================================================================
