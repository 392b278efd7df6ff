--------------------------- MODULE OrderPlacement ---------------------------
(***************************************************************************)
(* What POST /orders/v2 promises about the shop's counters, without the    *)
(* pipeline that keeps the promise: an order request finds the offers of   *)
(* its cart and is then either placed, in one step that moves every        *)
(* counter of the cart by what was found, or refused.  Refused requests    *)
(* may hand back quantities through the saga's compensations; a request is *)
(* never both placed and refused, and what it found no longer changes.     *)
(*                                                                         *)
(* The counters are the columns product_version.stock and                  *)
(* offers.current_uses.                                                    *)
(***************************************************************************)
EXTENDS Integers

CONSTANTS
  Requests,       \* order requests
  Rows,           \* counters: one per product version and one per offer
  Skus,           \* product versions
  OfferLists,     \* what a request may find: offers by product version
  RowsIn(_, _),   \* the counters a request's cart touches with what it found
  DeltaIn(_, _, _), \* what placing the request then adds to a counter
  InitialCount    \* the counters when the shop opens

VARIABLES
  db,             \* the counters
  found,          \* the offers each request has found
  placed,         \* requests whose order exists
  refused         \* requests that have been answered with an error

vars == <<db, found, placed, refused>>

Init ==
  /\ db = InitialCount
  /\ found = [r \in Requests |-> [s \in Skus |-> {}]]
  /\ placed = {}
  /\ refused = {}

Find(r) ==
  /\ r \notin placed \cup refused
  /\ \E f \in OfferLists[r] : found' = [found EXCEPT ![r] = f]
  /\ UNCHANGED <<db, placed, refused>>

Place(r) ==
  /\ r \notin placed \cup refused
  /\ placed' = placed \cup {r}
  /\ db' = [x \in Rows |-> IF x \in RowsIn(r, found[r])
                          THEN db[x] + DeltaIn(r, found[r], x) ELSE db[x]]
  /\ UNCHANGED <<found, refused>>

Refuse(r) ==
  /\ r \notin placed \cup refused
  /\ refused' = refused \cup {r}
  /\ UNCHANGED <<db, found, placed>>

GiveBack(r, x) ==
  /\ r \in refused
  /\ x \in RowsIn(r, found[r])
  /\ db' = [db EXCEPT ![x] = @ - DeltaIn(r, found[r], x)]
  /\ UNCHANGED <<found, placed, refused>>

Next == \E r \in Requests :
  \/ Find(r)
  \/ Place(r)
  \/ Refuse(r)
  \/ \E x \in Rows : GiveBack(r, x)

Spec == Init /\ [][Next]_vars

=============================================================================
