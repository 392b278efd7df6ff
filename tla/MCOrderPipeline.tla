--------------------------- MODULE MCOrderPipeline ---------------------------
(***************************************************************************)
(* Instances of OrderPipeline for TLC.                                     *)
(***************************************************************************)
EXTENDS OrderPipeline, TLC

CONSTANTS r1, r2, s1, s2, o1

\* A buyer with an account who fills in the guest form with another address'
\* e-mail: the only kind of request the handler lets through.
Accepted == [customerUUID |-> TRUE, addressUUID |-> TRUE,
             guestForm |-> TRUE, emailHasAccount |-> FALSE]

AllAccepted == [r \in Requests |-> Accepted]

\* Two carts that share a product version and an offer; the first is the
\* result of a merge and has two lines of its other product version.
LinesTwo == r1 :> {<<s1, 1>>, <<s2, 2>>, <<s2, 3>>} @@ r2 :> {<<s1, 1>>}

CartsTwo == r1 :> (s1 :> 1 @@ s2 :> 1) @@ r2 :> (s1 :> 2 @@ s2 :> 0)

\* Every request finds the offer for every SKU.
SharedOffer == [r \in Requests |-> {[s \in Skus |-> {o1}]}]

\* The first request finds the offer of the shared product version; the second
\* finds it as well, or a list from before the offer.
OfferOrStaleList ==
  r1 :> {s1 :> {o1} @@ s2 :> {}} @@ r2 :> {s1 :> {o1} @@ s2 :> {}, s1 :> {} @@ s2 :> {}}

CountTwo == s1 :> 2 @@ s2 :> 1 @@ o1 :> 0

\* Two carts with one piece each of a product version on offer.
LinesOne == [r \in Requests |-> {<<s1, 1>>}]

CartsOne == [r \in Requests |-> s1 :> 1]

CountOne == s1 :> 2 @@ o1 :> 0

=============================================================================
