--------------------------- MODULE MCPaymentWorker ---------------------------
(***************************************************************************)
(* Instances of PaymentWorker for TLC.                                     *)
(***************************************************************************)
EXTENDS PaymentWorker, TLC

CONSTANTS o1, p1, p2

OneOrder == [p \in Payments |-> o1]

\* A card is approved or refused.
Approval == [p \in Payments |-> {<<"none", "approved">>, <<"none", "rejected">>}]

ApprovalOnly == [p \in Payments |-> {<<"none", "approved">>}]

\* One payment is approved, the other refused.
ApprovalAndRefusal == p1 :> {<<"none", "approved">>} @@ p2 :> {<<"none", "rejected">>}

=============================================================================
