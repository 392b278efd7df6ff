---------------------------- MODULE MCShoppingCart ----------------------------
(***************************************************************************)
(* Instances of ShoppingCart for TLC.                                      *)
(***************************************************************************)
EXTENDS ShoppingCart, TLC

CONSTANTS g, k, s1, s2, r1, r2, r3

Guest == [session |-> g, customer |-> NoCustomer]

LoggedIn == [session |-> g, customer |-> k]

Does(op, skus, quantity, type) ==
  [op |-> op, skus |-> skus, quantity |-> quantity, isChecked |-> TRUE, type |-> type]

Plain(op) == Does(op, {}, 0, "set")

\* A guest fills a cart, logs in, works on the merged cart and saves it; the
\* worker removes what was bought.
WhoThree == r1 :> Guest @@ r2 :> LoggedIn @@ r3 :> LoggedIn

JobsThree ==
  r1 :> {Does("setItem", {s1}, 2, "set"), Does("setItem", {s1}, 1, "update"),
         Does("removeItem", {s1}, 0, "set"), Does("bought", {s1}, 0, "set"), Plain("view")} @@
  r2 :> {Does("setItem", {s1}, 1, "update"), Does("setItem", {s2}, -1, "update"), Plain("merge"),
         Plain("create"), Plain("uncheckAll"), Plain("view")} @@
  r3 :> {Does("setItem", {s1}, 3, "set"), Does("toggleCheck", {s1}, 0, "set"), Plain("merge"),
         Does("bought", {s1}, 0, "set"), Plain("checkAll"), Plain("clear"), Plain("save")}

StocksOf == s1 :> {1, 2} @@ s2 :> {1}

=============================================================================
