----------------------------- MODULE MCBackOffice -----------------------------
(***************************************************************************)
(* Instances of BackOffice for TLC.                                        *)
(***************************************************************************)
EXTENDS BackOffice, TLC

CONSTANTS r1, r2, r3

\* Staff, one with an offer; a product with two versions, another with one; two
\* reviews of a version and a favorite; a customer's addresses; one row of every
\* other table.
KindOfRows ==
  [u1 |-> "user", u2 |-> "user", u3 |-> "user", p |-> "product", q |-> "product",
   g |-> "product", v1 |-> "version", v2 |-> "version", x |-> "version", w1 |-> "review",
   w2 |-> "review", f |-> "favorite", a1 |-> "address", a2 |-> "address",
   c |-> "category", d |-> "subcategory", o |-> "offer", s |-> "shipping", k |-> "customer",
   n |-> "order"]

RowsOfShop == DOMAIN KindOfRows

OwnerOfRows == [y \in RowsOfShop |->
  CASE y \in {"v1", "v2"} -> "p"
    [] y = "x" -> "q"
    [] KindOfRows[y] \in {"user", "review", "address"} -> KindOfRows[y]
    [] OTHER -> y]

RefsOfRows == [y \in RowsOfShop |->
  CASE KindOfRows[y] = "version" -> {OwnerOfRows[y]}
    [] KindOfRows[y] \in {"review", "favorite"} -> {"v1"}
    [] KindOfRows[y] = "offer" -> {"u3"}
    [] OTHER -> {}]

AtFirst == [y \in RowsOfShop |->
  CASE y \in {"v1", "x"} -> "flagged"
    [] y \in {"p", "q", "u3", "s", "k", "n"} -> "plain"
    [] OTHER -> "absent"]

Does(op, row, flag) ==
  [op |-> op, row |-> row, flag |-> flag, father |-> "p", view |-> "categories"]

Loads(view) == [op |-> "load", row |-> "s", flag |-> "keep", father |-> "p", view |-> view]

Staff ==
  {Does("createUser", "u1", "set"), Does("updateUser", "u1", "keep"),
   Does("removeUser", "u1", "keep"), Does("createUser", "u2", "set"),
   Does("removeUser", "u3", "keep")}

\* The patch of x names a product that is not its own.
Versions ==
  {Does("createVersion", "v2", "unset"), Does("patchVersion", "v2", "set"),
   Does("patchVersion", "x", "set"),
   Does("deleteVersion", "v1", "keep"), Does("deleteVersion", "v2", "keep")}

Reviews ==
  {Does("addReview", "w1", "set"), Does("addReview", "w2", "set"),
   Does("deleteReview", "w1", "keep")}

Addresses ==
  {Does("createAddress", "a1", "unset"), Does("createAddress", "a2", "set"),
   Does("patchAddress", "a1", "set"), Does("deleteAddress", "a1", "keep"),
   Does("deleteAddress", "a2", "keep")}

Others ==
  {Does("createProduct", "g", "unset"), Does("patchProduct", "p", "keep"),
   Does("deleteProduct", "p", "keep"), Does("updateStock", "v1", "keep"),
   Does("patchVersion", "v1", "unset"),
   Does("createCategory", "c", "unset"), Does("patchCategory", "c", "keep"),
   Does("createSubcategory", "d", "unset"), Does("patchSubcategory", "d", "keep"),
   Does("deleteSubcategory", "d", "keep"), Does("createOffer", "o", "unset"),
   Does("updateOffer", "o", "keep"), Does("deleteOffer", "o", "keep"),
   Does("toogleFavorite", "f", "unset"), Does("updateShipping", "s", "keep"),
   Does("updateCustomer", "k", "keep"), Does("updateOrderStatus", "n", "set")}

Looks == {Loads("users:dashboard"), Loads("product:detail"), Loads("customer:addresses")}

\* Any change, a second one it may run into, and somebody who looks.
JobsThree ==
  r1 :> Staff \cup Versions \cup Reviews \cup Addresses \cup Others @@
  r2 :> Staff \cup Versions \cup Addresses
          \cup {Does("addReview", "w2", "set"), Does("deleteOffer", "o", "keep"),
                Does("toogleFavorite", "f", "unset"), Does("deleteSubcategory", "d", "keep"),
                Does("deleteCategory", "c", "keep")} @@
  r3 :> Looks

=============================================================================
