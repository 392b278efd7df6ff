------------------------------ MODULE MCPricing ------------------------------
(***************************************************************************)
(* Instances of Pricing for TLC.                                           *)
(***************************************************************************)
EXTENDS Pricing, TLC

CONSTANTS a, b, o1, o2, o3, viewer, buyer

\* Two colours of a helmet, and a product that clients name instead.
OwnProduct == [s \in Skus |-> "helmet"]

TwoProducts ==
  [p \in Products |->
     "PRODUCT" :> {p}
     @@ "CATEGORY" :> {"heads"}
     @@ "SUBCATEGORY" :> IF p = "helmet" THEN {"heads"} ELSE {"heads", "faces"}]

Offer(discount, group, maxStack, type, id, maxUses) ==
  [discount |-> discount, priority |-> 0, exclusive |-> FALSE, group |-> group,
   maxStack |-> maxStack, type |-> type, ids |-> {id}, maxUses |-> maxUses]

\* An offer for one colour, a better one that rests and is not for helmets, one
\* that stacks with them.
ThreeOffers ==
  o1 :> Offer(10, "BASE", 2, "PRODUCT_VERSION", a, 9)
  @@ o2 :> Offer(15, "BASE", 2, "SUBCATEGORY", "faces", 9)
  @@ o3 :> Offer(5, "SHIPPING", 2, "PRODUCT_VERSION", a, 1)

FirstPrices == a :> 999 @@ b :> 1000

OneTurnEach == o1 :> {"deleted"} @@ o2 :> {"runs"} @@ o3 :> {"rests"}

\* A price and a list.
PriceAndList == {<<"price", a>>, <<"offers of", a>>}

Item(s, p, n) == [sku |-> s, product |-> p, quantity |-> n, checked |-> TRUE]

\* A cart that fits one box and names another product, a line that takes four.
OneEach == <<Item(a, "visor", 1), Item(b, "visor", 2)>>

Many == <<Item(b, "helmet", 31)>>

ViewAndBuy ==
  viewer :> {[kind |-> "cards", lines |-> OneEach], [kind |-> "page", lines |-> <<Item(b, "helmet", 1)>>]}
  @@ buyer :> {[kind |-> "order", lines |-> l] : l \in {OneEach, Many}}

=============================================================================
