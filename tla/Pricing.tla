------------------------------- MODULE Pricing -------------------------------
(***************************************************************************)
(* What product versions cost: the cards of a listing or of a cart, the    *)
(* page of one product version, and the lines of an order.  All three read *)
(* prices, lists of applicable offers and the offers' terms through the    *)
(* same cached batch reads, resolve the offers with the same rules and     *)
(* compute each line with a builder of their own; an order books the       *)
(* offers' uses, sends a preference to MercadoPago and records its total.  *)
(*                                                                         *)
(* Amounts are in cents; half a cent, which the floating point of the code *)
(* may round either way, is rounded up.  Product versions are not deleted. *)
(* An offer is created with one target and terms that do not change; an    *)
(* update changes its dates and the limit of its uses, and only a change   *)
(* of the dates is modelled.                                               *)
(*                                                                         *)
(* A line of a cart or of a listing comes from the client and names a      *)
(* product beside the product version, which need not be its own: offers   *)
(* are looked for under the product that is named, and kept under the      *)
(* product version alone.  A line whose product does not exist is left out *)
(* of every answer, and is left out here.                                  *)
(***************************************************************************)
EXTENDS Integers, Sequences, FiniteSets, FiniteSetsExt, Functions

CONSTANTS
  Skus,        \* product versions
  Products,    \* products
  ProductOf,   \* ProductOf[s]: the product it is a version of
  About,       \* About[p]: a product with its category and subcategories
  Offers,      \* offers
  Terms,       \* Terms[o]: what the offer grants, its target and its limit
  Prices,      \* Prices[s]: unit price of the product version at the start
  NewPrices,   \* prices the back office may set
  Turns,       \* Turns[o]: what may become of the offer
  Expiring,    \* keys whose entries may expire
  Readers,     \* requests
  Jobs,        \* Jobs[r]: what request r may ask for
  Running,     \* offers that run at the start
  Nothing,     \* no value
  MaxChanges,  \* bound on the changes made in the back office
  MaxExpiries  \* bound on the entries whose time to live ends

VARIABLES
  price,     \* the unit prices in the database
  offer,     \* the offers in the database: whether they run, their uses
  cached,    \* the cache
  pc,        \* where a request stands
  job,       \* what it has been asked for
  got,       \* what it has read
  unsaved,   \* keys it has fetched and not written to the cache yet
  builder,   \* the builder of its lines
  built,     \* the lines it has built
  held,      \* uses an order has booked in its open transaction
  charged,   \* the preference of an order at MercadoPago
  recorded,  \* the total of an order's row
  changes,   \* changes made in the back office
  expiries,  \* entries whose time to live has ended
  ran        \* history: offers that once could be applied

databaseVars == <<price, offer, recorded, changes, ran>>
readVars == <<job, got, unsaved>>
lineVars == <<builder, built>>
orderVars == <<held, charged>>
cacheVars == <<cached, expiries>>
vars == <<databaseVars, cacheVars, pc, readVars, lineVars, orderVars>>

-----------------------------------------------------------------------------
(* Offers.                                                                 *)

Groups == {"BASE", "COUPON", "SHIPPING"}

Targets == {"PRODUCT_VERSION", "PRODUCT", "CATEGORY", "SUBCATEGORY"}

\* max_uses null is a limit that is never reached.
Term == [discount : Nat, priority : Int, exclusive : BOOLEAN, group : Groups,
         maxStack : Nat \ {0}, type : Targets, ids : SUBSET (Skus \cup STRING), maxUses : Int]

Job == [kind : {"cards", "page", "order"},
        lines : Seq([sku : Skus, product : Products, quantity : Nat, checked : BOOLEAN])]

\* An empty cart is refused and an empty listing has no lines.
ASSUME PricingAssumption ==
  /\ IsFiniteSet(Offers)
  /\ Terms \in [Offers -> Term]
  /\ Running \subseteq Offers
  /\ Prices \in [Skus -> Nat]
  /\ NewPrices \subseteq Nat
  /\ \A r \in Readers : \A j \in Jobs[r] : j \in Job /\ j.lines # <<>>
  /\ \A o \in Offers : Turns[o] \subseteq {"runs", "rests", "deleted"}

\* Lines come in the order in which they are answered, those of a product together.
Grouped(lines) ==
  \A i, k \in DOMAIN lines :
    lines[i].product = lines[k].product => \A m \in i .. k : lines[m].product = lines[i].product

\* A product version's page looks its product up.
ASSUME LinesAssumption ==
  \A r \in Readers : \A j \in Jobs[r] :
    /\ Grouped(j.lines)
    /\ j.kind = "page" => \A i \in DOMAIN j.lines : j.lines[i].product = ProductOf[j.lines[i].sku]

\* The target names the product version, or the product it is named with, or one
\* of that product's categories: whether it is its own is not looked at.
Matches(o, s, p) ==
  Terms[o].ids \cap (IF Terms[o].type = "PRODUCT_VERSION" THEN {s} ELSE About[p][Terms[o].type]) # {}

\* Mutant: the offer's status and dates are not looked at.
AppliesAtRest(o, s, p) == offer[o].uses < Terms[o].maxUses /\ Matches(o, s, p)

Applies(o, s, p) ==
  /\ offer[o].state = "runs"
  /\ offer[o].uses < Terms[o].maxUses
  /\ Matches(o, s, p)

\* Rows come in any order.
InAnyOrder(S) == {q \in [1 .. Cardinality(S) -> S] : \A i, j \in DOMAIN q : q[i] = q[j] => i = j}

\* A list that was filtered keeps its order: q is a function of the positions
\* that are left.  pickHighestPriority replaces the best so far only by a better
\* one.
Beats(a, b) ==
  \/ Terms[a].priority > Terms[b].priority
  \/ Terms[a].priority = Terms[b].priority /\ Terms[a].discount > Terms[b].discount

Pick(q) ==
  q[CHOOSE i \in DOMAIN q : \A j \in DOMAIN q : ~Beats(q[j], q[i]) /\ (j < i => Beats(q[i], q[j]))]

IsExclusive(o) == Terms[o].exclusive

Members(q) == {q[i] : i \in DOMAIN q}

OfGroup(q, g) == RestrictValues(q, LAMBDA o : Terms[o].group = g)

Winners(q) == {Pick(OfGroup(q, g)) : g \in {Terms[o].group : o \in Members(q)}}

FirstOf(q, g) == CHOOSE i \in DOMAIN q :
  Terms[q[i]].group = g /\ \A j \in DOMAIN q : Terms[q[j]].group = g => i <= j

\* The winners sorted by priority, discount and the order of their groups.
Ahead(q, o) ==
  {w \in Winners(q) :
     \/ Beats(w, o)
     \/ ~Beats(o, w) /\ FirstOf(q, Terms[w].group) < FirstOf(q, Terms[o].group)}

\* The smallest max_stack of the winners cuts the sorted list off.
Stacked(q) ==
  {o \in Winners(q) : \A w \in Winners(q) : Cardinality(Ahead(q, o)) < Terms[w].maxStack}

\* resolve: the offers that are applied to a product version.
Resolve(q) ==
  IF Members(q) = {} THEN {}
  ELSE IF \E o \in Members(q) : IsExclusive(o) THEN {Pick(RestrictValues(q, IsExclusive))}
  ELSE Stacked(q)

Discount(S) == MapThenSumSet(LAMBDA o : Terms[o].discount, S)

-----------------------------------------------------------------------------
(* Batch reads through the cache.                                          *)

PriceKeys == {"price"} \X Skus
ListKeys == {"offers of"} \X Skus
OfferKeys == {"offer"} \X Offers
Keys == PriceKeys \cup ListKeys \cup OfferKeys

\* Maps by product version: of two lines of one the last counts.
LastLine(lines, s) ==
  lines[CHOOSE i \in DOMAIN lines :
          lines[i].sku = s /\ \A j \in DOMAIN lines : lines[j].sku = s => j <= i]

\* inputBySku: the product under which a request looks for the offers.
NamedProduct(r, s) == LastLine(job[r].lines, s).product

ApplicableTo(r, s) == {o \in Offers : Applies(o, s, NamedProduct(r, s))}

\* Mutant: rows are matched with the missing keys by position.
StoredInRowOrder(r, k) ==
  CASE k \in PriceKeys -> {price[k[2]]}
    [] k \in ListKeys -> InAnyOrder(ApplicableTo(r, k[2]))
    [] k \in OfferKeys -> {Terms[o] : o \in {x \in Offers : offer[x].state # "deleted"}}

\* What the database may answer a request for a key: an offer deleted meanwhile
\* has no row.
Stored(r, k) ==
  CASE k \in PriceKeys -> {price[k[2]]}
    [] k \in ListKeys -> InAnyOrder(ApplicableTo(r, k[2]))
    [] k \in OfferKeys -> IF offer[k[2]].state = "deleted" THEN {Nothing} ELSE {Terms[k[2]]}

Stages == {"prices", "lists", "offers"}

SkusOf(lines) == {lines[i].sku : i \in DOMAIN lines}

Wanted(r, stage) ==
  LET S == SkusOf(job[r].lines) IN
  CASE stage = "prices" -> {"price"} \X S
    [] stage = "lists" -> {"offers of"} \X S
    [] stage = "offers" -> {"offer"} \X UNION {Members(got[r][<<"offers of", s>>]) : s \in S}

After(stage) ==
  CASE stage = "prices" -> <<"look up", "lists">>
    [] stage = "lists" -> <<"look up", "offers">>
    [] stage = "offers" -> <<"build", "lines">>

\* The offers of a product version whose terms have been found, in list order.
OffersIn(g, s) ==
  RestrictValues(g[<<"offers of", s>>], LAMBDA o : g[<<"offer", o>>] # Nothing)

OffersFor(r, s) == OffersIn(got[r], s)

\* The unit price and the offers that are applied.
UnitPrice(r, s) == got[r][<<"price", s>>]

Applied(r, s) == Resolve(OffersFor(r, s))

\* A request starts: a page, a listing or a cart is asked for, or an order.
Ask(r, j) ==
  /\ pc[r] = <<"idle", "idle">>
  /\ job' = [job EXCEPT ![r] = j]
  /\ pc' = [pc EXCEPT ![r] = <<"look up", "prices">>]
  /\ UNCHANGED <<databaseVars, cacheVars, got, unsaved, lineVars, orderVars>>

\* Phases 1 to 3: the hits are taken; entries are used however stale they are.
LookUp(r, stage) ==
  /\ pc[r] = <<"look up", stage>>
  /\ LET W == Wanted(r, stage) IN
     /\ got' = [got EXCEPT ![r] = [k \in Keys |-> IF k \in W THEN cached[k] ELSE @[k]]]
     /\ pc' = [pc EXCEPT ![r] =
          IF \A k \in W : cached[k] # Nothing THEN After(stage) ELSE <<"fetch", stage>>]
  /\ UNCHANGED <<databaseVars, cacheVars, job, unsaved, lineVars, orderVars>>

\* Phase 4: the misses another request leads are taken from the cache when it
\* has saved them; the others are read from the database in one query.
Fetch(r, stage) ==
  /\ pc[r] = <<"fetch", stage>>
  /\ LET M == {k \in Wanted(r, stage) : got[r][k] = Nothing}
         Saved == {k \in M : cached[k] # Nothing} IN
     \E followed \in SUBSET Saved :
     \E found \in {f \in [M \ followed -> UNION {Stored(r, k) : k \in M \ followed}] :
                     \A k \in M \ followed : f[k] \in Stored(r, k)} :
       /\ got' = [got EXCEPT ![r] =
            [k \in Keys |-> IF k \in followed THEN cached[k]
                            ELSE IF k \in M THEN found[k] ELSE @[k]]]
       /\ unsaved' = [unsaved EXCEPT ![r] = {k \in M \ followed : found[k] # Nothing}]
  /\ pc' = [pc EXCEPT ![r] = <<"save", stage>>]
  /\ UNCHANGED <<databaseVars, cacheVars, job, lineVars, orderVars>>

\* The leader writes what it has fetched before it goes on.
Save(r, stage) ==
  /\ pc[r] = <<"save", stage>>
  /\ cached' = [k \in Keys |-> IF k \in unsaved[r] THEN got[r][k] ELSE cached[k]]
  /\ unsaved' = [unsaved EXCEPT ![r] = {}]
  /\ pc' = [pc EXCEPT ![r] = After(stage)]
  /\ UNCHANGED <<databaseVars, expiries, job, got, lineVars, orderVars>>

\* An entry's time to live ends.
Expire(k) ==
  /\ cached[k] # Nothing
  /\ expiries < MaxExpiries
  /\ cached' = [cached EXCEPT ![k] = Nothing]
  /\ expiries' = expiries + 1
  /\ UNCHANGED <<databaseVars, pc, readVars, lineVars, orderVars>>

-----------------------------------------------------------------------------
(* Lines.                                                                  *)

\* finalPrice: the unit price less the discount, to two decimals.
Discounted(p, d) == (p * (100 - d) + 50) \div 100

NoLine == [sku |-> Nothing, quantity |-> 0, unit |-> 0, final |-> 0, discount |-> 0, ids |-> {}]

\* Mutant: the final price is set only by an offer.
WithUnitPriceOnly(b, p) == [b EXCEPT !.unit = p]

WithUnitPrice(b, p) == [b EXCEPT !.unit = p, !.final = p]

\* withOffer of the cards and of the page leaves the offer alone when there is none.
WithOffer(b, S) ==
  IF Discount(S) > 0
  THEN [b EXCEPT !.discount = Discount(S), !.final = Discounted(b.unit, Discount(S))]
  ELSE b

\* withOffer of an order's lines resets it, and names the offers to book.
WithOrderOffer(b, S) ==
  IF Discount(S) > 0
  THEN [WithOffer(b, S) EXCEPT !.ids = {o \in S : Terms[o].group # "SHIPPING"}]
  ELSE [b EXCEPT !.discount = 0, !.ids = {}, !.final = b.unit]

WithLine(b, s, n) == [b EXCEPT !.sku = s, !.quantity = n]

\* shoppingCartMap.
OrderedQuantity(lines, s) == LastLine(lines, s).quantity

\* One builder makes all cards of an answer, and one all lines of an order;
\* the other colours on a product version's page are computed one by one.
CardLine(r, line) ==
  WithOffer(WithUnitPrice(WithLine(builder[r], line.sku, line.quantity), UnitPrice(r, line.sku)),
            Applied(r, line.sku))

PageLine(r, line) ==
  WithOffer(WithUnitPrice(WithLine(NoLine, line.sku, line.quantity), UnitPrice(r, line.sku)),
            Applied(r, line.sku))

OrderLine(r, line) ==
  WithOrderOffer(
    WithUnitPrice(WithLine(builder[r], line.sku, OrderedQuantity(job[r].lines, line.sku)),
                  UnitPrice(r, line.sku)),
    Applied(r, line.sku))

NextLine(r, line) ==
  CASE job[r].kind = "cards" -> CardLine(r, line)
    [] job[r].kind = "page" -> PageLine(r, line)
    [] job[r].kind = "order" -> OrderLine(r, line)

Build(r) ==
  /\ pc[r] = <<"build", "lines">>
  /\ LET next == NextLine(r, job[r].lines[Len(built[r]) + 1]) IN
     /\ builder' = [builder EXCEPT ![r] = next]
     /\ built' = [built EXCEPT ![r] = Append(@, next)]
  /\ pc' = [pc EXCEPT ![r] =
       IF Len(built[r]) + 1 < Len(job[r].lines) THEN @
       ELSE IF job[r].kind = "order" THEN <<"order", "book">> ELSE <<"done", "shown">>]
  /\ UNCHANGED <<databaseVars, cacheVars, readVars, orderVars>>

-----------------------------------------------------------------------------
(* Totals.                                                                 *)

SHIPPING_COST == 26400

MAX_ITEMS_PER_BOX == 10

Sum(f) == MapThenSumSet(LAMBDA i : f[i], DOMAIN f)

Items(lines) == Sum([i \in DOMAIN lines |-> lines[i].quantity * lines[i].final])

Boxes(lines) ==
  (Sum([i \in DOMAIN lines |-> lines[i].quantity]) + MAX_ITEMS_PER_BOX - 1) \div MAX_ITEMS_PER_BOX

ShippingCost(lines) == Boxes(lines) * SHIPPING_COST

\* calcResume's total, and the shipping cost in it.
Total(lines) == Items(lines) + ShippingCost(lines)

\* formatPrice writes 1,056.00: from a thousand on, groups of digits are
\* separated by commas.  parseFloat stops at the first comma ...
GROUPED == 100000

ParseFloat(x) ==
  IF x < GROUPED THEN x
  ELSE IF x < GROUPED * 1000 THEN (x \div GROUPED) * 100
  ELSE (x \div (GROUPED * 1000)) * 100

\* ... and the database takes no text with a comma for a Decimal.
IsDecimal(x) == x < GROUPED

\* toShoppingCartItemsResumeI: the total shown with a cart leaves out lines
\* that are not checked; a line takes its price from the first card of its
\* product version.
CheckedLines(lines, cards) ==
  LET checked == RestrictValues(lines, LAMBDA line : line.checked) IN
  [i \in DOMAIN checked |->
     [quantity |-> checked[i].quantity,
      final |-> cards[CHOOSE n \in DOMAIN cards : cards[n].sku = checked[i].sku
                        /\ \A m \in DOMAIN cards : cards[m].sku = checked[i].sku => n <= m].final]]

Shown(r) == Total(CheckedLines(job[r].lines, built[r]))

-----------------------------------------------------------------------------
(* Orders.                                                                 *)

\* Each line with an offer is one use of it.
Uses(lines) == [o \in Offers |-> Cardinality({i \in DOMAIN lines : o \in lines[i].ids})]

NoUses == [o \in Offers |-> 0]

Holds(r, o) == held[r][o] > 0

\* ReserveDiscount: the increments lock the offers' rows until the transaction
\* ends; an offer that was deleted makes the order fail.
Book(r) ==
  /\ pc[r] = <<"order", "book">>
  /\ LET used == Uses(built[r]) IN
     /\ \A o \in Offers, q \in Readers : used[o] > 0 => ~Holds(q, o)
     /\ IF \E o \in Offers : used[o] > 0 /\ offer[o].state = "deleted"
        THEN pc' = [pc EXCEPT ![r] = <<"done", "refused">>] /\ UNCHANGED held
        ELSE pc' = [pc EXCEPT ![r] = <<"order", "pay">>] /\ held' = [held EXCEPT ![r] = used]
  /\ UNCHANGED <<databaseVars, cacheVars, readVars, lineVars, charged>>

\* CreatePayment: the preference names every line of the order, checked or not.
Pay(r) ==
  /\ pc[r] = <<"order", "pay">>
  /\ charged' = [charged EXCEPT ![r] =
       [items |-> Items(built[r]), shipping |-> ParseFloat(ShippingCost(built[r]))]]
  /\ pc' = [pc EXCEPT ![r] = <<"order", "create">>]
  /\ UNCHANGED <<databaseVars, cacheVars, readVars, lineVars, held>>

\* Mutant: the total is written with its separators removed.
AlwaysDecimal(x) == TRUE

CanRecord(x) == IsDecimal(x)

\* CreateOrder and the commit.
Place(r) ==
  /\ pc[r] = <<"order", "create">>
  /\ CanRecord(Total(built[r]))
  /\ recorded' = [recorded EXCEPT ![r] = Total(built[r])]
  /\ offer' = [o \in Offers |-> [offer[o] EXCEPT !.uses = @ + held[r][o]]]
  /\ held' = [held EXCEPT ![r] = NoUses]
  /\ pc' = [pc EXCEPT ![r] = <<"done", "placed">>]
  /\ UNCHANGED <<price, changes, ran, cacheVars, readVars, lineVars, charged>>

\* The total is refused, or another step fails.  The preference stays.  The
\* rollback undoes the uses; the compensation may take them off once more.
Refuse(r) ==
  /\ pc[r] \in {<<"order", "pay">>, <<"order", "create">>}
  /\ \E twice \in BOOLEAN :
       /\ offer' = IF twice THEN [o \in Offers |-> [offer[o] EXCEPT !.uses = @ - held[r][o]]] ELSE offer
       /\ ran' = ran \cup {o \in Offers : offer'[o].state = "runs" /\ offer'[o].uses < Terms[o].maxUses}
  /\ held' = [held EXCEPT ![r] = NoUses]
  /\ pc' = [pc EXCEPT ![r] = <<"done", "refused">>]
  /\ UNCHANGED <<price, recorded, changes, cacheVars, readVars, lineVars, charged>>

-----------------------------------------------------------------------------
(* The back office.                                                        *)

\* A price is patched: only the detail of its product is invalidated.
Reprice(s, p) ==
  /\ changes < MaxChanges
  /\ p # price[s]
  /\ price' = [price EXCEPT ![s] = p]
  /\ changes' = changes + 1
  /\ UNCHANGED <<offer, recorded, ran, cacheVars, pc, readVars, lineVars, orderVars>>

\* An offer's dates are changed or pass, or it is deleted; its entries stay.
\* A row locked by an order waits.
Turn(o, state) ==
  /\ changes < MaxChanges
  /\ offer[o].state \notin {state, "deleted"}
  /\ \A r \in Readers : ~Holds(r, o)
  /\ offer' = [offer EXCEPT ![o].state = state]
  /\ ran' = IF state = "runs" /\ offer[o].uses < Terms[o].maxUses THEN ran \cup {o} ELSE ran
  /\ changes' = changes + 1
  /\ UNCHANGED <<price, recorded, cacheVars, pc, readVars, lineVars, orderVars>>

-----------------------------------------------------------------------------

Init ==
  /\ price = Prices
  /\ offer = [o \in Offers |-> [state |-> IF o \in Running THEN "runs" ELSE "rests", uses |-> 0]]
  /\ cached = [k \in Keys |-> Nothing]
  /\ pc = [r \in Readers |-> <<"idle", "idle">>]
  /\ job = [r \in Readers |-> [kind |-> "page", lines |-> <<>>]]
  /\ got = [r \in Readers |-> [k \in Keys |-> Nothing]]
  /\ unsaved = [r \in Readers |-> {}]
  /\ builder = [r \in Readers |-> NoLine]
  /\ built = [r \in Readers |-> <<>>]
  /\ held = [r \in Readers |-> NoUses]
  /\ charged = [r \in Readers |-> Nothing]
  /\ recorded = [r \in Readers |-> Nothing]
  /\ changes = 0
  /\ expiries = 0
  /\ ran = {o \in Running : 0 < Terms[o].maxUses}

Next ==
  \/ \E r \in Readers :
       \/ \E j \in Jobs[r] : Ask(r, j)
       \/ \E stage \in Stages : LookUp(r, stage) \/ Fetch(r, stage) \/ Save(r, stage)
       \/ Build(r)
       \/ Book(r) \/ Pay(r) \/ Place(r) \/ Refuse(r)
  \/ \E k \in Expiring : Expire(k)
  \/ \E s \in Skus : \E p \in NewPrices : Reprice(s, p)
  \/ \E o \in Offers : \E state \in Turns[o] : Turn(o, state)

Spec == Init /\ [][Next]_vars

-----------------------------------------------------------------------------
(* Properties.                                                             *)

Line == [sku : Skus \cup {Nothing}, quantity : Nat, unit : Nat, final : Int,
         discount : Nat, ids : SUBSET Offers]

\* What may be read for a key.
Values(k) ==
  CASE k \in PriceKeys -> Nat
    [] k \in ListKeys -> Seq(Offers)
    [] k \in OfferKeys -> {Terms[k[2]]}

\* Types: prices, lists and terms stay under their own keys, in the cache and
\* in what a request has read; no line is built before what it needs is read
\* (getMultipleDataWithFallback, the builders, the order's steps).
TypeOK ==
  /\ price \in [Skus -> Nat]
  /\ offer \in [Offers -> [state : {"runs", "rests", "deleted"}, uses : Int]]
  /\ \A k \in Keys : cached[k] \in Values(k) \cup {Nothing}
  /\ pc \in [Readers -> {"look up", "fetch", "save"} \X Stages
                       \cup {<<"idle", "idle">>, <<"build", "lines">>,
                             <<"order", "book">>, <<"order", "pay">>, <<"order", "create">>,
                             <<"done", "shown">>, <<"done", "placed">>, <<"done", "refused">>}]
  /\ job \in [Readers -> Job]
  /\ \A r \in Readers : \A k \in Keys : got[r][k] \in Values(k) \cup {Nothing}
  /\ unsaved \in [Readers -> SUBSET Keys]
  /\ builder \in [Readers -> Line]
  /\ built \in [Readers -> Seq(Line)]
  /\ held \in [Readers -> [Offers -> Nat]]
  /\ \A r \in Readers : charged[r] \in [items : Int, shipping : Int] \cup {Nothing}
  /\ \A r \in Readers : recorded[r] \in Int \cup {Nothing}
  /\ ran \subseteq Offers

\* Every line costs its own unit price less its own discount, although the
\* lines of an answer come from one builder.  An order's line and a line of a
\* product version's page also say so; a card without an offer shows the
\* discount of the last card before it that had one
\* (product-version-card.builder.ts, order-shopping-cart.builder.ts,
\* product-version-details.builder.ts).
OwnPrices ==
  \A r \in Readers : \A i \in DOMAIN built[r] :
    LET line == built[r][i]
        S == Applied(r, line.sku)
        d == Discount(S)
        left == IF job[r].kind = "cards" /\ i > 1 THEN built[r][i - 1].discount ELSE 0 IN
    /\ line.unit = UnitPrice(r, line.sku)
    /\ line.final = IF d > 0 THEN Discounted(line.unit, d) ELSE line.unit
    /\ line.discount = IF d > 0 THEN d ELSE left
    /\ line.ids \subseteq S

\* The products that requests have named with a product version.
NamedWith(s) ==
  {p \in Products : \E r \in Readers : \E i \in DOMAIN job[r].lines :
     job[r].lines[i].sku = s /\ job[r].lines[i].product = p}

\* However long lists are kept, and whoever filled the cache: every offer that a
\* request or the cache has for a product version has run with uses left, and is
\* for the product version or for a product that a request has named with it.
\* That this product is its own is not promised: lists that one request has read
\* under the product it names are served to all (get-products-data.step.ts,
\* aggregate-data.step.ts, aggregate-offer-entities.service.ts, whose second
\* read asks for neither).
OnlyOffersThatRan ==
  LET Checked(q, s) ==
        \A o \in Members(q) : o \in ran /\ \E p \in NamedWith(s) : Matches(o, s, p) IN
  \A s \in Skus :
    LET k == <<"offers of", s>> IN
    /\ cached[k] # Nothing => Checked(cached[k], s)
    /\ \A r \in Readers : got[r][k] # Nothing => Checked(got[r][k], s)

\* Which of two equal offers of a group is met first decides how many offers
\* are stacked when their limits differ.
Tied(S) ==
  \E a, b \in S :
    /\ Terms[a].group = Terms[b].group
    /\ ~Beats(a, b) /\ ~Beats(b, a)
    /\ Terms[a].maxStack # Terms[b].maxStack

\* Two requests found the same prices and, in whatever order, the same offers.
SawTheSame(c, r) ==
  \A s \in SkusOf(job[r].lines) :
    /\ UnitPrice(c, s) = UnitPrice(r, s)
    /\ Members(OffersFor(c, s)) = Members(OffersFor(r, s))
    /\ ~Tied(Members(OffersFor(r, s)))

Plain(lines) ==
  /\ \A i \in DOMAIN lines : lines[i].checked
  /\ \A i, j \in DOMAIN lines : lines[i].sku = lines[j].sku => i = j

\* What MercadoPago is told to charge is the total shown with the cart, when
\* both saw the same prices and offers, every line was checked and once in the
\* cart, and the shipping cost has no separator; and an order's row records
\* what the preference charges, unless its discounts, which are added up and may
\* pass a hundred, make the items cost less than nothing (calcResume,
\* toShoppingCartItemsResumeI, mercadopago.helpers.ts, create-order.step.ts).
AmountsAgree ==
  \A r \in Readers :
    charged[r] # Nothing =>
      LET amount == charged[r].items + charged[r].shipping IN
      /\ recorded[r] # Nothing /\ charged[r].items >= 0 => recorded[r] = amount
      /\ \A c \in Readers :
           /\ pc[c] = <<"done", "shown">> /\ job[c].kind = "cards"
           /\ job[c].lines = job[r].lines /\ Plain(job[r].lines)
           /\ SawTheSame(c, r)
           /\ ShippingCost(built[r]) < GROUPED
           => Shown(c) = amount

\* "ENVIO (CON IVA)": SHIPPING_COST for every box of ten items
\* (order.helpers.ts:42-47) is what the preference charges for the shipping.
ShippingCharged ==
  \A r \in Readers :
    charged[r] # Nothing => charged[r].shipping = ShippingCost(built[r])

=============================================================================
