------------------------- MODULE ShoppingCart_proofs -------------------------
(***************************************************************************)
(* Proofs about ShoppingCart for any number of clients, product versions   *)
(* and requests.                                                           *)
(*                                                                         *)
(* Whichever copy of a cart is written last, it must be a good one.  So    *)
(* what the properties ask of a client's cart has to hold of every copy    *)
(* that may still be written under the client's name: its entry, its row,  *)
(* what a refresh has fetched, what a read is about to write back, and     *)
(* what a request has read in order to change it (CopiesInv).  Which       *)
(* client a copy belongs to follows from where its request stands          *)
(* (ReadsInv).                                                             *)
(*                                                                         *)
(* SequentialChangesKept asks of undisturbed clients' copies that what was *)
(* read, and what will be written back, is the ideal cart (IdealInv).      *)
(* Another request cannot change that cart meanwhile, for then the two     *)
(* overlap, and the client is disturbed (ApartInv).                        *)
(***************************************************************************)
EXTENDS ShoppingCart, SequenceTheorems, TLAPS

\* A request knows its job, and whose carts it has still to read; it has
\* read nothing before its first, and then only one cart unless it merges.
Standing(r) ==
  /\ pc[r] = "idle" => got[r] = EmptyCart
  /\ pc[r] # "idle" => job[r] \in Jobs[r]
  /\ pc[r] \in {"read", "back"} =>
       \/ reads[r] = ReadsOf(r, job[r].op) /\ job[r].op # "clear"
       \/ reads[r] = <<Who[r].customer>> /\ job[r].op = "merge"
  /\ pc[r] \in {"read", "back"} => reads[r] # <<>>
  /\ pc[r] = "read" /\ job[r].op # "merge" => got[r] = EmptyCart

ReadsInv == \A r \in Requests : Standing(r)

\* Quantities that the stock allows, lines of some product versions only, one
\* line of each.
Within(cart) ==
  \A s \in Skus : \A i \in DOMAIN cart[s] :
    \E stock \in Stocks[s] : cart[s][i].quantity <= stock

Holds(cart, skus) == \A s \in Skus : cart[s] # <<>> => s \in skus

Single(cart) == \A s \in Skus : ~(Len(cart[s]) > 1)

\* What a cart of client c must be, given what the clients have asked for (A)
\* and whose cart has been merged (M).
Good(c, cart, A, M) ==
  /\ Within(cart)
  /\ Holds(cart, A[c])
  /\ c \notin M => Single(cart)

\* What a request has read: the cart it will write, or what it merges.
GoodRead(r) ==
  IF job[r].op = "merge"
  THEN Within(got[r]) /\ Holds(got[r], asked[Who[r].session] \cup asked[Who[r].customer])
  ELSE Good(IF job[r].op = "create" THEN Who[r].session ELSE ResolveClient(r),
            got[r], asked, merged)

CopiesInv ==
  /\ \A c \in Clients : Good(c, entry[c].items, asked, merged)
  /\ \A c \in Customers : Good(c, saved[c].items, asked, merged)
  /\ \A c \in Customers : Good(c, refresh[c].items, asked, merged)
  /\ \A r \in Requests : pc[r] = "back" => Good(Head(reads[r]), hit[r].items, asked, merged)
  /\ \A r \in Requests : InFlight(r) => GoodRead(r)

IInv == TypeOK /\ ReadsInv /\ CopiesInv

\* Undisturbed carts: where a request stands in its reads.
At(r, place, c) == pc[r] = place /\ Head(reads[r]) = c

\* Requests that overlap on a client have disturbed it.
ApartInv ==
  \A r, q \in Requests :
    r # q /\ InFlight(r) /\ InFlight(q) =>
      Concerns(r, job[r].op) \cap Concerns(q, job[q].op) \subseteq disturbed

\* What a read writes back is the ideal cart.
HitIdeal(r) ==
  pc[r] = "back" =>
    /\ hit[r].state # "absent"
    /\ Head(reads[r]) \notin disturbed => hit[r].items = ideal[Head(reads[r])]

\* What a request has read of one cart, and of two.
ReadOne(r, c) ==
  pc[r] \in {"back", "write"} /\ c \notin disturbed => got[r] = ideal[c]

ReadTwo(r, s, c) ==
  /\ At(r, "read", s) => got[r] = EmptyCart
  /\ s \notin disturbed /\ (At(r, "back", s) \/ At(r, "read", c)) => got[r] = ideal[s]
  /\ s \notin disturbed /\ c \notin disturbed /\ (At(r, "back", c) \/ pc[r] = "write") =>
       got[r] = Concat(ideal[s], ideal[c])

GotIdeal(r) ==
  /\ job[r].op = "merge" => ReadTwo(r, Who[r].session, ResolveClient(r))
  /\ job[r].op \notin {"merge", "create", "clear"} => ReadOne(r, ResolveClient(r))

CopyIdeal(r) == HitIdeal(r) /\ (InFlight(r) => GotIdeal(r))

IdealInv ==
  /\ SequentialChangesKept
  /\ ApartInv
  /\ \A r \in Requests : CopyIdeal(r)

-----------------------------------------------------------------------------
(* Carts.                                                                  *)

\* A sequence whose elements are replaced one by one.
LEMMA Replaced ==
  ASSUME NEW S, NEW T, NEW q \in Seq(S), NEW f \in [DOMAIN q -> T]
  PROVE  f \in Seq(T) /\ Len(f) = Len(q) /\ DOMAIN f = DOMAIN q /\ (f = <<>> <=> q = <<>>)
<1>1. DOMAIN q = 1 .. Len(q) /\ Len(q) \in Nat
  OBVIOUS
<1>2. f \in Seq(T) /\ Len(f) = Len(q)
  BY <1>1
<1> QED
  BY <1>1, <1>2, EmptySeq

LEMMA LineParts ==
  ASSUME NEW cart \in Cart, NEW s \in Skus
  PROVE  /\ cart[s] \in Seq(Line)
         /\ \A i \in DOMAIN cart[s] : /\ cart[s][i] \in Line
                                      /\ cart[s][i].quantity \in Int
                                      /\ cart[s][i].isChecked \in BOOLEAN
<1>1. cart[s] \in Seq(Line)
  BY DEF Cart
<1>2. \A i \in DOMAIN cart[s] : cart[s][i] \in Line
  BY <1>1
<1> QED
  BY <1>1, <1>2 DEF Line

LEMMA EmptyGood ==
  /\ EmptyCart \in Cart /\ Within(EmptyCart)
  /\ \A A : Holds(EmptyCart, A)
  /\ Single(EmptyCart)
<1>1. <<>> \in Seq(Line) /\ DOMAIN <<>> = {} /\ Len(<<>>) = 0
  BY EmptySeq
<1> QED
  BY <1>1 DEF EmptyCart, Cart, Within, Holds, Single

LEMMA WhichPart ==
  ASSUME NEW n \in Nat, NEW m \in Nat, NEW i \in 1 .. (n + m)
  PROVE  (i <= n => i \in 1 .. n) /\ (~(i <= n) => i - n \in 1 .. m)
  OBVIOUS

LEMMA ConcatTyped ==
  ASSUME NEW a \in Cart, NEW b \in Cart
  PROVE  /\ Concat(a, b) \in Cart
         /\ Within(a) /\ Within(b) => Within(Concat(a, b))
         /\ \A A, B : Holds(a, A) /\ Holds(b, B) => Holds(Concat(a, b), A \cup B)
         /\ a = EmptyCart => Concat(a, b) = b
<1>1. ASSUME NEW s \in Skus
      PROVE  /\ a[s] \in Seq(Line) /\ b[s] \in Seq(Line)
             /\ a[s] \o b[s] \in Seq(Line)
             /\ Concat(a, b)[s] = a[s] \o b[s]
             /\ a[s] = <<>> => a[s] \o b[s] = b[s]
             /\ a[s] \o b[s] # <<>> => a[s] # <<>> \/ b[s] # <<>>
             /\ \A i \in DOMAIN (a[s] \o b[s]) :
                  \/ i \in DOMAIN a[s] /\ (a[s] \o b[s])[i] = a[s][i]
                  \/ i - Len(a[s]) \in DOMAIN b[s] /\ (a[s] \o b[s])[i] = b[s][i - Len(a[s])]
  <2>1. a[s] \in Seq(Line) /\ b[s] \in Seq(Line)
    BY LineParts
  <2>2. a[s] \o b[s] \in Seq(Line) /\ Len(a[s] \o b[s]) = Len(a[s]) + Len(b[s])
    BY <2>1, ConcatProperties
  <2>3. Concat(a, b)[s] = a[s] \o b[s]
    BY DEF Concat
  <2>4. a[s] = <<>> => a[s] \o b[s] = b[s]
    BY <2>1, ConcatEmptySeq
  <2>5. a[s] \o b[s] # <<>> => a[s] # <<>> \/ b[s] # <<>>
    BY <2>1, <2>4
  <2>6. \A i \in DOMAIN (a[s] \o b[s]) :
          \/ i \in DOMAIN a[s] /\ (a[s] \o b[s])[i] = a[s][i]
          \/ i - Len(a[s]) \in DOMAIN b[s] /\ (a[s] \o b[s])[i] = b[s][i - Len(a[s])]
    <3> DEFINE x == a[s] \o b[s]
    <3>1. /\ DOMAIN a[s] = 1 .. Len(a[s]) /\ DOMAIN b[s] = 1 .. Len(b[s])
          /\ DOMAIN x = 1 .. (Len(a[s]) + Len(b[s]))
          /\ Len(a[s]) \in Nat /\ Len(b[s]) \in Nat
      BY <2>1, <2>2
    <3>2. \A i \in 1 .. (Len(a[s]) + Len(b[s])) :
            x[i] = IF i <= Len(a[s]) THEN a[s][i] ELSE b[s][i - Len(a[s])]
      BY <2>1, ConcatProperties
    <3> HIDE DEF x
    <3>3. \A i \in DOMAIN x :
            \/ i \in DOMAIN a[s] /\ x[i] = a[s][i]
            \/ i - Len(a[s]) \in DOMAIN b[s] /\ x[i] = b[s][i - Len(a[s])]
      BY <3>1, <3>2, WhichPart
    <3> QED
      BY <3>3 DEF x
  <2> QED
    BY <2>1, <2>2, <2>3, <2>4, <2>5, <2>6
<1>2. Concat(a, b) \in Cart
  BY <1>1 DEF Concat, Cart
<1>3. ASSUME Within(a), Within(b)
      PROVE  Within(Concat(a, b))
  <2> SUFFICES ASSUME NEW s \in Skus, NEW i \in DOMAIN Concat(a, b)[s]
               PROVE  \E stock \in Stocks[s] : Concat(a, b)[s][i].quantity <= stock
    BY DEF Within
  <2>1. \/ i \in DOMAIN a[s] /\ Concat(a, b)[s][i] = a[s][i]
        \/ i - Len(a[s]) \in DOMAIN b[s] /\ Concat(a, b)[s][i] = b[s][i - Len(a[s])]
    BY <1>1
  <2> QED
    BY <1>3, <2>1 DEF Within
<1>4. \A A, B : Holds(a, A) /\ Holds(b, B) => Holds(Concat(a, b), A \cup B)
  BY <1>1 DEF Holds
<1>5. a = EmptyCart => Concat(a, b) = b
  <2>1. a = EmptyCart => \A s \in Skus : Concat(a, b)[s] = b[s]
    BY <1>1 DEF EmptyCart
  <2> QED
    BY <2>1, <1>2 DEF Cart
<1> QED
  BY <1>2, <1>3, <1>4, <1>5

LEMMA WithoutGood ==
  ASSUME NEW cart \in Cart, NEW T
  PROVE  /\ Without(cart, T) \in Cart
         /\ Within(cart) => Within(Without(cart, T))
         /\ \A A : Holds(cart, A) => Holds(Without(cart, T), A)
         /\ Single(cart) => Single(Without(cart, T))
<1>1. <<>> \in Seq(Line) /\ DOMAIN <<>> = {} /\ Len(<<>>) = 0
  BY EmptySeq
<1>2. \A s \in Skus : Without(cart, T)[s] = cart[s] \/ Without(cart, T)[s] = <<>>
  BY DEF Without
<1>3. Without(cart, T) \in Cart
  BY <1>1 DEF Without, Cart
<1> QED
  BY <1>1, <1>2, <1>3 DEF Within, Holds, Single

\* Lines that only have their flags changed.
LEMMA Flagged ==
  ASSUME NEW cart \in Cart, NEW new,
         new = [s \in Skus |-> new[s]],
         \A s \in Skus :
           /\ new[s] \in [DOMAIN cart[s] -> Line]
           /\ \A i \in DOMAIN cart[s] : new[s][i].quantity = cart[s][i].quantity
  PROVE  /\ new \in Cart
         /\ Within(cart) => Within(new)
         /\ \A A : Holds(cart, A) => Holds(new, A)
         /\ Single(cart) => Single(new)
<1>1. ASSUME NEW s \in Skus
      PROVE  /\ new[s] \in Seq(Line) /\ Len(new[s]) = Len(cart[s])
             /\ DOMAIN new[s] = DOMAIN cart[s] /\ (new[s] = <<>> <=> cart[s] = <<>>)
  BY LineParts, Replaced
<1>2. new \in Cart
  BY <1>1 DEF Cart
<1> QED
  BY <1>1, <1>2 DEF Within, Holds, Single

LEMMA Toggled ==
  ASSUME NEW line \in Line
  PROVE  /\ [line EXCEPT !.isChecked = ~@] \in Line
         /\ [line EXCEPT !.isChecked = ~@].quantity = line.quantity
<1>1. PICK q \in Int, b \in BOOLEAN : line = [quantity |-> q, isChecked |-> b]
  BY DEF Line
<1>2. line.quantity = q /\ line.isChecked = b
  BY <1>1, Zenon
<1>3. [line EXCEPT !.isChecked = ~@] = [quantity |-> q, isChecked |-> ~b]
  <2>1. \A v : [line EXCEPT !.isChecked = v] = [quantity |-> q, isChecked |-> v]
    BY <1>1
  <2>2. (~line.isChecked) = (~b)
    BY <1>2, Zenon
  <2> QED
    BY <2>1, <2>2, Zenon
<1>4. (~b) \in BOOLEAN
  BY <1>1, Zenon
<1>5. [quantity |-> q, isChecked |-> ~b] \in Line
  BY <1>4, Zenon DEF Line
<1> QED
  BY <1>1, <1>2, <1>3, <1>5, Zenon

\* Lines that only have their flags changed, as toggling and checking do.
LEMMA FlagsGood ==
  ASSUME NEW cart \in Cart, NEW j \in Job, NEW stock \in Int,
         j.op \in {"toggleCheck", "checkAll", "uncheckAll"}
  PROVE  LET new == Updated(cart, j, stock) IN
         /\ new \in Cart
         /\ Within(cart) => Within(new)
         /\ \A A : Holds(cart, A) => Holds(new, A)
         /\ Single(cart) => Single(new)
<1> DEFINE new == Updated(cart, j, stock)
<1>1. new = [s \in Skus |-> new[s]]
  BY DEF Updated, OnLines
<1>2. ASSUME NEW s \in Skus
      PROVE  /\ new[s] \in [DOMAIN cart[s] -> Line]
             /\ \A i \in DOMAIN cart[s] : new[s][i].quantity = cart[s][i].quantity
  <2>1. /\ cart[s] \in Seq(Line)
        /\ \A i \in DOMAIN cart[s] : cart[s][i] \in Line
    BY LineParts
  <2>2. CASE new[s] = cart[s]
    BY <2>1, <2>2
  <2>3. CASE j.op = "toggleCheck" /\ s \in j.skus
    <3>1. new[s] = [i \in DOMAIN cart[s] |-> [cart[s][i] EXCEPT !.isChecked = ~@]]
      BY <2>3 DEF Updated, OnLines
    <3>2. \A i \in DOMAIN cart[s] :
            /\ [cart[s][i] EXCEPT !.isChecked = ~@] \in Line
            /\ [cart[s][i] EXCEPT !.isChecked = ~@].quantity = cart[s][i].quantity
      BY <2>1, Toggled, Zenon
    <3> QED
      BY <3>1, <3>2, Zenon
  <2>4. CASE j.op = "checkAll"
    <3>1. new[s] = [i \in DOMAIN cart[s] |-> [cart[s][i] EXCEPT !.isChecked = TRUE]]
      BY <2>4 DEF Updated, OnLines
    <3> QED
      BY <2>1, <3>1 DEF Line
  <2>5. CASE j.op = "uncheckAll"
    <3>1. new[s] = [i \in DOMAIN cart[s] |-> [cart[s][i] EXCEPT !.isChecked = FALSE]]
      BY <2>5 DEF Updated, OnLines
    <3> QED
      BY <2>1, <3>1 DEF Line
  <2>6. j.op = "toggleCheck" /\ s \notin j.skus => new[s] = cart[s]
    BY DEF Updated, OnLines
  <2> QED
    BY <2>2, <2>3, <2>4, <2>5, <2>6
<1> HIDE DEF new
<1>3. /\ new \in Cart
      /\ Within(cart) => Within(new)
      /\ \A A : Holds(cart, A) => Holds(new, A)
      /\ Single(cart) => Single(new)
  BY <1>1, <1>2, Flagged
<1> QED
  BY <1>3 DEF new

LEMMA Resolved ==
  ASSUME NEW quantity \in Int, NEW stock \in Int
  PROVE  ResolveStock(quantity, stock) \in Int /\ ResolveStock(quantity, stock) <= stock
  BY DEF ResolveStock

\* setItem: what it wrote is within the stock it has seen.
LEMMA SetItemGood ==
  ASSUME NEW cart \in Cart, NEW s \in Skus, NEW j \in Job, NEW stock \in Stocks[s], stock \in Int
  PROVE  LET new == SetItem(cart, s, j, stock) IN
         /\ new \in Cart
         /\ Within(cart) => Within(new)
         /\ \A A : Holds(cart, A) => Holds(new, A \cup {s})
         /\ Single(cart) => Single(new)
<1> DEFINE new == SetItem(cart, s, j, stock)
<1>1. j.quantity \in Int /\ j.isChecked \in BOOLEAN
  BY DEF Job
<1>2. /\ new = [t \in Skus |-> new[t]]
      /\ \A t \in Skus \ {s} : new[t] = cart[t]
      /\ new[s] \in Seq(Line)
      /\ \A i \in DOMAIN new[s] : new[s][i].quantity <= stock
      /\ Len(new[s]) = Len(cart[s]) \/ Len(new[s]) = 1
  <2>1. CASE cart[s] = <<>>
    <3> DEFINE q == ResolveStock(j.quantity, stock)
    <3>1. new = [cart EXCEPT ![s] = <<[quantity |-> q, isChecked |-> j.isChecked]>>]
      BY <2>1 DEF SetItem
    <3>2. q \in Int /\ q <= stock
      BY <1>1, Resolved
    <3> HIDE DEF q, new
    <3>3. [quantity |-> q, isChecked |-> j.isChecked] \in Line
      BY <1>1, <3>2 DEF Line
    <3>4. new[s] = <<[quantity |-> q, isChecked |-> j.isChecked]>>
      BY <3>1 DEF Cart
    <3>5. new = [t \in Skus |-> new[t]] /\ \A t \in Skus \ {s} : new[t] = cart[t]
      BY <3>1 DEF Cart
    <3>6. DOMAIN new[s] = {1} /\ Len(new[s]) = 1 /\ new[s][1].quantity = q
      BY <3>4
    <3>7. new[s] \in Seq(Line)
      BY <3>3, <3>4
    <3> QED
      BY <3>2, <3>5, <3>6, <3>7
  <2>2. CASE cart[s] # <<>>
    <3> DEFINE base == IF j.type = "set" THEN 0 ELSE cart[s][1].quantity
               q == ResolveStock(base + j.quantity, stock)
    <3>1. /\ new = [t \in Skus |-> new[t]]
          /\ \A t \in Skus \ {s} : new[t] = cart[t]
          /\ new[s] = [i \in DOMAIN cart[s] |-> [cart[s][i] EXCEPT !.quantity = q]]
      BY <2>2 DEF SetItem, OnLines
    <3>2. base \in Int
      <4>1. 1 \in DOMAIN cart[s]
        BY <2>2, LineParts
      <4> QED
        BY <4>1, LineParts
    <3>3. q \in Int /\ q <= stock
      <4>1. base + j.quantity \in Int
        BY <1>1, <3>2
      <4> QED
        BY <4>1, Resolved
    <3> HIDE DEF base, q, new
    <3>4. new[s] \in [DOMAIN cart[s] -> Line] /\ \A i \in DOMAIN new[s] : new[s][i].quantity = q
      BY <3>1, <3>3, LineParts DEF Line
    <3>5. new[s] \in Seq(Line) /\ Len(new[s]) = Len(cart[s])
      BY <3>4, LineParts, Replaced
    <3> QED
      BY <3>1, <3>3, <3>4, <3>5
  <2> QED
    BY <2>1, <2>2
<1> HIDE DEF new
<1>3. new \in Cart
  BY <1>2 DEF Cart
<1>4. Within(cart) => Within(new)
  BY <1>2 DEF Within
<1>5. \A A : Holds(cart, A) => Holds(new, A \cup {s})
  BY <1>2 DEF Holds
<1>6. Single(cart) => Single(new)
  BY <1>2 DEF Single
<1> QED
  BY <1>3, <1>4, <1>5, <1>6 DEF new

\* Whatever an operation does to a good cart leaves a good one.
LEMMA UpdatedGood ==
  ASSUME NEW cart \in Cart, NEW j \in Job, j.op = "setItem" => j.skus # {}, NEW stock \in Int,
         j.op = "setItem" => stock \in Stocks[CHOOSE s \in j.skus : TRUE]
  PROVE  /\ Updated(cart, j, stock) \in Cart
         /\ Within(cart) => Within(Updated(cart, j, stock))
         /\ \A A : Holds(cart, A) =>
              Holds(Updated(cart, j, stock), A \cup (IF j.op = "setItem" THEN j.skus ELSE {}))
         /\ Single(cart) => Single(Updated(cart, j, stock))
<1>1. j.op \in Operations /\ j.skus \in SUBSET Skus
  BY DEF Job
<1>2. CASE j.op = "setItem"
  <2> DEFINE s == CHOOSE s \in j.skus : TRUE
  <2>1. s \in j.skus /\ s \in Skus
    BY <1>1, <1>2
  <2>2. Updated(cart, j, stock) = SetItem(cart, s, j, stock)
    BY <1>2 DEF Updated
  <2> HIDE DEF s
  <2>3. stock \in Stocks[s]
    BY <1>2 DEF s
  <2>4. /\ SetItem(cart, s, j, stock) \in Cart
        /\ Within(cart) => Within(SetItem(cart, s, j, stock))
        /\ \A A : Holds(cart, A) => Holds(SetItem(cart, s, j, stock), A \cup {s})
        /\ Single(cart) => Single(SetItem(cart, s, j, stock))
    BY <2>1, <2>3, SetItemGood
  <2>5. \A A : Holds(SetItem(cart, s, j, stock), A \cup {s})
                 => Holds(SetItem(cart, s, j, stock), A \cup j.skus)
    BY <2>1 DEF Holds
  <2> QED
    BY <1>2, <2>2, <2>4, <2>5
<1>3. CASE j.op \in {"removeItem", "bought"}
  <2>1. Updated(cart, j, stock) = Without(cart, j.skus)
    BY <1>3 DEF Updated
  <2> QED
    BY <1>3, <2>1, WithoutGood
<1>4. CASE j.op \in {"toggleCheck", "checkAll", "uncheckAll"}
  BY <1>4, FlagsGood
<1>5. CASE j.op = "clear"
  <2>1. Updated(cart, j, stock) = EmptyCart
    BY <1>5 DEF Updated
  <2> QED
    BY <1>5, <2>1, EmptyGood
<1>6. CASE j.op \in {"view", "merge", "create", "save"}
  <2>1. Updated(cart, j, stock) = cart
    BY <1>6 DEF Updated
  <2> QED
    BY <1>6, <2>1
<1> QED
  BY <1>1, <1>2, <1>3, <1>4, <1>5, <1>6 DEF Operations

-----------------------------------------------------------------------------
(* Who asks for what.                                                      *)

LEMMA WhoTyped ==
  ASSUME NEW r \in Requests
  PROVE  /\ Who[r].session \in Sessions
         /\ Who[r].customer # NoCustomer =>
              Who[r].customer \in Customers /\ ResolveClient(r) = Who[r].customer
         /\ Intended(r) = ResolveClient(r)
         /\ ResolveClient(r) \in Clients
         /\ Sessions \subseteq Clients /\ Customers \subseteq Clients
  BY CartAssumption DEF ResolveClient, Intended, Clients

LEMMA JobTyped ==
  ASSUME NEW r \in Requests, NEW j \in Jobs[r]
  PROVE  /\ j \in Job /\ j.op \in Operations
         /\ j.op \in ForCustomers => Who[r].customer # NoCustomer
         /\ j.op = "setItem" => j.skus # {} /\ (CHOOSE s \in j.skus : TRUE) \in Skus
<1>1. j \in Job /\ j.op \in Operations /\ j.skus \in SUBSET Skus
  BY CartAssumption DEF Job
<1> QED
  BY <1>1, CartAssumption

LEMMA StockSeen ==
  ASSUME NEW r \in Requests, NEW j \in Jobs[r],
         NEW stock \in IF j.op = "setItem" THEN Stocks[CHOOSE s \in j.skus : TRUE] ELSE {0}
  PROVE  stock \in Int /\ (j.op = "setItem" => stock \in Stocks[CHOOSE s \in j.skus : TRUE])
  BY JobTyped, CartAssumption

\* What an operation reads first, and that it reads two carts only to merge.
LEMMA ReadsTyped ==
  ASSUME NEW r \in Requests, NEW j \in Jobs[r]
  PROVE  /\ ReadsOf(r, j.op) \in Seq(Clients)
         /\ j.op = "clear" => ReadsOf(r, j.op) = <<>>
         /\ j.op = "merge" => ReadsOf(r, j.op) = <<Who[r].session, Who[r].customer>>
         /\ j.op = "create" => ReadsOf(r, j.op) = <<Who[r].session>>
         /\ j.op \notin {"clear", "merge", "create"} => ReadsOf(r, j.op) = <<ResolveClient(r)>>
         /\ j.op # "clear" => ReadsOf(r, j.op) # <<>>
<1>1. /\ Who[r].session \in Clients /\ ResolveClient(r) \in Clients
      /\ j.op = "merge" => Who[r].customer \in Clients
  BY WhoTyped, JobTyped DEF ForCustomers
<1>2. CASE j.op = "clear"
  BY <1>2, EmptySeq DEF ReadsOf
<1>3. CASE j.op = "merge"
  BY <1>1, <1>3 DEF ReadsOf
<1>4. CASE j.op = "create"
  BY <1>1, <1>4 DEF ReadsOf
<1>5. CASE j.op \notin {"clear", "merge", "create"}
  BY <1>1, <1>5 DEF ReadsOf
<1> QED
  BY <1>2, <1>3, <1>4, <1>5

LEMMA EntryTyped ==
  /\ Absent \in Entry /\ Absent.items = EmptyCart
  /\ \A cart \in Cart : Fresh(cart) \in Entry /\ Fresh(cart).items = cart
  /\ \A e \in Entry : e.items \in Cart
  BY EmptyGood DEF Absent, Fresh, Entry

\* The next cart to read.
LEMMA HeadOfReads ==
  ASSUME TypeOK, NEW r \in Requests, pc[r] \in {"read", "back"}
  PROVE  /\ reads[r] \in Seq(Clients) /\ reads[r] # <<>>
         /\ Head(reads[r]) \in Clients
         /\ Tail(reads[r]) \in Seq(Clients)
         /\ Len(reads[r]) # 1 => Tail(reads[r]) # <<>>
<1>1. reads[r] \in Seq(Clients) /\ reads[r] # <<>>
  BY DEF TypeOK
<1>2. /\ Head(reads[r]) \in Clients /\ Tail(reads[r]) \in Seq(Clients)
      /\ Len(Tail(reads[r])) = Len(reads[r]) - 1 /\ Len(reads[r]) \in Nat
  BY <1>1, HeadTailProperties
<1>3. Len(reads[r]) # 1 => Len(Tail(reads[r])) # 0
  BY <1>2
<1>4. Len(<<>>) = 0
  BY EmptySeq
<1> QED
  BY <1>1, <1>2, <1>3, <1>4

\* An operation's result is a cart, in the history too.
LEMMA ResultTyped ==
  ASSUME TypeOK, NEW r \in Requests, job[r] \in Jobs[r],
         NEW stock \in IF job[r].op = "setItem"
                       THEN Stocks[CHOOSE s \in job[r].skus : TRUE] ELSE {0}
  PROVE  /\ Updated(got[r], job[r], stock) \in Cart
         /\ Updated(IF job[r].op = "merge"
                    THEN Concat(ideal[Who[r].session], ideal[Intended(r)])
                    ELSE ideal[Intended(r)], job[r], stock) \in Cart
<1>1. /\ job[r] \in Job /\ stock \in Int /\ (job[r].op = "setItem" => job[r].skus # {})
      /\ job[r].op = "setItem" => stock \in Stocks[CHOOSE s \in job[r].skus : TRUE]
  BY JobTyped, StockSeen
<1>2. got[r] \in Cart /\ ideal[Intended(r)] \in Cart /\ ideal[Who[r].session] \in Cart
  BY WhoTyped DEF TypeOK
<1>3. Concat(ideal[Who[r].session], ideal[Intended(r)]) \in Cart
  BY <1>2, ConcatTyped
<1>4. \A cart \in Cart : Updated(cart, job[r], stock) \in Cart
  BY <1>1, UpdatedGood
<1> QED
  BY <1>2, <1>3, <1>4

-----------------------------------------------------------------------------
(* The types and what a request has still to read.                         *)

LEMMA TypeInit ==
  ASSUME Init
  PROVE  TypeOK
<1>1. NoJob \in Job
  BY DEF NoJob, Job, Operations
<1>2. <<>> \in Seq(Clients)
  BY EmptySeq
<1> QED
  BY <1>1, <1>2, EntryTyped, EmptyGood DEF Init, TypeOK, Row, Refresh

LEMMA ReceiveTypes ==
  ASSUME TypeOK, ReadsInv, NEW r \in Requests, Receive(r)
  PROVE  TypeOK' /\ ReadsInv'
<1>1. PICK j \in Jobs[r] :
        /\ job' = [job EXCEPT ![r] = j]
        /\ reads' = [reads EXCEPT ![r] = ReadsOf(r, j.op)]
        /\ pc' = [pc EXCEPT ![r] = IF j.op = "clear" THEN "write" ELSE "read"]
        /\ disturbed' = disturbed \cup UNION {Concerns(r, j.op) \cap Concerns(q, job[q].op) :
                                                q \in {q \in Requests : InFlight(q)}}
  BY DEF Receive
<1>2. /\ pc[r] = "idle"
      /\ UNCHANGED <<entry, saved, refresh, hit, got, asked, merged, ideal>>
  BY DEF Receive, cartVars
<1>3. Concerns(r, j.op) \subseteq Clients
  BY WhoTyped DEF Concerns
<1>4. disturbed' \subseteq Clients
  BY <1>1, <1>3 DEF TypeOK
<1>5. j \in Job /\ ReadsOf(r, j.op) \in Seq(Clients) /\ (j.op # "clear" => ReadsOf(r, j.op) # <<>>)
  BY JobTyped, ReadsTyped
<1>6. /\ job' \in [Requests -> Job] /\ reads' \in [Requests -> Seq(Clients)]
      /\ pc' \in [Requests -> {"idle", "read", "back", "write", "done"}]
      /\ \A q \in Requests : pc'[q] \in {"read", "back"} => reads'[q] # <<>>
  BY <1>1, <1>5 DEF TypeOK
<1>7. TypeOK'
  BY <1>2, <1>4, <1>6 DEF TypeOK
<1>8. ASSUME NEW q \in Requests
      PROVE  Standing(q)'
  BY <1>1, <1>2, <1>5 DEF TypeOK, ReadsInv, Standing
<1> QED
  BY <1>7, <1>8 DEF ReadsInv

LEMMA TookTypes ==
  ASSUME TypeOK, ReadsInv, NEW r \in Requests, pc[r] = "read",
         NEW e \in Entry, Took(r, e), refresh' \in [Customers -> Refresh]
  PROVE  TypeOK' /\ ReadsInv'
<1>1. e.items \in Cart /\ Concat(got[r], e.items) \in Cart
  BY EntryTyped, ConcatTyped DEF TypeOK
<1>2. /\ hit' = [hit EXCEPT ![r] = e]
      /\ got' = [got EXCEPT ![r] = Concat(got[r], e.items)]
      /\ pc' = [pc EXCEPT ![r] = "back"]
      /\ UNCHANGED <<entry, saved, job, reads, asked, merged, ideal, disturbed>>
  BY DEF Took, TypeOK, history
<1>3. TypeOK'
  BY <1>1, <1>2 DEF TypeOK
<1>4. ASSUME NEW q \in Requests
      PROVE  Standing(q)'
  BY <1>2 DEF TypeOK, ReadsInv, Standing
<1> QED
  BY <1>3, <1>4 DEF ReadsInv

\* Only a merge reads on.
LEMMA OneCartLeft ==
  ASSUME TypeOK, ReadsInv, NEW r \in Requests, pc[r] \in {"read", "back"}
  PROVE  \/ Len(reads[r]) = 1
         \/ /\ job[r].op = "merge" /\ Tail(reads[r]) = <<Who[r].customer>>
            /\ Head(reads[r]) = Who[r].session
<1>1. job[r] \in Jobs[r]
  BY DEF ReadsInv, Standing
<1>2. CASE reads[r] = <<Who[r].customer>>
  BY <1>2
<1>3. CASE reads[r] = ReadsOf(r, job[r].op) /\ job[r].op # "clear"
  <2>1. CASE job[r].op = "merge"
    <3>1. reads[r] = <<Who[r].session, Who[r].customer>>
      BY <1>1, <1>3, <2>1, ReadsTyped
    <3> QED
      BY <2>1, <3>1
  <2>2. CASE job[r].op = "create"
    <3>1. reads[r] = <<Who[r].session>>
      BY <1>1, <1>3, <2>2, ReadsTyped
    <3> QED
      BY <3>1
  <2>3. CASE job[r].op \notin {"clear", "merge", "create"}
    <3>1. reads[r] = <<ResolveClient(r)>>
      BY <1>1, <1>3, <2>3, ReadsTyped
    <3> QED
      BY <3>1
  <2> QED
    BY <1>3, <2>1, <2>2, <2>3
<1> QED
  BY <1>2, <1>3 DEF ReadsInv, Standing

LEMMA ReadOnTypes ==
  ASSUME TypeOK, ReadsInv, NEW r \in Requests, pc[r] \in {"read", "back"}, ReadOn(r),
         entry' \in [Clients \cup {Nobody} -> Entry]
  PROVE  TypeOK' /\ ReadsInv'
<1>1. /\ reads' = [reads EXCEPT ![r] = Tail(reads[r])]
      /\ pc' = [pc EXCEPT ![r] = IF Len(reads[r]) = 1 THEN "write" ELSE "read"]
      /\ UNCHANGED <<saved, refresh, job, hit, got, asked, merged, ideal, disturbed>>
  BY DEF ReadOn, TypeOK, history
<1>2. Tail(reads[r]) \in Seq(Clients) /\ (Len(reads[r]) # 1 => Tail(reads[r]) # <<>>)
  BY HeadOfReads
<1>3. TypeOK'
  BY <1>1, <1>2 DEF TypeOK
<1>4. /\ job[r] \in Jobs[r]
      /\ Len(reads[r]) # 1 => job[r].op = "merge" /\ Tail(reads[r]) = <<Who[r].customer>>
  BY OneCartLeft DEF ReadsInv, Standing
<1>5. Standing(r)'
  BY <1>1, <1>2, <1>4 DEF TypeOK, Standing
<1>6. ASSUME NEW q \in Requests, q # r
      PROVE  Standing(q)'
  BY <1>1, <1>6 DEF TypeOK, ReadsInv, Standing
<1> QED
  BY <1>3, <1>5, <1>6 DEF ReadsInv

LEMMA EndsTypes ==
  ASSUME TypeOK, ReadsInv, NEW r \in Requests, pc[r] # "idle", Ends(r),
         entry' \in [Clients \cup {Nobody} -> Entry], saved' \in [Customers -> Row],
         asked' \in [Clients -> SUBSET Skus], merged' \subseteq Customers,
         ideal' \in [Clients -> Cart], disturbed' \subseteq Clients
  PROVE  TypeOK' /\ ReadsInv'
<1>1. /\ pc' = [pc EXCEPT ![r] = "done"]
      /\ UNCHANGED <<refresh, job, reads, hit, got>>
  BY DEF Ends
<1>2. TypeOK'
  BY <1>1 DEF TypeOK
<1>3. ASSUME NEW q \in Requests
      PROVE  Standing(q)'
  BY <1>1 DEF TypeOK, ReadsInv, Standing
<1> QED
  BY <1>2, <1>3 DEF ReadsInv

LEMMA WriteCacheTypes ==
  ASSUME TypeOK, ReadsInv, NEW r \in Requests, WriteCache(r)
  PROVE  TypeOK' /\ ReadsInv'
<1>1. pc[r] = "write" /\ job[r] \in Jobs[r] /\ Ends(r) /\ UNCHANGED saved
  BY DEF WriteCache, ReadsInv, Standing
<1>2. Intended(r) \in Clients /\ Target(r) \in Clients \cup {Nobody} /\ Who[r].session \in Clients
  BY WhoTyped DEF Target
<1>3. PICK stock \in IF job[r].op = "setItem" THEN Stocks[CHOOSE s \in job[r].skus : TRUE] ELSE {0} :
        /\ entry' = [entry EXCEPT ![Target(r)] = Fresh(Updated(got[r], job[r], stock))]
        /\ ideal' = [ideal EXCEPT ![Intended(r)] =
             Updated(IF job[r].op = "merge"
                     THEN Concat(ideal[Who[r].session], ideal[Intended(r)])
                     ELSE ideal[Intended(r)], job[r], stock)]
  BY <1>2 DEF WriteCache, TypeOK
<1>4. entry' \in [Clients \cup {Nobody} -> Entry] /\ ideal' \in [Clients -> Cart]
  BY <1>1, <1>3, ResultTyped, EntryTyped DEF TypeOK
<1>5. AskedBy(r) \subseteq Skus
  <2>1. job[r].skus \subseteq Skus
    BY <1>1, JobTyped DEF Job
  <2> QED
    BY <1>2, <2>1 DEF AskedBy, TypeOK
<1>6. asked' = [asked EXCEPT ![Intended(r)] = asked[Intended(r)] \cup AskedBy(r)]
  BY <1>2 DEF WriteCache, TypeOK
<1>7. asked' \in [Clients -> SUBSET Skus]
  BY <1>5, <1>6 DEF TypeOK
<1>8. merged' \subseteq Customers
  <2>1. job[r].op = "merge" => Intended(r) \in Customers
    BY <1>1, JobTyped, WhoTyped DEF ForCustomers
  <2> QED
    BY <2>1 DEF WriteCache, TypeOK
<1>9. disturbed' \subseteq Clients
  BY <1>2 DEF WriteCache, TypeOK
<1> QED
  BY <1>1, <1>4, <1>7, <1>8, <1>9, EndsTypes DEF TypeOK

\* One line of each product version: the last.
LastLines(cart) == [s \in Skus |-> IF cart[s] = <<>> THEN <<>> ELSE <<cart[s][Len(cart[s])]>>]

LEMMA LastLinesGood ==
  ASSUME NEW cart \in Cart
  PROVE  /\ LastLines(cart) \in Cart
         /\ Within(cart) => Within(LastLines(cart))
         /\ \A A : Holds(cart, A) => Holds(LastLines(cart), A)
         /\ Single(LastLines(cart))
<1>1. ASSUME NEW s \in Skus, cart[s] # <<>>
      PROVE  /\ Len(cart[s]) \in DOMAIN cart[s]
             /\ LastLines(cart)[s] = <<cart[s][Len(cart[s])]>>
             /\ LastLines(cart)[s] \in Seq(Line)
             /\ Len(LastLines(cart)[s]) = 1 /\ DOMAIN LastLines(cart)[s] = {1}
             /\ LastLines(cart)[s][1] = cart[s][Len(cart[s])]
  <2>1. Len(cart[s]) \in DOMAIN cart[s]
    BY <1>1, LineParts, EmptySeq
  <2>2. cart[s][Len(cart[s])] \in Line
    BY <2>1, LineParts
  <2>3. LastLines(cart)[s] = <<cart[s][Len(cart[s])]>>
    BY <1>1 DEF LastLines
  <2> HIDE DEF LastLines
  <2> QED
    BY <2>1, <2>2, <2>3
<1>2. ASSUME NEW s \in Skus, cart[s] = <<>>
      PROVE  /\ LastLines(cart)[s] = <<>> /\ LastLines(cart)[s] \in Seq(Line)
             /\ DOMAIN LastLines(cart)[s] = {} /\ Len(LastLines(cart)[s]) = 0
  BY <1>2, EmptySeq DEF LastLines
<1>3. LastLines(cart) \in Cart
  BY <1>1, <1>2 DEF LastLines, Cart
<1>4. Within(cart) => Within(LastLines(cart))
  BY <1>1, <1>2 DEF Within
<1>5. \A A : Holds(cart, A) => Holds(LastLines(cart), A)
  BY <1>2 DEF Holds
<1>6. Single(LastLines(cart))
  <2>1. ASSUME NEW s \in Skus
        PROVE  Len(LastLines(cart)[s]) \in {0, 1}
    BY <1>1, <1>2
  <2>2. \A n \in {0, 1} : ~(n > 1)
    OBVIOUS
  <2> QED
    BY <2>1, <2>2 DEF Single
<1> QED
  BY <1>3, <1>4, <1>5, <1>6

LEMMA WriteDatabaseTypes ==
  ASSUME TypeOK, ReadsInv, NEW r \in Requests, WriteDatabase(r)
  PROVE  TypeOK' /\ ReadsInv'
<1> DEFINE c == Who[r].customer
<1>1. /\ pc[r] = "write" /\ job[r] \in Jobs[r] /\ Ends(r) /\ UNCHANGED <<entry, merged, ideal>>
      /\ job[r].op \in {"create", "save"}
  BY DEF WriteDatabase, ReadsInv, Standing
<1>2. c \in Customers /\ c \in Clients /\ Who[r].session \in Clients
  BY <1>1, JobTyped, WhoTyped DEF ForCustomers
<1>3. /\ saved' = [saved EXCEPT ![c] = [exists |-> TRUE, items |-> LastLines(got[r])]]
      /\ asked' = [asked EXCEPT ![c] = asked[c] \cup AskedBy(r)]
      /\ disturbed' = IF entry[c].state = "absent" THEN disturbed \cup {c} ELSE disturbed
  BY <1>2 DEF WriteDatabase, LastLines, TypeOK
<1>4. LastLines(got[r]) \in Cart
  BY LastLinesGood DEF TypeOK
<1>5. saved' \in [Customers -> Row]
  BY <1>2, <1>3, <1>4 DEF TypeOK, Row
<1>6. AskedBy(r) \subseteq Skus
  BY <1>1, <1>2 DEF AskedBy, TypeOK
<1>7. asked' \in [Clients -> SUBSET Skus]
  BY <1>2, <1>3, <1>6 DEF TypeOK
<1>8. disturbed' \subseteq Clients
  BY <1>2, <1>3 DEF TypeOK
<1> QED
  BY <1>1, <1>5, <1>7, <1>8, EndsTypes DEF TypeOK

LEMMA TypesStep ==
  ASSUME TypeOK, ReadsInv, [Next]_vars
  PROVE  TypeOK' /\ ReadsInv'
<1>1. ASSUME NEW r \in Requests, Receive(r)
      PROVE  TypeOK' /\ ReadsInv'
  BY <1>1, ReceiveTypes
<1>2. ASSUME NEW r \in Requests, ReadHit(r)
      PROVE  TypeOK' /\ ReadsInv'
  <2>1. pc[r] = "read" /\ entry[Head(reads[r])] \in Entry /\ Took(r, entry[Head(reads[r])])
    BY <1>2, HeadOfReads DEF ReadHit, TypeOK
  <2>2. refresh' \in [Customers -> Refresh]
    BY <1>2 DEF ReadHit, TypeOK, Refresh
  <2> QED
    BY <2>1, <2>2, TookTypes
<1>3. ASSUME NEW r \in Requests, ReadDatabase(r)
      PROVE  TypeOK' /\ ReadsInv'
  <2>1. /\ pc[r] = "read" /\ Head(reads[r]) \in Customers /\ UNCHANGED refresh
        /\ Took(r, Fresh(saved[Head(reads[r])].items))
    BY <1>3 DEF ReadDatabase
  <2>2. Fresh(saved[Head(reads[r])].items) \in Entry
    BY <2>1, EntryTyped DEF TypeOK, Row
  <2> QED
    BY <2>1, <2>2, TookTypes DEF TypeOK
<1>4. ASSUME NEW r \in Requests, ReadNothing(r)
      PROVE  TypeOK' /\ ReadsInv'
  BY <1>4, ReadOnTypes DEF ReadNothing, TypeOK
<1>5. ASSUME NEW r \in Requests, Back(r)
      PROVE  TypeOK' /\ ReadsInv'
  <2>1. entry' \in [Clients \cup {Nobody} -> Entry]
    BY <1>5, HeadOfReads DEF Back, TypeOK
  <2> QED
    BY <1>5, <2>1, ReadOnTypes DEF Back
<1>6. ASSUME NEW r \in Requests, NoBack(r)
      PROVE  TypeOK' /\ ReadsInv'
  BY <1>6, ReadOnTypes DEF NoBack, TypeOK
<1>7. ASSUME NEW r \in Requests, Answer(r) \/ Fails(r)
      PROVE  TypeOK' /\ ReadsInv'
  BY <1>7, EndsTypes DEF Answer, Fails, TypeOK, history
<1>8. ASSUME NEW r \in Requests, WriteCache(r) \/ WriteDatabase(r)
      PROVE  TypeOK' /\ ReadsInv'
  BY <1>8, WriteCacheTypes, WriteDatabaseTypes
<1>9. CASE /\ UNCHANGED requestVars
           /\ UNCHANGED <<asked, merged, ideal>>
           /\ entry' \in [Clients \cup {Nobody} -> Entry] /\ saved' \in [Customers -> Row]
           /\ refresh' \in [Customers -> Refresh] /\ disturbed' \subseteq Clients
  <2>1. TypeOK'
    BY <1>9 DEF TypeOK, requestVars
  <2>2. ReadsInv'
    BY <1>9 DEF ReadsInv, Standing, requestVars
  <2> QED
    BY <2>1, <2>2
<1>10. ASSUME NEW c \in Customers, RefreshFetch(c)
       PROVE  TypeOK' /\ ReadsInv'
  <2>1. refresh' \in [Customers -> Refresh]
    BY <1>10 DEF RefreshFetch, TypeOK, Refresh, Row
  <2> QED
    BY <1>9, <1>10, <2>1 DEF RefreshFetch, TypeOK, history
<1>11. ASSUME NEW c \in Customers, RefreshSave(c)
       PROVE  TypeOK' /\ ReadsInv'
  <2>1. refresh' \in [Customers -> Refresh] /\ refresh[c].items \in Cart
    BY <1>11 DEF RefreshSave, TypeOK, Refresh
  <2>2. entry' \in [Clients \cup {Nobody} -> Entry]
    BY <1>11, <2>1, EntryTyped DEF RefreshSave, TypeOK
  <2>3. disturbed' \subseteq Clients
    BY <1>11, WhoTyped DEF RefreshSave, TypeOK, Clients
  <2> QED
    BY <1>9, <1>11, <2>1, <2>2, <2>3 DEF RefreshSave, TypeOK
<1>12. ASSUME NEW c \in Clients, Age(c)
       PROVE  TypeOK' /\ ReadsInv'
  <2>1. entry' \in [Clients \cup {Nobody} -> Entry]
    BY <1>12 DEF Age, TypeOK, Entry
  <2> QED
    BY <1>9, <1>12, <2>1 DEF Age, TypeOK, history
<1>13. ASSUME NEW c \in Clients, Expire(c)
       PROVE  TypeOK' /\ ReadsInv'
  <2>1. entry' \in [Clients \cup {Nobody} -> Entry] /\ disturbed' \subseteq Clients
    BY <1>13, EntryTyped DEF Expire, TypeOK
  <2> QED
    BY <1>9, <1>13, <2>1 DEF Expire, TypeOK
<1>14. CASE UNCHANGED vars
  BY <1>9, <1>14 DEF vars, cartVars, history, TypeOK
<1> QED
  BY <1>1, <1>2, <1>3, <1>4, <1>5, <1>6, <1>7, <1>8, <1>10, <1>11, <1>12, <1>13, <1>14 DEF Next

-----------------------------------------------------------------------------
(* Every copy of a cart is good.                                           *)

\* A copy stays good while more is asked for and more carts are merged.
LEMMA GoodGrows ==
  ASSUME NEW c, NEW cart, NEW A, NEW B, NEW M, NEW N,
         Good(c, cart, A, M), A[c] \subseteq B[c], M \subseteq N
  PROVE  Good(c, cart, B, N)
  BY DEF Good, Holds

LEMMA EmptyIsGood ==
  ASSUME NEW c, NEW A, NEW M
  PROVE  Good(c, EmptyCart, A, M)
  BY EmptyGood DEF Good

LEMMA CopiesInit ==
  ASSUME Init
  PROVE  ReadsInv /\ CopiesInv
<1>1. \A c, A, M : Good(c, EmptyCart, A, M)
  BY EmptyIsGood
<1>2. CopiesInv
  BY <1>1, EntryTyped DEF Init, CopiesInv, InFlight, Clients
<1> QED
  BY <1>2 DEF Init, ReadsInv, Standing

\* What the requests hold is good after a step that changes none of them but r.
LEMMA OthersGood ==
  ASSUME TypeOK, ReadsInv, CopiesInv, NEW r,
         \A q \in Requests : q # r =>
           /\ pc'[q] = pc[q] /\ job'[q] = job[q] /\ reads'[q] = reads[q]
           /\ hit'[q] = hit[q] /\ got'[q] = got[q],
         \A c \in Clients : asked[c] \subseteq asked'[c],
         merged \subseteq merged'
  PROVE  \A q \in Requests : q # r =>
           /\ pc'[q] = "back" => Good(Head(reads'[q]), hit'[q].items, asked', merged')
           /\ InFlight(q)' => GoodRead(q)'
<1> SUFFICES ASSUME NEW q \in Requests, q # r
             PROVE  /\ pc'[q] = "back" => Good(Head(reads'[q]), hit'[q].items, asked', merged')
                    /\ InFlight(q)' => GoodRead(q)'
  OBVIOUS
<1>1. pc'[q] = "back" => Good(Head(reads'[q]), hit'[q].items, asked', merged')
  <2> SUFFICES ASSUME pc[q] = "back"
               PROVE  Good(Head(reads[q]), hit[q].items, asked', merged')
    OBVIOUS
  <2>1. Good(Head(reads[q]), hit[q].items, asked, merged) /\ Head(reads[q]) \in Clients
    BY HeadOfReads DEF CopiesInv
  <2> QED
    BY <2>1, GoodGrows
<1>2. InFlight(q)' => GoodRead(q)'
  <2> SUFFICES ASSUME InFlight(q)
               PROVE  GoodRead(q)'
    BY DEF InFlight
  <2>1. GoodRead(q)
    BY DEF CopiesInv
  <2>2. job'[q] = job[q] /\ got'[q] = got[q]
    OBVIOUS
  <2>3. CASE job[q].op = "merge"
    <3>1. Within(got[q]) /\ Holds(got[q], asked[Who[q].session] \cup asked[Who[q].customer])
      BY <2>1, <2>3 DEF GoodRead
    <3>2. asked[Who[q].session] \cup asked[Who[q].customer]
            \subseteq asked'[Who[q].session] \cup asked'[Who[q].customer]
      <4>1. job[q] \in Jobs[q]
        BY DEF InFlight, ReadsInv, Standing
      <4>2. Who[q].session \in Clients /\ Who[q].customer \in Clients
        BY <2>3, <4>1, JobTyped, WhoTyped DEF ForCustomers
      <4> QED
        BY <4>2
    <3> QED
      BY <2>2, <2>3, <3>1, <3>2 DEF GoodRead, Holds
  <2>4. CASE job[q].op # "merge"
    <3> DEFINE c == IF job[q].op = "create" THEN Who[q].session ELSE ResolveClient(q)
    <3>1. Good(c, got[q], asked, merged) /\ c \in Clients
      BY <2>1, <2>4, WhoTyped DEF GoodRead
    <3>2. Good(c, got[q], asked', merged')
      BY <3>1, GoodGrows
    <3> QED
      BY <2>2, <2>4, <3>2 DEF GoodRead, ResolveClient
  <2> QED
    BY <2>3, <2>4
<1> QED
  BY <1>1, <1>2

\* A read keeps what it has read: all of it is good if the cart it has just
\* read is.
LEMMA TookCopies ==
  ASSUME IInv, NEW r \in Requests, pc[r] = "read", NEW e \in Entry, Took(r, e),
         Good(Head(reads[r]), e.items, asked, merged),
         \A c \in Customers : refresh'[c].items = refresh[c].items
  PROVE  CopiesInv'
<1>1. /\ hit' = [hit EXCEPT ![r] = e]
      /\ got' = [got EXCEPT ![r] = Concat(got[r], e.items)]
      /\ pc' = [pc EXCEPT ![r] = "back"]
      /\ UNCHANGED <<entry, saved, job, reads, asked, merged>>
  BY DEF Took, IInv, TypeOK, history
<1>2. TypeOK /\ ReadsInv /\ CopiesInv /\ job[r] \in Jobs[r] /\ InFlight(r)
  BY DEF IInv, ReadsInv, Standing, InFlight
<1>3. pc'[r] = "back" /\ hit'[r] = e /\ got'[r] = Concat(got[r], e.items)
  BY <1>1, <1>2 DEF TypeOK
<1>4. \A q \in Requests : q # r =>
        /\ pc'[q] = "back" => Good(Head(reads'[q]), hit'[q].items, asked', merged')
        /\ InFlight(q)' => GoodRead(q)'
  BY <1>1, <1>2, OthersGood DEF TypeOK
<1>5. GoodRead(r)'
  <2>1. got[r] \in Cart /\ e.items \in Cart
    BY <1>2, EntryTyped DEF TypeOK
  <2>2. CASE job[r].op = "merge"
    <3> DEFINE A == asked[Who[r].session] \cup asked[Who[r].customer]
    <3>1. Within(got[r]) /\ Holds(got[r], A)
      BY <1>2, <2>2 DEF CopiesInv, GoodRead
    <3>2. Within(e.items) /\ Holds(e.items, asked[Head(reads[r])])
      BY DEF Good
    <3>3. Head(reads[r]) \in {Who[r].session, Who[r].customer}
      <4>1. ReadsOf(r, job[r].op) = <<Who[r].session, Who[r].customer>>
        BY <1>2, <2>2, ReadsTyped
      <4>2. CASE reads[r] = <<Who[r].session, Who[r].customer>>
        BY <4>2
      <4>3. CASE reads[r] = <<Who[r].customer>>
        BY <4>3
      <4> QED
        BY <1>2, <4>1, <4>2, <4>3 DEF ReadsInv, Standing
    <3>4. Within(Concat(got[r], e.items)) /\ Holds(Concat(got[r], e.items), A \cup asked[Head(reads[r])])
      BY <2>1, <3>1, <3>2, ConcatTyped
    <3>5. A \cup asked[Head(reads[r])] = A
      BY <3>3
    <3> QED
      BY <1>1, <1>3, <2>2, <3>4, <3>5 DEF GoodRead
  <2>3. CASE job[r].op # "merge"
    <3> DEFINE c == IF job[r].op = "create" THEN Who[r].session ELSE ResolveClient(r)
    <3>1. got[r] = EmptyCart
      BY <1>2, <2>3 DEF ReadsInv, Standing
    <3>2. Concat(got[r], e.items) = e.items
      BY <2>1, <3>1, ConcatTyped
    <3>3. reads[r] = ReadsOf(r, job[r].op) /\ job[r].op # "clear"
      BY <1>2, <2>3 DEF ReadsInv, Standing
    <3>4. Head(reads[r]) = c
      <4>1. CASE job[r].op = "create"
        <5>1. reads[r] = <<Who[r].session>>
          BY <1>2, <3>3, <4>1, ReadsTyped
        <5> QED
          BY <4>1, <5>1
      <4>2. CASE job[r].op # "create"
        <5>1. reads[r] = <<ResolveClient(r)>>
          BY <1>2, <2>3, <3>3, <4>2, ReadsTyped
        <5> QED
          BY <4>2, <5>1
      <4> QED
        BY <4>1, <4>2
    <3>5. Good(c, e.items, asked, merged)
      BY <3>4
    <3> HIDE DEF c
    <3>6. Good(c, got'[r], asked', merged')
      BY <1>1, <1>3, <3>2, <3>5
    <3> QED
      BY <1>1, <2>3, <3>6 DEF c, GoodRead, ResolveClient
  <2> QED
    BY <2>2, <2>3
<1>6. Good(Head(reads'[r]), hit'[r].items, asked', merged')
  BY <1>1, <1>3
<1>7. \A c \in Clients : Good(c, entry'[c].items, asked', merged')
  BY <1>1, <1>2 DEF CopiesInv
<1>8. \A c \in Customers : /\ Good(c, saved'[c].items, asked', merged')
                           /\ Good(c, refresh'[c].items, asked', merged')
  BY <1>1, <1>2 DEF CopiesInv
<1> QED
  BY <1>4, <1>5, <1>6, <1>7, <1>8 DEF CopiesInv

LEMMA ReadOnCopies ==
  ASSUME IInv, NEW r \in Requests, pc[r] \in {"read", "back"}, ReadOn(r),
         \A c \in Clients : Good(c, entry'[c].items, asked, merged)
  PROVE  CopiesInv'
<1>1. /\ reads' = [reads EXCEPT ![r] = Tail(reads[r])]
      /\ pc' = [pc EXCEPT ![r] = IF Len(reads[r]) = 1 THEN "write" ELSE "read"]
      /\ UNCHANGED <<saved, refresh, job, hit, got, asked, merged>>
  BY DEF ReadOn, IInv, TypeOK, history
<1>2. TypeOK /\ ReadsInv /\ CopiesInv /\ InFlight(r) /\ pc'[r] # "back"
  BY <1>1 DEF IInv, TypeOK, InFlight
<1>3. \A q \in Requests : q # r =>
        /\ pc'[q] = "back" => Good(Head(reads'[q]), hit'[q].items, asked', merged')
        /\ InFlight(q)' => GoodRead(q)'
  BY <1>1, <1>2, OthersGood DEF TypeOK
<1>4. GoodRead(r)'
  BY <1>1, <1>2 DEF CopiesInv, GoodRead, ResolveClient
<1>5. \A c \in Customers : /\ Good(c, saved'[c].items, asked', merged')
                           /\ Good(c, refresh'[c].items, asked', merged')
  BY <1>1, <1>2 DEF CopiesInv
<1>6. \A c \in Clients : Good(c, entry'[c].items, asked', merged')
  BY <1>1
<1> QED
  BY <1>2, <1>3, <1>4, <1>5, <1>6 DEF CopiesInv

LEMMA EndsCopies ==
  ASSUME IInv, NEW r \in Requests, Ends(r),
         \A c \in Clients : asked[c] \subseteq asked'[c],
         merged \subseteq merged',
         \A c \in Clients : Good(c, entry'[c].items, asked', merged'),
         \A c \in Customers : Good(c, saved'[c].items, asked', merged')
  PROVE  CopiesInv'
<1>1. /\ pc' = [pc EXCEPT ![r] = "done"]
      /\ UNCHANGED <<refresh, job, reads, hit, got>>
  BY DEF Ends
<1>2. TypeOK /\ ReadsInv /\ CopiesInv /\ pc'[r] = "done" /\ ~InFlight(r)'
  BY <1>1 DEF IInv, TypeOK, InFlight
<1>3. \A q \in Requests : q # r =>
        /\ pc'[q] = "back" => Good(Head(reads'[q]), hit'[q].items, asked', merged')
        /\ InFlight(q)' => GoodRead(q)'
  BY <1>1, <1>2, OthersGood DEF TypeOK
<1>4. ASSUME NEW c \in Customers
      PROVE  Good(c, refresh'[c].items, asked', merged')
  <2>1. Good(c, refresh[c].items, asked, merged) /\ asked[c] \subseteq asked'[c]
    BY <1>2, WhoTyped DEF CopiesInv, Clients
  <2> QED
    BY <1>1, <2>1, GoodGrows
<1> QED
  BY <1>2, <1>3, <1>4 DEF CopiesInv

LEMMA WriteCacheCopies ==
  ASSUME IInv, NEW r \in Requests, WriteCache(r)
  PROVE  CopiesInv'
<1> DEFINE c == Intended(r)
           j == job[r]
<1>1. /\ TypeOK /\ ReadsInv /\ CopiesInv /\ j \in Jobs[r] /\ GoodRead(r) /\ Ends(r)
      /\ UNCHANGED saved /\ j.op \notin {"view", "create", "save"}
  BY DEF WriteCache, IInv, ReadsInv, Standing, CopiesInv, InFlight
<1>2. /\ c \in Clients /\ c = ResolveClient(r) /\ Who[r].session \in Clients
      /\ Target(r) \in {c, Nobody}
  BY WhoTyped DEF Target
<1>3. PICK stock \in IF j.op = "setItem" THEN Stocks[CHOOSE s \in j.skus : TRUE] ELSE {0} :
        entry' = [entry EXCEPT ![Target(r)] = Fresh(Updated(got[r], j, stock))]
  BY DEF WriteCache
<1> DEFINE new == Updated(got[r], j, stock)
<1>4. /\ new \in Cart
      /\ Within(got[r]) => Within(new)
      /\ \A A : Holds(got[r], A) => Holds(new, A \cup (IF j.op = "setItem" THEN j.skus ELSE {}))
      /\ Single(got[r]) => Single(new)
  <2>1. /\ got[r] \in Cart /\ j \in Job /\ stock \in Int /\ (j.op = "setItem" => j.skus # {})
        /\ j.op = "setItem" => stock \in Stocks[CHOOSE s \in j.skus : TRUE]
    BY <1>1, JobTyped, StockSeen DEF TypeOK
  <2> HIDE DEF j
  <2> QED
    BY <2>1, UpdatedGood
<1> HIDE DEF new
<1>5. /\ asked' = [asked EXCEPT ![c] = asked[c] \cup AskedBy(r)]
      /\ merged' = IF j.op = "merge" THEN merged \cup {c} ELSE merged
  BY <1>1, <1>2 DEF WriteCache, TypeOK
<1>6. asked'[c] = asked[c] \cup AskedBy(r) /\ \A d \in Clients : asked[d] \subseteq asked'[d]
  BY <1>1, <1>2, <1>5 DEF TypeOK
<1>7. merged \subseteq merged'
  BY <1>5
<1>8. Good(c, new, asked', merged')
  <2>1. CASE j.op = "merge"
    <3>1. Who[r].customer = c
      BY <1>1, <1>2, <2>1, JobTyped, WhoTyped DEF ForCustomers
    <3>2. Within(got[r]) /\ Holds(got[r], asked[Who[r].session] \cup asked[c])
      BY <1>1, <2>1, <3>1 DEF GoodRead
    <3>3. Within(new) /\ Holds(new, asked[Who[r].session] \cup asked[c])
      <4>1. Holds(new, (asked[Who[r].session] \cup asked[c]) \cup {})
        BY <1>4, <2>1, <3>2
      <4> QED
        BY <1>4, <3>2, <4>1 DEF Holds
    <3>4. AskedBy(r) = asked[Who[r].session]
      BY <2>1 DEF AskedBy
    <3>5. Holds(new, asked'[c])
      BY <1>6, <3>3, <3>4 DEF Holds
    <3> QED
      BY <1>5, <2>1, <3>3, <3>5 DEF Good
  <2>2. CASE j.op # "merge"
    <3>1. Good(c, got[r], asked, merged)
      BY <1>1, <1>2, <2>2 DEF GoodRead
    <3>2. Within(got[r]) /\ Holds(got[r], asked[c]) /\ (c \notin merged => Single(got[r]))
      BY <3>1 DEF Good
    <3>3. (IF j.op = "setItem" THEN j.skus ELSE {}) \subseteq AskedBy(r)
      BY DEF AskedBy
    <3>4. Holds(new, asked[c] \cup (IF j.op = "setItem" THEN j.skus ELSE {}))
      BY <1>4, <3>2
    <3>5. Holds(new, asked'[c])
      BY <1>6, <3>3, <3>4 DEF Holds
    <3> QED
      BY <1>4, <1>5, <2>2, <3>2, <3>5 DEF Good
  <2> QED
    BY <2>1, <2>2
<1>9. ASSUME NEW d \in Clients
      PROVE  Good(d, entry'[d].items, asked', merged')
  <2>1. CASE entry'[d] = Fresh(new) /\ d = c
    BY <1>4, <1>8, <2>1, EntryTyped
  <2>2. CASE entry'[d] = entry[d]
    <3>1. Good(d, entry[d].items, asked, merged)
      BY <1>1 DEF CopiesInv
    <3> QED
      BY <1>6, <1>7, <2>2, <3>1, GoodGrows
  <2>3. d # Nobody
    BY CartAssumption
  <2>4. entry'[d] = IF d = Target(r) THEN Fresh(new) ELSE entry[d]
    BY <1>1, <1>3 DEF new, TypeOK
  <2> QED
    BY <1>2, <2>1, <2>2, <2>3, <2>4
<1>10. ASSUME NEW d \in Customers
       PROVE  Good(d, saved'[d].items, asked', merged')
  <2>1. Good(d, saved[d].items, asked, merged) /\ d \in Clients
    BY <1>1, WhoTyped DEF CopiesInv, Clients
  <2> QED
    BY <1>1, <1>6, <1>7, <2>1, GoodGrows
<1> QED
  BY <1>1, <1>6, <1>7, <1>9, <1>10, EndsCopies

LEMMA WriteDatabaseCopies ==
  ASSUME IInv, NEW r \in Requests, WriteDatabase(r)
  PROVE  CopiesInv'
<1> DEFINE c == Who[r].customer
<1>1. /\ TypeOK /\ ReadsInv /\ CopiesInv /\ job[r] \in Jobs[r] /\ GoodRead(r) /\ Ends(r)
      /\ UNCHANGED <<entry, merged>> /\ job[r].op \in {"create", "save"}
  BY DEF WriteDatabase, IInv, ReadsInv, Standing, CopiesInv, InFlight
<1>2. c \in Customers /\ c \in Clients /\ c = ResolveClient(r)
  BY <1>1, JobTyped, WhoTyped DEF ForCustomers
<1>3. /\ saved' = [saved EXCEPT ![c] = [exists |-> TRUE, items |-> LastLines(got[r])]]
      /\ asked' = [asked EXCEPT ![c] = asked[c] \cup AskedBy(r)]
  BY <1>1, <1>2 DEF WriteDatabase, LastLines, TypeOK
<1>4. asked'[c] = asked[c] \cup AskedBy(r) /\ \A d \in Clients : asked[d] \subseteq asked'[d]
  BY <1>1, <1>2, <1>3 DEF TypeOK
<1>5. Within(got[r]) /\ Holds(got[r], asked'[c])
  <2>1. CASE job[r].op = "create"
    <3>1. Within(got[r]) /\ Holds(got[r], asked[Who[r].session])
      BY <1>1, <2>1 DEF GoodRead, Good
    <3>2. AskedBy(r) = asked[Who[r].session]
      BY <2>1 DEF AskedBy
    <3> QED
      BY <1>4, <3>1, <3>2 DEF Holds
  <2>2. CASE job[r].op = "save"
    <3>1. Within(got[r]) /\ Holds(got[r], asked[c])
      BY <1>1, <1>2, <2>2 DEF GoodRead, Good
    <3> QED
      BY <1>4, <3>1 DEF Holds
  <2> QED
    BY <1>1, <2>1, <2>2
<1>6. Good(c, LastLines(got[r]), asked', merged')
  BY <1>1, <1>5, LastLinesGood DEF Good, TypeOK
<1>7. ASSUME NEW d \in Clients
      PROVE  Good(d, entry'[d].items, asked', merged')
  <2>1. Good(d, entry[d].items, asked, merged)
    BY <1>1 DEF CopiesInv
  <2> QED
    BY <1>1, <1>4, <2>1, GoodGrows
<1>8. ASSUME NEW d \in Customers
      PROVE  Good(d, saved'[d].items, asked', merged')
  <2>1. CASE d = c
    <3>1. saved'[d].items = LastLines(got[r])
      BY <1>1, <1>3, <2>1 DEF TypeOK
    <3> QED
      BY <1>6, <2>1, <3>1
  <2>2. CASE d # c
    <3>1. saved'[d] = saved[d]
      BY <1>1, <1>3, <2>2 DEF TypeOK
    <3>2. Good(d, saved[d].items, asked, merged) /\ d \in Clients
      BY <1>1, WhoTyped DEF CopiesInv, Clients
    <3> QED
      BY <1>1, <1>4, <3>1, <3>2, GoodGrows
  <2> QED
    BY <2>1, <2>2
<1> QED
  BY <1>1, <1>4, <1>7, <1>8, EndsCopies

\* Steps of the cache alone.
LEMMA CacheCopies ==
  ASSUME IInv, UNCHANGED requestVars, UNCHANGED <<asked, merged, saved>>,
         \A c \in Clients : Good(c, entry'[c].items, asked, merged),
         \A c \in Customers : Good(c, refresh'[c].items, asked, merged)
  PROVE  CopiesInv'
  BY DEF IInv, CopiesInv, InFlight, GoodRead, ResolveClient, requestVars

LEMMA CopiesStep ==
  ASSUME IInv, [Next]_vars
  PROVE  CopiesInv'
<1> USE DEF IInv
<1>1. ASSUME NEW r \in Requests, Receive(r)
      PROVE  CopiesInv'
  <2>1. PICK j \in Jobs[r] :
          /\ job' = [job EXCEPT ![r] = j]
          /\ reads' = [reads EXCEPT ![r] = ReadsOf(r, j.op)]
          /\ pc' = [pc EXCEPT ![r] = IF j.op = "clear" THEN "write" ELSE "read"]
    BY <1>1 DEF Receive
  <2>2. /\ UNCHANGED <<entry, saved, refresh, hit, got, asked, merged>>
        /\ pc[r] = "idle" /\ pc'[r] # "back" /\ got[r] = EmptyCart
    BY <1>1, <2>1 DEF Receive, cartVars, TypeOK, ReadsInv, Standing
  <2>3. \A q \in Requests : q # r =>
          /\ pc'[q] = "back" => Good(Head(reads'[q]), hit'[q].items, asked', merged')
          /\ InFlight(q)' => GoodRead(q)'
    BY <2>1, <2>2, OthersGood DEF TypeOK
  <2>4. GoodRead(r)'
    <3>1. got'[r] = EmptyCart
      BY <2>2
    <3> QED
      BY <3>1, EmptyGood, EmptyIsGood DEF GoodRead
  <2>5. /\ \A c \in Clients : Good(c, entry'[c].items, asked', merged')
        /\ \A c \in Customers : Good(c, saved'[c].items, asked', merged')
        /\ \A c \in Customers : Good(c, refresh'[c].items, asked', merged')
    BY <2>2 DEF CopiesInv
  <2> QED
    BY <2>2, <2>3, <2>4, <2>5 DEF CopiesInv
<1>2. ASSUME NEW r \in Requests, ReadHit(r)
      PROVE  CopiesInv'
  <2>1. /\ pc[r] = "read" /\ Took(r, entry[Head(reads[r])])
        /\ Head(reads[r]) \in Clients /\ entry[Head(reads[r])] \in Entry
    BY <1>2, HeadOfReads DEF ReadHit, TypeOK
  <2>2. \A c \in Customers : refresh'[c].items = refresh[c].items
    BY <1>2 DEF ReadHit, TypeOK, Refresh
  <2>3. Good(Head(reads[r]), entry[Head(reads[r])].items, asked, merged)
    BY <2>1 DEF CopiesInv
  <2> QED
    BY <2>1, <2>2, <2>3, TookCopies
<1>3. ASSUME NEW r \in Requests, ReadDatabase(r)
      PROVE  CopiesInv'
  <2> DEFINE c == Head(reads[r])
  <2>1. pc[r] = "read" /\ c \in Customers /\ Took(r, Fresh(saved[c].items)) /\ UNCHANGED refresh
    BY <1>3 DEF ReadDatabase
  <2>2. saved[c].items \in Cart
    BY <2>1 DEF TypeOK, Row
  <2>3. Fresh(saved[c].items) \in Entry /\ Fresh(saved[c].items).items = saved[c].items
    BY <2>2, EntryTyped
  <2>4. Good(c, Fresh(saved[c].items).items, asked, merged)
    BY <2>1, <2>3 DEF CopiesInv
  <2> QED
    BY <2>1, <2>3, <2>4, TookCopies
<1>4. ASSUME NEW r \in Requests, ReadNothing(r) \/ NoBack(r)
      PROVE  CopiesInv'
  BY <1>4, ReadOnCopies DEF ReadNothing, NoBack, CopiesInv
<1>5. ASSUME NEW r \in Requests, Back(r)
      PROVE  CopiesInv'
  <2>1. /\ pc[r] = "back" /\ ReadOn(r) /\ entry' = [entry EXCEPT ![Head(reads[r])] = hit[r]]
        /\ Good(Head(reads[r]), hit[r].items, asked, merged)
    BY <1>5 DEF Back, CopiesInv
  <2>2. \A c \in Clients : Good(c, entry'[c].items, asked, merged)
    BY <2>1 DEF TypeOK, CopiesInv
  <2> QED
    BY <2>1, <2>2, ReadOnCopies
<1>6. ASSUME NEW r \in Requests, Answer(r) \/ Fails(r)
      PROVE  CopiesInv'
  BY <1>6, EndsCopies DEF Answer, Fails, history, CopiesInv
<1>7. ASSUME NEW r \in Requests, WriteCache(r) \/ WriteDatabase(r)
      PROVE  CopiesInv'
  BY <1>7, WriteCacheCopies, WriteDatabaseCopies
<1>8. ASSUME NEW c \in Customers, RefreshFetch(c)
      PROVE  CopiesInv'
  <2>1. \A d \in Customers : Good(d, refresh'[d].items, asked, merged)
    BY <1>8 DEF RefreshFetch, TypeOK, CopiesInv
  <2> QED
    BY <1>8, <2>1, CacheCopies DEF RefreshFetch, history, CopiesInv
<1>9. ASSUME NEW c \in Customers, RefreshSave(c)
      PROVE  CopiesInv'
  <2>1. refresh[c].items \in Cart
    BY DEF TypeOK, Refresh
  <2>2. Fresh(refresh[c].items).items = refresh[c].items
    BY <2>1, EntryTyped
  <2>3. \A d \in Clients : entry'[d].items = IF d = c THEN refresh[c].items ELSE entry[d].items
    BY <1>9, <2>2 DEF RefreshSave, TypeOK
  <2>4. \A d \in Clients : Good(d, entry'[d].items, asked, merged)
    BY <2>3 DEF CopiesInv
  <2>5. \A d \in Customers : refresh'[d].items = refresh[d].items
    BY <1>9 DEF RefreshSave, TypeOK, Refresh
  <2> QED
    BY <1>9, <2>4, <2>5, CacheCopies DEF RefreshSave, CopiesInv
<1>10. ASSUME NEW c \in Clients, Age(c)
       PROVE  CopiesInv'
  <2>1. \A d \in Clients : entry'[d].items = entry[d].items
    BY <1>10 DEF Age, TypeOK, Entry
  <2> QED
    BY <1>10, <2>1, CacheCopies DEF Age, history, CopiesInv
<1>11. ASSUME NEW c \in Clients, Expire(c)
       PROVE  CopiesInv'
  <2>1. \A d \in Clients : Good(d, entry'[d].items, asked, merged)
    BY <1>11, EntryTyped, EmptyIsGood DEF Expire, TypeOK, CopiesInv
  <2> QED
    BY <1>11, <2>1, CacheCopies DEF Expire, CopiesInv
<1>12. CASE UNCHANGED vars
  BY <1>12, CacheCopies DEF vars, cartVars, history, CopiesInv
<1> QED
  BY <1>1, <1>2, <1>3, <1>4, <1>5, <1>6, <1>7, <1>8, <1>9, <1>10, <1>11, <1>12 DEF Next

-----------------------------------------------------------------------------
(* Undisturbed carts.                                                      *)

\* Whose cart is read at each place of an operation.
LEMMA WhoseCart ==
  ASSUME IInv, NEW r \in Requests, pc[r] \in {"read", "back"}
  PROVE  LET c == ResolveClient(r)
             s == Who[r].session
             op == job[r].op
             q == reads[r] IN
         /\ op # "clear" /\ Head(q) \in Concerns(r, op)
         /\ op = "merge" =>
              /\ s # c /\ c \in Customers
              /\ \/ Head(q) = s /\ Len(q) # 1 /\ Head(Tail(q)) = c
                 \/ Head(q) = c /\ Len(q) = 1
         /\ op # "merge" => Len(q) = 1
         /\ op \notin {"merge", "create"} => Head(q) = c
<1> DEFINE c == ResolveClient(r)
           s == Who[r].session
           op == job[r].op
           q == reads[r]
<1>1. /\ job[r] \in Jobs[r]
      /\ \/ q = ReadsOf(r, op) /\ op # "clear"
         \/ q = <<Who[r].customer>> /\ op = "merge"
  BY DEF IInv, ReadsInv, Standing
<1>2. /\ s \in Sessions
      /\ op = "merge" => Who[r].customer \in Customers /\ c = Who[r].customer
      /\ Sessions \cap Customers = {}
  BY <1>1, WhoTyped, JobTyped, CartAssumption DEF ForCustomers
<1>3. Concerns(r, op) = {c} \cup (IF op \in {"merge", "create"} THEN {s} ELSE {})
  BY DEF Concerns
<1> HIDE DEF c, s, op, q
<1>4. CASE op = "merge" /\ q = <<Who[r].customer>>
  <2>1. Head(q) = c /\ Len(q) = 1
    BY <1>2, <1>4
  <2> QED
    BY <1>2, <1>3, <1>4, <2>1 DEF c, s, op, q
<1>5. CASE op = "merge" /\ q = ReadsOf(r, op)
  <2>1. q = <<s, Who[r].customer>>
    BY <1>1, <1>5, ReadsTyped DEF op, s
  <2>2. Head(q) = s /\ Len(q) = 2 /\ Head(Tail(q)) = c
    BY <1>2, <1>5, <2>1
  <2> QED
    BY <1>2, <1>3, <1>5, <2>2 DEF c, s, op, q
<1>6. CASE op = "create"
  <2>1. q = <<s>>
    BY <1>1, <1>6, ReadsTyped DEF op, s
  <2>2. Head(q) = s /\ Len(q) = 1
    BY <2>1
  <2> QED
    BY <1>3, <1>6, <2>2 DEF c, s, op, q
<1>7. CASE op \notin {"merge", "create"}
  <2>1. op # "clear" /\ q = <<c>>
    BY <1>1, <1>7, ReadsTyped DEF op, c
  <2>2. Head(q) = c /\ Len(q) = 1
    BY <2>1
  <2> QED
    BY <1>3, <1>7, <2>1, <2>2 DEF c, s, op, q
<1> QED
  BY <1>1, <1>4, <1>5, <1>6, <1>7

\* A request that does not take the step keeps what it has read, as long as
\* the ideal carts it depends on stay or are given up.
LEMMA OtherCopies ==
  ASSUME IInv, NEW q \in Requests, CopyIdeal(q),
         pc'[q] = pc[q], job'[q] = job[q], reads'[q] = reads[q],
         hit'[q] = hit[q], got'[q] = got[q], disturbed \subseteq disturbed',
         \A c \in Concerns(q, job[q].op) :
           InFlight(q) /\ c \notin disturbed' => ideal'[c] = ideal[c]
  PROVE  CopyIdeal(q)'
<1> DEFINE c == ResolveClient(q)
           s == Who[q].session
<1>1. /\ c \in Concerns(q, job[q].op)
      /\ job[q].op = "merge" => s \in Concerns(q, job[q].op)
      /\ pc[q] \in {"read", "back"} => Head(reads[q]) \in Concerns(q, job[q].op)
  BY WhoseCart DEF Concerns
<1>2. InFlight(q)' <=> InFlight(q)
  BY DEF InFlight
<1>3. HitIdeal(q)'
  BY <1>1 DEF CopyIdeal, HitIdeal, InFlight
<1>4. ASSUME InFlight(q), job[q].op = "merge"
      PROVE  ReadTwo(q, s, c)'
  BY <1>1, <1>4 DEF CopyIdeal, GotIdeal, ReadTwo, At
<1>5. ASSUME InFlight(q), job[q].op \notin {"merge", "create", "clear"}
      PROVE  ReadOne(q, c)'
  BY <1>1, <1>5 DEF CopyIdeal, GotIdeal, ReadOne
<1> QED
  BY <1>2, <1>3, <1>4, <1>5 DEF CopyIdeal, GotIdeal, ResolveClient

\* Only Receive brings two requests together.
LEMMA StillApart ==
  ASSUME ApartInv, UNCHANGED job, disturbed \subseteq disturbed',
         \A r \in Requests : InFlight(r)' => InFlight(r)
  PROVE  ApartInv'
  BY DEF ApartInv, Concerns, ResolveClient

LEMMA StaysDisturbed ==
  ASSUME TypeOK, [Next]_vars
  PROVE  disturbed \subseteq disturbed'
  BY DEF Next, vars, history, Receive, ReadHit, ReadDatabase, ReadNothing, Took, ReadOn, Back,
         NoBack, Answer, Fails, WriteCache, WriteDatabase, RefreshFetch, RefreshSave, Age, Expire

\* A read takes the ideal cart.
LEMMA TookIdeal ==
  ASSUME IInv, IdealInv, NEW r \in Requests, pc[r] = "read", NEW e \in Entry, Took(r, e),
         e.state # "absent", Head(reads[r]) \notin disturbed => e.items = ideal[Head(reads[r])]
  PROVE  IdealInv'
<1> DEFINE c == ResolveClient(r)
           s == Who[r].session
           h == Head(reads[r])
<1>1. /\ hit' = [hit EXCEPT ![r] = e]
      /\ got' = [got EXCEPT ![r] = Concat(got[r], e.items)]
      /\ pc' = [pc EXCEPT ![r] = "back"]
      /\ UNCHANGED <<entry, saved, job, reads, asked, merged, ideal, disturbed>>
      /\ TypeOK /\ CopyIdeal(r) /\ InFlight(r)
  BY DEF Took, history, IInv, IdealInv, TypeOK, InFlight
<1>2. /\ hit'[r] = e /\ pc'[r] = "back" /\ got'[r] = Concat(got[r], e.items) /\ reads'[r] = reads[r]
      /\ job'[r] = job[r]
      /\ e.items \in Cart /\ got[r] \in Cart
      /\ got[r] = EmptyCart => got'[r] = e.items
  BY <1>1, EntryTyped, ConcatTyped DEF TypeOK
<1>3. HitIdeal(r)'
  BY <1>1, <1>2 DEF HitIdeal
<1>4. ASSUME job[r].op = "merge"
      PROVE  ReadTwo(r, s, c)'
  <2>1. s # c /\ (h = s \/ h = c) /\ ReadTwo(r, s, c)
    BY <1>1, <1>4, WhoseCart DEF CopyIdeal, GotIdeal
  <2> HIDE DEF s, c
  <2>2. h = s => got[r] = EmptyCart
    BY <2>1 DEF ReadTwo, At
  <2>3. h = c /\ s \notin disturbed => got[r] = ideal[s]
    BY <2>1 DEF ReadTwo, At
  <2>4. s \notin disturbed /\ h = s => got'[r] = ideal'[s]
    BY <1>1, <1>2, <2>2
  <2>5. s \notin disturbed /\ c \notin disturbed /\ h = c => got'[r] = Concat(ideal'[s], ideal'[c])
    BY <1>1, <1>2, <2>3
  <2> QED
    BY <1>1, <1>2, <2>1, <2>4, <2>5 DEF ReadTwo, At
<1>5. ASSUME job[r].op \notin {"merge", "create", "clear"}
      PROVE  ReadOne(r, c)'
  <2>1. h = c
    BY <1>5, WhoseCart
  <2>2. got[r] = EmptyCart
    BY <1>5 DEF IInv, ReadsInv, Standing
  <2> QED
    BY <1>1, <1>2, <2>1, <2>2 DEF ReadOne
<1>6. CopyIdeal(r)'
  BY <1>1, <1>3, <1>4, <1>5 DEF CopyIdeal, GotIdeal, ResolveClient
<1>7. ASSUME NEW q \in Requests, q # r
      PROVE  CopyIdeal(q)'
  <2>1. /\ pc'[q] = pc[q] /\ job'[q] = job[q] /\ reads'[q] = reads[q]
        /\ hit'[q] = hit[q] /\ got'[q] = got[q] /\ disturbed \subseteq disturbed' /\ CopyIdeal(q)
        /\ \A d \in Concerns(q, job[q].op) : InFlight(q) /\ d \notin disturbed' => ideal'[d] = ideal[d]
    BY <1>1, <1>7 DEF TypeOK, IdealInv
  <2> QED
    BY <2>1, OtherCopies
<1>8. \A q \in Requests : InFlight(q)' => InFlight(q)
  BY <1>1 DEF InFlight, TypeOK
<1>9. ApartInv'
  BY <1>1, <1>8, StillApart DEF IdealInv
<1>10. SequentialChangesKept'
  BY <1>1 DEF IdealInv, SequentialChangesKept, View
<1> QED
  BY <1>6, <1>7, <1>9, <1>10 DEF IdealInv

\* What has been read stays what was read, the next cart is another one.
LEMMA ReadOnIdeal ==
  ASSUME IInv, IdealInv, NEW r \in Requests, pc[r] \in {"read", "back"}, ReadOn(r),
         SequentialChangesKept',
         pc[r] = "read" =>
           Head(reads[r]) \in Sessions
           /\ (Head(reads[r]) \notin disturbed => ideal[Head(reads[r])] = EmptyCart)
  PROVE  IdealInv'
<1> DEFINE c == ResolveClient(r)
           s == Who[r].session
           h == Head(reads[r])
<1>1. /\ reads' = [reads EXCEPT ![r] = Tail(reads[r])]
      /\ pc' = [pc EXCEPT ![r] = IF Len(reads[r]) = 1 THEN "write" ELSE "read"]
      /\ UNCHANGED <<saved, refresh, job, hit, got, asked, merged, ideal, disturbed>>
      /\ TypeOK /\ CopyIdeal(r) /\ InFlight(r)
  BY DEF ReadOn, TypeOK, history, IInv, IdealInv, InFlight
<1>2. /\ reads'[r] = Tail(reads[r]) /\ pc'[r] = IF Len(reads[r]) = 1 THEN "write" ELSE "read"
      /\ got'[r] = got[r] /\ job'[r] = job[r]
  BY <1>1 DEF TypeOK
<1>3. HitIdeal(r)'
  BY <1>2 DEF HitIdeal
<1>4. ASSUME job[r].op = "merge"
      PROVE  ReadTwo(r, s, c)'
  <2>1. /\ s # c /\ ReadTwo(r, s, c) /\ c \notin Sessions
        /\ \/ h = s /\ pc'[r] = "read" /\ Head(reads'[r]) = c
           \/ h = c /\ pc'[r] = "write"
    BY <1>1, <1>2, <1>4, WhoseCart, CartAssumption DEF CopyIdeal, GotIdeal
  <2>2. pc[r] \in {"read", "back"} /\ (pc[r] = "read" => h \in Sessions)
    OBVIOUS
  <2> HIDE DEF s, c
  <2>3. CASE h = s /\ pc'[r] = "read" /\ Head(reads'[r]) = c
    <3>1. s \notin disturbed => got[r] = ideal[s]
      BY <2>1, <2>2, <2>3 DEF ReadTwo, At
    <3> QED
      BY <1>1, <1>2, <2>1, <2>3, <3>1 DEF ReadTwo, At
  <2>4. CASE h = c /\ pc'[r] = "write"
    <3>1. s \notin disturbed /\ c \notin disturbed => got[r] = Concat(ideal[s], ideal[c])
      BY <2>1, <2>2, <2>4 DEF ReadTwo, At
    <3> QED
      BY <1>1, <1>2, <2>1, <2>4, <3>1 DEF ReadTwo, At
  <2> QED
    BY <2>1, <2>3, <2>4
<1>5. ASSUME job[r].op \notin {"merge", "create", "clear"}
      PROVE  ReadOne(r, c)'
  <2>1. h = c
    BY <1>5, WhoseCart
  <2>2. pc[r] = "read" => got[r] = EmptyCart
    BY <1>5 DEF IInv, ReadsInv, Standing
  <2>3. ReadOne(r, c)
    BY <1>1, <1>5 DEF CopyIdeal, GotIdeal
  <2> QED
    BY <1>1, <1>2, <2>1, <2>2, <2>3 DEF ReadOne
<1>6. CopyIdeal(r)'
  BY <1>1, <1>3, <1>4, <1>5 DEF CopyIdeal, GotIdeal, ResolveClient
<1>7. ASSUME NEW q \in Requests, q # r
      PROVE  CopyIdeal(q)'
  <2>1. /\ pc'[q] = pc[q] /\ job'[q] = job[q] /\ reads'[q] = reads[q]
        /\ hit'[q] = hit[q] /\ got'[q] = got[q] /\ disturbed \subseteq disturbed' /\ CopyIdeal(q)
        /\ \A d \in Concerns(q, job[q].op) : InFlight(q) /\ d \notin disturbed' => ideal'[d] = ideal[d]
    BY <1>1, <1>7 DEF TypeOK, IdealInv
  <2> QED
    BY <2>1, OtherCopies
<1>8. \A q \in Requests : InFlight(q)' => InFlight(q)
  BY <1>1 DEF InFlight, TypeOK
<1>9. ApartInv'
  BY <1>1, <1>8, StillApart DEF IdealInv
<1> QED
  BY <1>6, <1>7, <1>9 DEF IdealInv

\* A request ends: the others keep their copies unless it has changed the
\* ideal cart of a client that concerns it, too.
LEMMA EndsIdeal ==
  ASSUME IInv, IdealInv, NEW r \in Requests, InFlight(r), Ends(r), disturbed \subseteq disturbed',
         SequentialChangesKept',
         \A c \in Clients : c \notin Concerns(r, job[r].op) => ideal'[c] = ideal[c]
  PROVE  IdealInv'
<1>1. /\ pc' = [pc EXCEPT ![r] = "done"] /\ UNCHANGED <<refresh, job, reads, hit, got>> /\ TypeOK
  BY DEF Ends, IInv
<1>2. CopyIdeal(r)'
  BY <1>1 DEF CopyIdeal, HitIdeal, InFlight, TypeOK
<1>3. ASSUME NEW q \in Requests, q # r
      PROVE  CopyIdeal(q)'
  <2>1. /\ pc'[q] = pc[q] /\ job'[q] = job[q] /\ reads'[q] = reads[q]
        /\ hit'[q] = hit[q] /\ got'[q] = got[q] /\ CopyIdeal(q)
    BY <1>1, <1>3 DEF TypeOK, IdealInv
  <2>2. ASSUME NEW c \in Concerns(q, job[q].op), InFlight(q), c \notin disturbed'
        PROVE  ideal'[c] = ideal[c]
    <3>1. c \in Clients
      BY WhoTyped DEF Concerns
    <3>2. c \notin Concerns(r, job[r].op)
      BY <1>3, <2>2 DEF IdealInv, ApartInv
    <3> QED
      BY <3>1, <3>2
  <2> QED
    BY <2>1, <2>2, OtherCopies
<1>4. \A q \in Requests : InFlight(q)' => InFlight(q)
  BY <1>1 DEF InFlight, TypeOK
<1>5. ApartInv'
  BY <1>1, <1>4, StillApart DEF IdealInv
<1> QED
  BY <1>2, <1>3, <1>5 DEF IdealInv

LEMMA WriteCacheIdeal ==
  ASSUME IInv, IdealInv, NEW r \in Requests, WriteCache(r), disturbed \subseteq disturbed'
  PROVE  IdealInv'
<1> DEFINE c == ResolveClient(r)
           s == Who[r].session
           j == job[r]
           old == IF j.op = "merge" THEN Concat(ideal[s], ideal[c]) ELSE ideal[c]
<1>1. /\ TypeOK /\ pc[r] = "write" /\ InFlight(r) /\ Ends(r) /\ UNCHANGED saved
      /\ j.op \notin {"view", "create", "save"} /\ CopyIdeal(r) /\ j \in Jobs[r]
  BY DEF WriteCache, IInv, IdealInv, ReadsInv, Standing, InFlight
<1>2. c \in Clients /\ s \in Clients /\ Intended(r) = c /\ c # Nobody /\ Nobody \notin Clients
  BY WhoTyped, CartAssumption
<1>3. PICK stock \in IF j.op = "setItem" THEN Stocks[CHOOSE t \in j.skus : TRUE] ELSE {0} :
        /\ entry' = [entry EXCEPT ![Target(r)] = Fresh(Updated(got[r], j, stock))]
        /\ ideal' = [ideal EXCEPT ![c] = Updated(old, j, stock)]
  BY <1>1, <1>2 DEF WriteCache, TypeOK
<1>4. Updated(got[r], j, stock) \in Cart
  BY <1>1, ResultTyped
<1>5. ASSUME c \notin disturbed'
      PROVE  /\ Target(r) = c /\ c \notin disturbed
             /\ Updated(got[r], j, stock) = Updated(old, j, stock)
  <2>1. /\ ~(j.op = "bought" /\ Who[r].customer = NoCustomer)
        /\ ~(j.op = "merge" /\ s \in disturbed) /\ c \notin disturbed
    BY <1>2, <1>5 DEF WriteCache
  <2>2. Target(r) = c
    BY <2>1 DEF Target
  <2>3. CASE j.op = "clear"
    BY <2>1, <2>2, <2>3 DEF Updated
  <2>4. CASE j.op = "merge"
    <3>1. got[r] = Concat(ideal[s], ideal[c])
      BY <1>1, <2>1, <2>4 DEF CopyIdeal, GotIdeal, ReadTwo
    <3> QED
      BY <2>1, <2>2, <2>4, <3>1
  <2>5. CASE j.op \notin {"clear", "merge"}
    <3>1. got[r] = ideal[c]
      BY <1>1, <2>1, <2>5 DEF CopyIdeal, GotIdeal, ReadOne
    <3> QED
      BY <2>1, <2>2, <2>5, <3>1
  <2> QED
    BY <2>3, <2>4, <2>5
<1> HIDE DEF c, s, j, old
<1>6. \A d \in Clients : ideal'[d] = IF d = c THEN Updated(old, j, stock) ELSE ideal[d]
  BY <1>1, <1>3 DEF TypeOK
<1>7. ASSUME NEW d \in Clients, d \notin disturbed'
      PROVE  View(d)' = ideal'[d]
  <2>1. CASE d = c
    <3>1. entry'[c] = Fresh(Updated(got[r], j, stock))
      BY <1>1, <1>2, <1>3, <1>5, <1>7, <2>1 DEF TypeOK
    <3>2. entry'[c].state # "absent" /\ entry'[c].items = Updated(got[r], j, stock)
      BY <3>1 DEF Fresh
    <3> QED
      BY <1>5, <1>6, <1>7, <2>1, <3>2 DEF View
  <2>2. CASE d # c
    <3>1. d # Target(r)
      BY <1>2, <2>2 DEF Target, c
    <3>2. entry'[d] = entry[d]
      BY <1>1, <1>3, <3>1 DEF TypeOK
    <3>3. View(d) = ideal[d]
      BY <1>7 DEF IdealInv, SequentialChangesKept
    <3> QED
      BY <1>1, <1>6, <2>2, <3>2, <3>3 DEF View
  <2> QED
    BY <2>1, <2>2
<1>8. SequentialChangesKept'
  BY <1>7 DEF SequentialChangesKept
<1>9. \A d \in Clients : d \notin Concerns(r, job[r].op) => ideal'[d] = ideal[d]
  BY <1>6 DEF Concerns, c
<1> QED
  BY <1>1, <1>8, <1>9, EndsIdeal

LEMMA WriteDatabaseIdeal ==
  ASSUME IInv, IdealInv, NEW r \in Requests, WriteDatabase(r), disturbed \subseteq disturbed'
  PROVE  IdealInv'
<1> DEFINE c == Who[r].customer
<1>1. /\ TypeOK /\ InFlight(r) /\ Ends(r) /\ UNCHANGED <<entry, ideal>>
      /\ entry[c].state = "absent" => c \in disturbed'
  BY DEF WriteDatabase, IInv, InFlight
<1>2. \A d \in Customers : d # c => saved'[d] = saved[d]
  BY <1>1 DEF WriteDatabase, TypeOK
<1>3. SequentialChangesKept'
  BY <1>1, <1>2 DEF SequentialChangesKept, IdealInv, View
<1> QED
  BY <1>1, <1>3, EndsIdeal

\* Steps of the cache alone.
LEMMA CacheIdeal ==
  ASSUME IInv, IdealInv, UNCHANGED requestVars, UNCHANGED ideal, disturbed \subseteq disturbed',
         \A c \in Clients : c \notin disturbed' => View(c)' = View(c)
  PROVE  IdealInv'
<1>1. UNCHANGED <<pc, job, reads, hit, got>>
  BY DEF requestVars
<1>2. \A q \in Requests : CopyIdeal(q)'
  BY <1>1, OtherCopies DEF IdealInv
<1>3. ApartInv'
  BY <1>1, StillApart DEF IdealInv, InFlight
<1>4. SequentialChangesKept'
  BY DEF SequentialChangesKept, IdealInv
<1> QED
  BY <1>2, <1>3, <1>4 DEF IdealInv

LEMMA ReceiveIdeal ==
  ASSUME IInv, IdealInv, NEW r \in Requests, Receive(r)
  PROVE  IdealInv'
<1>1. PICK j \in Jobs[r] :
        /\ job' = [job EXCEPT ![r] = j]
        /\ reads' = [reads EXCEPT ![r] = ReadsOf(r, j.op)]
        /\ pc' = [pc EXCEPT ![r] = IF j.op = "clear" THEN "write" ELSE "read"]
        /\ disturbed' = disturbed \cup UNION {Concerns(r, j.op) \cap Concerns(q, job[q].op) :
                                                q \in {q \in Requests : InFlight(q)}}
  BY DEF Receive
<1>2. /\ UNCHANGED <<entry, saved, refresh, hit, got, asked, merged, ideal>>
      /\ TypeOK /\ pc[r] = "idle" /\ got[r] = EmptyCart
  BY DEF Receive, cartVars, IInv, ReadsInv, Standing
<1>3. /\ job'[r] = j /\ reads'[r] = ReadsOf(r, j.op) /\ pc'[r] \in {"read", "write"}
      /\ pc'[r] = "write" => j.op = "clear"
      /\ \A q \in Requests : q # r => /\ pc'[q] = pc[q] /\ job'[q] = job[q] /\ reads'[q] = reads[q]
                                      /\ InFlight(q)' <=> InFlight(q)
  BY <1>1, <1>2 DEF TypeOK, InFlight
<1>4. CopyIdeal(r)'
  <2>1. HitIdeal(r)'
    BY <1>3 DEF HitIdeal
  <2>2. j.op = "merge" => ReadTwo(r, Who[r].session, ResolveClient(r))'
    <3>1. j.op = "merge" =>
            /\ Head(reads'[r]) = Who[r].session /\ Who[r].session # ResolveClient(r)
            /\ pc'[r] = "read" /\ got'[r] = EmptyCart
      BY <1>2, <1>3, ReadsTyped, JobTyped, WhoTyped, CartAssumption DEF ForCustomers
    <3> QED
      BY <3>1 DEF ReadTwo, At, ResolveClient
  <2>3. j.op \notin {"merge", "create", "clear"} => ReadOne(r, ResolveClient(r))'
    BY <1>3 DEF ReadOne
  <2> QED
    BY <1>3, <2>1, <2>2, <2>3 DEF CopyIdeal, GotIdeal, ResolveClient
<1>5. ASSUME NEW q \in Requests, q # r
      PROVE  CopyIdeal(q)'
  <2>1. /\ pc'[q] = pc[q] /\ job'[q] = job[q] /\ reads'[q] = reads[q]
        /\ hit'[q] = hit[q] /\ got'[q] = got[q] /\ disturbed \subseteq disturbed' /\ CopyIdeal(q)
        /\ \A d \in Concerns(q, job[q].op) : InFlight(q) /\ d \notin disturbed' => ideal'[d] = ideal[d]
    BY <1>1, <1>2, <1>3, <1>5 DEF IdealInv
  <2> QED
    BY <2>1, OtherCopies
<1>6. ASSUME NEW p \in Requests, NEW q \in Requests, p # q, InFlight(p)', InFlight(q)'
      PROVE  Concerns(p, job'[p].op) \cap Concerns(q, job'[q].op) \subseteq disturbed'
  <2>1. CASE p = r
    BY <1>1, <1>3, <1>6, <2>1
  <2>2. CASE q = r
    BY <1>1, <1>3, <1>6, <2>2
  <2>3. CASE p # r /\ q # r
    BY <1>1, <1>3, <1>6, <2>3 DEF IdealInv, ApartInv
  <2> QED
    BY <2>1, <2>2, <2>3
<1>7. ApartInv'
  BY <1>6 DEF ApartInv, Concerns, ResolveClient
<1>8. SequentialChangesKept'
  BY <1>1, <1>2 DEF SequentialChangesKept, IdealInv, View
<1> QED
  BY <1>4, <1>5, <1>7, <1>8 DEF IdealInv

LEMMA IdealStep ==
  ASSUME IInv, IdealInv, [Next]_vars
  PROVE  IdealInv'
<1>1. TypeOK /\ SequentialChangesKept /\ disturbed \subseteq disturbed'
  BY StaysDisturbed DEF IInv, IdealInv
<1>2. ASSUME NEW r \in Requests, Receive(r)
      PROVE  IdealInv'
  BY <1>2, ReceiveIdeal
<1>3. ASSUME NEW r \in Requests, ReadHit(r)
      PROVE  IdealInv'
  <2> DEFINE c == Head(reads[r])
  <2>1. /\ pc[r] = "read" /\ Took(r, entry[c]) /\ entry[c].state # "absent"
        /\ c \in Clients /\ entry[c] \in Entry
    BY <1>1, <1>3, HeadOfReads DEF ReadHit, TypeOK
  <2>2. c \notin disturbed => entry[c].items = ideal[c]
    BY <1>1, <2>1 DEF SequentialChangesKept, View
  <2> QED
    BY <2>1, <2>2, TookIdeal
<1>4. ASSUME NEW r \in Requests, ReadDatabase(r)
      PROVE  IdealInv'
  <2> DEFINE c == Head(reads[r])
             e == Fresh(saved[c].items)
  <2>1. pc[r] = "read" /\ c \in Customers /\ c \in Clients /\ Took(r, e) /\ entry[c].state = "absent"
    BY <1>4, WhoTyped DEF ReadDatabase, Clients
  <2>2. saved[c].items \in Cart
    BY <1>1, <2>1 DEF TypeOK, Row
  <2>3. e \in Entry /\ e.items = saved[c].items /\ e.state # "absent"
    BY <2>2, EntryTyped DEF Fresh
  <2>4. c \notin disturbed => e.items = ideal[c]
    BY <1>1, <2>1, <2>3 DEF SequentialChangesKept, View
  <2> QED
    BY <2>1, <2>3, <2>4, TookIdeal
<1>5. ASSUME NEW r \in Requests, ReadNothing(r)
      PROVE  IdealInv'
  <2> DEFINE c == Head(reads[r])
  <2>1. /\ pc[r] = "read" /\ c \in Sessions /\ c \in Clients /\ c \notin Customers
        /\ entry[c].state = "absent" /\ ReadOn(r) /\ UNCHANGED <<entry, saved, ideal, disturbed>>
    BY <1>5, CartAssumption DEF ReadNothing, ReadOn, history, Clients
  <2>2. c \notin disturbed => ideal[c] = EmptyCart
    BY <1>1, <2>1 DEF SequentialChangesKept, View
  <2>3. SequentialChangesKept'
    BY <1>1, <2>1 DEF SequentialChangesKept, View
  <2> QED
    BY <2>1, <2>2, <2>3, ReadOnIdeal
<1>6. ASSUME NEW r \in Requests, NoBack(r)
      PROVE  IdealInv'
  <2>1. pc[r] = "back" /\ ReadOn(r) /\ UNCHANGED <<entry, saved, ideal, disturbed>>
    BY <1>6 DEF NoBack, ReadOn, history
  <2>2. SequentialChangesKept'
    BY <1>1, <2>1 DEF SequentialChangesKept, View
  <2> QED
    BY <2>1, <2>2, ReadOnIdeal
<1>7. ASSUME NEW r \in Requests, Back(r)
      PROVE  IdealInv'
  <2> DEFINE c == Head(reads[r])
  <2>1. /\ pc[r] = "back" /\ ReadOn(r) /\ UNCHANGED <<saved, ideal, disturbed>>
        /\ entry' = [entry EXCEPT ![c] = hit[r]]
    BY <1>7 DEF Back, ReadOn, history
  <2>2. hit[r].state # "absent" /\ (c \notin disturbed => hit[r].items = ideal[c])
    BY <2>1 DEF IdealInv, CopyIdeal, HitIdeal
  <2>3. \A d \in Clients : entry'[d] = IF d = c THEN hit[r] ELSE entry[d]
    BY <1>1, <2>1 DEF TypeOK
  <2>4. SequentialChangesKept'
    BY <1>1, <2>1, <2>2, <2>3 DEF SequentialChangesKept, View
  <2> QED
    BY <2>1, <2>4, ReadOnIdeal
<1>8. ASSUME NEW r \in Requests, Answer(r) \/ Fails(r)
      PROVE  IdealInv'
  <2>1. InFlight(r) /\ Ends(r) /\ UNCHANGED <<entry, saved, ideal, disturbed>>
    BY <1>8 DEF Answer, Fails, InFlight, history
  <2>2. SequentialChangesKept'
    BY <1>1, <2>1 DEF SequentialChangesKept, View
  <2> QED
    BY <2>1, <2>2, EndsIdeal
<1>9. ASSUME NEW r \in Requests, WriteCache(r) \/ WriteDatabase(r)
      PROVE  IdealInv'
  BY <1>1, <1>9, WriteCacheIdeal, WriteDatabaseIdeal
<1>10. ASSUME NEW c \in Customers, RefreshFetch(c)
       PROVE  IdealInv'
  BY <1>1, <1>10, CacheIdeal DEF RefreshFetch, history, View
<1>11. ASSUME NEW c \in Customers, RefreshSave(c)
       PROVE  IdealInv'
  <2>1. c \in disturbed' /\ \A d \in Clients : d # c => entry'[d] = entry[d]
    BY <1>1, <1>11 DEF RefreshSave, TypeOK
  <2> QED
    BY <1>1, <1>11, <2>1, CacheIdeal DEF RefreshSave, View
<1>12. ASSUME NEW c \in Clients, Age(c)
       PROVE  IdealInv'
  <2>1. \A d \in Clients : /\ entry'[d].items = entry[d].items
                           /\ entry'[d].state # "absent" <=> entry[d].state # "absent"
    BY <1>1, <1>12 DEF Age, TypeOK, Entry
  <2> QED
    BY <1>1, <1>12, <2>1, CacheIdeal DEF Age, history, View
<1>13. ASSUME NEW c \in Clients, Expire(c)
       PROVE  IdealInv'
  <2>1. c \in disturbed' /\ \A d \in Clients : d # c => entry'[d] = entry[d]
    BY <1>1, <1>13 DEF Expire, TypeOK
  <2> QED
    BY <1>1, <1>13, <2>1, CacheIdeal DEF Expire, View
<1>14. CASE UNCHANGED vars
  BY <1>1, <1>14, CacheIdeal DEF vars, cartVars, history, View
<1> QED
  BY <1>2, <1>3, <1>4, <1>5, <1>6, <1>7, <1>8, <1>9, <1>10, <1>11, <1>12, <1>13, <1>14 DEF Next

LEMMA IdealInit ==
  ASSUME Init
  PROVE  IdealInv
<1>1. \A r \in Requests : pc[r] = "idle"
  BY DEF Init
<1>2. (\A r \in Requests : CopyIdeal(r)) /\ ApartInv
  BY <1>1 DEF CopyIdeal, HitIdeal, InFlight, ApartInv
<1>3. SequentialChangesKept
  BY EntryTyped DEF Init, SequentialChangesKept, View, Absent, Clients
<1> QED
  BY <1>2, <1>3 DEF IdealInv

-----------------------------------------------------------------------------
(* Theorems.                                                               *)

\* The strengthened invariant is inductive.
THEOREM Invariance == Spec => []IInv
<1>1. Init => IInv
  BY TypeInit, CopiesInit DEF IInv
<1>2. IInv /\ [Next]_vars => IInv'
  BY TypesStep, CopiesStep DEF IInv
<1> QED
  BY <1>1, <1>2, PTL DEF Spec

\* The variables keep their types.
THEOREM TypeCorrect == Spec => []TypeOK
<1>1. IInv => TypeOK
  BY DEF IInv
<1> QED
  BY <1>1, Invariance, PTL

\* What a client would see is one of the copies.
LEMMA ViewGood ==
  ASSUME IInv, NEW c \in Clients
  PROVE  Good(c, View(c), asked, merged) /\ View(c) \in Cart
  BY EmptyGood, EmptyIsGood, EntryTyped DEF IInv, TypeOK, CopiesInv, View, Row

\* Only carts that were merged with a session's ever have two lines of one
\* product version, however the requests of a client interleave.
THEOREM DuplicatesNeedAMerge == Spec => []DuplicatesOnlyByMerge
<1>1. IInv => DuplicatesOnlyByMerge
  BY ViewGood DEF DuplicatesOnlyByMerge, HasDuplicates, Good, Single
<1> QED
  BY <1>1, Invariance, PTL

\* No line of a cart asks for more pieces than its product version has ever had.
THEOREM StockRespected == Spec => []QuantitiesWithinStock
<1>1. IInv => QuantitiesWithinStock
  BY ViewGood DEF QuantitiesWithinStock, Good, Within
<1> QED
  BY <1>1, Invariance, PTL

\* A client's cart holds nothing that neither it nor a session merged into it
\* or saved for it has asked for.
THEOREM NoForeignLines == Spec => []LinesAskedFor
<1>1. IInv => LinesAskedFor
  BY ViewGood DEF LinesAskedFor, Good, Holds
<1> QED
  BY <1>1, Invariance, PTL

\* While the requests of a client do not overlap and its entry is not lost or
\* replaced, its cart is the one that its operations make one after the other.
THEOREM NoChangeLost == Spec => []SequentialChangesKept
<1>1. Init => IdealInv
  BY IdealInit
<1>2. IInv /\ IdealInv /\ [Next]_vars => IdealInv'
  BY IdealStep
<1>3. IdealInv => SequentialChangesKept
  BY DEF IdealInv
<1> QED
  BY <1>1, <1>2, <1>3, Invariance, PTL DEF Spec

=============================================================================
