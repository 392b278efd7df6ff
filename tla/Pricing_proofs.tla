---------------------------- MODULE Pricing_proofs ----------------------------
(***************************************************************************)
(* Proofs about Pricing for any product versions, offers and requests.     *)
(*                                                                         *)
(* OwnPrices needs to know what the shared builder still holds when a line *)
(* begins: the line before it, or nothing (BuildersInv).                   *)
(* OnlyOffersThatRan needs to know that an offer that may be applied now   *)
(* is among those that once could (RanInv), whatever the orders do to its  *)
(* uses.                                                                   *)
(*                                                                         *)
(* AmountsAgree needs the resolution of the offers: the same offers in     *)
(* another order may stack other offers, of the same rank and discount     *)
(* (SameDiscount).  It and TypeOK need what a request has found where it   *)
(* stands (ReadsInv), that its lines are the ones it was asked for         *)
(* (LinesInv), and that an order's lines stay once it is paid              *)
(* (AmountsInv).                                                           *)
(***************************************************************************)
EXTENDS Pricing, FiniteSetTheorems, SequenceTheorems, TLAPS

\* A record with the fields of a line.
IsLine(b) ==
  b = [sku |-> b.sku, quantity |-> b.quantity, unit |-> b.unit, final |-> b.final,
       discount |-> b.discount, ids |-> b.ids]

Places == {"look up", "fetch", "save"} \X Stages
          \cup {<<"idle", "idle">>, <<"build", "lines">>,
                <<"order", "book">>, <<"order", "pay">>, <<"order", "create">>,
                <<"done", "shown">>, <<"done", "placed">>, <<"done", "refused">>}

\* What the steps need to know of the variables' types.
Shape ==
  /\ offer \in [Offers -> [state : {"runs", "rests", "deleted"}, uses : Int]]
  /\ cached = [k \in Keys |-> cached[k]]
  /\ pc \in [Readers -> Places]
  /\ job \in [Readers -> Job]
  /\ got = [r \in Readers |-> got[r]]
  /\ builder = [r \in Readers |-> builder[r]]
  /\ built = [r \in Readers |-> built[r]]
  /\ \A r \in Readers : IsLine(builder[r])
  /\ \A r \in Readers : \E S : built[r] \in Seq(S)
  /\ held \in [Readers -> [Offers -> Nat]]

\* An offer that can be applied is one that once could.
RanInv ==
  \A o \in Offers : offer[o].state = "runs" /\ offer[o].uses < Terms[o].maxUses => o \in ran

\* Lines are built when everything is read, and the builder holds the last one;
\* only an order's lines name offers to book.
Builders(r) ==
  /\ built[r] # <<>> => pc[r][1] \in {"build", "order", "done"}
  /\ builder[r] = IF built[r] = <<>> THEN NoLine ELSE built[r][Len(built[r])]
  /\ job[r].kind # "order" => \A i \in DOMAIN built[r] : built[r][i].ids = {}

BuildersInv == \A r \in Readers : Builders(r)

\* OwnPrices of one request, and of one of its lines: unit is its product
\* version's price, S its offers, left the discount of the card before it.
OwnParts(line, unit, S, left) ==
  LET d == Discount(S) IN
  /\ line.unit = unit
  /\ line.final = IF d > 0 THEN Discounted(line.unit, d) ELSE line.unit
  /\ line.discount = IF d > 0 THEN d ELSE left
  /\ line.ids \subseteq S

OwnLine(r, i) ==
  LET line == built[r][i] IN
  OwnParts(line, UnitPrice(r, line.sku), Applied(r, line.sku),
           IF job[r].kind = "cards" /\ i > 1 THEN built[r][i - 1].discount ELSE 0)

OwnLines(r) == \A i \in DOMAIN built[r] : OwnLine(r, i)

\* OnlyOffersThatRan of one list.
Checked(q, s, once, P) ==
  \A o \in Members(q) : o \in once /\ \E p \in P : Matches(o, s, p)

List(s) == <<"offers of", s>>

ListsInv ==
  \A s \in Skus :
    /\ cached[List(s)] # Nothing => Checked(cached[List(s)], s, ran, NamedWith(s))
    /\ \A r \in Readers :
         got[r][List(s)] # Nothing => Checked(got[r][List(s)], s, ran, NamedWith(s))

\* A request asks once: what it has named stays named.
AskedInv == \A r \in Readers : pc[r] = <<"idle", "idle">> => job[r].lines = <<>>

IInv ==
  /\ Shape /\ RanInv /\ BuildersInv /\ ListsInv /\ AskedInv
  /\ \A r \in Readers : OwnLines(r)

-----------------------------------------------------------------------------
(* Sequences and lines.                                                    *)

LEMMA Appended ==
  ASSUME NEW S, NEW q \in Seq(S), NEW e
  PROVE  /\ Append(q, e) \in Seq(S \cup {e})
         /\ Len(q) \in Nat
         /\ Len(Append(q, e)) = Len(q) + 1
         /\ DOMAIN q = 1 .. Len(q)
         /\ DOMAIN Append(q, e) = 1 .. Len(q) + 1
         /\ \A i \in 1 .. Len(q) : Append(q, e)[i] = q[i]
         /\ Append(q, e)[Len(q) + 1] = e
         /\ Append(q, e) # <<>>
         /\ q = <<>> <=> Len(q) = 0
<1>1. q \in Seq(S \cup {e})  BY SeqDef
<1>2. Append(q, e) \in Seq(S \cup {e})  BY <1>1
<1> QED  BY <1>1, <1>2, AppendProperties

LEMMA UsesType ==
  ASSUME NEW S, NEW q \in Seq(S)
  PROVE  Uses(q) \in [Offers -> Nat]
<1> SUFFICES ASSUME NEW o \in Offers
             PROVE  Cardinality({i \in DOMAIN q : o \in q[i].ids}) \in Nat
  BY DEF Uses
<1> DEFINE I == {i \in DOMAIN q : o \in q[i].ids}
<1>1. DOMAIN q = 1 .. Len(q) /\ Len(q) \in Nat  OBVIOUS
<1>2. IsFiniteSet(1 .. Len(q))  BY <1>1, FS_Interval
<1>3. I \in SUBSET (1 .. Len(q))  BY <1>1
<1>4. IsFiniteSet(I)  BY <1>2, <1>3, FS_Subset
<1> QED  BY <1>4, FS_CardinalityType

LEMMA TwoFields ==
  ASSUME NEW b, IsLine(b), NEW x, NEW y
  PROVE  /\ [b EXCEPT !.sku = x, !.quantity = y] = [[b EXCEPT !.sku = x] EXCEPT !.quantity = y]
         /\ [b EXCEPT !.unit = x, !.final = y] = [[b EXCEPT !.unit = x] EXCEPT !.final = y]
BY DEF IsLine

LEMMA LineParts ==
  ASSUME NEW b, IsLine(b), NEW s, NEW n, NEW p
  PROVE  LET u == WithUnitPrice(WithLine(b, s, n), p) IN
         /\ IsLine(u)
         /\ u.sku = s /\ u.quantity = n /\ u.unit = p /\ u.final = p
         /\ u.discount = b.discount /\ u.ids = b.ids
<1> DEFINE b1 == [b EXCEPT !.sku = s]
           b2 == [b1 EXCEPT !.quantity = n]
           b3 == [b2 EXCEPT !.unit = p]
           b4 == [b3 EXCEPT !.final = p]
<1>1. IsLine(b1) /\ b1.sku = s /\ b1.discount = b.discount /\ b1.ids = b.ids
  BY DEF IsLine
<1>2. b2 = WithLine(b, s, n)  BY TwoFields DEF WithLine
<1> HIDE DEF b1
<1>3. IsLine(b2) /\ b2.sku = b1.sku /\ b2.quantity = n
      /\ b2.discount = b1.discount /\ b2.ids = b1.ids
  BY <1>1 DEF IsLine
<1> HIDE DEF b2
<1>4. IsLine(b3) /\ b3.sku = b2.sku /\ b3.quantity = b2.quantity /\ b3.unit = p
      /\ b3.discount = b2.discount /\ b3.ids = b2.ids
  BY <1>3 DEF IsLine
<1>5. b4 = WithUnitPrice(b2, p)  BY <1>3, TwoFields DEF WithUnitPrice
<1> HIDE DEF b3
<1>6. IsLine(b4) /\ b4.sku = b3.sku /\ b4.quantity = b3.quantity /\ b4.unit = b3.unit /\ b4.final = p
      /\ b4.discount = b3.discount /\ b4.ids = b3.ids
  BY <1>4 DEF IsLine
<1> HIDE DEF b4
<1> QED  BY <1>1, <1>2, <1>3, <1>4, <1>5, <1>6

LEMMA OfferParts ==
  ASSUME NEW u, IsLine(u), u.final = u.unit, NEW S
  PROVE  LET d == Discount(S)
             c == WithOffer(u, S)
             w == WithOrderOffer(u, S) IN
         /\ IsLine(c) /\ c.sku = u.sku /\ c.quantity = u.quantity /\ c.unit = u.unit /\ c.ids = u.ids
         /\ c.final = IF d > 0 THEN Discounted(u.unit, d) ELSE u.unit
         /\ c.discount = IF d > 0 THEN d ELSE u.discount
         /\ IsLine(w) /\ w.sku = u.sku /\ w.quantity = u.quantity /\ w.unit = u.unit /\ w.ids \subseteq S
         /\ w.final = IF d > 0 THEN Discounted(u.unit, d) ELSE u.unit
         /\ w.discount = IF d > 0 THEN d ELSE 0
<1>1. CASE Discount(S) > 0
  <2> DEFINE d == Discount(S)
             c == [u EXCEPT !.discount = d, !.final = Discounted(u.unit, d)]
  <2>1. WithOffer(u, S) = c  BY <1>1 DEF WithOffer
  <2>2. WithOrderOffer(u, S) = [c EXCEPT !.ids = {o \in S : Terms[o].group # "SHIPPING"}]
    BY <1>1, <2>1 DEF WithOrderOffer
  <2> HIDE DEF d
  <2> QED  BY <1>1, <2>1, <2>2 DEF IsLine, d
<1>2. CASE ~(Discount(S) > 0)
  <2>1. WithOffer(u, S) = u  BY <1>2 DEF WithOffer
  <2>2. WithOrderOffer(u, S) = [u EXCEPT !.discount = 0, !.ids = {}, !.final = u.unit]
    BY <1>2 DEF WithOrderOffer
  <2> QED  BY <1>2, <2>1, <2>2 DEF IsLine
<1> QED  BY <1>1, <1>2

LEMMA NoLineIsLine == IsLine(NoLine)
BY DEF IsLine, NoLine

\* An order takes the quantity from its map of the cart.
QuantityOf(r, line) ==
  IF job[r].kind = "order" THEN OrderedQuantity(job[r].lines, line.sku) ELSE line.quantity

\* What the three kinds of lines have in common, and where they differ.
LEMMA NextLineParts ==
  ASSUME NEW r \in Readers, job \in [Readers -> Job], IsLine(builder[r]), NEW line,
         job[r].kind # "order" => builder[r].ids = {}
  PROVE  LET next == NextLine(r, line) IN
         /\ IsLine(next)
         /\ next.sku = line.sku /\ next.quantity = QuantityOf(r, line)
         /\ OwnParts(next, UnitPrice(r, next.sku), Applied(r, next.sku),
                     IF job[r].kind = "cards" THEN builder[r].discount ELSE 0)
         /\ job[r].kind # "order" => next.ids = {}
<1> DEFINE p == UnitPrice(r, line.sku)
           S == Applied(r, line.sku)
           With(b, n) == WithUnitPrice(WithLine(b, line.sku, n), p)
           card == With(builder[r], line.quantity)
           page == With(NoLine, line.quantity)
           ordered == With(builder[r], OrderedQuantity(job[r].lines, line.sku))
<1>1. /\ IsLine(card) /\ card.sku = line.sku /\ card.quantity = line.quantity /\ card.unit = p /\ card.final = p
      /\ card.discount = builder[r].discount /\ card.ids = builder[r].ids
  BY LineParts
<1>2. /\ IsLine(page) /\ page.sku = line.sku /\ page.quantity = line.quantity /\ page.unit = p /\ page.final = p
      /\ page.discount = 0 /\ page.ids = {}
  <2>1. NoLine.discount = 0 /\ NoLine.ids = {}  BY DEF NoLine
  <2> QED  BY <2>1, LineParts, NoLineIsLine
<1>3. /\ IsLine(ordered) /\ ordered.sku = line.sku /\ ordered.unit = p /\ ordered.final = p
      /\ ordered.quantity = OrderedQuantity(job[r].lines, line.sku)
  BY LineParts
<1>4. CardLine(r, line) = WithOffer(card, S)  BY DEF CardLine
<1>5. PageLine(r, line) = WithOffer(page, S)  BY DEF PageLine
<1>6. OrderLine(r, line) = WithOrderOffer(ordered, S)  BY DEF OrderLine
<1>7. job[r].kind \in {"cards", "page", "order"}  BY DEF Job
<1> HIDE DEF card, page, ordered, p, S, With
<1>8. CASE job[r].kind = "cards"
  <2>1. NextLine(r, line) = WithOffer(card, S)  BY <1>4, <1>8 DEF NextLine
  <2>2. WithOffer(card, S).sku = line.sku /\ WithOffer(card, S).quantity = QuantityOf(r, line)
    BY <1>1, <1>8, OfferParts DEF QuantityOf
  <2>3. S = Applied(r, line.sku) /\ p = UnitPrice(r, line.sku)  BY DEF S, p
  <2> QED  BY <1>1, <1>8, <2>1, <2>2, <2>3, OfferParts DEF OwnParts
<1>9. CASE job[r].kind = "page"
  <2>1. NextLine(r, line) = WithOffer(page, S)  BY <1>5, <1>9 DEF NextLine
  <2>2. WithOffer(page, S).sku = line.sku /\ WithOffer(page, S).quantity = QuantityOf(r, line)
    BY <1>2, <1>9, OfferParts DEF QuantityOf
  <2>3. S = Applied(r, line.sku) /\ p = UnitPrice(r, line.sku)  BY DEF S, p
  <2> QED  BY <1>2, <1>9, <2>1, <2>2, <2>3, OfferParts DEF OwnParts
<1>10. CASE job[r].kind = "order"
  <2>1. NextLine(r, line) = WithOrderOffer(ordered, S)  BY <1>6, <1>10 DEF NextLine
  <2>2. WithOrderOffer(ordered, S).sku = line.sku /\ WithOrderOffer(ordered, S).quantity = QuantityOf(r, line)
    BY <1>3, <1>10, OfferParts DEF QuantityOf
  <2>3. S = Applied(r, line.sku) /\ p = UnitPrice(r, line.sku)  BY DEF S, p
  <2> QED  BY <1>3, <1>10, <2>1, <2>2, <2>3, OfferParts DEF OwnParts
<1> QED  BY <1>7, <1>8, <1>9, <1>10

-----------------------------------------------------------------------------
(* Types.                                                                  *)

LEMMA AfterPlaces ==
  ASSUME NEW stage \in Stages
  PROVE  After(stage) \in Places /\ After(stage)[1] \in {"look up", "build"}
BY DEF After, Stages, Places

LEMMA LastPlaces ==
  ASSUME NEW p \in {<<"build", "lines">>, <<"order", "book">>, <<"order", "pay">>,
                    <<"order", "create">>, <<"done", "shown">>, <<"done", "placed">>,
                    <<"done", "refused">>}
  PROVE  p \in Places /\ p[1] \in {"build", "order", "done"}
                      /\ (p # <<"build", "lines">> => p[1] \in {"order", "done"})
<1>1. p \in Places  BY DEF Places
<1>2. /\ <<"build", "lines">>[1] = "build"
      /\ <<"order", "book">>[1] = "order" /\ <<"order", "pay">>[1] = "order"
      /\ <<"order", "create">>[1] = "order" /\ <<"done", "shown">>[1] = "done"
      /\ <<"done", "placed">>[1] = "done" /\ <<"done", "refused">>[1] = "done"
  OBVIOUS
<1> QED  BY <1>1, <1>2

LEMMA InitShape ==
  ASSUME Init
  PROVE  Shape
<1>1. offer \in [Offers -> [state : {"runs", "rests", "deleted"}, uses : Int]]
  BY DEF Init
<1>2. pc \in [Readers -> Places]  BY DEF Init, Places
<1>3. job \in [Readers -> Job]
  <2>1. <<>> \in Seq([sku : Skus, product : Products, quantity : Nat, checked : BOOLEAN])  OBVIOUS
  <2>2. [kind |-> "page", lines |-> <<>>] \in Job  BY <2>1 DEF Job
  <2> QED  BY <2>2 DEF Init
<1>4. held \in [Readers -> [Offers -> Nat]]  BY DEF Init, NoUses
<1>5. ASSUME NEW r \in Readers
      PROVE  IsLine(builder[r]) /\ \E S : built[r] \in Seq(S)
  <2>1. builder[r] = NoLine  BY DEF Init
  <2>2. built[r] \in Seq({})  BY DEF Init
  <2> QED  BY <2>1, <2>2, NoLineIsLine
<1>6. /\ cached = [k \in Keys |-> cached[k]]
      /\ got = [r \in Readers |-> got[r]]
      /\ builder = [r \in Readers |-> builder[r]]
      /\ built = [r \in Readers |-> built[r]]
  BY DEF Init
<1> QED  BY <1>1, <1>2, <1>3, <1>4, <1>5, <1>6 DEF Shape

LEMMA ReadShape ==
  ASSUME Shape, NEW r \in Readers, NEW stage \in Stages,
         LookUp(r, stage) \/ Fetch(r, stage) \/ Save(r, stage)
  PROVE  Shape'
<1>1. After(stage) \in Places /\ <<"fetch", stage>> \in Places /\ <<"save", stage>> \in Places
  BY AfterPlaces DEF Places
<1>2. CASE LookUp(r, stage)
  <2>1. UNCHANGED <<offer, cached, job, builder, built, held>>
    BY <1>2 DEF LookUp, databaseVars, cacheVars, lineVars, orderVars
  <2>2. \E p \in Places : pc' = [pc EXCEPT ![r] = p]
    BY <1>1, <1>2 DEF LookUp
  <2>3. got' = [q \in Readers |-> got'[q]]
    BY <1>2 DEF LookUp, Shape
  <2> QED  BY <2>1, <2>2, <2>3 DEF Shape
<1>3. CASE Fetch(r, stage)
  <2>1. UNCHANGED <<offer, cached, job, builder, built, held>>
    BY <1>3 DEF Fetch, databaseVars, cacheVars, lineVars, orderVars
  <2>2. \E p \in Places : pc' = [pc EXCEPT ![r] = p]
    BY <1>1, <1>3 DEF Fetch
  <2>3. \E g : got' = [got EXCEPT ![r] = g]
    BY <1>3 DEF Fetch
  <2>4. got' = [q \in Readers |-> got'[q]]
    BY <2>3 DEF Shape
  <2> QED  BY <2>1, <2>2, <2>4 DEF Shape
<1>4. CASE Save(r, stage)
  <2>1. UNCHANGED <<offer, job, got, builder, built, held>>
    BY <1>4 DEF Save, databaseVars, lineVars, orderVars
  <2>2. \E p \in Places : pc' = [pc EXCEPT ![r] = p]
    BY <1>1, <1>4 DEF Save
  <2>3. cached' = [k \in Keys |-> cached'[k]]
    BY <1>4 DEF Save
  <2> QED  BY <2>1, <2>2, <2>3 DEF Shape
<1> QED  BY <1>2, <1>3, <1>4

\* A request builds its next line.
LEMMA BuildStep ==
  ASSUME Shape, BuildersInv, NEW r \in Readers, Build(r)
  PROVE  /\ UNCHANGED <<offer, ran, cached, job, got, held>>
         /\ \E p \in Places : pc' = [pc EXCEPT ![r] = p] /\ p[1] \in {"build", "order", "done"}
         /\ \E line :
              LET next == NextLine(r, line) IN
              /\ IsLine(next)
              /\ builder' = [builder EXCEPT ![r] = next]
              /\ built' = [built EXCEPT ![r] = Append(built[r], next)]
<1>1. UNCHANGED <<offer, ran, cached, job, got, held>>
  BY DEF Build, databaseVars, cacheVars, readVars, orderVars
<1>2. pc[r] = <<"build", "lines">>  BY DEF Build
<1>3. \E p \in Places : pc' = [pc EXCEPT ![r] = p] /\ p[1] \in {"build", "order", "done"}
  <2>1. \E p : pc' = [pc EXCEPT ![r] = p]
                /\ p \in {<<"build", "lines">>, <<"order", "book">>, <<"done", "shown">>}
    BY <1>2 DEF Build, Shape
  <2> QED  BY <2>1, LastPlaces
<1> DEFINE line == job[r].lines[Len(built[r]) + 1]
<1>4. builder' = [builder EXCEPT ![r] = NextLine(r, line)]
      /\ built' = [built EXCEPT ![r] = Append(built[r], NextLine(r, line))]
  BY DEF Build, Shape
<1>5. job[r].kind # "order" => builder[r].ids = {}
  <2> SUFFICES ASSUME job[r].kind # "order"
               PROVE  builder[r].ids = {}
    OBVIOUS
  <2>1. CASE built[r] = <<>>
    BY <2>1 DEF BuildersInv, Builders, NoLine
  <2>2. CASE built[r] # <<>>
    <3>1. PICK S : built[r] \in Seq(S)  BY DEF Shape
    <3>2. Len(built[r]) \in DOMAIN built[r]  BY <2>2, <3>1
    <3> QED  BY <2>2, <3>2 DEF BuildersInv, Builders
  <2> QED  BY <2>1, <2>2
<1>6. IsLine(NextLine(r, line))
  <2> HIDE DEF line
  <2> QED  BY <1>5, NextLineParts DEF Shape
<1> QED  BY <1>1, <1>3, <1>4, <1>6

LEMMA BuildShape ==
  ASSUME Shape, BuildersInv, NEW r \in Readers, Build(r)
  PROVE  Shape'
<1>1. PICK p \in Places : pc' = [pc EXCEPT ![r] = p]  BY BuildStep
<1>2. PICK line :
        /\ IsLine(NextLine(r, line))
        /\ builder' = [builder EXCEPT ![r] = NextLine(r, line)]
        /\ built' = [built EXCEPT ![r] = Append(built[r], NextLine(r, line))]
  BY BuildStep
<1> DEFINE next == NextLine(r, line)
<1> HIDE DEF next
<1>3. /\ builder' = [q \in Readers |-> IF q = r THEN next ELSE builder[q]]
      /\ built' = [q \in Readers |-> IF q = r THEN Append(built[r], next) ELSE built[q]]
  BY <1>2 DEF Shape, next
<1>4. \A q \in Readers : IsLine(builder'[q])
  BY <1>2, <1>3 DEF Shape, next
<1>5. \A q \in Readers : \E S : built'[q] \in Seq(S)
  <2>1. PICK S : built[r] \in Seq(S)  BY DEF Shape
  <2>2. Append(built[r], next) \in Seq(S \cup {next})  BY <2>1, Appended
  <2> QED  BY <1>3, <2>2 DEF Shape
<1>6. UNCHANGED <<offer, cached, job, got, held>>  BY BuildStep
<1>7. IsLine(builder[r])'= IsLine(builder'[r])  OBVIOUS
<1> QED  BY <1>1, <1>3, <1>4, <1>5, <1>6 DEF Shape, IsLine

\* The steps of an order and its place after them.
LEMMA OrderStep ==
  ASSUME NEW r \in Readers, Shape, Book(r) \/ Pay(r) \/ Place(r) \/ Refuse(r)
  PROVE  /\ UNCHANGED <<cached, job, got, builder, built>>
         /\ \E p \in Places : pc' = [pc EXCEPT ![r] = p] /\ p[1] \in {"order", "done"}
         /\ held' = held \/ held' = [held EXCEPT ![r] = Uses(built[r])]
                         \/ held' = [held EXCEPT ![r] = NoUses]
         /\ \/ offer' = offer
            \/ offer' = [o \in Offers |-> [offer[o] EXCEPT !.uses = @ + held[r][o]]] /\ ran' = ran
            \/ /\ offer' = [o \in Offers |-> [offer[o] EXCEPT !.uses = @ - held[r][o]]]
               /\ ran' = ran \cup {o \in Offers : offer'[o].state = "runs"
                                                  /\ offer'[o].uses < Terms[o].maxUses}
         /\ ran \subseteq ran'
<1> DEFINE P == {<<"order", "pay">>, <<"order", "create">>, <<"done", "placed">>, <<"done", "refused">>}
<1>1. \A p \in P : p \in Places /\ p[1] \in {"order", "done"}
  <2> SUFFICES ASSUME NEW p \in P
               PROVE  p \in Places /\ p[1] \in {"order", "done"}
    OBVIOUS
  <2>1. p # <<"build", "lines">>
    <3>1. <<"build", "lines">>[1] = "build" /\ <<"order", "pay">>[1] = "order"
          /\ <<"order", "create">>[1] = "order" /\ <<"done", "placed">>[1] = "done"
          /\ <<"done", "refused">>[1] = "done"
      OBVIOUS
    <3> QED  BY <3>1
  <2> QED  BY <2>1, LastPlaces
<1>2. CASE Book(r)
  <2>1. UNCHANGED <<cached, job, got, builder, built, offer, ran>>
    BY <1>2 DEF Book, databaseVars, cacheVars, readVars, lineVars
  <2>2. \E p \in P : pc' = [pc EXCEPT ![r] = p]
    BY <1>2 DEF Book
  <2>3. held' = held \/ held' = [held EXCEPT ![r] = Uses(built[r])]
    BY <1>2 DEF Book
  <2> QED  BY <1>1, <2>1, <2>2, <2>3
<1>3. CASE Pay(r)
  <2>1. UNCHANGED <<cached, job, got, builder, built, offer, ran, held>>
    BY <1>3 DEF Pay, databaseVars, cacheVars, readVars, lineVars
  <2>2. \E p \in P : pc' = [pc EXCEPT ![r] = p]
    BY <1>3 DEF Pay
  <2> QED  BY <1>1, <2>1, <2>2
<1>4. CASE Place(r)
  <2>1. UNCHANGED <<cached, job, got, builder, built, ran>>
    BY <1>4 DEF Place, cacheVars, readVars, lineVars
  <2>2. \E p \in P : pc' = [pc EXCEPT ![r] = p]
    BY <1>4 DEF Place
  <2>3. /\ held' = [held EXCEPT ![r] = NoUses]
        /\ offer' = [o \in Offers |-> [offer[o] EXCEPT !.uses = @ + held[r][o]]]
    BY <1>4 DEF Place
  <2> QED  BY <1>1, <2>1, <2>2, <2>3
<1>5. CASE Refuse(r)
  <2>1. UNCHANGED <<cached, job, got, builder, built>>
    BY <1>5 DEF Refuse, cacheVars, readVars, lineVars
  <2>2. \E p \in P : pc' = [pc EXCEPT ![r] = p]
    BY <1>5 DEF Refuse
  <2>3. /\ held' = [held EXCEPT ![r] = NoUses]
        /\ ran' = ran \cup {o \in Offers : offer'[o].state = "runs" /\ offer'[o].uses < Terms[o].maxUses}
        /\ \/ offer' = offer
           \/ offer' = [o \in Offers |-> [offer[o] EXCEPT !.uses = @ - held[r][o]]]
    BY <1>5 DEF Refuse
  <2> HIDE DEF P
  <2> QED  BY <1>1, <2>1, <2>2, <2>3
<1> QED  BY <1>2, <1>3, <1>4, <1>5

OfferRow == [state : {"runs", "rests", "deleted"}, uses : Int]

LEMMA RowsKeepTheirType ==
  ASSUME NEW row \in OfferRow, NEW n \in Nat
  PROVE  [row EXCEPT !.uses = @ + n] \in OfferRow /\ [row EXCEPT !.uses = @ - n] \in OfferRow
BY DEF OfferRow

LEMMA OrderShape ==
  ASSUME NEW r \in Readers, Shape, Book(r) \/ Pay(r) \/ Place(r) \/ Refuse(r)
  PROVE  Shape'
<1>1. UNCHANGED <<cached, job, got, builder, built>>  BY OrderStep
<1>2. \E p \in Places : pc' = [pc EXCEPT ![r] = p]  BY OrderStep
<1>3. held' \in [Readers -> [Offers -> Nat]]
  <2>1. NoUses \in [Offers -> Nat]  BY DEF NoUses
  <2>2. Uses(built[r]) \in [Offers -> Nat]
    <3>1. PICK S : built[r] \in Seq(S)  BY DEF Shape
    <3> QED  BY <3>1, UsesType
  <2>3. held' = held \/ held' = [held EXCEPT ![r] = Uses(built[r])]
                     \/ held' = [held EXCEPT ![r] = NoUses]
    BY OrderStep
  <2> QED  BY <2>1, <2>2, <2>3 DEF Shape
<1>4. offer' \in [Offers -> [state : {"runs", "rests", "deleted"}, uses : Int]]
  <2>1. \/ offer' = offer
        \/ offer' = [o \in Offers |-> [offer[o] EXCEPT !.uses = @ + held[r][o]]]
        \/ offer' = [o \in Offers |-> [offer[o] EXCEPT !.uses = @ - held[r][o]]]
    BY OrderStep
  <2>2. ASSUME NEW o \in Offers
        PROVE  /\ [offer[o] EXCEPT !.uses = @ + held[r][o]] \in OfferRow
               /\ [offer[o] EXCEPT !.uses = @ - held[r][o]] \in OfferRow
    <3>1. offer[o] \in OfferRow /\ held[r][o] \in Nat  BY DEF Shape, OfferRow
    <3> QED  BY <3>1, RowsKeepTheirType
  <2> QED  BY <2>1, <2>2 DEF Shape, OfferRow
<1> QED  BY <1>1, <1>2, <1>3, <1>4 DEF Shape

\* What the back office and time change.
Outside ==
  \/ \E k : Expire(k)
  \/ \E s, p : Reprice(s, p)
  \/ \E o \in Offers : \E state \in {"runs", "rests", "deleted"} : Turn(o, state)
  \/ UNCHANGED vars

LEMMA OutsideStep ==
  ASSUME Shape, Outside
  PROVE  /\ UNCHANGED <<pc, job, got, builder, built, held>>
         /\ \/ cached' = cached
            \/ \E k : cached' = [cached EXCEPT ![k] = Nothing]
         /\ \/ offer' = offer /\ ran' = ran
            \/ \E o \in Offers : \E state \in {"runs", "rests", "deleted"} :
                 /\ offer' = [offer EXCEPT ![o].state = state]
                 /\ ran' = IF state = "runs" /\ offer[o].uses < Terms[o].maxUses
                           THEN ran \cup {o} ELSE ran
         /\ ran \subseteq ran'
<1>1. ASSUME NEW k, Expire(k)
      PROVE  /\ UNCHANGED <<pc, job, got, builder, built, held, offer, ran>>
             /\ cached' = [cached EXCEPT ![k] = Nothing]
  BY <1>1 DEF Expire, databaseVars, readVars, lineVars, orderVars
<1>2. ASSUME NEW s, NEW p, Reprice(s, p)
      PROVE  UNCHANGED <<pc, job, got, builder, built, held, offer, ran, cached>>
  BY <1>2 DEF Reprice, cacheVars, readVars, lineVars, orderVars
<1>3. ASSUME NEW o \in Offers, NEW state \in {"runs", "rests", "deleted"}, Turn(o, state)
      PROVE  /\ UNCHANGED <<pc, job, got, builder, built, held, cached>>
             /\ offer' = [offer EXCEPT ![o].state = state]
             /\ ran' = IF state = "runs" /\ offer[o].uses < Terms[o].maxUses
                       THEN ran \cup {o} ELSE ran
             /\ ran \subseteq ran'
  BY <1>3 DEF Turn, cacheVars, readVars, lineVars, orderVars
<1>4. ASSUME UNCHANGED vars
      PROVE  UNCHANGED <<pc, job, got, builder, built, held, offer, ran, cached>>
  BY <1>4 DEF vars, databaseVars, cacheVars, readVars, lineVars, orderVars
<1>5. CASE \E k : Expire(k)  BY <1>1, <1>5
<1>6. CASE \E s, p : Reprice(s, p)  BY <1>2, <1>6
<1>7. CASE \E o \in Offers : \E state \in {"runs", "rests", "deleted"} : Turn(o, state)
  BY <1>3, <1>7
<1>8. CASE UNCHANGED vars  BY <1>4, <1>8
<1> QED  BY <1>5, <1>6, <1>7, <1>8 DEF Outside

LEMMA OutsideShape ==
  ASSUME Shape, Outside
  PROVE  Shape'
<1>1. UNCHANGED <<pc, job, got, builder, built, held>>  BY OutsideStep
<1>2. cached' = [k \in Keys |-> cached'[k]]
  <2>1. cached' = cached \/ \E k : cached' = [cached EXCEPT ![k] = Nothing]
    BY OutsideStep
  <2> QED  BY <2>1 DEF Shape
<1>3. offer' \in [Offers -> [state : {"runs", "rests", "deleted"}, uses : Int]]
  <2>1. \/ offer' = offer
        \/ \E o \in Offers : \E state \in {"runs", "rests", "deleted"} :
             offer' = [offer EXCEPT ![o].state = state]
    BY OutsideStep
  <2> QED  BY <2>1 DEF Shape
<1> QED  BY <1>1, <1>2, <1>3 DEF Shape

LEMMA AskShape ==
  ASSUME Shape, NEW r \in Readers, NEW j \in Jobs[r], Ask(r, j)
  PROVE  Shape'
<1>1. UNCHANGED <<offer, cached, got, builder, built, held>>
  BY DEF Ask, databaseVars, cacheVars, lineVars, orderVars
<1>2. j \in Job  BY PricingAssumption
<1>3. <<"look up", "prices">> \in Places  BY DEF Places, Stages
<1> QED  BY <1>1, <1>2, <1>3 DEF Ask, Shape

-----------------------------------------------------------------------------
(* The lines a request asks for.                                           *)

LEMMA MinimalSubset ==
  ASSUME NEW S, IsFiniteSet(S), NEW C \in SUBSET SUBSET S, C # {}
  PROVE  \E T \in C : \A U \in C : U \subseteq T => U = T
<1>1. IsWellFoundedOn(StrictSubsetOrdering(S), SUBSET S)
  BY FS_StrictSubsetOrderingWellFounded, FS_FiniteSubsetsOfFinite
<1>2. PICK T \in C : \A U \in C : <<U, T>> \notin StrictSubsetOrdering(S)
  BY <1>1, WFMin
<1>3. \A U \in C : U \in SUBSET S  OBVIOUS
<1> QED  BY <1>2, <1>3 DEF StrictSubsetOrdering

Positions(I) == IsFiniteSet(I) /\ I \subseteq Int /\ I # {}

LEMMA MinimalImage ==
  ASSUME NEW S, IsFiniteSet(S), S # {}, NEW f \in [S -> SUBSET S]
  PROVE  \E m \in S : \A i \in S : f[i] \subseteq f[m] => f[i] = f[m]
<1> DEFINE C == {f[m] : m \in S}
<1>1. \E T \in C : \A U \in C : U \subseteq T => U = T
  <2>1. C \in SUBSET SUBSET S  OBVIOUS
  <2>2. C # {}  OBVIOUS
  <2> HIDE DEF C
  <2> QED  BY <2>1, <2>2, MinimalSubset
<1> QED  BY <1>1

LEMMA FirstPosition ==
  ASSUME NEW I, Positions(I)
  PROVE  /\ \E m \in I : \A i \in I : m <= i
         /\ \E m \in I : \A i \in I : i <= m
<1> DEFINE below == [m \in I |-> {i \in I : i < m}]
           above == [m \in I |-> {i \in I : m < i}]
<1>1. /\ \E m \in I : \A i \in I : below[i] \subseteq below[m] => below[i] = below[m]
      /\ \E m \in I : \A i \in I : above[i] \subseteq above[m] => above[i] = above[m]
  <2>1. IsFiniteSet(I)  BY DEF Positions
  <2>2. I # {}  BY DEF Positions
  <2>3. below \in [I -> SUBSET I] /\ above \in [I -> SUBSET I]  OBVIOUS
  <2> HIDE DEF below, above
  <2> QED  BY <2>1, <2>2, <2>3, MinimalImage
<1>2. \A i \in I : i \in Int  BY DEF Positions
<1>3. \E m \in I : \A i \in I : m <= i
  <2>1. PICK m \in I : \A i \in I : below[i] \subseteq below[m] => below[i] = below[m]
    BY <1>1
  <2>2. ASSUME NEW i \in I, i < m
        PROVE  FALSE
    <3>1. \A j \in I : j < i => j < m  BY <1>2, <2>2
    <3>2. ~(i < i)  BY <1>2
    <3>3. below[i] \subseteq below[m]  BY <3>1
    <3>4. i \in below[m] /\ i \notin below[i]  BY <2>2, <3>2
    <3> QED  BY <2>1, <3>3, <3>4
  <2> QED  BY <1>2, <2>2
<1>4. \E m \in I : \A i \in I : i <= m
  <2>1. PICK m \in I : \A i \in I : above[i] \subseteq above[m] => above[i] = above[m]
    BY <1>1
  <2>2. ASSUME NEW i \in I, m < i
        PROVE  FALSE
    <3>1. \A j \in I : i < j => m < j  BY <1>2, <2>2
    <3>2. ~(i < i)  BY <1>2
    <3>3. above[i] \subseteq above[m]  BY <3>1
    <3>4. i \in above[m] /\ i \notin above[i]  BY <2>2, <3>2
    <3> QED  BY <2>1, <3>3, <3>4
  <2> QED  BY <1>2, <2>2
<1> QED  BY <1>3, <1>4

LEMMA Elements ==
  ASSUME NEW S, NEW q \in Seq(S)
  PROVE  /\ \A i \in DOMAIN q : q[i] \in S
         /\ DOMAIN q = 1 .. Len(q) /\ Len(q) \in Nat
OBVIOUS

LEMMA JobSkus ==
  ASSUME NEW j \in Job
  PROVE  /\ j.lines \in Seq([sku : Skus, product : Products, quantity : Nat, checked : BOOLEAN])
         /\ \A i \in DOMAIN j.lines :
              /\ j.lines[i].sku \in Skus /\ j.lines[i].quantity \in Nat
              /\ j.lines[i].product \in Products
         /\ SkusOf(j.lines) \subseteq Skus
<1>1. j.lines \in Seq([sku : Skus, product : Products, quantity : Nat, checked : BOOLEAN])
  BY DEF Job
<1>2. \A i \in DOMAIN j.lines :
        j.lines[i] \in [sku : Skus, product : Products, quantity : Nat, checked : BOOLEAN]
  BY <1>1, Elements
<1>3. \A i \in DOMAIN j.lines : /\ j.lines[i].sku \in Skus /\ j.lines[i].quantity \in Nat
                               /\ j.lines[i].product \in Products
  BY <1>2
<1> QED  BY <1>1, <1>3 DEF SkusOf

\* The last line of a product version is one of its lines.
LEMMA LastLineParts ==
  ASSUME NEW j \in Job, NEW s \in SkusOf(j.lines)
  PROVE  \E i \in DOMAIN j.lines : j.lines[i].sku = s /\ LastLine(j.lines, s) = j.lines[i]
<1> DEFINE lines == j.lines
           I == {i \in DOMAIN lines : lines[i].sku = s}
           Last(i) == lines[i].sku = s /\ \A n \in DOMAIN lines : lines[n].sku = s => n <= i
<1>1. DOMAIN lines = 1 .. Len(lines) /\ Len(lines) \in Nat
  BY JobSkus, Elements
<1>2. I # {}  BY DEF SkusOf
<1> HIDE DEF lines
<1>3. Positions(I)
  <2>1. IsFiniteSet(1 .. Len(lines))  BY <1>1, FS_Interval
  <2>2. I \in SUBSET (1 .. Len(lines))  BY <1>1
  <2>3. IsFiniteSet(I)  BY <2>1, <2>2, FS_Subset
  <2>4. I \subseteq Int  BY <1>1
  <2> QED  BY <1>2, <2>3, <2>4 DEF Positions
<1>4. PICK m \in I : \A i \in I : i <= m
  <2> HIDE DEF I
  <2> QED  BY <1>3, FirstPosition
<1>5. \E i \in DOMAIN lines : Last(i)  BY <1>4
<1> DEFINE c == CHOOSE i \in DOMAIN lines : Last(i)
<1>6. c \in DOMAIN lines /\ Last(c)  BY <1>5, Zenon
<1>7. LastLine(lines, s) = lines[c]  BY DEF LastLine
<1> QED  BY <1>6, <1>7 DEF lines

-----------------------------------------------------------------------------
(* The offers.                                                             *)

LEMMA OrderRan ==
  ASSUME NEW r \in Readers, Shape, RanInv, Book(r) \/ Pay(r) \/ Place(r) \/ Refuse(r)
  PROVE  RanInv'
<1>1. ran \subseteq ran'  BY OrderStep
<1>2. CASE offer' = offer  BY <1>1, <1>2 DEF RanInv
<1>3. CASE offer' = [o \in Offers |-> [offer[o] EXCEPT !.uses = @ + held[r][o]]] /\ ran' = ran
  <2> SUFFICES ASSUME NEW o \in Offers, offer'[o].state = "runs", offer'[o].uses < Terms[o].maxUses
               PROVE  o \in ran
    BY <1>3 DEF RanInv
  <2>1. offer[o] \in OfferRow /\ held[r][o] \in Nat  BY DEF Shape, OfferRow
  <2>2. offer'[o] = [offer[o] EXCEPT !.uses = @ + held[r][o]]  BY <1>3
  <2>3. offer[o].state = "runs" /\ offer'[o].uses = offer[o].uses + held[r][o]
    BY <2>1, <2>2 DEF OfferRow
  <2>4. Terms[o].maxUses \in Int  BY PricingAssumption DEF Term
  <2>5. offer[o].uses < Terms[o].maxUses
    <3>1. offer[o].uses \in Int  BY <2>1 DEF OfferRow
    <3> QED  BY <2>1, <2>3, <2>4, <3>1
  <2> QED  BY <2>3, <2>5 DEF RanInv
<1>4. CASE /\ offer' = [o \in Offers |-> [offer[o] EXCEPT !.uses = @ - held[r][o]]]
           /\ ran' = ran \cup {o \in Offers : offer'[o].state = "runs"
                                              /\ offer'[o].uses < Terms[o].maxUses}
  BY <1>4 DEF RanInv
<1> QED  BY <1>2, <1>3, <1>4, OrderStep

LEMMA OutsideRan ==
  ASSUME Shape, RanInv, Outside
  PROVE  RanInv'
<1>1. CASE offer' = offer /\ ran' = ran  BY <1>1 DEF RanInv
<1>2. ASSUME NEW o \in Offers, NEW state \in {"runs", "rests", "deleted"},
             offer' = [offer EXCEPT ![o].state = state],
             ran' = IF state = "runs" /\ offer[o].uses < Terms[o].maxUses THEN ran \cup {o} ELSE ran
      PROVE  RanInv'
  <2> SUFFICES ASSUME NEW x \in Offers, offer'[x].state = "runs", offer'[x].uses < Terms[x].maxUses
               PROVE  x \in ran'
    BY DEF RanInv
  <2>1. CASE x # o
    <3>1. offer'[x] = offer[x]  BY <1>2, <2>1 DEF Shape
    <3> QED  BY <1>2, <3>1 DEF RanInv
  <2>2. CASE x = o
    <3>1. offer'[o].state = state /\ offer'[o].uses = offer[o].uses  BY <1>2 DEF Shape
    <3> QED  BY <1>2, <2>2, <3>1
  <2> QED  BY <2>1, <2>2
<1> QED  BY <1>1, <1>2, OutsideStep

\* The product under which a request looks for offers is one it has named.
LEMMA NamesIt ==
  ASSUME Shape, NEW r \in Readers, NEW s \in SkusOf(job[r].lines)
  PROVE  NamedProduct(r, s) \in NamedWith(s)
<1>1. job[r] \in Job  BY DEF Shape
<1>2. PICK i \in DOMAIN job[r].lines :
        job[r].lines[i].sku = s /\ LastLine(job[r].lines, s) = job[r].lines[i]
  BY <1>1, LastLineParts
<1>3. job[r].lines[i].product \in Products  BY <1>1, JobSkus
<1> QED  BY <1>2, <1>3 DEF NamedProduct, NamedWith

\* A list read from the database holds offers that apply now.
LEMMA StoredLists ==
  ASSUME Shape, RanInv, NEW r \in Readers, NEW s \in Skus, s \in SkusOf(job[r].lines),
         NEW q \in Stored(r, List(s))
  PROVE  Checked(q, s, ran, NamedWith(s))
<1>1. List(s) \in ListKeys /\ List(s) \notin PriceKeys /\ List(s) \notin OfferKeys /\ List(s)[2] = s
  BY DEF List, ListKeys, PriceKeys, OfferKeys
<1>2. q \in InAnyOrder(ApplicableTo(r, s))
  <2> DEFINE k == List(s)
  <2>1. Stored(r, k) = InAnyOrder(ApplicableTo(r, k[2]))
    <3> HIDE DEF k
    <3>1. k \in ListKeys /\ k \notin PriceKeys /\ k \notin OfferKeys  BY <1>1 DEF k
    <3> QED  BY <3>1, Zenon DEF Stored
  <2>2. k[2] = s  BY <1>1
  <2> HIDE DEF k
  <2>3. Stored(r, k) = InAnyOrder(ApplicableTo(r, s))  BY <2>1, <2>2
  <2> QED  BY <2>3 DEF k
<1> DEFINE p == NamedProduct(r, s)
<1>3. \A i \in DOMAIN q : q[i] \in Offers /\ Applies(q[i], s, p)
  BY <1>2 DEF InAnyOrder, ApplicableTo
<1>4. p \in NamedWith(s)  BY NamesIt
<1> HIDE DEF p
<1> QED  BY <1>3, <1>4 DEF Checked, Members, Applies, RanInv

LEMMA ListsAreKeys ==
  ASSUME NEW s \in Skus
  PROVE  List(s) \in Keys
BY DEF List, Keys, ListKeys

\* Whatever a request asks for, what others have named stays named.
LEMMA NamedStay ==
  ASSUME Shape, AskedInv,
         \/ job' = job
         \/ \E r \in Readers : \E j : job' = [job EXCEPT ![r] = j] /\ pc[r] = <<"idle", "idle">>
  PROVE  \A s : NamedWith(s) \subseteq NamedWith(s)'
<1> SUFFICES ASSUME NEW s, NEW p \in NamedWith(s)
             PROVE  p \in NamedWith(s)'
  OBVIOUS
<1>1. PICK r \in Readers : \E i \in DOMAIN job[r].lines :
        job[r].lines[i].sku = s /\ job[r].lines[i].product = p
  BY DEF NamedWith
<1>2. job[r].lines # <<>>  BY <1>1
<1>3. job'[r] = job[r]  BY <1>2 DEF Shape, AskedInv
<1> QED  BY <1>1, <1>3 DEF NamedWith

LEMMA AskedKept ==
  ASSUME AskedInv, UNCHANGED job,
         \A r \in Readers : pc'[r] = <<"idle", "idle">> => pc[r] = <<"idle", "idle">>
  PROVE  AskedInv'
BY DEF AskedInv

\* A list that is nowhere new, and offers and products that are not forgotten.
LEMMA ListsKept ==
  ASSUME Shape, ListsInv, ran \subseteq ran', \A s : NamedWith(s) \subseteq NamedWith(s)',
         \A k \in Keys :
           /\ cached'[k] \in {Nothing, cached[k]} \cup {got[r][k] : r \in Readers}
           /\ \A r \in Readers : got'[r][k] \in {Nothing, cached[k], got[r][k]}
  PROVE  ListsInv'
<1> SUFFICES ASSUME NEW s \in Skus
             PROVE  /\ cached'[List(s)] # Nothing =>
                         Checked(cached'[List(s)], s, ran', NamedWith(s)')
                    /\ \A r \in Readers :
                         got'[r][List(s)] # Nothing =>
                           Checked(got'[r][List(s)], s, ran', NamedWith(s)')
  BY DEF ListsInv, List
<1> DEFINE P == NamedWith(s)
<1>1. \A q : Checked(q, s, ran, P) => Checked(q, s, ran', P')  BY DEF Checked
<1> HIDE DEF P
<1>2. List(s) \in Keys  BY ListsAreKeys
<1>3. cached[List(s)] # Nothing => Checked(cached[List(s)], s, ran', P')
  BY <1>1 DEF ListsInv, P
<1>4. \A r \in Readers : got[r][List(s)] # Nothing => Checked(got[r][List(s)], s, ran', P')
  BY <1>1 DEF ListsInv, P
<1>5. cached'[List(s)] \in {Nothing, cached[List(s)]} \cup {got[r][List(s)] : r \in Readers}
  BY <1>2
<1>6. \A r \in Readers : got'[r][List(s)] \in {Nothing, cached[List(s)], got[r][List(s)]}
  BY <1>2
<1> QED  BY <1>3, <1>4, <1>5, <1>6 DEF P

LEMMA FetchLists ==
  ASSUME Shape, RanInv, ListsInv, NEW r \in Readers, NEW stage \in Stages, Fetch(r, stage)
  PROVE  ListsInv'
<1>1. UNCHANGED <<cached, ran, job>>  BY DEF Fetch, databaseVars, cacheVars
<1>2. \E g : got' = [got EXCEPT ![r] = g]  BY DEF Fetch
<1>3. ASSUME NEW s \in Skus
      PROVE  \/ got'[r][List(s)] \in {Nothing, cached[List(s)], got[r][List(s)]}
             \/ s \in SkusOf(job[r].lines) /\ got'[r][List(s)] \in Stored(r, List(s))
  <2> DEFINE M == {k \in Wanted(r, stage) : got[r][k] = Nothing}
  <2>1. PICK followed \in SUBSET {k \in M : cached[k] # Nothing} :
          \E found \in {f \in [M \ followed -> UNION {Stored(r, k) : k \in M \ followed}] :
                          \A k \in M \ followed : f[k] \in Stored(r, k)} :
            got' = [got EXCEPT ![r] =
              [k \in Keys |-> IF k \in followed THEN cached[k]
                              ELSE IF k \in M THEN found[k] ELSE @[k]]]
    BY Zenon DEF Fetch
  <2>2. PICK found :
          /\ \A k \in M \ followed : found[k] \in Stored(r, k)
          /\ got' = [got EXCEPT ![r] =
               [k \in Keys |-> IF k \in followed THEN cached[k]
                               ELSE IF k \in M THEN found[k] ELSE @[k]]]
    BY <2>1
  <2>3. List(s) \in M => s \in SkusOf(job[r].lines)
    <3> SUFFICES ASSUME List(s) \in Wanted(r, stage)
                 PROVE  s \in SkusOf(job[r].lines)
      OBVIOUS
    <3> QED  BY DEF Wanted, List, Stages
  <2> HIDE DEF M
  <2>4. got'[r] = [k \in Keys |-> IF k \in followed THEN cached[k]
                                  ELSE IF k \in M THEN found[k] ELSE got[r][k]]
    BY <2>2 DEF Shape
  <2>5. List(s) \in Keys  BY ListsAreKeys
  <2> QED  BY <2>2, <2>3, <2>4, <2>5
<1> SUFFICES ASSUME NEW s \in Skus
             PROVE  /\ cached[List(s)] # Nothing => Checked(cached[List(s)], s, ran, NamedWith(s))
                    /\ \A q \in Readers : got'[q][List(s)] # Nothing =>
                         Checked(got'[q][List(s)], s, ran, NamedWith(s))
  BY <1>1 DEF ListsInv, List, NamedWith
<1>4. \A q \in Readers : q # r => got'[q] = got[q]  BY <1>2 DEF Shape
<1>5. s \in SkusOf(job[r].lines) =>
        \A q \in Stored(r, List(s)) : Checked(q, s, ran, NamedWith(s))
  BY StoredLists
<1> QED  BY <1>3, <1>4, <1>5 DEF ListsInv

LEMMA LookUpLists ==
  ASSUME Shape, AskedInv, ListsInv, NEW r \in Readers, NEW stage \in Stages, LookUp(r, stage)
  PROVE  ListsInv'
<1>1. UNCHANGED <<cached, ran, job>>  BY DEF LookUp, databaseVars, cacheVars
<1>2. got' = [q \in Readers |->
                IF q = r THEN [k \in Keys |-> IF k \in Wanted(r, stage) THEN cached[k] ELSE got[r][k]]
                ELSE got[q]]
  BY DEF LookUp, Shape
<1>3. \A s : NamedWith(s) \subseteq NamedWith(s)'  BY <1>1, NamedStay
<1> QED  BY <1>1, <1>2, <1>3, ListsKept

LEMMA SaveLists ==
  ASSUME Shape, AskedInv, ListsInv, NEW r \in Readers, NEW stage \in Stages, Save(r, stage)
  PROVE  ListsInv'
<1>1. UNCHANGED <<got, ran, job>>  BY DEF Save, databaseVars
<1>2. cached' = [k \in Keys |-> IF k \in unsaved[r] THEN got[r][k] ELSE cached[k]]
  BY DEF Save
<1>3. \A s : NamedWith(s) \subseteq NamedWith(s)'  BY <1>1, NamedStay
<1> QED  BY <1>1, <1>2, <1>3, ListsKept

-----------------------------------------------------------------------------
(* The lines.                                                              *)

\* What a request has read and built stays, and so does what it says.
LEMMA LinesKept ==
  ASSUME NEW r, OwnLines(r), got'[r] = got[r], job'[r] = job[r], built'[r] = built[r]
  PROVE  OwnLines(r)'
BY DEF OwnLines, OwnLine, UnitPrice, Applied, OffersFor

\* Nothing of a request changes but its place among those it may have.
LEMMA BuilderKept ==
  ASSUME NEW r, Builders(r), job'[r] = job[r], built'[r] = built[r], builder'[r] = builder[r],
         built[r] = <<>> \/ pc'[r][1] \in {"build", "order", "done"}
  PROVE  Builders(r)'
BY DEF Builders

LEMMA ReadLines ==
  ASSUME Shape, BuildersInv, NEW r \in Readers, NEW stage \in Stages,
         LookUp(r, stage) \/ Fetch(r, stage) \/ Save(r, stage),
         \A q \in Readers : OwnLines(q)
  PROVE  BuildersInv' /\ \A q \in Readers : OwnLines(q)'
<1>1. UNCHANGED <<job, built, builder>>
  BY DEF LookUp, Fetch, Save, lineVars
<1>2. pc[r][1] \in {"look up", "fetch", "save"}
  <2>1. CASE pc[r] = <<"look up", stage>>
    <3>1. <<"look up", stage>>[1] = "look up"  OBVIOUS
    <3> QED  BY <2>1, <3>1
  <2>2. CASE pc[r] = <<"fetch", stage>>  BY <2>2
  <2>3. CASE pc[r] = <<"save", stage>>  BY <2>3
  <2> QED  BY <2>1, <2>2, <2>3 DEF LookUp, Fetch, Save
<1>3. built[r] = <<>>  BY <1>2 DEF BuildersInv, Builders
<1>4. \E g : got' = [got EXCEPT ![r] = g]
  <2>1. CASE LookUp(r, stage)  BY <2>1 DEF LookUp
  <2>2. CASE Fetch(r, stage)  BY <2>2 DEF Fetch
  <2>3. CASE Save(r, stage)
    <3>1. got' = [got EXCEPT ![r] = got[r]]  BY <2>3 DEF Save, Shape
    <3> QED  BY <3>1
  <2> QED  BY <2>1, <2>2, <2>3
<1>5. \E p : pc' = [pc EXCEPT ![r] = p]
  BY DEF LookUp, Fetch, Save
<1>6. \A q \in Readers : q # r => got'[q] = got[q] /\ pc'[q] = pc[q]
  BY <1>4, <1>5 DEF Shape
<1>7. ASSUME NEW q \in Readers
      PROVE  Builders(q)' /\ OwnLines(q)'
  <2>1. CASE q = r
    <3>1. Builders(q)'  BY <1>1, <1>3, <2>1, BuilderKept DEF BuildersInv
    <3>2. built'[q] = <<>>  BY <1>1, <1>3, <2>1
    <3>3. OwnLines(q)'  BY <3>2 DEF OwnLines
    <3> QED  BY <3>1, <3>3
  <2>2. CASE q # r
    <3>1. Builders(q) /\ OwnLines(q)  BY DEF BuildersInv
    <3>2. got'[q] = got[q] /\ pc'[q] = pc[q]  BY <1>6, <2>2
    <3>3. built[q] = <<>> \/ pc'[q][1] \in {"build", "order", "done"}
      BY <3>1, <3>2 DEF Builders
    <3> QED  BY <1>1, <3>1, <3>2, <3>3, BuilderKept, LinesKept
  <2> QED  BY <2>1, <2>2
<1> QED  BY <1>7 DEF BuildersInv

LEMMA AskLines ==
  ASSUME Shape, BuildersInv, NEW r \in Readers, NEW j \in Jobs[r], Ask(r, j),
         \A q \in Readers : OwnLines(q)
  PROVE  BuildersInv' /\ \A q \in Readers : OwnLines(q)'
<1>1. UNCHANGED <<got, built, builder>>  BY DEF Ask, lineVars
<1>2. job' = [job EXCEPT ![r] = j] /\ pc' = [pc EXCEPT ![r] = <<"look up", "prices">>]
  BY DEF Ask
<1>3. built[r] = <<>>
  <2>1. pc[r] = <<"idle", "idle">>  BY DEF Ask
  <2> QED  BY <2>1 DEF BuildersInv, Builders
<1>4. ASSUME NEW q \in Readers
      PROVE  Builders(q)' /\ OwnLines(q)'
  <2>1. CASE q = r
    <3>1. built'[q] = <<>>  BY <1>1, <1>3, <2>1
    <3>2. builder'[q] = NoLine  BY <1>1, <1>3, <2>1 DEF BuildersInv, Builders
    <3> QED  BY <3>1, <3>2 DEF Builders, OwnLines
  <2>2. CASE q # r
    <3>1. Builders(q) /\ OwnLines(q)  BY DEF BuildersInv
    <3>2. job'[q] = job[q] /\ pc'[q] = pc[q]  BY <1>2, <2>2 DEF Shape
    <3>3. built[q] = <<>> \/ pc'[q][1] \in {"build", "order", "done"}
      BY <3>1, <3>2 DEF Builders
    <3> QED  BY <1>1, <3>1, <3>2, <3>3, BuilderKept, LinesKept
  <2> QED  BY <2>1, <2>2
<1> QED  BY <1>4 DEF BuildersInv

LEMMA OrderLines ==
  ASSUME NEW r \in Readers, Shape, BuildersInv, Book(r) \/ Pay(r) \/ Place(r) \/ Refuse(r),
         \A q \in Readers : OwnLines(q)
  PROVE  BuildersInv' /\ \A q \in Readers : OwnLines(q)'
<1>1. UNCHANGED <<job, got, built, builder>>  BY OrderStep
<1>2. PICK p : pc' = [pc EXCEPT ![r] = p] /\ p[1] \in {"order", "done"}  BY OrderStep
<1>3. ASSUME NEW q \in Readers
      PROVE  Builders(q)' /\ OwnLines(q)'
  <2>1. Builders(q) /\ OwnLines(q)  BY DEF BuildersInv
  <2>2. pc'[q] = pc[q] \/ pc'[q] = p  BY <1>2 DEF Shape
  <2>3. built[q] = <<>> \/ pc'[q][1] \in {"build", "order", "done"}
    BY <1>2, <2>1, <2>2 DEF Builders
  <2> QED  BY <1>1, <2>1, <2>3, BuilderKept, LinesKept
<1> QED  BY <1>3 DEF BuildersInv

LEMMA OutsideLines ==
  ASSUME Shape, BuildersInv, Outside, \A q \in Readers : OwnLines(q)
  PROVE  BuildersInv' /\ \A q \in Readers : OwnLines(q)'
<1>1. UNCHANGED <<pc, job, got, built, builder>>  BY OutsideStep
<1>2. ASSUME NEW q \in Readers
      PROVE  Builders(q)' /\ OwnLines(q)'
  <2>1. Builders(q) /\ OwnLines(q)  BY DEF BuildersInv
  <2>2. built[q] = <<>> \/ pc'[q][1] \in {"build", "order", "done"}
    BY <1>1, <2>1 DEF Builders
  <2> QED  BY <1>1, <2>1, <2>2, BuilderKept, LinesKept
<1> QED  BY <1>2 DEF BuildersInv

\* The step that matters: the new line is the next one, the others stay.
LEMMA BuildLines ==
  ASSUME Shape, BuildersInv, NEW r \in Readers, Build(r), \A q \in Readers : OwnLines(q)
  PROVE  BuildersInv' /\ \A q \in Readers : OwnLines(q)'
<1>1. UNCHANGED <<job, got>>  BY BuildStep
<1>2. PICK p : pc' = [pc EXCEPT ![r] = p] /\ p[1] \in {"build", "order", "done"}  BY BuildStep
<1>3. PICK line :
        /\ builder' = [builder EXCEPT ![r] = NextLine(r, line)]
        /\ built' = [built EXCEPT ![r] = Append(built[r], NextLine(r, line))]
  BY BuildStep
<1> DEFINE next == NextLine(r, line)
           n == Len(built[r])
           left == IF job[r].kind = "cards" THEN builder[r].discount ELSE 0
<1>4. PICK S : built[r] \in Seq(S)  BY DEF Shape
<1>5. Builders(r)  BY DEF BuildersInv
<1>6. n \in Nat /\ DOMAIN built[r] = 1 .. n /\ (built[r] = <<>> <=> n = 0)
  BY <1>4, Appended
<1>7. job[r].kind # "order" => builder[r].ids = {}
  <2>1. CASE built[r] = <<>>  BY <1>5, <2>1 DEF Builders, NoLine
  <2>2. CASE built[r] # <<>>
    <3>1. n \in DOMAIN built[r]  BY <1>6, <2>2
    <3> QED  BY <1>5, <2>2, <3>1 DEF Builders
  <2> QED  BY <2>1, <2>2
<1>8. /\ IsLine(next)
      /\ OwnParts(next, UnitPrice(r, next.sku), Applied(r, next.sku), left)
      /\ job[r].kind # "order" => next.ids = {}
  <2>1. IsLine(builder[r]) /\ job \in [Readers -> Job]  BY DEF Shape
  <2> QED  BY <1>7, <2>1, NextLineParts
<1> HIDE DEF next
<1>9. /\ builder'[r] = next
      /\ built'[r] = Append(built[r], next)
      /\ \A q \in Readers : q # r => builder'[q] = builder[q] /\ built'[q] = built[q]
  BY <1>3 DEF Shape, next
<1>10. /\ DOMAIN built'[r] = 1 .. n + 1
       /\ Len(built'[r]) = n + 1
       /\ \A i \in 1 .. n : built'[r][i] = built[r][i]
       /\ built'[r][n + 1] = next
       /\ built'[r] # <<>>
  BY <1>4, <1>9, Appended
<1>11. Builders(r)'
  <2>1. pc'[r][1] \in {"build", "order", "done"}  BY <1>2 DEF Shape
  <2>2. builder'[r] = built'[r][Len(built'[r])]  BY <1>9, <1>10
  <2>3. job[r].kind # "order" => \A i \in 1 .. n + 1 : built'[r][i].ids = {}
    <3> SUFFICES ASSUME job[r].kind # "order", NEW i \in 1 .. n + 1
                 PROVE  built'[r][i].ids = {}
      OBVIOUS
    <3>1. CASE i \in 1 .. n  BY <1>5, <1>6, <1>10, <3>1 DEF Builders
    <3>2. CASE i = n + 1  BY <1>8, <1>10, <3>2
    <3> QED  BY <1>6, <3>1, <3>2
  <2> QED  BY <1>1, <1>10, <2>1, <2>2, <2>3 DEF Builders
<1>12. OwnLines(r)'
  <2>2. left = IF job[r].kind = "cards" /\ n + 1 > 1 THEN built'[r][n].discount ELSE 0
    <3>1. CASE n = 0
      <4>1. builder[r].discount = 0  BY <1>5, <1>6, <3>1 DEF Builders, NoLine
      <4> QED  BY <3>1, <4>1
    <3>2. CASE n # 0
      <4>1. builder[r] = built[r][n]  BY <1>5, <1>6, <3>2 DEF Builders
      <4>2. n \in 1 .. n /\ n + 1 > 1  BY <1>6, <3>2
      <4>3. built'[r][n] = built[r][n]  BY <1>10, <4>2
      <4> QED  BY <4>1, <4>2, <4>3
    <3> QED  BY <3>1, <3>2
  <2> HIDE DEF left
  <2> SUFFICES ASSUME NEW i \in 1 .. n + 1
               PROVE  OwnLine(r, i)'
    BY <1>10 DEF OwnLines
  <2>3. CASE i = n + 1
    <3>1. i - 1 = n  BY <1>6, <2>3
    <3>2. job'[r] = job[r] /\ got'[r] = got[r] /\ built'[r][i] = next  BY <1>1, <1>10, <2>3
    <3>3. left = IF job'[r].kind = "cards" /\ i > 1 THEN built'[r][i - 1].discount ELSE 0
      BY <2>2, <2>3, <3>1, <3>2
    <3>4. OwnParts(next, got'[r][<<"price", next.sku>>], Resolve(OffersIn(got'[r], next.sku)), left)
      BY <1>8, <3>2 DEF UnitPrice, Applied, OffersFor
    <3>5. OwnParts(built'[r][i], got'[r][<<"price", built'[r][i].sku>>],
                   Resolve(OffersIn(got'[r], built'[r][i].sku)),
                   IF job'[r].kind = "cards" /\ i > 1 THEN built'[r][i - 1].discount ELSE 0)
      BY <3>2, <3>3, <3>4
    <3> QED  BY <3>5 DEF OwnLine, UnitPrice, Applied, OffersFor
  <2>4. CASE i \in 1 .. n
    <3>1. OwnLine(r, i)  BY <1>6, <2>4 DEF OwnLines
    <3>2. built'[r][i] = built[r][i]  BY <1>10, <2>4
    <3>3. i > 1 => built'[r][i - 1] = built[r][i - 1]
      <4>1. i > 1 => i - 1 \in 1 .. n  BY <1>6, <2>4
      <4> QED  BY <1>10, <4>1
    <3>4. (IF job[r].kind = "cards" /\ i > 1 THEN built[r][i - 1].discount ELSE 0)
            = IF job'[r].kind = "cards" /\ i > 1 THEN built'[r][i - 1].discount ELSE 0
      BY <1>1, <3>3
    <3> QED  BY <1>1, <3>1, <3>2, <3>4 DEF OwnLine, UnitPrice, Applied, OffersFor
  <2> QED  BY <1>6, <2>3, <2>4
<1>13. ASSUME NEW q \in Readers, q # r
       PROVE  Builders(q)' /\ OwnLines(q)'
  <2>1. Builders(q) /\ OwnLines(q)  BY DEF BuildersInv
  <2>2. pc'[q] = pc[q] /\ builder'[q] = builder[q] /\ built'[q] = built[q]
    BY <1>2, <1>9, <1>13 DEF Shape
  <2>3. built[q] = <<>> \/ pc'[q][1] \in {"build", "order", "done"}
    BY <2>1, <2>2 DEF Builders
  <2> QED  BY <1>1, <2>1, <2>2, <2>3, BuilderKept, LinesKept
<1> QED  BY <1>11, <1>12, <1>13 DEF BuildersInv

-----------------------------------------------------------------------------

LEMMA Initially ==
  ASSUME Init
  PROVE  IInv
<1>1. Shape  BY InitShape
<1>2. RanInv
  <2> SUFFICES ASSUME NEW o \in Offers, offer[o].state = "runs", offer[o].uses < Terms[o].maxUses
               PROVE  o \in ran
    BY DEF RanInv
  <2>1. offer[o] = [state |-> IF o \in Running THEN "runs" ELSE "rests", uses |-> 0]  BY DEF Init
  <2> QED  BY <2>1 DEF Init
<1>3. ASSUME NEW r \in Readers
      PROVE  Builders(r) /\ OwnLines(r)
  <2>1. built[r] = <<>> /\ builder[r] = NoLine  BY DEF Init
  <2> QED  BY <2>1 DEF Builders, OwnLines
<1>4. ListsInv
  <2>1. \A s \in Skus : cached[List(s)] = Nothing /\ \A r \in Readers : got[r][List(s)] = Nothing
    BY ListsAreKeys DEF Init
  <2> QED  BY <2>1 DEF ListsInv
<1>5. AskedInv  BY DEF Init, AskedInv
<1> QED  BY <1>1, <1>2, <1>3, <1>4, <1>5 DEF IInv, BuildersInv

LEMMA Inductive ==
  ASSUME IInv, [Next]_vars
  PROVE  IInv'
<1> USE DEF IInv
<1>1. ASSUME NEW r \in Readers, NEW j \in Jobs[r], Ask(r, j)
      PROVE  IInv'
  <2>1. UNCHANGED <<cached, got, offer, ran>>
    BY <1>1 DEF Ask, databaseVars, cacheVars
  <2>2. RanInv'  BY <2>1 DEF RanInv
  <2>3. pc[r] = <<"idle", "idle">> /\ job' = [job EXCEPT ![r] = j]
        /\ pc' = [pc EXCEPT ![r] = <<"look up", "prices">>]
    BY <1>1 DEF Ask
  <2>4. \A s : NamedWith(s) \subseteq NamedWith(s)'  BY <2>3, NamedStay
  <2>5. ListsInv'  BY <2>1, <2>4, ListsKept
  <2>6. AskedInv'
    <3>1. \A q \in Readers : q # r => pc'[q] = pc[q] /\ job'[q] = job[q]  BY <2>3 DEF Shape
    <3>2. pc'[r] # <<"idle", "idle">>  BY <2>3 DEF Shape
    <3> QED  BY <3>1, <3>2 DEF AskedInv
  <2> QED  BY <1>1, <2>2, <2>5, <2>6, AskShape, AskLines
<1>2. ASSUME NEW r \in Readers, NEW stage \in Stages,
             LookUp(r, stage) \/ Fetch(r, stage) \/ Save(r, stage)
      PROVE  IInv'
  <2>1. UNCHANGED <<offer, ran>>
    BY <1>2 DEF LookUp, Fetch, Save, databaseVars
  <2>2. RanInv'  BY <2>1 DEF RanInv
  <2>3. ListsInv'  BY <1>2, LookUpLists, FetchLists, SaveLists
  <2>4. AskedInv'
    <3>1. job' = job /\ \E p : pc' = [pc EXCEPT ![r] = p] /\ p[1] \in {"look up", "fetch", "save", "build"}
      <4>1. After(stage)[1] \in {"look up", "build"} /\ <<"fetch", stage>>[1] = "fetch"
            /\ <<"save", stage>>[1] = "save"
        BY AfterPlaces
      <4> QED  BY <1>2, <4>1 DEF LookUp, Fetch, Save
    <3>2. <<"idle", "idle">>[1] = "idle"  OBVIOUS
    <3> QED  BY <3>1, <3>2, AskedKept DEF Shape
  <2> QED  BY <1>2, <2>2, <2>3, <2>4, ReadShape, ReadLines
<1>3. ASSUME NEW r \in Readers, Build(r)
      PROVE  IInv'
  <2>1. UNCHANGED <<cached, got, offer, ran>>  BY <1>3, BuildStep
  <2>2. RanInv'  BY <2>1 DEF RanInv
  <2>3. job' = job /\ \E p : pc' = [pc EXCEPT ![r] = p] /\ p[1] \in {"build", "order", "done"}
    BY <1>3, BuildStep
  <2>4. \A s : NamedWith(s) \subseteq NamedWith(s)'  BY <2>3, NamedStay
  <2>5. ListsInv'  BY <2>1, <2>4, ListsKept
  <2>6. AskedInv'
    <3>1. <<"idle", "idle">>[1] = "idle"  OBVIOUS
    <3> QED  BY <2>3, <3>1, AskedKept DEF Shape
  <2> QED  BY <1>3, <2>2, <2>5, <2>6, BuildShape, BuildLines
<1>4. ASSUME NEW r \in Readers, Book(r) \/ Pay(r) \/ Place(r) \/ Refuse(r)
      PROVE  IInv'
  <2>1. UNCHANGED <<cached, got>> /\ ran \subseteq ran'  BY <1>4, OrderStep
  <2>2. job' = job /\ \E p : pc' = [pc EXCEPT ![r] = p] /\ p[1] \in {"order", "done"}
    BY <1>4, OrderStep
  <2>3. \A s : NamedWith(s) \subseteq NamedWith(s)'  BY <2>2, NamedStay
  <2>4. ListsInv'  BY <2>1, <2>3, ListsKept
  <2>5. RanInv'  BY <1>4, OrderRan
  <2>6. AskedInv'
    <3>1. <<"idle", "idle">>[1] = "idle"  OBVIOUS
    <3> QED  BY <2>2, <3>1, AskedKept DEF Shape
  <2> QED  BY <1>4, <2>4, <2>5, <2>6, OrderShape, OrderLines
<1>5. ASSUME Outside
      PROVE  IInv'
  <2>1. UNCHANGED got /\ ran \subseteq ran'  BY <1>5, OutsideStep
  <2>2. \A k \in Keys : cached'[k] \in {Nothing, cached[k]}
    <3>1. cached' = cached \/ \E k : cached' = [cached EXCEPT ![k] = Nothing]
      BY <1>5, OutsideStep
    <3> QED  BY <3>1 DEF Shape
  <2>3. UNCHANGED <<pc, job>>  BY <1>5, OutsideStep
  <2>4. \A s : NamedWith(s) \subseteq NamedWith(s)'  BY <2>3, NamedStay
  <2>5. ListsInv'  BY <2>1, <2>2, <2>4, ListsKept
  <2>6. AskedInv'  BY <2>3, AskedKept
  <2> QED  BY <1>5, <2>5, <2>6, OutsideShape, OutsideRan, OutsideLines
<1>6. CASE Next
  <2>1. CASE \E k \in Expiring : Expire(k)  BY <1>5, <2>1 DEF Outside
  <2>2. CASE \E s \in Skus : \E p \in NewPrices : Reprice(s, p)  BY <1>5, <2>2 DEF Outside
  <2>3. CASE \E o \in Offers : \E state \in Turns[o] : Turn(o, state)
    <3>1. Outside  BY <2>3, PricingAssumption DEF Outside
    <3> QED  BY <1>5, <3>1
  <2> QED  BY <1>1, <1>2, <1>3, <1>4, <1>6, <2>1, <2>2, <2>3 DEF Next
<1>7. CASE UNCHANGED vars  BY <1>5, <1>7 DEF Outside
<1> QED  BY <1>6, <1>7

LEMMA Preserved == Spec => []IInv
<1>1. Init => IInv  BY Initially
<1>2. IInv /\ [Next]_vars => IInv'  BY Inductive
<1> QED  BY <1>1, <1>2, PTL DEF Spec

\* Every line costs its own unit price less its own discount, although the lines
\* of an answer come from one builder (product-version-card.builder.ts,
\* order-shopping-cart.builder.ts, product-version-details.builder.ts).
THEOREM EveryLineItsOwn == Spec => []OwnPrices
<1>1. IInv => OwnPrices
  <2> SUFFICES ASSUME IInv, NEW r \in Readers, NEW i \in DOMAIN built[r]
               PROVE  OwnLine(r, i)
    BY DEF OwnPrices, OwnLine, OwnParts
  <2> QED  BY DEF IInv, OwnLines
<1> QED  BY <1>1, Preserved, PTL

\* However long lists are kept and whoever filled the cache, every offer a request
\* or the cache has for a product version has run with uses left, and is for that
\* version or for a product that a request has named with it
\* (aggregate-offer-entities.service.ts, get-products-data.step.ts).
THEOREM OffersRanOnce == Spec => []OnlyOffersThatRan
<1>1. IInv => OnlyOffersThatRan
  BY DEF IInv, ListsInv, OnlyOffersThatRan, Checked, List
<1> QED  BY <1>1, Preserved, PTL

-----------------------------------------------------------------------------
(* Sums.                                                                   *)

\* The well-foundedness of finite sets, as a minimal counterexample.
\* What f says of the elements of T, laid out as a set of counters.
Units(f, T) == {p \in T \X (Nat \ {0}) : p[2] <= f[p[1]]}

LEMMA UnitsOfNone ==
  ASSUME NEW f
  PROVE  IsFiniteSet(Units(f, {})) /\ Cardinality(Units(f, {})) = 0
<1>1. Units(f, {}) = {}  BY DEF Units
<1> QED  BY <1>1, FS_EmptySet

LEMMA UnitsOfOneMore ==
  ASSUME NEW T, NEW x, x \notin T, NEW f, f[x] \in Int, IsFiniteSet(Units(f, T))
  PROVE  /\ IsFiniteSet(Units(f, T \cup {x}))
         /\ Cardinality(Units(f, T \cup {x})) =
              Cardinality(Units(f, T)) + (IF f[x] > 0 THEN f[x] ELSE 0)
<1> DEFINE U == {x} \X (1 .. f[x])
<1>1. IsFiniteSet({x}) /\ Cardinality({x}) = 1  BY FS_Singleton
<1>2. IsFiniteSet(1 .. f[x]) /\ Cardinality(1 .. f[x]) = IF f[x] > 0 THEN f[x] ELSE 0
  <2>1. /\ IsFiniteSet(1 .. f[x])
        /\ Cardinality(1 .. f[x]) = IF 1 > f[x] THEN 0 ELSE f[x] - 1 + 1
    BY FS_Interval
  <2> QED  BY <2>1
<1> DEFINE n == IF f[x] > 0 THEN f[x] ELSE 0
<1>3. n \in Nat /\ IsFiniteSet(U) /\ Cardinality(U) = n
  <2>1. IsFiniteSet(U) /\ Cardinality(U) = Cardinality({x}) * Cardinality(1 .. f[x])
    BY <1>1, <1>2, FS_Product
  <2> HIDE DEF U
  <2>2. n \in Nat /\ Cardinality(1 .. f[x]) = n  BY <1>2
  <2> HIDE DEF n
  <2>3. 1 * n = n  BY <2>2
  <2> QED  BY <1>1, <2>1, <2>2, <2>3
<1>4. Units(f, T \cup {x}) = Units(f, T) \cup U  BY DEF Units
<1>5. Units(f, T) \cap U = {}  BY DEF Units
<1>6. Cardinality({}) = 0  BY FS_EmptySet
<1>7. Cardinality(Units(f, T)) \in Nat /\ Cardinality(U) \in Nat  BY <1>3, FS_CardinalityType
<1> HIDE DEF U, n
<1>8. /\ IsFiniteSet(Units(f, T) \cup U)
      /\ Cardinality(Units(f, T) \cup U) =
           Cardinality(Units(f, T)) + Cardinality(U) - Cardinality(Units(f, T) \cap U)
  BY <1>3, FS_Union
<1>9. /\ IsFiniteSet(Units(f, T \cup {x}))
      /\ Cardinality(Units(f, T \cup {x})) = Cardinality(Units(f, T)) + n - 0
  BY <1>3, <1>4, <1>5, <1>6, <1>8
<1>10. Cardinality(Units(f, T)) + n - 0 = Cardinality(Units(f, T)) + n  BY <1>3, <1>7
<1> QED  BY <1>9, <1>10 DEF n

LEMMA UnitsAreFinite ==
  ASSUME NEW S, IsFiniteSet(S), NEW f, \A x \in S : f[x] \in Int
  PROVE  \A T \in SUBSET S : IsFiniteSet(Units(f, T))
<1> DEFINE C == {T \in SUBSET S : ~IsFiniteSet(Units(f, T))}
<1>1. SUFFICES ASSUME C # {}
               PROVE  FALSE
  OBVIOUS
<1>2. PICK T \in C : \A U \in C : U \subseteq T => U = T
  <2>1. C \in SUBSET SUBSET S  OBVIOUS
  <2> HIDE DEF C
  <2> QED  BY <1>1, <2>1, MinimalSubset
<1>3. T # {}  BY <1>2, UnitsOfNone
<1>4. PICK x \in T : TRUE  BY <1>3
<1>5. IsFiniteSet(Units(f, T \ {x}))  BY <1>2, <1>4
<1>6. T = (T \ {x}) \cup {x} /\ f[x] \in Int  BY <1>4
<1>7. IsFiniteSet(Units(f, T))  BY <1>5, <1>6, UnitsOfOneMore
<1> QED  BY <1>2, <1>7

\* The sum of f over T, counted.
Opposite(f) == [x \in DOMAIN f |-> -f[x]]

Counted(f, T) == Cardinality(Units(f, T)) - Cardinality(Units(Opposite(f), T))

LEMMA CountedSum ==
  ASSUME NEW S, IsFiniteSet(S), NEW f \in [S -> Int]
  PROVE  /\ Counted(f, {}) = 0
         /\ \A T \in SUBSET S : /\ Counted(f, T) \in Int
                                /\ \A x \in T : Counted(f, T) = f[x] + Counted(f, T \ {x})
<1> DEFINE g == Opposite(f)
<1>1. g \in [S -> Int] /\ \A x \in S : g[x] = -f[x]  BY DEF Opposite
<1> HIDE DEF g
<1>2. \A T \in SUBSET S : IsFiniteSet(Units(f, T)) /\ IsFiniteSet(Units(g, T))
  BY <1>1, UnitsAreFinite
<1>3. \A T \in SUBSET S : Cardinality(Units(f, T)) \in Nat /\ Cardinality(Units(g, T)) \in Nat
  BY <1>2, FS_CardinalityType
<1>4. Counted(f, {}) = 0  BY UnitsOfNone DEF Counted
<1>5. ASSUME NEW T \in SUBSET S, NEW x \in T
      PROVE  Counted(f, T) = f[x] + Counted(f, T \ {x})
  <2>1. T \ {x} \in SUBSET S /\ x \notin T \ {x} /\ T = (T \ {x}) \cup {x}  OBVIOUS
  <2>2. f[x] \in Int /\ g[x] \in Int /\ g[x] = -f[x]  BY <1>1
  <2>3. Cardinality(Units(f, T)) =
          Cardinality(Units(f, T \ {x})) + (IF f[x] > 0 THEN f[x] ELSE 0)
    BY <1>2, <2>1, <2>2, UnitsOfOneMore
  <2>4. Cardinality(Units(g, T)) =
          Cardinality(Units(g, T \ {x})) + (IF g[x] > 0 THEN g[x] ELSE 0)
    BY <1>2, <2>1, <2>2, UnitsOfOneMore
  <2> QED  BY <1>3, <2>1, <2>2, <2>3, <2>4 DEF Counted, g
<1>6. \A T \in SUBSET S : Counted(f, T) \in Int  BY <1>3 DEF Counted, g
<1> QED  BY <1>4, <1>5, <1>6

\* The function that MapThenSumSet folds S with is the counted sum.
Folds(iter, f, S) ==
  iter = [T \in SUBSET S |->
            IF T = {} THEN 0 ELSE f[CHOOSE x \in T : TRUE] + iter[T \ {CHOOSE x \in T : TRUE}]]

LEMMA FoldCounts ==
  ASSUME NEW R, IsFiniteSet(R), NEW f \in [R -> Int], NEW S \in SUBSET R
  PROVE  /\ Folds([T \in SUBSET S |-> Counted(f, T)], f, S)
         /\ \A iter : Folds(iter, f, S) => iter[S] = Counted(f, S)
<1>0. /\ Counted(f, {}) = 0
      /\ \A T \in SUBSET S : \A x \in T : Counted(f, T) = f[x] + Counted(f, T \ {x})
  BY CountedSum
<1>01. IsFiniteSet(S)  BY FS_Subset
<1>1. ASSUME NEW T \in SUBSET S, T # {}
      PROVE  (CHOOSE x \in T : TRUE) \in T
  BY <1>1
<1>2. Folds([T \in SUBSET S |-> Counted(f, T)], f, S)
  <2> DEFINE iter == [T \in SUBSET S |-> Counted(f, T)]
  <2>1. ASSUME NEW T \in SUBSET S, T # {}
        PROVE  iter[T] = f[CHOOSE x \in T : TRUE] + iter[T \ {CHOOSE x \in T : TRUE}]
    <3>1. PICK x \in T : x = CHOOSE y \in T : TRUE  BY <1>1, <2>1
    <3>2. Counted(f, T) = f[x] + Counted(f, T \ {x})  BY <1>0
    <3> QED  BY <3>1, <3>2
  <2>2. iter[{}] = 0  BY <1>0
  <2> QED  BY <2>1, <2>2 DEF Folds
<1>3. ASSUME NEW iter, Folds(iter, f, S)
      PROVE  iter[S] = Counted(f, S)
  <2> DEFINE C == {T \in SUBSET S : iter[T] # Counted(f, T)}
  <2>1. SUFFICES ASSUME C # {}
                 PROVE  FALSE
    OBVIOUS
  <2>2. PICK T \in C : \A U \in C : U \subseteq T => U = T
    <3>1. C \in SUBSET SUBSET S  OBVIOUS
    <3> HIDE DEF C
    <3> QED  BY <1>01, <2>1, <3>1, MinimalSubset
  <2>3. iter[T] = IF T = {} THEN 0
                  ELSE f[CHOOSE x \in T : TRUE] + iter[T \ {CHOOSE x \in T : TRUE}]
    BY <1>3, Zenon DEF Folds
  <2>4. T # {}  BY <1>0, <2>2, <2>3
  <2>5. PICK x \in T : x = CHOOSE y \in T : TRUE  BY <1>1, <2>4
  <2>6. iter[T \ {x}] = Counted(f, T \ {x})  BY <2>2, <2>5
  <2>7. iter[T] = f[x] + iter[T \ {x}]  BY <2>3, <2>4, <2>5
  <2>8. Counted(f, T) = f[x] + Counted(f, T \ {x})  BY <1>0, <2>2
  <2> QED  BY <2>2, <2>6, <2>7, <2>8
<1> QED  BY <1>2, <1>3

LEMMA FoldIsCount ==
  ASSUME NEW R, IsFiniteSet(R), NEW f \in [R -> Int], NEW S \in SUBSET R,
         NEW sum, sum = (CHOOSE iter : Folds(iter, f, S))[S]
  PROVE  sum = Counted(f, S)
<1>1. Folds([T \in SUBSET S |-> Counted(f, T)], f, S)  BY FoldCounts
<1>2. \E iter : Folds(iter, f, S)  BY <1>1, Zenon
<1>3. Folds(CHOOSE iter : Folds(iter, f, S), f, S)  BY <1>2, Zenon
<1> QED  BY <1>3, FoldCounts

\* Nothing negative adds up to nothing negative.
LEMMA CountedNat ==
  ASSUME NEW S, IsFiniteSet(S), NEW f \in [S -> Nat], NEW T \in SUBSET S
  PROVE  Counted(f, T) \in Nat
<1> DEFINE g == Opposite(f)
<1>1. f \in [S -> Int] /\ \A x \in S : g[x] \in Int /\ ~(0 < g[x])  BY DEF Opposite
<1> HIDE DEF g
<1>2. Units(g, T) = {}  BY <1>1 DEF Units
<1>3. Cardinality(Units(g, T)) = 0  BY <1>2, FS_EmptySet
<1>4. IsFiniteSet(Units(f, T))  BY <1>1, UnitsAreFinite
<1>5. Cardinality(Units(f, T)) \in Nat  BY <1>4, FS_CardinalityType
<1> QED  BY <1>3, <1>5 DEF Counted, g

\* Sets whose elements correspond have the same sum.
LEMMA SameSum ==
  ASSUME NEW S, IsFiniteSet(S), NEW f \in [S -> Nat],
         NEW A \in SUBSET S, NEW B \in SUBSET S,
         NEW match \in Bijection(A, B), \A a \in A : f[match[a]] = f[a]
  PROVE  Counted(f, A) = Counted(f, B)
<1> DEFINE g == Opposite(f)
<1>1. f \in [S -> Int] /\ \A x \in S : g[x] \in Int /\ ~(0 < g[x])  BY DEF Opposite
<1> HIDE DEF g
<1>2. Units(g, A) = {} /\ Units(g, B) = {}  BY <1>1 DEF Units
<1> DEFINE move == [p \in Units(f, A) |-> <<match[p[1]], p[2]>>]
<1>3. /\ match \in [A -> B]
      /\ \A a, b \in A : match[a] = match[b] => a = b
      /\ \A b \in B : \E a \in A : match[a] = b
  BY DEF Bijection, Injection, Surjection, IsInjective
<1>4. \A p \in Units(f, A) : move[p] \in Units(f, B)  BY <1>3 DEF Units
<1>5. \A p, q \in Units(f, A) : move[p] = move[q] => p = q
  <2> SUFFICES ASSUME NEW p \in Units(f, A), NEW q \in Units(f, A), move[p] = move[q]
               PROVE  p = q
    OBVIOUS
  <2>1. match[p[1]] = match[q[1]] /\ p[2] = q[2]  OBVIOUS
  <2>2. p[1] \in A /\ q[1] \in A /\ p = <<p[1], p[2]>> /\ q = <<q[1], q[2]>>  BY DEF Units
  <2> QED  BY <1>3, <2>1, <2>2
<1>6. \A u \in Units(f, B) : \E p \in Units(f, A) : move[p] = u
  <2> SUFFICES ASSUME NEW u \in Units(f, B)
               PROVE  \E p \in Units(f, A) : move[p] = u
    OBVIOUS
  <2>1. u[1] \in B /\ u[2] \in Nat \ {0} /\ u[2] <= f[u[1]] /\ u = <<u[1], u[2]>>  BY DEF Units
  <2>2. PICK a \in A : match[a] = u[1]  BY <1>3, <2>1
  <2>3. <<a, u[2]>> \in Units(f, A)  BY <2>1, <2>2 DEF Units
  <2>4. move[<<a, u[2]>>] = u  BY <2>1, <2>2, <2>3
  <2> QED  BY <2>3, <2>4
<1>7. move \in Bijection(Units(f, A), Units(f, B))
  BY <1>4, <1>5, <1>6 DEF Bijection, Injection, Surjection, IsInjective
<1>8. IsFiniteSet(Units(f, A))  BY <1>1, UnitsAreFinite
<1>9. Cardinality(Units(f, B)) = Cardinality(Units(f, A))
  BY <1>7, <1>8, FS_Bijection DEF ExistsBijection
<1> QED  BY <1>2, <1>9 DEF Counted, g

-----------------------------------------------------------------------------
(* The discount of a set of offers, and the sums over lines.               *)

LEMMA SumCounts ==
  ASSUME NEW R, IsFiniteSet(R), NEW f \in [R -> Int]
  PROVE  Sum(f) = Counted(f, R)
<1> DEFINE Body(iter) ==
             iter = [s \in SUBSET R |->
                       IF s = {} THEN 0
                       ELSE f[CHOOSE i \in s : TRUE] + iter[s \ {CHOOSE i \in s : TRUE}]]
<1>1. Sum(f) = (CHOOSE iter : Body(iter))[R]
  BY DEF Sum, MapThenSumSet, MapThenFoldSet
<1>2. (CHOOSE iter : Body(iter)) = CHOOSE iter : Folds(iter, f, R)  BY DEF Folds
<1> QED  BY <1>1, <1>2, FoldIsCount

LEMMA SumType ==
  ASSUME NEW R, IsFiniteSet(R)
  PROVE  /\ \A f \in [R -> Int] : Sum(f) \in Int
         /\ \A f \in [R -> Nat] : Sum(f) \in Nat
<1>1. ASSUME NEW f \in [R -> Int]
      PROVE  Sum(f) \in Int
  <2>1. Counted(f, R) \in Int  BY CountedSum
  <2> QED  BY <2>1, SumCounts
<1>2. ASSUME NEW f \in [R -> Nat]
      PROVE  Sum(f) \in Nat
  <2>1. f \in [R -> Int]  OBVIOUS
  <2>2. Counted(f, R) \in Nat  BY CountedNat
  <2> QED  BY <2>1, <2>2, SumCounts
<1> QED  BY <1>1, <1>2

Percent == [o \in Offers |-> Terms[o].discount]

LEMMA PercentType == Percent \in [Offers -> Nat] /\ Percent \in [Offers -> Int]
BY PricingAssumption DEF Percent, Term

LEMMA DiscountCounts ==
  ASSUME NEW S \in SUBSET Offers
  PROVE  Discount(S) = Counted(Percent, S)
<1> DEFINE f == Percent
           Body(iter) ==
             iter = [s \in SUBSET S |->
                       IF s = {} THEN 0
                       ELSE Terms[CHOOSE o \in s : TRUE].discount + iter[s \ {CHOOSE o \in s : TRUE}]]
<1>1. Discount(S) = (CHOOSE iter : Body(iter))[S]
  BY DEF Discount, MapThenSumSet, MapThenFoldSet
<1>2. ASSUME NEW iter
      PROVE  Body(iter) <=> Folds(iter, f, S)
  <2>1. \A s \in SUBSET S : s # {} => f[CHOOSE o \in s : TRUE] = Terms[CHOOSE o \in s : TRUE].discount
    BY DEF Percent
  <2> HIDE DEF f
  <2>2. [s \in SUBSET S |->
           IF s = {} THEN 0
           ELSE Terms[CHOOSE o \in s : TRUE].discount + iter[s \ {CHOOSE o \in s : TRUE}]] =
        [s \in SUBSET S |->
           IF s = {} THEN 0 ELSE f[CHOOSE o \in s : TRUE] + iter[s \ {CHOOSE o \in s : TRUE}]]
    BY <2>1
  <2> QED  BY <2>2 DEF Folds
<1> HIDE DEF f
<1>3. IsFiniteSet(Offers) /\ f \in [Offers -> Int]  BY PercentType, PricingAssumption DEF f
<1>4. Folds([s \in SUBSET S |-> Counted(f, s)], f, S)  BY <1>3, FoldCounts
<1>5. \E iter : Body(iter)  BY <1>2, <1>4, Zenon
<1>6. Body(CHOOSE iter : Body(iter))  BY <1>5, Zenon
<1>7. Folds(CHOOSE iter : Body(iter), f, S)  BY <1>2, <1>6, Zenon
<1> HIDE DEF Body
<1>8. (CHOOSE iter : Body(iter))[S] = Counted(f, S)  BY <1>3, <1>7, FoldCounts
<1> QED  BY <1>1, <1>8 DEF f

LEMMA DiscountType ==
  ASSUME NEW S \in SUBSET Offers
  PROVE  Discount(S) \in Nat
<1>1. Counted(Percent, S) \in Nat  BY PricingAssumption, PercentType, CountedNat
<1> QED  BY <1>1, DiscountCounts

-----------------------------------------------------------------------------
(* The choice among the offers.                                            *)

LEMMA BeatsOrder ==
  ASSUME NEW a \in Offers, NEW b \in Offers, NEW c \in Offers
  PROVE  /\ ~Beats(a, a)
         /\ Beats(a, b) => ~Beats(b, a)
         /\ Beats(a, b) /\ ~Beats(c, b) => Beats(a, c)
         /\ ~Beats(b, a) /\ Beats(b, c) => Beats(a, c)
         /\ ~Beats(a, b) /\ ~Beats(b, a) => Terms[a].discount = Terms[b].discount
<1>1. \A o \in Offers : Terms[o].priority \in Int /\ Terms[o].discount \in Int
  BY PricingAssumption DEF Term
<1> QED  BY <1>1 DEF Beats

\* A list, or what a filter has left of it.
IsList(q) ==
  /\ IsFiniteSet(DOMAIN q)
  /\ DOMAIN q \subseteq Int
  /\ \A i \in DOMAIN q : q[i] \in Offers

\* pickHighestPriority returns an offer of the list that none of it beats.
LEMMA PickIsBest ==
  ASSUME NEW q, IsList(q), Members(q) # {}
  PROVE  Pick(q) \in Members(q) /\ \A o \in Members(q) : ~Beats(o, Pick(q))
<1> DEFINE I == DOMAIN q
           Before(i) == {j \in I : Beats(q[j], q[i]) \/ (~Beats(q[i], q[j]) /\ j < i)}
           C == {Before(i) : i \in I}
           Best(i) == \A j \in I : ~Beats(q[j], q[i]) /\ (j < i => Beats(q[i], q[j]))
<1>1. I # {} /\ IsFiniteSet(I) /\ I \subseteq Int /\ \A i \in I : q[i] \in Offers
  BY DEF Members, IsList
<1> HIDE DEF I
<1>2. C \in SUBSET SUBSET I  BY <1>1
<1>02. C # {}  BY <1>1
<1> HIDE DEF C
<1>3. PICK T \in C : \A U \in C : U \subseteq T => U = T
  <2>1. IsFiniteSet(I)  BY <1>1
  <2> QED  BY <1>2, <1>02, <2>1, MinimalSubset
<1>4. PICK i \in I : T = Before(i)  BY <1>3 DEF C
<1>5. ASSUME NEW j \in Before(i)
      PROVE  FALSE
  <2>1. j \in I /\ Before(j) \in C  BY DEF C
  <2>2. ASSUME NEW k \in Before(j)
        PROVE  k \in Before(i)
    <3>1. k \in I /\ q[i] \in Offers /\ q[j] \in Offers /\ q[k] \in Offers  BY <1>1, <2>1
    <3>2. i \in Int /\ j \in Int /\ k \in Int  BY <1>1, <2>1, <3>1
    <3>3. Beats(q[j], q[i]) \/ (~Beats(q[i], q[j]) /\ j < i)  OBVIOUS
    <3>4. Beats(q[k], q[j]) \/ (~Beats(q[j], q[k]) /\ k < j)  BY <2>2
    <3>5. CASE Beats(q[j], q[i]) /\ Beats(q[k], q[j])
      <4>1. ~Beats(q[i], q[j])  BY <3>1, <3>5, BeatsOrder
      <4> QED  BY <3>1, <3>5, <4>1, BeatsOrder
    <3>6. CASE Beats(q[j], q[i]) /\ ~Beats(q[j], q[k])  BY <3>1, <3>6, BeatsOrder
    <3>7. CASE ~Beats(q[i], q[j]) /\ Beats(q[k], q[j])  BY <3>1, <3>7, BeatsOrder
    <3>8. CASE ~Beats(q[i], q[j]) /\ j < i /\ ~Beats(q[j], q[k]) /\ k < j
      <4>1. k < i  BY <3>2, <3>8
      <4>2. ~Beats(q[i], q[k])  BY <3>1, <3>8, BeatsOrder
      <4> QED  BY <3>1, <4>1, <4>2
    <3> QED  BY <3>3, <3>4, <3>5, <3>6, <3>7, <3>8
  <2>3. j \notin Before(j)
    <3>1. ~Beats(q[j], q[j]) /\ ~(j < j)  BY <1>1, <2>1, BeatsOrder
    <3> QED  BY <3>1
  <2> QED  BY <1>3, <1>4, <2>1, <2>2, <2>3
<1>6. Best(i)
  <2> SUFFICES ASSUME NEW j \in I
               PROVE  ~Beats(q[j], q[i]) /\ (j < i => Beats(q[i], q[j]))
    OBVIOUS
  <2>1. j \notin Before(i)  BY <1>5
  <2> QED  BY <2>1
<1>7. PICK m \in I : m = CHOOSE n \in I : Best(n)  BY <1>6, Zenon
<1>8. Best(m)  BY <1>6, <1>7, Zenon
<1>9. Pick(q) = q[m]  BY <1>7 DEF Pick, I
<1> QED  BY <1>8, <1>9 DEF Members, I

-----------------------------------------------------------------------------
(* Groups, winners and their order.                                        *)

\* What the filters leave.
LEMMA Filters ==
  ASSUME NEW q, IsList(q)
  PROVE  /\ \A g : /\ IsList(OfGroup(q, g))
                   /\ Members(OfGroup(q, g)) = {o \in Members(q) : Terms[o].group = g}
         /\ IsList(RestrictValues(q, IsExclusive))
         /\ Members(RestrictValues(q, IsExclusive)) = {o \in Members(q) : IsExclusive(o)}
<1>1. \A J \in SUBSET DOMAIN q : IsFiniteSet(J) /\ J \subseteq Int  BY FS_Subset DEF IsList
<1>2. ASSUME NEW g
      PROVE  /\ IsList(OfGroup(q, g))
             /\ Members(OfGroup(q, g)) = {o \in Members(q) : Terms[o].group = g}
  <2> DEFINE J == {i \in DOMAIN q : Terms[q[i]].group = g}
  <2>1. OfGroup(q, g) = [i \in J |-> q[i]]  BY DEF OfGroup, RestrictValues, Restrict
  <2>2. J \in SUBSET DOMAIN q  OBVIOUS
  <2>3. IsList(OfGroup(q, g))  BY <1>1, <2>1, <2>2 DEF IsList
  <2>4. Members(OfGroup(q, g)) = {q[i] : i \in J}  BY <2>1 DEF Members
  <2> QED  BY <2>3, <2>4 DEF Members
<1>3. /\ IsList(RestrictValues(q, IsExclusive))
      /\ Members(RestrictValues(q, IsExclusive)) = {o \in Members(q) : IsExclusive(o)}
  <2> DEFINE J == {i \in DOMAIN q : IsExclusive(q[i])}
  <2>1. RestrictValues(q, IsExclusive) = [i \in J |-> q[i]]
    BY DEF RestrictValues, Restrict, IsExclusive
  <2>2. J \in SUBSET DOMAIN q  OBVIOUS
  <2>3. IsList(RestrictValues(q, IsExclusive))  BY <1>1, <2>1, <2>2 DEF IsList
  <2>4. Members(RestrictValues(q, IsExclusive)) = {q[i] : i \in J}  BY <2>1 DEF Members
  <2> QED  BY <2>3, <2>4 DEF Members
<1> QED  BY <1>2, <1>3

\* One winner for each group, which nothing of its group beats.
LEMMA WinnersParts ==
  ASSUME NEW q, IsList(q)
  PROVE  /\ Winners(q) \subseteq Members(q) /\ Members(q) \subseteq Offers
         /\ IsFiniteSet(Winners(q))
         /\ \A a, b \in Winners(q) : Terms[a].group = Terms[b].group => a = b
         /\ \A o \in Members(q) : \E w \in Winners(q) : Terms[w].group = Terms[o].group
         /\ \A w \in Winners(q) : \A o \in Members(q) :
              Terms[o].group = Terms[w].group => ~Beats(o, w)
<1> DEFINE G == {Terms[o].group : o \in Members(q)}
<1>1. ASSUME NEW g \in G
      PROVE  LET w == Pick(OfGroup(q, g)) IN
             /\ w \in Members(q) /\ Terms[w].group = g
             /\ \A o \in Members(q) : Terms[o].group = g => ~Beats(o, w)
  <2>1. /\ IsList(OfGroup(q, g))
        /\ Members(OfGroup(q, g)) = {o \in Members(q) : Terms[o].group = g}
    BY Filters
  <2>2. Members(OfGroup(q, g)) # {}  BY <2>1
  <2> QED  BY <2>1, <2>2, PickIsBest
<1>2. Winners(q) = {Pick(OfGroup(q, g)) : g \in G}  BY DEF Winners
<1> HIDE DEF G
<1>3. ASSUME NEW w \in Winners(q)
      PROVE  /\ w \in Members(q) /\ Terms[w].group \in G /\ w = Pick(OfGroup(q, Terms[w].group))
             /\ \A o \in Members(q) : Terms[o].group = Terms[w].group => ~Beats(o, w)
  <2>1. PICK g \in G : w = Pick(OfGroup(q, g))  BY <1>2
  <2> QED  BY <1>1, <2>1
<1>4. Members(q) \subseteq Offers  BY DEF Members, IsList
<1>5. IsFiniteSet(Winners(q))
  <2>1. Winners(q) \in SUBSET Offers  BY <1>3, <1>4
  <2> QED  BY <2>1, PricingAssumption, FS_Subset
<1>6. ASSUME NEW o \in Members(q)
      PROVE  \E w \in Winners(q) : Terms[w].group = Terms[o].group
  <2>1. Terms[o].group \in G  BY DEF G
  <2> QED  BY <1>1, <1>2, <2>1
<1> QED  BY <1>3, <1>4, <1>5, <1>6

\* The winners in the order in which they are stacked.
LEMMA AheadOrder ==
  ASSUME NEW q, IsList(q)
  PROVE  /\ \A a \in Winners(q) : a \notin Ahead(q, a) /\ Ahead(q, a) \in SUBSET Winners(q)
         /\ \A a, b \in Winners(q) :
              /\ a # b => a \in Ahead(q, b) \/ b \in Ahead(q, a)
              /\ Beats(a, b) => a \in Ahead(q, b)
              /\ a \in Ahead(q, b) => ~Beats(b, a)
         /\ \A a, b, c \in Winners(q) : a \in Ahead(q, b) /\ b \in Ahead(q, c) => a \in Ahead(q, c)
<1> DEFINE first(a) == FirstOf(q, Terms[a].group)
<1>1. ASSUME NEW a \in Winners(q)
      PROVE  first(a) \in DOMAIN q /\ Terms[q[first(a)]].group = Terms[a].group
  <2> DEFINE I == {i \in DOMAIN q : Terms[q[i]].group = Terms[a].group}
             First(i) == /\ Terms[q[i]].group = Terms[a].group
                         /\ \A j \in DOMAIN q : Terms[q[j]].group = Terms[a].group => i <= j
  <2>1. IsFiniteSet(I) /\ I \subseteq Int  BY FS_Subset DEF IsList
  <2>2. I # {}
    <3>1. a \in Members(q)  BY WinnersParts
    <3> QED  BY <3>1 DEF Members
  <2>02. Positions(I)  BY <2>1, <2>2 DEF Positions
  <2>3. PICK m \in I : \A i \in I : m <= i
    <3> HIDE DEF I
    <3> QED  BY <2>02, FirstPosition
  <2>4. \E i \in DOMAIN q : First(i)  BY <2>3
  <2>5. PICK i \in DOMAIN q : i = CHOOSE n \in DOMAIN q : First(n)  BY <2>4, Zenon
  <2>6. First(i)  BY <2>4, <2>5, Zenon
  <2>7. first(a) = i  BY <2>5 DEF FirstOf
  <2> QED  BY <2>6, <2>7
<1>2. \A a, b \in Winners(q) : /\ first(a) \in Int
                               /\ a # b => first(a) # first(b)
  BY <1>1, WinnersParts DEF IsList
<1>3. \A a, b \in Winners(q) :
        a \in Ahead(q, b) <=> Beats(a, b) \/ (~Beats(b, a) /\ first(a) < first(b))
  BY DEF Ahead
<1>4. \A a \in Winners(q) : a \in Offers /\ Ahead(q, a) \in SUBSET Winners(q)
  BY WinnersParts DEF Ahead
<1> HIDE DEF first
<1>5. ASSUME NEW a \in Winners(q), NEW b \in Winners(q)
      PROVE  /\ a # b => a \in Ahead(q, b) \/ b \in Ahead(q, a)
             /\ Beats(a, b) => a \in Ahead(q, b)
             /\ a \in Ahead(q, b) => ~Beats(b, a)
  <2>1. Beats(a, b) => ~Beats(b, a)  BY <1>4, BeatsOrder
  <2> QED  BY <1>2, <1>3, <2>1
<1>6. ASSUME NEW a \in Winners(q)
      PROVE  a \notin Ahead(q, a)
  <2>1. ~Beats(a, a) /\ ~(first(a) < first(a))  BY <1>2, <1>4, BeatsOrder
  <2> QED  BY <1>3, <2>1
<1>7. ASSUME NEW a \in Winners(q), NEW b \in Winners(q), NEW c \in Winners(q),
             a \in Ahead(q, b), b \in Ahead(q, c)
      PROVE  a \in Ahead(q, c)
  <2>1. a \in Offers /\ b \in Offers /\ c \in Offers  BY <1>4
  <2>2. ~Beats(b, a) /\ ~Beats(c, b)  BY <1>5, <1>7
  <2>3. CASE Beats(a, b)  BY <1>3, <2>1, <2>2, <2>3, BeatsOrder
  <2>4. CASE Beats(b, c)  BY <1>3, <2>1, <2>2, <2>4, BeatsOrder
  <2>5. CASE ~Beats(a, b) /\ ~Beats(b, c)
    <3>1. first(a) < first(c)  BY <1>2, <1>3, <1>7, <2>5
    <3>2. ~Beats(c, a)
      <4>1. SUFFICES ASSUME Beats(c, a)
                     PROVE  FALSE
        OBVIOUS
      <4>2. Beats(c, b)  BY <2>1, <2>2, <2>5, <4>1, BeatsOrder
      <4> QED  BY <2>2, <4>2
    <3> QED  BY <1>3, <3>1, <3>2
  <2> QED  BY <2>3, <2>4, <2>5
<1> QED  BY <1>4, <1>5, <1>6, <1>7

-----------------------------------------------------------------------------
(* The stack.                                                              *)

\* ahead[o] is what comes before o in a strict total order of W.
Orders(ahead, W) ==
  /\ ahead \in [W -> SUBSET W]
  /\ \A a \in W : a \notin ahead[a]
  /\ \A a, b \in W : a # b => a \in ahead[b] \/ b \in ahead[a]
  /\ \A a, b, c \in W : a \in ahead[b] /\ b \in ahead[c] => a \in ahead[c]

\* Every rank is taken once.
LEMMA Ranks ==
  ASSUME NEW W, IsFiniteSet(W), NEW ahead, Orders(ahead, W)
  PROVE  /\ \A a \in W : Cardinality(ahead[a]) \in 0 .. Cardinality(W) - 1
         /\ \A a, b \in W : Cardinality(ahead[a]) = Cardinality(ahead[b]) => a = b
         /\ \A n \in 0 .. Cardinality(W) - 1 : \E a \in W : Cardinality(ahead[a]) = n
<1> DEFINE rank == [a \in W |-> Cardinality(ahead[a])]
           N == 0 .. Cardinality(W) - 1
<1>1. Cardinality(W) \in Nat  BY FS_CardinalityType
<1>2. ASSUME NEW S \in SUBSET W, NEW T \in SUBSET W, S \subseteq T, S # T
      PROVE  Cardinality(S) < Cardinality(T) /\ Cardinality(S) \in Nat /\ Cardinality(T) \in Nat
  <2>1. IsFiniteSet(S) /\ IsFiniteSet(T)  BY FS_Subset
  <2>2. S \in SUBSET T  BY <1>2
  <2>3. Cardinality(S) <= Cardinality(T) /\ Cardinality(S) # Cardinality(T)
    BY <1>2, <2>1, <2>2, FS_Subset
  <2>4. Cardinality(S) \in Nat /\ Cardinality(T) \in Nat  BY <2>1, FS_CardinalityType
  <2> QED  BY <2>3, <2>4
<1>3. \A a \in W : rank[a] \in N
  <2> SUFFICES ASSUME NEW a \in W
               PROVE  Cardinality(ahead[a]) \in N
    OBVIOUS
  <2>1. ahead[a] \in SUBSET W /\ ahead[a] # W  BY DEF Orders
  <2>2. Cardinality(ahead[a]) < Cardinality(W) /\ Cardinality(ahead[a]) \in Nat  BY <1>2, <2>1
  <2> QED  BY <1>1, <2>2
<1>4. \A a, b \in W : a \in ahead[b] => rank[a] < rank[b]
  <2> SUFFICES ASSUME NEW a \in W, NEW b \in W, a \in ahead[b]
               PROVE  Cardinality(ahead[a]) < Cardinality(ahead[b])
    OBVIOUS
  <2>1. ahead[a] \subseteq ahead[b] /\ ahead[a] # ahead[b]
        /\ ahead[a] \in SUBSET W /\ ahead[b] \in SUBSET W
    BY DEF Orders
  <2> QED  BY <1>2, <2>1
<1>5. \A a, b \in W : rank[a] = rank[b] => a = b
  <2> SUFFICES ASSUME NEW a \in W, NEW b \in W, rank[a] = rank[b], a # b
               PROVE  FALSE
    OBVIOUS
  <2>1. a \in ahead[b] \/ b \in ahead[a]  BY DEF Orders
  <2>2. rank[a] < rank[b] \/ rank[b] < rank[a]  BY <1>4, <2>1
  <2>3. rank[a] \in Int /\ rank[b] \in Int  BY <1>3
  <2> HIDE DEF rank
  <2> QED  BY <2>2, <2>3
<1>6. rank \in Injection(W, N)
  <2>1. rank \in [W -> N]  BY <1>3
  <2> HIDE DEF N
  <2> QED  BY <1>5, <2>1 DEF Injection, IsInjective
<1>7. IsFiniteSet(N) /\ Cardinality(N) = Cardinality(W)
  <2>1. IsFiniteSet(N) /\ Cardinality(N) = IF 0 > Cardinality(W) - 1 THEN 0 ELSE Cardinality(W) - 1 - 0 + 1
    BY <1>1, FS_Interval
  <2> QED  BY <1>1, <2>1
<1>8. rank \in Surjection(W, N)
  <2> HIDE DEF rank, N
  <2> QED  BY <1>6, <1>7, FS_Injection
<1>9. \A n \in N : \E a \in W : rank[a] = n
  <2> HIDE DEF N
  <2> QED  BY <1>8 DEF Surjection
<1> QED  BY <1>3, <1>5, <1>9

\* When each winner of one list has a partner in the other that it neither beats
\* nor is beaten by, one of a rank does not beat the one of the same rank there.
LEMMA RankedAlike ==
  ASSUME NEW V \in SUBSET Offers, NEW W \in SUBSET Offers,
         NEW before, NEW ahead, Orders(before, V), Orders(ahead, W),
         NEW partner \in [V -> W],
         \A v, w \in V : partner[v] = partner[w] => v = w,
         \A v \in V : ~Beats(v, partner[v]) /\ ~Beats(partner[v], v),
         \A v, w \in V : v \in before[w] => ~Beats(w, v),
         \A v, w \in W : Beats(v, w) => v \in ahead[w],
         NEW a \in V, NEW b \in W, Cardinality(before[a]) = Cardinality(ahead[b])
  PROVE  ~Beats(a, b)
<1> SUFFICES ASSUME Beats(a, b)
             PROVE  FALSE
  OBVIOUS
<1> DEFINE U == before[a] \cup {a}
<1>0. IsFiniteSet(V) /\ IsFiniteSet(W)  BY PricingAssumption, FS_Subset
<1>1. before[a] \in SUBSET V /\ a \notin before[a] /\ ahead[b] \in SUBSET W  BY DEF Orders
<1>2. IsFiniteSet(before[a]) /\ IsFiniteSet(ahead[b])  BY <1>0, <1>1, FS_Subset
<1>3. IsFiniteSet(U) /\ Cardinality(U) = Cardinality(before[a]) + 1
  BY <1>1, <1>2, FS_AddElement
<1>4. ASSUME NEW u \in U
      PROVE  partner[u] \in ahead[b]
  <2>1. u \in V /\ u \in Offers /\ a \in Offers /\ b \in Offers /\ partner[u] \in W /\ partner[u] \in Offers
    BY <1>1
  <2>2. ~Beats(a, u)
    <3>1. CASE u = a  BY <2>1, <3>1, BeatsOrder
    <3>2. CASE u \in before[a]  BY <2>1, <3>2
    <3> QED  BY <3>1, <3>2
  <2>3. Beats(u, b)  BY <2>1, <2>2, BeatsOrder
  <2>4. ~Beats(u, partner[u])  BY <2>1
  <2>5. Beats(partner[u], b)  BY <2>1, <2>3, <2>4, BeatsOrder
  <2> QED  BY <2>1, <2>5
<1> DEFINE part == [u \in U |-> partner[u]]
<1>5. part \in Injection(U, ahead[b])
  <2>1. part \in [U -> ahead[b]]  BY <1>4
  <2>2. \A u, w \in U : part[u] = part[w] => u = w  BY <1>1
  <2> HIDE DEF U, part
  <2> QED  BY <2>1, <2>2 DEF Injection, IsInjective
<1>6. Cardinality(U) <= Cardinality(ahead[b])
  <2> HIDE DEF U, part
  <2> QED  BY <1>2, <1>5, FS_Injection
<1>7. Cardinality(before[a]) \in Nat  BY <1>2, FS_CardinalityType
<1> QED  BY <1>3, <1>6, <1>7

LEMMA StackOrders ==
  ASSUME NEW q, IsList(q)
  PROVE  LET ahead == [o \in Winners(q) |-> Ahead(q, o)] IN
         /\ Orders(ahead, Winners(q))
         /\ \A v, w \in Winners(q) : v \in ahead[w] => ~Beats(w, v)
         /\ \A v, w \in Winners(q) : Beats(v, w) => v \in ahead[w]
         /\ \A o \in Winners(q) : ahead[o] = Ahead(q, o)
<1> DEFINE ahead == [o \in Winners(q) |-> Ahead(q, o)]
<1>1. \A o \in Winners(q) : ahead[o] = Ahead(q, o)  OBVIOUS
<1>2. ahead \in [Winners(q) -> SUBSET Winners(q)]  BY AheadOrder
<1> HIDE DEF ahead
<1>3. Orders(ahead, Winners(q))
  <2>1. \A a \in Winners(q) : a \notin ahead[a]  BY <1>1, AheadOrder
  <2>2. \A a, b \in Winners(q) : a # b => a \in ahead[b] \/ b \in ahead[a]  BY <1>1, AheadOrder
  <2>3. \A a, b, c \in Winners(q) : a \in ahead[b] /\ b \in ahead[c] => a \in ahead[c]
    BY <1>1, AheadOrder
  <2> QED  BY <1>2, <2>1, <2>2, <2>3 DEF Orders
<1>4. /\ \A v, w \in Winners(q) : v \in ahead[w] => ~Beats(w, v)
      /\ \A v, w \in Winners(q) : Beats(v, w) => v \in ahead[w]
  BY <1>1, AheadOrder
<1> QED  BY <1>1, <1>3, <1>4 DEF ahead

\* Winners of the same group have the same terms, as far as they matter.
LEMMA PartnersExist ==
  ASSUME NEW p, NEW q, IsList(p), IsList(q), Members(p) = Members(q), ~Tied(Members(q))
  PROVE  \E partner \in [Winners(p) -> Winners(q)] :
           /\ \A v, w \in Winners(p) : partner[v] = partner[w] => v = w
           /\ \A v \in Winners(p) : /\ ~Beats(v, partner[v]) /\ ~Beats(partner[v], v)
                                    /\ Terms[partner[v]].maxStack = Terms[v].maxStack
<1> DEFINE Twin(v, w) == w \in Winners(q) /\ Terms[w].group = Terms[v].group
           partner == [v \in Winners(p) |-> CHOOSE w : Twin(v, w)]
<1>1. ASSUME NEW v \in Winners(p)
      PROVE  Twin(v, partner[v])
  <2>1. v \in Members(q)  BY WinnersParts
  <2>2. \E w : Twin(v, w)  BY <2>1, WinnersParts
  <2>3. Twin(v, CHOOSE w : Twin(v, w))  BY <2>2, Zenon
  <2> QED  BY <2>3
<1>2. partner \in [Winners(p) -> Winners(q)]  BY <1>1
<1> HIDE DEF partner
<1>3. \A v, w \in Winners(p) : partner[v] = partner[w] => v = w
  BY <1>1, WinnersParts
<1>4. ASSUME NEW v \in Winners(p)
      PROVE  /\ ~Beats(v, partner[v]) /\ ~Beats(partner[v], v)
             /\ Terms[partner[v]].maxStack = Terms[v].maxStack
  <2>1. v \in Members(q) /\ partner[v] \in Members(q) /\ v \in Members(p) /\ partner[v] \in Members(p)
    BY <1>1, WinnersParts
  <2>2. ~Beats(v, partner[v])  BY <1>1, <2>1, WinnersParts
  <2>3. ~Beats(partner[v], v)  BY <1>1, <2>1, WinnersParts
  <2>4. Terms[partner[v]].group = Terms[v].group  BY <1>1
  <2> QED  BY <2>1, <2>2, <2>3, <2>4 DEF Tied
<1> QED  BY <1>2, <1>3, <1>4

\* Of two lists of the same offers, the winners of the same rank grant the same.
LEMMA SameRank ==
  ASSUME NEW p, NEW q, IsList(p), IsList(q), Members(p) = Members(q), ~Tied(Members(q))
  PROVE  /\ \A a \in Winners(p) : \E b \in Winners(q) :
              Cardinality(Ahead(q, b)) = Cardinality(Ahead(p, a))
         /\ \A a \in Winners(p), b \in Winners(q) :
              Cardinality(Ahead(q, b)) = Cardinality(Ahead(p, a)) =>
                /\ Terms[a].discount = Terms[b].discount
                /\ a \in Stacked(p) => b \in Stacked(q)
<1> DEFINE V == Winners(p)
           W == Winners(q)
           before == [o \in V |-> Ahead(p, o)]
           ahead == [o \in W |-> Ahead(q, o)]
<1>1. /\ Orders(before, V)
      /\ \A v, w \in V : v \in before[w] => ~Beats(w, v)
      /\ \A v, w \in V : Beats(v, w) => v \in before[w]
      /\ \A o \in V : before[o] = Ahead(p, o)
  BY StackOrders
<1>2. /\ Orders(ahead, W)
      /\ \A v, w \in W : v \in ahead[w] => ~Beats(w, v)
      /\ \A v, w \in W : Beats(v, w) => v \in ahead[w]
      /\ \A o \in W : ahead[o] = Ahead(q, o)
  BY StackOrders
<1>3. PICK partner \in [V -> W] :
        /\ \A v, w \in V : partner[v] = partner[w] => v = w
        /\ \A v \in V : ~Beats(v, partner[v]) /\ ~Beats(partner[v], v)
  BY PartnersExist
<1>4. PICK back \in [W -> V] :
        /\ \A v, w \in W : back[v] = back[w] => v = w
        /\ \A v \in W : /\ ~Beats(v, back[v]) /\ ~Beats(back[v], v)
                        /\ Terms[back[v]].maxStack = Terms[v].maxStack
  BY PartnersExist
<1>5. V \in SUBSET Offers /\ W \in SUBSET Offers /\ IsFiniteSet(V) /\ IsFiniteSet(W)
  BY WinnersParts
<1>6. Stacked(p) = {o \in V : \A w \in V : Cardinality(before[o]) < Terms[w].maxStack}
  BY <1>1 DEF Stacked
<1>7. Stacked(q) = {o \in W : \A w \in W : Cardinality(ahead[o]) < Terms[w].maxStack}
  BY <1>2 DEF Stacked
<1> HIDE DEF V, W, before, ahead
<1>8. Cardinality(V) = Cardinality(W)
  <2>1. partner \in Injection(V, W)  BY <1>3 DEF Injection, IsInjective
  <2>2. back \in Injection(W, V)  BY <1>4 DEF Injection, IsInjective
  <2>3. Cardinality(V) <= Cardinality(W)  BY <1>5, <2>1, FS_Injection
  <2>4. Cardinality(W) <= Cardinality(V)  BY <1>5, <2>2, FS_Injection
  <2>5. Cardinality(V) \in Nat /\ Cardinality(W) \in Nat  BY <1>5, FS_CardinalityType
  <2> QED  BY <2>3, <2>4, <2>5
<1>9. \A a \in V : \E b \in W : Cardinality(ahead[b]) = Cardinality(before[a])
  <2>1. \A a \in V : Cardinality(before[a]) \in 0 .. Cardinality(V) - 1  BY <1>1, <1>5, Ranks
  <2>2. \A n \in 0 .. Cardinality(W) - 1 : \E b \in W : Cardinality(ahead[b]) = n
    BY <1>2, <1>5, Ranks
  <2> QED  BY <1>8, <2>1, <2>2
<1>10. ASSUME NEW a \in V, NEW b \in W, Cardinality(ahead[b]) = Cardinality(before[a])
       PROVE  /\ Terms[a].discount = Terms[b].discount
              /\ a \in Stacked(p) => b \in Stacked(q)
  <2>1. ~Beats(a, b)  BY <1>1, <1>2, <1>3, <1>5, <1>10, RankedAlike
  <2>2. ~Beats(b, a)  BY <1>1, <1>2, <1>4, <1>5, <1>10, RankedAlike
  <2>3. Terms[a].discount = Terms[b].discount  BY <1>5, <2>1, <2>2, BeatsOrder
  <2>4. ASSUME a \in Stacked(p)
        PROVE  b \in Stacked(q)
    <3>1. \A w \in V : Cardinality(before[a]) < Terms[w].maxStack  BY <1>6, <2>4
    <3>2. \A w \in W : Cardinality(ahead[b]) < Terms[w].maxStack  BY <1>4, <1>10, <3>1
    <3> QED  BY <1>7, <3>2
  <2> QED  BY <2>3, <2>4
<1>11. /\ \A a \in V : before[a] = Ahead(p, a)
       /\ \A b \in W : ahead[b] = Ahead(q, b)
       /\ V = Winners(p) /\ W = Winners(q)
  BY <1>1, <1>2 DEF V, W
<1> QED  BY <1>9, <1>10, <1>11

\* Which of equal offers is met first changes the stack, but not what it grants.
LEMMA SameStackDiscount ==
  ASSUME NEW p, NEW q, IsList(p), IsList(q), Members(p) = Members(q), ~Tied(Members(q))
  PROVE  Discount(Stacked(p)) = Discount(Stacked(q))
<1> DEFINE Fits(a, b) == Cardinality(Ahead(q, b)) = Cardinality(Ahead(p, a))
           A == Stacked(p)
           B == Stacked(q)
           match == [a \in A |-> CHOOSE b \in Winners(q) : Fits(a, b)]
<1>1. /\ \A a \in Winners(p) : \E b \in Winners(q) : Fits(a, b)
      /\ \A a \in Winners(p), b \in Winners(q) :
           Fits(a, b) => Terms[a].discount = Terms[b].discount /\ (a \in A => b \in B)
  BY SameRank
<1>2. /\ \A b \in Winners(q) : \E a \in Winners(p) : Fits(a, b)
      /\ \A b \in Winners(q), a \in Winners(p) : Fits(a, b) => (b \in B => a \in A)
  <2>1. \A b \in Winners(q) : \E a \in Winners(p) : Cardinality(Ahead(p, a)) = Cardinality(Ahead(q, b))
    BY SameRank
  <2>2. \A b \in Winners(q), a \in Winners(p) :
          Cardinality(Ahead(p, a)) = Cardinality(Ahead(q, b)) => (b \in B => a \in A)
    BY SameRank
  <2> QED  BY <2>1, <2>2
<1>3. /\ \A a, b \in Winners(p) : Cardinality(Ahead(p, a)) = Cardinality(Ahead(p, b)) => a = b
      /\ \A a, b \in Winners(q) : Cardinality(Ahead(q, a)) = Cardinality(Ahead(q, b)) => a = b
  <2>1. ASSUME NEW l, IsList(l)
        PROVE  \A a, b \in Winners(l) : Cardinality(Ahead(l, a)) = Cardinality(Ahead(l, b)) => a = b
    <3> DEFINE ahead == [o \in Winners(l) |-> Ahead(l, o)]
    <3>1. Orders(ahead, Winners(l)) /\ \A o \in Winners(l) : ahead[o] = Ahead(l, o)
      BY <2>1, StackOrders
    <3>2. IsFiniteSet(Winners(l))  BY <2>1, WinnersParts
    <3> HIDE DEF ahead
    <3>3. \A a, b \in Winners(l) : Cardinality(ahead[a]) = Cardinality(ahead[b]) => a = b
      BY <3>1, <3>2, Ranks
    <3> QED  BY <3>1, <3>3
  <2> QED  BY <2>1
<1>4. A \subseteq Winners(p) /\ B \subseteq Winners(q)  BY DEF Stacked
<1>5. A \in SUBSET Offers /\ B \in SUBSET Offers  BY <1>4, WinnersParts
<1> HIDE DEF A, B
<1>6. ASSUME NEW a \in A
      PROVE  match[a] \in Winners(q) /\ Fits(a, match[a]) /\ match[a] \in B
  <2>1. \E b \in Winners(q) : Fits(a, b)  BY <1>1, <1>4
  <2>2. (CHOOSE b \in Winners(q) : Fits(a, b)) \in Winners(q) /\ Fits(a, CHOOSE b \in Winners(q) : Fits(a, b))
    BY <2>1, Zenon
  <2>3. match[a] \in Winners(q) /\ Fits(a, match[a])  BY <2>2
  <2> QED  BY <1>1, <1>4, <2>3
<1> HIDE DEF match
<1>7. match \in [A -> B]
  <2>1. match = [a \in A |-> match[a]]  BY DEF match
  <2> QED  BY <1>6, <2>1
<1>8. \A a, b \in A : match[a] = match[b] => a = b  BY <1>3, <1>4, <1>6
<1>9. ASSUME NEW b \in B
      PROVE  \E a \in A : match[a] = b
  <2>1. PICK a \in Winners(p) : Fits(a, b)  BY <1>2, <1>4
  <2>2. a \in A  BY <1>2, <1>4, <2>1
  <2>3. match[a] = b  BY <1>3, <1>4, <1>6, <2>1, <2>2
  <2> QED  BY <2>2, <2>3
<1>10. match \in Bijection(A, B)
  BY <1>7, <1>8, <1>9 DEF Bijection, Injection, Surjection, IsInjective
<1>11. \A a \in A : Percent[match[a]] = Percent[a]
  BY <1>1, <1>4, <1>5, <1>6 DEF Percent
<1>12. Counted(Percent, A) = Counted(Percent, B)
  BY <1>5, <1>10, <1>11, PricingAssumption, PercentType, SameSum
<1> QED  BY <1>5, <1>12, DiscountCounts DEF A, B

LEMMA DiscountOfOne ==
  ASSUME NEW o \in Offers
  PROVE  Discount({o}) = Terms[o].discount
<1>1. Percent \in [Offers -> Int] /\ Percent[o] = Terms[o].discount  BY PercentType DEF Percent
<1>2. {o} \in SUBSET Offers /\ {o} \ {o} = {}  OBVIOUS
<1>3. /\ Counted(Percent, {}) = 0
      /\ Counted(Percent, {o}) = Percent[o] + Counted(Percent, {o} \ {o})
  BY <1>1, <1>2, PricingAssumption, CountedSum
<1>4. Counted(Percent, {o}) = Percent[o]  BY <1>1, <1>2, <1>3
<1> QED  BY <1>1, <1>2, <1>4, DiscountCounts

\* resolve applies offers of the list.
LEMMA ResolveParts ==
  ASSUME NEW q, IsList(q)
  PROVE  Resolve(q) \in SUBSET Offers
<1>1. CASE Members(q) = {}  BY <1>1 DEF Resolve
<1>2. CASE Members(q) # {} /\ \E o \in Members(q) : IsExclusive(o)
  <2>1. Pick(RestrictValues(q, IsExclusive)) \in Members(q)
    <3>1. /\ IsList(RestrictValues(q, IsExclusive))
          /\ Members(RestrictValues(q, IsExclusive)) = {o \in Members(q) : IsExclusive(o)}
      BY Filters
    <3> QED  BY <1>2, <3>1, PickIsBest
  <2>2. Resolve(q) = {Pick(RestrictValues(q, IsExclusive))}  BY <1>2 DEF Resolve
  <2> QED  BY <2>1, <2>2 DEF Members, IsList
<1>3. CASE Members(q) # {} /\ ~\E o \in Members(q) : IsExclusive(o)
  <2>1. Resolve(q) = Stacked(q)  BY <1>3 DEF Resolve
  <2>2. Stacked(q) \subseteq Winners(q)  BY DEF Stacked
  <2> QED  BY <2>1, <2>2, WinnersParts
<1> QED  BY <1>1, <1>2, <1>3

\* The same offers, in whatever order, grant the same discount, unless two equal
\* ones of a group stack differently (offer-stack-resolver.service.ts; Tied).
THEOREM SameDiscount ==
  ASSUME NEW p, NEW q, IsList(p), IsList(q), Members(p) = Members(q), ~Tied(Members(q))
  PROVE  Discount(Resolve(p)) = Discount(Resolve(q))
<1>1. CASE Members(q) = {}  BY <1>1 DEF Resolve
<1>2. CASE Members(q) # {} /\ \E o \in Members(q) : IsExclusive(o)
  <2> DEFINE a == Pick(RestrictValues(p, IsExclusive))
             b == Pick(RestrictValues(q, IsExclusive))
             X == {o \in Members(q) : IsExclusive(o)}
  <2>1. Resolve(p) = {a} /\ Resolve(q) = {b}  BY <1>2 DEF Resolve
  <2>2. X # {}  BY <1>2
  <2>3. a \in X /\ \A o \in X : ~Beats(o, a)
    <3>1. IsList(RestrictValues(p, IsExclusive)) /\ Members(RestrictValues(p, IsExclusive)) = X
      BY Filters
    <3> HIDE DEF X
    <3> QED  BY <2>2, <3>1, PickIsBest
  <2>4. b \in X /\ \A o \in X : ~Beats(o, b)
    <3>1. IsList(RestrictValues(q, IsExclusive)) /\ Members(RestrictValues(q, IsExclusive)) = X
      BY Filters
    <3> HIDE DEF X
    <3> QED  BY <2>2, <3>1, PickIsBest
  <2>5. X \subseteq Offers  BY DEF Members, IsList
  <2> HIDE DEF a, b, X
  <2>6. Terms[a].discount = Terms[b].discount  BY <2>3, <2>4, <2>5, BeatsOrder
  <2> QED  BY <2>1, <2>3, <2>4, <2>5, <2>6, DiscountOfOne
<1>3. CASE Members(q) # {} /\ ~\E o \in Members(q) : IsExclusive(o)
  <2>1. Resolve(p) = Stacked(p) /\ Resolve(q) = Stacked(q)  BY <1>3 DEF Resolve
  <2> QED  BY <2>1, SameStackDiscount
<1> QED  BY <1>1, <1>2, <1>3

LEMMA Pairs ==
  ASSUME NEW x, NEW S
  PROVE  {x} \X S = {<<x, s>> : s \in S}
<1>1. ASSUME NEW k \in {x} \X S
      PROVE  k[2] \in S /\ k = <<x, k[2]>>
  OBVIOUS
<1>2. ASSUME NEW s \in S
      PROVE  <<x, s>> \in {x} \X S
  OBVIOUS
<1> QED  BY <1>1, <1>2

-----------------------------------------------------------------------------
(* What is read.                                                           *)

BeforePrices == {<<"idle", "idle">>, <<"look up", "prices">>, <<"fetch", "prices">>}

BeforeLists ==
  BeforePrices \cup {<<"save", "prices">>, <<"look up", "lists">>, <<"fetch", "lists">>}

ReadTypes ==
  /\ price \in [Skus -> Nat]
  /\ \A k \in Keys : cached[k] \in Values(k) \cup {Nothing}
  /\ \A r \in Readers : \A k \in Keys : got[r][k] \in Values(k) \cup {Nothing}
  /\ unsaved \in [Readers -> SUBSET Keys]
  /\ ran \subseteq Offers

\* What a request can rely on where it stands.
Found(r) ==
  /\ pc[r] # <<"idle", "idle">> => job[r].lines # <<>>
  /\ pc[r] \notin BeforePrices => \A s \in SkusOf(job[r].lines) : UnitPrice(r, s) \in Nat
  /\ pc[r] \notin BeforeLists => \A s \in SkusOf(job[r].lines) : got[r][List(s)] \in Seq(Offers)

ReadsInv == ReadTypes /\ \A r \in Readers : Found(r)

PriceOf(s) == <<"price", s>>

LEMMA KeyKinds ==
  ASSUME NEW r
  PROVE
  /\ \A s \in Skus : PriceOf(s) \in Keys /\ Values(PriceOf(s)) = Nat /\ Stored(r, PriceOf(s)) = {price[s]}
  /\ \A s \in Skus : /\ List(s) \in Keys
                     /\ Values(List(s)) = Seq(Offers)
                     /\ Stored(r, List(s)) = InAnyOrder(ApplicableTo(r, s))
  /\ \A k \in OfferKeys : k \in Keys /\ Values(k) = {Terms[k[2]]} /\ Stored(r, k) \subseteq {Terms[k[2]], Nothing}
  /\ \A k \in Keys : \/ k \in OfferKeys
                     \/ \E s \in Skus : k = PriceOf(s) \/ k = List(s)
<1>1. ASSUME NEW s \in Skus
      PROVE  PriceOf(s) \in Keys /\ Values(PriceOf(s)) = Nat /\ Stored(r, PriceOf(s)) = {price[s]}
  <2> DEFINE k == PriceOf(s)
  <2>1. k \in PriceKeys /\ k \notin ListKeys /\ k \notin OfferKeys /\ k[2] = s
    BY DEF PriceOf, PriceKeys, ListKeys, OfferKeys
  <2> HIDE DEF k
  <2>2. Values(k) = Nat  BY <2>1, Zenon DEF Values
  <2>3. Stored(r, k) = {price[k[2]]}  BY <2>1, Zenon DEF Stored
  <2>4. k \in Keys  BY <2>1 DEF Keys
  <2> QED  BY <2>1, <2>2, <2>3, <2>4 DEF k
<1>2. ASSUME NEW s \in Skus
      PROVE  /\ List(s) \in Keys
             /\ Values(List(s)) = Seq(Offers)
             /\ Stored(r, List(s)) = InAnyOrder(ApplicableTo(r, s))
  <2> DEFINE k == List(s)
  <2>1. k \in ListKeys /\ k \notin PriceKeys /\ k \notin OfferKeys /\ k[2] = s
    BY DEF List, PriceKeys, ListKeys, OfferKeys
  <2> HIDE DEF k
  <2>2. Values(k) = Seq(Offers)  BY <2>1, Zenon DEF Values
  <2>3. Stored(r, k) = InAnyOrder(ApplicableTo(r, k[2]))  BY <2>1, Zenon DEF Stored
  <2>4. k \in Keys  BY <2>1 DEF Keys
  <2>5. Stored(r, k) = InAnyOrder(ApplicableTo(r, s))  BY <2>1, <2>3
  <2> QED  BY <2>2, <2>4, <2>5 DEF k
<1>3. ASSUME NEW k \in OfferKeys
      PROVE  k \in Keys /\ Values(k) = {Terms[k[2]]} /\ Stored(r, k) \subseteq {Terms[k[2]], Nothing}
  <2>1. k \notin PriceKeys /\ k \notin ListKeys  BY DEF PriceKeys, ListKeys, OfferKeys
  <2>2. Values(k) = {Terms[k[2]]}  BY <2>1, Zenon DEF Values
  <2>3. Stored(r, k) = IF offer[k[2]].state = "deleted" THEN {Nothing} ELSE {Terms[k[2]]}
    BY <2>1, Zenon DEF Stored
  <2>4. k \in Keys  BY DEF Keys
  <2> QED  BY <2>2, <2>3, <2>4
<1>4. ASSUME NEW k \in Keys, k \notin OfferKeys
      PROVE  \E s \in Skus : k = PriceOf(s) \/ k = List(s)
  <2>1. k \in PriceKeys \/ k \in ListKeys  BY <1>4 DEF Keys
  <2>2. /\ PriceKeys = {PriceOf(s) : s \in Skus}
        /\ ListKeys = {List(s) : s \in Skus}
    BY Pairs DEF PriceKeys, ListKeys, PriceOf, List
  <2> HIDE DEF PriceOf
  <2> QED  BY <2>1, <2>2
<1> QED  BY <1>1, <1>2, <1>3, <1>4

LEMMA RowsInOrder ==
  ASSUME NEW S \in SUBSET Offers
  PROVE  InAnyOrder(S) \subseteq Seq(Offers)
<1>1. IsFiniteSet(S)  BY PricingAssumption, FS_Subset
<1>2. Cardinality(S) \in Nat  BY <1>1, FS_CardinalityType
<1> SUFFICES ASSUME NEW q \in [1 .. Cardinality(S) -> S]
             PROVE  q \in Seq(Offers)
  BY DEF InAnyOrder
<1>3. q \in [1 .. Cardinality(S) -> Offers]  OBVIOUS
<1> QED  BY <1>2, <1>3, SeqDef

\* The database answers a key with what may be read for it, or with no row.
LEMMA StoredType ==
  ASSUME price \in [Skus -> Nat], NEW r, NEW k \in Keys
  PROVE  /\ Stored(r, k) \subseteq Values(k) \cup {Nothing}
         /\ k \notin OfferKeys => Stored(r, k) \subseteq Values(k)
<1>1. CASE k \in OfferKeys
  <2>1. Values(k) = {Terms[k[2]]} /\ Stored(r, k) \subseteq {Terms[k[2]], Nothing}  BY <1>1, KeyKinds
  <2> QED  BY <1>1, <2>1
<1>2. ASSUME NEW s \in Skus, k = PriceOf(s)
      PROVE  Stored(r, k) \subseteq Values(k)
  <2>1. Values(k) = Nat /\ Stored(r, k) = {price[s]}  BY <1>2, KeyKinds
  <2> QED  BY <2>1
<1>3. ASSUME NEW s \in Skus, k = List(s)
      PROVE  Stored(r, k) \subseteq Values(k)
  <2>1. Values(k) = Seq(Offers) /\ Stored(r, k) = InAnyOrder(ApplicableTo(r, s))
    BY <1>3, KeyKinds
  <2>2. ApplicableTo(r, s) \in SUBSET Offers  BY DEF ApplicableTo
  <2> QED  BY <2>1, <2>2, RowsInOrder
<1> QED  BY <1>1, <1>2, <1>3, KeyKinds

\* What each stage asks for.
LEMMA WantedKeys ==
  ASSUME NEW r \in Readers, job[r] \in Job
  PROVE  /\ SkusOf(job[r].lines) \subseteq Skus
         /\ Wanted(r, "prices") = {PriceOf(s) : s \in SkusOf(job[r].lines)}
         /\ Wanted(r, "lists") = {List(s) : s \in SkusOf(job[r].lines)}
         /\ Wanted(r, "prices") \cup Wanted(r, "lists") \subseteq Keys \ OfferKeys
         /\ \A s : PriceOf(s) \notin Wanted(r, "lists") \cup Wanted(r, "offers")
         /\ \A s : List(s) \notin Wanted(r, "prices") \cup Wanted(r, "offers")
         /\ (\A s \in SkusOf(job[r].lines) : got[r][List(s)] \in Seq(Offers)) =>
              Wanted(r, "offers") \subseteq OfferKeys
<1> DEFINE S == SkusOf(job[r].lines)
<1>1. S \subseteq Skus  BY JobSkus
<1>2. /\ Wanted(r, "prices") = {"price"} \X S
      /\ Wanted(r, "lists") = {"offers of"} \X S
      /\ Wanted(r, "offers") = {"offer"} \X UNION {Members(got[r][List(s)]) : s \in S}
  BY DEF Wanted, List
<1> HIDE DEF S
<1>3. Wanted(r, "prices") = {PriceOf(s) : s \in S} /\ Wanted(r, "lists") = {List(s) : s \in S}
  BY <1>2, Pairs DEF PriceOf, List
<1>4. /\ \A s : PriceOf(s) \notin Wanted(r, "lists") \cup Wanted(r, "offers")
      /\ \A s : List(s) \notin Wanted(r, "prices") \cup Wanted(r, "offers")
  BY <1>2 DEF PriceOf, List
<1>5. ASSUME \A s \in S : got[r][List(s)] \in Seq(Offers)
      PROVE  Wanted(r, "offers") \subseteq OfferKeys
  <2>1. \A s \in S : Members(got[r][List(s)]) \subseteq Offers  BY <1>5 DEF Members
  <2> DEFINE A == UNION {Members(got[r][List(s)]) : s \in S}
  <2>2. A \subseteq Offers  BY <2>1
  <2>3. Wanted(r, "offers") = {"offer"} \X A  BY <1>2
  <2> HIDE DEF A
  <2> QED  BY <2>2, <2>3 DEF OfferKeys
<1>6. \A s : PriceOf(s) \notin OfferKeys /\ List(s) \notin OfferKeys
  BY DEF PriceOf, List, OfferKeys
<1>7. \A s \in S : PriceOf(s) \in Keys /\ List(s) \in Keys  BY <1>1, KeyKinds
<1> QED  BY <1>1, <1>3, <1>4, <1>5, <1>6, <1>7 DEF S

\* Where a request stands, and what it has read by then.
LEMMA Milestones ==
  /\ \A stage \in Stages : <<"save", stage>> \notin BeforePrices
                           /\ (stage # "prices" => <<"save", stage>> \notin BeforeLists)
                           /\ (stage = "offers" => <<"look up", stage>> \notin BeforeLists
                                                   /\ <<"fetch", stage>> \notin BeforeLists)
                           /\ (stage = "lists" => <<"look up", stage>> \notin BeforePrices
                                                   /\ <<"fetch", stage>> \notin BeforePrices)
                           /\ <<"look up", stage>> # <<"idle", "idle">>
                           /\ <<"fetch", stage>> # <<"idle", "idle">>
                           /\ <<"save", stage>> # <<"idle", "idle">>
  /\ <<"fetch", "prices">> \in BeforePrices
  /\ {<<"fetch", "prices">>, <<"save", "prices">>, <<"fetch", "lists">>, After("prices")} \subseteq BeforeLists
<1>1. \A x, y, u, v : <<x, y>> = <<u, v>> => x = u /\ y = v  OBVIOUS
<1>2. After("prices") = <<"look up", "lists">>  BY DEF After
<1> QED  BY <1>1, <1>2 DEF BeforeLists, BeforePrices, Stages

LEMMA AllRead ==
  ASSUME NEW p, p[1] \in {"build", "order", "done"}
  PROVE  p \notin BeforeLists
<1>1. /\ <<"idle", "idle">>[1] = "idle"
      /\ <<"look up", "prices">>[1] = "look up" /\ <<"fetch", "prices">>[1] = "fetch"
      /\ <<"save", "prices">>[1] = "save"
      /\ <<"look up", "lists">>[1] = "look up" /\ <<"fetch", "lists">>[1] = "fetch"
  OBVIOUS
<1> QED  BY <1>1 DEF BeforeLists, BeforePrices

\* What a request has after looking up or fetching.
Reads(r, stage) ==
  /\ \A q \in Readers : q # r => got'[q] = got[q] /\ pc'[q] = pc[q]
  /\ \A k \in Keys : got'[r][k] \in Values(k) \cup {Nothing}
  /\ \A k \in Keys : k \notin Wanted(r, stage) => got'[r][k] = got[r][k]
  /\ \A k \in Wanted(r, stage) :
       k \in Keys \ OfferKeys => pc'[r] = <<"fetch", stage>> \/ got'[r][k] \in Values(k)
  /\ pc'[r] \in {After(stage), <<"fetch", stage>>, <<"save", stage>>}

LEMMA LookUpReads ==
  ASSUME Shape, ReadTypes, NEW r \in Readers, NEW stage \in Stages, LookUp(r, stage)
  PROVE  Reads(r, stage)
<1> DEFINE W == Wanted(r, stage)
<1>1. /\ got'[r] = [k \in Keys |-> IF k \in W THEN cached[k] ELSE got[r][k]]
      /\ \A q \in Readers : q # r => got'[q] = got[q] /\ pc'[q] = pc[q]
  BY DEF LookUp, Shape
<1>2. pc'[r] = IF \A k \in W : cached[k] # Nothing THEN After(stage) ELSE <<"fetch", stage>>
  BY DEF LookUp, Shape
<1> HIDE DEF W
<1>3. \A k \in Keys : /\ cached[k] \in Values(k) \cup {Nothing}
                      /\ got[r][k] \in Values(k) \cup {Nothing}
  BY DEF ReadTypes
<1>4. \A k \in Keys : got'[r][k] = IF k \in W THEN cached[k] ELSE got[r][k]  BY <1>1
<1>5. \A k \in W : k \in Keys \ OfferKeys => pc'[r] = <<"fetch", stage>> \/ got'[r][k] \in Values(k)
  BY <1>2, <1>3, <1>4
<1> QED  BY <1>1, <1>2, <1>3, <1>4, <1>5 DEF Reads, W

LEMMA FetchReads ==
  ASSUME Shape, ReadTypes, NEW r \in Readers, NEW stage \in Stages, Fetch(r, stage)
  PROVE  /\ Reads(r, stage)
         /\ \E S \in SUBSET Wanted(r, stage) : unsaved' = [unsaved EXCEPT ![r] = S]
<1> DEFINE W == Wanted(r, stage)
           M == {k \in W : got[r][k] = Nothing}
<1>1. PICK followed \in SUBSET {k \in M : cached[k] # Nothing} :
        \E found \in {f \in [M \ followed -> UNION {Stored(r, k) : k \in M \ followed}] :
                        \A k \in M \ followed : f[k] \in Stored(r, k)} :
          /\ got' = [got EXCEPT ![r] =
               [k \in Keys |-> IF k \in followed THEN cached[k]
                               ELSE IF k \in M THEN found[k] ELSE @[k]]]
          /\ unsaved' = [unsaved EXCEPT ![r] = {k \in M \ followed : found[k] # Nothing}]
  BY Zenon DEF Fetch
<1>2. PICK found :
        /\ \A k \in M \ followed : found[k] \in Stored(r, k)
        /\ got' = [got EXCEPT ![r] =
             [k \in Keys |-> IF k \in followed THEN cached[k]
                             ELSE IF k \in M THEN found[k] ELSE @[k]]]
        /\ unsaved' = [unsaved EXCEPT ![r] = {k \in M \ followed : found[k] # Nothing}]
  BY <1>1
<1>3. pc' = [pc EXCEPT ![r] = <<"save", stage>>]  BY DEF Fetch
<1>4. /\ M \subseteq W
      /\ \A k \in W : k \in M <=> got[r][k] = Nothing
      /\ \A k \in followed : k \in M /\ cached[k] # Nothing
  OBVIOUS
<1>5. \E S \in SUBSET W : unsaved' = [unsaved EXCEPT ![r] = S]
  <2>1. {k \in M \ followed : found[k] # Nothing} \in SUBSET W  BY <1>4
  <2> QED  BY <1>2, <2>1
<1> HIDE DEF M
<1>6. \A k \in Keys : got'[r][k] = IF k \in followed THEN cached[k]
                                   ELSE IF k \in M THEN found[k] ELSE got[r][k]
  BY <1>2 DEF Shape
<1>7. \A q \in Readers : q # r => got'[q] = got[q] /\ pc'[q] = pc[q]
  BY <1>2, <1>3 DEF Shape
<1>8. pc'[r] = <<"save", stage>>  BY <1>3 DEF Shape
<1>9. \A k \in Keys : /\ cached[k] \in Values(k) \cup {Nothing}
                      /\ got[r][k] \in Values(k) \cup {Nothing}
                      /\ Stored(r, k) \subseteq Values(k) \cup {Nothing}
                      /\ k \notin OfferKeys => Stored(r, k) \subseteq Values(k)
  BY StoredType DEF ReadTypes
<1> HIDE DEF W
<1>10. \A k \in Keys : k \notin W => got'[r][k] = got[r][k]  BY <1>4, <1>6
<1>11. \A k \in Keys : got'[r][k] \in Values(k) \cup {Nothing}
  <2> SUFFICES ASSUME NEW k \in Keys
               PROVE  got'[r][k] \in Values(k) \cup {Nothing}
    OBVIOUS
  <2>1. k \in M \ followed => found[k] \in Values(k) \cup {Nothing}  BY <1>2, <1>9
  <2> QED  BY <1>6, <1>9, <2>1
<1>12. \A k \in W : k \in Keys \ OfferKeys => got'[r][k] \in Values(k)
  <2> SUFFICES ASSUME NEW k \in W, k \in Keys \ OfferKeys
               PROVE  got'[r][k] \in Values(k)
    OBVIOUS
  <2>1. CASE k \in followed
    <3>1. got'[r][k] = cached[k] /\ cached[k] # Nothing  BY <1>4, <1>6, <2>1
    <3> QED  BY <1>9, <3>1
  <2>2. CASE k \in M \ followed
    <3>1. got'[r][k] = found[k] /\ found[k] \in Stored(r, k)  BY <1>2, <1>6, <2>2
    <3> QED  BY <1>9, <3>1
  <2>3. CASE k \notin M
    <3>1. got'[r][k] = got[r][k] /\ got[r][k] # Nothing  BY <1>4, <1>6, <2>3
    <3> QED  BY <1>9, <3>1
  <2> QED  BY <2>1, <2>2, <2>3
<1> QED  BY <1>5, <1>7, <1>8, <1>10, <1>11, <1>12 DEF Reads, W

\* Its milestone is kept.
LEMMA ReadsFound ==
  ASSUME NEW r \in Readers, NEW stage \in Stages, job[r] \in Job, job'[r] = job[r], Found(r),
         pc[r] \in {<<"look up", stage>>, <<"fetch", stage>>}, Reads(r, stage)
  PROVE  Found(r)'
<1> DEFINE S == SkusOf(job[r].lines)
<1>1. job[r].lines # <<>>
  <2>1. pc[r] # <<"idle", "idle">>  BY Milestones
  <2> QED  BY <2>1 DEF Found
<1>2. /\ S \subseteq Skus
      /\ \A s \in S : PriceOf(s) \in Keys \ OfferKeys /\ List(s) \in Keys \ OfferKeys
      /\ \A s \in S : Values(PriceOf(s)) = Nat /\ Values(List(s)) = Seq(Offers)
      /\ \A s \in S : PriceOf(s) \in Wanted(r, "prices") /\ List(s) \in Wanted(r, "lists")
      /\ \A s \in S : /\ PriceOf(s) \notin Wanted(r, "lists") /\ PriceOf(s) \notin Wanted(r, "offers")
                      /\ List(s) \notin Wanted(r, "offers")
  <2>1. /\ S \subseteq Skus
        /\ Wanted(r, "prices") = {PriceOf(s) : s \in S} /\ Wanted(r, "lists") = {List(s) : s \in S}
        /\ Wanted(r, "prices") \cup Wanted(r, "lists") \subseteq Keys \ OfferKeys
        /\ \A s : PriceOf(s) \notin Wanted(r, "lists") \cup Wanted(r, "offers")
        /\ \A s : List(s) \notin Wanted(r, "prices") \cup Wanted(r, "offers")
    BY WantedKeys
  <2> HIDE DEF S
  <2>2. \A s \in S : Values(PriceOf(s)) = Nat /\ Values(List(s)) = Seq(Offers)
    BY <2>1, KeyKinds
  <2> QED  BY <2>1, <2>2
<1>3. /\ pc[r] \notin BeforePrices => \A s \in S : got[r][PriceOf(s)] \in Nat
      /\ pc[r] \notin BeforeLists => \A s \in S : got[r][List(s)] \in Seq(Offers)
  BY DEF Found, UnitPrice, PriceOf
<1> HIDE DEF S
<1>4. \A k \in Keys : k \notin Wanted(r, stage) => got'[r][k] = got[r][k]  BY DEF Reads
<1>5. \A k \in Wanted(r, stage) :
        k \in Keys \ OfferKeys => pc'[r] = <<"fetch", stage>> \/ got'[r][k] \in Values(k)
  BY DEF Reads
<1>6. pc'[r] \in {After(stage), <<"fetch", stage>>, <<"save", stage>>}  BY DEF Reads
<1>7. pc'[r] \notin BeforePrices => \A s \in S : got'[r][PriceOf(s)] \in Nat
  <2>1. CASE stage = "prices"
    <3>1. <<"fetch", "prices">> \in BeforePrices  BY Milestones
    <3> QED  BY <1>2, <1>5, <2>1, <3>1
  <2>2. CASE stage # "prices"
    <3>1. stage \in {"lists", "offers"}  BY <2>2 DEF Stages
    <3>2. pc[r] \notin BeforePrices
      <4>1. pc[r] \notin BeforeLists \/ stage = "lists"  BY <3>1, Milestones
      <4> QED  BY <4>1, Milestones DEF BeforeLists
    <3>3. \A s \in S : PriceOf(s) \in Keys /\ PriceOf(s) \notin Wanted(r, stage)  BY <1>2, <3>1
    <3> QED  BY <1>3, <1>4, <3>2, <3>3
  <2> QED  BY <2>1, <2>2
<1>8. pc'[r] \notin BeforeLists => \A s \in S : got'[r][List(s)] \in Seq(Offers)
  <2>1. CASE stage = "prices"
    <3>1. {<<"fetch", "prices">>, <<"save", "prices">>, After("prices")} \subseteq BeforeLists
      BY Milestones
    <3> QED  BY <1>6, <2>1, <3>1
  <2>2. CASE stage = "lists"
    <3>1. <<"fetch", "lists">> \in BeforeLists  BY Milestones
    <3> QED  BY <1>2, <1>5, <2>2, <3>1
  <2>3. CASE stage = "offers"
    <3>1. pc[r] \notin BeforeLists  BY <2>3, Milestones
    <3> QED  BY <1>2, <1>3, <1>4, <2>3, <3>1
  <2> QED  BY <2>1, <2>2, <2>3 DEF Stages
<1>9. job'[r].lines # <<>> /\ SkusOf(job'[r].lines) = S  BY <1>1 DEF S
<1> QED  BY <1>7, <1>8, <1>9 DEF Found, UnitPrice, PriceOf, List

\* A request that has read its lists goes on; another one stands still.
LEMMA FoundKept ==
  ASSUME NEW r \in Readers, Found(r), job'[r] = job[r], got'[r] = got[r],
         pc'[r] = pc[r] \/ pc[r] \notin BeforeLists
  PROVE  Found(r)'
<1>1. pc[r] \notin BeforeLists => pc[r] \notin BeforePrices /\ pc[r] # <<"idle", "idle">>
  BY DEF BeforeLists, BeforePrices
<1> QED  BY <1>1 DEF Found, UnitPrice

LEMMA ReadReads ==
  ASSUME Shape, ReadsInv, NEW r \in Readers, NEW stage \in Stages,
         LookUp(r, stage) \/ Fetch(r, stage)
  PROVE  ReadsInv'
<1>1. UNCHANGED <<price, cached, ran, job>>
  BY DEF LookUp, Fetch, databaseVars, cacheVars
<1>2. Reads(r, stage)  BY LookUpReads, FetchReads DEF ReadsInv
<1>3. job[r] \in Job  BY DEF Shape
<1>4. Found(r)'
  <2>1. pc[r] \in {<<"look up", stage>>, <<"fetch", stage>>}  BY DEF LookUp, Fetch
  <2> QED  BY <1>1, <1>2, <1>3, <2>1, ReadsFound DEF ReadsInv
<1>5. \A q \in Readers : q # r => Found(q)'
  <2> SUFFICES ASSUME NEW q \in Readers, q # r
               PROVE  Found(q)'
    OBVIOUS
  <2>1. got'[q] = got[q] /\ pc'[q] = pc[q] /\ job'[q] = job[q]  BY <1>1, <1>2 DEF Reads
  <2> QED  BY <2>1, FoundKept DEF ReadsInv
<1>6. \A q \in Readers : \A k \in Keys : got'[q][k] \in Values(k) \cup {Nothing}
  BY <1>2 DEF Reads, ReadsInv, ReadTypes
<1>7. unsaved' \in [Readers -> SUBSET Keys]
  <2>1. CASE LookUp(r, stage)
    <3>1. unsaved' = unsaved  BY <2>1 DEF LookUp
    <3> QED  BY <3>1 DEF ReadsInv, ReadTypes
  <2>2. CASE Fetch(r, stage)
    <3>1. PICK S \in SUBSET Wanted(r, stage) : unsaved' = [unsaved EXCEPT ![r] = S]
      BY <2>2, FetchReads DEF ReadsInv
    <3>2. Wanted(r, stage) \subseteq Keys
      <4>1. stage # "offers" => Wanted(r, stage) \subseteq Keys  BY <1>3, WantedKeys DEF Stages
      <4>2. stage = "offers" => Wanted(r, stage) \subseteq Keys
        <5>1. OfferKeys \subseteq Keys  BY DEF Keys
        <5>2. stage = "offers" => pc[r] \notin BeforeLists  BY <2>2, Milestones DEF Fetch
        <5> QED  BY <1>3, <5>1, <5>2, WantedKeys DEF ReadsInv, Found
      <4> QED  BY <4>1, <4>2
    <3> QED  BY <3>1, <3>2 DEF ReadsInv, ReadTypes
  <2> QED  BY <2>1, <2>2
<1>8. ReadTypes'
  <2>1. \A k \in Keys : Values(k)' = Values(k)  BY DEF Values
  <2> QED  BY <1>1, <1>6, <1>7, <2>1 DEF ReadsInv, ReadTypes
<1> QED  BY <1>4, <1>5, <1>8 DEF ReadsInv

LEMMA SaveReads ==
  ASSUME Shape, ReadsInv, NEW r \in Readers, NEW stage \in Stages, Save(r, stage)
  PROVE  ReadsInv'
<1>1. UNCHANGED <<price, ran, job, got>>  BY DEF Save, databaseVars
<1>2. /\ pc[r] = <<"save", stage>>
      /\ pc' = [pc EXCEPT ![r] = After(stage)]
      /\ unsaved' = [unsaved EXCEPT ![r] = {}]
      /\ cached' = [k \in Keys |-> IF k \in unsaved[r] THEN got[r][k] ELSE cached[k]]
  BY DEF Save
<1>3. ReadTypes'
  <2>1. unsaved' \in [Readers -> SUBSET Keys]  BY <1>2 DEF ReadsInv, ReadTypes
  <2>2. \A k \in Keys : cached'[k] \in Values(k) \cup {Nothing}
    BY <1>2 DEF ReadsInv, ReadTypes
  <2> QED  BY <1>1, <2>1, <2>2 DEF ReadsInv, ReadTypes
<1>4. \A q \in Readers : q # r => pc'[q] = pc[q]  BY <1>2 DEF Shape
<1>5. pc'[r] = After(stage)  BY <1>2 DEF Shape
<1>6. \A q \in Readers : q # r => Found(q)'
  BY <1>1, <1>4, FoundKept DEF ReadsInv
<1>7. Found(r)'
  <2>1. CASE stage = "prices"
    <3>1. pc[r] # <<"idle", "idle">> /\ pc[r] \notin BeforePrices  BY <1>2, Milestones
    <3>2. pc'[r] \in BeforeLists  BY <1>5, <2>1, Milestones
    <3> QED  BY <1>1, <3>1, <3>2 DEF ReadsInv, Found, UnitPrice
  <2>2. CASE stage # "prices"
    <3>1. pc[r] \notin BeforeLists  BY <1>2, <2>2, Milestones
    <3> QED  BY <1>1, <3>1, FoundKept DEF ReadsInv
  <2> QED  BY <2>1, <2>2
<1> QED  BY <1>3, <1>6, <1>7 DEF ReadsInv

LEMMA AskReads ==
  ASSUME Shape, ReadsInv, NEW r \in Readers, NEW j \in Jobs[r], Ask(r, j)
  PROVE  ReadsInv'
<1>1. UNCHANGED <<price, ran, cached, got, unsaved>>
  BY DEF Ask, databaseVars, cacheVars
<1>2. job' = [job EXCEPT ![r] = j] /\ pc' = [pc EXCEPT ![r] = <<"look up", "prices">>]
  BY DEF Ask
<1>3. ReadTypes'  BY <1>1 DEF ReadsInv, ReadTypes, Values
<1>4. \A q \in Readers : q # r => Found(q)'
  <2>1. \A q \in Readers : q # r => job'[q] = job[q] /\ pc'[q] = pc[q]  BY <1>2 DEF Shape
  <2> QED  BY <1>1, <2>1, FoundKept DEF ReadsInv
<1>5. Found(r)'
  <2>1. job'[r] = j /\ pc'[r] = <<"look up", "prices">>  BY <1>2 DEF Shape
  <2>2. j.lines # <<>>  BY PricingAssumption
  <2> QED  BY <2>1, <2>2 DEF Found, BeforePrices, BeforeLists
<1> QED  BY <1>3, <1>4, <1>5 DEF ReadsInv

\* Lines are built and orders are placed by requests that have read everything.
LEMMA LaterReads ==
  ASSUME Shape, ReadsInv, NEW r \in Readers, Build(r) \/ Book(r) \/ Pay(r) \/ Place(r) \/ Refuse(r)
  PROVE  ReadsInv'
<1>1. UNCHANGED <<price, cached, job, got, unsaved>>
  BY DEF Build, Book, Pay, Place, Refuse, databaseVars, cacheVars, readVars
<1>2. ran' \subseteq Offers
  <2>1. ran' = ran \/ ran' = ran \cup {o \in Offers : offer'[o].state = "runs"
                                                      /\ offer'[o].uses < Terms[o].maxUses}
    BY DEF Build, Book, Pay, Place, Refuse, databaseVars
  <2> QED  BY <2>1 DEF ReadsInv, ReadTypes
<1>3. ReadTypes'  BY <1>1, <1>2 DEF ReadsInv, ReadTypes, Values
<1>4. pc[r] \notin BeforeLists
  <2>1. pc[r] \in {<<"build", "lines">>, <<"order", "book">>, <<"order", "pay">>, <<"order", "create">>}
    BY DEF Build, Book, Pay, Place, Refuse
  <2>2. pc[r][1] \in {"build", "order", "done"}  BY <2>1, LastPlaces
  <2> QED  BY <2>2, AllRead
<1>5. \A q \in Readers : q # r => pc'[q] = pc[q]
  BY DEF Shape, Build, Book, Pay, Place, Refuse
<1> QED  BY <1>1, <1>3, <1>4, <1>5, FoundKept DEF ReadsInv

LEMMA OutsideReads ==
  ASSUME Shape, ReadsInv,
         \/ \E k : Expire(k)
         \/ \E s \in Skus : \E p \in NewPrices : Reprice(s, p)
         \/ \E o \in Offers : \E state \in {"runs", "rests", "deleted"} : Turn(o, state)
         \/ UNCHANGED vars
  PROVE  ReadsInv'
<1>1. /\ UNCHANGED <<pc, job, got, unsaved>>
      /\ ran' \subseteq Offers
      /\ \A k \in Keys : cached'[k] \in {cached[k], Nothing}
      /\ price' \in [Skus -> Nat]
  <2>1. ASSUME NEW k, Expire(k)
        PROVE  /\ UNCHANGED <<pc, job, got, unsaved, ran, price>>
               /\ cached' = [cached EXCEPT ![k] = Nothing]
    BY <2>1 DEF Expire, databaseVars, readVars
  <2>2. ASSUME NEW s \in Skus, NEW p \in NewPrices, Reprice(s, p)
        PROVE  UNCHANGED <<pc, job, got, unsaved, ran, cached>> /\ price' \in [Skus -> Nat]
    <3>1. p \in Nat  BY PricingAssumption
    <3>2. price' = [price EXCEPT ![s] = p]  BY <2>2 DEF Reprice
    <3>3. price' \in [Skus -> Nat]  BY <3>1, <3>2 DEF ReadsInv, ReadTypes
    <3> QED  BY <2>2, <3>3 DEF Reprice, cacheVars, readVars
  <2>3. ASSUME NEW o \in Offers, NEW state \in {"runs", "rests", "deleted"}, Turn(o, state)
        PROVE  UNCHANGED <<pc, job, got, unsaved, price, cached>> /\ ran' \subseteq ran \cup {o}
    BY <2>3 DEF Turn, cacheVars, readVars
  <2>4. ASSUME UNCHANGED vars
        PROVE  UNCHANGED <<pc, job, got, unsaved, price, ran, cached>>
    BY <2>4 DEF vars, databaseVars, cacheVars, readVars
  <2>5. CASE \E k : Expire(k)
    BY <2>1, <2>5 DEF Shape, ReadsInv, ReadTypes
  <2>6. CASE \E s \in Skus : \E p \in NewPrices : Reprice(s, p)
    BY <2>2, <2>6 DEF ReadsInv, ReadTypes
  <2>7. CASE \E o \in Offers : \E state \in {"runs", "rests", "deleted"} : Turn(o, state)
    BY <2>3, <2>7 DEF ReadsInv, ReadTypes
  <2>8. CASE UNCHANGED vars
    BY <2>4, <2>8 DEF ReadsInv, ReadTypes
  <2> QED  BY <2>5, <2>6, <2>7, <2>8
<1>2. ReadTypes'
  <2>1. \A k \in Keys : cached[k] \in Values(k) \cup {Nothing}  BY DEF ReadsInv, ReadTypes
  <2>2. \A k \in Keys : cached'[k] \in Values(k) \cup {Nothing}  BY <1>1, <2>1
  <2> QED  BY <1>1, <2>2 DEF ReadsInv, ReadTypes, Values
<1> QED  BY <1>1, <1>2, FoundKept DEF ReadsInv

LEMMA InitReads ==
  ASSUME Init
  PROVE  ReadsInv
<1>1. ReadTypes
  <2>1. price \in [Skus -> Nat]  BY PricingAssumption DEF Init
  <2>2. ran \subseteq Offers  BY PricingAssumption DEF Init
  <2> QED  BY <2>1, <2>2 DEF Init, ReadTypes
<1>2. \A r \in Readers : pc[r] = <<"idle", "idle">>  BY DEF Init
<1> QED  BY <1>1, <1>2 DEF ReadsInv, Found, BeforePrices, BeforeLists

-----------------------------------------------------------------------------
(* What is built.                                                          *)

\* A request's lines are those it was asked for, as far as it has come.
LinesOf(r) ==
  /\ builder[r] \in Line
  /\ built[r] \in Seq(Line)
  /\ Len(built[r]) <= Len(job[r].lines)
  /\ pc[r] = <<"build", "lines">> => Len(built[r]) < Len(job[r].lines)
  /\ pc[r][1] \in {"order", "done"} => Len(built[r]) = Len(job[r].lines)
  /\ \A i \in DOMAIN built[r] :
       /\ built[r][i].sku = job[r].lines[i].sku
       /\ built[r][i].quantity = QuantityOf(r, job[r].lines[i])

LinesInv == \A r \in Readers : LinesOf(r)

LEMMA ListOfOffers ==
  ASSUME NEW g, NEW s, g[List(s)] \in Seq(Offers)
  PROVE  IsList(OffersIn(g, s))
<1> DEFINE q == g[List(s)]
           I == {i \in DOMAIN q : g[<<"offer", q[i]>>] # Nothing}
<1>1. (\A i \in DOMAIN q : q[i] \in Offers) /\ DOMAIN q = 1 .. Len(q) /\ Len(q) \in Nat
  BY Elements
<1>2. OffersIn(g, s) = [i \in I |-> q[i]]  BY DEF OffersIn, RestrictValues, Restrict, List
<1> HIDE DEF q
<1>3. IsFiniteSet(1 .. Len(q))  BY <1>1, FS_Interval
<1>4. I \in SUBSET (1 .. Len(q))  BY <1>1
<1>5. IsFiniteSet(I)  BY <1>3, <1>4, FS_Subset
<1>6. \A i \in I : i \in Int /\ q[i] \in Offers  BY <1>1
<1> HIDE DEF I
<1> QED  BY <1>2, <1>5, <1>6 DEF IsList

\* The map of the cart has the quantity of one of its lines.
LEMMA OrderedQuantityType ==
  ASSUME NEW j \in Job, NEW s \in SkusOf(j.lines)
  PROVE  OrderedQuantity(j.lines, s) \in Nat
<1>1. PICK i \in DOMAIN j.lines : LastLine(j.lines, s) = j.lines[i]  BY LastLineParts
<1> QED  BY <1>1, JobSkus DEF OrderedQuantity

LEMMA DiscountedType ==
  ASSUME NEW p \in Nat, NEW d \in Nat
  PROVE  Discounted(p, d) \in Int
<1>1. \A x \in Int : x \div 100 \in Int  OBVIOUS
<1>2. p * (100 - d) \in Int  OBVIOUS
<1>3. p * (100 - d) + 50 \in Int  BY <1>2
<1> QED  BY <1>1, <1>3 DEF Discounted

\* The next line is a line, whatever the builder held.
LEMMA NextLineType ==
  ASSUME NEW r \in Readers, job \in [Readers -> Job], IsLine(builder[r]), builder[r] \in Line,
         job[r].kind # "order" => builder[r].ids = {},
         pc[r] \notin BeforeLists, Found(r), NEW i \in DOMAIN job[r].lines
  PROVE  NextLine(r, job[r].lines[i]) \in Line
<1> DEFINE line == job[r].lines[i]
           next == NextLine(r, line)
           left == IF job[r].kind = "cards" THEN builder[r].discount ELSE 0
           S == Applied(r, line.sku)
<1>1. job[r] \in Job  OBVIOUS
<1>2. line.sku \in Skus /\ line.quantity \in Nat /\ line.sku \in SkusOf(job[r].lines)
  BY <1>1, JobSkus DEF SkusOf
<1>3. QuantityOf(r, line) \in Nat  BY <1>1, <1>2, OrderedQuantityType DEF QuantityOf
<1>4. UnitPrice(r, line.sku) \in Nat /\ got[r][List(line.sku)] \in Seq(Offers)
  <2>1. pc[r] \notin BeforePrices  BY DEF BeforeLists
  <2> QED  BY <1>2, <2>1 DEF Found
<1>5. S \in SUBSET Offers
  <2>1. IsList(OffersIn(got[r], line.sku))  BY <1>4, ListOfOffers
  <2> QED  BY <2>1, ResolveParts DEF Applied, OffersFor
<1> HIDE DEF line
<1>6. /\ IsLine(next)
      /\ next.sku = line.sku /\ next.quantity = QuantityOf(r, line)
      /\ OwnParts(next, UnitPrice(r, next.sku), Applied(r, next.sku), left)
  BY NextLineParts
<1>7. left \in Nat  BY DEF Line
<1> HIDE DEF left, S, next
<1>8. OwnParts(next, UnitPrice(r, line.sku), S, left)  BY <1>6 DEF S
<1>9. Discount(S) \in Nat  BY <1>5, DiscountType
<1>10. /\ next.unit \in Nat
       /\ next.final \in Int
       /\ next.discount \in Nat
       /\ next.ids \in SUBSET Offers
  <2>1. next.unit = UnitPrice(r, line.sku) /\ next.ids \subseteq S  BY <1>8 DEF OwnParts
  <2>2. next.final = IF Discount(S) > 0 THEN Discounted(next.unit, Discount(S)) ELSE next.unit
    BY <1>8 DEF OwnParts
  <2>3. next.discount = IF Discount(S) > 0 THEN Discount(S) ELSE left  BY <1>8 DEF OwnParts
  <2>4. next.unit \in Nat  BY <1>4, <2>1
  <2>5. Discounted(next.unit, Discount(S)) \in Int  BY <1>9, <2>4, DiscountedType
  <2> QED  BY <1>5, <1>7, <1>9, <2>1, <2>2, <2>3, <2>4, <2>5
<1>11. next.sku \in Skus \cup {Nothing} /\ next.quantity \in Nat  BY <1>2, <1>3, <1>6
<1>12. next \in Line  BY <1>6, <1>10, <1>11 DEF IsLine, Line
<1> QED  BY <1>12 DEF next, line

LEMMA LinesKeptOf ==
  ASSUME NEW r \in Readers, LinesOf(r), job'[r] = job[r], built'[r] = built[r], builder'[r] = builder[r],
         \/ pc'[r] = pc[r]
         \/ pc'[r][1] \notin {"build", "order", "done"}
         \/ pc'[r] = <<"build", "lines">> /\ built[r] = <<>> /\ job[r] \in Job /\ job[r].lines # <<>>
         \/ pc[r][1] = "order" /\ pc'[r] # <<"build", "lines">>
  PROVE  LinesOf(r)'
<1>1. \A line : QuantityOf(r, line)' = QuantityOf(r, line)  BY DEF QuantityOf
<1>2. <<"build", "lines">>[1] = "build"  OBVIOUS
<1>3. Line' = Line  BY DEF Line
<1>4. CASE pc'[r] = pc[r]  BY <1>1, <1>3, <1>4 DEF LinesOf
<1>5. CASE pc'[r][1] \notin {"build", "order", "done"}  BY <1>1, <1>2, <1>3, <1>5 DEF LinesOf
<1>6. CASE pc'[r] = <<"build", "lines">> /\ built[r] = <<>> /\ job[r] \in Job /\ job[r].lines # <<>>
  <2>1. Len(job[r].lines) \in Nat /\ Len(job[r].lines) # 0
    <3>1. job[r].lines \in Seq([sku : Skus, product : Products, quantity : Nat, checked : BOOLEAN])  BY <1>6, JobSkus
    <3> QED  BY <1>6, <3>1, EmptySeq
  <2>2. Len(built[r]) = 0  BY <1>6
  <2>3. Len(built[r]) < Len(job[r].lines)  BY <2>1, <2>2
  <2>4. pc'[r][1] \notin {"order", "done"}  BY <1>2, <1>6
  <2> QED  BY <1>1, <1>3, <2>3, <2>4 DEF LinesOf
<1>7. CASE pc[r][1] = "order" /\ pc'[r] # <<"build", "lines">>
  BY <1>1, <1>3, <1>7 DEF LinesOf
<1> QED  BY <1>4, <1>5, <1>6, <1>7

Reading(stage) ==
  {<<"idle", "idle">>, <<"look up", stage>>, <<"fetch", stage>>, <<"save", stage>>}

LEMMA ReadingPlaces ==
  ASSUME NEW stage, NEW p \in Reading(stage)
  PROVE  p # <<"build", "lines">> /\ p[1] \notin {"build", "order", "done"}
<1>1. /\ <<"idle", "idle">>[1] = "idle" /\ <<"look up", stage>>[1] = "look up"
      /\ <<"fetch", stage>>[1] = "fetch" /\ <<"save", stage>>[1] = "save"
      /\ <<"build", "lines">>[1] = "build"
  OBVIOUS
<1> QED  BY <1>1 DEF Reading

LEMMA BuildLinesOf ==
  ASSUME Shape, BuildersInv, ReadsInv, LinesInv, NEW r \in Readers, Build(r)
  PROVE  LinesInv'
<1> DEFINE n == Len(built[r])
           lines == job[r].lines
           next == NextLine(r, lines[n + 1])
<1>1. /\ pc[r] = <<"build", "lines">>
      /\ builder' = [builder EXCEPT ![r] = next]
      /\ built' = [built EXCEPT ![r] = Append(built[r], next)]
      /\ pc' = [pc EXCEPT ![r] =
           IF n + 1 < Len(lines) THEN pc[r]
           ELSE IF job[r].kind = "order" THEN <<"order", "book">> ELSE <<"done", "shown">>]
      /\ UNCHANGED <<job, got>>
  BY DEF Build, Shape, readVars
<1>2. LinesOf(r)  BY DEF LinesInv
<1>3. /\ builder[r] \in Line /\ built[r] \in Seq(Line) /\ n < Len(lines)
      /\ \A i \in DOMAIN built[r] :
           built[r][i].sku = lines[i].sku /\ built[r][i].quantity = QuantityOf(r, lines[i])
  BY <1>1, <1>2 DEF LinesOf
<1>4. /\ DOMAIN lines = 1 .. Len(lines) /\ Len(lines) \in Nat
      /\ n \in Nat /\ DOMAIN built[r] = 1 .. n
  <2>1. lines \in Seq([sku : Skus, product : Products, quantity : Nat, checked : BOOLEAN])  BY JobSkus DEF Shape
  <2> HIDE DEF lines
  <2>2. DOMAIN lines = 1 .. Len(lines) /\ Len(lines) \in Nat  BY <2>1, Elements
  <2> QED  BY <1>3, <2>2, Elements
<1>5. n + 1 \in DOMAIN lines  BY <1>3, <1>4
<1>6. job[r].kind # "order" => builder[r].ids = {}
  <2>1. Builders(r)  BY DEF BuildersInv
  <2>2. CASE built[r] = <<>>  BY <2>1, <2>2 DEF Builders, NoLine
  <2>3. CASE built[r] # <<>>
    <3>1. n \in DOMAIN built[r]  BY <1>3, <2>3
    <3> QED  BY <2>1, <2>3, <3>1 DEF Builders
  <2> QED  BY <2>2, <2>3
<1>7. next \in Line
  <2>1. pc[r] \notin BeforeLists
    <3>1. pc[r][1] = "build"  BY <1>1
    <3> QED  BY <3>1, AllRead
  <2>2. IsLine(builder[r]) /\ job \in [Readers -> Job] /\ Found(r)  BY DEF Shape, ReadsInv
  <2> QED  BY <1>3, <1>5, <1>6, <2>1, <2>2, NextLineType
<1>8. next.sku = lines[n + 1].sku /\ next.quantity = QuantityOf(r, lines[n + 1])
  <2>1. IsLine(builder[r]) /\ job \in [Readers -> Job]  BY DEF Shape
  <2> QED  BY <1>6, <2>1, NextLineParts
<1> HIDE DEF next
<1>9. /\ builder'[r] = next
      /\ built'[r] = Append(built[r], next)
      /\ \A q \in Readers : q # r => builder'[q] = builder[q] /\ built'[q] = built[q] /\ pc'[q] = pc[q]
      /\ pc'[r] = IF n + 1 < Len(lines) THEN pc[r]
                  ELSE IF job[r].kind = "order" THEN <<"order", "book">> ELSE <<"done", "shown">>
  BY <1>1 DEF Shape
<1>10. LinesOf(r)'
  <2>1. Line' = Line /\ \A line : QuantityOf(r, line)' = QuantityOf(r, line)
    BY <1>1 DEF Line, QuantityOf
  <2>2. built'[r] \in Seq(Line)  BY <1>3, <1>7, <1>9
  <2>3. /\ DOMAIN built'[r] = 1 .. n + 1
        /\ Len(built'[r]) = n + 1
        /\ \A i \in 1 .. n : built'[r][i] = built[r][i]
        /\ built'[r][n + 1] = next
    BY <1>3, <1>9, Appended
  <2>4. \A i \in 1 .. n + 1 : built'[r][i].sku = lines[i].sku
                              /\ built'[r][i].quantity = QuantityOf(r, lines[i])
    <3> SUFFICES ASSUME NEW i \in 1 .. n + 1
                 PROVE  built'[r][i].sku = lines[i].sku
                        /\ built'[r][i].quantity = QuantityOf(r, lines[i])
      OBVIOUS
    <3>1. CASE i \in 1 .. n  BY <1>3, <1>4, <2>3, <3>1
    <3>2. CASE i = n + 1  BY <1>8, <2>3, <3>2
    <3> QED  BY <1>4, <3>1, <3>2
  <2>5. /\ <<"build", "lines">>[1] = "build"
        /\ <<"order", "book">> # <<"build", "lines">> /\ <<"done", "shown">> # <<"build", "lines">>
    OBVIOUS
  <2>6. /\ pc'[r] = <<"build", "lines">> => n + 1 < Len(lines)
        /\ pc'[r][1] \in {"order", "done"} => n + 1 = Len(lines)
        /\ n + 1 <= Len(lines)
    BY <1>1, <1>3, <1>4, <1>9, <2>5
  <2>7. job'[r] = job[r] /\ builder'[r] \in Line  BY <1>1, <1>7, <1>9
  <2> QED  BY <2>1, <2>2, <2>3, <2>4, <2>6, <2>7 DEF LinesOf
<1>11. \A q \in Readers : q # r => LinesOf(q)'
  BY <1>1, <1>9, LinesKeptOf DEF LinesInv
<1> QED  BY <1>10, <1>11 DEF LinesInv

LEMMA OtherLinesOf ==
  ASSUME Shape, BuildersInv, ReadsInv, LinesInv, [Next]_vars, \A r \in Readers : ~Build(r)
  PROVE  LinesInv'
<1>1. ASSUME NEW r \in Readers, \E j \in Jobs[r] : Ask(r, j)
      PROVE  LinesInv'
  <2>1. PICK j \in Jobs[r] : Ask(r, j)  BY <1>1
  <2>2. /\ UNCHANGED <<built, builder>>
        /\ job' = [job EXCEPT ![r] = j]
        /\ pc[r] = <<"idle", "idle">>
        /\ pc' = [pc EXCEPT ![r] = <<"look up", "prices">>]
    BY <2>1 DEF Ask, lineVars
  <2>3. \A q \in Readers : q # r => LinesOf(q)'
    <3>1. \A q \in Readers : q # r => job'[q] = job[q] /\ pc'[q] = pc[q]  BY <2>2 DEF Shape
    <3> QED  BY <2>2, <3>1, LinesKeptOf DEF LinesInv
  <2>4. LinesOf(r)'
    <3>1. pc[r][1] \notin {"build", "order", "done"}
      <4>1. pc[r] \in Reading("prices")  BY <2>2 DEF Reading
      <4> QED  BY <4>1, ReadingPlaces
    <3>2. built[r] = <<>>  BY <3>1 DEF BuildersInv, Builders
    <3>3. builder[r] \in Line /\ built[r] \in Seq(Line)  BY DEF LinesInv, LinesOf
    <3>4. pc'[r] = <<"look up", "prices">>  BY <2>2 DEF Shape
    <3>5. Len(j.lines) \in Nat
      <4>1. j.lines \in Seq([sku : Skus, product : Products, quantity : Nat, checked : BOOLEAN])
        BY PricingAssumption, JobSkus
      <4> QED  BY <4>1
    <3>6. job'[r] = j  BY <2>2 DEF Shape
    <3>7. Line' = Line  BY DEF Line
    <3>8. pc'[r] # <<"build", "lines">> /\ pc'[r][1] \notin {"order", "done"}
      <4>1. pc'[r] \in Reading("prices")  BY <3>4 DEF Reading
      <4> QED  BY <4>1, ReadingPlaces
    <3>9. Len(built'[r]) <= Len(j.lines) /\ DOMAIN built'[r] = {}
      <4>1. Len(<<>>) = 0 /\ DOMAIN <<>> = {}  OBVIOUS
      <4>2. built'[r] = <<>>  BY <2>2, <3>2
      <4> QED  BY <3>5, <4>1, <4>2
    <3>10. builder'[r] \in Line /\ built'[r] \in Seq(Line)  BY <2>2, <3>3
    <3> QED  BY <3>6, <3>7, <3>8, <3>9, <3>10 DEF LinesOf
  <2> QED  BY <2>3, <2>4 DEF LinesInv
<1>2. ASSUME NEW r \in Readers, NEW stage \in Stages, LookUp(r, stage) \/ Fetch(r, stage) \/ Save(r, stage)
      PROVE  LinesInv'
  <2>1. UNCHANGED <<built, builder, job>>  BY <1>2 DEF LookUp, Fetch, Save, lineVars
  <2>2. \E p \in {After(stage), <<"fetch", stage>>, <<"save", stage>>} : pc' = [pc EXCEPT ![r] = p]
    BY <1>2 DEF LookUp, Fetch, Save
  <2>3. \A q \in Readers : q # r => pc'[q] = pc[q]  BY <2>2 DEF Shape
  <2>4. pc'[r] = <<"build", "lines">> \/ pc'[r][1] \notin {"build", "order", "done"}
    <3>1. pc'[r] \in {After(stage), <<"fetch", stage>>, <<"save", stage>>}  BY <2>2 DEF Shape
    <3>2. After(stage) \in {<<"look up", "lists">>, <<"look up", "offers">>, <<"build", "lines">>}
      BY DEF After, Stages
    <3>3. \A x : <<"look up", x>>[1] = "look up" /\ <<"fetch", x>>[1] = "fetch" /\ <<"save", x>>[1] = "save"
      OBVIOUS
    <3> QED  BY <3>1, <3>2, <3>3
  <2>5. built[r] = <<>>
    <3>1. pc[r] \in Reading(stage)  BY <1>2 DEF LookUp, Fetch, Save, Reading
    <3>2. pc[r][1] \notin {"build", "order", "done"}  BY <3>1, ReadingPlaces
    <3> QED  BY <3>2 DEF BuildersInv, Builders
  <2>6. job[r] \in Job /\ job[r].lines # <<>>
    <3>1. pc[r] # <<"idle", "idle">>  BY <1>2, Milestones DEF LookUp, Fetch, Save
    <3> QED  BY <3>1 DEF Shape, ReadsInv, Found
  <2>7. LinesOf(r)'  BY <2>1, <2>4, <2>5, <2>6, LinesKeptOf DEF LinesInv
  <2>8. \A q \in Readers : q # r => LinesOf(q)'  BY <2>1, <2>3, LinesKeptOf DEF LinesInv
  <2> QED  BY <2>7, <2>8 DEF LinesInv
<1>3. ASSUME NEW r \in Readers, Book(r) \/ Pay(r) \/ Place(r) \/ Refuse(r)
      PROVE  LinesInv'
  <2>1. UNCHANGED <<built, builder, job>>  BY <1>3, OrderStep
  <2>2. PICK p \in Places : pc' = [pc EXCEPT ![r] = p] /\ p[1] \in {"order", "done"}  BY <1>3, OrderStep
  <2>3. \A q \in Readers : q # r => pc'[q] = pc[q]  BY <2>2 DEF Shape
  <2>4. pc'[r][1] \in {"order", "done"} /\ pc'[r] = p  BY <2>2 DEF Shape
  <2>5. <<"build", "lines">>[1] = "build"  OBVIOUS
  <2>6. pc'[r] # <<"build", "lines">>  BY <2>4, <2>5
  <2>7. pc[r][1] = "order"
    <3>1. pc[r] \in {<<"order", "book">>, <<"order", "pay">>, <<"order", "create">>}
      BY <1>3 DEF Book, Pay, Place, Refuse
    <3> QED  BY <3>1
  <2>8. \A q \in Readers : LinesOf(q)'
    BY <2>1, <2>3, <2>6, <2>7, LinesKeptOf DEF LinesInv
  <2> QED  BY <2>8 DEF LinesInv
<1>4. ASSUME Outside
      PROVE  LinesInv'
  <2>1. UNCHANGED <<pc, job, built, builder>>  BY <1>4, OutsideStep
  <2> QED  BY <2>1, LinesKeptOf DEF LinesInv
<1>5. Outside \/ \E r \in Readers :
         \/ \E j \in Jobs[r] : Ask(r, j)
         \/ \E stage \in Stages : LookUp(r, stage) \/ Fetch(r, stage) \/ Save(r, stage)
         \/ Book(r) \/ Pay(r) \/ Place(r) \/ Refuse(r)
  <2>1. (\E o \in Offers : \E state \in Turns[o] : Turn(o, state)) => Outside
    BY PricingAssumption DEF Outside
  <2>2. (\E k \in Expiring : Expire(k)) \/ (\E s \in Skus : \E p \in NewPrices : Reprice(s, p)) \/ UNCHANGED vars
          => Outside
    BY DEF Outside
  <2> QED  BY <2>1, <2>2 DEF Next
<1> QED  BY <1>1, <1>2, <1>3, <1>4, <1>5

-----------------------------------------------------------------------------
(* What is charged and recorded.                                           *)

\* An order that has been paid or placed has all its lines, and they stay.
AmountsOf(r) ==
  /\ charged[r] # Nothing =>
       /\ pc[r][1] \in {"order", "done"}
       /\ charged[r] = [items |-> Items(built[r]), shipping |-> ParseFloat(ShippingCost(built[r]))]
  /\ recorded[r] # Nothing =>
       /\ pc[r][1] \in {"order", "done"}
       /\ recorded[r] = Total(built[r]) /\ IsDecimal(Total(built[r]))

AmountsInv ==
  /\ charged = [r \in Readers |-> charged[r]]
  /\ recorded = [r \in Readers |-> recorded[r]]
  /\ \A r \in Readers : AmountsOf(r)

LEMMA AmountsKept ==
  ASSUME NEW r \in Readers, AmountsOf(r), charged'[r] = charged[r], recorded'[r] = recorded[r],
         pc[r][1] \in {"order", "done"} => pc'[r][1] \in {"order", "done"} /\ built'[r] = built[r]
  PROVE  AmountsOf(r)'
<1>1. CASE pc[r][1] \in {"order", "done"}
  <2>1. built'[r] = built[r] /\ pc'[r][1] \in {"order", "done"}  BY <1>1
  <2> DEFINE b == built[r]
  <2>2. (charged[r] # Nothing =>
           charged[r] = [items |-> Items(b), shipping |-> ParseFloat(ShippingCost(b))])
        /\ (recorded[r] # Nothing => recorded[r] = Total(b) /\ IsDecimal(Total(b)))
    BY DEF AmountsOf
  <2>3. b = built'[r]  BY <2>1
  <2> HIDE DEF b
  <2> QED  BY <2>1, <2>2, <2>3 DEF AmountsOf
<1>2. CASE pc[r][1] \notin {"order", "done"}
  <2>1. charged'[r] = Nothing /\ recorded'[r] = Nothing  BY <1>2 DEF AmountsOf
  <2> QED  BY <2>1 DEF AmountsOf
<1> QED  BY <1>1, <1>2

LEMMA PayAmounts ==
  ASSUME Shape, AmountsInv, NEW r \in Readers, Pay(r)
  PROVE  AmountsInv'
<1>1. /\ charged' = [charged EXCEPT ![r] =
           [items |-> Items(built[r]), shipping |-> ParseFloat(ShippingCost(built[r]))]]
      /\ UNCHANGED <<recorded, built>>
  BY DEF Pay, databaseVars, lineVars
<1>2. PICK p : pc' = [pc EXCEPT ![r] = p] /\ p[1] \in {"order", "done"}  BY OrderStep
<1>3. ASSUME NEW q \in Readers, q # r
      PROVE  AmountsOf(q)'
  <2>1. charged'[q] = charged[q] /\ recorded'[q] = recorded[q] /\ pc'[q] = pc[q] /\ built'[q] = built[q]
    BY <1>1, <1>2, <1>3 DEF AmountsInv, Shape
  <2> QED  BY <2>1, AmountsKept DEF AmountsInv
<1>4. AmountsOf(r)'
  <2> DEFINE b == built'[r]
  <2>1. pc'[r][1] \in {"order", "done"}  BY <1>2 DEF Shape
  <2>2. b = built[r]  BY <1>1
  <2>3. charged'[r] = [items |-> Items(b), shipping |-> ParseFloat(ShippingCost(b))]
    BY <1>1, <2>2 DEF AmountsInv
  <2>4. recorded[r] # Nothing => recorded[r] = Total(b) /\ IsDecimal(Total(b))
    BY <2>2 DEF AmountsInv, AmountsOf
  <2>5. recorded'[r] = recorded[r]  BY <1>1
  <2> HIDE DEF b
  <2>6. recorded'[r] # Nothing => recorded'[r] = Total(b) /\ IsDecimal(Total(b))  BY <2>4, <2>5
  <2> QED  BY <2>1, <2>3, <2>6 DEF AmountsOf, b
<1>5. charged' = [q \in Readers |-> charged'[q]] /\ recorded' = [q \in Readers |-> recorded'[q]]
  BY <1>1 DEF AmountsInv
<1> QED  BY <1>3, <1>4, <1>5 DEF AmountsInv

LEMMA PlaceAmounts ==
  ASSUME Shape, AmountsInv, NEW r \in Readers, Place(r)
  PROVE  AmountsInv'
<1>1. /\ recorded' = [recorded EXCEPT ![r] = Total(built[r])]
      /\ UNCHANGED <<charged, built>>
      /\ IsDecimal(Total(built[r]))
  BY DEF Place, lineVars, CanRecord
<1>2. PICK p : pc' = [pc EXCEPT ![r] = p] /\ p[1] \in {"order", "done"}  BY OrderStep
<1>3. ASSUME NEW q \in Readers, q # r
      PROVE  AmountsOf(q)'
  <2>1. charged'[q] = charged[q] /\ recorded'[q] = recorded[q] /\ pc'[q] = pc[q] /\ built'[q] = built[q]
    BY <1>1, <1>2, <1>3 DEF AmountsInv, Shape
  <2> QED  BY <2>1, AmountsKept DEF AmountsInv
<1>4. AmountsOf(r)'
  <2> DEFINE b == built'[r]
  <2>1. pc'[r][1] \in {"order", "done"}  BY <1>2 DEF Shape
  <2>2. b = built[r]  BY <1>1
  <2>3. recorded'[r] = Total(b) /\ IsDecimal(Total(b))
    BY <1>1, <2>2 DEF AmountsInv
  <2>4. charged[r] # Nothing =>
          charged[r] = [items |-> Items(b), shipping |-> ParseFloat(ShippingCost(b))]
    BY <2>2 DEF AmountsInv, AmountsOf
  <2>5. charged'[r] = charged[r]  BY <1>1
  <2> HIDE DEF b
  <2>6. charged'[r] # Nothing =>
          charged'[r] = [items |-> Items(b), shipping |-> ParseFloat(ShippingCost(b))]
    BY <2>4, <2>5
  <2> QED  BY <2>1, <2>3, <2>6 DEF AmountsOf, b
<1>5. charged' = [q \in Readers |-> charged'[q]] /\ recorded' = [q \in Readers |-> recorded'[q]]
  BY <1>1 DEF AmountsInv
<1> QED  BY <1>3, <1>4, <1>5 DEF AmountsInv

LEMMA OtherAmounts ==
  ASSUME Shape, AmountsInv, [Next]_vars, \A r \in Readers : ~Pay(r) /\ ~Place(r)
  PROVE  AmountsInv'
<1>1. ASSUME UNCHANGED <<charged, recorded>>,
             \A q \in Readers :
               pc[q][1] \in {"order", "done"} => pc'[q][1] \in {"order", "done"} /\ built'[q] = built[q]
      PROVE  AmountsInv'
  BY <1>1, AmountsKept DEF AmountsInv
<1>2. ASSUME NEW r \in Readers,
             \/ \E j \in Jobs[r] : Ask(r, j)
             \/ \E stage \in Stages : LookUp(r, stage) \/ Fetch(r, stage) \/ Save(r, stage)
             \/ Build(r)
      PROVE  AmountsInv'
  <2>1. UNCHANGED <<charged, recorded>>
    BY <1>2 DEF Ask, LookUp, Fetch, Save, Build, databaseVars, orderVars
  <2>2. \A q \in Readers : q # r => pc'[q] = pc[q] /\ built'[q] = built[q]
    BY <1>2 DEF Shape, Ask, LookUp, Fetch, Save, Build, lineVars
  <2>3. pc[r][1] \notin {"order", "done"}
    <3>1. CASE Build(r)
      <4>1. pc[r] = <<"build", "lines">> /\ <<"build", "lines">>[1] = "build"  BY <3>1 DEF Build
      <4> QED  BY <4>1
    <3>2. ASSUME NEW stage, pc[r] \in Reading(stage)
          PROVE  pc[r][1] \notin {"order", "done"}
      BY <3>2, ReadingPlaces
    <3>3. CASE ~Build(r)
      <4>1. \E stage : pc[r] \in Reading(stage)
        BY <1>2, <3>3 DEF Ask, LookUp, Fetch, Save, Reading
      <4> QED  BY <3>2, <4>1
    <3> QED  BY <3>1, <3>3
  <2> QED  BY <1>1, <2>1, <2>2, <2>3
<1>3. ASSUME NEW r \in Readers, Book(r) \/ Refuse(r)
      PROVE  AmountsInv'
  <2>1. UNCHANGED <<charged, recorded, built>>
    BY <1>3 DEF Book, Refuse, databaseVars, lineVars
  <2>2. PICK p : pc' = [pc EXCEPT ![r] = p] /\ p[1] \in {"order", "done"}  BY <1>3, OrderStep
  <2>3. \A q \in Readers : pc'[q] = pc[q] \/ pc'[q] = p  BY <2>2 DEF Shape
  <2> QED  BY <1>1, <2>1, <2>2, <2>3
<1>4. ASSUME Outside
      PROVE  AmountsInv'
  <2>1. UNCHANGED <<pc, built>>  BY <1>4, OutsideStep
  <2>2. UNCHANGED <<charged, recorded>>
    BY <1>4 DEF Outside, Expire, Reprice, Turn, vars, databaseVars, orderVars
  <2> QED  BY <1>1, <2>1, <2>2
<1>5. Outside \/ \E r \in Readers :
         \/ \E j \in Jobs[r] : Ask(r, j)
         \/ \E stage \in Stages : LookUp(r, stage) \/ Fetch(r, stage) \/ Save(r, stage)
         \/ Build(r)
         \/ Book(r) \/ Refuse(r)
  <2>1. (\E o \in Offers : \E state \in Turns[o] : Turn(o, state)) => Outside
    BY PricingAssumption DEF Outside
  <2>2. (\E k \in Expiring : Expire(k)) \/ (\E s \in Skus : \E p \in NewPrices : Reprice(s, p)) \/ UNCHANGED vars
          => Outside
    BY DEF Outside
  <2> QED  BY <2>1, <2>2 DEF Next
<1> QED  BY <1>2, <1>3, <1>4, <1>5

-----------------------------------------------------------------------------
(* Types and amounts.                                                      *)

\* With what the lines need (IInv): types, milestones and amounts.
TInv == ReadsInv /\ LinesInv /\ AmountsInv

LEMMA InitTypes ==
  ASSUME Init
  PROVE  TInv
<1>1. LinesInv
  <2> SUFFICES ASSUME NEW r \in Readers
               PROVE  LinesOf(r)
    BY DEF LinesInv
  <2>1. NoLine \in Line  BY DEF NoLine, Line
  <2>2. builder[r] = NoLine /\ built[r] = <<>> /\ pc[r] = <<"idle", "idle">> /\ job[r].lines = <<>>
    BY DEF Init
  <2>3. pc[r] # <<"build", "lines">> /\ pc[r][1] \notin {"order", "done"}
    <3>1. pc[r] \in Reading("prices")  BY <2>2 DEF Reading
    <3> QED  BY <3>1, ReadingPlaces
  <2>4. Len(built[r]) <= Len(job[r].lines) /\ DOMAIN built[r] = {}
    <3>1. Len(<<>>) = 0 /\ DOMAIN <<>> = {}  OBVIOUS
    <3> QED  BY <2>2, <3>1
  <2> QED  BY <2>1, <2>2, <2>3, <2>4 DEF LinesOf
<1>2. AmountsInv  BY DEF Init, AmountsInv, AmountsOf
<1> QED  BY <1>1, <1>2, InitReads DEF TInv

LEMMA NextTypes ==
  ASSUME IInv, TInv, [Next]_vars
  PROVE  TInv'
<1>1. Shape /\ BuildersInv /\ ReadsInv /\ LinesInv /\ AmountsInv  BY DEF IInv, TInv
<1>2. LinesInv'
  <2>1. CASE \E r \in Readers : Build(r)  BY <1>1, <2>1, BuildLinesOf
  <2>2. CASE \A r \in Readers : ~Build(r)  BY <1>1, <2>2, OtherLinesOf
  <2> QED  BY <2>1, <2>2
<1>3. AmountsInv'
  <2>1. CASE \A r \in Readers : ~Pay(r) /\ ~Place(r)  BY <1>1, <2>1, OtherAmounts
  <2>2. CASE \E r \in Readers : Pay(r)  BY <1>1, <2>2, PayAmounts
  <2>3. CASE \E r \in Readers : Place(r)  BY <1>1, <2>3, PlaceAmounts
  <2> QED  BY <2>1, <2>2, <2>3
<1>4. ReadsInv'
  <2>1. ASSUME NEW r \in Readers, \E j \in Jobs[r] : Ask(r, j)
        PROVE  ReadsInv'
    BY <1>1, <2>1, AskReads
  <2>2. ASSUME NEW r \in Readers, NEW stage \in Stages,
               LookUp(r, stage) \/ Fetch(r, stage) \/ Save(r, stage)
        PROVE  ReadsInv'
    BY <1>1, <2>2, ReadReads, SaveReads
  <2>3. ASSUME NEW r \in Readers, Build(r) \/ Book(r) \/ Pay(r) \/ Place(r) \/ Refuse(r)
        PROVE  ReadsInv'
    BY <1>1, <2>3, LaterReads
  <2>4. ASSUME \/ \E k \in Expiring : Expire(k)
               \/ \E s \in Skus : \E p \in NewPrices : Reprice(s, p)
               \/ \E o \in Offers : \E state \in Turns[o] : Turn(o, state)
               \/ UNCHANGED vars
        PROVE  ReadsInv'
    <3>1. \/ \E k : Expire(k)
          \/ \E s \in Skus : \E p \in NewPrices : Reprice(s, p)
          \/ \E o \in Offers : \E state \in {"runs", "rests", "deleted"} : Turn(o, state)
          \/ UNCHANGED vars
      BY <2>4, PricingAssumption
    <3> QED  BY <1>1, <3>1, OutsideReads
  <2> QED  BY <2>1, <2>2, <2>3, <2>4 DEF Next
<1> QED  BY <1>2, <1>3, <1>4 DEF TInv

LEMMA PreservedTypes == Spec => [](IInv /\ TInv)
<1>1. Init => TInv  BY InitTypes
<1>2. IInv /\ TInv /\ [Next]_vars => TInv'  BY NextTypes
<1> QED  BY <1>1, <1>2, Preserved, PTL DEF Spec

LEMMA AmountTypes ==
  ASSUME NEW lines \in Seq(Line)
  PROVE  /\ Items(lines) \in Int
         /\ ShippingCost(lines) \in Nat
         /\ Total(lines) = Items(lines) + ShippingCost(lines)
<1> DEFINE D == DOMAIN lines
           amounts == [i \in D |-> lines[i].quantity * lines[i].final]
           quantities == [i \in D |-> lines[i].quantity]
<1>1. IsFiniteSet(D)
  <2>1. D = 1 .. Len(lines) /\ Len(lines) \in Nat  BY Elements
  <2> QED  BY <2>1, FS_Interval
<1>2. \A i \in D : lines[i].quantity \in Nat /\ lines[i].final \in Int
  <2>1. \A i \in D : lines[i] \in Line  BY Elements
  <2> QED  BY <2>1 DEF Line
<1>3. amounts \in [D -> Int] /\ quantities \in [D -> Nat]
  <2>1. \A i \in D : lines[i].quantity * lines[i].final \in Int  BY <1>2
  <2> QED  BY <1>2, <2>1
<1>4. Items(lines) = Sum(amounts)
      /\ Boxes(lines) = (Sum(quantities) + MAX_ITEMS_PER_BOX - 1) \div MAX_ITEMS_PER_BOX
  BY DEF Items, Boxes
<1> HIDE DEF D, amounts, quantities
<1>5. Sum(amounts) \in Int /\ Sum(quantities) \in Nat  BY <1>1, <1>3, SumType
<1>6. ShippingCost(lines) \in Nat
  <2>1. \A n \in Nat : (n + 10 - 1) \div 10 \in Nat  OBVIOUS
  <2>2. Boxes(lines) \in Nat  BY <1>4, <1>5, <2>1 DEF MAX_ITEMS_PER_BOX
  <2> QED  BY <2>2 DEF ShippingCost, SHIPPING_COST
<1> QED  BY <1>4, <1>5, <1>6 DEF Total

LEMMA ParsedType ==
  ASSUME NEW x \in Nat
  PROVE  ParseFloat(x) \in Int
BY DEF ParseFloat, GROUPED

\* Types: prices, lists and terms stay under their own keys, in the cache and in
\* what a request has read, and no line is built before what it needs is read
\* (cache.service.ts, the builders, the order's steps).
THEOREM TypeCorrect == Spec => []TypeOK
<1>1. IInv /\ TInv => TypeOK
  <2> SUFFICES ASSUME IInv, TInv
               PROVE  TypeOK
    OBVIOUS
  <2>1. /\ offer \in [Offers -> [state : {"runs", "rests", "deleted"}, uses : Int]]
        /\ pc \in [Readers -> Places]
        /\ job \in [Readers -> Job]
        /\ held \in [Readers -> [Offers -> Nat]]
        /\ builder = [r \in Readers |-> builder[r]]
        /\ built = [r \in Readers |-> built[r]]
    BY DEF IInv, Shape
  <2>2. /\ price \in [Skus -> Nat]
        /\ \A k \in Keys : cached[k] \in Values(k) \cup {Nothing}
        /\ \A r \in Readers : \A k \in Keys : got[r][k] \in Values(k) \cup {Nothing}
        /\ unsaved \in [Readers -> SUBSET Keys]
        /\ ran \subseteq Offers
    BY DEF TInv, ReadsInv, ReadTypes
  <2>3. builder \in [Readers -> Line] /\ built \in [Readers -> Seq(Line)]
    <3>1. \A r \in Readers : builder[r] \in Line /\ built[r] \in Seq(Line)
      BY DEF TInv, LinesInv, LinesOf
    <3> QED  BY <2>1, <3>1
  <2>4. \A r \in Readers : /\ charged[r] \in [items : Int, shipping : Int] \cup {Nothing}
                           /\ recorded[r] \in Int \cup {Nothing}
    <3> SUFFICES ASSUME NEW r \in Readers
                 PROVE  /\ charged[r] \in [items : Int, shipping : Int] \cup {Nothing}
                        /\ recorded[r] \in Int \cup {Nothing}
      OBVIOUS
    <3>1. built[r] \in Seq(Line)  BY <2>3
    <3>2. AmountsOf(r)  BY DEF TInv, AmountsInv
    <3>3. Items(built[r]) \in Int /\ ParseFloat(ShippingCost(built[r])) \in Int
      BY <3>1, AmountTypes, ParsedType
    <3>4. Total(built[r]) \in Int  BY <3>1, AmountTypes
    <3> QED  BY <3>2, <3>3, <3>4 DEF AmountsOf
  <2> QED  BY <2>1, <2>2, <2>3, <2>4 DEF TypeOK, Places
<1> QED  BY <1>1, PreservedTypes, PTL

LEMMA SameTotal ==
  ASSUME NEW x, NEW y, DOMAIN x = DOMAIN y,
         \A i \in DOMAIN x : x[i].quantity = y[i].quantity /\ x[i].final = y[i].final
  PROVE  Total(x) = Total(y)
<1>1. [i \in DOMAIN x |-> x[i].quantity * x[i].final] = [i \in DOMAIN y |-> y[i].quantity * y[i].final]
  OBVIOUS
<1>2. [i \in DOMAIN x |-> x[i].quantity] = [i \in DOMAIN y |-> y[i].quantity]
  OBVIOUS
<1>3. Items(x) = Items(y)  BY <1>1 DEF Items
<1>4. Boxes(x) = Boxes(y)  BY <1>2 DEF Boxes
<1> QED  BY <1>3, <1>4 DEF Total, ShippingCost

\* Of lines that are all checked and of different product versions each has the
\* card of its own, and is shown as it is asked for.
LEMMA CheckedAsAsked ==
  ASSUME NEW lines, Plain(lines), NEW cards, DOMAIN cards = DOMAIN lines,
         \A i \in DOMAIN lines : cards[i].sku = lines[i].sku,
         DOMAIN lines \subseteq Int
  PROVE  LET x == CheckedLines(lines, cards) IN
         /\ DOMAIN x = DOMAIN lines
         /\ \A i \in DOMAIN lines : x[i].quantity = lines[i].quantity /\ x[i].final = cards[i].final
<1> DEFINE checked == RestrictValues(lines, LAMBDA line : line.checked)
           First(i, n) == /\ cards[n].sku = checked[i].sku
                          /\ \A m \in DOMAIN cards : cards[m].sku = checked[i].sku => n <= m
<1>1. DOMAIN checked = DOMAIN lines /\ \A i \in DOMAIN lines : checked[i] = lines[i]
  <2>1. {i \in DOMAIN lines : lines[i].checked} = DOMAIN lines  BY DEF Plain
  <2>2. checked = [i \in {i \in DOMAIN lines : lines[i].checked} |-> lines[i]]
    BY DEF RestrictValues, Restrict
  <2> HIDE DEF checked
  <2> QED  BY <2>1, <2>2
<1>2. CheckedLines(lines, cards) =
        [i \in DOMAIN checked |->
           [quantity |-> checked[i].quantity, final |-> cards[CHOOSE n \in DOMAIN cards : First(i, n)].final]]
  BY DEF CheckedLines
<1> HIDE DEF checked
<1>3. ASSUME NEW i \in DOMAIN lines
      PROVE  (CHOOSE n \in DOMAIN cards : First(i, n)) = i
  <2>1. \A n \in DOMAIN cards : cards[n].sku = checked[i].sku <=> n = i
    BY <1>1 DEF Plain
  <2>2. i <= i  OBVIOUS
  <2>3. First(i, i)  BY <2>1, <2>2
  <2>4. i \in DOMAIN cards  OBVIOUS
  <2>5. \A n \in DOMAIN cards : First(i, n) => n = i  BY <2>1
  <2> HIDE DEF First
  <2> QED  BY <2>3, <2>4, <2>5, Zenon
<1> HIDE DEF First
<1> QED  BY <1>1, <1>2, <1>3

\* The order's map of such lines has the quantity of each.
LEMMA QuantityAsAsked ==
  ASSUME NEW r, Plain(job[r].lines), NEW i \in DOMAIN job[r].lines, DOMAIN job[r].lines \subseteq Int
  PROVE  QuantityOf(r, job[r].lines[i]) = job[r].lines[i].quantity
<1> DEFINE lines == job[r].lines
           s == lines[i].sku
           Last(n) == lines[n].sku = s /\ \A m \in DOMAIN lines : lines[m].sku = s => m <= n
<1>1. \A n \in DOMAIN lines : lines[n].sku = s <=> n = i  BY DEF Plain
<1>2. i <= i  OBVIOUS
<1>3. Last(i)  BY <1>1, <1>2
<1>4. \A n \in DOMAIN lines : Last(n) => n = i  BY <1>1
<1>5. (CHOOSE n \in DOMAIN lines : Last(n)) = i
  <2> HIDE DEF Last
  <2> QED  BY <1>3, <1>4, Zenon
<1>6. OrderedQuantity(lines, s) = lines[CHOOSE n \in DOMAIN lines : Last(n)].quantity
  BY DEF OrderedQuantity, LastLine
<1>7. OrderedQuantity(lines, s) = lines[i].quantity  BY <1>5, <1>6
<1> QED  BY <1>7 DEF QuantityOf

\* Two requests that saw the same grant the same discount.
LEMMA SeenAlike ==
  ASSUME NEW c \in Readers, NEW r \in Readers, Found(c), Found(r),
         pc[c][1] \in {"order", "done"}, pc[r][1] \in {"order", "done"},
         job[c].lines = job[r].lines, SawTheSame(c, r),
         NEW s \in SkusOf(job[r].lines)
  PROVE  /\ UnitPrice(c, s) = UnitPrice(r, s)
         /\ Discount(Applied(c, s)) = Discount(Applied(r, s))
<1>1. pc[c] \notin BeforeLists /\ pc[r] \notin BeforeLists  BY AllRead
<1>2. got[c][List(s)] \in Seq(Offers) /\ got[r][List(s)] \in Seq(Offers)  BY <1>1 DEF Found
<1>3. IsList(OffersIn(got[c], s)) /\ IsList(OffersIn(got[r], s))  BY <1>2, ListOfOffers
<1>4. /\ UnitPrice(c, s) = UnitPrice(r, s)
      /\ Members(OffersIn(got[c], s)) = Members(OffersIn(got[r], s))
      /\ ~Tied(Members(OffersIn(got[r], s)))
  BY DEF SawTheSame, OffersFor
<1>5. Discount(Resolve(OffersIn(got[c], s))) = Discount(Resolve(OffersIn(got[r], s)))
  BY <1>3, <1>4, SameDiscount
<1> QED  BY <1>4, <1>5 DEF Applied, OffersFor

\* What MercadoPago is told to charge is the total shown with the cart, when
\* both saw the same prices and offers, every line was checked and once in the
\* cart, and the shipping cost has no separator; and an order's row records
\* what the preference charges, unless its items cost less than nothing
\* (calcResume, toShoppingCartItemsResumeI, mercadopago.helpers.ts,
\* create-order.step.ts).
THEOREM AmountsMatch == Spec => []AmountsAgree
<1>1. ASSUME IInv, TInv, NEW r \in Readers, charged[r] # Nothing
      PROVE  LET amount == charged[r].items + charged[r].shipping IN
             /\ recorded[r] # Nothing /\ charged[r].items >= 0 => recorded[r] = amount
             /\ \A c \in Readers :
                  /\ pc[c] = <<"done", "shown">> /\ job[c].kind = "cards"
                  /\ job[c].lines = job[r].lines /\ Plain(job[r].lines)
                  /\ SawTheSame(c, r)
                  /\ ShippingCost(built[r]) < GROUPED
                  => Shown(c) = amount
  <2> DEFINE b == built[r]
             amount == charged[r].items + charged[r].shipping
  <2>1. /\ b \in Seq(Line)
        /\ pc[r][1] \in {"order", "done"}
        /\ charged[r] = [items |-> Items(b), shipping |-> ParseFloat(ShippingCost(b))]
        /\ recorded[r] # Nothing => recorded[r] = Total(b) /\ IsDecimal(Total(b))
    BY <1>1 DEF TInv, LinesInv, LinesOf, AmountsInv, AmountsOf
  <2> HIDE DEF b
  <2>2. /\ Items(b) \in Int
        /\ ShippingCost(b) \in Nat
        /\ Total(b) = Items(b) + ShippingCost(b)
    BY <2>1, AmountTypes
  <2>3. ShippingCost(b) < GROUPED => amount = Total(b)
    <3>1. ShippingCost(b) < GROUPED => ParseFloat(ShippingCost(b)) = ShippingCost(b)
      BY DEF ParseFloat
    <3> QED  BY <2>1, <2>2, <3>1
  <2>4. recorded[r] # Nothing /\ charged[r].items >= 0 => recorded[r] = amount
    <3> SUFFICES ASSUME recorded[r] # Nothing, charged[r].items >= 0
                 PROVE  recorded[r] = amount
      OBVIOUS
    <3>1. Items(b) >= 0 /\ Total(b) < GROUPED /\ recorded[r] = Total(b)  BY <2>1 DEF IsDecimal
    <3>2. ShippingCost(b) < GROUPED  BY <2>2, <3>1 DEF GROUPED
    <3> QED  BY <2>3, <3>1, <3>2
  <2>5. ASSUME NEW c \in Readers, pc[c] = <<"done", "shown">>, job[c].lines = job[r].lines,
               Plain(job[r].lines), SawTheSame(c, r), ShippingCost(b) < GROUPED
        PROVE  Shown(c) = amount
    <3> DEFINE lines == job[r].lines
               x == CheckedLines(lines, built[c])
    <3>1. pc[c][1] = "done"  BY <2>5
    <3>2. LinesOf(c) /\ LinesOf(r) /\ OwnLines(c) /\ OwnLines(r) /\ Found(c) /\ Found(r)
      BY <1>1 DEF IInv, TInv, LinesInv, ReadsInv
    <3>3. DOMAIN lines = 1 .. Len(lines) /\ Len(lines) \in Nat
          /\ \A i \in DOMAIN lines : lines[i].sku \in SkusOf(lines)
      <4>1. job[r] \in Job  BY <1>1 DEF IInv, Shape
      <4>2. lines \in Seq([sku : Skus, product : Products, quantity : Nat, checked : BOOLEAN])  BY <4>1, JobSkus
      <4> HIDE DEF lines
      <4> QED  BY <4>2, Elements DEF SkusOf
    <3>4. DOMAIN built[c] = DOMAIN lines /\ DOMAIN b = DOMAIN lines
      <4>1. Len(built[c]) = Len(lines) /\ Len(b) = Len(lines)
        BY <2>1, <2>5, <3>1, <3>2 DEF LinesOf, b
      <4>2. DOMAIN built[c] = 1 .. Len(built[c]) /\ DOMAIN b = 1 .. Len(b)
        BY <2>1, <3>2, Elements DEF LinesOf
      <4> QED  BY <3>3, <4>1, <4>2
    <3>5. ASSUME NEW i \in DOMAIN lines
          PROVE  /\ built[c][i].sku = lines[i].sku
                 /\ b[i].quantity = lines[i].quantity
                 /\ b[i].final = built[c][i].final
      <4> DEFINE s == lines[i].sku
      <4>1. built[c][i].sku = s /\ b[i].sku = s /\ b[i].quantity = QuantityOf(r, lines[i])
        BY <2>5, <3>2, <3>4 DEF LinesOf, b
      <4>2. QuantityOf(r, lines[i]) = lines[i].quantity
        <5>1. DOMAIN lines \subseteq Int  BY <3>3
        <5> QED  BY <2>5, <5>1, QuantityAsAsked
      <4>3. /\ UnitPrice(c, s) = UnitPrice(r, s)
            /\ Discount(Applied(c, s)) = Discount(Applied(r, s))
        BY <2>1, <2>5, <3>1, <3>2, <3>3, SeenAlike
      <4>4. OwnLine(c, i) /\ OwnLine(r, i)  BY <3>2, <3>4 DEF OwnLines, b
      <4> HIDE DEF s
      <4>5. built[c][i].final = IF Discount(Applied(c, s)) > 0
                                THEN Discounted(UnitPrice(c, s), Discount(Applied(c, s)))
                                ELSE UnitPrice(c, s)
        BY <4>1, <4>4 DEF OwnLine, OwnParts
      <4>6. b[i].final = IF Discount(Applied(r, s)) > 0
                         THEN Discounted(UnitPrice(r, s), Discount(Applied(r, s)))
                         ELSE UnitPrice(r, s)
        BY <4>1, <4>4 DEF OwnLine, OwnParts, b
      <4> QED  BY <4>1, <4>2, <4>3, <4>5, <4>6 DEF s
    <3> HIDE DEF lines
    <3>6. /\ DOMAIN x = DOMAIN lines
          /\ \A i \in DOMAIN lines : x[i].quantity = lines[i].quantity /\ x[i].final = built[c][i].final
      <4>1. DOMAIN lines \subseteq Int  BY <3>3
      <4>2. Plain(lines)  BY <2>5 DEF lines
      <4> QED  BY <3>4, <3>5, <4>1, <4>2, CheckedAsAsked
    <3> HIDE DEF x
    <3>7. Total(x) = Total(b)  BY <3>4, <3>5, <3>6, SameTotal
    <3>8. Shown(c) = Total(x)  BY <2>5 DEF Shown, x, lines
    <3> QED  BY <2>3, <2>5, <3>7, <3>8
  <2> QED  BY <2>4, <2>5 DEF b
<1>2. IInv /\ TInv => AmountsAgree  BY <1>1 DEF AmountsAgree
<1> QED  BY <1>2, PreservedTypes, PTL

=============================================================================
