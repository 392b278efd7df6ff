----------------------------- MODULE ShoppingCart -----------------------------
(***************************************************************************)
(* ShoppingCartService: every client, a session or a customer, has one     *)
(* cached cart under the entity client:shopping-cart, which nobody         *)
(* invalidates.  An operation reads the cached cart, changes the copy and  *)
(* writes it back as a whole.  A read is a write, too: a hit writes the    *)
(* entry it has read back to count itself, and a customer's miss saves the *)
(* cart of the database.  A customer's stale entry is replaced by the      *)
(* database's in the background.                                           *)
(*                                                                         *)
(* A cart maps each product version to its lines; the order of the lines   *)
(* of different product versions is left out.  Product versions are not    *)
(* deleted while they are in a cart.                                       *)
(***************************************************************************)
EXTENDS Integers, Sequences, FiniteSets

CONSTANTS
  Sessions,     \* session ids
  Customers,    \* customers
  NoCustomer,   \* no one is logged in
  Nobody,       \* the client in the key of a query without uuid
  Skus,         \* product versions
  Stocks,       \* Stocks[s]: values of the (cached) stock of s that are seen
  Requests,     \* requests of clients, and carts the payment worker updates
  Who,          \* Who[r]: the session and the customer of request r
  Jobs          \* Jobs[r]: what request r may ask for

Clients == Sessions \cup Customers

Operations == {"view", "setItem", "removeItem", "toggleCheck", "checkAll", "uncheckAll",
               "clear", "merge", "create", "save", "bought"}

Job == [op : Operations, skus : SUBSET Skus, quantity : Int, isChecked : BOOLEAN,
        type : {"set", "update"}]

ForCustomers == {"merge", "create", "save"}

ASSUME CartAssumption ==
  /\ Sessions \cap Customers = {}
  /\ NoCustomer \notin Customers
  /\ Nobody \notin Clients
  /\ Stocks \in [Skus -> SUBSET Int]
  /\ Who \in [Requests -> [session : Sessions, customer : Customers \cup {NoCustomer}]]
  /\ Jobs \in [Requests -> SUBSET Job]
  /\ \A r \in Requests : \A j \in Jobs[r] :
       /\ j.op \in ForCustomers => Who[r].customer # NoCustomer
       /\ j.op = "setItem" => j.skus # {}

VARIABLES
  entry,      \* the cached carts: items, and whether staleAt has passed
  saved,      \* the customers' carts in the database
  refresh,    \* a customer's background refresh
  pc,         \* where a request stands
  job,        \* what it has been asked for
  reads,      \* the clients whose cart it has still to read
  hit,        \* the entry its read is about to write
  got,        \* the lines it has read
  asked,      \* history: product versions a client has put into its cart
  merged,     \* history: customers whose cart was merged with a session's
  ideal,      \* history: the carts if operations took effect at once
  disturbed   \* history: clients with overlapping requests, lost or replaced entries

cartVars == <<entry, saved, refresh>>
requestVars == <<pc, job, reads, hit, got>>
history == <<asked, merged, ideal, disturbed>>
vars == <<cartVars, requestVars, history>>

-----------------------------------------------------------------------------
(* Carts.                                                                  *)

Line == [quantity : Int, isChecked : BOOLEAN]

Cart == [Skus -> Seq(Line)]

EmptyCart == [s \in Skus |-> <<>>]

\* A cache entry, a customer's row in the database, a background refresh.
Entry == [state : {"absent", "fresh", "stale"}, items : Cart]

Row == [exists : BOOLEAN, items : Cart]

Refresh == [state : {"none", "due", "fetched"}, items : Cart]

Absent == [state |-> "absent", items |-> EmptyCart]

Fresh(cart) == [state |-> "fresh", items |-> cart]

\* What a client that asks now would see.
View(c) ==
  IF entry[c].state # "absent" THEN entry[c].items
  ELSE IF c \in Customers THEN saved[c].items ELSE EmptyCart

Concat(a, b) == [s \in Skus |-> a[s] \o b[s]]

OnLines(cart, skus, F(_)) ==
  [s \in Skus |-> IF s \in skus THEN [i \in DOMAIN cart[s] |-> F(cart[s][i])] ELSE cart[s]]

Without(cart, skus) == [s \in Skus |-> IF s \in skus THEN <<>> ELSE cart[s]]

\* Mutant: the quantity is not compared with the stock.
UncheckedStock(quantity, stock) == quantity

ResolveStock(quantity, stock) == IF quantity > stock THEN stock ELSE quantity

\* Mutant: the line is appended without looking for one of its product version.
AppendItem(cart, s, j, stock) ==
  [cart EXCEPT ![s] =
     Append(@, [quantity |-> ResolveStock(j.quantity, stock), isChecked |-> j.isChecked])]

\* setItem: all lines of the product version get the quantity worked out for
\* the first; a product version without a line gets one.
SetItem(cart, s, j, stock) ==
  IF cart[s] = <<>>
  THEN [cart EXCEPT ![s] =
          <<[quantity |-> ResolveStock(j.quantity, stock), isChecked |-> j.isChecked]>>]
  ELSE LET base == IF j.type = "set" THEN 0 ELSE cart[s][1].quantity
           resolved == ResolveStock(base + j.quantity, stock) IN
       OnLines(cart, {s}, LAMBDA line : [line EXCEPT !.quantity = resolved])

\* What an operation makes of the lines it has read.
Updated(cart, j, stock) ==
  CASE j.op = "setItem" -> SetItem(cart, CHOOSE s \in j.skus : TRUE, j, stock)
    [] j.op \in {"removeItem", "bought"} -> Without(cart, j.skus)
    [] j.op = "toggleCheck" -> OnLines(cart, j.skus, LAMBDA line : [line EXCEPT !.isChecked = ~@])
    [] j.op = "checkAll" -> OnLines(cart, Skus, LAMBDA line : [line EXCEPT !.isChecked = TRUE])
    [] j.op = "uncheckAll" -> OnLines(cart, Skus, LAMBDA line : [line EXCEPT !.isChecked = FALSE])
    [] j.op = "clear" -> EmptyCart
    [] OTHER -> cart

-----------------------------------------------------------------------------
(* Requests.                                                               *)

\* Mutant: the session goes before the customer.
SessionFirst(r) == Who[r].session

ResolveClient(r) ==
  IF Who[r].customer # NoCustomer THEN Who[r].customer ELSE Who[r].session

\* The carts an operation reads, in order.
ReadsOf(r, op) ==
  CASE op = "clear" -> <<>>
    [] op = "merge" -> <<Who[r].session, Who[r].customer>>
    [] op = "create" -> <<Who[r].session>>
    [] OTHER -> <<ResolveClient(r)>>

\* The worker's update reads the buyer's cart but builds the key it writes
\* from the customer alone.
Target(r) ==
  IF job[r].op = "bought" /\ Who[r].customer = NoCustomer THEN Nobody ELSE ResolveClient(r)

\* The clients whose cart an operation reads or writes.
Concerns(r, op) ==
  {ResolveClient(r)} \cup (IF op \in {"merge", "create"} THEN {Who[r].session} ELSE {})

InFlight(r) == pc[r] \in {"read", "back", "write"}

Receive(r) ==
  /\ pc[r] = "idle"
  /\ \E j \in Jobs[r] :
       /\ job' = [job EXCEPT ![r] = j]
       /\ reads' = [reads EXCEPT ![r] = ReadsOf(r, j.op)]
       /\ pc' = [pc EXCEPT ![r] = IF j.op = "clear" THEN "write" ELSE "read"]
       /\ disturbed' = disturbed \cup UNION {Concerns(r, j.op) \cap Concerns(q, job[q].op) :
                                               q \in {q \in Requests : InFlight(q)}}
  /\ UNCHANGED <<cartVars, hit, got, asked, merged, ideal>>

\* Mutant: the second cart that is read replaces the first.
TookLast(r, e) ==
  /\ hit' = [hit EXCEPT ![r] = e]
  /\ got' = [got EXCEPT ![r] = e.items]
  /\ pc' = [pc EXCEPT ![r] = "back"]
  /\ UNCHANGED <<entry, saved, job, reads, history>>

Took(r, e) ==
  /\ hit' = [hit EXCEPT ![r] = e]
  /\ got' = [got EXCEPT ![r] = Concat(@, e.items)]
  /\ pc' = [pc EXCEPT ![r] = "back"]
  /\ UNCHANGED <<entry, saved, job, reads, history>>

\* getData, and a hit of the revalidating strategy, which starts a refresh if
\* the entry is stale.
ReadHit(r) ==
  LET c == Head(reads[r]) IN
  /\ pc[r] = "read"
  /\ entry[c].state # "absent"
  /\ Took(r, entry[c])
  /\ refresh' = IF c \in Customers /\ entry[c].state = "stale" /\ refresh[c].state = "none"
                THEN [refresh EXCEPT ![c].state = "due"] ELSE refresh

\* A customer's miss fetches the database's cart.
ReadDatabase(r) ==
  LET c == Head(reads[r]) IN
  /\ pc[r] = "read"
  /\ entry[c].state = "absent"
  /\ c \in Customers
  /\ Took(r, Fresh(saved[c].items))
  /\ UNCHANGED refresh

\* Mutant: one cart too many is asked for.
ReadOnTooFar(r) ==
  /\ reads' = [reads EXCEPT ![r] = Tail(@)]
  /\ pc' = [pc EXCEPT ![r] = IF reads[r] = <<>> THEN "write" ELSE "read"]
  /\ UNCHANGED <<saved, refresh, job, hit, got, history>>

ReadOn(r) ==
  /\ reads' = [reads EXCEPT ![r] = Tail(@)]
  /\ pc' = [pc EXCEPT ![r] = IF Len(reads[r]) = 1 THEN "write" ELSE "read"]
  /\ UNCHANGED <<saved, refresh, job, hit, got, history>>

\* A session without an entry has an empty cart.
ReadNothing(r) ==
  /\ pc[r] = "read"
  /\ entry[Head(reads[r])].state = "absent"
  /\ Head(reads[r]) \in Sessions
  /\ ReadOn(r)
  /\ UNCHANGED entry

\* The hit's write-back, or the miss's save.  Nobody waits for the answer to
\* the write-back, but it is handed to the process's one connection to Redis
\* before getData returns, ahead of all the request does next.
Back(r) ==
  /\ pc[r] = "back"
  /\ entry' = [entry EXCEPT ![Head(reads[r])] = hit[r]]
  /\ ReadOn(r)

\* A failed write-back is only logged; a call that waited too long for the
\* holder of the lock does not save.
NoBack(r) ==
  /\ pc[r] = "back"
  /\ ReadOn(r)
  /\ UNCHANGED entry

Ends(r) ==
  /\ pc' = [pc EXCEPT ![r] = "done"]
  /\ UNCHANGED <<refresh, job, reads, hit, got>>

\* View and load change nothing more.
Answer(r) ==
  /\ pc[r] = "write"
  /\ job[r].op = "view"
  /\ Ends(r)
  /\ UNCHANGED <<entry, saved, history>>

\* An unknown product version, a broken connection, a taken row.
Fails(r) ==
  /\ pc[r] \in {"read", "write"}
  /\ Ends(r)
  /\ UNCHANGED <<entry, saved, history>>

\* The product versions a finished request has put into its client's cart.
AskedBy(r) ==
  CASE job[r].op = "setItem" -> job[r].skus
    [] job[r].op \in {"merge", "create"} -> asked[Who[r].session]
    [] OTHER -> {}

Intended(r) == IF Who[r].customer # NoCustomer THEN Who[r].customer ELSE Who[r].session

\* setData with the changed cart.
WriteCache(r) ==
  LET j == job[r]
      c == Intended(r) IN
  /\ pc[r] = "write"
  /\ j.op \notin {"view", "create", "save"}
  /\ \E stock \in IF j.op = "setItem" THEN Stocks[CHOOSE s \in j.skus : TRUE] ELSE {0} :
       /\ entry' = [entry EXCEPT ![Target(r)] = Fresh(Updated(got[r], j, stock))]
       /\ ideal' = [ideal EXCEPT ![c] =
            Updated(IF j.op = "merge" THEN Concat(ideal[Who[r].session], @) ELSE @, j, stock)]
  /\ asked' = [asked EXCEPT ![c] = @ \cup AskedBy(r)]
  /\ merged' = IF j.op = "merge" THEN merged \cup {c} ELSE merged
  /\ disturbed' = IF \/ j.op = "bought" /\ Who[r].customer = NoCustomer
                     \/ j.op = "merge" /\ Who[r].session \in disturbed
                  THEN disturbed \cup {c} ELSE disturbed
  /\ Ends(r)
  /\ UNCHANGED saved

HasDuplicates(cart) == \E s \in Skus : Len(cart[s]) > 1

\* customer_id is unique: the second row of a customer is refused.
RowExists(c) == saved[c].exists

\* createShoppingCart copies the session's lines with createMany, which
\* refuses two rows of a product version; saveShoppingCart upserts the
\* customer's, so that the last line of a product version wins.
WriteDatabase(r) ==
  LET c == Who[r].customer
      op == job[r].op IN
  /\ pc[r] = "write"
  /\ op \in {"create", "save"}
  /\ ~RowExists(c)
  /\ op = "create" => ~HasDuplicates(got[r])
  /\ saved' = [saved EXCEPT ![c] = [exists |-> TRUE, items |-> [s \in Skus |->
       IF got[r][s] = <<>> THEN <<>> ELSE <<got[r][s][Len(got[r][s])]>>]]]
  /\ asked' = [asked EXCEPT ![c] = @ \cup AskedBy(r)]
  /\ disturbed' = IF entry[c].state = "absent" THEN disturbed \cup {c} ELSE disturbed
  /\ Ends(r)
  /\ UNCHANGED <<entry, merged, ideal>>

-----------------------------------------------------------------------------
(* The cache.                                                              *)

RefreshFetch(c) ==
  /\ refresh[c].state = "due"
  /\ refresh' = [refresh EXCEPT ![c] = [state |-> "fetched", items |-> saved[c].items]]
  /\ UNCHANGED <<entry, saved, requestVars, history>>

RefreshSave(c) ==
  /\ refresh[c].state = "fetched"
  /\ entry' = [entry EXCEPT ![c] = Fresh(refresh[c].items)]
  /\ refresh' = [refresh EXCEPT ![c].state = "none"]
  /\ disturbed' = disturbed \cup {c}
  /\ UNCHANGED <<saved, requestVars, asked, merged, ideal>>

Age(c) ==
  /\ entry[c].state = "fresh"
  /\ entry' = [entry EXCEPT ![c].state = "stale"]
  /\ UNCHANGED <<saved, refresh, requestVars, history>>

Expire(c) ==
  /\ entry[c].state # "absent"
  /\ entry' = [entry EXCEPT ![c] = Absent]
  /\ disturbed' = disturbed \cup {c}
  /\ UNCHANGED <<saved, refresh, requestVars, asked, merged, ideal>>

-----------------------------------------------------------------------------
NoJob == [op |-> "view", skus |-> {}, quantity |-> 0, isChecked |-> FALSE, type |-> "set"]

Init ==
  /\ entry = [c \in Clients \cup {Nobody} |-> Absent]
  /\ saved = [c \in Customers |-> [exists |-> FALSE, items |-> EmptyCart]]
  /\ refresh = [c \in Customers |-> [state |-> "none", items |-> EmptyCart]]
  /\ pc = [r \in Requests |-> "idle"]
  /\ job = [r \in Requests |-> NoJob]
  /\ reads = [r \in Requests |-> <<>>]
  /\ hit = [r \in Requests |-> Absent]
  /\ got = [r \in Requests |-> EmptyCart]
  /\ asked = [c \in Clients |-> {}]
  /\ merged = {}
  /\ ideal = [c \in Clients |-> EmptyCart]
  /\ disturbed = {}

Next ==
  \/ \E r \in Requests :
       \/ Receive(r) \/ ReadHit(r) \/ ReadDatabase(r) \/ ReadNothing(r)
       \/ Back(r) \/ NoBack(r) \/ Answer(r) \/ Fails(r)
       \/ WriteCache(r) \/ WriteDatabase(r)
  \/ \E c \in Customers : RefreshFetch(c) \/ RefreshSave(c)
  \/ \E c \in Clients : Age(c) \/ Expire(c)

Spec == Init /\ [][Next]_vars

-----------------------------------------------------------------------------
(* Properties.                                                             *)

\* Every variable keeps its type; only a customer's cart has a refresh and a
\* row, and a request in the middle of a read knows whose cart it reads.
TypeOK ==
  /\ entry \in [Clients \cup {Nobody} -> Entry]
  /\ saved \in [Customers -> Row]
  /\ refresh \in [Customers -> Refresh]
  /\ pc \in [Requests -> {"idle", "read", "back", "write", "done"}]
  /\ job \in [Requests -> Job]
  /\ reads \in [Requests -> Seq(Clients)]
  /\ hit \in [Requests -> Entry]
  /\ got \in [Requests -> Cart]
  /\ asked \in [Clients -> SUBSET Skus]
  /\ merged \subseteq Customers
  /\ ideal \in [Clients -> Cart]
  /\ disturbed \subseteq Clients
  /\ \A r \in Requests : pc[r] \in {"read", "back"} => reads[r] # <<>>

\* However requests, write-backs and refreshes interleave, a cart has two
\* lines of one product version only if it was merged with a session's
\* (setItem looks for the line in its own copy of the cart).
DuplicatesOnlyByMerge ==
  \A c \in Clients \ merged : ~HasDuplicates(View(c))

\* No line asks for more pieces than the product version has ever had
\* (resolveStock), whichever copy of a cart is written last.
QuantitiesWithinStock ==
  \A c \in Clients : \A s \in Skus : \A i \in DOMAIN View(c)[s] :
    \E stock \in Stocks[s] : View(c)[s][i].quantity <= stock

\* A client's cart holds only product versions that its own requests, or those
\* of a session merged into it or saved for it, have put there: no request,
\* write-back or refresh brings lines of another client.
LinesAskedFor ==
  \A c \in Clients : \A s \in Skus : View(c)[s] # <<>> => s \in asked[c]

\* As long as the requests of a client do not overlap and its entry has not
\* expired or been replaced by the database's, what it sees, also in the middle
\* of a request, is what its operations make of the cart one after the other,
\* none lost and none applied twice.
SequentialChangesKept ==
  \A c \in Clients \ disturbed : View(c) = ideal[c]

=============================================================================
