------------------------------ MODULE BackOffice ------------------------------
(***************************************************************************)
(* The services that keep the shop's records: staff users, products and    *)
(* their versions, categories, subcategories, offers, reviews, favorites,  *)
(* addresses, customers and orders.  All of them work alike: a request     *)
(* reads some rows, decides, writes rows in a transaction, and invalidates *)
(* the cached views of them, before or after the transaction commits.      *)
(*                                                                         *)
(* A request is a list of steps, each one statement or one call of the     *)
(* cache.  The database is PostgreSQL at READ COMMITTED: a transaction     *)
(* sees its own writes and what others have committed, and a write waits   *)
(* for the transaction that has written the row.  A row may be flagged:    *)
(* the user is the superuser, the version the main one of its product, the *)
(* address the customer's default, the review one of its customer's, the   *)
(* order has been approved.  A cached view is the set of changes that it   *)
(* misses, saved under the version that its load has read; an invalidation *)
(* reads the version and sets it to the next, and seven days later the     *)
(* version expires.  One detail of a product is looked at.                 *)
(***************************************************************************)
EXTENDS Integers, Sequences, FiniteSets

CONSTANTS
  Rows,      \* rows that may exist
  KindOf,    \* KindOf[s]: the table of row s
  OwnerOf,   \* OwnerOf[s]: the customer, product, ... that row s belongs to
  Refs,      \* Refs[s]: the rows that row s refers to
  Initially, \* the database at the start
  Detailed,  \* the product whose detail is looked at
  Requests,  \* requests
  Jobs,      \* Jobs[r]: what request r may ask for
  MaxExpiries \* bound: versions of views that expire

Kinds == {"user", "product", "version", "category", "subcategory", "offer", "review",
          "favorite", "address", "shipping", "customer", "order"}

States == {"absent", "plain", "flagged"}

-----------------------------------------------------------------------------
(* The operations that change records: their steps, and the views they     *)
(* invalidate.  Nobody reads a view by some of these names.                *)

Op(steps, drops) == [steps |-> steps, drops |-> drops]

UserOps ==
  LET drops == {"users:dashboard"} IN
  [createUser |-> Op(<<"read", "insert", "commit", "invalidate">>, drops),
   updateUser |-> Op(<<"update", "commit", "invalidate">>, drops),
   removeUser |-> Op(<<"read", "delete", "commit", "invalidate">>, drops)]

ProductOps ==
  [createProduct |-> Op(<<"insert", "commit">>, {}),
   patchProduct |-> Op(<<"update", "invalidate", "commit">>, {"product:detail"}),
   deleteProduct |-> Op(<<"delete", "commit", "invalidate">>, {"products", "product:detail"})]

\* The version's delete goes on with "read" and "promote" if it was the main one.
VersionOps ==
  [createVersion |-> Op(<<"insert", "invalidate", "commit">>,
     {"product:detail", "product-version:list", "product-version:stock:dashboard"}),
   patchVersion |-> Op(<<"clear", "update", "invalidate", "commit">>, {"product:detail"}),
   deleteVersion |-> Op(<<"read", "delete", "invalidate", "commit">>,
     {"product-version:search:cards", "product-version:show-details"})]

StockOps ==
  [updateStock |-> Op(<<"update", "invalidate", "commit">>, {"product-version:stock:dashboard"})]

CategoryOps ==
  LET drops == {"categories", "categories:summary"} IN
  [createCategory |-> Op(<<"insert", "commit", "invalidate">>, drops),
   patchCategory |-> Op(<<"update", "commit", "invalidate">>, drops),
   deleteCategory |-> Op(<<"delete", "commit", "invalidate">>, drops)]

SubcategoryOps ==
  LET drops == {"subcategories"} IN
  [createSubcategory |-> Op(<<"insert", "invalidate", "commit">>, drops),
   patchSubcategory |-> Op(<<"update", "invalidate", "commit">>, drops),
   deleteSubcategory |-> Op(<<"delete", "commit", "invalidate">>, drops)]

OfferOps ==
  LET drops == {"product-version:search:cards", "offers:dashboard"} IN
  [createOffer |-> Op(<<"insert", "commit", "invalidate">>, drops),
   updateOffer |-> Op(<<"update", "commit", "invalidate">>, drops),
   deleteOffer |-> Op(<<"delete", "commit", "invalidate">>, drops)]

AddReview ==
  [addReview |-> Op(<<"read", "insert", "commit", "invalidate">>,
     {"product-version:show:details"})]

DeleteReview ==
  [deleteReview |-> Op(<<"delete", "commit", "invalidate">>,
     {"product:reviews:dashboard", "product:reviews:rating-review-resume"})]

\* A patch hands the request's fields to Prisma under names that are no columns:
\* the update throws, after it has read the address.
AddressOps ==
  LET drops == {"customer:addresses"} IN
  [createAddress |-> Op(<<"read", "clear", "insert", "invalidate", "commit">>, drops),
   patchAddress |-> Op(<<"read">>, {}),
   deleteAddress |-> Op(<<"delete", "read", "promote", "invalidate", "commit">>, drops)]

FavoriteOps ==
  [toogleFavorite |-> Op(<<"read", "toggle", "invalidate", "commit">>,
     {"customer:favorites:uuid", "product-version:search:cards:uuid"})]

ShippingOps == [updateShipping |-> Op(<<"update", "commit">>, {})]

\* The views that show customers or orders are never invalidated.
CustomerOps == [updateCustomer |-> Op(<<"read", "update", "commit">>, {})]

OrderOps == [updateOrderStatus |-> Op(<<"read", "update", "commit">>, {})]

Services == {UserOps, ProductOps, VersionOps, StockOps, CategoryOps, SubcategoryOps, OfferOps,
             AddReview, DeleteReview, AddressOps, FavoriteOps, ShippingOps, CustomerOps,
             OrderOps}

\* Looking at a cached view loads it.
LoadOps == [load |-> Op(<<"lookup", "fetch", "save">>, {})]

AllOps == Services \cup {LoadOps}

Operations == UNION {DOMAIN ops : ops \in AllOps}

OpOf(name) == (CHOOSE ops \in AllOps : name \in DOMAIN ops)[name]

-----------------------------------------------------------------------------
(* The cached views, and the tables their fallbacks read.                  *)

View(name, shows) == [name |-> name, shows |-> shows]

UserViews == {View("users:dashboard", {"user"})}

ProductViews ==
  {View("products", {"product", "category", "subcategory", "user"}),
   View("product:detail", {"product", "category", "subcategory", "user", "version"})}

ReviewViews ==
  {View("product:reviews", {"review"}),
   View("product-version:reviews:rating-review-resume", {"review"}),
   View("product:reviews:dashboard", {"review", "version", "product"})}

CustomerReviewViews ==
  {View("customer:product-version:reviews",
        {"review", "version", "product", "category", "subcategory"})}

VersionViews ==
  {View("product-version:list", {"version", "product", "category"}),
   View("product-version:stock:dashboard", {"version"})}

CategoryViews ==
  {View("categories", {"category"}),
   View("categories:summary", {"category", "version", "product"})}

SubcategoryViews == {View("subcategories", {"subcategory"})}

OfferViews == {View("offers:dashboard", {"offer"})}

ApplicableOfferViews == {View("product:version:offers", {"offer"}), View("offer", {"offer"})}

AddressViews == {View("customer:addresses", {"address"})}

FavoriteViews == {View("customer:favorites", {"favorite"})}

ShippingViews == {View("shipping:dashboard", {"shipping"}), View("order:shippings", {"shipping"})}

CustomerViews == {View("customer:all", {"customer"}), View("customer", {"customer"})}

CustomerOrderViews ==
  LET items == {"version", "product", "category", "subcategory"} IN
  {View("customer:orders", {"order", "customer"} \cup items),
   View("customer:order:checkout", {"order"} \cup items)}

OrderViews == {View("orders:dashboard", {"order"})}

MetricViews ==
  {View("metrics:total_customers", {"customer"}),
   View("metrics:total_approved_orders", {"order"}),
   View("metrics:low_stock_products", {"version", "product"}),
   View("metrics:latest_approved_orders", {"order"})}

SalesViews ==
  {View("metrics:top_selling_products", {"order", "version", "product", "category"}),
   View("metrics:sales_chart", {"order"})}

Views == UNION {UserViews, ProductViews, ReviewViews, CustomerReviewViews, VersionViews,
                CategoryViews, SubcategoryViews, OfferViews, ApplicableOfferViews, AddressViews,
                FavoriteViews, ShippingViews, CustomerViews, CustomerOrderViews, OrderViews,
                MetricViews, SalesViews}

ViewNames == {v.name : v \in Views}

\* The views that read a table.
Showing(kind) == {v.name : v \in {w \in Views : kind \in w.shows}}

-----------------------------------------------------------------------------
Owners == {OwnerOf[s] : s \in Rows}

\* What a request asks for: an operation on a row, with the flag it sends and, in
\* the patch of a version, the product it names; or the load of a view.
Job == [op : Operations, row : Rows, flag : {"keep", "set", "unset"}, father : Owners,
        view : ViewNames]

ASSUME BackOfficeAssumption ==
  /\ KindOf \in [Rows -> Kinds]
  /\ Refs \in [Rows -> SUBSET Rows]
  /\ Initially \in [Rows -> States]
  /\ Jobs \in [Requests -> SUBSET Job]
  /\ MaxExpiries \in Nat

\* The table that a service writes.
Tables ==
  {<<UserOps, "user">>, <<ProductOps, "product">>, <<VersionOps, "version">>,
   <<StockOps, "version">>, <<CategoryOps, "category">>, <<SubcategoryOps, "subcategory">>,
   <<OfferOps, "offer">>, <<AddReview, "review">>, <<DeleteReview, "review">>,
   <<AddressOps, "address">>, <<FavoriteOps, "favorite">>, <<ShippingOps, "shipping">>,
   <<CustomerOps, "customer">>, <<OrderOps, "order">>}

\* An operation's row is one of its service's table; changes of a user's names and
\* of a version's stock leave the flag alone.
ASSUME TablesAssumption ==
  \A r \in Requests : \A j \in Jobs[r] :
    /\ \A t \in Tables : j.op \in DOMAIN t[1] => KindOf[j.row] = t[2]
    /\ j.op \in {"updateUser", "updateStock"} => j.flag = "keep"

\* At the start nothing is flagged twice, and where a flag is handed on there is one.
ASSUME FlagsAssumption ==
  /\ \A s, t \in Rows :
       /\ KindOf[s] \in {"user", "address", "review"}
       /\ KindOf[t] = KindOf[s] /\ OwnerOf[t] = OwnerOf[s]
       /\ Initially[s] = "flagged" /\ Initially[t] = "flagged"
       => s = t
  /\ \A s \in Rows :
       KindOf[s] \in {"address", "version"} /\ Initially[s] # "absent" =>
         \E t \in Rows : /\ KindOf[t] = KindOf[s] /\ OwnerOf[t] = OwnerOf[s]
                         /\ Initially[t] = "flagged"

VARIABLES
  db,        \* the committed rows
  pending,   \* pending[r]: the rows r's transaction has written
  todo,      \* the steps a request has still to take
  job,       \* what it has been asked for
  found,     \* the rows it has read, and those that were flagged
  entries,   \* the views saved: under which version, and the requests whose
             \* changes they miss
  version,   \* the version of a view; an absent key counts as 1
  counting,  \* the requests that have read the versions they invalidate
  counted,   \* what they have read
  expiries,  \* versions that have expired
  seen,      \* the version under which a load saves
  missing,   \* the requests whose changes a load has missed
  dropped,   \* history: the requests that have invalidated
  committed, \* history: the requests that have committed
  raced,     \* history: those whose views were loaded after they had read the
             \* versions and before they committed
  setBack,   \* history: the views whose version was set to a lower one
  outdated,  \* history: requests whose reads another's commit has outdated
  outrun,    \* history: owners changed by such a request
  unset      \* history: owners whose flag was taken away by a request that
             \* gives it to none of them, or never given

dbVars == <<db, pending>>
requestVars == <<todo, job, found>>
cacheVars == <<entries, version, counting, counted, expiries, seen, missing>>
viewHistory == <<dropped, committed, raced, setBack>>
flagHistory == <<outdated, outrun, unset>>
vars == <<dbVars, requestVars, cacheVars, viewHistory, flagHistory>>

-----------------------------------------------------------------------------
(* Rows.                                                                   *)

Group(s) == <<KindOf[s], OwnerOf[s]>>

Siblings(s) == {t \in Rows : Group(t) = Group(s)}

\* What a transaction sees of a row.
Sees(r, s) == IF pending[r][s] = "same" THEN db[s] ELSE pending[r][s]

\* Mutant: a write does not wait.
AlwaysFree(r, S) == TRUE

Free(r, S) == \A q \in Requests \ {r} : \A s \in S : pending[q][s] = "same"

Row(r) == job[r].row

Kind(r) == KindOf[Row(r)]

At(r, step) == todo[r] # <<>> /\ Head(todo[r]) = step

Continue(r) == todo' = [todo EXCEPT ![r] = Tail(@)]

\* A statement that writes rows S, to the values F gives them.
Write(r, S, F(_)) ==
  /\ Free(r, S)
  /\ pending' = [pending EXCEPT ![r] = [s \in Rows |-> IF s \in S THEN F(s) ELSE @[s]]]
  /\ UNCHANGED db

-----------------------------------------------------------------------------
(* Requests.                                                               *)

Receive(r) ==
  /\ job[r].op = "idle"
  /\ \E j \in Jobs[r] :
       /\ job' = [job EXCEPT ![r] = j]
       /\ todo' = [todo EXCEPT ![r] = OpOf(j.op).steps]
  /\ UNCHANGED <<dbVars, found, cacheVars, viewHistory, flagHistory>>

\* Any step may throw, and the database may abort a transaction; what was
\* committed stays.
Fails(r) ==
  /\ todo[r] # <<>>
  /\ todo' = [todo EXCEPT ![r] = <<>>]
  /\ pending' = [pending EXCEPT ![r] = [s \in Rows |-> "same"]]
  /\ UNCHANGED <<db, job, found, cacheVars, viewHistory, flagHistory>>

\* Mutant: whoever asks is served.
NothingRefused(r, flagged) == FALSE

\* A second superuser, the removal of the superuser, a second review, the
\* approval of an approved order.
Refused(r, flagged) ==
  \/ (job[r].op = "createUser" /\ job[r].flag = "set" /\ Cardinality(flagged) = 1)
  \/ (job[r].op = "removeUser" /\ Row(r) \in flagged)
  \/ (job[r].op = "addReview" /\ flagged # {})
  \/ (job[r].op = "updateOrderStatus" /\ job[r].flag = "set" /\ Row(r) \in flagged)

\* The statement a decision rests on; it locks nothing.
Read(r) ==
  LET existing == {s \in Siblings(Row(r)) : Sees(r, s) # "absent"}
      flagged == {s \in existing : Sees(r, s) = "flagged"} IN
  /\ At(r, "read")
  /\ ~Refused(r, flagged)
  /\ found' = [found EXCEPT ![r] = [rows |-> existing, flagged |-> flagged]]
  /\ outdated' = outdated \ {r}
  /\ Continue(r)
  /\ UNCHANGED <<dbVars, job, cacheVars, viewHistory, outrun, unset>>

\* A customer's first address is the default one.
FlagToInsert(r) ==
  IF job[r].flag = "set" \/ (job[r].op = "createAddress" /\ found[r].rows = {})
  THEN "flagged" ELSE "plain"

\* The rows a new row refers to must exist and stay.
Insert(r) ==
  /\ \/ At(r, "insert")
     \/ At(r, "toggle") /\ Row(r) \notin found[r].rows
  /\ db[Row(r)] = "absent"
  /\ Free(r, Refs[Row(r)])
  /\ \A s \in Refs[Row(r)] : db[s] # "absent"
  /\ Write(r, {Row(r)}, LAMBDA s : FlagToInsert(r))
  /\ unset' = IF /\ FlagToInsert(r) = "plain"
                 /\ \A s \in Siblings(Row(r)) : Sees(r, s) = "absent"
              THEN unset \cup {Group(Row(r))} ELSE unset
  /\ Continue(r)
  /\ UNCHANGED <<job, found, cacheVars, viewHistory, outdated, outrun>>

\* Rows that go with the row, and rows that keep it from going.
Referring(s) == {t \in Rows : s \in Refs[t]}

Cascading(s) == {t \in Referring(s) : KindOf[t] \in {"review", "offer"}}

\* A version's delete answers whether it was the main one.
Delete(r) ==
  LET gone == {Row(r)} \cup Cascading(Row(r))
      goesOn == job[r].op = "deleteVersion" /\ Row(r) \in found[r].flagged IN
  /\ \/ At(r, "delete")
     \/ At(r, "toggle") /\ Row(r) \in found[r].rows
  /\ db[Row(r)] # "absent"
  /\ Free(r, Referring(Row(r)))
  /\ \A s \in Referring(Row(r)) \ gone : db[s] = "absent"
  /\ Write(r, gone, LAMBDA s : "absent")
  /\ todo' = [todo EXCEPT ![r] =
       IF goesOn THEN <<"read", "promote">> \o Tail(@) ELSE Tail(@)]
  /\ UNCHANGED <<job, found, cacheVars, viewHistory, flagHistory>>

\* Mutant: no other row is given the flag.
PromoteNone(r) ==
  /\ At(r, "promote")
  /\ Continue(r)
  /\ UNCHANGED <<dbVars, job, found, cacheVars, viewHistory, flagHistory>>

\* Another version becomes the main one, if there is none the transaction
\* fails; another address the default one, if there is one and none is.
Promote(r) ==
  /\ At(r, "promote")
  /\ IF job[r].op = "deleteVersion" \/ (found[r].rows # {} /\ found[r].flagged = {})
     THEN \E s \in found[r].rows : db[s] # "absent" /\ Write(r, {s}, LAMBDA t : "flagged")
     ELSE UNCHANGED dbVars
  /\ Continue(r)
  /\ UNCHANGED <<job, found, cacheVars, viewHistory, flagHistory>>

\* The versions of the product that a patch names, which need not be the
\* version's own; otherwise the rows of the customer.
Named(r) == IF job[r].op = "patchVersion" THEN <<"version", job[r].father>> ELSE Group(Row(r))

\* The rows that lose the flag to the one that is about to get it.
ToClear(r) ==
  IF job[r].flag = "set" /\ (job[r].op = "createAddress" => found[r].rows # {})
  THEN {s \in Rows : Group(s) = Named(r) /\ Sees(r, s) # "absent"} ELSE {}

\* The product that a patch of a version names has to exist.
NamesProduct(r) ==
  \E s \in Rows : /\ KindOf[s] = "product" /\ OwnerOf[s] = job[r].father
                  /\ Sees(r, s) # "absent"

Clear(r) ==
  /\ At(r, "clear")
  /\ job[r].op = "patchVersion" => NamesProduct(r)
  /\ Write(r, ToClear(r), LAMBDA s : "plain")
  /\ unset' = unset \cup {Group(s) : s \in ToClear(r) \ Siblings(Row(r))}
  /\ Continue(r)
  /\ UNCHANGED <<job, found, cacheVars, viewHistory, outdated, outrun>>

Update(r) ==
  /\ At(r, "update")
  /\ Sees(r, Row(r)) # "absent"
  /\ Write(r, {Row(r)}, LAMBDA s :
       CASE job[r].flag = "set" -> "flagged"
         [] job[r].flag = "unset" -> "plain"
         [] OTHER -> Sees(r, s))
  /\ unset' = IF job[r].flag = "unset" THEN unset \cup {Group(Row(r))} ELSE unset
  /\ Continue(r)
  /\ UNCHANGED <<job, found, cacheVars, viewHistory, outdated, outrun>>

Reads(r) ==
  LET steps == OpOf(job[r].op).steps IN \E i \in DOMAIN steps : steps[i] = "read"

Changed(r) == {s \in Rows : pending[r][s] # "same"}

\* The views that show one of these rows.
Behind(S) ==
  {v \in ViewNames : \E s \in S :
     /\ v \in Showing(KindOf[s])
     /\ v = "product:detail" /\ KindOf[s] \in {"product", "version"} => OwnerOf[s] = Detailed}

\* The change becomes visible; cached views and the loads under way that show
\* it now miss it.
Commit(r) ==
  LET groups == {Group(s) : s \in Changed(r)}
      behind == Behind(Changed(r)) IN
  /\ At(r, "commit")
  /\ Continue(r)
  /\ db' = [s \in Rows |-> Sees(r, s)]
  /\ pending' = [pending EXCEPT ![r] = [s \in Rows |-> "same"]]
  /\ entries' = {IF e.view \in behind THEN [e EXCEPT !.missing = @ \cup {r}] ELSE e : e \in entries}
  /\ missing' = [l \in Requests |->
       IF At(l, "save") /\ job[l].view \in behind THEN missing[l] \cup {r} ELSE missing[l]]
  /\ committed' = committed \cup {r}
  /\ outdated' = outdated \cup
       {q \in Requests \ {r} : todo[q] # <<>> /\ Reads(q) /\ Group(Row(q)) \in groups}
  /\ outrun' = IF r \in outdated THEN outrun \cup groups ELSE outrun
  /\ UNCHANGED <<job, found, version, counting, counted, expiries, seen, dropped, raced, setBack,
                 unset>>

-----------------------------------------------------------------------------
(* The cache.                                                              *)

\* The product whose detail a request invalidates.
ProductOf(r) == IF job[r].op = "patchVersion" THEN job[r].father ELSE OwnerOf[Row(r)]

Drops(r) == {v \in OpOf(job[r].op).drops : v = "product:detail" => ProductOf(r) = Detailed}

\* GET: getVersionsBatch.
Count(r) ==
  /\ At(r, "invalidate")
  /\ r \notin counting
  /\ counting' = counting \cup {r}
  /\ counted' = [counted EXCEPT ![r] =
       [v \in ViewNames |-> IF v \in Drops(r) THEN version[v] ELSE 0]]
  /\ UNCHANGED <<dbVars, requestVars, entries, version, expiries, seen, missing, viewHistory,
                 flagHistory>>

\* Mutant: SET to what was read.
SetAgain(r) ==
  /\ At(r, "invalidate")
  /\ r \in counting
  /\ Continue(r)
  /\ version' = [v \in ViewNames |-> IF v \in Drops(r) THEN counted[r][v] ELSE version[v]]
  /\ setBack' = setBack \cup {v \in ViewNames : version'[v] < version[v]}
  /\ dropped' = dropped \cup {r}
  /\ UNCHANGED <<dbVars, job, found, entries, counting, counted, expiries, seen, missing,
                 committed, raced, flagHistory>>

\* SET to what was read, plus one.  The views' keys are independent of each
\* other, so they are all read and all set in one step.
Invalidate(r) ==
  /\ At(r, "invalidate")
  /\ r \in counting
  /\ Continue(r)
  /\ version' = [v \in ViewNames |-> IF v \in Drops(r) THEN counted[r][v] + 1 ELSE version[v]]
  /\ setBack' = setBack \cup {v \in ViewNames : version'[v] < version[v]}
  /\ dropped' = dropped \cup {r}
  /\ UNCHANGED <<dbVars, job, found, entries, counting, counted, expiries, seen, missing,
                 committed, raced, flagHistory>>

\* Seven days after it was set.
VersionExpires(v) ==
  /\ expiries < MaxExpiries
  /\ version[v] > 1
  /\ version' = [version EXCEPT ![v] = 1]
  /\ setBack' = setBack \cup {v}
  /\ expiries' = expiries + 1
  /\ UNCHANGED <<dbVars, requestVars, entries, counting, counted, seen, missing, dropped,
                 committed, raced, flagHistory>>

\* remember, in the request or in the background.
Lookup(r) ==
  /\ At(r, "lookup")
  /\ Continue(r)
  /\ seen' = [seen EXCEPT ![r] = version[job[r].view]]
  /\ UNCHANGED <<dbVars, job, found, entries, version, counting, counted, expiries, missing,
                 viewHistory, flagHistory>>

Fetch(r) ==
  /\ At(r, "fetch")
  /\ Continue(r)
  /\ missing' = [missing EXCEPT ![r] = {}]
  /\ raced' = raced \cup
       {q \in counting \ committed : todo[q] # <<>> /\ job[r].view \in Drops(q)}
  /\ UNCHANGED <<dbVars, job, found, entries, version, counting, counted, expiries, seen,
                 dropped, committed, setBack, flagHistory>>

\* Under the version it has read, whatever it is by now.
Save(r) ==
  LET v == job[r].view IN
  /\ At(r, "save")
  /\ Continue(r)
  /\ entries' = {e \in entries : e.view = v => e.version # seen[r]}
                  \cup {[view |-> v, version |-> seen[r], missing |-> missing[r]]}
  /\ UNCHANGED <<dbVars, job, found, version, counting, counted, expiries, seen, missing,
                 viewHistory, flagHistory>>

-----------------------------------------------------------------------------
Init ==
  /\ db = Initially
  /\ pending = [r \in Requests |-> [s \in Rows |-> "same"]]
  /\ todo = [r \in Requests |-> <<>>]
  /\ job = [r \in Requests |-> [op |-> "idle"]]
  /\ found = [r \in Requests |-> [rows |-> {}, flagged |-> {}]]
  /\ entries = {}
  /\ version = [v \in ViewNames |-> 1]
  /\ counting = {}
  /\ counted = [r \in Requests |-> [v \in ViewNames |-> 0]]
  /\ expiries = 0
  /\ seen = [r \in Requests |-> 0]
  /\ missing = [r \in Requests |-> {}]
  /\ dropped = {} /\ committed = {} /\ raced = {} /\ setBack = {}
  /\ outdated = {} /\ outrun = {} /\ unset = {}

Next ==
  \/ \E r \in Requests :
       \/ Receive(r) \/ Fails(r)
       \/ Read(r) \/ Insert(r) \/ Delete(r) \/ Promote(r) \/ Clear(r) \/ Update(r) \/ Commit(r)
       \/ Count(r) \/ Invalidate(r) \/ Lookup(r) \/ Fetch(r) \/ Save(r)
  \/ \E v \in ViewNames : VersionExpires(v)

Spec == Init /\ [][Next]_vars

-----------------------------------------------------------------------------
(* Properties.                                                             *)

Steps == {"read", "insert", "toggle", "delete", "promote", "clear", "update", "commit",
          "invalidate", "lookup", "fetch", "save"}

Groups == {Group(s) : s \in Rows}

\* Every variable keeps its type, and two transactions never hold changes of
\* the same row.
TypeOK ==
  /\ db \in [Rows -> States]
  /\ pending \in [Requests -> [Rows -> States \cup {"same"}]]
  /\ \A q, r \in Requests : q # r => Changed(q) \cap Changed(r) = {}
  /\ todo \in [Requests -> Seq(Steps)]
  /\ job \in [Requests -> Job \cup {[op |-> "idle"]}]
  /\ found \in [Requests -> [rows : SUBSET Rows, flagged : SUBSET Rows]]
  /\ entries \subseteq [view : ViewNames, version : Nat, missing : SUBSET Requests]
  /\ version \in [ViewNames -> Nat]
  /\ counting \subseteq Requests
  /\ counted \in [Requests -> [ViewNames -> Nat]]
  /\ expiries \in Nat
  /\ seen \in [Requests -> Nat]
  /\ missing \in [Requests -> SUBSET Requests]
  /\ dropped \subseteq Requests /\ committed \subseteq Requests /\ raced \subseteq Requests
  /\ setBack \subseteq ViewNames
  /\ outdated \subseteq Requests
  /\ outrun \subseteq Groups /\ unset \subseteq Groups

FlaggedOf(g) == {s \in Rows : Group(s) = g /\ db[s] = "flagged"}

\* There is one superuser, a customer has one default address and reviews a
\* version once, unless another request has committed between what a request
\* read and what it wrote (UserService.create, CustomerAddressesService,
\* addReview: none of them locks what it has read).
AtMostOneUnlessOutrun ==
  \A g \in Groups \ outrun :
    g[1] \in {"user", "address", "review"} => Cardinality(FlaggedOf(g)) <= 1

\* A customer with addresses has a default one, and a product with versions a
\* main one, whatever is created, changed and deleted (the deletes promote
\* another row), unless a request was outrun, the flag was taken away on purpose,
\* or the patch of a version named another product: that product's versions lose
\* the flag to a version that is not one of them, and nothing checks it
\* (ProductVersionService.patch).
FlagSurvives ==
  \A g \in Groups \ (outrun \cup unset) :
    g[1] \in {"address", "version"} /\ (\E s \in Rows : Group(s) = g /\ db[s] # "absent") =>
      FlaggedOf(g) # {}

\* Once a request that has changed rows and invalidated views is over, those
\* views show the change, however loads and other invalidations overlap with it,
\* with two exceptions: one of them was loaded after its version was read and
\* before the transaction committed, which can happen only where the code
\* invalidates inside the transaction; or the view's version was set back, by
\* its expiry or by an invalidation that had read it before others raised it
\* (incrementVersion, incrementEntityVersion).
ChangesShow ==
  \A e \in entries :
    e.version = version[e.view] /\ e.view \notin setBack =>
      \A r \in e.missing :
        todo[r] = <<>> /\ r \in dropped /\ e.view \in Drops(r) => r \in raced

=============================================================================
