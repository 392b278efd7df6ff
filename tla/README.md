# Verification of the IGA Productos REST API

TLA+ models of the shop's back end: how an order is placed and priced, how a
payment notification is worked off, how the cache that almost every handler goes
through is filled and invalidated, what becomes of carts and of customers'
accounts when requests overlap, and how the back office's records keep their
rules. TLC checks the models on small instances; TLAPS proves the main safety
properties for every value of the constants.

Paths below are relative to the repository; `src/src/` holds the NestJS
application, `src/prisma/schema.prisma` its tables.

## 1. The system

The application is one NestJS process (or several) in front of PostgreSQL
(through Prisma), Redis (through ioredis: cache entries, version counters,
locks) and a BullMQ queue; it talks to MercadoPago for payments and to Resend
for e-mail.

| component | where | state it keeps | operations | what is hard | what makes it correct |
|---|---|---|---|---|---|
| order placement | `orders/applications`, `orders/saga` | `product_version.stock`, `offers.current_uses`, `order` rows; in memory: the pipeline's list of recorded sagas | `POST /orders/v2` = twelve steps in one interactive transaction, three compensations | several requests at once on one pipeline object; compensations on other connections than the transaction they compensate; the 5 s transaction timeout; check and decrement in two statements | stock and uses are what the placed orders explain; no order of another request is touched; every request is answered |
| payment notifications | `orders/payment` | `order.status`, `order_payment_details`, `shipping`, stock; cached processing status and payment details; queued jobs | webhook, six worker steps, status and details polling | repeated and late notifications, five jobs at once, retries from the first step, crashes between steps, a poll that writes back what it has read | order status follows the payments; nothing shipped unpaid; the client learns how it ended |
| order administration | `orders/orders.service.ts` | `order.status`, `shipping`, stock | cancelOrder, updateOrderStatus, linkGuestOrderToCustomer, listings | interleaves with the worker; check then act | as above |
| cache: filling an entry | `cache/cache.strategy.ts`, `cache/cache.service.ts` | entry, locks | remember with `cacheLocking` and `staleWhileRevalidateWithLock`, getMultipleDataWithFallback | locks that expire under a slow leader, dying leaders, failing commands, followers that poll | one leader at a time, everybody is answered, no lock stays |
| cache: versions | `cache/cache.service.ts`, `cache/cache.strategy.ts` | version counters, entries per version, hit counts | remember, invalidateQuery, invalidateEntity, removeData | increments by GET and SET; keys computed before a fetch and used after it; write-backs of hits | what was invalidated is not served again |
| shopping cart | `customer/shopping-cart` | one cached cart per client, `shopping_cart` rows | set, remove, toggle, check all, clear, merge, save, load | read-modify-write on a cache entry; a customer's cart is revalidated from the database | changes are not lost, checkout sees the cart |
| offers | `offers` | offers, their targets and uses; caches | create, update, delete, resolve the stack of a product version | limits read from a cache | the right offers stack, limits hold |
| shipping | `shipping` | `shipping`, `order_shipping_info` | create, update, by approved order | count-then-insert labels | one shipping per order |
| sessions, customer and staff accounts | `session`, `customer_auth`, `user_auth`, `customer`, `user` | session entries, tokens, accounts | session middleware, login, tokens, recovery | expiry and renewal of entries, check then act | a session ends with logout, tokens expire |
| catalogue, storefront assets | `product`, `product-version`, `categories`, `subcategories`, `e-commerce` | catalogue tables and caches | CRUD, search, cards | cache invalidation | see cache |
| the rest | `notifications`, `audit`, `metrics`, `reports`, `common`, `prisma` | — | e-mail, log rows, read-only aggregates, wiring | — | — |

Interaction: the order pipeline reads the cart and the catalogue through the
cache and writes counters and orders through Prisma. MercadoPago's notification
meets the order through `external_reference`; worker, polls, customers and
administrators share the order's row, its shipping row and the cached entries.
All handlers that change something invalidate cache entries after their commit.

## 2. The modules

| module | models | abstract counterpart / proofs |
|---|---|---|
| `OrderPlacement` | what placing an order promises: one visible step, or a refusal | implemented by `OrderPipeline` |
| `OrderPipeline` | handler, pipeline, steps, transaction, compensations | `OrderPipeline_proofs` |
| `PaymentWorker` | webhook, queue, worker steps, polls, cancellation, override | `PaymentWorker_proofs` |
| `CacheLock` | one key's entry, locks, leaders and followers | `CacheLock_proofs` |
| `CacheVersions` | counters, keys, entries of one entity and query | `CacheVersions_proofs` |
| `ShoppingCart` | the cached carts, all operations on them, the saved carts | `ShoppingCart_proofs` |
| `CustomerAccounts` | codes by e-mail, registration, logins, new passwords | `CustomerAccounts_proofs` |
| `BackOffice` | the services that keep records: users, catalogue, offers, reviews, addresses, favourites, a customer's name, an order's status, and the views cached of them | `BackOffice_proofs` |
| `Pricing` | applicable offers, their stacking, cards, pages, an order's lines and totals | `Pricing_proofs` |
| `MC*` | the constants TLC uses | |

How they fit together: `Pricing` follows an order from the prices it reads to the
row it records and leaves the concurrency of the steps to `OrderPipeline`;
`ShoppingCart` contains the update of the cart that the worker of `PaymentWorker`
makes after a payment; the batch reads of `Pricing`, the entries of `ShoppingCart`
and `CustomerAccounts` and the views of `BackOffice` are all entries of the cache
whose filling and versions `CacheLock` and `CacheVersions` model in full. A module
that uses the cache keeps of it what can disturb its own properties: late
write-backs of hits in carts and codes, versions in codes and views, stale lists
in prices.

### OrderPipeline

`phase` and `step` say where a request stands in `CreateOrderHandler.execute`
and in the list of steps of `orders.module.ts`; `todo` is what a step's or a
compensation's loop has still to visit; `tx` and `held` are the interactive
transaction and the rows it has updated; `completedSagaSteps` is the field of
the same name of the singleton `OrderPipeline`, which no request empties and
`rollback` reverses in place, and `cursor` is the position of a rollback's
`for ... of` in it. Every pipeline step is an action of its name; a step with a
loop is one action per visited row. PostgreSQL is at read committed: an UPDATE
holds the row until its transaction ends and is applied to the latest committed
value, so a commit adds the transaction's increments to the counters.

`StepThrows` covers every reason a step may throw; `TxTimeout` closes the
transaction at any moment, after which each of its statements throws.
A compensation runs on a connection of its own and therefore waits for rows its
own request has locked (`CompensateRow`). `CancelOrderSaga` looks for an order
that only the open transaction can see, so it throws; `ReleaseStockSaga` throws
when the cart was not built. The handler's inverted `isGuest` is kept as it is
(`IsGuest`).

Carts are constants: `CartLines[r]` are the lines (a merged cart may hold a SKU
twice), `Cart[r][s]` the quantity the builder gives each line of a SKU. The lines
of one SKU are visited together. Offers are not: `GetProductsDataStep` finds them in
the cache, where a list lives for minutes, or in the database, so each request
finds lists of its own (`lineOffers`, any of `OfferLists[r]`), and two requests may
hold different offers for one SKU. `overtaken` remembers who committed pieces that
another, still open, had already validated.

### PaymentWorker

One action per step of `MercadoPagoPaymentQueueConsumer.process`, with
`UpdateOrderStatusStep` split at its statements (`FindPayment`, `LockOrder`,
`UpsertPayment`, `UpdateOrder`) because the row lock that `LockOrder` takes is
what orders the jobs of one order; `InvalidateCacheStep` is split in two for its
two cache entries. `job`, `attemptsMade` are BullMQ's; `fetched`, `ctxStatus`,
`skipped`, `orderResume` the fields of `MercadoPagoPaymentContext`; `status` and
`details` the cached processing status and payment details; `statusRead`,
`polled` and `adminRead` what a client's or administrator's request has read and
not yet used. `restored` and `cancels` count hand-backs and cancellations.
MercadoPago moves a payment along the pairs of `MpFlow`; notifications carry no
status, are repeated and late (`Webhook` is enabled as long as jobs are left).
`Crash` rolls back open transactions and stalls the active jobs. BullMQ starts a
stalled job again, with its attempts as they were, as long as it has stalled no more
than `MaxStalls` times (`maxStalledCount`, 1 by default); after that it fails the job
without calling the consumer, so nobody writes the processing status.

### CacheLock

One logical key. A thread is a call or the background refresh it has started;
`pc` is where it stands, `lock` which thread's token a lock key holds. The three
locks are the strategies' miss lock, getMultipleDataWithFallback's and the
background refresh's. Entries are numbered by their writes so that late
write-backs (`Persist`) are seen. Time is nondeterministic: a lock may expire, an
entry may age or expire, a follower may give up at any moment, which includes
every real schedule of TTLs and waits. `lost` remembers the threads whose lock
expired, was overwritten by SET XX or deleted by the fallback of the release.

### CacheVersions

One entity and query. `version` holds the two counters, an entry is found under
the pair of numbers a call computed before it looked (`key`). Data is the number
of commits it contains, so staleness is a comparison of numbers. `covered` is the
newest commit whose invalidation is complete, `due[c]` its value when call `c`
started, `setBack` whether a counter was ever lowered (by a lost race or by
expiring).

### ShoppingCart

`entry` is the cache under `client:shopping-cart`, one entry per client (a session
or a customer); `saved` is a customer's `shopping_cart` row with its items,
`refresh` the background refresh of the revalidating strategy. A request is an
operation of `ShoppingCartService` in the pieces that its awaits leave: it reads
each cart it needs (`ReadHit`, `ReadDatabase`, `ReadNothing`), a read's own write
follows (`Back`, the hit's write-back or the miss's save, or `NoBack`), and then it
writes the whole cart it has computed (`WriteCache`: `setItem`, `removeItem`,
`toggleCheck`, `checkAll`, `uncheckAll`, `clear`, `merge`, the worker's `bought`) or
the rows (`WriteDatabase`: `create`, `save`). `Updated` is what the operations make
of the lines. The worker's update builds its key from the customer alone, so a
guest's bought lines stay: it writes the entry of `Nobody` (`Target`). Stock is read
through a cache, so each request may see any value of `Stocks[s]`.
`ideal` is the abstract cart, changed at once when an operation writes;
`disturbed` are the clients whose requests overlapped or whose entry was lost or
replaced, for which the code promises nothing of the kind. A hit's write-back
(`Back`) is not awaited, but `getData` has handed its SET to the process's one Redis
connection (`redis.config.ts`, provided once by the cache module) before it returns,
and the connection keeps the order of its commands: the SET comes before every later
command of the same request, and of the requests this process serves afterwards. So
`Back` precedes the request's own write. A second process could overtake it with a
request of the same client within that instant; this is left out.

### CustomerAccounts

A request is the list of awaited calls of an operation (`StepsOf`), one action each.
`code[k][v]` is the cache under a key `k` of kind, address and session and its
version `v`, `version[k]` the counter; `customers` and `account` are the two tables.
`FindToken` is remember with `simpleFind`, `LookAgain` and `ValidateToken` are
`getData`, both followed by the write-back of the hit (`WriteBack`), which lands under
the version the look-up saw. Sending a code again raises the counter by a GET and a
SET (`Count`, `Invalidate`), and the counter expires (`VersionExpires`): codes left
under an older version may come within reach again, and `setBack` has the keys where
that may have happened.
`CreateCustomer` is register's transaction, `FindGoogle`, `FindByEmail` and
`CreateGoogle` are loginWithGoogle. `ReadAccount` takes any of the customer's rows
because `accounts[0]` comes from a query without an order. A request that presents
a code has found it in some mailbox, whatever address, kind or session it was for.

### BackOffice

The services share one shape, which is the module: a request runs the steps its
operation lists (`UserOps` ... `OrderOps`) — a read that locks nothing, writes of
an open transaction, the commit, the invalidation, in the order of the code — and a
failing step aborts the transaction. `db` are the committed rows, `pending` a
transaction's own; a write waits for the transaction that has written the row
(`Free`), and rows that refer to each other keep each other (`Refs`). A row is
`flagged` where the code singles one out: the superuser, a product's main version,
a customer's default address, a customer's review of a version, an order that was
approved. Cached views (`Views`, with the tables their fallbacks read) are sets of
committed changes they miss; those of customers, orders and metrics are never
invalidated, and what they miss they miss until they expire.
An entry is saved under the version its load has read (`entries`), and found while
that is the view's version. An invalidation reads the versions of the views an
operation names and then sets them to the next (`Count`, `Invalidate`), which are not
always the names the views are cached under; a version expires (`VersionExpires`), and
`setBack` has the views whose version may have gone back. Of the products' details one
is looked at (`Detailed`), so that it matters whose detail a request invalidates
(`ProductOf`). The patch of a version clears the flags of the product that the request
names (`Named`), which need not be the version's own, and invalidates that product's
detail; the patch of an address reads and then throws, because it hands the request's
fields to Prisma under names that are no columns. `Tables` says which table a service
writes.

### Pricing

One request is a listing or a cart (`cards`), a product version's page, or an order.
A line names a product beside its product version, as the client sent it.
`LookUp`, `Fetch`, `Save` are the phases of `getMultipleDataWithFallback` for prices,
lists of applicable offers and the offers' terms; `Applies` and `Stored` are the
fallbacks' queries, which match offers with the product that is named
(`NamedProduct`) while the list is cached under the SKU alone. `Resolve` is `OfferStackResolverService.resolve` on a list in any
order. `CardLine`, `PageLine` and `OrderLine` are the three builders, `builder` the
one they share across the lines of an answer. `Total`, `ShippingCost` are
`calcResume`; `Book`, `Pay`, `Place`, `Refuse` the steps of an order that touch
offers' uses, MercadoPago's preference and the order's total. Amounts are in cents;
`ParseFloat` and `IsDecimal` are what becomes of an amount written with separators.
`Reprice` and `Turn` are what the back office changes meanwhile.

## 3. The runs

| run | checks | finds |
|---|---|---|
| `order_pipeline` | `TypeOK`, `NothingLost`, `BooksBalanceWithoutFailures`, `OversoldOnlyWhenOvertaken`, `CommittedOrdersStand`, `RequestsAnswered`, `ImplementsPlacement` | holds, about 94,000 states |
| `order_pipeline_release` | `OfferUsesReleasedOnce` | violated: uses given back twice |
| `payment_worker` | `TypeOK`, `ShippedOnlyIfEverApproved`, `CompletedMeansShipped`, `GivenUpNotedUnlessStalled` | holds, about 6.3 million states |
| `payment_two_payments` | `OrderStatusFollowsPayments`, `JobsFinish` | holds, about 760,000 states |
| `payment_restore_stock` | `StockRestoredOnlyOnCancel` | violated: inverted condition |
| `cache_lock` | `TypeOK`, `OneLeader`, `CallsAnswered`, `LocksFreed` | holds, about 250,000 states |
| `cache_versions` | `TypeOK`, `FreshUnlessSetBack` | holds, about a million states |
| `shopping_cart` | `TypeOK`, `DuplicatesOnlyByMerge`, `QuantitiesWithinStock`, `LinesAskedFor`, `SequentialChangesKept` | holds, about 640,000 states |
| `customer_accounts` | `TypeOK`, `AcceptedWasMailed`, `CustomersOwnTheirAddress`, `SpentUnlessRevived`, `LastPasswordCounts` | holds, about 2.4 million states |
| `back_office` | `TypeOK`, `AtMostOneUnlessOutrun`, `FlagSurvives`, `ChangesShow` | holds, about a million states |
| `pricing` | `TypeOK`, `OwnPrices`, `OnlyOffersThatRan`, `AmountsAgree` | holds, about 210,000 states |
| `pricing_shipping` | `ShippingCharged` | violated: `parseFloat("1,056.00")` is 1 |

What the passing runs show, in words:

- Whatever orders, failures, timeouts and compensations interleave, no
  reservation is lost (`NothingLost`); without failures the books balance exactly;
  failures can only give too much back, which is what the second run shows they do.
- Stock can be oversold, in two ways and no other: a placed order repeats the product
  version, or it took pieces that another order had already validated. The second
  needs that the two have found no offer in common: the row of an offer, locked from
  `ReserveDiscount` to the commit, puts the orders that share it in a queue. This is
  not a guard to rely on, as one of two orders for the same offered product version
  may have an older list from the cache.
- The shared saga list makes requests run foreign sagas, but with their own
  context, so no committed order is cancelled; a compensation that waits for its
  own transaction is freed by the timeout.
- The order's status always agrees with its payment rows, thanks to the early
  update of the order's row; dropping it (mutant `LockOrderLate`) breaks this.
- Shipping depends on a summary that only exists once a poll has cached
  `APPROVED`: an accident that nevertheless keeps unpaid orders from being shipped
  and makes "completed" trustworthy.
- Two leaders are possible only after one has outlived its lock, and no schedule of
  crashes and failures leaves a call waiting or a lock behind.
- A call that starts after an invalidation never sees older data, unless a
  counter was set back.
- Carts are changed by read, modify and write without a lock, and reads write, too.
  What survives every order of these: a cart holds only what its client (or a
  session merged into it) has asked for, in quantities the stock has allowed, with
  duplicate lines only after a merge. Nothing is lost as long as a client's requests
  do not overlap and its entry is not replaced: only then.
- A code reaches only the mailbox it was made for, although any code found in any
  mailbox may be presented, and a customer exists only with the owner's consent.
  A used code can come back through the write-back of a look-up that overlapped
  with its use, or when its key's version counter goes back to an older version under
  which it was left, and in no other way.
- A job that is given up has told its client so, except one that BullMQ fails because
  the process died under it more than once.
- Whichever account row the unordered query yields, no password but the last one set
  opens the account: the Google row has none, so comparing with it throws.
- The single superuser, the single default address and the single review hold unless
  a request committed between what another had read and what it wrote; a main
  version or a default address is handed on, or the request fails, except for the
  product that the patch of another product's version names: it loses its main version.
  Cached views show what has been committed once they are invalidated, except where
  the code invalidates before the commit and a load slips in between, and except where
  a version was set back.
- Every line has its own price although the builders are shared; the discount
  shown on a card without an offer is the one thing that leaks from the card before.
  Only offers that were running with uses left when their list was read are applied,
  and they match the product version or some product that a request has named with
  it. That this product is its own does not hold: a list read under another product's
  name is served to all who ask for the SKU while it is cached.
  Preference and order row agree on the amount unless stacked discounts make the items
  cost less than nothing; the cart's total agrees with them when every line is checked
  and once in the cart and the shipping cost is below a thousand.

The findings (violated runs) are described in `PROJECT.json` with the comments
they contradict.

### Divergences seen while modelling

The models contain these behaviours; no run is spent on them because the code has
nothing that would speak against them, or the property of a passing run already
says what is left.

- A status poll that has read `processing` may write it back after the job is over,
  for the entry's hour (`RewriteStatus` of `PaymentWorker`).
- Calls that missed before a leader saved fetch once more after it has released the
  lock: nothing looks at the entry again (`CacheLock`).
- Version counters are raised by GET and SET: concurrent invalidations lose raises or
  set the counter back, to keys that were used before; and an entry that expires
  between a hit's GET and its PTTL is written back without expiry (`CacheVersions`).
- The order's total is written with separators, so the `Decimal` column refuses totals
  of a thousand or more (`CanRecord`); an order bills lines that are not checked,
  while the cart's total leaves them out (`Pay`, `Shown`).
- `COUPON` offers apply without a code; which of two equal offers of a group is found
  first decides how many are stacked when their `max_stack` differ (`Tied`); stacked
  discounts are added up and may pass 100; offers created through the API are all
  `BASE` with priority 0 and `max_stack` 1, since the DTO has no such fields.
- A patch that names another product than the version's own (`fatherUUID`) takes the
  main flag from that product's versions and gives it to none of them; nobody checks
  that the two belong together (`ToClear`, `Named`). Patching an address never works.
- Offers are looked for under the product that the client names with a SKU, and kept
  under the SKU alone: an offer for another category can be applied by naming a
  product of that category, and from the cache it is applied for others, too
  (`Matches`, `NamedProduct`).
- A job whose process dies twice is failed by BullMQ without the consumer's `catch`: its
  client goes on polling `processing` (`Crash`).
- A used code that was removed under one version and left under an older one is
  accepted again when the key's counter expires or is set back (`VersionExpires` of
  `CustomerAccounts`).
- Some views are invalidated under names nobody reads (`deleteReview`, the
  favourites' suffix), and some changes invalidate nothing that shows them
  (`createProduct`, the lists of applicable offers, price changes).
- `linkGuestOrderToCustomer` writes the customer's uuid where the foreign key expects
  the id, so the statement fails for every order; `findManyReviews` filters by the same
  mistake. The first changes no state and is left out, the second is a cached view
  like the others.
- Logout removes a key that no code writes; the session's entry stays until it expires.
- From the second time on `saveShoppingCart` fails, as the customer's row exists
  (`RowExists`); the next revalidation brings the first saved cart back.

### Bounds

- Orders: two requests (`MaxActive` 2), two product versions, one offer that both
  requests find, or the first alone, the other having a list from before it. The
  hazards are pairwise: one request validates while another commits, one rolls
  back a list the other has appended to. Two requests reach every phase pair;
  quantities are such that both cannot be served.
- Payments: one payment with two notifications, or two payments of one order
  with one each; attempts 2 instead of 3 (first, and last), `Concurrency` 2
  instead of 5, one forgiven stall, one cancellation, two crashes for one payment
  (a job that is failed by the second) and one for two. A payment moves once, to
  approved or rejected; with two payments there is an administrator, with one there
  are polling clients. A fetched status that is out of date when it is recorded, and
  an administrator who meets the shipping, are therefore in the proofs only, which
  hold for any `MpFlow` and `Overrides`.
- `CacheLock`: three calls: a leader, the successor after an expired lock and a
  third that profits from the first one's late release. One crash, one failing
  command.
- `CacheVersions`: two calls, two invalidations of different counters and a
  removal, versions up to `MaxVersion`, one expiring version key,
  `MaxHitRenewals` 1 instead of 10 (before and past the limit).
- `ShoppingCart`: one guest who is also a customer, two product versions, three
  requests each of which may be any of five to seven operations: two that overlap
  and one before or after them, a merge between them. Stocks of one and two, wanted
  quantities up to three and a decrement to zero.
- `CustomerAccounts`: four requests, as a code needs one that sends it, one that uses
  it and one that overlaps, and a second use; two addresses with one session, so that
  a code may be presented for the wrong one; two codes (one that is spent, one that is
  sent instead), two raises of a counter and one expiry of one.
- `BackOffice`: three requests, any change, a second one it may collide with, and a load
  of a view; two rows of every table with a flag, one of the others; a
  version of a second product, whose patch names the first; one version of a view that
  expires.
- `Pricing`: two product versions on either side of a thousand with the discounts, an
  offer that runs, one that begins, one with a single use; a second product that carts
  name with both, with a category of its own that the better offer is for; one change
  of the back office and one expired entry; a cart of one box and a line of four.

### Fairness

`RequestsAnswered`: a request's own steps (or its throwing) and the
transaction's timeout are weakly fair: Node settles every awaited promise,
PostgreSQL grants a free lock, Prisma enforces the timeout. `JobsFinish`: the
web handler, BullMQ's dispatch and the steps (or their throwing) are weakly fair;
nothing is assumed of MercadoPago, clients, administrators or crashes.
`CallsAnswered`, `LocksFreed`: commands settle, timers fire, and Redis expires
keys (the PX of the lock). The other modules have safety properties only: their
requests are lists of awaited calls that end when the calls do, and nothing in
them waits for another request but for a row lock, which a finished transaction
gives up. Deadlock checking is off where a system stops when its requests, jobs or
calls are used up.

## 4. The proofs

| theorem | states |
|---|---|
| `OrderPipeline_proofs!TypeCorrect`, `OversoldExplained`, `CommittedSafe`, `Refinement`, `NoStockLost`, `BooksBalance` | `Spec => []TypeOK`, `[]OversoldOnlyWhenOvertaken`, `CommittedOrdersStand`, `ImplementsPlacement`, `[]NothingLost`, `[]BooksBalanceWithoutFailures` |
| `CacheLock_proofs!TypeCorrect`, `LeadersExclude` | `[]TypeOK`, `[]OneLeader` |
| `CacheVersions_proofs!TypeCorrect`, `FreshData` | `[]TypeOK`, `[]FreshUnlessSetBack` |
| `PaymentWorker_proofs!TypeCorrect`, `StatusIsResolved`, `NothingShippedUnapproved`, `CompletedIsTrue`, `FailureNoted` | `[]TypeOK`, `[]OrderStatusFollowsPayments`, `[]ShippedOnlyIfEverApproved`, `[]CompletedMeansShipped`, `GivenUpNotedUnlessStalled` |
| `ShoppingCart_proofs!TypeCorrect`, `DuplicatesNeedAMerge`, `StockRespected`, `NoForeignLines`, `NoChangeLost` | `[]TypeOK`, `[]DuplicatesOnlyByMerge`, `[]QuantitiesWithinStock`, `[]LinesAskedFor`, `[]SequentialChangesKept` |
| `CustomerAccounts_proofs!TypeCorrect`, `CodesReachTheirOwner`, `OwnersRegister`, `ReuseNeedsTheRace`, `OnlyTheLastPassword` | `[]TypeOK`, `[]AcceptedWasMailed`, `[]CustomersOwnTheirAddress`, `[]SpentUnlessRevived`, `[]LastPasswordCounts` |
| `Pricing_proofs!TypeCorrect`, `EveryLineItsOwn`, `OffersRanOnce`, `AmountsMatch` | `[]TypeOK`, `[]OwnPrices`, `[]OnlyOffersThatRan`, `[]AmountsAgree` |
| `Pricing_proofs!SameDiscount` | the same offers in any order give the same discount, unless two of one rank and group limit the stack differently |
| `BackOffice_proofs!TypeCorrect`, `InvalidatedViewsShow`, `OneSuperuserOneDefault`, `FlagsHandedOn` | `[]TypeOK`, `[]ChangesShow`, `[]AtMostOneUnlessOutrun`, `[]FlagSurvives` |

They hold for any sets of requests, calls, writers, jobs, payments, clients,
addresses, SKUs, offers and rows and any carts and bounds that satisfy the modules'
named assumptions (`PipelineAssumption`, `CacheLockAssumption`,
`VersionsAssumption`, `WorkerAssumption`, `CartAssumption`,
`AccountsAssumption`, `PricingAssumption`, `BackOfficeAssumption`), which say no more
than the types of the data, that offers are finitely many, and that nobody asks for
the prices of an empty cart (`get-shopping-cart.step.ts:27` and the listings answer
before). Three assumptions say more. `LinesAssumption` of `Pricing`: the lines of an
answer come grouped by the product they name, as `get-products-data.step.ts` and the
listings group them, and a page names its own product. The other two are
used by the two theorems about flags alone: each service of the back office writes rows of its own table, and
changes of a user's names or a version's stock send no flag (`TablesAssumption`);
the database obeys the rules at the start (`FlagsAssumption`). TLC evaluates the
assumptions in the runs.

**OrderPipeline.** `OversoldOnlyWhenOvertaken` is not inductive. `IInv` adds: loops and
locks stay within the request's rows (`RowsInv`), no row is locked twice
(`LockInv`), an order exists only for a committed request (`OrderInv`), requests
not yet received are at the first step (`IdleInv`), an open transaction past
`ReserveDiscount` holds all its offers' rows and past `ReserveStock` all its stock
rows (`CoverInv`), the stock such a transaction has validated is still there unless
somebody has overtaken it (`StockInv`), and who has overtaken another has placed an
order and found none of its offers (`OvertakenInv`). The heart is `OvertakenStep`: when
one request commits and lowers the stock another has validated, each holds the rows
of all its offers, so by `LockInv` they have none in common; `OversoldStep` then
follows a commit that takes more than there is to a cart that repeats the product
version or to the one that has overtaken it. The thirty-odd disjuncts of `Next` are first sorted into a
few kinds of steps (`StepKinds`), so that each part of the invariant is shown
once per kind. `NothingLost` and `BooksBalanceWithoutFailures` compare counters with
sums over requests and cart lines. A sum is not defined by induction in the proof but
counted: the quantities become sets of units, the fold over a finite set is shown to be
the cardinality of its units (`FoldCounts`), where a smallest counterexample among the
subsets takes the place of induction (`MinimalSubset`), and a commit adds the
units of one more order to a disjoint union. The loops only collect the rows that the
open transaction holds; the counters move with the commit, all at once, and by
`CoverInv` the rows held then are all that the order's lines name. `CommittedSafe` needs `OrderInv`: only a request in its rollback
cancels, and such a request has no order. `Refinement` maps a commit to `Place`,
the beginning of a rollback (or a failing commit) to `Refuse`, a compensated row
to `GiveBack` and everything else to stuttering.

**CacheLock.** `OneLeader` follows from the invariant that a thread which leads
and has not lost its lock is the one whose token the lock key holds.

**CacheVersions.** Freshness needs to know why a late save is harmless. The
invariant follows pairs of a key and data that are cached under it or about to be
(`Holds`): the data were fetched after the key was computed, so if they lack a
writer's change, the key is not newer than the versions that writer has read
(`RecentInv`); the writer's SET makes the counter newer than what it read
(`DoneInv`), and a call that starts afterwards computes a newer key (`CoveredInv`,
`DueInv`). No key in use is ahead of the counters (`KnownInv`). All this holds as
long as no counter was set back; types, the numbering of commits (`DbInv`) and
calls not started (`IdleInv`) need no such condition.

**PaymentWorker.** That the order's status is what its payment rows resolve to is
broken in the middle of every job: between `UpsertPayment` and `UpdateOrder` only
the job itself knows the new status. `JobInv` says what a job has when: its
fetched status was approved once if it says so, it holds the order's row at
`UpsertPayment` and `UpdateOrder`, and at the latter its `ctxStatus` is what the
rows resolve to with its own in them. As the row has one holder, no other job
writes a payment in between. Shipping needs a summary, the summary an approved
payment seen by a poll: `ToldInv` carries this through the cached status and the
copies polls have of it, `KnownInv` keeps what the history variables know.
`GivenUpNotedUnlessStalled` is an action property: a job is given up by throwing, which
notes it exactly in the last attempt, or by a crash that takes it past the limit of
its stalls.

**ShoppingCart.** Which copy of a cart is written last is anybody's guess, so each
must be good: the entry, the row, a refresh under way, what a hit will write back
and what a request has read. `CopiesInv` says this of each copy under the name of
every client it may still be written for: it stays within the stock, holds only
what was asked for, and repeats a line only after a merge. `ReadsInv` says which
carts a request has still to read at each place of its operation. The lemmas about
lines (`Updated`, `SetItem`, concatenation, the last line of a SKU) are about
sequences and need no induction. `SequentialChangesKept` is an equation between the cart
a client sees and an ideal one, and holds at every moment, because a write changes
both at once; what has to be shown is that the copy it is computed from is the ideal cart,
too. `IdealInv` says so of what an undisturbed client's requests have read, one cart or two,
and of what their hits will write back. Another request could make such a copy out of
date, but then both are on their way at once and concern the client, which `ApartInv` says has
disturbed it.

**CustomerAccounts.** `Progress` says which steps may be ahead of a request and what
those it has taken have established. `OneKey` is the heart of
`AcceptedWasMailed`: a code was generated for one key, whether it is found in the
cache, in a mailbox or with the request that sends it. A spent code that is still in
the cache was written back by a look-up that held it, or lies under a version that its
key has left (`OutOfReach`, `BackAgain`); as long as the counter was not set back, what
is cached and what a request counts on is no newer than the counter (`VersionsInv`), so
a raise leaves such codes behind for good. That is what `SpentUnlessRevived` allows. `GoogleHasNone` (the Google row never has a password)
makes the unordered query harmless for `LastPasswordCounts`.

**Pricing.** A line depends on what the builder still holds, so `BuildersInv` says that
this is the line before it, or nothing, and that a builder other than an order's never
names offers to book; the new line is then compared with its own product version
alone. `OnlyOffersThatRan` follows lists from the database to the cache and to other
requests (`ListsInv`), with the products they were read under: a product that a
request has named with a SKU stays named, as a request asks once (`AskedInv`); `RanInv` is what makes the first of these steps good: uses booked by orders
only remove offers from those that apply, and what a failed order gives back twice is
remembered.

`AmountsAgree` compares two requests that have read the same prices and the same
offers, perhaps in another order, and the order matters: the choice of each group's
best offer, the sorting of the winners and the cut after the smallest `max_stack` look at
positions. `SameDiscount` shows that what is left differs at most in which of two equal
offers was taken: winners of the two orders correspond group by group with the same
priority and discount (`PickIsBest`, `AheadOrder`), so the rank at which the stack is
cut takes offers of the same discounts (`RankedAlike`, `PartnersExist`, `SameRank`).
`Tied` is exactly the case in which it fails, equal offers with different limits. The sums
over offers and lines are counted, as in `OrderPipeline_proofs`. The second invariant
(`TInv`) adds what a request has found where it stands (`ReadsInv`: prices for every product
version, lists in an order of the offers' rows, terms for every offer in them), that its
lines are those it was asked for (`LinesInv`), and that the lines an order has paid for
are the ones it records (`AmountsInv`). The proof found a hypothesis that TLC's instance
had not needed: with discounts that add up to more than 100 the items may cost less than
nothing, the preference then charges a shipping that the recorded total has
swallowed, and only an order with non-negative items records what it charges.

**BackOffice.** `ChangesShow` speaks of entries, and an entry is saved by a load that may
have read long before. `BehindInv` therefore says, for a request that has read the version
of a view and was not raced, where its change may be missing: only in entries, and in
loads about to save, of that version or an older one. The version it then sets is newer
(`CountInv`), and neither entries nor loads are ahead of the counter (`EntryInv`,
`LoadInv`), both for views whose version was not set back: so no entry that can be found
misses the change. `StepsInv` (a request commits and invalidates at most once, only loads
fetch and save) is what the steps rest on.

`AtMostOneUnlessOutrun` and `FlagSurvives` speak of committed rows only, while a
request decides on what it has read and what its own transaction has written.
`FlagInv` says of each request where in its operation it stands (`PlaceOf`), what its
transaction may have written there (`WrittenOf`) and, unless another commit has
outdated it, that what it has read is still so (`FoundOf`), that what it sees of its
customer, product or table has one flag at most (`OneOf`) and, about to commit, one at
least where a flag must stay (`KeptOf`). Its commit then turns what it sees into what
is there; a request whose reads are outdated by it leaves these claims, and if it
commits all the same its group is in `outrun`. The operations that read nothing
before they write (`patchVersion`, the deletion of a review) need an argument of their
own: they clear or remove flags, and never add a second one.

**Only model-checked.** Liveness (`RequestsAnswered`, `JobsFinish`,
`CallsAnswered`, `LocksFreed`) is out of the prover's reach. Every
invariant and action property of the passing runs is proved. The three violated
properties are counterexamples, not theorems.

## 5. What is not modelled

- Validation of request bodies, permissions, MercadoPago's signatures and the texts
  of its preferences, shipping labels and carriers' data, search filters and
  pagination, texts and images of cards, logging.
- Sessions and access tokens: a session is one cache entry, written once and compared
  with a cookie; what `CustomerAccounts` keeps of a login is whether it succeeds.
  Staff login, whose permissions are cached for a day.
- Storefront assets, which live in the cache only and are written and removed one at
  a time; e-mails and the audit log, which change no state another part reads; the
  aggregations behind the metrics, whose cached results are views of `BackOffice`;
  the application shell.
- In the worker: the hour's expiry of the processing status, and a Redis failure
  inside the consumer's `catch`.
- In the cache: `updateData*` (no caller), bulk writes, hit statistics, the exact
  waiting times. A delayed write-back of a hit is modelled where it matters
  (`RewriteStatus`, `Back`, `WriteBack`).
- In `Pricing`: offers with several targets, updates of an offer's terms, deleted
  product versions, and the sign of a half cent in floating point.
- Code without a caller: `OffersUtilsService`, `calcShoppingCartOrderResume`, the first
  version of `buildMercadoPagoPreferenceBody`.
- The components listed as `not_modelled` in `PROJECT.json`, with reasons there.

## 6. Plan

1. (done) `OrderPlacement`, `OrderPipeline` and proofs: the most concurrent code and
   the only one with compensations.
2. (done) `PaymentWorker` and proofs: everything that happens to an order after it is
   placed.
3. (done) `CacheLock`, `CacheVersions` and proofs: shared by all handlers.
4. (done) `ShoppingCart` and proofs: read-modify-write of the cached cart.
5. (done) `Pricing` and proofs: offers, lines, totals and what an order is charged.
6. (done) `CustomerAccounts` and proofs: codes, accounts and passwords.
7. (done) `BackOffice` and proofs: the records, their flags and their cached views.
8. (done) `NothingLost` and the books of `OrderPipeline`, and the flags of `BackOffice`.
9. (done) `TypeOK` and `AmountsAgree` of `Pricing`, with the lemmas about sums and about
   the choice of offers.
10. (done) `SequentialChangesKept` from an invariant that an undisturbed client's cart is
    the ideal one.

Runs are scarce by choice: new components join an MC module of their own, and a
violating run that has served its purpose makes room when needed.
