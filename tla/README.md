# Verification of the shop

TLA+ modules, TLC configurations and TLAPS proofs for the Italian Tech Atelier
shop: a React Router application that runs on Cloudflare Workers with D1 or on
Node with MariaDB. The repository's central claim is about stock: an order holds
units for a while, and they are sold, or they go back, once. Around it stand the
people who count and move stock, the customers' carts, the staff who administer
the shop and each other, the catalogue they edit together, and the server that
caches pages and runs jobs. Nearly all of it has one shape: a request reads,
decides on what it read, awaits, and writes, while others do the same. This
project models that and proves what can be proved.

    tlc -workers 2 -config crowd.cfg MCOrderStock.tla
    tlc -workers 2 -config shop.cfg MCShop.tla
    tlc -workers 2 -config server.cfg MCServer.tla
    tlapm OrderStockProofs.tla

## The system

All paths are relative to the repository root.

| Part | State | Operations | Meets others through |
|---|---|---|---|
| Checkout, `app/application/commands/create-order.ts` | `idempotency_keys`, `orders`, `order_payments`, `stock_reservations`, `inventory_levels.reserved` | `createOrder` | the levels and the key index |
| Sweeper, `expire-reservations.ts` | `stock_reservations.status`, `reserved`, order and payment status, `stock_movements` | `expireReservations`, every five minutes and at least once | the reservations and payments of every order |
| Payment verification, `verify-payment.ts` | `order_payments`, `orders.status`, `on_hand`, `reserved`, reservations | `verifyPayment` | the same rows, and the step-ups |
| Order list and order page, `app/routes/admin/orders.tsx`, `order-detail.tsx` | `orders.status`; the list also releases holds | `action` | the same rows |
| Status machines, `app/domain/orders/status.ts`, `app/domain/payments/status.ts` | none | transition tables | consulted by the four above on what they read |
| Sessions and step-ups, `app/infrastructure/auth/session.server.ts` | `step_up_sessions` | `grantStepUp`, `consumeStepUp` | verification, role changes |
| Cart, `app/lib/cart.server.ts`, `routes/storefront/cart.tsx`, `checkout.tsx` | `carts`, `cart_items` | `ensureCart`, `addToCart`, `setQuantity`, the checkout action | calls `createOrder` with a key it makes; reads levels |
| Stock administration, `routes/admin/inventory.tsx`, `inventory-transfers.tsx` | `on_hand`, movements, locations, transfers | adjust, add a location, send, receive | the levels orders reserve from |
| Installation, `bootstrap-admin.ts` | `installation_state`, `bootstrap_attempts` | claim, account, complete, release | Better Auth; the first of the staff |
| Staff, `routes/admin/staff-detail.tsx`, `staff-invitations.ts`, `domain/users/staff-guards.ts` | `staff_profiles`, `user_roles`, `staff_invitations`, sessions | set status, set roles, revoke sessions, invite, accept, revoke | each other, through summaries read earlier |
| Product page and list, `routes/admin/product-detail.tsx`, `products.tsx`, `imports.tsx`, `create-product.ts` | products, translations, variants, prices and their history, photographs | details, status, variants, prices, uploads, duplicates, files | one another, by two browsers at once |
| Object store, `infrastructure/storage/filesystem.ts` | two files for each object | put, delete | shared by a product and its duplicates |
| Fulfilment, `routes/admin/pickups.tsx`, `shipments.tsx`, `returns.tsx` | pickups, shipments, return requests | open, ready, collected; recorded, delivered; decided | orders, by id only |
| Compatibility, `routes/admin/compatibility.tsx`, `domain/compatibility/resolve.ts` | `product_compatibility` | add, verify, set the level, remove; the verdict | the storefront |
| Home page, `routes/admin/homepage.tsx` | `homepage_sections.sort_order` | add, move, remove | nothing |
| Money, `domain/cart/totals.ts`, `domain/pricing/` | none | totals, VAT, announced reductions | cart and product pages |
| Search, `infrastructure/search/indexer.ts` | search documents and tokens | rebuild | the catalogue, which never calls it |
| Response cache, `server/response-cache.ts`, `cache-middleware.ts` | a store per worker, a version file for all | serve, store, refresh, bump | every mutation bumps the version |
| Node server, `infrastructure/db/mariadb.ts`, `server/jobs.ts`, `server/index.ts` | a pool, transactions, the running job, the shutdown | batch, transaction, run, drain | everything that writes |

### What is hard about it

A single statement is atomic, and so is a `db.batch` (a D1 batch or a MariaDB
transaction; a failed statement rolls all of it back). Nothing else is. So:

- two checkouts see the same last unit; the `CHECK` on the level decides;
- two cron runs select the same reservation; a conditional update decides;
- a verification and the sweeper both look at a payment that is about to change;
- a status change by hand is judged on a status that may be gone when it is written;
- a sweep can fail or die between its claim and its release;
- a customer repeats a request at once, or a day later, or in another tab;
- a stock count writes an absolute number computed from a level that has moved;
- two administrators demote each other; an invitation is used twice, or dies half way;
- two people save one product, one price, one order of sections;
- a photograph is deleted while another product begins to use its file;
- a page is rendered before a change and stored after it, in another process;
- a rollback fails, a deadlock is retried, a shutdown meets all of this.

### What correctness means here

The levels stay within `0 <= reserved <= on_hand`. `reserved` is the sum of the
holds. A hold belongs to at most one sweep and ends once: returned, or sold.
A payment and an order move along their machines. A step-up authorises one
verification. One key yields one order. An overdue hold of an unpaid order is
returned in the end. Movements explain the shelves. There is one installation,
always an administrator, and only a super_admin makes another. Nobody erases a
text they have not seen, every price has its evidence, a product has a default
variant that is for sale and photographs that exist. The storefront claims only
what was verified and saved. A cached page shows every change it was told of, and
every change is told in the end. A batch is all or nothing.

PROJECT.json lists what can go wrong with these as hazards, line by line, with
the properties that watch them.

## Modules

| Module | What it is |
|---|---|
| `Statuses` | The two status machines as tables. |
| `OrderStock` | The core: every request and the sweeper, over one shop's stock. |
| `HoldContract` | The abstract specification of a hold: taken whole with its order, then returned or sold, once. |
| `StockLedger` | Adjustments, locations and transfers of one variant beside its orders. |
| `Cart` | One customer's cart in several tabs, and the checkout route. |
| `Installation` | The first administrator. |
| `Staff` | Accounts, roles, sessions and invitations. |
| `ProductPage` | One product's texts and status, and the conflict guard. |
| `Prices` | Prices, their history, and the import of a file. |
| `Variants` | Variants, the default one, the duplicate. |
| `Photos` | Photographs: rows, and the files behind them. |
| `Fulfilment` | Collections, parcels, returns. |
| `Compatibility` | Which phone fits, and what the storefront says of it. |
| `Homepage` | The order of sections. |
| `Figures` | Totals, VAT and reductions, asked and answered. |
| `SearchIndex` | The rebuild of the search tables. |
| `ResponseCache` | Workers, their stores, and the version they share. |
| `Server` | Pool, transactions, job and shutdown of one process. |
| `MCOrderStock`, `MCShop`, `MCServer` | Instances for TLC. |
| `OrderStockProofs` | Proofs about `OrderStock`: types, levels, keys, payments, step-ups, claims; reserved units as the sum of the holds; the refinement of `HoldContract`; what holds where the windows of the violated runs are shut. |
| `FiniteSums` | Lemmas: sums over finite sets, least and greatest elements, counting what is added or removed. |
| `OfficeProofs` | Proofs about `StockLedger`, `Installation` and `Staff`. |
| `CatalogueProofs` | Proofs about `Variants`, `ProductPage`, `Compatibility`, `Homepage`, `Photos`, `Prices`. |
| `CustomerProofs` | Proofs about `Cart`, `Fulfilment`, `Figures`, `SearchIndex`. |
| `CacheProofs` | Proofs about `ResponseCache`. |
| `ServerProofs` | Proofs about `Server` and the instance `MCServer`. |
| `ShopProofs` | Proofs about the instance `MCShop`: it is its parts, and its types. |

In all of them a request's local variables are a record, one action is one
statement or batch together with what the handler computes around it, and a
handler that refuses before it changed anything does not take the next step.
Every module uses variables named after tables and handlers of the code, and
PROJECT.json maps each definition to its lines.

### How OrderStock corresponds to the code

| Variables | Code |
|---|---|
| `onHand`, `reserved` | `inventory_levels` of the location that sells online |
| `keyOwner`, `lapsed` | `idempotency_keys`; a key past `expires_at` keeps its row |
| `order`, `payment`, `resv` | the `status` columns of `orders`, `order_payments`, `stock_reservations` |
| `released` | the `reservation_release` movements of a line |
| `elapsed` | the orders whose `expires_at` is past, in the order in which they became so |
| `checkout`, `answer` | where a `createOrder` call is, and its result |
| `sweep` | the local variables of one `expireReservations` run |
| `stepUp` | grants per user, and those neither consumed nor expired |
| `ver`, `edit` | the local variables of a verification and of a status change |

| Actions | Code |
|---|---|
| `LookUpKey`, `RefuseCheckout`, `CheckAvailability`, `PlaceOrder`, `RollBackOrder` | `createOrder`, steps 1 to 7; the batch commits or fails |
| `StartSweep`, `Claim`, `RecheckPayment`, `GiveBack`, `ReleaseHold`, `FinishSweep` | `expireReservations`, one action per statement or batch |
| `SkipRow`, `LoseClaim`, `CrashSweep` | its inner catch, before and after the claim; its outer catch or the death of the worker |
| `GrantStepUp`, `LapseStepUp`, `ReadPayment`, `Authorise`, `RecordOutcome`, `RollBackOutcome` | the step-up and `verifyPayment` |
| `ReadOrder`, `CommitListEdit`, `CommitDetailEdit` | the two routes that write an order's status |
| `Elapse`, `LapseKey` | time |

Time is not a number. `Elapse` says that an order's window is over; payment
methods hold for different times, so orders elapse in any order, and the order
in which they did is what `ORDER BY expires_at` sees. `LapseKey` says that a
key's day is over.

A handler that refuses a request before it has changed anything simply does not
take the next step, or ends as `refused`. History, events, audit rows and run
records are written and never read by these handlers, so they are left out; the
one movement the properties need is `released`.

`HoldsContract` maps the model to `HoldContract`: `free` is `on_hand - reserved`;
a line is `held` while its reservation is active, and also while a sweep has
claimed it and not yet returned its units.

### How the other modules correspond to the code

`StockLedger`. `onShelf` and `promised` are the two columns of a level,
`adjusted`, `carried`, `opened` and `soldAt` the sums of its movements and of the
two changes that write none. `ReadForAdjustment`/`CommitAdjustment`,
`ReadForTransfer`/`CreateTransfer` and `OpenReception`/`ReadDestination`/
`CommitReception` are the reads and the batch of the three forms; the batch
writes the number computed from the read. The `RollBack...` actions are the batch
refused by a CHECK or an index. One variant is enough because variants share no row.

`Cart`. A tab's request is `LookUpCart`, `InsertCart`, then `AddToCart` or
`SetQuantity`, or `ReadLines`, `Checkout` and `ClearCart`. `InsertCart` keeps the
old id of an expired cart and hands out the new one, as the upsert does, so the
line that follows is lost (`MissCart`). `SecondLevel` is what a reception in
`StockLedger` does to the query of the lines. `Checkout` has a key of its own for
each submission, as the route makes one, so no submission is a replay of another.
Two histories say what belongs together: `chosen` has an element for each time the
cart was filled, the last one for the present fill, and `bought` says of each
submission which fill its lines were read from and what its order took.

`Installation`. `lock` and `stale` are the row `singleton`; `ReleaseClaim` deletes
it whoever's it is, and `CompleteInstallation` inserts profile and role whether or
not its last update matches.

`Staff`. A staff request is judged on summaries (`JudgeStatus`, `JudgeRoles`),
admitted by `requireStaff` and the step-up (`AdmitStatus`, `AdmitRoles`), its
added roles weighed (`WeighRoles`), and written. The order is the code's: the
guard of the last administrator comes first. An acceptance claims the invitation,
makes the account, and writes the profile; `ReopenInvitation` gives it back.
A session reaches a browser in two ways: after a password alone the sign-in asks
for the profile first (`RelaySession`, `login.tsx`); after a code of the second
factor nobody asks (`AnswerChallenge`, `security-2fa-verify.tsx`).

`ProductPage`, `Prices`, `Variants`, `Photos` split the product page by the rows
that its intents touch. `ProductPage` has the clock, because `updated_at` is the
guard; `began` is the time a request read at its start and writes at its end,
whatever it writes: details, publishing, and, with `Late`, the list's status,
archiving, restoring and featuring. (`featured.tsx` reads the clock as it sends its
statement; what can pass before the statement runs is the wait for a connection.)
`Prices` names variants by SKU; a file is planned whole and applied row by row.
`Photos` writes and deletes an object as two files, in the order of
`FilesystemObjectStore`.

`Fulfilment`, `Compatibility`, `Homepage`. One action per intent, two where the
handler reads before it writes. The tick of a record has two as well, though its
handler reads nothing: the page that showed the record is the read (`OpenPage`),
and the UPDATE of `Verify` has no condition on the level that was shown. `Shown` is
`resolveCompatibility`.

`Figures`. There is no state to keep: a question is chosen at the start, the
answer computed by the translated functions, and compared with its meaning.
Percentages are floored in floating point in the code, so a quotient that is a
whole number may come out one lower; the model allows both.

`SearchIndex`. A rebuild reads all translations, empties both tables in two
statements, and fills them in batches that ignore where a product ends.

`ResponseCache`. `known` is a worker's idea of the version, `looking` a read of the
file under way. `StoredUnder` is the check that throws a page away whose version
moved while it was rendered. `MissBump` is a change for which nobody bumps: the
client left before the answer finished, or a job made the change, whose route is
mounted before the middleware and whose script is another process.

`Server`. `open` is what the database keeps open on a connection, the one external
state; `AfterRollback` stands for the rollback and, when it fails, for the
connection that replaces the destroyed one. A deadlock has rolled everything back
when it is reported; a lock that timed out has undone one statement and leaves the
transaction open (`Deadlock`, `TimeOutOnLock`), and an interactive transaction is
tried again after either. `runs` counts the promises of
`server/jobs.ts` that are not settled.

### Named exceptions

Where the code has a window that it does not close, the property does not look
away from it in silence: a history variable names the window, and the property
says that nothing else breaks it. A reader who closes the window in the code can
delete the disjunct; for six of the flags that is a theorem (see "The windows,
shut" under Proofs).

| Flag | Module | The window |
|---|---|---|
| `raced` | `StockLedger` | an absolute number, computed from a level or a status that has changed, is written |
| `outlived` | `Installation` | a submission runs longer than the fifteen minutes its claim lasts |
| `crossed` | `Staff` | two changes of staff overlap: the second was judged before the first was written |
| `halfJoined` | `Staff` | an acceptance fails after it made the account |
| `unasked` | `Staff` | a code of the second factor hands a session to somebody whose profile is not active |
| `unstamped` | `ProductPage` | `updated_at` repeats a millisecond, goes back (a save or a change of status that was slow), or is not written (an import's name) |
| `overtaken` | `Prices` | the price of this variant moved between a read and its write |
| `stray` | `Variants` | a default chosen on an outdated page, or an archiving that passed its check before |
| `gambled` | `Photos` | an object is deleted that somebody began to use since its references were counted |
| `blurred` | `Photos` | the primary of this product was judged from rows that have changed, or a deletion died before it promoted another |
| `misticked` | `Compatibility` | a record is ticked from a page that showed it at another level |
| `mixed` | `Homepage` | a submission wrote after the positions it read had changed |
| `disturbed` | `SearchIndex` | the catalogue or another run wrote since the rebuild began, or it stopped |
| `muddled` | `ResponseCache` | two bumps have one value, or a version never reaches the file |
| `unsure` | `Server` | the answer to a COMMIT is lost |

## Runs

Passing runs (distinct states, with two workers):

| Run | Instance | Shows |
|---|---|---|
| `crowd` (826 000) | two orders for three units; two sweeps that may fail; two verifications by one user with two step-ups; a cancellation | `TypeOK`, `StockBounds`, `ClaimExclusive`, `ReturnedOnce`, `StepUpSpentOnce`, `BooksDriftOnlyBySale`, `ReservationFinal`, `PaymentStepsLegal` |
| `holds` (210 000) | two orders of two lines that cannot both be served; two failing sweeps; a partial payment; a cancellation from the list | `ReservedIsHolds`, `HoldsContract` |
| `sales` (60 000) | three requests, two with one key whose day may pass; back-orders; a verification; the order page | `ReplayAgrees`, `HoldsContract` |
| `live` (31 000) | two orders of two lines, one sweep that is run again for ever, rejected and partial payments, the order page | `UnpaidHoldReleased` |
| `shop` (1 161 000) | fourteen parts, one at a time | the table below |
| `server` (24 000) | two workers, one of which may restart; one connection, a batch, a transaction that may deadlock or time out on a lock and is tried again, two callers of the job | `NodeTypeOK`, `AllOrNothing`, `CleanExit`, `ChangesReachAll`, `ServerLive` |

The properties of `shop`:

| Property | Says |
|---|---|
| `ShopTypeOK` | every variable of every part has its type |
| `ShelfCoversPromises` | no shelf ends with fewer units than orders hold from it, however outdated the number written |
| `UnbookedIsSold` | what the movements of a shelf leave unexplained is its opening count and its sales and nothing else, unless `raced` |
| `NothingLostInTransit` | what left and has not arrived is what is in transit, unless `raced` |
| `SoldOnlyChosen` | the cart holds no more than was chosen since its last clear, and no order more than was chosen in the one fill it was read from, once for each level of the variant |
| `OneAdministrator` | one first administrator, and then the installation is completed, unless `outlived` |
| `AdminRemains` | an active super_admin remains, unless `crossed` |
| `SuperFromSuper` | only a super_admin makes one, unless `crossed` |
| `SessionsOfTheActive` | a browser's session belongs to an active profile, unless `unasked` |
| `InvitationSpentOnce` | one invitation, one colleague; nothing revives a spent or revoked one |
| `NoSilentOverwrite` | no save replaces a text its author had not seen, unless `unstamped` or between check and write |
| `PriceEvidenced` | every price has its row, one is open, and rows join, unless `overtaken` |
| `HasDefault` | one default variant, for sale, in product and copy, unless `stray` |
| `PhotosServed` | every row has its object and every object its type, unless `gambled` |
| `OnePrimary` | one primary photograph, unless `blurred` |
| `ReturnsKeepTheirRights` | a withdrawal is never rejected; goods received stay received |
| `ClaimsEvidenced` | a fit is certain only if verified at its present level, unless `misticked`, and contradicted by no record |
| `SectionsOrdered` | positions differ, unless `mixed` |
| `TotalsAddUp` | goods, discount and shipping make the total; VAT is the nearest cent |
| `ReductionsNeverOverstate` | a percentage is of the lowest price really charged, and not above what was saved |
| `IndexComplete` | after an undisturbed rebuild every translation is found, but for a product that straddles two batches |
| `BumpedChangesShow` | no cached page lacks a change its version covers, unless `muddled` |

Why one part at a time. The fourteen parts of `MCShop` share no variable, because
the code's parts share no table (the levels are shared by `OrderStock` and
`StockLedger`, and each of the two has its own model of the other's writes). No
step of a part enables, disables or changes a step of another, so a state of the
product violates an invariant about one part exactly if that part alone reaches
it. `part` chooses a part at the start; the sum of their states replaces the
product. `MCServer` does the same with the cache and one process.

Why these bounds are enough for the questions asked. Claims, returns and
reservations concern one row and whoever acts on it, and two of each actor give
every pairing; in `holds` two sweeps may hold different lines of one order. The
counter is shared by orders, so the runs about levels have two orders whose
quantities differ (2 and 1) and shelves of 2 or 3 units: both orders fit or one
does, and a unit charged to the wrong order is visible. A replay needs the
original, a repeat and a stranger. Each staff request is a single use of its
form; the same user with several tabs is several requests.

Symmetry is used among sweeps and among verifications, never in runs that check
liveness. `holds` and `sales` each leave out what breaks the contract on
purpose: `holds` offers no `verified` outcome, `sales` has no sweeper. Together
with `BooksDriftOnlyBySale` in `crowd`, where everything is present, they say
exactly where the books stop being exact: at a verification that commits while
some hold of its order is not active. `sales` is the one run that may stop
(every request answered, no sweeper to run again), so it does not check for
deadlock.

For `shop` and `server`, each hazard is a pair of requests that cross, or one
request and one change by somebody else, and each part has such a pair: two
receptions of one transfer, three requests of one cart, two installers, two
changes and two acceptances for two people of whom one is the only
administrator, two saves, two prices and a file, three variants and an archiving,
two uploads beside a deletion and a duplicate, two edits of three sections (moving needs a
neighbour and a third that is not one), two forms of one phone's records, one of
which may be a page left open, two workers and two mutations. Numbers are
the least that make a case happen: quantities 0, 1, 2 with a cap of 2; three
products in batches of two, so that one straddles; a window of two days with
instants before, in and after it; amounts of 0, 1, 3 and 10 cents, whose VAT at
22 percent rounds both ways, in carts of one line and of two equal lines (the
proof is about carts of any lines). The ledger does with one
adjustment and one transfer, because a sale, a sending and two receptions already
move the level an adjustment has read. Bounds in
guards are `MaxLevels`, `MaxExpiries`, `MaxAttempts`, `MaxStamp`, `MaxPosition`,
`MaxWordings`, `MaxMs` and `MaxRestarts`; each is declared as a bound in its module.

Fairness. Cron runs the sweeper every five minutes and a run goes through its
rows, so `FairSpec` has weak fairness of each sweep's own progress, and of
nothing else: no customer and no member of staff is obliged to act. `live` has
`Faults = FALSE`, because a fault can lose a claim for good (see `lost_claim`).
Its batch size is that of all its rows, four: rows that are given back remain
candidates and come first in the next query, so as many of them as the `LIMIT`
starve every later row. With a batch size of two the partly paid order of two
lines does that to the other order, and TLC reports `UnpaidHoldReleased` violated.
It is listed as a hazard: the code's `LIMIT` is 100.

In `server`, file reads, renders, queries and jobs end, a mutation's answer is
followed by its bump and write unless the worker restarts or the bump is missed, and the shutdown takes
its steps: weak fairness of each, since these are the event loop's own. Strong
fairness is needed twice. A free connection is given to the requests in the order
they came (`mariadb.ts` leaves the queue to mysql2), so one who waits is not
passed over for ever while the connection comes and goes. And a worker refreshes
its version only when it is asked for a page, so `ChangesReachAll` assumes that
visitors keep coming to every worker: a worker nobody visits keeps its old
version, and harms nobody. No fairness of signals, clocks, faults or mutations.

Runs that TLC must find violated, each about a sentence of the repository:

| Run | The sentence | What TLC shows |
|---|---|---|
| `never_both` | "either the order is paid and stock stays reserved, or it expired and stock was released. Never both" (`docs/inventory-and-reservations.md`) | the verification commits between the sweeper's re-check and its release |
| `overpaid` | "Both keep the reservation alive" (`app/domain/payments/status.ts`) | the re-check does not count `overpaid`; the hold is released |
| `page_paid` | "reachable **only** through the verification use case" (`docs/order-state-machine.md`) | the order page moves an order to `paid` |
| `lost_claim` | "the sweeper catches up on its own. It is idempotent, so no manual cleanup is needed" (`docs/operations-runbook.md`) | a claim lost in the catch is never taken up again, under fair sweeps |
| `unbooked_sale` | "Every change to on-hand quantity writes a `stock_movements` row" (`docs/invariants.md`, 4; also `db/schema/inventory.ts`, `docs/inventory-and-reservations.md`) | a sale lowers `on_hand` and writes no movement |
| `double_click` | "Customers double-click. [...] Without idempotency a double-submitted checkout reserves the last unit twice and creates two orders" (`docs/invariants.md`, 14) | the route makes a key for each submission; the second reads the cart before the first clears it, and both place an order |

`tests/integration/expiry-race.test.ts` does not meet the first one: its
verification is a helper of its own (lines 47-60) that runs whole before the
sweep starts, and it touches neither reservations nor stock levels.

The counterexamples of `never_both`, `page_paid`, `unbooked_sale` and
`double_click` are the only kind there is: with the window in question shut, or the
step in question named, each of the four sentences is a theorem (`PaidOrReleased`,
`PaidIsVerified`, `OnlySalesMoveNothing`, `OneByOneSoldOnce`, below), and of
`lost_claim` the safety half is (`NoClaimIsLost`).

## Proofs

TLAPS proves these for all values of the constants, from the modules' named
assumptions only: the types of the constants, that what is counted is finite
(`Hold`, `Location`, `Transfer`, `PhotoRow`, `Tongue`), that a null differs from
the values it stands beside, that carts and files are finite sequences
(`Baskets`, `File`), and that the instants of a price history have a last one.
Each is evaluated by TLC on every run of an instance.

### Orders and stock

| Theorem | Property | Argument |
|---|---|---|
| `TypeCorrect` | `TypeOK` | inductive together with the levels: subtractions stay natural because the batch asks `LevelsAllowed` or clamps |
| `StockBounded` | `StockBounds` | every write of a level either asks `LevelsAllowed` or lowers `reserved` by a clamped amount |
| `ClaimsExclusive`, `HoldsReturnedOnce` | `ClaimExclusive`, `ReturnedOnce` | `ClaimInv` |
| `ReservationsFinal` | `ReservationFinal` | from `ClaimInv`: a give-back writes a row that is `expired` |
| `ReplaysAgree` | `ReplayAgrees` | every answered order is the owner of its request's key, and an owner never changes |
| `PaymentsMoveLegally` | `PaymentStepsLegal` | a verification past its read holds a legal transition from what it read, and writes only where that still is the status |
| `StepUpsSpentOnce` | `StepUpSpentOnce` | authorised requests and live grants trade one for one; cardinalities of the finite set of verifications |
| `BooksDriftBySaleOnly` | `BooksDriftOnlyBySale` | every step leaves lines and levels alone, or takes, returns or sells lines of one order; the units of a variant are split into that order's and all others', which stay |
| `ReservedIsHeld` | `ReservedIsHolds` | the same step by step; without a `verified` outcome no verification sells |
| `ContractKept`, `ContractKeptUnsold`, `ContractKeptBySales` | `HoldsContract` | the refinement, below |
| `ShelvesCover` | `ShelfCoversPromises` | what is promised is the active holds' units, a sum over a finite set, so returning or selling one leaves a natural number; every other write asks the CHECK |
| `UnbookedOnlySales` | `UnbookedIsSold` | with the same invariant: a write from a level that is still the level moves shelf and movement by one difference |
| `OnlySalesMoveNothing` | `EveryChangeMoves`, but for sales | every other batch that changes a count writes a movement of the difference, which is not zero if the level read was the level |
| `TransitBalances` | `NothingLostInTransit` | sums over locations and over transfers: sending lowers one shelf and raises what is in transit by the same number, receiving the reverse |

`ClaimInv`, in `OrderStockProofs`, is
`TypeOK /\ NoHoldYet /\ ClaimExclusive /\ ReturnedOnce`. Neither
`ClaimExclusive` nor `ReturnedOnce` is inductive alone. That a release makes
`released` one and not two needs that the row was in a sweep's hands
(`ReturnedOnce` says such a row has not been returned); that nobody else touches
it needs that it is `expired` while held (`ClaimExclusive`), since every other
writer asks for `active`; and that a fresh order does not revive a row needs that
an order not yet placed has no reservations (`NoHoldYet`).

`ContractKept` is `Spec /\ HeldSales => HoldsContract`: every step of requests
and sweeps is a step of `HoldContract` or a stutter, under the mapping given with
the actions above. It needs `ClaimInv`, that books are exact, and that an order's
lines are placed together (`PlacedWhole`). `HeldSales` says that a verification
commits only while all holds of its order are active. The code does not ensure
that (a late transfer is verified after the hold was returned, and another order
then owns the units), and without it the contract does not hold, so it is a
hypothesis here and not an assumption on a constant. Two cases need no hypothesis
about behaviour and are theorems of `Spec` alone: no payment recorded as fully
verified (`ContractKeptUnsold`), and no sweeper and no cancellation from the list
(`ContractKeptBySales`), where every sale, a repeated one too, takes an order's
lines together. They are the cases which the runs `holds` and `sales` check.

What the violated runs refute is proved where their cause is absent:

| Theorem | Property | Where | Argument |
|---|---|---|---|
| `PaidOrReleased` | `NeverBoth` | `Apart`, and the order page neither reopens nor pays (`PageAside`) | `ReleasesUnpaid`: a sweep past its re-check has an unpaid order; an order of which a line was released is past paying, and so is the status that a verification of it has read |
| `PartPaymentKeepsHold` | | `Apart` | a sweep past its re-check has an order whose payment is neither verified nor partly paid, and only a verification could change that under it |
| `PaidIsVerified` | `PaidMeansVerified` | `Apart`, `OneAtATime`, and the order page does not write `paid` | `ReadsAreFresh`: the payment that a verification has read is the order's until it writes, so it never marks an order paid whose payment it does not write |
| `CancelledIsReleased` | `CancellingReleases` (checked by no run) | the order page is not used | the list's batch releases all it cancels, and nobody else cancels an order that holds stock |
| `NoClaimIsLost` | | no sweep fails or dies (`Faults = FALSE`) | `ClaimsInHand`: a claimed line whose stock is not back is in the hands of a running sweep, which returns it or gives the claim back |

`Apart` says that no verification of an order is in flight while a sweep stands
between its re-check and its release of that order; `OneAtATime`, that no two
verifications of one order are in flight together. The code ensures neither, so
both are hypotheses on the behaviour, and `never_both` is a behaviour without the
first. They describe what a row lock on the order, or a condition on the order's
status in the release, would give.

### Staff

| Theorem | Property | Argument |
|---|---|---|
| `InstalledOnce` | `OneAdministrator` | `OneHolder`: one submission at most holds a lock that is in progress and not stale, and the lock is completed exactly when there is an administrator |
| `SuperMintedBySuper` | `SuperFromSuper` | weighed roles, and those of an invitation, stay justified by the actor's roles until another change overtakes them |
| `InvitationsSpentOnce` | `InvitationSpentOnce` | an invitation in somebody's hands is accepted and in nobody else's; a profile comes after its account, and an acceptance makes its account itself |
| `AdministratorRemains` | `AdminRemains` | every change in flight that nobody overtook still leaves an administrator if written now |
| `SessionsStayActive` | `SessionsOfTheActive` | every batch that takes `active` away takes the sessions with it, and a session goes to an active profile or its person is `unasked` |

`StaffInv`, in `OfficeProofs`, holds the types of people and of every
request's locals, `AccountsFirst`, `ClaimsHeld`, `Justified`, and the first two
properties of staff. `StillLeavesAdmin` and `SessionInv` are added to it for the
last two. Why each part is needed is said where it is defined.

### Catalogue

| Theorem | Property | Argument |
|---|---|---|
| `DefaultForSale` | `HasDefault` | an archiving past its check remembers the default it saw and does not archive it; the copy is as good as what was read |
| `OverwritesSeen` | `NoSilentOverwrite` | `StampsPast`, `StampTellsText`: while stamps only go forward, equal stamps mean equal texts, so a page whose stamp still matches has the present text |
| `FitsEvidenced` | `ClaimsEvidenced` | `TicksEarned`: a tick on a record is of the level its page showed, which is the one it has now or the record is `misticked`, because changing the level takes the tick; the verdict is certain only from ticks |
| `PositionsDiffer` | `SectionsOrdered` | a submission that nobody overtook still holds the positions it read, so the number it writes is above all others, or two neighbours change places |
| `PhotosStayServed` | `PhotosServed` | everybody who relies on an object has it: rows, uploads past their put, duplicates past their read; a removal not overtaken counted no other reference |
| `PrimaryIsOne` | `OnePrimary` | a product has one primary or a deletion that is about to choose one, and no second settles beside it |
| `PricesEvidenced` | `PriceEvidenced` | each price and the last row of its history move together; an import follows its plan, in which no SKU comes twice and an update is of a SKU that exists |

### Customers

| Theorem | Property | Argument |
|---|---|---|
| `SoldIsChosen` | `SoldOnlyChosen` | `CartInv`: what is in the cart, what a submission read and what an order took is each covered by what was chosen for its fill (`ChosenFor`), and no step takes back what was chosen or a level (`ChosenGrows`) |
| `RightsKept` | `ReturnsKeepTheirRights` | a rejection under way is of a return that is no withdrawal, and a withdrawal stays one |
| `TotalsAdd` | `TotalsAddUp` | for carts of any length: the fold of the lines is the last of its partial sums; half-up division is within half a cent of the quotient |
| `ReductionsModest` | `ReductionsNeverOverstate` | a price is charged from its row until the next one, so the rows which overlap the window are those charged on one of its days, and the fold returns the least of them |
| `IndexIsComplete` | `IndexComplete` | what a rebuild has left is the end of a list of all translations in which a product's rows stand together, and what it has written is the beginning; batches end at multiples of `BatchSize`, so only a product with a row on each side of one can lose tokens |

### Server

| Theorem | Property | Argument |
|---|---|---|
| `BatchesAtomic` | `AllOrNothing` | a connection's open transaction belongs to the request that holds it, so beginning never commits somebody's half; a request that waits again has saved nothing |
| `ExitsClean` | `CleanExit` | closing asks that nothing is in flight, and nothing arrives after the signal; a run starts only when none is under way |
| `BumpedShow` | `BumpedChangesShow` | a worker's version only grows, and a page is stored only if the version it was rendered under is still the worker's; every page under a version shows the changes that were announced with that version or an earlier one |

| `StoresBounded` | `CacheTypeOK` | a page is stored after its older copy of the same version was taken out, and the oldest pages leave until the limit holds; taking pages out leaves the others' keys distinct |
| `NodeHasParts` | | a step of the instance is a step of the caches or of the server and leaves the other alone |
| `NodeTypes` | `NodeTypeOK` | from `StoresBounded`, `ServerInv` and `NodeHasParts` |

### The instances

`ShopHasParts` says that the instance `MCShop` behaves, seen from each part, as
that part's own specification: so what is proved of a part holds of the instance,
and the runs of the instance are runs of the parts. (`Figures` asks its question
at the start, only where it is the part in play, and is treated apart.)
`ShopTypes` is `ShopTypeOK` from the parts' invariants. Where a type invariant
bounds contents (`SearchTypeOK`: words that are stored are among those that were
written), the proof adds what rows on their way hold (`TablesBounded`).

### The windows, shut

Most properties of the parts carry a flag from the table of named exceptions.
For six of them it is proved that nothing but the window raises the flag: where
a behaviour does not open the window, the property holds without its exception.

| Theorem | Flag | What behaviours must not do | What then holds |
|---|---|---|---|
| `OneByOneBooksHold` | `raced` | two requests, or a request and a sale, between the read and the write of one level | every shelf is its opening plus its movements, and what left without arriving is in transit |
| `OneByOneAdministratorStays` | `crossed` | weigh two changes of staff at a time | an active super_admin remains, and only such a person makes another |
| `OneByOneHistoryChains` | `overtaken` | read a variant's price while another change of it is under way | each row of a history starts at the price where the one before ended |
| `OrderlyDefaultStays` | `stray` | choose a default from a page older than its archiving, or move the default between an archiving's check and its write | a product, and its copy, has one default variant and it is for sale |
| `LoneDeletionsServed` | `gambled` | begin an upload or a duplicate of an object while a deletion is at it | every photograph has its object, and every object its type |
| `OneByOneSectionsDiffer` | `mixed` | two submissions of the home page at a time | no two sections share a position, even when rows are removed under a submission |

The code ensures none of these, which is why they are hypotheses on behaviours
(`Spec /\ []OneSubmission => ...`) and not assumptions. They are no weaker versions of
the properties with flags, which need no such hypothesis and are theorems too:
together the two say what goes wrong exactly there, and what it would be enough to
close. Each rests on an invariant of its own, that what a request has read is
still so when it writes (`LedgerReadsStand`, `ChecksStand`, `CountsStand`, ...).
The failures and refusals that the models have remain possible in all of them.
(`OneSubmission` is coarser than `mixed`: it also rules out overlaps that do no harm.)

`OneByOneSoldOnce` is of the same kind for a sentence that is violated: where no two
checkouts of a cart stand between reading its lines and clearing it, no two orders
take one fill of the cart (`NoOrderTwice`). Its invariant, `ApartInv`, is that
orders are of fills that were cleared, but for one whose submission is about to.

Induction over data is not available as a theorem with an operator parameter. Where
a fold or a sum must be known for every length (`FiniteSums`, `Figures`,
`SearchIndex`), the proofs use a set of numbers instead: one that has zero and
the successor of each of its members is `Nat` (`AllNumbers`), because a set of
naturals that is not empty has a least member.

Only model-checked: `UnpaidHoldReleased`, `ChangesReachAll` and `ServerLive`, which
hold, and `ClaimsResolved`, which faults violate (its safety half without faults is
`NoClaimIsLost`). Liveness under fairness is out of this prover's reach. Every
invariant and every action property of a passing run
is stated by a theorem.

## Observations

Met while modelling, beyond the runs that are violated. They are in the models as
the code has them.

- `planProductImport` says it refuses "both halves" of a repeated SKU
  (`domain/import/product-import.ts:162`); it refuses every row but the first.
- Duplicating a product copies its prices without a `price_history` row
  (`product-detail.tsx:1418`): a copy has no evidence until its price changes
  (`copies` in `Prices`).
- Cancelling an order from its page writes the status and releases nothing
  (`order-detail.tsx:210-233`), although `docs/order-state-machine.md:69-71` says
  that "Entering `cancelled` or `expired` from any of them releases it, exactly
  once". The holds go back when their window ends (`UnpaidHoldReleased` in `live`,
  where the order page cancels).
- The tick of a compatibility record certifies the level the record has when it is
  written, not the one the page showed (`compatibility.tsx:160-162`; `misticked`). The
  comment at 203-205 wants no unchecked claim to look checked.
- `security-2fa-verify.tsx:170-192` hands over the session without a look at the
  staff profile, which `login.tsx` takes (`unasked`). Every page refuses such a
  session all the same.
- A new product's first count is written without a movement
  (`create-product.ts:152-167`; `opened` in `StockLedger`).
- A job run over HTTP is not followed by a bump, because its route is mounted before
  the middleware (`server/index.ts:321` and `375-377`), and neither is a mutation
  whose client leaves before the answer ends (`MissBump`).
  `docs/hostinger/cache-invalidation.md:177-185` says that a job run bumps.
- From the list a product is published without the price its page asks for
  (`products.tsx:189`).
- A collection that was already handed over can be handed over again to another
  name (`pickups.tsx:174`).
- The header of `indexer.ts` (16-21) says that a product is re-indexed in the
  transaction that writes it by `reindexProduct`; there is no such function, and only
  the rebuild calls `reindexStatements`.
- A product whose translations fall into two batches of a rebuild loses the tokens
  of the first (`indexer.ts:238`; `Straddles` in `SearchIndex`).
- The import's snapshot reads a variant's level as a scalar
  (`imports.tsx:92`, `125`), which fails once a transfer gives it a second one.
- A version that cannot be written to the file is lost to the other workers until
  their pages expire (`response-cache.ts:295-299`; `muddled`). Two workers that bump
  in one millisecond choose one value, and the slower write of two may carry the
  smaller one, although the comment at 224-228 says a bump cannot lose to another.
- No route calls `resolvePrice` or `lowestPriceInWindow`, and `product.tsx:371`
  passes no previous price: the announced reductions `Figures` checks are not
  shown by the storefront today.

## Not modelled, and limits of the models

- Forms over single rows whose handlers base no write on an earlier read: reviews,
  discounts, promotions, settings, pages, navigation, legal documents, taxonomy,
  collections, the notes and contact log of an order. A model of one would restate
  its assignments. `createOrder` applies no discount, so they do not reach an order.
- Rendering, components, wording, translations: the greatest part of the source by
  lines, and the reason why the modelled share of it is small.
- `domain/fulfilment/status.ts`: no route consults it. `domain/inventory/availability.ts`,
  content gates and setup steps: pure classifications without a second reading.
- The SQL dialect translation, CSV, tokenising and ranking, image headers: string
  and byte processing.
- Passwords, codes and sessions are Better Auth's. `Installation` and `Staff` use it as
  the code does: an account is made once for an address, and a challenge that waits for
  its code is not kept track of, since no change of status touches it.
- D1, R2, the worker entry and the operations scripts (but for what the rebuild
  script calls).
- `OrderStock` has one location and one reservation per order and variant. The
  cart's query joins levels of every location (`cart.server.ts:105`), so an order may
  in fact hold a variant twice; `Cart` shows where, and `OrderStock` does not follow.
- `KeyOf` lets two requests carry one key, as the use case allows and its tests
  do. The checkout route makes a fresh key for each submission
  (`checkout.tsx:122`), so the storefront never repeats one.
- `OrderStock` and `StockLedger` each abstract the other: adjustments do not move
  `onHand` in the first, and orders are one quantity without a sweeper in the second.
- Each single statement is one step. `consumeStepUp` picks its row in a subquery
  of its own update; the databases run that as one statement.
- `Photos` leaves out the order of a gallery and the alternative texts; where the
  code takes the next photograph, any may be it. `Homepage` leaves out texts and
  visibility. `ResponseCache` counts a page as one byte.
- Only the process that a signal reaches is in `Server`; other processes on the same
  database are other instances of it.

## What is left

1. `OrderStock` with several levels for a variant, composed with `StockLedger`.
2. What a hundred partly paid orders do to the sweeper's `LIMIT`, as a run of its own.
