# Ngemiloh POS: formal model

A TLA+ development of the point-of-sale system in this repository: a NestJS
backend on PostgreSQL and Redis, a SvelteKit till that works offline, Midtrans
for QRIS payments, and the scripts that keep it running. Paths below are
relative to the repository's `src/`; `BE` is `backend/src`, `FE` is
`frontend/src`.

## 1. The system

| component | code | state it keeps | operations |
|---|---|---|---|
| Order intake | `BE/orders/.../orders.service.ts` 102-899 | rows of `Order`, idempotency keys in Redis | `createOrder`, `syncBatchOrders`, `generateOrderNumber` |
| QRIS webhook | same, 901-1051; `BE/payment/midtrans-gateway.service.ts` | status and payment of the order, processed keys, dead letters | `handleMidtransWebhook`, `verifyWebhookSignature` |
| Voids, 4-eyes approval | same, 1162-1440 | status, `voided_by`, refunds, `VoidApprovalRequest` | `voidOrder`, `requestVoidApproval`, `approve/rejectVoidRequest`, `executeVoid` |
| QRIS expiry cron | `BE/finance/finance.cron.ts` 362-500 | status of the order | `checkExpiredQrisOrders` |
| Shifts, cash drawer | `BE/finance/.../finance.service.ts` 589-880, `finance.cron.ts` 43-277 | `CashRegister` | open, close, auto-close, force-close |
| Profit share, assets | `finance.service.ts` 169-530 | period log and details, `Asset` | `closePeriod`, `payProfitShare`, `createAsset`, `updateAsset` |
| Dashboards | same, and its repository | none | `getDashboardKpi`, `getAnalytics`, the list of orders |
| Inventory | `BE/inventory` | raw material stock, FIFO batches, movements | `reduceStockForOrder`, `restoreStockForOrder`, opname, waste, recipes |
| Products | `BE/products` | products, groups, options, price log | create, update, delete |
| Discounts, prices | `BE/discounts`, `discount.utils.ts`, `FE/lib/stores/pos.store.svelte.ts` | `Discount`, a cache of a minute, the cart | switch, cron, price on either side |
| Member points | `BE/members` | points, transactions, tier, cooldown | `process_points`, `admin_adjust_tier` |
| Dead letters, jobs | `BE/payment/webhook-dlq.service.ts`, `BE/jobs` | entries and attempts, BullMQ jobs | add, acknowledge, retry, `sync_order` |
| Login, OTP, tokens | `BE/auth`, `BE/common/redis`, `FE/lib/stores/auth.store.svelte.ts` | lockout counts, OTP record, block list | login, `sendOtp`, `verifyOtp`, refresh, logout |
| Rate limits, flags | `BE/common/redis`, `BE/members/middleware`, `BE/flags` | counters, flag rows and their copy | check and record, toggle, start |
| Till, online | `FE/lib/services/pos.service.ts`, `FE/lib/components/pos` | cart and its copy, dialog, timers, event stream | `process_payment`, poll, cancel |
| Till, offline | same, `FE/lib/db.ts` | queue of orders and receipts | save, `sync_pending_orders`, print |
| Service worker | `FE/service-worker.ts` | caches per build | install, activate, fetch |
| Admin pages | `FE/routes/admin` | lists, forms, requests under way | load, filter, save, switch |
| Notices | `finance.cron.ts` | what was announced | `sendAutoCloseWarnings`, `checkUnpaidProfitShare` |
| Scripts | `scripts/*.sh`, `backend/prisma/seed*.ts` | backup files, counter files, seeded rows | backup, restore, monitor, seed |

Users, outlets, receipts, e-mail, audit and the HTTP shell are single-row CRUD,
formatting or pure I/O; `PROJECT.json` lists them with the reason (section 5).

**How the parts interact.** The till posts a sale, or queues it and syncs it
later, under a `client_uuid` it chose. The intake inserts one row per sale and
then, outside that transaction, moves stock, awards points and asks Midtrans
for a charge. Midtrans answers by notifications that write the same row; so do
voids, approvals and the expiry cron. Sales are counted into the shift that is
open; shifts and orders make the month that the profit share closes. Redis keeps
keys, codes, counts and the block list beside the database (or, when it is away,
the process keeps a second copy) and can lose either.

**What is hard.** No handler writes under a condition on what it read: each one
reads a row, awaits, and updates by id. The `SELECT ... FOR UPDATE` runs outside
a transaction, and the advisory locks exclude nobody: they are taken with
`$executeRaw`, which answers with a number of rows. Unique constraints, and row
locks inside the few real transactions, are what keeps order. Effects follow the
commit, so a crash or an error leaves a row without them, and the retry finds the
row and returns. Notifications can be repeated, late or out of order; the till's
answers can be lost, and its handlers overlap. Files and counters of the scripts
are read, changed and written back. The list is under `hazards` in
`PROJECT.json`, each at its line with the properties that watch it.

**What makes each part correct.** Intake: one order per sale, gapless numbers,
true answers, effects once. Lifecycle: paid only if settled, completed undone
only by a void, a void or refund once and only when approved, no settlement
forgotten silently. Shifts: one open shift per cashier, closed once, with the
cash it took. Stock, points, shares: what is there is explained by what was
recorded. Till: every queued sale reaches the server, a success is shown for a
paid order. Accounts: limits that limit, revocations that are not lost. Copies
(flags, service worker, lists): switches and changes reach them, and offline the
till has every page, none older than the worker that serves it. Scripts: a whole
copy of what was reported as a backup stays on the disk, a failing container is
reported.

## 2. Modules

| module | models | composed in |
|---|---|---|
| `OrderBook` | abstract: a book per cashier letter, appended to, and answers about it | `MCOrderIntake` |
| `OrderIntake` | the intake: concurrent handlers over the `Order` table and Redis | `MCOrderIntake` |
| `OrderLifecycle` | an order after its creation: webhook, void, approval, cron | `MCOrderLifecycle` |
| `CashDrawer` | shifts, sales and the closers | `MCBooks`, `MCEnds` |
| `ProfitShare` | one month: `closePeriod`, `payProfitShare`, and books that change | `MCBooks` |
| `MemberPoints` | one member: points, cooldown and tier | `MCBooks` |
| `Inventory` | materials, batches, row locks and their deadlocks | `MCBooks` |
| `Catalog` | products, groups and options, the price log | `MCBooks` |
| `Pricing` | cart, discounts, the two prices and the mark on the order | `MCBooks`, `MCEnds` |
| `Reports` | reports of several queries, lists page by page | `MCBooks` |
| `Assets` | equipment and its depreciation | `MCBooks` |
| `Seeding` | both seed programs | `MCBooks` |
| `Till` | cart, payment dialog, waiting for QRIS | `MCHouse` |
| `TillSync` | the offline queue and the receipts | `MCHouse`, `MCEnds` |
| `AppCache` | the service worker | `MCHouse` |
| `Sessions` | tokens, silent refresh, logout, block lists | `MCHouse` |
| `Lockout`, `Otp`, `RateLimits` | failed logins, codes, the limit on member routes | `MCHouse` |
| `DeadLetters` | retries of dead letters, jobs of the queue | `MCHouse` |
| `Flags` | feature flags and their copy | `MCHouse` |
| `AdminPages` | 23 pages of the admin, as records of one state machine | `MCHouse` |
| `Notices` | warnings before an automatic close, the reminder of the month | `MCHouse` |
| `HealthMonitor`, `Backup` | the scripts | `MCHouse` |
| `TillShift` | the outlet and the shift as the till knows them | `MCHouse` |
| `TillMember` | the member of the sale at the till, and the total shown | `MCHouse` |
| `OrderIntakeProofs`, `OrderLifecycleProofs` | theorems about these modules, and that the intake implements `OrderBook` | |
| `FiguresProofs` | induction and sums; `ProfitShare`, `MemberPoints`, `Inventory`, `Pricing` | |
| `BooksProofs` | `CashDrawer`, `Catalog`, `Seeding`, `Assets`, `Reports`, and the composition of `MCBooks` | |
| `AccountsProofs` | `Lockout`, `Otp`, `RateLimits`, `Sessions` | |
| `TillProofs` | `Till`, `TillSync`, `TillShift`, `TillMember`, `AppCache` | |
| `HousekeepingProofs` | `DeadLetters`, `Notices`, `HealthMonitor`, `Flags`, `Backup` | |
| `HouseProofs` | `AdminPages`, and the composition of `MCHouse` | |

`MCBooks` and `MCHouse` put modules side by side that share no state. A behaviour
of the composition is one of a single module: `part` names it, and the others
stay as they start, so that the state spaces add up instead of multiplying, and
one run reports on all of them. `MCEnds` does the same for the liveness of three
modules. What really interacts is inside one module: the closers, the cron and
the sales in `CashDrawer`, admin and cron and both caches in `Pricing`, the
webhook and the voids in `OrderLifecycle`.

In every module an action is what happens between two `await`s (two commands of a
script), and a request, a handler or a run stands at the await its `at` (or
`pc`) names. Actions are called after the functions they are steps of; what an
`await` of the database may end with (an error, the end of the process) is an
action of its own (`Abandon`, `StopEdit`, `BatchFails`, `RetryDies`, ...).

### OrderIntake

A handler slot serves one request at a time.

| action | code (`orders.service.ts`) |
|---|---|
| `Receive` | `POST /orders` and each order of `POST /orders/sync-batch` (run in parallel, 567) |
| `CacheHit`, `CacheMiss` | 197-212 and 676-691 |
| `LookupFindsOrder`, `LookupFindsNothing` | 214-237 and 693-709 |
| `TakeNumber` | `generateOrderNumber` 107-177 |
| `Insert`, `InsertConflict` | 412-460 and 776-807 under the constraints of `schema.prisma` 191, 211 |
| `ReduceStock`, `AwardPoints` | 462-481, 619-631, 1554-1587 |
| `Charge`, `ChargeFails` | 483-536, with the update of `payment_gateway_ref` and the mock of the sandbox |
| `Remember` | 538-541 and 809-812 |
| `MarkSynced`, `Reply` | 613-637, 543 |
| `Interrupted` | an error or the end of the process at any of these points; 380-409 reject an input |
| `Forget` | a key that expires or is lost |

An order is identified by its letter and number (the row's own id adds nothing);
prices and items are left out because here they only decide whether a request is
rejected, which `Interrupted` covers. The columns `payment_gateway_ref` and
`synced_from_offline` are left out too: no handler of the intake decides on them.
Production and sandbox differ only in whether a failed charge is rethrown;
`ChargeFails` allows both. Rows keep the status they were inserted with; what
happens to it later is `OrderLifecycle`.

### OrderLifecycle

A worker runs a notification, a void, a request about a void, or the cron's work
on one order. `seen` is the one value that is read before an await and used after
it to decide (973); elsewhere the check and the write are two steps and the
write has no condition.

| action | code |
|---|---|
| `Report`, `Older` | external: Midtrans decides on the charge; time passes |
| `Deliver`, `CheckKey`, `FindOrder`, `Update`, `Launch`, `SetKey` | `handleMidtransWebhook` 901-1016 |
| `Fail` | an error in it, with the dead letter or without (1018-1050: an insert that fails too is only logged; `unqueued`) |
| `Accepted` | `midtrans-gateway.service.ts` 82-174, for each of `Stamps` |
| `Reduce` | `inventory.service.ts` 129-251, started without waiting |
| `VoidOrder`, `ReadForVoid`, `Restore`, `SetVoided`, `Refund` | 1415-1440, 1366-1413 |
| `Ask`, `LookForRequest`, `CreateRequest` | 1162-1225 |
| `ReadRequest`, `SetApproved`, `SetRejected` | 1270-1361 |
| `ListExpired`, `SetExpired` | `finance.cron.ts` 362-500 |
| `QueryFails` | a query of a void, a request or the cron that throws while the process lives; after `SetApproved` it leaves the order approved (`unvoided`) |
| `Forget`, `Interrupted` | a lost key, a dead process |

`age` has three values because the code has two limits: five minutes for the
`transaction_time` of a notification and fifteen for the life of a QR code.
`Stamps` are the times a notification may bear: the true one, none or one that
cannot be parsed (of which any age is accepted), and one more than a minute ahead
(which is refused).
`WithExpiry` are the rows with a `qris_expiry_at`; the column exists in the
schema, and no code of the repository writes it. `VoidApproval` is the set of
values the feature flag takes while the system runs: with both, it is toggled.

### The books

| module | state | steps |
|---|---|---|
| `CashDrawer` | `shift` (rows of `CashRegister`), `sale`, `task` per request | `ShiftRequest` (all four entry points), then look, insert or refuse, `Check`, `SumSales`, `Write`; `AutoFind` for the cron; `TimePasses`; a sale is taken, completed, voided or synced later |
| `ProfitShare` | `books` per cashier, `log` (its `cashier_share` in fifths of a rupiah, unrounded as it is stored; `ToShareOut` is the rounding the details add up to), `detail`, `closing`, `paying` | `Compute`, `Look`, `InsertLog`, `InsertDetails`; `FindLog`, `PayShare`; `BooksChange`, `ShiftCloses` in between |
| `MemberPoints` | `balance`, `tier`, `rows`, a call each | `Paid` (backend), `TillCalls`, `LookCooldown`, `CommitCall` or `AbortCall`; `AdjustTier`, `RowAges` |
| `Inventory` | `stock`, batches, sums of movements and the part of them (`drawn`) that was written per batch, `used` per order, jobs with row locks | `BeginForOrder`, one step per material and batch, `CommitReduce` with the row of each material and another of each batch, `Rollback` of a deadlock; opname, waste, `Adjust`, `ChangeRecipe` |
| `Catalog` | `entry`, `priceLog`, `edit`, `item` | `BeginEdit`, `LogPrice`, `WriteEntry`; `BeginDelete`, `Hide` or `Drop`; `ReadBasket`, `InsertItem` |
| `Pricing` | `discount` rows, the cron's list, the backend's and the till's copies, `lines` of the cart | `Toggle`, `CreateDiscount`, `RemoveDiscount`, `CronFinds`, `CronSwitches`; `TillLoads`, `BackendReads`; `AddToCart`, `UpdateQuantity`; the prices are operators |
| `Reports` | `bill`, `dayShift`, `client` | `StartReport`, a `Query` at a time, each of what is committed when it runs, while orders come and are voided (also such as are dated between the two ends of the dashboard's range), `EndReport`; `AskPage` for rows and for the count, `NextPage` |
| `Assets` | `asset`, `update` | `CreateAsset`; `ReadAsset`, `WriteAsset` |
| `Seeding` | rows, materials, `goods` with recipes, whose price is an administrator's (`repriced`), `run` | an action per `await` of both programs (`TakeProduct`, `UpdateProduct`, `EmptyRecipe`, ...), `Dies`, and the shop: `SellPortion`, `ChangeRow`, `ChangePrice` |

Assumptions: the locks taken with `$executeRaw` are always "acquired"
(`pg_try_advisory_lock` answers one row), so the modules have none.
`OrdersExists` and `RawTablesExist` say that the tables the raw SQL names are in
the database; the repository's migrations do not create them, and the runs take
them as there. Money is in units that come out even except where rounding is the
point (`ProfitShare`).

### The house

| module | state | steps |
|---|---|---|
| `Till` | cart and its saved copy, dialog, `sent`, `orders` by `client_uuid`, timers, polls and stream | `Pay`, `BackendTakes`, `AnswerCash`, `AnswerQris`, `AnswerLost`, `QrisPaid`, `Seen` and `QrisSuccess` by poll or stream, `CancelWaiting`, `CountdownEnds`, `Reload` |
| `TillSync` | `localOrder`, `receipt`, `recorded`, `handler` with its list and try | `SaveLocally`, `GoOnline`, `LoadPage`, `SendBatch`, `BackendRecords`, `AnswerBatch`, `BatchFails`, `PrintReceipt`, `PaperEnds`, `MarkReceipt`, `MarkFails` |
| `TillShift` | `shiftAt` at the backend, the page, `outlet` and its saved copy, `believed`, requests under way | `SelectOutlet`, `ConfirmSelection`, `Mount`; `CheckShift`, `OpenShift`, `CloseShift` with `ServeCheck`, `ServeOpen`, `ServeClose` and `ShiftAnswered`; `Elsewhere` (admin, cron), `OtherTab` |
| `TillMember` | the store's member and `redeem`, the sidebar's `usePoints`, lookups and calls of points | `Search`, `Found`, `SelectMember`, `CloseLookup`, `TickRedeem`, `RemoveMember`, `MountSidebar`; `ProcessPoints`, `PointsProcessed` |
| `AppCache` | workers, shells, answers, requests for data and for pages | `Deploy`, `Install`, `AddShell` (`addAll`, of the build then deployed), `Activate`, `ListCaches`, `TakeOver`; `Fetch`, `NetworkAnswers`, `StoreAnswer` (network first); `FetchPage`, `PageComes`, `StorePage` (with the fallback); `StoreFails` |
| `Sessions` | tokens, cookie, both block lists, page and its timer, guards | `Login`, `Refresh` and its answers, `Logout`, `BlockInDb`, `BlockInRedis`, `LookInRedis`, `LookInDb`, `CleanUp` |
| `Lockout` | counts and locks of users and addresses, attempts | one action per await of `login` and `validateAdminCredentials`; `AttemptBreaks` at any of them (a query that throws, a dead process); the page's own count; `ResetPin` |
| `Otp` | the code in each of two stores, locks, requests, verifications | an action per await of `sendOtp` (`AskForCode`, `SetCode`, `SetEmail`, `SetCooling`, `MailCode`) and of `verifyOtp` (`ReadEmail`, `ReadLockout`, `ReadCode`; `KeepCode` or `LockOut` and its deletions; `DeleteCode`, `DeleteEmail`, `DeleteLockout`, `Enter`); `OtpRedisChanges`, `OtpRestart` |
| `RateLimits` | requests recorded in Redis and in memory | `Ask`, `Record`, `RedisFlips`, `Tick` |
| `DeadLetters` | letters, retries, jobs of one order | `FindEntry`, `MarkRetrying`, `Reprocess`, `FinishRetry`, `AcknowledgeEntry`; `SyncReads`, `SyncCompletes`, `SyncReduces`, `SyncFails`, `JobStalls` |
| `Flags` | rows, `copy`, readers, togglers | `SeedFlag`, `BeginRead`, `QueryFlags`, `StoreCopy`; `ToggleFlag`, `DropCopy` |
| `AdminPages` | `kind` of page, `list`, form, requests in either direction | `Save`, `Flip`, `Serve`, `Changed`, `LoadAgain`, `Loaded`, `ChooseFilter` |
| `Notices` | time, shifts, what was announced, periods | `StartWarnings`, `WarnOf` (the row in `SystemLog`), `CloseOverdue`, `JobFails`; `ReadPeriod`, `ReadPeriodFails`, `SendReminder`; `ProcessFlips` |
| `HealthMonitor` | containers, counter files, monitors | `InspectHealth`, `InspectStatus`, `ReadCounter`, `EmptyCounter`, `WriteCounter`; `LogAlert`, `PageOut`, `EndMonitor`, each of which a failing command may end; `MonitorDies` |
| `Backup` | files half-written or whole, the database, the restore | a step per command of three scripts (writing a file is two: `StartDecrypt`, `Decrypt`, `StartUnpack`, `Unpack`, ...), each of which may be the last |

Assumptions: `Till` takes the online payload as accepted (see the divergences).
`BatchIsValid` is `TRUE` in the passing runs and `FALSE` in `sync_refused`.
`page.reads` of `Sessions` says whether the page can read its cookies; both values
are explored, although the login sets them `httpOnly` today, so that the silent
refresh never starts and `RefreshGoesOn` speaks of the other case only. No code
adds a job or calls `retryEntry`: their callers are the environment of
`DeadLetters`. A worker's life in `AppCache`, docker and `pg_dump` are external.

Pages that behave alike are one record of `AdminPages`: what the form can do, what
is guarded while it is under way, where a switch takes its value from, whether
the list is loaded again, and whether a filter chooses it.

## 3. Runs

| run | checks | states |
|---|---|---|
| `intake` | `TypeOK`, `BookIsGapless`, `AnswersAgree`, `CacheOnlyOfOrders`, `EffectsAtMostOnce`, `PointsOnlyOfCompleted`, `ImplementsOrderBook`, `EveryRequestEnds` | 302,497 |
| `lifecycle_races` | `TypeOK`, `PaidOnlyIfSettled`, `KeyMeansLaunched`, `VoidNeedsApproval`, under every fault | 2,804,073 |
| `lifecycle_errors` | `LostEffectsAreInDlq`, `ApprovedIsRefunded`, with database errors, crashes and lost keys | 3,315,480 |
| `lifecycle_serial` | `StockLaunchedOnce`, `CashRefundedOnce`, `CompletedIsFinal`, one request at a time | 25,794 |
| `lifecycle_settles` | `SettlementTakesEffect` when notifications are in time and nothing fails | 38,293 |
| `books` | the table below | 837,633 |
| `house` | the table below | 1,087,469 |
| `ends` | `OverdueIsClosed`, `OfflineSalesAreSynced`, `SwitchesHold` | 20,547 |

| property of `books` | what it says |
|---|---|
| `BooksTypeOK` | rows, requests and copies keep their shape |
| `OneOpenShift` | a cashier has one open shift at most, whatever two requests saw |
| `MoneyIsCountedOnce` | a sale's cash is in one shift's count, in its own when nobody was closing, and closed figures are final |
| `PointsAreExplained` | balance, rows and tier agree, and the two calls of a sale earn once in two minutes, unless calls overlapped |
| `StockIsExplained` | the movements, those of batches taken twice, explain the stock; COGS is what was taken; a void gives it back |
| `HistoryIsKept` | what was sold keeps its row, the price log leads to the price, what was deleted stays hidden |
| `CartsAreJudged` | one line per choice; no mark when both sides agree; a mark when the till was too cheap |
| `FiguresAreWhole` | shares add up to the rounded share of all and are paid once; depreciation fits its row; a report's figures are of the same orders, unless these changed between its queries; pages miss nothing |
| `SeedsRunAgain` | run again or interrupted, the seeds double nothing, and undo no choice but the prices and costs of the products of `seed-bom.ts` |

| property of `house` | what it says |
|---|---|
| `HouseTypeOK` | rows, requests and what a browser keeps have their shape |
| `TillSellsOnce` | a sale is paid once, a success is for a paid order, and the cart thrown away is the one sold |
| `QueueIsKept` | synced means recorded, and a receipt is printed once, unless two handlers had it at a time or its printing broke off |
| `SessionsEnd` | a revoked token opens nothing, a session ends after three failed refreshes, not before |
| `GuessesAreLimited` | failures lock, unless the attempt that was to write the lock broke off; a code is used once and refused three times, unless two had read it at a time or its store was exchanged under one; and limits pass no more than can stand between asking and recording |
| `HandledOnce` | what is resolved was handled, retries are counted, jobs take stock once |
| `ListIsCurrent` | a page at rest shows what its filter asks for and the database has |
| `PeopleAreTold` | an automatic close was announced to the administrator by a row that warns of it, the reminder is of the right month, a running container is on the list of pages from the threshold on; the till knows the shift and keeps the outlet, and the total follows what will be redeemed |
| `BackupsAreWhole` | a whole copy of what was reported stays on the disk, a checksum is of a whole file, nothing is loaded over data |
| `CopiesAreTrue` | offline every page is there and none older than its worker, and the newest answers; switches reach the readers; a start leaves flags alone |

Several of these say "unless": the exceptions are the states in which the code
does keep no promise (two calls overlapped where nothing keeps them apart, a call
was cut short between two writes). Each is a variable that is set by exactly that
event (`contended`, `callsOverlap`, `raced`, `overtaken`, `crossed`, `racing`,
`readOvertaken`, `otherTab`, `astray`, `unqueued`, `unvoided`, `unbooked`, `repriced`,
`stirred`, `slipped`, `cut`, `shellCrossed`, `opened`, `countSpoiled`, `spoilt`, ...), so
the properties say that nothing else breaks them; the mutants in `PROJECT.json` show that
they do break.

`OneOpenShift`, `SyncedIsRecorded`, `RevokedIsRefused`, `DetailsAddUp` and
`DepreciationFits` have no exception for overlapping requests: a unique index, a
status written by the answer only, the lists asked in either order, a difference put
on the first share and a row written whole hold under every interleaving.

Four runs end in a counterexample on purpose. Each checks a sentence of a doc,
comment, message or test that the code does not keep; the sentence and the line
that breaks it are under `findings`.

| run | what TLC shows |
|---|---|
| `intake_stock` | a completed order without its stock deduction |
| `lifecycle_double_void` | two voids at once refund twice |
| `lifecycle_late` | a payment after five minutes is never taken in |
| `sync_refused` | `@Max(100)` on the array of orders refuses every batch: no offline sale arrives |

The passing and the failing run of one property belong together:
`CashRefundedOnce` holds one request at a time and fails with two, so the race is
the only cause; `SettlementTakesEffect` holds without ageing and fails with it;
`OfflineSalesAreSynced` holds with a batch that passes the validation.
`StockLaunchedOnce` is likewise only true one delivery at a time, while the key
is kept. `LostEffectsAreInDlq` and `ApprovedIsRefunded` hold under errors and crashes
with one exception each, which the code does leave without a trace: a notification
that failed and whose dead letter could not be written either, or whose process died
(`unqueued`), and a void that broke off after its approval (`unvoided`).

**Bounds.** Two sales and two handlers (or one order and two workers): every
hazard in the list is between two requests for one row or one letter, a slot is
used again without limit, and all repetitions (retries, notifications, cron
rounds) are unbounded. The other modules likewise run two calls of each kind at
a time (`t1`, `t2`, interchangeable, hence the symmetry of `books` and `house`)
on one or two rows, with counters that reach the limit they are compared with:
`Threshold` 1 of `MaxCount` 2, `MaxAttempts` 2 of `MaxRetried` 2, two builds and a page
load beside two requests for `AppCache`, where one worker takes over while the next is
installed, and one OTP code, which two verifications try. `MaxTries` of a sync is 1 in
`house` and 2 in `ends`, where repeating is the point (3 in the code; the proofs are for
any). `Backup` starts no two backups in one second and runs one restore at a time.
`Limit` (2) of the intake and
`MostTaken` saturate counters that are only compared with 0 and 1. One calendar
day of orders, because numbers of different days are independent; `Notices`
starts in December, for the turn of the year. `intake` has one cashier letter
and no split sale; the proofs below cover every number of letters and every mix
of payment methods. `books` has one discount, so that the choice of the best of
several (`TillDiscount`, `ServerDiscount`) is left to `CartsStayJudged`, which
holds for any number. A
crash loses a handler's locals only, since Redis and PostgreSQL live on.
`books`, `house`, `ends` and `sync_refused` do not check for deadlock: bounded
parts may come to their end.

**Fairness.** Weak fairness on the steps of a running handler: Node goes on
with a promise that is settled, and each awaited call either answers or fails.
In `OrderLifecycle` also: time passes, Midtrans expires a charge that is over,
the cron comes again (strong, since the worker slots may be busy whenever it
is due), and a notification that was sent is delivered again and again (strong,
for the same reason). `DrawerFairness` and `PricingFairness` say the same of their
crons and of the steps of a request that errors may interrupt but not for ever.
`TillSyncFairness` assumes that the till is online again and again, and that a
batch which is sent again and again is recorded and answered at some time.
`EndsFairness` pairs the conjuncts of the three, as only one module moves in a
behaviour. Nothing is assumed of clients, crashes or Redis.

**Known divergences without a run.** The models show some of these too, the
others were met while modelling; a run of each would only repeat what the code
plainly does.

- *Intake.* Two requests hold one order number, because the advisory lock is
  released before the insert (and keeps nobody out); and two requests with one
  `client_uuid` pass the existence check, since there is no row to lock
  (`orders.service.ts` 105, 216). The unique constraints catch both:
  `BookIsGapless` and `AnswersAgree` hold, at the price of an error. Every
  further sync of a completed sale processes the member's points again (620),
  subject to the cooldown.
- *Lifecycle.* Two deliveries of a settlement at once start the stock reduction
  twice (908). A void puts stock back that was never deducted
  (`inventory.service.ts` 320) and records a refund for a charge nobody paid
  (1389). An approval and a rejection at once can leave a rejected request with a
  voided order (1334); a rejected void cannot be requested again (1198, unique
  `order_id`), nor an approved one whose void threw, or died with its process, be
  approved again (1296). A dead letter that cannot be written is only logged (1041).
  A notification without a `transaction_time`, or with one that cannot be parsed, is
  taken at any age (`midtrans-gateway.service.ts` 141-148, 170). An unpaid order is never
  expired: the cron's query wants `qris_expiry_at` (`finance.cron.ts` 394).
- *Synced sales.* `createOrderWithCache` stores no outlet and no `cash_amount`, and
  judges the price by unit prices without quantity or tax, although it is called
  the same as `createOrder`.
- *Points.* Concurrent calls do not add up: "Two concurrent requests for the same
  member will be serialized" (`member.service.ts` 136) is not kept by a lock taken
  with `$executeRaw`. `revoke_points` is called by no code; neither is the start
  of a tier's grace period, so that the downgrade finds nobody, and its tiers are
  sorted upwards, so that the first match is the lowest (`finance.cron.ts` 588).
- *Till.* The till's payload has `discount_total`, which the validation refuses
  (`forbidNonWhitelisted`). A press after a lost answer draws a new `client_uuid`
  (`pos.service.ts` 346); the payment method is read after the answer (444); a
  poll that comes after a cancel shows a success for another order; a sold or
  emptied cart comes back with a reload. The till gets 403 for the discounts and
  keeps its copy. A receipt that the Bluetooth printer lost half way comes out again
  as HTML, and one that was printed but not yet marked (`printer.service.ts` 235) comes
  out with the next event.
- *Sessions.* The login sets both cookies `httpOnly` (`auth.service.ts` 220), while
  `docs/decisions/0003` (28, 51) has a "Non-HttpOnly cookie": the page cannot
  read them. The login's count is not reset when a lock ends; a weak password
  counts but never locks; a lock may be written after a right login has reset it, or
  never, when a query between the count and the lock throws (`auth.service.ts` 152-175).
  Two verifications that have read one OTP code are both let in, and a code bears more
  than three tries when they write its attempts over each other (443-472).
- *Limits.* Asking and recording are two steps, and a Redis that comes and goes
  lets any number pass.
- *Dead letters.* An audit row that fails after "resolved" puts the letter back
  (`webhook-dlq.service.ts` 170). `sync_order` swallows the errors of the stock, and those
  of its own queries, so that a job ends as done without an effect
  (`sync.processor.ts` 112).
- *Admin pages.* Answers that overtake each other leave the wrong list; the cash
  page asks for `/api/v1/admin/cash/shifts`; the products page calls routes the API
  lacks; the settings page's reload overwrites what is being typed; the flags page
  does not show a refused switch reverted.
- *Service worker.* `caches.match('/') || new Response(...)` never falls back, since a
  promise is true; a build that takes over deletes a newer one's caches too. Its shell
  cache gets pages of whatever build is deployed when they are asked for
  (`service-worker.ts` 33, 159-167), so that the pages of one till need not fit each
  other; a failing `cache.put` is told to nobody.
- *Scripts.* `backup.sh` dumps with `-F p` and then wants a `PGDMP` header, so that it
  always fails; `restore.sh` drops the database before it knows that the dump can
  be loaded, and a `.enc` restore stops before, because log lines are part of the
  file name: it can load none of the backups that the repository's scripts make. Killed
  while it decrypts or unpacks (233, 252) it leaves a half-written file under the name of
  a whole one, and its `gzip -d` takes away a `.gz` that `backup.sh` is encrypting.
  `health-monitor.sh` ends, under `set -e`, at a message that `curl` cannot send or a log
  line that `tee` cannot write, and looks at no container after it (51-60); it empties
  a counter file before it writes it (85), pages a stopped container at the first check
  ("Alert after N consecutive unhealthy checks", line 21), and `--watch` ends at a
  `local` outside a function; `docker-entrypoint.sh` runs under `set -e`, which ends
  it at the first exit of the app, so that its restart is not reached.
- *Seeds.* Run again, either resets `current_stock` without a movement, and
  `seed-bom.ts` the `base_price` and `cost_per_unit` of its products, whatever an
  administrator had set (223-232); the first movement says 5000 whatever was seeded.
- *Stock and figures.* What a sale takes from batches is booked twice, by a movement of
  the material and one of each batch (`inventory.service.ts` 187-212). The log keeps
  `cashier_share` unrounded, while the details add up to it rounded
  (`finance.service.ts` 251, 376). The queries of a report run in parallel outside a
  transaction, and the dashboard's two take the end of the day from the clock twice: an
  order that commits between them is in one figure and not in the other (67-98).
- *Crons.* A job whose time comes while the process is down does not run later, and
  a round of warnings ends when a log row cannot be written. The warnings repeat in
  each quarter until the shift is closed, and go to `EMAIL_ALERT_TO`: nothing reaches
  the cashier, whom the comment names ("ke kasir", `finance.cron.ts` 103).

## 4. Proofs

TLAPS checks every step; nothing is assumed but the named assumptions of the
modules, which give the constants their types, and what a theorem names in its
`ASSUME`. The theorems hold for any sets of sales, letters, handlers, orders,
workers, cashiers, products and requests, for any amounts and for any
bounds. Every property of a passing run but the five about liveness is stated by a
theorem. A few assumptions say more than a type:
`IsFiniteSet` of `Materials`, `Discounts`, `Sellers`, `Visits` and `Seeders` (rows and
requests, which are summed up or counted), `MaxAdmin \in Nat`, and
`NoMember`, `NoOutlet`, `NoUuid` being none of the things they stand beside.

Each invariant below is the property with what makes it inductive. Most of the
strengthenings are of two kinds. One is what a request knows between two awaits:
that what it read is still so, or that an exception has been noted. The other is
that whoever is past a check is alone there, or else that exception has been noted.

**The intake** (`OrderIntakeProofs`)

- `TypeCorrect`: `TypeOK`, with the finiteness of the table (needed to count it)
  and what a handler holds at each step.
- `NumbersAreGapless`: `BookIsGapless`. The insert step is the whole argument:
  the count taken earlier may be out of date, but if it is, the number it gave
  is at most the present count and hence taken. This needs, inductively, that a
  drawn number is at least 1 and at most one more than the present count: the
  table only grows.
- `AnswersAlwaysAgree`: `AnswersAgree`. Strengthened by: at most one row per
  `client_uuid`, and a handler past its lookup holds the id of its own row.
- `CacheIsTruthful`: `CacheOnlyOfOrders`, from the same invariant: the key is
  only stored after a row was found or inserted, and rows stay.
- `EffectsHappenAtMostOnce`: `EffectsAtMostOnce`. Strengthened by: at most one
  handler is about to act on a sale (the one whose insert went through), and
  nothing has been done for the sale before it acts.
- `PointsAreEarned`: `PointsOnlyOfCompleted`. On the sync path it needs that an
  order number belongs to one row, as the sync looks at the order it found.
- `IntakeImplementsBook`: `Spec => ImplementsOrderBook`. The book of a letter is
  the sequence of the sales of its rows by number. It is a sequence because the
  numbers are gapless; the insert appends to it because the number it got is the
  next one; an answer names the place of the row the handler holds; every other
  step stutters.

**The lifecycle** (`OrderLifecycleProofs`)

- `TypeCorrect`: `TypeOK`, with a worker's job at each step.
- `PaidOnlyWhenSettled` and `KeysAreEarned`: `PaidOnlyIfSettled` and
  `KeyMeansLaunched`, under every fault. Strengthened by: a settlement notice
  means a settlement, only a settlement leads to the launch, and a worker that is
  about to store the key has launched.
- `VoidsAreApproved`: `VoidNeedsApproval`. A worker in `executeVoid` works on an
  order that was approved, since the flag leaves no other way in.
- `LostEffectsAreRemembered`: `LostEffectsAreInDlq`, under every fault. Strengthened by:
  an order that is completed, or was when some webhook read it, has its effects
  started, is in the queue, is `unqueued`, or is in the hands of a worker about to
  start them. The second case is what makes it inductive: that webhook will complete
  the order again without its effects.
- `ApprovalsAreCarriedOut`: `ApprovedIsRefunded`, for any number of workers, under every
  fault and with no row that has an expiry (`WithExpiry = {}`, as in the code: nothing
  writes the column). A voided order has its refund, is about to get it, was ended by
  Midtrans or is `unvoided` (`VoidedIsRefunded`), and an approved one is so or on its way
  through the void (`ApprovedIsVoided`); the notices that Midtrans sent
  (`EndedNotices`) are needed because they write the status as well, and `CronIsIdle`
  because the cron would.
- `LaunchesHappenOnce`, `CompletedStaysCompleted`, `CashIsRefundedOnce`: the three
  properties of one worker (`OneWorker`), the first while no key is lost and the
  process lives, the second without faults, the third under every fault. They rest
  on the key: past the check of it the order has none (`Unprocessed`), and what was
  launched or completed has it or is about to get it; on what the worker read being
  still so (`StillSeen`); and on a refunded cash order being voided, so that no
  later void gets past its first step.

**Sums and induction** (`FiguresProofs`)

The prover has no induction of its own, and the library's induction theorems take
an operator it cannot instantiate. `LeastNumber` gets the least element of a set of
numbers from `NatLessThanWellFounded` and `WFMin`, which take none; `UpFromZero` is
induction over the numbers in a set, and `UpFromEmpty` over the parts of a finite
set. From them: what `SumFunction` of the community modules adds up to, that it is
a number, grows with its parts, changes with one of them by as much, leaves out
nothing over more parts, and that a sum of roundings is off by half a unit for
each part at most. `SumFunction` is a fold written with `CHOOSE`; the modules that
are proved about have no `RECURSIVE` operator.

- `SharesStayExact`: `ShareTypeOK /\ SharesAreExact`. The log is of the call that
  made it (`LogIsOfACall`), whose figures are those of the books unless these
  changed (`FiguresStand`); the log keeps the share of all unrounded and the details
  add up to its rounding, or are noted as lost; two payments are alone or overlap. That
  nobody is further from the right share than the
  roundings is arithmetic about the sum of them.
- `PointsStayExplained`: `PointsTypeOK /\ PointsAreExplained`. Of calls that do not
  overlap one runs, and the balance it read is still the balance (`CallsAreAlone`).
- `StockStaysExplained`: `InventoryTypeOK /\ StockIsExplained`. A call for an order is
  the only one of its kind and has what the recipes said when it began
  (`JobsAreOfTheirOrder`); `drawn` is what the batch rows of the committed calls add
  up to; what it draws of the batches and the rest adds up to what it needs once the
  row is held (`DrawsAddUp`, by induction over the batches); and under the same
  recipes the same went out and came back.
- `CartsStayJudged`: `PricingTypeOK /\ CartsAreJudged`. Only the price of an online
  sale is flagged when it is too low (`UnderchargeIsFlagged`); of a synced one,
  `SinglePiecesAreValid` speaks. Only `OneLinePerChoice` is about steps; the other
  parts hold of every cart and every pair of copies, by comparing the two sums line by
  line.
- `StoppedStaysStopped`: `PricingSpec => SwitchedOffStaysOff`, the safety half of
  `SwitchesHold`: what the cron is about to start was stopped by nobody, or just now.

**The books** (`BooksProofs`)

- `TypeCorrect`: `DrawerTypeOK`, with what a request holds at each step.
- `OnlyOneIsOpen`: `OneOpenShift`. The inductive `Ordered` says that of two rows of
  a cashier the earlier one is closed; the insert keeps it because the index
  looks at the rows there are, not at what the request has seen.
- `MoneyIsCounted`: `MoneyIsCountedOnce`, all three conjuncts. `Contention` says that
  of two requests past the check of one shift the shift is `contended`, and so is one
  that is closed while a request is still about to close it, which makes the figures
  final; `Counting` that the total of another shift has only sales that belong to it,
  those whose cashier had started no later one by then, so that no sale belongs to
  two; `CashIsTaken` and `CalmSales` that a calm sale belongs to the shift it was
  made in, which is open or has counted it, and that who closes it began after the
  sale and will count it.
- `CatalogRemembers`: `HistoryIsKept`. A product that nobody disturbed has one
  request at most, which still has the row as it is (`OneEditEach`), and the last
  logged price is that of the row or of the request about to write it (`LogLeads`).
- `SeedsMayRunAgain`: `SeedsRunAgain`. A run that is to create its product has found
  none, a recipe is whole or in the hands of its run, which has left what is not yet
  in it, and two runs at once have torn every recipe. `repriced` has rows of products
  only, and a run that sets a price is at a product of `seed-bom.ts`.
- `DepreciationIsRight`: `DepreciationFits`, inductive with the types.
- `ReportsAreWhole`: `FiguresAgree` and `PagesMissNothing`. While nothing has stirred, the
  queries answered so far would be answered the same now (`ReportFollows`). The orders
  are numbered as they are taken (`TakenInOrder`), and at its n-th page the walk has seen
  what stood before it, since a new order only pushes the others on (`WalkFollows`). The
  size of a page and the number of orders are any.
- `BooksTypeCorrect` and `FiguresStayWhole`: of `BooksSpec`, the specification the run
  `books` checks. A step of `MCBooks` is a step of one part and leaves the others
  alone (the lemmas `BooksHave...`), so that each part's theorem is one of the whole.

**The accounts** (`AccountsProofs`)

- `LocksAfterFailures`: `LimitLocks`. Who has reached the limit is locked, was let in
  meanwhile, lost the attempt that was to write the lock (`opened`), or has one that is
  about to (`CountedIsLocked`).
- `CodesAreSpent`: `CodeIsUsedOnce` and `ThreeTries`. Of a code that is not `racing`, one
  verification is past its reading, the store that is there has the only copy of it, and
  the attempts kept there are the times it was refused, or one less while that
  verification is about to write them (`CodeIsCounted`).
- `FewPass`: `PassedIsBounded`. Those who passed and those between asking and
  recording are together below the limit and the requests there may be.
- `SessionsEndInTime`: `SessionsEnd`. What a guard knew to be blocked stays in the
  database as long as the token is good, and the page counts only real failures.

**The till** (`TillProofs`)

- `QueueTypeCorrect`, `NothingIsLost`: `TillSyncTypeOK` and `QueueIsKept`. That
  "synced" means recorded is inductive as it stands, since rows of the backend stay
  and an answer names what it recorded. For the receipts that are not `cut`, `Printer`
  says that one handler has it on its list or in its hand, that one on the list is
  pending and has not come out, and one that came out is in the hand of the handler
  that is about to mark it, or is marked.
- `TillPaysOnce`: `TillSellsOnce`. A cart that has an order cannot be paid again: its
  request is under way, its payment is waited for, or a success covers the page
  (`SoldIsCovered`); or else an answer was lost or the cart came back with a reload.
- `TheTillKnows`: `TillKnowsShift` and `OutletIsKept`. A request that is alone knows
  what it found or did when it was served, and before that the belief still rests on
  the last one (`Knows`).
- `TheTotalIsRight`: `TotalFollowsRedeem`, inductive with the types.
- `CopiesAreWhole`: `CachesAreWhole`. One worker is on its way in (`OneNew`) and one
  answers or takes over (`OneOld`), whose shell has every page from its install on
  (`ShellKept`); a page under way is not older than the worker it is for
  (`PagesKept`); the one that takes over has listed other builds' caches only
  (`Listing`), after which the older ones are gone (`OldOnesGo`); and what was heard
  is kept or about to be (`AnswersKept`).

**Housekeeping** (`HousekeepingProofs`)

- `LettersTypeCorrect`: `DeadLettersTypeOK`, with the counts that fit below their
  bound.
- `LettersAreHandled`: `HandledOnce`. `Handled` adds that a retry about to write
  "resolved" has processed its letter; `Counting` that the calls on a letter that
  no two met over hold its present count; `Taking` that, while nothing was shaky,
  one job runs at most and the stock is taken exactly when none does and the order
  is completed.
- `NoticesComeInTime`: `NoticesAreRight`. A shift that a round ought to announce is in its
  list or has its row (`Hope`), and what a round that ended ought to have announced has
  one (`Promise`); the job closes a shift only after its time of grace (`GraceIsGiven`).
- `PagesAreRight`: `PagedAtThreshold`. Unspoiled, the counter file has the bad checks
  in a row, unless a monitor has emptied it and is about to write them (`CountIsBad`,
  `NextCount`), and two monitors at one container have spoiled it (`Crossing`); who was
  found critical was dealt with, and the other way round (`CriticalIsBad`,
  `BadIsCritical`).
- `SwitchesReach`: `SwitchesArrive`. What a reader is about to store is the rows,
  unless they were switched meanwhile.
- `BackupsStayWhole`: `BackupsAreWhole`. What is on the disk at each step of the backup
  scripts (`StepsFit`) and of the restore, which may have files half-written over a
  finished backup (`RestoreFits`); that what is done has a whole copy however the restore
  breaks off (`DoneIsSound`); and that it loads only into a database it has made.

**The house** (`HouseProofs`)

- `PagesAreCurrent`: `ListIsCurrent`, for any number of requests. Field by field, the
  last load on its way, or the list when there is none, has what the database has,
  unless a change went through whose answer the page still waits for; the flags page,
  which never loads again, instead sends its switches in order.
- `HouseTypeCorrect`, `PagesSellAndShow`, `GuessesStopped`, `PeopleAreToldInTime`,
  `NothingGoesAstray`, `CopiesStayTrue`, `SessionsAndBackups`: of `HouseSpec`, in the
  way of the books.

**Model-checked only.** `EveryRequestEnds`, `SettlementTakesEffect`,
`OverdueIsClosed`, `OfflineSalesAreSynced` and the second half of `SwitchesHold`
(`ExpiredIsSwitchedOff`): liveness under fairness is outside the prover's reach, as is
`ENABLED`. Deadlock freedom, where a run checks it, is TLC's too.

A proof found what TLC does not report: two `CASE` expressions (`Serve` in
`AdminPages`, `PageHears` in `Lockout`) had guards that overlap, of which TLC takes the
first, while TLA+ allows any. They are disjoint now, with the same states.

## 5. Not modelled, and the plan

Not modelled as components:

- *E-mail*: sends and swallows its errors. *Audit log*: rows that no decision reads.
- *HTTP shell*: guards, filters and wiring without state of their own; the
  throttler is a library.
- *Container start scripts*: they start the process and end with it.
- *Receipts*: composing one is formatting and device I/O; the queue of pending
  receipts is in `TillSync`.

Within the modelled parts: amounts where no property compares them, texts, audit
rows, e-mails, layout and form fields, the IP filter and hashes, pictures and
orders of display; a Redis that answers wrongly; several orders in one void;
overlapping discounts on one product; registering and editing members, materials,
users and outlets (a row per call); the rounding of uneven percentages in
JavaScript.

What is left of the plan, in order:

1. An abstract ledger that `Inventory` and `MemberPoints` implement while calls do
   not overlap, in the way of `OrderBook`; and a till whose queue implements a
   channel that delivers each sale at least once.
2. The composition of `TillSync` and `OrderIntake`: the batch of the one is the
   requests of the other.
3. Several discounts on one product, and two open months in `ProfitShare`.
