# TLA+ models and proofs of the Mzaya back end

Mzaya is a delivery platform: customers place orders with vendors, riders deliver
them, and every movement of money is reported to a finance subsystem through a
transactional outbox. This directory models the parts of the back end
(`src/backend/src`) whose correctness depends on the order in which processes,
handlers and messages interleave. Below, paths are relative to `src/backend/src`
unless they begin with `src/`.

    tlc -workers 2 -config FinanceDelivery_safety.cfg MCFinanceDelivery.tla
    tlc -workers 2 -config BackOffice_books.cfg MCBackOffice.tla
    tlapm FinanceDeliveryProofs.tla

Section 1 is the inventory, 2 the modules, 3 the runs, 4 the proofs, 5 what is left
out, 6 how the project was built and what would come next.

## 1. Inventory

### The components and how they interact

One Node process (or several, behind a load balancer) serves HTTP requests and
runs cron jobs against one PostgreSQL database at READ COMMITTED
(`config/db.js` sets no other level). There is no other shared state, so the unit
of atomicity is a transaction, or a statement outside of one.

| Component | State it keeps | Operations | Talks to |
|---|---|---|---|
| Outbox and delivery (`financeOutbox`, `financeEventDelivery`, `financeDeliveryLease`, `financeEventRecovery`, `financeDeadLetter`, two jobs) | outbox rows, leases, attempts, dead letters | enqueue, acquire, deliver, release, recover, quarantine, replay | called in the transactions of every money flow; calls the event engine |
| Event engine and posting (`financeEventEngine`, `financePostingEngine`, `financePostingRule`, `financeAccountingPosting`, `ledger`, `financeReplay`, four jobs) | business events, accounting events, ledger, replay queue, posting failures | ingest, prepare, post, queue replay, replay | fed by delivery |
| Order payments (`payment.controller`, `payment.service`) | payment attempts, payment events, `orders.payment_status` | initiate, poll, webhook, apply outcome | Paynow; enqueues `payment.captured` and `payment.failed` |
| Order lifecycle (`order.service`, `orderDispatch`, `order.controller`, `negotiation.controller`, `scheduledRelease.job`) | orders, offers, rider totals | place, dispatch, release, claim, offer, choose, upgrade, report any status, cancel, credit | enqueues `order.*` and `delivery.completed` |
| Checkout, pricing, promo codes (`CheckoutPage.jsx`, `order.service`, `feeCalculator`, `promoEval`, `promo.controller`) | the page, the promo row, the total of an order | preview a code, quote, place, redeem, resubmit, edit a code | the order that it creates enters the lifecycle |
| Money documents (vendor settlements, Mzaya payouts, procurement, treasury transfers, tax transactions) | one table each, with a status and amounts | create, approve, pay in parts, complete, reverse | row-locked transactions that enqueue events |
| Reconciliation of documents (five services, four jobs, the admin endpoints) | a mark on each document, result rows | compare a document with the pipeline, store the result, mark | reads documents, outbox, business and accounting events, ledger |
| Tax books (`taxLiability`, `taxRemittance`) | liability, remittances, their transfers | refresh, create and pay a remittance | tax transactions, treasury transfers |
| Cutover (`financeCutover`, `financeCutoverReadiness`, a job) | control, decisions, checks | request, evaluate, approve, roll back | the mode decides what the legacy posting guard logs |
| Refunds | refund rows | request always throws (see section 5) | — |
| Dormant generations (offer-based dispatch, order state machine, settlement batches, provider webhooks, outbox claim) | own tables | — | no mounted route or started job reaches them |
| Reporting (reliability, observability, snapshots) | counters | read | reads the tables above |
| Period close, approvals | own tables | administrative | postings do not consult the period lock: `assertPeriodOpen` has no caller in posting |
| Catalogue, accounts, chat, realtime, notifications, front end, ML service | single rows | create, read, update, delete | nothing waits for them |

`PROJECT.json` lists every component with its sources and status.

### What is hard, and what makes each component correct

*Delivery.* Several publisher ticks overlap (every minute, and the admin drain
endpoint), each delivery is about ten statements that commit one by one, a worker can
outlive its lease, and a process can die anywhere. Correct means: one worker at
a time per event, one business event per outbox event, `published` only
after ingestion, and no event forgotten.

*Engine.* The processor, the poster, replays and configuration changes act on the
same rows, and the jobs take the oldest hundred of them. Correct means: one ledger effect per event,
history that is not taken back, and every event posted that has a rule and accounts and is not kept
from its turn by a batch of others that have none.

*Payments.* A request calls the provider between two of its own writes; polls and
redelivered webhooks arrive in any order. Correct means: one prompt per
idempotency key, a monotonic outcome, events that agree with the outcome, and an
order that is paid exactly if an attempt succeeded.

*Orders.* Nine handlers read an order, await, and write it. Correct means: a rider
who has an order keeps it, a cancelled order is not sent out, a completion is
accounted for once.

*Checkout.* The page shows a total, the server computes another from the same
cart, the code they share may change in between, and a placement has neither a
transaction nor an idempotency key. Correct means: nobody is charged what he was
not shown, and a cart becomes a second order only after a failure was shown.

*Documents.* Requests for one document run at once and are repeated. Correct means:
payments add up and stay within what is due, accounting hears of each change
exactly once and of the right amounts, and two people stand behind a transfer.

*Reconciliation.* A document changes while it is compared with events of its former state, and the
result and the mark are two writes. Correct means: a match speaks of something that
has been posted, and an opened or closed document whose event is posted is matched in the end.

*Tax books.* A liability is recomputed without a lock while remittances pay it. Correct
means: paid is what the remittances add up to, and no debt that a refresh has seen disappears.

*Cutover.* The approval holds a row and evaluates checks that write on another connection.
Correct means: it is answered.

The hazards, each with the line where it bites and the properties
that cover it, are in `PROJECT.json`.

## 2. Modules

| Module | Role |
|---|---|
| `FinancePromise` | abstract: facts are committed, then ingested, then posted, at most once each, and stay so |
| `FinanceEvents` | the business facts that both halves of the pipeline are about |
| `FinanceDelivery` | outbox, leases, workers, recovery, operator; refines `FinancePromise` |
| `FinanceDeliveryProofs` | its theorems, also what survives dead workers and outlived leases |
| `FinanceEngine` | business event to ledger, with replays |
| `FinancePipeline` | delivery and engine composed, from the outbox row to the ledger; refines `FinancePromise` |
| `FinancePipelineProofs` | the theorems of the engine and of the composition |
| `PaymentAttempts` | the attempts of one order against Paynow |
| `PaymentReceipts` | the payments of an order composed with the pipeline, from the customer to the ledger |
| `PaymentReceiptsProofs` | the theorems of the payments and of the composition |
| `OrderLifecycle` | orders, riders, offers |
| `OrderLifecycleProofs` | its theorems |
| `Pricing` | the price list, as operators: vehicle, fee, discount, quote, charge |
| `Checkout` | checkout pages, placements and a promo code; extends `Pricing` |
| `CheckoutProofs` | its theorems |
| `DocumentPromise` | abstract: a document is drafted, opened, paid, closed and announced in step |
| `MoneyDocuments` | the five kinds of documents under row locks; refines `DocumentPromise` |
| `DocumentReconciliation` | jobs and admins reconcile the documents; extends `MoneyDocuments` |
| `MoneyDocumentsProofs` | the theorems of both |
| `TaxBooks` | one tax liability, its refresh and its remittances |
| `TaxBooksProofs` | its theorems |
| `Cutover` | request, approval, rollback and readiness of one domain |
| `CutoverProofs` | its theorems |
| `MCFinanceDelivery`, `MCFinanceEngine`, `MCPaymentAttempts`, `MCOrderLifecycle`, `MCCheckout`, `MCCutover` | constants, symmetry and views of one module for TLC |
| `MCPipeline`, `MCCustomer`, `MCOrderLife`, `MCBackOffice` | instances of several modules or shapes in one run (see section 3) |

`map` in `PROJECT.json` gives for each definition the source lines it stands for.
Operators under a comment that starts with "Mutation" are faulty variants of the
definition next to them; they show that the runs notice the fault, and are no part
of the specifications.

### FinanceDelivery

`outbox`, `lease`, `deadLetters` and `received` are tables; `worker`, `recovery` and
`operator` are calls under way, with the values they read earlier. A worker's `pc`
is the statement of `deliverOutboxEvent` it is about to execute:

    idle -AcquireLease-> leased -OpenAttempt-> delivering -FindExisting-> creating
      -CreateEvent-> ingested -Publish-> published -Release-> idle
    any statement of the try block -StepFails-> failed -RecordFailure-> recorded
      -ReleaseAfterFailure-> thrown -JobRereads-> exhausted
      -FindOrCreateDeadLetter-> quarantining -Quarantine-> idle

`AcquireLease` is one step because it holds the outbox row's lock for its
transaction; every other step is one autocommitted statement. `SaveStatus`
carries a detail that matters: Sequelize's `update` omits a column whose value equals
what the instance last read, so a late worker may or may not overwrite a status.
`EscapesTry` is an error thrown outside the try block; `DrainLogs` is the drain endpoint,
which does not quarantine. `RecoverLease` acts on a list read earlier.

### FinanceEngine

`processBusinessEvent` and `postAccountingEvent` each run in a transaction on a
locked row and are one step each. A transaction whose callback throws writes nothing
(`Commits`), including what its own catch block wrote. `Unpostable` events have a journal of one line or an account
that does not resolve: posting them throws each time. That another posting throws and is repeated is a stutter. A replay is
`ReadItem`, `StartItem`, `ResetEvent`, `ReplayProcess`, `CompleteItem` or
`RequeueItem`, one statement or transaction each, and may die between any two.

### FinancePipeline

Delivery counts the `finance_business_events` rows with an event's key (`received`), the engine has
the status of the row (`business`); they share nothing else. So the composition is small:
a step of the pipeline is a step of delivery or of the engine, and the insert of
`ingestBusinessEvent` (`Inserts`) is one of both, `CreateEvent` here and `Receive` there. A step of
delivery that inserts nothing leaves the engine alone, and the engine never writes what delivery
reads. `Receive` is enabled whenever `Inserts` holds, so that the engine never holds delivery up. Neither
half is simplified for the other: the modules are those that are checked and proved alone.

`PipelinePromiseKept` is the promise of the whole: `committed` is read off the outbox, `ingested`
off the business events, `posted` off the accounting events and the ledger together (`Accounted`).
`FinanceDelivery` alone refines the same promise with nothing posted (`PromiseKept`).

### PaymentAttempts

One order; `attempt` is a row per idempotency key. `request` is a call of
`initiateOrderPayment` (`CheckOrder`, `FindAttempt`, `Reserve`, the provider, then
`StoreReference` or `MarkUnreachable`). `resolver` is a poll or a webhook, which
both end in `applyPaymentOutcome` (`LockAttempt`, `CountSuccesses`, `UpdateOrder`,
`Commit`). The row lock is held to the commit, but the count of successes is a
statement of its own and sees what had been committed when it ran. Paynow
(`provider`, `notices`, `prompts`, `acked`) is external: it may answer or not,
report twice, and in any order.

### PaymentReceipts

The emitters of `paymentFinanceEvents.service.js` give the attempts their events (`CaptureOf`, `FailureOf`),
and the composition is made as that of the pipeline's halves: a step is one of the payments or
one of the pipeline, and the transaction of `applyPaymentOutcome` (`Commit`) is one of both, with the insert
of `enqueueFinanceOutboxEvent` (`RecordFact`), which finds an event of that key or creates it. No payment
handler reads what delivery or the engine write, and these read no attempt. Events that are not of an
attempt are enqueued by other transactions, which are the pipeline's own `Enqueue`.

### OrderLifecycle

`order` holds status, rider, vehicle rank, fee and total; each handler that reads, then
writes, is two or more steps with its reading in its own variable (`placing`,
`claiming`, `upgrading`, `releasing`, `choosing`, `offering`, `crediting`).
`updateOrderStatus` and `cancelOrder` lock the row and are one step; the rider's
totals are credited after the commit. Vehicle classes are ranks. A handler that
dies takes no further step. A second completion always conflicts in the outbox
(`delivery.completed` carries the time of delivery), which is what `Emits` says.
A rider may report any string (`Reportable`), also `cancelled`, which leaves no event, and `scheduled`, which puts
the order before the release job; `other` is every string the code does not know.

### Pricing and Checkout

`Pricing` works in cents and grams and has the limits of the tables in
`config/constants.js` and `utils/feeCalculator.js`; orders of the page carry no pickup location, so
the distance is the default of five kilometres. `Quote` is `quoteOrder`, `Dispatched`
and `Charge` are what `dispatchOrder` and the end of `createOrder` write. `Checkout` keeps
`page` (the React state of `CheckoutPage.jsx`), `placement` (one `createOrder` per
press of the button), `promo` (the row) and `irregular` (whether two
placements were between reading and counting the code at the same time, or an admin lowered its limit or
changed its count; no step reads it). `UpdatePromo` is an admin who writes any field of the row. `Shown` is the
total of the quote, or, when the page has none, the price of the goods alone, which is what its button
then says. `terms` and `repriced` remember whether the code still had the terms under which the page was granted
it. A placement is

    sent -Create-> dispatched -EvaluatePromo-> counting -CountRedemption-> pricing -SetTotal-> done

and may stop anywhere (`PlacementFails`), while the page gives up (`GivesUp`) and lets the
customer press again.

### MoneyDocuments and DocumentPromise

`doc` is the row of a document of any kind, `event` its outbox events by key
(`opened`, `closed`, `refund_due`), `request` the running transactions, and `received`
the payments accepted, as the payers know them. A transaction is `Lock` (the
`SELECT ... FOR UPDATE`) and then one commit, or `RollBack`; requests are sent
again at will. `Enqueues` is `enqueueFinanceOutboxEvent`: a key taken by another
payload makes the commit impossible. `DocumentPromise` knows neither locks nor
requests nor kinds: `stage`, `owed`, `paid` and `announced` are computed from a
row and its events.

### DocumentReconciliation and TaxBooks

`booked` says how far an event has come; the three pipeline steps stand for
`FinanceDelivery` and `FinanceEngine`, and may never be taken. `posted` stands for an accounting event with its ledger
entry, or without one if its value is zero. A reconciler picks a document (`JobPicks`, `AdminPicks`),
compares (`Agrees`), stores the result row and, in a statement of its own, the
mark, which Sequelize writes only if it differs from what was read.
`ReconcilerDies` may come between the two.

`TaxBooks` splits `createTaxRemittance` and `markTaxRemittancePaid` where they lock, insert
the transfer on another connection, and commit; `refreshTaxLiability` is three steps
without a lock. No step reads `disturbed` (the refreshes across which something changed), `summed` (the taxes
each refresh has added up) or `counted` (those that the refresh which wrote last had).

### Cutover

`control` and `decision` are the rows, `approval` the approving transactions,
`evaluation` the evaluations outside of one. `ControlLocked` is what PostgreSQL does: the insert of a check
refers to the control by a foreign key, takes a key-share lock of that row, and waits
for a `FOR UPDATE` of it, also one of the transaction that awaits the insert.

## 3. Runs

| Run | Checks | Instance |
|---|---|---|
| `FinanceDelivery_safety` | `TypeOK`, `OneActiveLease`, `ExclusiveHolder`, `PublishedIsIngested`, `IngestedOnce`, `PromiseKept` | 1 event, 2 workers, 3 leases, 2 attempts; worker, recovery and operator may die; leases may be outlived |
| `FinanceDelivery_stranded` | `PublishingIsRecoverable` fails when the recovery job may die | as safety |
| `Pipeline_progress` | `EngineTypeOK`, `OneAccountingEffect`, `StatusIsBacked`, `PublishingIsRecoverable`, `AccountingImmutable`, `PipelinePromiseKept`, `EventuallyPosted`, `ReplayEnds`, `EventuallySettled` | `FinancePipeline` with an event, 2 workers, 2 leases, 2 attempts, 2 replayers, 1 item, limit 4, batches of 1 (publisher) and 2 (engine); workers and replayers die, leases are not outlived. `delivery`: no rule; `engine`: delivered at once; `both`: 1 worker, no replay; `queue`: a second event, which cannot be posted, and no replay |
| `FinanceEngine_unrecorded` | `FailureIsRecorded` fails | 1 event, 1 replayer |
| `Customer_races` | `CustomerTypeOK`, `NoSilentDuplicate`, `ChargedAsQuoted`, `LimitHoldsAlone`, `OnePrompt`, `FactsAreSettlements`, `ReceiptsArePayments`, `SettledIsFinal` | `contest`: 2 pages, one may press twice, one code whose limit of one redemption may be edited; `prices`: 1 page, 33 carts, 5 codes that may be edited into each other, with or without a quote; `requests`: 1 key, 2 requests, 2 resolvers, both may die; `outcomes`: 2 keys, 1 request, 2 resolvers, at most 3 notices; `receipts`: 1 key, 1 request, 1 resolver at a time, 1 worker, the whole pipeline, faults of the payment's handlers |
| `PaymentAttempts_derived` | `OrderPaidIffSettled` fails | 2 keys, 1 request, 2 resolvers |
| `PaymentAttempts_acked` | `AckedIsApplied` fails | 1 key, 1 resolver that may die |
| `OrderLife` | `TypeOK`, `OutcomeIsAccounted`, `CreditedOnce`, `OnlyDispatchSteals`, `CancelledStaysIn`, `ScheduledLeaves` | `negotiated`: 1 scheduled order open to offers, 2 riders, 2 offers; `booked`: 1 scheduled, upgradable order, 2 riders, every report; `immediate`: 1 upgradable order, 2 riders, every report |
| `OrderLifecycle_stolen` | `NoStealing` fails for an immediate order | 1 order, 2 riders |
| `BackOffice_books` | `OfficeTypeOK`, `PaymentsAddUp`, `StatusIsAnnounced`, `MakerIsNotChecker`, `DocPromiseKept`, `MatchIsBooked`, `MarkHasResult`, `EventuallyReconciled`, `PaidIsRemitted`, `DebtNotHidden`, `QuietRefreshIsRight` | `documents`: 1 document of any kind, 2 requests, 2 users, amounts to 2; `crashes`: 1 request, a job that may die; `races`: 1 request, a job and an admin; `payments`: 2 taxes of 1 and 2, 2 remittances, 2 requests, 1 refresh; `refreshes`: 2 taxes, 1 remittance, 1 request, 2 refreshes |
| `Checkout_priced` | `ShownIsCharged` fails | 2 pages, 1 code |
| `Cutover_answered` | `ApprovalIsAnswered` fails | 2 admins, 1 decision |

### One run, several shapes

Four runs check several instances at once. A variable `focus` is chosen in the
initial state and never changes; in each behaviour only what it names moves, with
the constants of that shape. Every property is then checked in every shape, and the product of
unrelated parts is never built. `MCCustomer` and `MCBackOffice` put modules side by side;
`MCOrderLife` is one module with three kinds of orders; `MCPipeline` is the composed pipeline, of
which each shape lets one half or a little of both run free. What a shape leaves out is one conjunct with a
name: `OneKey`, `OneResolver`, `ThreeNotices`, `FirstKeyFirst` and `Delivered` (payments); `OneUser`,
`NoTransfer` and `TwoKinds`
(reconciliation does not look at users, does not select transfers, and treats documents alike
that are paid in parts or closed at once); `FirstRefresh` and `FirstRemittance` (refreshes are alike, and so
are remittances); `LifeReports` (no handler tells `picked_up` from `en_route`; on the negotiated order, which is
large already, riders report the delivery only); `Contest`, `AllQuoted` (where customers compete, an admin edits the code's
limit and count, and all saw a quote), `NoLateEdit` (where one customer asks, a code is edited until the
answer); and in the pipeline

* `ReplaysWhenQuiet`: an operator replays a dead letter while nobody else is at work
  (`FinanceDelivery_safety` has it at any time);
* `NoRule` (`delivery`): the engine only rejects the event, and does so as soon as it arrives;
* `Alone`, `DeliveredFirst` (`engine`): one worker delivers at once, and then the engine starts;
* `Alone`, `NoReplay` (`both`): one worker with failures and crashes, recovery and operator, interleaved with the
  processor, the poster and changing rules;
* `OnlyPostable` (all but `queue`): the event that cannot be posted does not arrive. In `queue` both arrive, in any order.

In `receipts` an attempt is followed to the ledger with a delivery that succeeds at once (`Delivered`): what
crashes and retries do to a row is the question of the other two pipeline runs, and what all of it together may do
is proved (`PaymentsUnchanged`, `PipelineUnchanged`). `FirstKeyFirst` is a symmetry: the keys are alike, so that
the first one that an attempt is made with may as well be a given one.

Each of them narrows what may happen, not what a step does, and `DeliveryUnchanged` and `EngineUnchanged`
(section 4) say that the halves together do nothing that they do not do alone. What a committed fact
is promised in the end is the chain of the properties of both: the outbox row is published or
put before an operator unless its deliveries are cut short for ever (`EventuallySettled`), a published one has its
business event (`PublishedIsIngested`), which is the engine's (`RowsAgree`, proved), and that is posted if its
rule stays, its accounts resolve and no full batch of others is in its way (`EventuallyPosted`).

### Why the bounds are enough

The properties of delivery and of the engine are about one event, and no action
reads the row of another, so one event with all its workers shows what
many would; the theorems cover any number. Only the jobs' batches make events wait for each other: an event that is
for ever in the way of another, and a batch of two, stand for ninety-nine of them and a batch of a hundred. With a
batch of one the second event starves, and `EventuallyPosted` claims nothing for it. Two workers and three leases give a late
worker, its successor and a row of history; `MaxAttempts = 2` stands for 8 and gives
a retry and an exhaustion. A replay counts its attempts by two where
they are compared, so `MaxReplays = 4` lets an item be requeued twice. Two keys let
a payment be attempted again; two resolvers give every pair of poll and webhook.
Two riders of ranks 1 and 2 and an order that starts at 1 and may rise to 2 make
a rider fit and unfit. `AgreedFare` differs from every fee so that a fare can be told
from one. Documents do not look at each other either; two requests give every pair of
concurrent transactions, and an amount of 2 is paid in one part, in two, or beyond.
The carts of `prices` lie on both sides of the limits that the price list has and of the code's
minimum; a code for one redemption is contested by two pages. Two taxes of different amounts tell
which of them a refresh has seen; two refreshes let the older one write last.
`VIEW` (delivery, customers) hides values no later step reads, and is used
with safety properties only; `SYMMETRY` is never used with liveness.
`CHECK_DEADLOCK FALSE` is stated because every system here may come to rest, with
every event settled, every order delivered or every document closed. The one deadlock
that the code has, of the approval, is looked for as a leads-to property.

### Fairness

`FinanceDelivery`: cron schedules (one, five or ten minutes) run for ever, so recovering and the passing of
time are weakly fair; a started call returns or throws unless its process dies, so that a worker's next step is weakly
fair (`Returns`), and nothing makes it succeed. The publisher takes the oldest `PublisherBatch` rows (100).
Those it takes in vain, whose
lease somebody has (`Refused`), stay among the oldest, so fairness says only that a batch which is not filled by such rows
reaches another one, whichever that is (`PublisherReaches`). No deaths are excluded: a delivery that ends
before its failure is
counted, by a death or by a throw outside the try block
(`financeEventDelivery.service.js:43`; the count is written in the catch block, `:102`), is retried for ever.
`EventuallySettled` therefore
speaks of an event whose deliveries are, from some time on, no longer cut short so (`CutShort`), and not replayed by
an operator, while fewer others than fill a batch are. In that run leases are not outlived: a lease lasts 60
seconds (`financeDeliveryLease.service.js:11`) and a delivery is a few statements.

`FinanceEngine`: processor and poster take the oldest `EngineBatch` rows, and a row that is rejected or cannot
be posted is rolled back to
where it was. Again fairness says that a batch not filled by such rows reaches another (`ProcessorReaches`, `PosterReaches`).
`EventuallyPosted` asks for a rule that stays and accounts that resolve, and that the events in the way for ever
(`InTheWay`: without a rule, unpostable, or with a replay) do not fill a batch. The replay job is weakly
fair to each item, since no item stays in its way: each is completed or given up after a bounded number of attempts. The
first write of a replay is strongly fair, because a replay that fails before it is
found again by the next tick. An operator, and whoever changes rules, owes nothing.

`OrderLifecycle`: the release job is
weakly fair to look and strongly fair to write, since a failing tick is repeated a
minute later. `DocumentReconciliation`: a transaction is committed or rolled back (weak), and nothing is
asked of the pipeline, whose events may be dead-lettered or starve: `EventuallyReconciled` speaks of a document whose
event is posted. The hourly job comes back to every
document it has not matched (each comparison renews `updated_at`, by which it takes the oldest), and finishes
one when it does not die for ever (strong, because
a locked row and a death disable the step again and again; deaths are bounded
by `MaxCrashes`). `Cutover`: handlers go on with whatever they can do; no statement timeout
is set (`config/db.js`), so nothing ends a statement that waits for a lock.

### What the failing runs show

* `FinanceDelivery_stranded`: `recoverStaleLeases` expires the lease and requeues the
  row in two statements. Death in between leaves the row in `publishing` with no
  active lease; the publisher selects `pending` and `retry` rows only, and the
  recovery job selects active leases only.
* `FinanceEngine_unrecorded`: the catch block of `processBusinessEvent` marks the event
  failed and asks for a posting failure in an `afterCommit` hook, then rethrows out
  of the managed transaction, which rolls back. No failure is ever recorded, so the
  job that replays recorded failures has nothing to replay.
* `PaymentAttempts_derived`: two attempts settle at once; each transaction counts the
  successes before it waits for the order row, and the later writer may write the
  older count.
* `PaymentAttempts_acked`: the webhook stores its deduplication row first. When the
  handler then dies, or the attempt's reference is not stored yet, the
  redelivery is a duplicate, is answered with 200, and the payment is never applied
  unless the customer's client polls.
* `OrderLifecycle_stolen`: an immediate order is on the claim board while
  `dispatchOrder` looks for a rider; its unconditional update then overwrites
  the rider who claimed it.
* `Checkout_priced`: `createOrder` ignores a code that is no longer valid and charges the full
  price; the page showed the discounted one. In the trace the customer's own first try, which the page had given up
  on, used up the code, and the second pays the full price; another customer's order, or an admin's edit of the code
  between preview and placement, does the same.
* `Cutover_answered`: `approveCutover` locks the control and calls
  `evaluateCutoverReadiness`, whose `recordCheck` is given no transaction. Its insert waits
  for the lock that its caller holds. PostgreSQL sees no cycle, since the caller's connection
  is idle. Each such approval keeps two of the pool's ten connections.

### Observed while modelling, with no run of their own

The models reproduce the following; they are recorded here for the reader.

* `financeEventDelivery.service.js:112`: a worker that outlived its lease can write
  `retry` over `dead_letter`, so an event leaves quarantine without a replay.
* `financeEventDelivery.service.js:43`: the attempt's row is inserted before the try block, with a unique
    (event, number) (`src/backend/migrations/finance_event_delivery.sql:60`). A worker that dies after the
  insert has not counted the attempt, so each
  later try inserts the same number, throws, counts nothing, and is recovered when its lease runs out: the
  event is retried for ever and never quarantined. In the model this is `EscapesTry` at each try.
* `financePosting.controller.js:95`: the drain endpoint does not quarantine; an event that fails there for the last time is
  `dead_letter` without a dead-letter row, and no operator's list shows it.
* `financeBusinessEventProcessor.job.js:14`, `financeAccountingPoster.job.js:9`: both jobs take the oldest
  hundred rows, and a failure rolls
  back. A hundred events without a rule, or whose accounts do not resolve
  (`financeAccountingPosting.service.js:107` throws each time), keep every later event from the ledger.
* `financeReplay.service.js:50`: a replay sets the event to `received` in any
  status; when its accounting event is already posted the event then rests in `prepared`,
  because the poster looks at prepared accounting events only.
* `financeReplay.service.js:76`: the attempt counted at the start is counted again in the
  catch block, so an item is dead after seven attempts of eight.
* `financeReplay.service.js:43`: an item whose process dies stays `processing`, which
  no query looks for (`LeftBehind` in `FinanceEngine`).
* `payment.controller.js:137` and `:167`: after an unreachable provider, trying again with
  the same key is answered "Payment already initiated". When the provider accepted
  and its answer was lost, the customer can pay an attempt recorded as failed.
* `payment.controller.js:282`: the attempts of an order share the reference
  `MZAYA-<orderId>`, and a webhook takes whichever row `findOne` returns; one
  payment can settle two attempts, one by webhook and one by poll.
* `payment.service.js:187`: a poll knows `paid` only, while a webhook takes `awaiting delivery` and
  `delivered` for a success as well
  (`normalizeStatus`); such a payment stays pending for a client that polls.
* `payment.controller.js:214`: a poll looks at the latest pending attempt only.
* `negotiation.controller.js:100`: `chooseOffer` looks at `rider_id` only, and revives
  a cancelled order; `CancelledStaysIn` names it as an exception.
* `order.service.js:314`: the rider of an order may report any string as its status. After `cancelled` the
  order is cancelled with no
  `order.cancelled`; after `scheduled` the release job gives it to another rider; after `pending` nobody can claim it,
  because it still has its rider.
* `scheduledRelease.job.js:25`: the job takes fifty due orders in no order.
* `order.controller.js:253`: `upgradeVehicle` writes unconditionally; an order picked up
  or cancelled since its check may return to `pending`.
* `order.controller.js:159`: the claim does not repeat the vehicle check; an upgrade in
  between gives the order to a vehicle that is too small.
* `negotiation.controller.js:26`: dropping the prior offer and creating the new one are
  two statements without a unique index; two submissions leave two offers.
* `order.service.js:369`: rider totals are read and written without a lock; concurrent
  deliveries lose one.
* `negotiation.controller.js:104`: the agreed fare changes `delivery_fee_usd` and not
  `total_usd`.
* `orderDispatch.service.js:44`: two dispatches may find the same rider free.
* `order.service.js:176`: placements that overlap redeem a code beyond its limit, and count
  one redemption for two; `LimitHoldsAlone` says that others do not.
* `order.service.js:123`: a placement that fails after its first statement leaves an order
  without details, price or rider, and answers that it was not placed.
* `vendorSettlementReconciliation.service.js:124`: a document matched while it was approved stays
  matched when it is paid; the jobs select what is not matched, so that its
  payment is never compared unless an admin asks.
* `vendorSettlement.service.js:152`: a settlement or payout whose amount due is zero can be approved
  but never closed: a payment of zero is refused and any other exceeds it. A partial payment
  that is sent twice is added twice; nothing identifies it.
* `vendorSettlement.service.js:15`: nothing keeps one order out of two settlements.
* `taxRemittance.service.js:40`: the treasury transfer is inserted outside the transaction
  and stays when the remittance is rolled back.
* `taxLiability.service.js:55`: a refresh may write a closing balance from before a
  remittance was paid: the debt shows as larger than it is until the next refresh. It shows as smaller when a tax
  was recognised after the refresh added them up, or when the older of two refreshes writes last. `DebtNotHidden` says
  that payments and reversals never have that effect on taxes that the last refresh had counted.
* `taxLiability.service.js:15`: the sum does not look at the period, so each period's liability has the taxes
  of all. The unique key
  (`src/backend/migrations/tax_finance_integration.sql:57`) does not hold two rows without a jurisdiction apart, and the
  Sequelize model has none: two first refreshes at once can create two liabilities (`TaxBooks` has one).
* `paymentFinanceReconciliation.job.js:14` and the job for orders select statuses that
  payment attempts and orders never have, so that neither is ever reconciled.
* `refundFinanceEvents.service.js`: `emitRefundRequested` is not exported; `requestRefund`
  throws and rolls back, and no refund can come into being.
* `index.js:115`: a signal during start closes the database under the start, and the ticks of jobs
  that are running at shutdown are not awaited.

## 4. Proofs

Eight proof modules prove `Spec => []Inv`, action properties and three refinements for every
value of the constants that satisfies the module's ASSUME; none depends on TLC. Every
invariant that a passing run checks is proved: those of a run that puts modules side by side
(`CustomerTypeOK`, `OfficeTypeOK`) conjunct by conjunct (`PaymentsTyped`, `TypeCorrect`, `CheckoutTyped`,
`ReconTyped`, `TaxTyped`).

The assumptions are that `Nil` and `None` are none of the things they stand beside, that no two attempts
share a finance event (`ReceiptConstants`: the idempotency key has the attempt's id and the outcome), that bounds are natural
numbers, and that there are finitely many keys (`PaymentAttempts`), orders
(`OrderLifecycle`), taxes and remittances (`TaxBooks`), which counting and adding them needs; that an event without
a ledger entry is not one that cannot be posted (`Unpostable`); in `Checkout`,
that carts, fees and codes are typed and no amount is negative, and the same of the amounts in
`TaxBooks`. Three theorems have a condition of their own: that
the recovery job does not die between its two writes (`PublishingStaysRecoverable`), and that no two settlements of an
order overlap or that it has one attempt (`SettledOneAtATime`, `OneAttemptIsShown`).

`FinanceDeliveryProofs`. None of the four safety invariants is inductive by itself.
`DeliveryInv` adds `CallsKnowEvent` (a call under way has an event),
`IngestedBeforePublish` (a worker reaches the outbox write only once the
business event exists), `OwnLease` (no two calls remember one lease) and
`KnownIsCommitted` (whatever works on an event found its committed row).
`OneActiveLease` follows from the check under the row's lock and from the fact that the
unconditional writes to leases, by workers and by recovery, never make one active;
`ExclusiveHolder` follows from it and `OwnLease`. The proof takes the
actions one by one. `PromiseImplemented` shows that initial states map to initial
states of `FinancePromise`, and that each step maps to `Commit`, `Ingest`
or a stutter. It rests on `PromisedMoves`, which says of every step of delivery that it commits a fact,
ingests one, or does neither.

`PublishingIsRecoverable` needs more: `Settles`, that as
long as the lease of a call counts nobody else has started on its event, so that a call
about to give its lease back has taken the row out of `publishing` before. It holds with
workers that die anywhere and leases that are outlived; only the death of the recovery
job is excluded, and `FinanceDelivery_stranded` shows that it must be.

The engine (`FinancePipelineProofs`, first part). `EngineInv` adds `ReplaysKnowEvent` to the two safety
invariants. `OneAccountingEffect` ties the ledger to the status of the accounting event,
which one transaction changes together; a replay changes the business event only,
so it cannot post twice. `StatusIsBacked` holds although a replay resets the status
without looking: what it writes, `received`, claims nothing. `AccountingImmutableHolds` is an
action property proved from the same invariant.

The pipeline (second part). Projected on its variables the composition is each half
(`DeliveryUnchanged`, `EngineUnchanged`), so that every theorem about one of them holds of the whole; `PipelineIsRecoverable`
is one that is carried over. What is new is about both. `RowsAgree`, that
delivery's count and the engine's status tell of the same events, is not
inductive: a replay of an event that never arrived would make it, by resetting its status, an
event to the engine alone. `ItemsArrived` excludes it: items are queued for events that exist, and no
step makes an event cease to exist. `PipelineKeepsPromise` then maps the steps: by `PromisedMoves` a step of
delivery is a `Commit`, an `Ingest` (with `RowsAgree`, also to the engine) or a stutter; a step of the
engine is a `Post` if it is `PostAccountingEvent`, where `StatusIsBacked` says that the fact was
ingested, and a stutter otherwise. `EveryEffectHasFact` reads the chain backwards: no ledger
transaction without its committed, once ingested fact.

Payments (`PaymentReceiptsProofs`, first part). `PaymentInv` adds what the calls under way know: a request that
is calling the provider owns its key and no other request does (`Owners`, from the unique
index at `Reserve`), a resolver in its transaction holds its attempt's row alone (`Holders`),
and an attempt was prompted at most once and its outcome reported (`AttemptsOK`).
`OnePrompt` needs the owner, since the call follows the insert; `CapturedWithSettlement`
needs the holder, since the event is written after the lock was taken; `SettledIsFinal`
follows from both, because the only unconditional write of a status, after an unreachable provider,
belongs to the owner of an attempt that no one has settled yet.

`OrderPaidIffSettled` does not hold (`PaymentAttempts_derived`), and two theorems say how far it does.
`SettledOneAtATime`: if no two settlements of the order are ever under way at once, the order always shows what its
attempts say; the invariant is that a transaction that has counted has counted right (`CountsAreTrue`), which
only a commit of another one can disturb. `OneAttemptIsShown`: with one attempt they never are, since the
lock of the attempt's row (`Holders`) keeps them apart. Locking the order's row before counting would do
the same for any number of attempts.

From the customer to the ledger (second part). `PaymentsUnchanged` and `PipelineUnchanged` project the composition on
its parts, and what is proved of them holds in it with no further proof. What neither says alone is how the
tables agree. `FactsAreSettlements` is not inductive: to see that a settlement leaves the events of
other attempts alone and creates the right one, one needs that the attempt was not settled before (`Holders`), and to
see that the row is really created, that there was none, for otherwise `enqueueFinanceOutboxEvent` returns the
row it finds. `FactsAgree` says so, also of what `PaymentAttempts` knows of announced events, and `FailedAreOver` that
an attempt with an announced failure has an outcome, which it leaves for `success` at most. `NewFact` follows: no settlement
meets its own event, `FactsAlwaysNew`, and with it the conflict of `enqueueFinanceOutboxEvent`, which would
roll a settlement back, is unreachable. `EveryReceiptIsPaid` joins this to `EveryEffectHasFact`: an entry of the ledger has
its committed row, the row its settled attempt, and that the report of the provider. `NoFailureAfterCapture` is
about the two kinds of rows of one attempt, whatever delivery, recovery and operators do to them. The properties
of the same name within `PaymentAttempts` (`CapturedWithSettlement`, `CaptureHasPayment`) are proved
for the payments alone.

`OrderLifecycleProofs`. `OrderInv` adds that an order has nothing before its handler has placed it
(`NewIsUntouched`), and that a credit under
way is of a completion and has read a total behind the credits written (`CreditInv`).
The argument is one lemma, `OrderMoves`: a step leaves the outcome of an order alone,
or reopens it by a handler that may (`Movable`), or is its delivery or its cancellation.
`OutcomeIsAccounted`, `CancelledStaysIn` and `OnlyDispatchSteals` are read off it, whatever riders report. `CreditedOnce` is
arithmetic on cardinalities: a credit adds one order to the set it counts.

`MoneyDocumentsProofs`. `DocInv` says that no two requests hold one document (`Locks`),
that a request has seen the row as it is (`Seen`), and, for each document, that kind, status
and amounts fit (`Fits`), that what is paid is what was received, and that the events are
the right ones (`Announced`). `Seen` is what the row lock is for: with it each commit is
one about a single row, and its effect on `Fits` and `Announced` is a lemma per operation.
`DocumentsKeepPromise` maps every commit to the step of `DocumentPromise` it is, and `Lock` and `RollBack` to
stutters.

`CheckoutProofs`. `PageOK` relates what the page shows to the quote it got, `RowsOK` a placement to
the order it has made, and `LimitInv` says that as long as no two placements have evaluated the code at
once and no admin has lowered its limit or set its count (`irregular`), the redemptions do not exceed the
count and the one about to be counted has read the
count as it is. The lemma behind `ChargesMatchQuotes` is `ChargeIsQuote`: what the placement
computes by itself is the quote for the same cart, discount and tip; a placement that was not `repriced`
found the terms that the page was granted, and so the same discount or none.

Of reconciliation, `ReconcilingOnlyReads` shows `Spec => DocSpec`, so that `DocInv` holds
there with no further proof; with events that stay, `MatchesAreBooked` is inductive together with
what a reconciler remembers between its result and its mark (`ReconcilerOK`).

`TaxBooksProofs`. The invariants are about sums over finite sets of taxes and remittances, which
`TaxBooks` takes with the fold of the community modules. What a sum does when one element is added, removed or
changed follows from the library's recursive function by an
argument on cardinalities (a smallest set for which it failed would have a smaller one), in place of
the induction theorem that the provers cannot instantiate. `TaxInv` adds who
holds the liability and its remittances (`TaxLocks`), what a request and a refresh remember of them
(`RequestKnows`, `RefresherKnows`), that an unused remittance is empty (`NewIsEmpty`), and that what is
accrued covers the taxes
that were counted and are still recognised (`BooksCover`). `DebtStaysShown` needs
that what a refresh read as paid is at most what is paid when it writes, as no payment is taken back, and that a smaller
set of taxes has no larger sum (`SumMonotone`);
`QuietRefreshesAreRight` that what it read is what the books say, unless something crossed it (`disturbed`).

`CutoverProofs`. The run shows that one approval of a small instance is never answered. The theorems say what
follows for any number of
admins and decisions. `ChecksWait`: an approval that evaluates holds the control's row itself, so that
the insert it awaits is never enabled. `CutoverInv` draws the conclusion: no approval
is past its checks, no decision approved and no control active (`NoCutoverTakesEffect`).
`ApprovalStandsStill`: from then on the domain stands still, as requests, rollbacks and the job's checks
wait for the same row.

Checked by TLC only: liveness (`EventuallySettled`, `EventuallyPosted`, `ReplayEnds`,
`ScheduledLeaves`, `EventuallyReconciled`), since fairness and ENABLED are outside the
proof system's reach, and the properties of the failing runs, which do not hold by themselves.

## 5. What is not modelled

* Delivery attempt rows, dashboards and counters: nothing acts on them.
* The schema of the production migrations where it differs from the Sequelize
  models: the SQL declares `UNIQUE(outbox_event_id, status)` on leases and dead letters,
  `UNIQUE(outbox_event_id, attempt_number)` on attempts and
  `UNIQUE(business_event_id, status)` on the replay queue. The modules follow the
  Sequelize models; with those indexes some of the updates above would throw instead.
* Amounts: a journal balances or not; in `OrderLifecycle` fees are numbers told apart by
  rank (`Pricing` has the real ones); the lines of a settlement, payout or procurement are one amount.
* Paynow's wire format and hash, and the mock mode.
* Ratings, proof photos, items; the validation of the checkout form.
* Refunds: the first operation always throws, so that no state is ever reached.
* The matching of treasury transfers with bank movements: no started code creates a movement.
* Tax rates, returns and filing periods; what readiness checks measure; the
  legacy posting guard, which only reads the mode and logs.
* The ledger's reversal, whose routes are not mounted, and support conversations, whose
  creation always rolls back.
* Start and shutdown of the process, beyond the death of each actor.
* Time: a lease is overdue or not; `available_at` only delays. The release job's lead
  (45 minutes) exceeds the least lead of a scheduled order (30 minutes), so the
  release of an order may race with its pricing; `Release` before `Defer` is in the model.
* Dormant code, administration and the other components listed as `not_modelled`. Most of the
  repository's lines are pages that show and edit single rows, CRUD controllers, seed data,
  and generations of services that no route or job reaches. They have no interleaving that a model
  would add anything to, so that the share of lines that the modules cover is small, and larger in the
  back end's services and jobs.

## 6. Plan

Built in this order: `FinancePromise` and `FinanceDelivery`, because every
money flow rests on them; `FinanceEngine`; `PaymentAttempts`; `OrderLifecycle`; `MoneyDocuments` with
`DocumentPromise`, then its reconciliation and the tax books; `Pricing` and `Checkout`; `Cutover`; the
runs that put them side by side; the proofs of every module with safety invariants; `FinancePipeline`, which
joins the two halves of the finance pipeline, and its end-to-end refinement; `PaymentReceipts`,
which puts the payments before it, and its theorems from the customer to the ledger.

What would come next, in this order:

1. The other emitters (`OrderLifecycle`, `MoneyDocuments`) joined with `FinancePipeline` as the payments are.
2. `PaymentAttempts` with several orders.
3. Provider outcomes and settlement execution, once a route or job reaches them.
