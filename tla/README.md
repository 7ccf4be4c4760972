# A TLA+ verification of the nail-salon platform

The repository (`src/`) is a multi-tenant booking platform for nail salons: Next.js
route handlers and cron routes over one Postgres database, with Stripe, Twilio,
Resend, Google Calendar and object storage behind them. There is no long-running
process. Everything that happens is a serverless invocation, and every invocation
may overlap another, die between two statements, be retried, or be replayed by a
provider. State lives in tables; what protects it is row locks, compare-and-set
updates, unique keys and cron sweeps. Those are what this project models.

This directory holds the specifications, the TLC configurations that check them on
small instances, and the TLAPS proofs of what matters most for every instance.

## 1. The system

| Component | State | Operations | Why it is hard |
|---|---|---|---|
| SMS credit ledger and reservations (`libs/billing/creditLedger.ts`, `creditReservation.ts`) | append-only ledger rows, reservations and their per-lot rows, cached balance | reserve, settle, release, two refund arms, reaper | two refund arms in either order, clocks read before the row lock, lots that expire under a hold |
| Credit grants, top-ups, reversals (`creditGrants.ts`, `topupFulfillment.ts`) | positive rows, `sms_topup_purchase` | fulfil, refund and dispute reversal, expiry sweep, starter, window and upgrade grants | cumulative refund evidence replayed and reordered, reversal of credits already held or spent |
| Communication dispatcher (`communicationDispatcher.ts`, `communicationIntent.ts`, `unknownOutcomeResolver.ts`, `twilioMessagingSend.ts`, the dispatch and Twilio status routes) | `communication_intent`, `notification_delivery`, reservations, invocations | claim under a lease, reserve, insert, send, settle, recover, reap, resolve, callbacks | many statements per message, a crash between any two, leases that lapse, callbacks that overtake |
| Stripe billing event inbox (`billingStripeEvents.ts`, `webhooks/stripe-billing/route.ts`) | `billing_stripe_event` | claim, resolve, fail, retry, poison | replayed and reordered events, a crash between claim and handler |
| Subscription projection and credit windows (`billingSubscriptionProjection.ts`, `creditWindows.ts`) | `billing_subscription`, `billing_credit_window` | project snapshot, invoice paid and failed, checkout completed and expired, evaluate windows, upgrade difference | snapshots older than the row, upgrades and downgrades in the middle of a window |
| Subscription checkout and promotion claims (`checkoutAttempts.ts`, `promotionClaims.ts`, the checkout route) | attempts, claims, redemption counters | start, complete, expire; reserve, redeem, release | two requests of one salon, the last place of a promotion, a Stripe call between two transactions, claims that lapse beside a session that does not |
| Plan and offer catalogue | static tables | lookups | none |
| Communication materialization and scheduling | produces intents | enqueue, reschedule, cancel, quiet hours | dedupe keys and windows |
| Consent, inbound SMS, rate limits | consent rows, Redis counters | opt-in, opt-out, limit | read before it is used |
| Deposits: holds, refunds, reconciliation (`libs/deposits`, `depositHoldReaper.ts`, `depositReconcile.ts`) | deposit rows, refund operations | hold, confirm, release, refund, forfeit, reconcile | a hold that lapses while payment is under way, a slot lost to a payment that lands late, refunds whose creation timed out |
| Booking commit and slot conflicts | appointments, exclusion rules | book, move | two clients, one slot |
| Appointment lifecycle and approvals | appointment status | approve, cancel, expire | races on one row |
| Integration outbox, Google Calendar lane (`integrationOutbox.ts`, `googleCalendar.ts`) | `integration_outbox`, `google_calendar_event`, the sync columns of the appointment, session advisory locks, events at Google | enqueue, claim, pin, dispatch, finish, retry, reclaim, reconcile | a job that is overtaken by a newer change, answers lost on the way, leases and locks that die with a session, repair jobs that meet the state they are to repair |
| Others: payments and checkout totals, the inbound calendar, reminders, clients, rewards, images, catalogue resolver, Smart Fit, authentication, reporting, purge, user interface | | | see `PROJECT.json` for each one's status and the reason |

How they interact. A booking (or a cancellation, an approval...) materializes rows of
`communication_intent`. The dispatcher's cron claims them, asks the credit account
for a reservation, calls the provider, and settles or releases. Twilio's status
callbacks move the delivery row and ask the account to refund. Stripe's webhooks
feed the event inbox, whose handlers project subscriptions, grant windows and fulfil
or reverse top-ups in the same account. All of them share the ledger through one
row lock, `lockCreditAccount`, and nothing else is shared in memory.

What makes each part correct:

- **Ledger**: a message is charged its price once or not at all, and returned at most
  what it paid; a hold stays covered until it ends; reversals converge on the money
  Stripe gave back; nothing is authorized below zero; the cached balance is the ledger's.
- **Dispatcher**: one request per message over all attempts; no credit released after the
  provider took it; statuses tell the truth; delivery evidence does not regress; every
  intent ends and abandoned holds come back.
- **Inbox and projection**: one attempt at an event at a time, and Stripe's retries end; replayed
  and reordered events undo nothing that is proven; a month is granted only if it is
  paid to its end, once, topped up at most to the bigger plan, and never late; the rate
  protection has its evidence.
- **Checkout and promotion claims**: one live attempt per salon; places never exceed the cap; a claim is redeemed
  only for money and ends once.
- **Deposits**: money and slot never disagree: a paid deposit confirms the slot it was paid
  for or is refunded, once.
- **Calendar outbox**: the salon is told `synced` only of what Google shows; an event never goes back to an
  older revision; no event outlives its appointment; `pending` ends.
- **Booking**: no two overlapping appointments of one technician.

## 2. Modules

| Module | What it is |
|---|---|
| `MessageCharge` | Abstract: what the account promises for one message (hold, then charge once or let go, then give back at most what was paid). |
| `CreditLedger` | The account of one salon, with top-ups and their reversals. |
| `MCCreditLedger` | Instances for TLC. |
| `CreditLedgerProofs` | Type correctness and the refund bound, by TLAPS; the lemmas about sums of units. |
| `CreditBackingProofs` | That the cache, the holds, the authorization and the reversals agree with the ledger, and the refinement of `MessageCharge`, by TLAPS. |
| `SendOnce` | Abstract: what the pipeline promises for one message (ask once, pay once after acceptance, return once after failure). |
| `CommunicationDispatch` | Intents, deliveries, reservations, invocations, callbacks. |
| `MCCommunicationDispatch` | Instances for TLC. |
| `CommunicationDispatchProofs` | Type correctness and at-most-one-send, by TLAPS. |
| `CommunicationEvidenceProofs` | That rows, statuses and the account tell the truth about each message, and the refinement of `SendOnce`, by TLAPS. |
| `MonthlyAllowance` | Abstract: what a subscribed salon is promised per month. |
| `SubscriptionBilling` | The event inbox, the projection, the window engine and the maintenance routes. |
| `MCSubscriptionBilling` | Instances for TLC. |
| `SubscriptionBillingProofs` | Type correctness, one attempt at a time, what is proven stands, the evidence of the protection, the top-up of upgrades, and the refinement of `MonthlyAllowance`, by TLAPS. |
| `DepositHold` | The hold of one slot: booking, session creation, payment, confirmation, the hold reaper. |
| `DepositRefundCore`, `DepositRefund` | The refund of one payment: the claim, the snapshot, the write to Stripe, the stamp; the routes and sweeps that drive it. |
| `Deposits` | The composition of the two, with the sweep and the webhook arms that move both, and the properties. |
| `MCDeposits` | Instances for TLC. |
| `DepositsProofs` | Eight safety properties of the composition, by TLAPS. |
| `SubscriptionCheckout` | The checkout route, its attempts and sessions, and the promotion's claims. |
| `MCSubscriptionCheckout` | Instances for TLC. |
| `SubscriptionCheckoutProofs` | The cap of a promotion, and that its claims are redeemed for money and end once, by TLAPS. |
| `CalendarOutbox` | The outbound calendar: the outbox, its invocations, the local rows of events, Google. |
| `MCCalendarOutbox` | Instances for TLC. |
| `CalendarOutboxProofs` | That the lock's holder owns its job, an event never goes back and the mark `synced` is true, by TLAPS. |

Definitions whose comment begins with "Defect:" are the variants that the mutation
runs put in place of the definition that follows them. No action uses them.

### 2.1 CreditLedger

One salon; salons share nothing. `lots` are the positive ledger rows in creation
order (a lot is its number), `entries` the negative ones (debit, expiry,
reversal), each with its idempotency key; `reservation` and `held` are
`sms_credit_reservation` and its per-lot rows; `purchase` the top-ups; `account` the
cached balance with the instant it was computed at. `stripe` is external: the
cumulative refund amounts and disputes Stripe has announced, which the reversal
handlers may receive in any order, any number of times.

- *Granularity.* Each operation is a transaction that locks the account row first, so
  it is one action, its closing `recomputeCachedBalance` included. What is left of
  concurrency is the order of the transactions and their clocks: `now` is read in
  the process *before* the lock is granted, so each action takes an instant
  `t \in Clock` that lags behind `now` by up to `ClockLag`. The holds are
  judged, the sweep runs and lots expire at such instants.
- *Data.* Amounts are integers. Expiry instants are small numbers, `NoExpiry` stands
  for NULL. A sum of units is the cardinality of a set of unit tokens (`Total`), so
  that no recursion stands in the way of proofs.
- *Order.* The spending order (bucket rank, expiry, age) is the code's. Where the code reads
  rows with no ORDER BY (the refund arms) the order is a choice.
- *Left out.* The low-balance warning epoch; the reasons and actors of rows. Which lots
  are granted when (windows, starter, upgrade) is a component of its own: here they are
  `Grant`, lots that appear once under their own key at any time.
- Nothing in the repository calls `expireLapsedLots` outside its tests; it is modelled
  because it is part of the ledger's interface, and the properties hold with it.

### 2.2 CommunicationDispatch

`intent`, `delivery` and `reservation` are the tables, `worker` the invocations alive (with the
program counter, the batch, the job at hand and the instant the invocation began),
`callback` the status handlers under way, `provider` what Twilio or Resend received
and did (external).

- *Granularity.* Every database statement or transaction is an action, in the order of
  the code; between any two the lease may lapse, another invocation may run, a
  callback may land, and the invocation may die (`Crash`). All instants a worker writes
  or compares are the start of its invocation, as in the code.
- *Jobs.* A job is an intent and its attempt: the delivery and the reservation of an SMS
  are keyed by it, the delivery of an email by the intent alone. A reservation row is named
  by its job and the worker that inserted it.
- *The per-salon limit* of a claim is read from a control row in each invocation, so the claim takes any member of
  `SalonLimits`; the runs use the default of 1, the theorems hold for every set.
- *The claim* is three steps: the snapshot of the UPDATE picks rows, each is locked and its
  status compared again, and the rows are read back by id in a second statement.
- *Pre-checks.* Consent, control rows, rate limits, the appointment and the salon may answer
  anything. Only the template registry is fixed (`KnownTemplate`). The pre-checks'
  comparison of `notAfter` uses the same instant as the claim and is vacuous.
- *Merged.* The reaper's scan and release are one action: what could come in between, an
  insert of the delivery row by the owner of the hold, is past `RunLimit` by then. The
  late terminal-failure check reads a row and refunds in one action.
- *Callbacks* come in any order, repeated, for anything the provider has reported;
  `canceled` and `undelivered` count as `failed`.
- *Left out.* Low-balance notices, retention of bodies, the cost reconciliation it enqueues.
- *The credit account* is reduced to none, held, settled, released per reservation. `CreditLedger`
  is what stands behind each of those calls.

`TimeAssumption` says that two invocations that overlap are both gone before a
reservation they share lapses: the platform stops a function after five minutes, and
`RESERVATION_TTL_MS` is fifteen.

### 2.3 SubscriptionBilling

One salon and one Stripe subscription. `stripe` and `log` are external: the subscription as
Stripe has it (with its open invoices and the deliveries Stripe knows were answered 200)
and the events it created, an event's id being its place in the log. `inbox` is
`billing_stripe_event`, `handler` the invocation at work on an event with the
snapshot it carries, `sub` is `billing_subscription`, `window` is `billing_credit_window`, `lots` the
monthly rows of the credit ledger, `claim` the salon's promotion claim, and `reconcile`
the reconciliation run.

- *Granularity.* A webhook is not one transaction. The claim, the re-fetch from Stripe, the
  projection, the first insert (which no row lock can serialize), the recorded payment, the window
  engine and the outcome are actions of their own; the invocation may throw
  (`HandlerThrows`, then `FailBillingEvent`) or die (`HandlerDies`) before any of them.
  Deliveries come in any order, beside each other, and again.
- *Time.* The unit is the month: window n of anchor a is the month a + n. Handlers read their
  clock before their locks, so each action takes an instant that lags by up to `ClockLag`.
  That calendar months tile time (`creditWindows.ts`) is not checked here.
- *Event seconds.* `created` has the grain of a second; `SameSecond` lets two events share one.
- *The ledger's order.* Grants are rows under idempotency keys; the upgrade difference is computed from the rows
  that end with the window (`Granted`), as in `applyUpgradeDiff`. Their sum is the number of
  their unit tokens (`UnitsOf`), which the proofs can count without an induction.
- *Reconciliation.* Whether it finds a drift is a choice, since `cancel_at_period_end` (which it also
  compares) is not modelled.
- *Left out.* Events of other subscriptions, salons and modes; `cancel_at_period_end`; top-up, charge and
  session events (the first two are `CreditLedger`'s operations, the last is `ClaimEnds`, the
  checkout handlers seen from the claim); proration invoices, whose line periods would end early.
  `incomplete` stands for every status that is granted nothing new.

### 2.4 Deposits

One appointment and its deposit. `DepositHold` keeps the row pair (appointment status, deposit
status) and the Checkout Session, `DepositRefundCore` and `DepositRefund` the refund of a payment: the
row's refund columns, the refund objects Stripe has (external, with the idempotency key they were
made under) and the workers. `Deposits` composes them by instance and adds the actions that
move both sides: the sweeps' late checks and the webhook's settled and lost arms.

- *Granularity.* Each locked transaction is an action, each Stripe call one of its own. Between them the
  client may pay, the reaper may run, a booking may take the slot, the webhook may land, and the
  invocation may die. A crash, a lost answer and a provider failure are faults from one budget (`Faults`).
- *Two rows.* The other writers of the appointment refuse one that is `awaiting_payment`, so
  the rows move as a pair; `HoldsArePairs` shows they never come apart.
- *Refund.* A claim on the row (an attempt number and an epoch) admits one worker; a snapshot of what Stripe
  has precedes the write; the key of the write is the epoch's. `PoolSpent` is a bound: no further refund
  object is left to create. A worker of the lost side whose deposit is meanwhile marked paid does not
  stamp its refund: only the webhook or the sweep's `Discover` binds it.
- *Left out.* No-shows, forfeiture and the use of a deposit as credit; amount mismatches
  (`held_mismatch`); the gates on account and environment (an account that is not ready is a fault); duplicate and
  asynchronous sessions (deposits take cards only); the conflict flag, alerts, notices and audit rows; the leases
  of the sweep's other passes; `healStrandedDeposits`, which repairs a pair that `HoldPair` shows cannot occur; the expiry of
  Stripe's idempotency keys; the redispatch of an old epoch, which is refused without spending an
  attempt; `depositReconcile.ts`'s report of refunds, which writes nothing the others read.

### 2.5 SubscriptionCheckout

Several salons and one promotion with a cap. `attempt` and `claim` are the rows, `request` the
requests under way, `session` what Stripe has (external), `sub` what has been projected for a salon.

- *Granularity.* The route has two transactions around the Stripe call. The first is three actions, split at the lock
  of the promotion's counter row (begin and attempt, count, insert), because the count is read before the
  insert and only the lock keeps another salon out. A request that makes an attempt holds up the
  salon's other requests until it commits, which is the wait on the unique index of active attempts (`Making`); one that
  reuses a kept attempt writes nothing and holds up nobody. A crash inside the first transaction is a request that never began.
- *Names.* A session is named by the attempt's idempotency key, a request by the instant it arrived, which
  stands for the `expires_at` it computes.
- *Unique indexes* are not enforced by the model: `TypeOK` shows that the code never runs into them.
- *Events* reach a handler once: the inbox (2.3) is what makes that so. A subscription canceled
  with time left is `prepaid`.
- *Left out.* Promotions without a cap, offers, the top-up checkout, the failure of a session's retrieval,
  deletion of a salon, the expiry of Stripe's keys.

### 2.6 CalendarOutbox

One appointment in the future. `appointment` holds its sync columns and
its revision (`googleCalendarSyncRevision`), `mirror` the local row of each event, `google` (external) the events
with the revision they carry and their ETag, `wire` (external) the requests whose sender no longer listens,
`lock` the advisory lock of the appointment, `scan` the reconciliation between its reads and its insert.

- *Names.* A job is its dedupe key: kind, revision and, for repairs, the event, so that the outbox is a partial function and
  `onConflictDoNothing` is `Insert`. The id of a new event depends on the lifecycle alone (the last terminal deletion
  before the revision), so events are named by lane.
- *Granularity.* A change of the appointment with its job is one transaction, hence one action. A job passes through claim,
  preparation, the fence under the lock, every request to Google, and the finish, each an action; between any two
  the appointment may change, the invocation may fail, die or fall silent, a request may be lost or land later
  (`LoseAnswer`, `Land`, `Drop`).
- *The calendar.* Whether one is connected is a choice at each enqueue; a job that was enqueued without one and finds no linked event
  names none (`targeted`). `Evidence` is what tells the code that an earlier attempt may have reached Google: an attempt before
  this one, unless it only met the lock (`busy`).
- *The finish* is one transaction. When it throws, the job fails (`Fail` at an answer); when the finish of a failure throws because
  no calendar is named, the outer catch fails the row alone (`undone`). Any other error of that finish is
  a crash and a reclaim.
- *The scan* queues an event that it also finds at Google without the id of its active local row (`MirrorNamed`).
- *Locks.* The appointment's changes, the reclaim and the dispatch exclude one another by the lock, which goes with the session.
  A reclaim of a live invocation's job is possible after a silence, a fault, when the lock is free.
- *Time.* Leases and backoffs are not clocks: a job is claimed only when no request of it is under way, since
  both are longer than the request's timeout.
- *Google* writes with a new ETag, refuses a PATCH or a DELETE whose ETag is not the event's, and a POST whose
  id exists. The id of a deleted event is free again, as in the repository's own double of Google
  (`integrationOutbox.postgres.integration.test.ts:186-225`); the code takes 404 alone for absence, and what
  Google itself answers for an event it keeps as cancelled is outside the repository.
- *Left out.* The copies for administrators; legacy rows and their adoption; the inbound direction; snapshots of upserts, whose
  content is the revision here; `authoritativeTerminalDelete`; the lock of the event pair, which one
  appointment never contends for; the email, internal and Twilio jobs of the same table; the
  lanes' batches and backoff.

## 3. Runs

| Run | Instance | What it shows |
|---|---|---|
| `CreditLedger_messages` | two messages under one dedupe key, a grant that expires and one that does not, a clock that lags by one | `HoldsBacked`, and that the account implements `MessageCharge` |
| `CreditLedger_topups` | a top-up of 4 credits for 3 cents, a free credit, two messages of up to two segments, refunds in up to three steps, a dispute | `ReversalWithinEvidence`, `NeverAuthorizedBelowZero`, `CacheIsLedger`, `TypeOK` |
| `CommunicationDispatch_sms` | one SMS intent, two invocations, two attempts, five instants, under `FairSpec` | `AtMostOneSend`, `NeverReleasedAfterAcceptance`, `EvidenceAgrees`, `DeliveryNeverRegresses`, that the pipeline implements `SendOnce`, that every intent ends (`EveryIntentResolves`) and that abandoned holds come back (`AbandonedHoldsReturn`) |
| `CommunicationDispatch_email` | an email intent and an SMS one with an unknown template, of two salons, two invocations | giving one intent of a batch up does not disturb the other (`StatusTellsTruth`) |
| `SubscriptionBilling_grants` | three events of all types, one of them failing, dying and retried, two months, a lagging clock, the window route, a promotion claim | `ClaimedOnce`, `HistoryStands`, `ProtectionProven`, `TypeOK`, and that the windows implement `MonthlyAllowance` |
| `SubscriptionBilling_plans` | four events over three plans, beside the reconciliation | `UpgradeToppedUp` |
| `SubscriptionBilling_retries` | two events that may fail, die, share a second and repeat, under `FairSpec` | `RetriesEnd` |
| `Deposits_holds` | one hold from booking to its end, one worker, one fault, under `FairSpec` | `HoldPair`, `SlotExclusive`, `MoneyIsReal`, and that a hold ends (`HoldEnds`), a late payment is kept, refunded or shown to the owner (`LatePaymentSettles`) and a requested refund ends (`RequestResolves`) |
| `Deposits_refunds` | a deposit that is paid, two workers, two refunds, two epochs, one fault | `RowMatchesStripe`, `ClaimExclusive` |
| `SubscriptionCheckout_promotion` | two salons of two businesses, one place, two attempts and two claims, three instants | `LiveWithinCap`, `RedeemedIsPaid` |
| `CalendarOutbox_events` | three revisions (booked, edited or canceled, reactivated or canceled), two invocations, one attempt, one fault, under `FairSpec` | `LeaseIsHeld`, `SyncedIsTrue`, `RemoteNeverRegresses`, that an event of an appointment that is over leaves Google (`LinkedOrphansLeave`) and that `pending` ends unless no calendar is known (`PendingSettles`) |
| `CalendarOutbox_orphans` | booked and canceled, nothing fails | *violated*: finding 1 |

Properties that are false of the code are stated in the modules with the others. The configurations
`SubscriptionBilling_stuck`, `Deposits_arrows`, `CreditLedger_overdraw`, `CommunicationDispatch_abandoned`,
`SubscriptionBilling_revived`, `SubscriptionCheckout_twice` and `SubscriptionCheckout_founders` show one each, and are run by hand
(`tlc -config SubscriptionCheckout_twice.cfg MCSubscriptionCheckout`); section 5 says what they show.
`CalendarOutbox_retries` is `CalendarOutbox_events` with two attempts, and passes. `RefundNeverExceedsDebit`, `RequestedIsUnbound`,
`PaidStands` and `ClaimEndsOnce` are proved (section 4) and need no run.

*Bounds.* `MaxTime` bounds the clock, `MaxAttempts` the claims of an intent, `MaxLots` the
positive rows, `MaxSegments` the size of a message. The interactions need two of each
actor: two messages compete for one lot, two refund arms meet on one reservation, two
invocations meet on one intent (a third meets the same compare-and-set). Two attempts
let a job be recovered and sent again; three instants let a lease lapse, a window close and a
hold expire, in every order; five are used under fairness, so that nothing waits for the bound. A price of 3 cents for 4 credits makes the floor of
`G*R/A` inexact at both partial amounts (1 and 2 credits). Workers,
refund objects, salons and requests are interchangeable in the safety runs `Deposits_refunds`,
`SubscriptionCheckout_promotion` and some of the others, where symmetry is used; a run with a liveness property uses none.
`CHECK_DEADLOCK FALSE` is set because a bounded clock and bounded attempts really bring the models to an end.

For the subscription, `Breaks` and `Repeats` name the events whose invocations may fail and whose
deliveries repeat, `Listens` the event types, `Routes` the maintenance routes, `Starts` and
`LiveStatus` what Stripe's subscription may begin with and become. Three events are
an update between a first projection and a payment; four allow two upgrades after a grant.
Two attempts are enough to retry and to poison (the code's eight differ only in number). The two
months of the grants run let a window be missed, paid late or granted by a
lagging clock; the plans run stays within one month, where upgrades meet grants. The
plans run keeps `invoice.payment_failed` out, to stay small; the grants run has it.

For the deposits, the composition is too large for one run. `Deposits_holds` follows one hold from its
booking with one worker, one refund and one fault (416 thousand states); `Deposits_refunds` begins at a paid deposit
with two workers, two refund objects, two key epochs and a refund made in Stripe's Dashboard (2.4 million). What
two workers do to the lost side of a hold is covered by the theorems only. The attempt limits are small
(`MaxAttempts`, `PoisonAttempts`): the code's differ only in number. In the checkout run a
session lives shorter than a claim (0 and 1, in the code 55 minutes and 60), two salons of two businesses compete for
one place, and two attempts and claims let each be replaced once (2.6 million states up to symmetry). Two salons of one
business are covered by the theorem.

For the calendar, three revisions let an event be created, overtaken or deleted and wanted again, which needs a second
lane. With one attempt the one fault can make a failure final; a job that was reclaimed is tried again whatever
its attempts, as in the code. Two invocations meet on one job after a silence. A fourth revision is out of reach.

*Fairness.* `CronFairness` says only that time passes and that the cron, which
runs for ever, keeps running each housekeeping statement and the resolver. Nothing is assumed of the workers that
handle the messages: each may die anywhere. `Delivery` says that Stripe repeats a delivery until it is
answered 200, that backoffs pass, and that an invocation that lives goes on; it may
always die. Stripe gives up after some days, so what `RetriesEnd` adds is that the code does not
need that. The maintenance routes are not scheduled anywhere in the repository, so they get no fairness,
and no property says that a paid month must be granted. For deposits, Stripe redelivers until answered, the
reaper and the sweep are crons that keep running, and a payment that has begun succeeds or is declined. A crash
is a fault of the budget: after the last one the invocations run on. The client need not do anything. For the
calendar, invocations keep coming, each goes on unless it dies, each ends with a scan, and a request that nobody waits for
lands or is lost. The salon need not do anything.

## 4. Proofs

Checked by TLAPS, for every number of messages, salons, lots, workers, attempts, events, plans and instants.

**CreditLedgerProofs.** `LedgerInvariant` is the inductive invariant: the types, and

- lot keys are unique (the idempotency key of an appended row was not in the ledger);
- a message is debited under its own keys exactly if it settled (`SettledIsDebited`, `DebitIsSettled`);
- what the overprediction arm returned is recorded on the reservation row before the
  terminal arm computes what is left (`GivenBackWithin`, `OverpredictRecorded`), and a row
  the terminal arm touched is fenced (`TerminalFenced`).

`RefundNeverExceedsDebit` alone is not inductive: it says nothing of what the *rows* of a
reservation claim was returned, and the next refund is computed from them. With the
record of returns in the invariant each transaction preserves it, and `RefundsWithinDebits` follows. `TypeCorrect` is its first part.

**CreditBackingProofs.** Five theorems over that invariant. A sum is the number of its unit tokens, so what
the proofs need of sums (it grows with the set and with the amounts, splits over disjoint parts, survives a renaming) is about
the cardinality of finite sets and needs no induction.

- `CacheTellsLedger` (`CacheIsLedger`): a transaction either ends in the recomputation or touches nothing the balance is computed from.
- `AuthorizedAboveZero` (`NeverAuthorizedBelowZero`): only `Reserve` makes a hold, what the plan takes is free on an open
  lot, so the free credit falls by exactly the segments, which the availability check has set against the overhang.
- `HoldsStayBacked` (`HoldsBacked`) needs `PlacesInv`: every entry is on a lot, and a lot under a top-up's key is the
  one its purchase names. Without it a reversal could reach a lot no purchase owns. The sweep takes only what no hold covers,
  at whatever instant it believes it is.
- `ReversalsWithinEvidence` (`ReversalWithinEvidence`): each refund event writes the difference to a target that grows with
  the cumulative amount, so the total is the target of the largest amount handled, in any order; purchases share no lot.
- `LedgerChargesOnce` (`ImplementsMessageCharge`) is the refinement. Beyond the invariant it needs `PaidInv`: the rows of a reservation add
  up to its price, and its debits are exactly those rows once it settled. What the refund arms return then injects
  into what was debited.

**CommunicationDispatchProofs.** `TypeCorrect` needs that an invocation at a point of the
pipeline has the job and the hold that point is about (`PlacesFit`). `SentAtMostOnce`
rests on `AskInv`: an invocation that stands at the final check or at the provider call
owns an intent that has moved past `claimed`, was never asked for, and no
other invocation stands there for the same intent. The compare-and-set into `sending`
makes one owner; nothing returns an intent from `sending` to `pending`, which is why
recovery may requeue `claimed` and must only park `sending`.

**CommunicationEvidenceProofs.** One inductive invariant, `MessageInv == TypeInv /\ AskInv /\ TimeInv /\ EvidenceInv`, gives
four properties and the refinement:

- `TimeInv` is about the clocks of overlapping invocations. Two that may take up the same job began within `RunLimit` of each other
  (`ClocksClose`), and a hold outlasts each of them (`HoldsLast`), so the reaper never takes the hold from under a live
  invocation. This is where `TimeAssumption` is used, and the only place.
- `EvidenceInv` says what each invocation knows at each point of the pipeline (`WorkersFit`), that a delivery row past its
  insert has one owner (`OwnersApart`), and ties the row, its hold, its request and the intent together (`RowsFit`, `ChargesFit`,
  `LinksFit`). None of the four properties is inductive: each says what a finished step left behind, nothing of an
  invocation that stands before the next.
- `AcceptedIsNeverReleased`: who may release owns the row and has not reached the provider; the reaper meets no row that was sent.
- `RowsAgreeWithAccount`, `StatusIsTrue`: read off `EvidenceInv`.
- `RankNeverFalls`: a write that is not fenced by a rank is the owner's, on a row that is still `queued`.
- `PipelineSendsOnce` (`ImplementsSendOnce`): each action is one of `Once!Ask`, `Once!Charge`, `Once!GiveBack` for one intent, or
  a stutter. The abstract state counts holds over all attempts of an intent, so the proof needs that at most one of them is ever
  settled, which `ChargesFit` and at-most-one-send give.

**CommunicationDispatchProofs and CommunicationEvidenceProofs** are about the model's own account of four states; what
stands behind it is `CreditLedger`'s.

**SubscriptionBillingProofs.** Six theorems, from invariants that build on each other:

- `AttemptsAlone` (`ClaimedOnce`) rests on `InboxInv`: an invocation is at work only on a row in
  `processing`. A delivery can claim a row only in `none` or `failed_retryable`, so no invocation is
  left from an earlier attempt, whoever threw or died.
- `ProvenStands` (`HistoryStands`) rests on `BillingInv`: the types, that an invocation at a step has
  an event with the body that step reads (`Fits`), and that nothing is paid or protected before the row exists
  (`NothingPaidBefore`). The last is what makes the first insert harmless: paid time and the
  protection have no value it could overwrite. Every writer of the row replaces it by one that
  keeps what is proven (`RowReplaced`), and the engine and the top-up only add lots.
- `ProtectionHasEvidence` (`ProtectionProven`) adds `Evidence`: every invoice ends after time 0, so
  a payment event in the log means that Stripe was paid. `ApplyInvoicePaymentSucceeded` is the only
  step that starts the clock (`PaymentProtects`), and a redeemed claim is final.

- `AllowanceInv` says where things come from. `StripeReal` and `HandlersReal`: a payment event ends no later than what Stripe was paid,
  a snapshot at work is of a subscription that began, and a row that can be claimed has an attempt left. `RowReal`: the row names offers of the
  catalogue, a parked offer is not bigger than the one in force, and paid time is the anchor or was paid. `AccountReal`: a granted
  window has begun, is not ahead of the cursor and was paid to its end; every lot belongs to a granted window and ends with it; and
  the month of a lot has the allowance of the plan its key names. Each step changes the row, the windows and the ledger in one of
  four ways (`AccountChanges`), and each of these has its lemma.
- `BillingTypes` (`TypeOK`) is read off it.
- `AllowanceImplemented` (`ImplementsMonthlyAllowance`) is the refinement. The engine meets an open window, and a lot that ended with it
  would belong to a granted one, so it grants a month that has nothing (`EvaluationAccount`). A top-up adds just what is missing,
  or its key is in use and the month has that allowance already (`DiffAccount`). `Grows` is then the abstract
  `Grant`; only Stripe's payments are `Pay` and only the clock is `Pass`.
- `UpgradesAreToppedUp` (`UpgradeToppedUp`) has the hypothesis `ClockLag = 0`, without which it is false (section 5). Only
  upgrades and invoices change the offer; the first are topped up at once, the second apply a parked offer, which is not bigger.

But for that one all hold for every lag, term and catalogue that `BillingAssumption` allows.

**DepositsProofs.** `IInv == Typed /\ Known /\ Claims /\ Control`, from `Init` and from the start of an ended hold
(`SettledSpec`), for any number of workers, refunds, epochs and faults:

- `Known`: what the row and the workers' snapshots believe of Stripe is so, and stays so, because a payment is not unmade
  and a refund's failure is final. It gives `RowMatchesStripe`, `MoneyIsReal` and `RequestedIsUnbound`, which alone
  say nothing of a worker that carries a snapshot past a claim of another.
- `Claims`: the number a worker holds is at most the row's, and distinct in its epoch. An attempt that reached nothing gives its
  number back, which would let the next one repeat it; the invariant says that whoever gives it back leaves. `ClaimExclusive` follows.
- `Control`: the two rows move together; whatever has begun on the lost side goes back to a paid session; while the session is being
  created there is none. `HoldPair`, `SlotExclusive` and `PaidStands` follow.

**SubscriptionCheckoutProofs.** `Inductive` is the invariant: the types, one active attempt per salon, one live claim per
business, the cap, and what ties them to a request in the middle of its transaction. At most one request stands between the count
and the commit (`OneCounts`), and what it counted still holds (`RoomLeft`): live claims only become fewer, except by
the insert, which takes a place that was counted. `RedeemedIsPaid` needs that a claim's attempt has the session the claim
was bound to (`ClaimsFit`, `AttemptsFit`). `OneSubscription` and `FoundersWithinCap` cannot be proved: the code does not have them (section 5).

**CalendarOutboxProofs.** `Typed` gives `TypeCorrect`; that a lane exists at all (`LaneAt`) rests on the well-foundedness of
the naturals. `LeaseHeld` needs `Control`: no invocation's attempt is ahead of its row's (`Behind`), no two
invocations have the same attempt of one job (`Lone`), and the lock is held exactly while Google is asked (`Locked`).
A finish that is not the holder's is then about another row, since two owners of one row would have the
same attempt. `NeverRegresses` needs `Fresh`: under the etag that a writer, or a PATCH still on its way, carries, the event is not newer
than the job. Every write changes the etag, so what was true when the event was read stays true or the
write is refused. These two hold for any number of faults.

`MarkIsTrue` is `[](faults <= 1 => SyncedIsTrue)`, for any `MaxFaults`. Its invariant, `Inv == Sound /\ Flawless /\ Truthful`, follows what is on its way to Google:

- `Sound` adds to the above what holds for any number of faults: one job in `processing` (`Single`), so that its one owner is alone to record
  and to ask Google (`OwnerRecords`, `OwnerAsks`); jobs and events not ahead of the appointment (`JobsRevised`, `EventsRevised`); what was
  checked under the lock stays so under it (`Fenced`); a sync never deletes and a deletion stays at its event (`Aimed`).
- `Flawless`, while nothing has gone wrong: no request is late, what was deleted is away, and where Google shows the latest revision that is
  recorded, or its owner is about to record it (`Shown`).
- `Truthful`, until two things have: the mark is true (`Marked`), an owner about to report success left the latest revision at Google (`Told`), one
  about to report a deletion did not delete the marked event (`Gone`), and a late DELETE that Google would carry out spares the latest revision (`LateDelete`).

`Flawless` is what the first fault finds, and makes `LateDelete` hold after it. Two faults break it: an invocation falls silent
between writing the event and recording it; the cleanup that follows does not see the event as the appointment's, and its DELETE's answer is lost; the
sync is retried and marks `synced`; the DELETE lands. The statement is therefore about one fault (section 5 notes the case of two).

The proofs assume `GrantAssumption`, `NumbersAssumption`, `ReservationAssumption`,
`IntentAssumption`, `TimeAssumption`, `BillingAssumption`, `CheckoutAssumption`, `MaxFaultsAssumption`, `LimitsAssumption`,
`EndedAssumption` and `OutboxAssumption`, each evaluated by TLC in the runs.

*Only model-checked:*

- Liveness, all of it, which is out of TLAPS's reach: `EveryIntentResolves`, `AbandonedHoldsReturn`, `RetriesEnd`, `HoldEnds`, `LatePaymentSettles`,
  `RequestResolves`, `LinkedOrphansLeave`, `PendingSettles`.

## 5. Findings

1. *An event that outlives its appointment* (`integrationOutbox.ts:3461`, run `CalendarOutbox_orphans`). The event is
   created, and before the answer is recorded the appointment is canceled. The cancellation knows no event and
   enqueues nothing. The scan finds the event by its private metadata and queues the repair, but the repair is found moot,
   since the appointment names no event and no local row does, and its dedupe key blocks another. The sync's own finish
   sees the repair as newer and queues no cleanup. The same happens after a crash between create and finish.
   The comment at `integrationOutbox.ts:4290` says that just these events are repaired.

Seen in the models as well; the first seven have a configuration to be run by hand:

- An event may stay `processing` for ever (`billingStripeEvents.ts:91`, `SubscriptionBilling_stuck`). An invocation that dies after its claim is
  never succeeded: only `failed_retryable` rows are reclaimed, and every redelivery is answered 200.
- A deposit kept and refunded (`confirmDepositPayment.ts:707`, `Deposits_arrows`). The webhook's settled arm does not
  look at the refund columns: with the booking reactivated, a sweep that has begun to refund the late payment goes on beside it.
- A refund reversal ignores holds (`creditGrants.ts:470`, `CreditLedger_overdraw`). It is capped at what is unspent, held segments included; the
  settle that follows overdraws the lot with no dispute. `docs/luster-billing-communications-rev-2-2.md:197` reserves negative lots for disputes.
- An abandoned hold may never return (`creditReservation.ts:462`, `CommunicationDispatch_abandoned`). The reaper spares every hold with a
  delivery row in `settling`, which is written before the intent moves to `sending`. An invocation that dies in between leaves the hold for ever.
- A delayed payment revives a canceled subscription (`billingSubscriptionProjection.ts:211`, `SubscriptionBilling_revived`). The status is set to
  `active` unconditionally, and no later event corrects it.
- Two payable sessions of one salon (`SubscriptionCheckout_twice`). A second click, or a retry after a lost answer, carries another `expires_at` under
  the same idempotency key; Stripe refuses it, the attempt is failed, and the next one opens a session beside the
  first. `checkout/route.ts:26-28` says that a double-click cannot mint a second session. The slot is also free from
  `checkout.session.completed` until the subscription is projected.
- More founders than places (`SubscriptionCheckout_founders`). An attempt that is reused near its end opens a session that outlives
  its claim; the place is given again while the first can still be paid (`checkout/route.ts:31-34`).
- With two faults a calendar mark may be false: the DELETE of a cleanup whose answer was lost lands after the
  sync of an invocation that had fallen silent was retried and marked `synced`, and `integrationOutbox.ts:3667` relies on ETags and stable ids alone.
- An appointment booked with no calendar connected can never sync once an attempt was made, also after one is connected and the appointment edited:
  evidence without a calendar is `PROVIDER_IDENTITY_AMBIGUOUS` (`integrationOutbox.ts:3190-3206`) in that lifecycle.
- A last attempt that ends before a calendar is known fails silently: the enqueue of its cleanup throws
  (`integrationOutbox.ts:1940`), the catch at `:4089` fails the row, and the appointment stays `pending`. `PendingSettles` leaves this out (`NoCalendar`).
- A reactivated booking whose late payment arrives is refunded by the sweep (`depositReconcile.ts:459`), though
  `confirmDepositPayment.ts:782` says that the salon keeps the deposit.
- Retiring the stored refund while the row is pending leaves the row pending with no refund object.
- With two faults the same key replays a dead refund instead of creating a fresh one.
- An owner's retry may bump the epoch while a worker refreshes its snapshot, so the worker writes under an epoch whose write-ahead row it did not see.
- A session that Stripe calls `complete` is left standing past the reaper's backstop (`depositHoldReaper.ts:30-37` says "regardless").
- Refund webhooks are ignored while `stripePaymentIntentId` is not stored.
- The resolver settles the hold and adopts the intent and leaves the delivery `settling`; the status
  route refunds only `settled` rows, so the failure of an adopted message is never refunded (`unknownOutcomeResolver.ts:79`).
- A stale invocation's suppression is accepted in `sending`, after the provider was asked (`communicationIntent.ts:206`).
- The last check of `notAfter` compares with the start of the invocation (`communicationDispatcher.ts:330`).
- Two intents of one salon may be in flight; the gate is read in the statement's snapshot (`communicationIntent.ts:154`).
- A redelivery that meets the event in flight is answered 200, so Stripe does not retry the failure that follows (`webhooks/stripe-billing/route.ts:109`).
- Any invoice applies a parked downgrade, also a delayed one of the running period (`billingSubscriptionProjection.ts:219`).
- `invoice.payment_failed` writes the watermark of the subscription events, up or down (`:291`).
- A `created` event of the same second overwrites a newer state with its body (`route.ts:204`), and of two concurrent first
  projections the second insert does nothing, whichever is newer (`:124`).
- A reconciliation's repair may be undone by an older event whose own re-fetch fails (`reconcile/route.ts:109`); the next event heals it.
- With a clock read before a month's end, an upgrade finds the cursor in the next window and tops up nothing (`creditGrants.ts:278`),
  which is why `UpgradeToppedUp` is checked without lag.

## 6. Plan

Done: 1 `CreditLedger`, 2 `CommunicationDispatch`, 3 `SubscriptionBilling` (the event inbox and
the projection), 4 `SubscriptionCheckout` (attempts and promotion claims), 5 `Deposits` (hold and refund), each with
its theorems, 6 `CalendarOutbox` (the outbound calendar).

Next, in this order:

7. `BookingSlots`, `ApprovalRequest`; the other lanes of the outbox, and the calendar's copies for administrators.
8. `CreditWindows`: the calendar arithmetic of windows as functions against a reference
   definition; quiet hours likewise; the inbox's top-up and charge events, with purchases looked up by payment intent.
9. Composition: the dispatcher with the ledger instead of the four-state reservation.

## 7. Not modelled

Money totals, taxes, pricing rules, the catalogue resolver and Smart Fit are pure
functions with their own golden tests. Views, authentication and reporting keep no
protocol state. The inbound calendar and image storage need a model of their providers first. `PROJECT.json`
lists every component with its reason.
