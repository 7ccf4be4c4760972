------------------------ MODULE SubscriptionBilling ------------------------
(***************************************************************************)
(* Subscription billing of one salon: the inbox of Stripe events with its  *)
(* claims, retries and poison pill, the handlers that project a Stripe     *)
(* subscription into billing_subscription, the engine that grants monthly  *)
(* credit windows, and the two maintenance routes.                         *)
(*                                                                         *)
(* The unit of `now' is the month: window n of an anchor a is the instant  *)
(* a + n, and the half-open window [a + n, a + n + 1) ends with it.  That  *)
(* calendar months tile time this way is what CreditWindows is about.      *)
(*                                                                         *)
(* A handler is not one transaction: each transaction or call to Stripe is *)
(* an action, and the invocation may throw or die between any two.         *)
(***************************************************************************)
EXTENDS Integers, Sequences, FiniteSets

CONSTANTS
  Offer,              \* offers a subscription's metadata may name
  Catalogue,          \* BILLING_OFFERS: those the code knows
  Plan,
  PlanOf,             \* [Catalogue -> Plan]
  MonthlySmsCredits,  \* [Plan -> Nat]
  Term,               \* months of one billing period
  Promoted,           \* whether the subscription carries a promotion
  Listens,            \* event types the endpoint is sent
  Routes,             \* maintenance routes that are called: "windows", "reconcile"
  MaxAttempts,        \* BILLING_EVENT_MAX_ATTEMPTS
  ClockLag,           \* how far a handler's clock may lag
  SameSecond,         \* whether Stripe may create two events in one second
  LiveStatus,         \* bound: the live statuses Stripe reports; `incomplete'
                      \* stands for all those that are granted nothing new
  Starts,             \* bound: the offers a subscription begins with
  Breaks,             \* bound: events whose invocations may throw or die
  Repeats,            \* bound: events delivered when they cannot be claimed
  MaxEvents,          \* bound: events Stripe creates
  MaxTime             \* bound: the clock

EventType ==
  {"subscription.created", "subscription.updated", "subscription.deleted",
   "invoice.payment_succeeded", "invoice.payment_failed"}

Event == 1..MaxEvents

ASSUME BillingAssumption ==
  /\ Catalogue \subseteq Offer /\ Starts \subseteq Offer
  /\ PlanOf \in [Catalogue -> Plan]
  /\ MonthlySmsCredits \in [Plan -> Nat]
  /\ Term \in Nat \ {0} /\ MaxAttempts \in Nat \ {0} /\ ClockLag \in Nat
  /\ MaxEvents \in Nat /\ MaxTime \in Nat
  /\ Promoted \in BOOLEAN /\ SameSecond \in BOOLEAN
  /\ Listens \subseteq EventType
  /\ Routes \subseteq {"windows", "reconcile"}
  /\ LiveStatus \subseteq {"active", "past_due", "incomplete"}
  /\ Breaks \subseteq Event /\ Repeats \subseteq Event

VARIABLES
  now,
  stripe,     \* external: the subscription, its open invoices, the delivery receipts
  log,        \* external: the events Stripe created; an event's id is its place
  inbox,      \* billing_stripe_event: [status, attempts, due]
  handler,    \* the invocation at work on an event: [pc, snapshot]
  sub,        \* billing_subscription
  window,     \* billing_credit_window per cycle index
  lots,       \* monthly rows of sms_credit_ledger
  claim,      \* billing_promotion_claim of the salon
  reconcile   \* the reconciliation run: [pc, watermark, snapshot]

vars == <<now, stripe, log, inbox, handler, sub, window, lots, claim, reconcile>>

Cycle == 0..MaxTime
Never == -1                    \* a NULL instant
NoOffer == "none"
NoSnapshot == [status |-> "none", offer |-> NoOffer, start |-> Never]
NoHandler == [pc |-> "idle", snapshot |-> NoSnapshot]
NoSubscription ==
  [exists |-> FALSE, status |-> "none", offer |-> NoOffer, pending |-> NoOffer,
   paidThrough |-> Never, anchor |-> Never, cursor |-> 0, nextGrantAt |-> Never,
   lastEventCreated |-> Never, protectedFrom |-> Never]

Credits(offer) == MonthlySmsCredits[PlanOf[offer]]
Later(a, b) == IF a >= b THEN a ELSE b
Clock == {t \in 0..now : now - t <= ClockLag}

(***************************************************************************)
(* Stripe.  Event times have the grain of a second and say nothing about   *)
(* the order of events within it.                                          *)
(***************************************************************************)
Authoritative == [status |-> stripe.status, offer |-> stripe.offer, start |-> stripe.start]
Seconds == {stripe.second + 1} \cup (IF SameSecond THEN {stripe.second} ELSE {})

Emit(type, second, body) ==
  /\ type \in Listens
  /\ Len(log) < MaxEvents
  /\ log' = Append(log, [type |-> type, created |-> second, body |-> body])

StripeCreates(second, status, offer) ==
  /\ stripe.status = "none"
  /\ stripe' = [stripe EXCEPT !.status = status, !.offer = offer, !.start = now,
                              !.second = second,
                              !.invoices = {[end |-> now + Term]}]
  /\ Emit("subscription.created", second, Authoritative')

StripeUpdates(second, status, offer) ==
  /\ stripe.status \notin {"none", "canceled"}
  /\ stripe' = [stripe EXCEPT !.status = status, !.offer = offer, !.second = second]
  /\ Emit("subscription.updated", second, Authoritative')

StripeDeletes(second) ==
  /\ stripe.status \notin {"none", "canceled"}
  /\ stripe' = [stripe EXCEPT !.status = "canceled", !.second = second]
  /\ Emit("subscription.deleted", second, Authoritative')

\* A new period begins and is invoiced.
StripeRenews ==
  /\ stripe.status \notin {"none", "canceled"}
  /\ stripe.start + Term <= now
  /\ LET start == stripe.start + Term IN
     stripe' = [stripe EXCEPT !.start = start,
                              !.invoices = @ \cup {[end |-> start + Term]}]
  /\ UNCHANGED log

StripeIsPaid(second, invoice) ==
  /\ invoice \in stripe.invoices
  /\ stripe' = [stripe EXCEPT !.invoices = @ \ {invoice}, !.second = second,
                              !.paid = Later(@, invoice.end)]
  /\ Emit("invoice.payment_succeeded", second, invoice)

StripeIsNotPaid(second) ==
  /\ stripe.invoices # {}
  /\ stripe' = [stripe EXCEPT !.second = second]
  /\ Emit("invoice.payment_failed", second, NoSnapshot)

(***************************************************************************)
(* The inbox.  Stripe repeats a delivery until it is answered 200, and may *)
(* repeat it after that.                                                   *)
(***************************************************************************)
Terminal == {"processed", "held_anomaly", "poisoned"}

\* Defect: a row still in `processing' is claimed again.
ClaimableInFlight(e) == inbox[e].status \notin Terminal
Claimable(e) ==
  \/ inbox[e].status = "none"
  \/ inbox[e].status = "failed_retryable" /\ inbox[e].due

FirstStep(type) ==
  CASE type \in {"subscription.created", "subscription.deleted"} -> "project"
    [] type = "subscription.updated"      -> "retrieve"
    [] type = "invoice.payment_succeeded" -> "pay"
    [] type = "invoice.payment_failed"    -> "past_due"

\* Defect: a reclaimed event does not count its attempts.
ClaimUncounted(e) ==
  /\ Claimable(e)
  /\ inbox' = [inbox EXCEPT ![e] = [status |-> "processing", attempts |-> 1, due |-> FALSE]]
  /\ handler' = [handler EXCEPT ![e] =
       [pc |-> FirstStep(log[e].type), snapshot |-> log[e].body]]
  /\ UNCHANGED <<now, stripe, log, sub, window, lots, claim, reconcile>>

ClaimBillingEvent(e) ==
  /\ Claimable(e)
  /\ inbox' = [inbox EXCEPT ![e] =
       [status |-> "processing", attempts |-> @.attempts + 1, due |-> FALSE]]
  /\ handler' = [handler EXCEPT ![e] =
       [pc |-> FirstStep(log[e].type), snapshot |-> log[e].body]]
  /\ UNCHANGED <<now, stripe, log, sub, window, lots, claim, reconcile>>

\* Already processed, in flight, or failed and not due yet: 200.
Deduplicate(e) ==
  /\ e \in Repeats
  /\ ~Claimable(e)
  /\ stripe' = [stripe EXCEPT !.acknowledged = @ \cup {e}]
  /\ UNCHANGED <<now, log, inbox, handler, sub, window, lots, claim, reconcile>>

Deliver(e) ==
  /\ e \in DOMAIN log
  /\ ClaimBillingEvent(e) \/ Deduplicate(e)

\* available_at comes: 60s * 2^(attempts - 1) have passed.
BackoffPasses(e) ==
  /\ inbox[e].status = "failed_retryable" /\ ~inbox[e].due
  /\ inbox' = [inbox EXCEPT ![e].due = TRUE]
  /\ UNCHANGED <<now, stripe, log, handler, sub, window, lots, claim, reconcile>>

At(e, pc) == handler[e].pc = pc
Goto(e, pc) == handler' = [handler EXCEPT ![e].pc = pc]

\* The handler's outcome is recorded, then 200.
ResolveBillingEvent(e, status) ==
  /\ At(e, status) /\ status \in {"processed", "held_anomaly"}
  /\ inbox' = [inbox EXCEPT ![e].status = status]
  /\ handler' = [handler EXCEPT ![e] = NoHandler]
  /\ stripe' = [stripe EXCEPT !.acknowledged = @ \cup {e}]
  /\ UNCHANGED <<now, log, sub, window, lots, claim, reconcile>>

\* Defect: one attempt too many.
ExhaustedLate(e) == inbox[e].attempts > MaxAttempts
Exhausted(e) == inbox[e].attempts >= MaxAttempts

\* The eighth failure poisons and is answered 200, the others 500.
FailBillingEvent(e) ==
  /\ At(e, "fail")
  /\ handler' = [handler EXCEPT ![e] = NoHandler]
  /\ IF Exhausted(e)
     THEN /\ inbox' = [inbox EXCEPT ![e].status = "poisoned"]
          /\ stripe' = [stripe EXCEPT !.acknowledged = @ \cup {e}]
     ELSE /\ inbox' = [inbox EXCEPT ![e].status = "failed_retryable"]
          /\ UNCHANGED stripe
  /\ UNCHANGED <<now, log, sub, window, lots, claim, reconcile>>

\* The database refuses any of the steps, the last one included: the
\* transaction of the step is undone, those before it stand.
HandlerThrows(e) ==
  /\ e \in Breaks
  /\ handler[e].pc \notin {"idle", "fail"}
  /\ Goto(e, "fail")
  /\ UNCHANGED <<now, stripe, log, inbox, sub, window, lots, claim, reconcile>>

HandlerDies(e) ==
  /\ e \in Breaks
  /\ handler[e] # NoHandler
  /\ handler' = [handler EXCEPT ![e] = NoHandler]
  /\ UNCHANGED <<now, stripe, log, inbox, sub, window, lots, claim, reconcile>>

(***************************************************************************)
(* Projection of a subscription snapshot.                                  *)
(***************************************************************************)
\* Only `updated' is fetched again; if Stripe does not answer, the body will do.
RetrieveSubscription(e) ==
  /\ At(e, "retrieve")
  /\ \E snapshot \in {Authoritative, log[e].body} :
       handler' = [handler EXCEPT ![e] = [pc |-> "project", snapshot |-> snapshot]]
  /\ UNCHANGED <<now, stripe, log, inbox, sub, window, lots, claim, reconcile>>

\* What lots that end together add up to: the number of their units.
UnitsOf(S) == UNION {{lot} \X (1..lot.units) : lot \in S}
Granted(end) == Cardinality(UnitsOf({lot \in lots : lot.until = end}))
LotKeys == {lot.key : lot \in lots}

\* ON CONFLICT (idempotency_key) DO NOTHING; nothing is granted for zero units.
AppendLotGrant(key, units, until) ==
  lots' = IF units = 0 \/ key \in LotKeys THEN lots
          ELSE lots \cup {[key |-> key, units |-> units, until |-> until]}

\* Defect: one top-up per window.
DiffKeyOfWindow(from, to) == <<"upgrade-diff", sub.cursor>>
DiffKey(from, to) == <<"upgrade-diff", sub.cursor, from, to>>

\* Tops an already granted current window up to the new plan's allowance.
ApplyUpgradeDiff(from, to, t) ==
  LET start == sub.anchor + sub.cursor
  IN IF t = start /\ window[sub.cursor].status = "granted"
     THEN AppendLotGrant(DiffKey(from, to),
                         Later(0, MonthlySmsCredits[to] - Granted(start + 1)), start + 1)
     ELSE UNCHANGED lots

\* A bigger plan applies at once, anything else is parked as the pending offer.
UpdateSubscription(snapshot, created, t) ==
  LET changed == snapshot.offer # sub.offer
      upgrade == changed /\ Credits(snapshot.offer) > Credits(sub.offer)
  IN /\ sub' = [sub EXCEPT
          !.status = snapshot.status,
          !.lastEventCreated = created,
          !.offer = IF upgrade THEN snapshot.offer ELSE @,
          !.pending = IF upgrade THEN NoOffer ELSE IF changed THEN snapshot.offer ELSE @]
     /\ IF upgrade
        THEN ApplyUpgradeDiff(PlanOf[sub.offer], PlanOf[snapshot.offer], t)
        ELSE UNCHANGED lots

Stale(created) == created < sub.lastEventCreated

ProjectSubscriptionSnapshot(e, t) ==
  LET snapshot == handler[e].snapshot IN
  /\ At(e, "project")
  /\ IF snapshot.offer \notin Catalogue
     THEN Goto(e, "held_anomaly") /\ UNCHANGED <<sub, lots>>
     ELSE IF ~sub.exists
     THEN Goto(e, "insert") /\ UNCHANGED <<sub, lots>>
     ELSE /\ Goto(e, "processed")
          /\ IF Stale(log[e].created) THEN UNCHANGED <<sub, lots>>
             ELSE UpdateSubscription(snapshot, log[e].created, t)
  /\ UNCHANGED <<now, stripe, log, inbox, window, claim, reconcile>>

\* No row was there to lock, so another insert may have come first: that one
\* stays and this snapshot is dropped.
InsertSubscription(e) ==
  LET snapshot == handler[e].snapshot IN
  /\ At(e, "insert")
  /\ sub' = IF sub.exists THEN sub
            ELSE [NoSubscription EXCEPT
                    !.exists = TRUE, !.status = snapshot.status, !.offer = snapshot.offer,
                    !.paidThrough = snapshot.start, !.anchor = snapshot.start,
                    !.lastEventCreated = log[e].created]
  /\ Goto(e, "processed")
  /\ UNCHANGED <<now, stripe, log, inbox, window, lots, claim, reconcile>>

(***************************************************************************)
(* Invoices.                                                               *)
(***************************************************************************)
\* The first paid activation redeems the reserved claim and starts the clock
\* of the rate protection; a claim the checkout redeemed is evidence as well.
\*
\* Defect: the promotion key of the subscription is enough.
ProtectsWithoutClaim == Promoted /\ sub.protectedFrom = Never
Protects == Promoted /\ sub.protectedFrom = Never /\ claim \in {"reserved", "redeemed"}

\* Defect: the end of the invoice at hand, later or not.
LatestInvoice(end) == end
PaidThrough(end) == Later(sub.paidThrough, end)

\* Deliberately not advanced.
Watermark(e) == sub.lastEventCreated

ApplyInvoicePaymentSucceeded(e, t) ==
  /\ At(e, "pay")
  /\ IF ~sub.exists
     THEN Goto(e, "fail") /\ UNCHANGED <<sub, claim>>
     ELSE /\ Goto(e, "evaluate")
          /\ sub' = [sub EXCEPT
               !.status = "active",
               !.paidThrough = PaidThrough(log[e].body.end),
               !.offer = IF sub.pending # NoOffer THEN sub.pending ELSE @,
               !.pending = NoOffer,
               !.lastEventCreated = Watermark(e),
               !.protectedFrom = IF Protects THEN t ELSE @]
          /\ claim' = IF Protects /\ claim = "reserved" THEN "redeemed" ELSE claim
  /\ UNCHANGED <<now, stripe, log, inbox, window, lots, reconcile>>

ApplyInvoicePaymentFailed(e) ==
  /\ At(e, "past_due")
  /\ sub' = IF sub.exists
            THEN [sub EXCEPT !.status = "past_due", !.lastEventCreated = log[e].created]
            ELSE sub
  /\ Goto(e, "processed")
  /\ UNCHANGED <<now, stripe, log, inbox, window, lots, claim, reconcile>>

(***************************************************************************)
(* The window engine, one transaction: from the cursor on, windows that    *)
(* ended without a grant are recorded as missed; the active one is granted *)
(* if it is paid to its end and otherwise recorded as unpaid.              *)
(***************************************************************************)
GRANT_ELIGIBLE_STATUSES == {"active", "past_due", "canceled"}

\* Defect: equality with the start of the window is enough.
StartIsPaid(n) == sub.paidThrough >= sub.anchor + n
IsWindowFullyPaid(n) == sub.paidThrough >= sub.anchor + n + 1

Open(n) == window[n].status \in {"none", "skipped_unpaid"}
Recorded(n, status) ==
  [status |-> status,
   plan |-> IF window[n].status = "none" THEN PlanOf[sub.offer] ELSE window[n].plan]

EvaluateSubscriptionWindows(t) ==
  LET active == t - sub.anchor
      plan == PlanOf[sub.offer]
      grants == Open(active) /\ IsWindowFullyPaid(active)
  IN IF sub.status \in GRANT_ELIGIBLE_STATUSES /\ active >= sub.cursor
     THEN /\ window' = [n \in Cycle |->
               IF n \in sub.cursor..(active - 1) /\ Open(n) THEN Recorded(n, "skipped_missed")
               ELSE IF n = active /\ grants THEN Recorded(n, "granted")
               ELSE IF n = active /\ Open(n) THEN Recorded(n, "skipped_unpaid")
               ELSE window[n]]
          /\ IF grants
             THEN AppendLotGrant(<<"monthly-grant", active, plan, plan>>,
                                 MonthlySmsCredits[plan], t + 1)
             ELSE UNCHANGED lots
          /\ sub' = [sub EXCEPT !.cursor = active, !.nextGrantAt = t + 1]
     ELSE UNCHANGED <<sub, window, lots>>

EvaluateAfterPayment(e, t) ==
  /\ At(e, "evaluate")
  /\ EvaluateSubscriptionWindows(t)
  /\ Goto(e, "processed")
  /\ UNCHANGED <<now, stripe, log, inbox, claim, reconcile>>

(***************************************************************************)
(* The maintenance routes.  Neither is scheduled: they run when called.    *)
(***************************************************************************)
EvaluateWindowsRoute(t) ==
  /\ "windows" \in Routes
  /\ sub.exists
  /\ sub.status \in GRANT_ELIGIBLE_STATUSES
  /\ sub.nextGrantAt <= t
  /\ EvaluateSubscriptionWindows(t)
  /\ UNCHANGED <<now, stripe, log, inbox, handler, claim, reconcile>>

NoReconciliation == [pc |-> "idle", watermark |-> Never, snapshot |-> NoSnapshot]

ReconcileReads ==
  /\ "reconcile" \in Routes
  /\ reconcile.pc = "idle" /\ sub.exists
  /\ reconcile' = [NoReconciliation EXCEPT !.pc = "retrieve", !.watermark = sub.lastEventCreated]
  /\ UNCHANGED <<now, stripe, log, inbox, handler, sub, window, lots, claim>>

\* Stripe does not answer or nothing has drifted; otherwise the drift, of the
\* status or of cancel_at_period_end, is repaired from what Stripe says now.
ReconcileRetrieves ==
  /\ reconcile.pc = "retrieve"
  /\ \/ reconcile' = NoReconciliation
     \/ reconcile' = [reconcile EXCEPT !.pc = "project", !.snapshot = Authoritative]
  /\ UNCHANGED <<now, stripe, log, inbox, handler, sub, window, lots, claim>>

\* Under the watermark it read, not under a new one.
ReconcileProjects(t) ==
  /\ reconcile.pc = "project"
  /\ reconcile' = NoReconciliation
  /\ IF reconcile.snapshot.offer \notin Catalogue \/ Stale(reconcile.watermark)
     THEN UNCHANGED <<sub, lots>>
     ELSE UpdateSubscription(reconcile.snapshot, reconcile.watermark, t)
  /\ UNCHANGED <<now, stripe, log, inbox, handler, window, claim>>

\* The checkout handlers redeem the claim or give it up.
ClaimEnds(status) ==
  /\ claim = "reserved"
  /\ claim' = status
  /\ UNCHANGED <<now, stripe, log, inbox, handler, sub, window, lots, reconcile>>

Tick ==
  /\ now < MaxTime
  /\ now' = now + 1
  /\ UNCHANGED <<stripe, log, inbox, handler, sub, window, lots, claim, reconcile>>

Init ==
  /\ now = 0
  /\ stripe = [status |-> "none", offer |-> NoOffer, start |-> Never, second |-> 0,
               invoices |-> {}, paid |-> 0, acknowledged |-> {}]
  /\ log = << >>
  /\ inbox = [e \in Event |-> [status |-> "none", attempts |-> 0, due |-> FALSE]]
  /\ handler = [e \in Event |-> NoHandler]
  /\ sub = NoSubscription
  /\ window = [n \in Cycle |-> [status |-> "none", plan |-> "none"]]
  /\ lots = {}
  /\ claim \in IF Promoted THEN {"none", "reserved"} ELSE {"none"}
  /\ reconcile = NoReconciliation

Stripe ==
  /\ \E second \in Seconds :
       \/ \E status \in LiveStatus, offer \in Starts : StripeCreates(second, status, offer)
       \/ \E status \in LiveStatus, offer \in Offer : StripeUpdates(second, status, offer)
       \/ StripeDeletes(second)
       \/ \E invoice \in stripe.invoices : StripeIsPaid(second, invoice)
       \/ StripeIsNotPaid(second)
  /\ UNCHANGED <<now, inbox, handler, sub, window, lots, claim, reconcile>>

Handle(e) ==
  \/ RetrieveSubscription(e) \/ InsertSubscription(e)
  \/ \E t \in Clock : ProjectSubscriptionSnapshot(e, t)
  \/ \E t \in Clock : ApplyInvoicePaymentSucceeded(e, t)
  \/ \E t \in Clock : EvaluateAfterPayment(e, t)
  \/ ApplyInvoicePaymentFailed(e)
  \/ \E status \in {"processed", "held_anomaly"} : ResolveBillingEvent(e, status)
  \/ FailBillingEvent(e)

Maintenance ==
  \/ \E t \in Clock : EvaluateWindowsRoute(t)
  \/ ReconcileReads \/ ReconcileRetrieves
  \/ \E t \in Clock : ReconcileProjects(t)
  \/ \E status \in {"redeemed", "released", "expired"} : ClaimEnds(status)

Next ==
  \/ Stripe
  \/ StripeRenews /\ UNCHANGED <<now, inbox, handler, sub, window, lots, claim, reconcile>>
  \/ Maintenance \/ Tick
  \/ \E e \in Event :
       Deliver(e) \/ BackoffPasses(e) \/ Handle(e) \/ HandlerThrows(e) \/ HandlerDies(e)

Spec == Init /\ [][Next]_vars

(***************************************************************************)
(* Fairness.  Stripe repeats a delivery until it is answered, backoffs     *)
(* pass, and an invocation that lives goes on; it may always die.          *)
(***************************************************************************)
Unanswered(e) == e \notin stripe.acknowledged /\ Deliver(e)
Delivery ==
  \A e \in Event :
    WF_vars(Unanswered(e)) /\ WF_vars(BackoffPasses(e)) /\ WF_vars(Handle(e))

FairSpec == Spec /\ Delivery

Status == {"none", "active", "past_due", "incomplete", "canceled"}
Snapshot == [status : Status, offer : Offer \cup {NoOffer}, start : Nat \cup {Never}]
Invoice == [end : Nat]
SubscriptionRow ==
  [exists : BOOLEAN, status : Status, offer : Catalogue \cup {NoOffer},
   pending : Catalogue \cup {NoOffer}, paidThrough : Nat \cup {Never}, anchor : Nat \cup {Never},
   cursor : Cycle, nextGrantAt : Nat \cup {Never}, lastEventCreated : Nat \cup {Never},
   protectedFrom : Nat \cup {Never}]

\* The tables, the invocations and Stripe's side have their types.
TypeOK ==
  /\ now \in 0..MaxTime
  /\ stripe \in [status : Status, offer : Offer \cup {NoOffer}, start : Nat \cup {Never},
                 second : Nat, invoices : SUBSET Invoice, paid : Nat,
                 acknowledged : SUBSET Event]
  /\ log \in Seq([type : EventType, created : Nat, body : Snapshot \cup Invoice])
  /\ Len(log) <= MaxEvents
  /\ inbox \in [Event -> [status : {"none", "processing", "failed_retryable"} \cup Terminal,
                          attempts : 0..MaxAttempts, due : BOOLEAN]]
  /\ handler \in [Event -> [pc : {"idle", "retrieve", "project", "insert", "pay", "evaluate",
                                  "past_due", "processed", "held_anomaly", "fail"},
                            snapshot : Snapshot \cup Invoice]]
  /\ sub \in SubscriptionRow
  /\ window \in [Cycle -> [status : {"none", "granted", "skipped_unpaid", "skipped_missed"},
                           plan : Plan \cup {"none"}]]
  /\ lots \subseteq [key : {"monthly-grant", "upgrade-diff"} \X Cycle \X Plan \X Plan,
                     units : Nat \ {0}, until : Nat]
  /\ claim \in {"none", "reserved", "redeemed", "released", "expired"}
  /\ reconcile \in [pc : {"idle", "retrieve", "project"}, watermark : Nat \cup {Never},
                    snapshot : Snapshot]

(***************************************************************************)
(* An attempt at an event begins only when no other is at work on it and   *)
(* it has not ended (contract 8.2): a replay never runs a handler beside   *)
(* or after the one that counts.                                           *)
(***************************************************************************)
ClaimedOnce ==
  [][\A e \in Event :
       inbox'[e].attempts # inbox[e].attempts
         => handler[e] = NoHandler /\ inbox[e].status \notin Terminal]_vars

(***************************************************************************)
(* Replayed, delayed and repeated events never undo what is proven (the    *)
(* header of billingSubscriptionProjection.ts): the anchor stands, paid    *)
(* time is not shortened, a granted window stays granted, the protection   *)
(* clock never resets and the ledger only grows.                           *)
(***************************************************************************)
HistoryStands ==
  [][/\ sub.exists => sub'.exists /\ sub'.anchor = sub.anchor
     /\ sub.paidThrough <= sub'.paidThrough
     /\ sub.protectedFrom # Never => sub'.protectedFrom = sub.protectedFrom
     /\ \A n \in Cycle : window[n].status = "granted" => window'[n].status = "granted"
     /\ lots \subseteq lots']_vars

(***************************************************************************)
(* Contract 6.4, "max(0, newAllowance - alreadyGrantedThisWindow)": in     *)
(* whatever order upgrades, downgrades, invoices and the engine come, the  *)
(* granted window of the present carries at least the allowance of the     *)
(* offer in force.                                                         *)
(***************************************************************************)
UpgradeToppedUp ==
  sub.exists /\ window[sub.cursor].status = "granted" /\ now = sub.anchor + sub.cursor
    => Granted(now + 1) >= Credits(sub.offer)

(***************************************************************************)
(* Section 3.9: the rate protection has its evidence, the redeemed claim   *)
(* of this salon and an invoice Stripe was paid.                           *)
(***************************************************************************)
ProtectionProven ==
  sub.protectedFrom # Never => claim = "redeemed" /\ stripe.paid > 0

(***************************************************************************)
(* The windows implement MonthlyAllowance.                                 *)
(***************************************************************************)
Allowances == INSTANCE MonthlyAllowance WITH
  Month <- Cycle,
  Allowance <- {MonthlySmsCredits[p] : p \in Plan},
  Lag <- ClockLag,
  month <- now,
  paid <- stripe.paid,
  granted <- [m \in Cycle |-> Granted(m + 1)]

ImplementsMonthlyAllowance == Allowances!Spec

(***************************************************************************)
(* Contract 8.2, "poisoned + 200": whatever throws or dies, Stripe's       *)
(* retries of an event come to an end.                                     *)
(***************************************************************************)
RetriesEnd ==
  \A e \in Event : e \in DOMAIN log ~> e \in stripe.acknowledged

(***************************************************************************)
(* billingStripeEvents.ts:16, "this table only guarantees each event id    *)
(* runs to a terminal status exactly once".                                *)
(***************************************************************************)
EveryEventEnds ==
  \A e \in Event : e \in DOMAIN log ~> inbox[e].status \in Terminal

(***************************************************************************)
(* billingSubscriptionProjection.ts:7, "a replayed or re-ordered invoice   *)
(* event is arithmetic identity, not corruption": it does not revive a     *)
(* canceled subscription.                                                  *)
(***************************************************************************)
CanceledStaysCanceled ==
  [][sub.status = "canceled" => sub'.status = "canceled"]_sub
=============================================================================
