--------------------- MODULE SubscriptionBillingProofs ---------------------
(***************************************************************************)
(* Theorems about subscription billing, for every number of events, plans, *)
(* attempts and months.                                                    *)
(***************************************************************************)
EXTENDS SubscriptionBilling, SequenceTheorems, FiniteSetTheorems, TLAPS

(***************************************************************************)
(* The invariant.  What the proofs need of the types; that an invocation   *)
(* is at work only on a row in `processing'; that an invocation at a step  *)
(* has an event with the body that step reads; and that before the         *)
(* subscription has a row nothing is paid.                                 *)
(***************************************************************************)
AnyOffer == Offer \cup {NoOffer}
Instant == {t \in Int : t >= Never}
AnySnapshot == [status : Status, offer : AnyOffer, start : Instant]
AnyInvoice == [end : Int]
Body == AnySnapshot \cup AnyInvoice
StripeSide == [status : Status, offer : AnyOffer, start : Instant, second : Int,
               invoices : SUBSET AnyInvoice, paid : Int, acknowledged : SUBSET Event]
LogRow == [type : EventType, created : Int, body : Body]
InboxRow == [status : {"none", "processing", "failed_retryable"} \cup Terminal,
             attempts : Nat, due : BOOLEAN]
Step == {"idle", "retrieve", "project", "insert", "pay", "evaluate", "past_due", "processed",
         "held_anomaly", "fail"}
Invocation == [pc : Step, snapshot : Body]
AnySubscription ==
  [exists : BOOLEAN, status : Status, offer : AnyOffer, pending : AnyOffer, paidThrough : Int,
   anchor : Int, cursor : Int, nextGrantAt : Int, lastEventCreated : Int, protectedFrom : Int]
Reconciliation ==
  [pc : {"idle", "retrieve", "project"}, watermark : Int, snapshot : AnySnapshot]

Payment == "invoice.payment_succeeded"

InboxTyped == inbox \in [Event -> InboxRow]
AtWorkIsProcessing ==
  \A e \in Event : inbox[e].status # "processing" => handler[e] = NoHandler

(***************************************************************************)
(* The inbox.                                                              *)
(***************************************************************************)
InboxInv == InboxTyped /\ DOMAIN handler = Event /\ AtWorkIsProcessing

\* An action of an invocation that is at work on e leaves the inbox alone.
LEMMA StepKeepsInbox ==
  ASSUME InboxInv, NEW e \in Event, handler[e].pc # "idle", UNCHANGED inbox,
         NEW h, handler' = [handler EXCEPT ![e] = h]
  PROVE  InboxInv'
BY DEF InboxInv, InboxTyped, AtWorkIsProcessing, NoHandler

LEMMA HandleKeepsInbox ==
  ASSUME InboxInv, NEW e \in Event, Handle(e)
  PROVE  InboxInv' /\ \A f \in Event : inbox'[f].attempts = inbox[f].attempts
<1>1. ASSUME NEW status \in {"processed", "held_anomaly"}, ResolveBillingEvent(e, status)
      PROVE  InboxInv' /\ \A f \in Event : inbox'[f].attempts = inbox[f].attempts
  BY <1>1 DEF ResolveBillingEvent, InboxInv, InboxTyped, InboxRow, Terminal, AtWorkIsProcessing
<1>2. CASE FailBillingEvent(e)
  BY <1>2 DEF FailBillingEvent, InboxInv, InboxTyped, InboxRow, Terminal, AtWorkIsProcessing
<1>3. ASSUME UNCHANGED inbox, handler[e].pc # "idle",
             \E h : handler' = [handler EXCEPT ![e] = h]
      PROVE  InboxInv' /\ \A f \in Event : inbox'[f].attempts = inbox[f].attempts
  BY <1>3, StepKeepsInbox
<1>4. CASE RetrieveSubscription(e)
  <2>1. UNCHANGED inbox /\ handler[e].pc # "idle"
    BY <1>4 DEF RetrieveSubscription, At
  <2>2. \E h : handler' = [handler EXCEPT ![e] = h]
    BY <1>4 DEF RetrieveSubscription
  <2>. QED  BY <2>1, <2>2, <1>3
<1>5. ASSUME NEW pc, Goto(e, pc)
      PROVE  \E h : handler' = [handler EXCEPT ![e] = h]
  <2>1. handler' = [handler EXCEPT ![e] = [handler[e] EXCEPT !.pc = pc]]
    BY <1>5 DEF Goto
  <2>. QED  BY <2>1
<1>6. CASE InsertSubscription(e)
  <2>1. UNCHANGED inbox /\ handler[e].pc # "idle" /\ Goto(e, "processed")
    BY <1>6 DEF InsertSubscription, At
  <2>. QED  BY <2>1, <1>3, <1>5
<1>7. ASSUME NEW t \in Clock, ProjectSubscriptionSnapshot(e, t)
      PROVE  InboxInv' /\ \A f \in Event : inbox'[f].attempts = inbox[f].attempts
  <2>1. UNCHANGED inbox /\ handler[e].pc # "idle" /\ \E pc : Goto(e, pc)
    BY <1>7 DEF ProjectSubscriptionSnapshot, At
  <2>. QED  BY <2>1, <1>3, <1>5
<1>8. ASSUME NEW t \in Clock, ApplyInvoicePaymentSucceeded(e, t)
      PROVE  InboxInv' /\ \A f \in Event : inbox'[f].attempts = inbox[f].attempts
  <2>1. UNCHANGED inbox /\ handler[e].pc # "idle" /\ \E pc : Goto(e, pc)
    BY <1>8 DEF ApplyInvoicePaymentSucceeded, At
  <2>. QED  BY <2>1, <1>3, <1>5
<1>9. ASSUME NEW t \in Clock, EvaluateAfterPayment(e, t)
      PROVE  InboxInv' /\ \A f \in Event : inbox'[f].attempts = inbox[f].attempts
  <2>1. UNCHANGED inbox /\ handler[e].pc # "idle" /\ \E pc : Goto(e, pc)
    BY <1>9 DEF EvaluateAfterPayment, At
  <2>. QED  BY <2>1, <1>3, <1>5
<1>10. CASE ApplyInvoicePaymentFailed(e)
  <2>1. UNCHANGED inbox /\ handler[e].pc # "idle" /\ \E pc : Goto(e, pc)
    BY <1>10 DEF ApplyInvoicePaymentFailed, At
  <2>. QED  BY <2>1, <1>3, <1>5
<1>. QED
  BY <1>1, <1>2, <1>4, <1>6, <1>7, <1>8, <1>9, <1>10 DEF Handle

LEMMA InvocationEnds ==
  ASSUME InboxInv, NEW e \in Event, HandlerThrows(e) \/ HandlerDies(e)
  PROVE  InboxInv' /\ UNCHANGED inbox
<1>1. CASE HandlerThrows(e)
  <2>1. UNCHANGED inbox /\ handler[e].pc # "idle"
    BY <1>1 DEF HandlerThrows
  <2>2. handler' = [handler EXCEPT ![e] = [handler[e] EXCEPT !.pc = "fail"]]
    BY <1>1 DEF HandlerThrows, Goto
  <2>. QED  BY <2>1, <2>2, StepKeepsInbox
<1>2. CASE HandlerDies(e)
  BY <1>2 DEF HandlerDies, InboxInv, InboxTyped, AtWorkIsProcessing
<1>. QED  BY <1>1, <1>2

LEMMA DeliveryClaims ==
  ASSUME InboxInv, NEW e \in Event, Deliver(e)
  PROVE  /\ InboxInv'
         /\ \A f \in Event :
              inbox'[f].attempts # inbox[f].attempts
                => handler[f] = NoHandler /\ inbox[f].status \notin Terminal
<1>1. CASE ClaimBillingEvent(e)
  <2>1. handler[e] = NoHandler /\ inbox[e].status \notin Terminal
    BY <1>1 DEF ClaimBillingEvent, Claimable, InboxInv, AtWorkIsProcessing, Terminal
  <2>2. inbox' = [inbox EXCEPT ![e] = [status |-> "processing",
                                       attempts |-> inbox[e].attempts + 1, due |-> FALSE]]
    BY <1>1 DEF ClaimBillingEvent
  <2>3. InboxTyped'
    BY <2>2 DEF InboxInv, InboxTyped, InboxRow
  <2>4. PICK h : handler' = [handler EXCEPT ![e] = h]
    BY <1>1 DEF ClaimBillingEvent
  <2>. QED  BY <2>1, <2>2, <2>3, <2>4 DEF InboxInv, InboxTyped, AtWorkIsProcessing
<1>2. CASE Deduplicate(e)
  BY <1>2 DEF Deduplicate, InboxInv, InboxTyped, AtWorkIsProcessing
<1>. QED  BY <1>1, <1>2 DEF Deliver

LEMMA BackoffKeepsInbox ==
  ASSUME InboxInv, NEW e \in Event, BackoffPasses(e)
  PROVE  InboxInv' /\ \A f \in Event : inbox'[f].attempts = inbox[f].attempts
BY DEF BackoffPasses, InboxInv, InboxTyped, InboxRow, AtWorkIsProcessing

LEMMA OthersKeepInbox ==
  ASSUME Stripe \/ Maintenance \/ Tick
  PROVE  UNCHANGED <<inbox, handler>>
BY DEF Stripe, Maintenance, Tick, EvaluateWindowsRoute, ReconcileReads, ReconcileRetrieves,
       ReconcileProjects, ClaimEnds

LEMMA InboxStep ==
  ASSUME InboxInv, [Next]_vars
  PROVE  /\ InboxInv'
         /\ \A f \in Event :
              inbox'[f].attempts # inbox[f].attempts
                => handler[f] = NoHandler /\ inbox[f].status \notin Terminal
<1>1. ASSUME UNCHANGED <<inbox, handler>>
      PROVE  InboxInv' /\ \A f \in Event : inbox'[f].attempts = inbox[f].attempts
  <2>1. inbox' = inbox /\ handler' = handler
    BY <1>1
  <2>2. InboxTyped' /\ DOMAIN handler' = Event
    BY <2>1 DEF InboxInv, InboxTyped
  <2>3. AtWorkIsProcessing'
    BY <2>1, Zenon DEF InboxInv, AtWorkIsProcessing
  <2>. QED  BY <2>1, <2>2, <2>3, Zenon DEF InboxInv
<1>2. CASE UNCHANGED vars
  BY <1>1, <1>2 DEF vars
<1>3. ASSUME NEW e \in Event,
             Deliver(e) \/ BackoffPasses(e) \/ Handle(e) \/ HandlerThrows(e) \/ HandlerDies(e)
      PROVE  /\ InboxInv'
             /\ \A f \in Event :
                  inbox'[f].attempts # inbox[f].attempts
                    => handler[f] = NoHandler /\ inbox[f].status \notin Terminal
  BY <1>3, DeliveryClaims, BackoffKeepsInbox, HandleKeepsInbox, InvocationEnds
<1>4. CASE Stripe \/ Maintenance \/ Tick
  BY <1>4, <1>1, OthersKeepInbox
<1>5. CASE StripeRenews /\ UNCHANGED <<now, inbox, handler, sub, window, lots, claim, reconcile>>
  BY <1>5, <1>1
<1>. QED  BY <1>2, <1>3, <1>4, <1>5 DEF Next

(***************************************************************************)
(* A delivery starts an attempt at an event only when no other invocation  *)
(* is at work on it and it has not ended, however often it is repeated and *)
(* however many invocations fail: only `none' and `failed_retryable' rows  *)
(* can be claimed, and whoever leaves `processing' has finished.           *)
(***************************************************************************)
THEOREM AttemptsAlone == Spec => ClaimedOnce
<1>1. Init => InboxInv
  BY DEF Init, InboxInv, InboxTyped, InboxRow, AtWorkIsProcessing
<1>2. InboxInv /\ [Next]_vars => InboxInv'
  BY InboxStep
<1>3. InboxInv /\ [Next]_vars
        => [\A e \in Event :
              inbox'[e].attempts # inbox[e].attempts
                => handler[e] = NoHandler /\ inbox[e].status \notin Terminal]_vars
  BY InboxStep
<1>. QED  BY <1>1, <1>2, <1>3, PTL DEF Spec, ClaimedOnce

(***************************************************************************)
(* What is proven stands.                                                  *)
(***************************************************************************)
\* Whether an invocation may be at step h.pc of event e with that snapshot.
Fits(h, e) ==
  /\ h \in Invocation
  /\ h.pc # "idle" => e \in 1..Len(log)
  /\ h.pc = "pay" => log[e].type = Payment
  /\ h.pc = "retrieve" => log[e].type # Payment
  /\ h.pc \in {"project", "insert"} => h.snapshot \in AnySnapshot

StripeTyped == stripe \in StripeSide
LogTyped ==
  /\ log \in Seq(LogRow)
  /\ \A e \in 1..Len(log) :
       IF log[e].type = Payment THEN log[e].body \in AnyInvoice ELSE log[e].body \in AnySnapshot
HandlerFits == DOMAIN handler = Event /\ handler = [e \in Event |-> handler[e]]
               /\ \A e \in Event : Fits(handler[e], e)
SubTyped == sub \in AnySubscription
NothingPaidBefore == ~sub.exists => sub.paidThrough = Never /\ sub.protectedFrom = Never

Remote == StripeTyped /\ LogTyped /\ HandlerFits /\ reconcile \in Reconciliation /\ now \in Nat
BillingInv == Remote /\ SubTyped /\ NothingPaidBefore

RowStands ==
  /\ sub.exists => sub'.exists /\ sub'.anchor = sub.anchor
  /\ sub.paidThrough <= sub'.paidThrough
  /\ sub.protectedFrom # Never => sub'.protectedFrom = sub.protectedFrom
GrantsStand ==
  /\ \A n \in Cycle : window[n].status = "granted" => window'[n].status = "granted"
  /\ lots \subseteq lots'
Local == SubTyped' /\ NothingPaidBefore' /\ RowStands /\ GrantsStand

LEMMA InstantFacts ==
  /\ Never \in Instant /\ -1 \in Instant /\ Nat \subseteq Instant /\ Instant \subseteq Int
  /\ \A i \in Instant, n \in Nat : i + n \in Instant
BY DEF Instant, Never

LEMMA AuthoritativeTyped ==
  ASSUME StripeTyped
  PROVE  Authoritative \in AnySnapshot
BY DEF StripeTyped, StripeSide, Authoritative, AnySnapshot

LEMMA LocalUnchanged ==
  ASSUME SubTyped, NothingPaidBefore, UNCHANGED <<sub, window, lots>>
  PROVE  Local
BY DEF Local, SubTyped, AnySubscription, NothingPaidBefore, RowStands, GrantsStand

LEMMA HandlerMoves ==
  ASSUME HandlerFits, NEW e \in Event, NEW h, Fits(h, e), UNCHANGED log,
         handler' = [handler EXCEPT ![e] = h]
  PROVE  HandlerFits'
<1>1. \A x, f : Fits(x, f)' <=> Fits(x, f)
  BY DEF Fits
<1>. QED  BY <1>1 DEF HandlerFits

LEMMA Emitted ==
  ASSUME LogTyped, HandlerFits, UNCHANGED handler,
         NEW type \in EventType, NEW second \in Int, NEW body \in Body,
         IF type = Payment THEN body \in AnyInvoice ELSE body \in AnySnapshot,
         Emit(type, second, body)
  PROVE  LogTyped' /\ HandlerFits'
<1>. DEFINE row == [type |-> type, created |-> second, body |-> body]
<1>1. log' = Append(log, row)
  BY DEF Emit
<1>2. row \in LogRow
  BY DEF LogRow
<1>3. /\ log' \in Seq(LogRow)
      /\ Len(log') = Len(log) + 1
      /\ \A e \in 1..Len(log) : log'[e] = log[e]
      /\ log'[Len(log) + 1] = row
      /\ Len(log) \in Nat
  BY <1>1, <1>2, AppendProperties DEF LogTyped
<1>4. ASSUME NEW e \in 1..Len(log')
      PROVE  IF log'[e].type = Payment THEN log'[e].body \in AnyInvoice
                                       ELSE log'[e].body \in AnySnapshot
  <2>1. CASE e \in 1..Len(log)
    BY <2>1, <1>3 DEF LogTyped
  <2>2. CASE e = Len(log) + 1
    BY <2>2, <1>3
  <2>. QED  BY <2>1, <2>2, <1>3
<1>5. \A h, e : Fits(h, e) => Fits(h, e)'
  BY <1>3 DEF Fits
<1>. QED  BY <1>3, <1>4, <1>5 DEF LogTyped, HandlerFits

LEMMA StripeActs ==
  ASSUME Remote, Stripe
  PROVE  Remote'
<1>. USE DEF Remote
<1>1. reconcile' \in Reconciliation /\ now' \in Nat /\ UNCHANGED handler
  BY DEF Stripe
<1>2. PICK second \in Seconds :
        \/ \E status \in LiveStatus, offer \in Starts : StripeCreates(second, status, offer)
        \/ \E status \in LiveStatus, offer \in Offer : StripeUpdates(second, status, offer)
        \/ StripeDeletes(second)
        \/ \E invoice \in stripe.invoices : StripeIsPaid(second, invoice)
        \/ StripeIsNotPaid(second)
  BY DEF Stripe
<1>3. second \in Int
  BY DEF Seconds, StripeTyped, StripeSide
<1>4. /\ {"active", "past_due", "incomplete", "canceled"} \subseteq Status
      /\ LiveStatus \subseteq Status
      /\ Starts \subseteq AnyOffer /\ Offer \subseteq AnyOffer
      /\ Term \in Nat /\ now \in Int
  BY BillingAssumption DEF Status, AnyOffer
<1>5. ASSUME StripeTyped', NEW type \in EventType \ {Payment}, Emit(type, second, Authoritative')
      PROVE  LogTyped' /\ HandlerFits'
  <2>1. Authoritative' \in AnySnapshot
    BY <1>5, AuthoritativeTyped DEF StripeTyped, StripeSide, Authoritative, AnySnapshot
  <2>. QED  BY <2>1, <1>1, <1>3, <1>5, Emitted DEF Body
<1>6. ASSUME NEW status \in LiveStatus, NEW offer \in Starts, StripeCreates(second, status, offer)
      PROVE  Remote'
  <2>. DEFINE opening == [end |-> now + Term]
  <2>3. opening \in AnyInvoice
    BY <1>4 DEF AnyInvoice
  <2>4. stripe' = [stripe EXCEPT !.status = status, !.offer = offer, !.start = now,
                                 !.second = second, !.invoices = {opening}]
    BY <1>6 DEF StripeCreates
  <2>. HIDE DEF opening
  <2>1. StripeTyped'
    BY <1>3, <1>4, <2>3, <2>4, InstantFacts DEF StripeTyped, StripeSide
  <2>2. Emit("subscription.created", second, Authoritative')
    BY <1>6 DEF StripeCreates
  <2>. QED  BY <2>1, <2>2, <1>1, <1>5 DEF EventType, Payment
<1>7. ASSUME NEW status \in LiveStatus, NEW offer \in Offer, StripeUpdates(second, status, offer)
      PROVE  Remote'
  <2>1. StripeTyped'
    BY <1>3, <1>4, <1>7 DEF StripeUpdates, StripeTyped, StripeSide
  <2>2. Emit("subscription.updated", second, Authoritative')
    BY <1>7 DEF StripeUpdates
  <2>. QED  BY <2>1, <2>2, <1>1, <1>5 DEF EventType, Payment
<1>8. CASE StripeDeletes(second)
  <2>1. StripeTyped'
    BY <1>3, <1>4, <1>8 DEF StripeDeletes, StripeTyped, StripeSide
  <2>2. Emit("subscription.deleted", second, Authoritative')
    BY <1>8 DEF StripeDeletes
  <2>. QED  BY <2>1, <2>2, <1>1, <1>5 DEF EventType, Payment
<1>9. ASSUME NEW invoice \in stripe.invoices, StripeIsPaid(second, invoice)
      PROVE  Remote'
  <2>1. invoice \in AnyInvoice
    BY DEF StripeTyped, StripeSide
  <2>2. Later(stripe.paid, invoice.end) \in Int
    BY <2>1 DEF StripeTyped, StripeSide, AnyInvoice, Later
  <2>5. StripeTyped'
    BY <2>2, <1>3, <1>9 DEF StripeIsPaid, StripeTyped, StripeSide
  <2>3. Emit(Payment, second, invoice)
    BY <1>9 DEF StripeIsPaid, Payment
  <2>4. LogTyped' /\ HandlerFits'
    BY <2>1, <2>3, <1>1, <1>3, Emitted DEF Body, EventType, Payment
  <2>. QED  BY <2>5, <2>4, <1>1
<1>10. CASE StripeIsNotPaid(second)
  <2>1. StripeTyped'
    BY <1>3, <1>10 DEF StripeIsNotPaid, StripeTyped, StripeSide
  <2>2. NoSnapshot \in AnySnapshot
    BY InstantFacts DEF NoSnapshot, AnySnapshot, Status, AnyOffer
  <2>3. LogTyped' /\ HandlerFits'
    BY <2>2, <1>1, <1>3, <1>10, Emitted DEF StripeIsNotPaid, Body, EventType, Payment
  <2>. QED  BY <2>1, <2>3, <1>1
<1>. QED  BY <1>2, <1>6, <1>7, <1>8, <1>9, <1>10

LEMMA StripeRenewsFits ==
  ASSUME Remote, StripeRenews, UNCHANGED <<now, handler, reconcile>>
  PROVE  Remote'
<1>. DEFINE renewal == [end |-> stripe.start + Term + Term]
<1>1. stripe.start + Term \in Instant /\ renewal \in AnyInvoice
  BY BillingAssumption, InstantFacts DEF Remote, StripeTyped, StripeSide, AnyInvoice
<1>2. stripe' = [stripe EXCEPT !.start = stripe.start + Term,
                               !.invoices = stripe.invoices \cup {renewal}]
  BY DEF StripeRenews
<1>. HIDE DEF renewal
<1>3. StripeTyped'
  BY <1>1, <1>2 DEF Remote, StripeTyped, StripeSide
<1>4. UNCHANGED log
  BY DEF StripeRenews
<1>. QED  BY <1>3, <1>4 DEF Remote, LogTyped, HandlerFits, Fits

(***************************************************************************)
(* Invocations.                                                            *)
(***************************************************************************)
LEMMA NoHandlerFits ==
  ASSUME NEW e
  PROVE  Fits(NoHandler, e)
BY InstantFacts DEF Fits, NoHandler, Invocation, Step, Body, AnySnapshot, NoSnapshot, Status,
                   AnyOffer

\* An invocation at a step has the event and the body of that step.
LEMMA AtBody ==
  ASSUME Remote, NEW e \in Event, handler[e].pc # "idle"
  PROVE  /\ e \in 1..Len(log) /\ log[e] \in LogRow /\ log[e].body \in Body
         /\ log[e].created \in Int
         /\ handler[e] \in Invocation
         /\ log[e].type # Payment => log[e].body \in AnySnapshot
         /\ log[e].type = Payment => log[e].body \in AnyInvoice
<1>1. e \in 1..Len(log) /\ handler[e] \in Invocation
  BY DEF Remote, HandlerFits, Fits
<1>2. log[e] \in LogRow
  BY <1>1, ElementOfSeq DEF Remote, LogTyped
<1>. QED  BY <1>1, <1>2 DEF Remote, LogTyped, LogRow

LEMMA GotoFits ==
  ASSUME Remote, NEW e \in Event, handler[e].pc # "idle", UNCHANGED log,
         NEW pc \in Step \ {"pay", "retrieve", "project"}, Goto(e, pc),
         pc = "insert" => handler[e].snapshot \in AnySnapshot
  PROVE  HandlerFits'
<1>. DEFINE h == [handler[e] EXCEPT !.pc = pc]
<1>1. h \in Invocation /\ h.pc = pc /\ h.snapshot = handler[e].snapshot
  BY AtBody DEF Invocation
<1>2. handler' = [handler EXCEPT ![e] = h]
  BY DEF Goto
<1>. HIDE DEF h
<1>3. Fits(h, e)
  BY <1>1, AtBody DEF Fits
<1>. QED  BY <1>2, <1>3, HandlerMoves DEF Remote

LEMMA AcknowledgedTyped ==
  ASSUME StripeTyped, NEW e \in Event,
         stripe' = [stripe EXCEPT !.acknowledged = stripe.acknowledged \cup {e}]
  PROVE  StripeTyped'
BY DEF StripeTyped, StripeSide

LEMMA ClaimFits ==
  ASSUME Remote, NEW e \in 1..Len(log), e \in Event, ClaimBillingEvent(e)
  PROVE  Remote'
<1>. DEFINE h == [pc |-> FirstStep(log[e].type), snapshot |-> log[e].body]
<1>1. log[e] \in LogRow
  BY ElementOfSeq DEF Remote, LogTyped
<1>2. log[e].type \in EventType /\ log[e].body \in Body
  BY <1>1 DEF LogRow
<1>3. FirstStep(log[e].type) \in
        (IF log[e].type = Payment THEN {"pay"} ELSE {"project", "retrieve", "past_due"})
  BY <1>2 DEF FirstStep, EventType, Payment
<1>4. log[e].type # Payment => log[e].body \in AnySnapshot
  BY DEF Remote, LogTyped
<1>5. h \in Invocation /\ h.pc = FirstStep(log[e].type) /\ h.snapshot = log[e].body
  BY <1>2, <1>3 DEF Invocation, Step
<1>6. handler' = [handler EXCEPT ![e] = h]
  BY DEF ClaimBillingEvent
<1>. HIDE DEF h
<1>7. Fits(h, e)
  BY <1>3, <1>4, <1>5 DEF Fits
<1>8. UNCHANGED <<stripe, log, reconcile, now>>
  BY DEF ClaimBillingEvent
<1>. QED  BY <1>6, <1>7, <1>8, HandlerMoves DEF Remote, StripeTyped, LogTyped

LEMMA InvocationFits ==
  ASSUME Remote, NEW e \in Event,
         \/ Deliver(e) \/ BackoffPasses(e) \/ HandlerThrows(e) \/ HandlerDies(e)
         \/ \E status \in {"processed", "held_anomaly"} : ResolveBillingEvent(e, status)
         \/ FailBillingEvent(e)
  PROVE  Remote' /\ UNCHANGED <<sub, window, lots>>
<1>1. ASSUME UNCHANGED <<now, log, reconcile>>, StripeTyped', HandlerFits'
      PROVE  Remote'
  BY <1>1 DEF Remote, LogTyped
<1>2. ASSUME UNCHANGED log, handler' = [handler EXCEPT ![e] = NoHandler]
      PROVE  HandlerFits'
  BY <1>2, NoHandlerFits, HandlerMoves DEF Remote
<1>3. ASSUME UNCHANGED <<log, handler>>
      PROVE  HandlerFits'
  BY <1>3 DEF Remote, HandlerFits, Fits
<1>4. ASSUME UNCHANGED stripe
      PROVE  StripeTyped'
  BY <1>4 DEF Remote, StripeTyped
<1>5. CASE Deliver(e)
  <2>1. CASE ClaimBillingEvent(e)
    <3>1. e \in 1..Len(log)
      BY <1>5, ElementOfSeq DEF Deliver, Remote, LogTyped
    <3>. QED  BY <2>1, <3>1, ClaimFits DEF ClaimBillingEvent
  <2>2. CASE Deduplicate(e)
    BY <2>2, <1>1, <1>3, AcknowledgedTyped DEF Deduplicate, Remote
  <2>. QED  BY <1>5, <2>1, <2>2 DEF Deliver
<1>6. CASE BackoffPasses(e)
  BY <1>6, <1>1, <1>3, <1>4 DEF BackoffPasses
<1>7. CASE HandlerThrows(e)
  <2>1. HandlerFits'
    BY <1>7, GotoFits DEF HandlerThrows, Step
  <2>. QED  BY <1>7, <2>1, <1>1, <1>4 DEF HandlerThrows
<1>8. CASE HandlerDies(e)
  BY <1>8, <1>1, <1>2, <1>4 DEF HandlerDies
<1>9. ASSUME NEW status, ResolveBillingEvent(e, status)
      PROVE  Remote' /\ UNCHANGED <<sub, window, lots>>
  BY <1>9, <1>1, <1>2, AcknowledgedTyped DEF ResolveBillingEvent, Remote
<1>10. CASE FailBillingEvent(e)
  <2>1. StripeTyped'
    BY <1>10, <1>4, AcknowledgedTyped DEF FailBillingEvent, Remote
  <2>. QED  BY <1>10, <2>1, <1>1, <1>2 DEF FailBillingEvent
<1>. QED  BY <1>5, <1>6, <1>7, <1>8, <1>9, <1>10

LEMMA RetrieveFits ==
  ASSUME Remote, NEW e \in Event, RetrieveSubscription(e)
  PROVE  Remote' /\ UNCHANGED <<sub, window, lots>>
<1>1. handler[e].pc = "retrieve" /\ log[e].type # Payment
  BY DEF RetrieveSubscription, At, Remote, HandlerFits, Fits
<1>2. PICK snapshot \in {Authoritative, log[e].body} :
        handler' = [handler EXCEPT ![e] = [pc |-> "project", snapshot |-> snapshot]]
  BY DEF RetrieveSubscription
<1>3. snapshot \in AnySnapshot /\ e \in 1..Len(log)
  BY <1>1, <1>2, AtBody, AuthoritativeTyped DEF Remote
<1>. DEFINE h == [pc |-> "project", snapshot |-> snapshot]
<1>4. Fits(h, e)
  BY <1>3 DEF Fits, Invocation, Step, Body
<1>. HIDE DEF h
<1>5. HandlerFits'
  BY <1>2, <1>4, HandlerMoves DEF RetrieveSubscription, Remote, h
<1>. QED  BY <1>5 DEF RetrieveSubscription, Remote, StripeTyped, LogTyped

(***************************************************************************)
(* The row, the windows and the ledger.                                    *)
(***************************************************************************)
LEMMA LotsGrow ==
  ASSUME NEW key, NEW units, NEW until, AppendLotGrant(key, units, until)
  PROVE  lots \subseteq lots'
BY DEF AppendLotGrant

\* A new row that keeps what is proven.
LEMMA RowReplaced ==
  ASSUME SubTyped, NothingPaidBefore, NEW row \in AnySubscription, sub' = row,
         sub.exists => row.exists /\ row.anchor = sub.anchor,
         sub.paidThrough <= row.paidThrough,
         sub.protectedFrom # Never => row.protectedFrom = sub.protectedFrom,
         ~row.exists => row.paidThrough = Never /\ row.protectedFrom = Never,
         GrantsStand
  PROVE  Local
BY DEF Local, SubTyped, NothingPaidBefore, RowStands

LEMMA UpdateStands ==
  ASSUME SubTyped, NothingPaidBefore, NEW snapshot \in AnySnapshot, NEW created \in Int, NEW t,
         UpdateSubscription(snapshot, created, t), UNCHANGED window
  PROVE  Local
<1>. DEFINE upgrade == /\ snapshot.offer # sub.offer
                       /\ Credits(snapshot.offer) > Credits(sub.offer)
            offer == IF upgrade THEN snapshot.offer ELSE sub.offer
            pending == IF upgrade THEN NoOffer
                       ELSE IF snapshot.offer # sub.offer THEN snapshot.offer ELSE sub.pending
            row == [sub EXCEPT !.status = snapshot.status, !.lastEventCreated = created,
                               !.offer = offer, !.pending = pending]
<1>1. sub' = row
  BY DEF UpdateSubscription
<1>2. offer \in AnyOffer /\ pending \in AnyOffer /\ snapshot.status \in Status
  BY DEF SubTyped, AnySubscription, AnySnapshot, AnyOffer
<1>. HIDE DEF offer, pending, upgrade
<1>3. /\ row \in AnySubscription
      /\ row.exists = sub.exists /\ row.anchor = sub.anchor
      /\ row.paidThrough = sub.paidThrough /\ row.protectedFrom = sub.protectedFrom
      /\ sub.paidThrough \in Int
  BY <1>2 DEF SubTyped, AnySubscription
<1>. HIDE DEF row
<1>4. lots \subseteq lots'
  <2>1. ASSUME NEW from, NEW to, ApplyUpgradeDiff(from, to, t)
        PROVE  lots \subseteq lots'
    BY <2>1, LotsGrow DEF ApplyUpgradeDiff
  <2>. QED  BY <2>1 DEF UpdateSubscription
<1>. QED  BY <1>1, <1>3, <1>4, RowReplaced DEF GrantsStand, NothingPaidBefore

LEMMA ProjectStands ==
  ASSUME BillingInv, NEW e \in Event, NEW t, ProjectSubscriptionSnapshot(e, t)
  PROVE  Remote' /\ Local
<1>1. handler[e].pc # "idle" /\ handler[e].snapshot \in AnySnapshot
  BY DEF ProjectSubscriptionSnapshot, At, BillingInv, Remote, HandlerFits, Fits
<1>2. log[e].created \in Int
  BY <1>1, AtBody DEF BillingInv
<1>3. UNCHANGED <<now, stripe, log, reconcile, window>>
  BY DEF ProjectSubscriptionSnapshot
<1>4. PICK pc \in {"held_anomaly", "insert", "processed"} : Goto(e, pc)
  BY DEF ProjectSubscriptionSnapshot
<1>5. HandlerFits'
  BY <1>1, <1>3, <1>4, GotoFits DEF BillingInv, Step
<1>6. \/ UNCHANGED <<sub, lots>>
      \/ UpdateSubscription(handler[e].snapshot, log[e].created, t)
  BY DEF ProjectSubscriptionSnapshot
<1>7. Local
  BY <1>1, <1>2, <1>3, <1>6, LocalUnchanged, UpdateStands DEF BillingInv
<1>. QED  BY <1>3, <1>5, <1>7 DEF BillingInv, Remote, StripeTyped, LogTyped

LEMMA InsertStands ==
  ASSUME BillingInv, NEW e \in Event, InsertSubscription(e)
  PROVE  Remote' /\ Local
<1>. DEFINE snapshot == handler[e].snapshot
            row == [exists |-> TRUE, status |-> snapshot.status, offer |-> snapshot.offer,
                    pending |-> NoOffer, paidThrough |-> snapshot.start,
                    anchor |-> snapshot.start, cursor |-> 0, nextGrantAt |-> Never,
                    lastEventCreated |-> log[e].created, protectedFrom |-> Never]
<1>1. handler[e].pc # "idle" /\ snapshot \in AnySnapshot
  BY DEF InsertSubscription, At, BillingInv, Remote, HandlerFits, Fits
<1>2. log[e].created \in Int
  BY <1>1, AtBody DEF BillingInv
<1>3. UNCHANGED <<now, stripe, log, reconcile, window, lots>>
  BY DEF InsertSubscription
<1>4. HandlerFits'
  BY <1>1, <1>3, GotoFits DEF InsertSubscription, BillingInv, Step
<1>5. snapshot.status \in Status /\ snapshot.offer \in AnyOffer /\ snapshot.start \in Instant
  BY <1>1 DEF AnySnapshot
<1>. HIDE DEF snapshot
<1>6. /\ row \in AnySubscription /\ row.exists
      /\ row.paidThrough = snapshot.start /\ Never <= snapshot.start
  <2>1. Never \in Int /\ snapshot.start \in Int /\ Never <= snapshot.start
    BY <1>5 DEF Instant, Never
  <2>. QED  BY <1>2, <1>5, <2>1 DEF AnySubscription, AnyOffer
<1>7. GrantsStand
  BY <1>3 DEF GrantsStand
<1>8. ASSUME sub.exists
      PROVE  Local
  BY <1>3, <1>8, LocalUnchanged DEF InsertSubscription, BillingInv
<1>9. ASSUME ~sub.exists
      PROVE  Local
  <2>1. sub' = row
    BY <1>9 DEF InsertSubscription, NoSubscription, snapshot
  <2>. HIDE DEF row
  <2>. QED  BY <1>6, <1>7, <1>9, <2>1, RowReplaced DEF BillingInv, NothingPaidBefore
<1>. QED  BY <1>3, <1>4, <1>8, <1>9 DEF BillingInv, Remote, StripeTyped, LogTyped

LEMMA PaymentStands ==
  ASSUME BillingInv, NEW e \in Event, NEW t \in Int, ApplyInvoicePaymentSucceeded(e, t)
  PROVE  Remote' /\ Local
<1>. DEFINE end == log[e].body.end
            paid == PaidThrough(end)
            offer == IF sub.pending # NoOffer THEN sub.pending ELSE sub.offer
            protected == IF Protects THEN t ELSE sub.protectedFrom
            row == [sub EXCEPT !.status = "active", !.paidThrough = paid, !.offer = offer,
                               !.pending = NoOffer, !.lastEventCreated = Watermark(e),
                               !.protectedFrom = protected]
<1>1. handler[e].pc = "pay" /\ log[e].type = Payment
  BY DEF ApplyInvoicePaymentSucceeded, At, BillingInv, Remote, HandlerFits, Fits
<1>2. end \in Int
  BY <1>1, AtBody DEF BillingInv, AnyInvoice
<1>3. UNCHANGED <<now, stripe, log, reconcile, window, lots>>
  BY DEF ApplyInvoicePaymentSucceeded
<1>4. PICK pc \in {"fail", "evaluate"} : Goto(e, pc)
  BY DEF ApplyInvoicePaymentSucceeded
<1>5. HandlerFits'
  BY <1>1, <1>3, <1>4, GotoFits DEF BillingInv, Step
<1>6. /\ paid \in Int /\ sub.paidThrough <= paid
      /\ offer \in AnyOffer /\ protected \in Int /\ Watermark(e) \in Int
      /\ sub.protectedFrom # Never => protected = sub.protectedFrom
  BY <1>2 DEF BillingInv, SubTyped, AnySubscription, PaidThrough, Later, Watermark, Protects
<1>. HIDE DEF end, paid, offer, protected
<1>7. /\ row \in AnySubscription
      /\ row.exists = sub.exists /\ row.anchor = sub.anchor
      /\ row.paidThrough = paid /\ row.protectedFrom = protected
  BY <1>6 DEF BillingInv, SubTyped, AnySubscription, AnyOffer, Status
<1>8. GrantsStand
  BY <1>3 DEF GrantsStand
<1>9. ASSUME ~sub.exists
      PROVE  Local
  BY <1>3, <1>9, LocalUnchanged DEF ApplyInvoicePaymentSucceeded, BillingInv
<1>10. ASSUME sub.exists
       PROVE  Local
  <2>1. sub' = row
    BY <1>10 DEF ApplyInvoicePaymentSucceeded, end, paid, offer, protected
  <2>. HIDE DEF row
  <2>. QED  BY <1>6, <1>7, <1>8, <1>10, <2>1, RowReplaced DEF BillingInv
<1>. QED  BY <1>3, <1>5, <1>9, <1>10 DEF BillingInv, Remote, StripeTyped, LogTyped

LEMMA PaymentFailedStands ==
  ASSUME BillingInv, NEW e \in Event, ApplyInvoicePaymentFailed(e)
  PROVE  Remote' /\ Local
<1>. DEFINE row == [sub EXCEPT !.status = "past_due", !.lastEventCreated = log[e].created]
<1>1. handler[e].pc # "idle"
  BY DEF ApplyInvoicePaymentFailed, At
<1>2. UNCHANGED <<now, stripe, log, reconcile, window, lots>>
  BY DEF ApplyInvoicePaymentFailed
<1>3. HandlerFits'
  BY <1>1, <1>2, GotoFits DEF ApplyInvoicePaymentFailed, BillingInv, Step
<1>4. log[e].created \in Int
  BY <1>1, AtBody DEF BillingInv
<1>5. /\ row \in AnySubscription
      /\ row.exists = sub.exists /\ row.anchor = sub.anchor
      /\ row.paidThrough = sub.paidThrough /\ row.protectedFrom = sub.protectedFrom
  BY <1>4 DEF BillingInv, SubTyped, AnySubscription, Status
<1>8. sub.paidThrough \in Int
  BY DEF BillingInv, SubTyped, AnySubscription
<1>6. ASSUME ~sub.exists
      PROVE  Local
  BY <1>2, <1>6, LocalUnchanged DEF ApplyInvoicePaymentFailed, BillingInv
<1>7. ASSUME sub.exists
      PROVE  Local
  <2>1. sub' = row
    BY <1>7 DEF ApplyInvoicePaymentFailed
  <2>2. GrantsStand
    BY <1>2 DEF GrantsStand
  <2>. HIDE DEF row
  <2>. QED  BY <1>5, <1>8, <2>1, <2>2, RowReplaced DEF BillingInv, NothingPaidBefore
<1>. QED  BY <1>2, <1>3, <1>6, <1>7 DEF BillingInv, Remote, StripeTyped, LogTyped

LEMMA EvaluationStands ==
  ASSUME SubTyped, NothingPaidBefore, NEW t \in Int, EvaluateSubscriptionWindows(t)
  PROVE  Local
<1>. DEFINE active == t - sub.anchor
            next == t + 1
            row == [sub EXCEPT !.cursor = active, !.nextGrantAt = next]
<1>1. CASE UNCHANGED <<sub, window, lots>>
  BY <1>1, LocalUnchanged
<1>2. CASE ~UNCHANGED <<sub, window, lots>>
  <2>1. sub' = row
    BY <1>2 DEF EvaluateSubscriptionWindows
  <2>2. active \in Int /\ next \in Int
    BY DEF SubTyped, AnySubscription
  <2>. HIDE DEF active, next
  <2>3. /\ row \in AnySubscription
        /\ row.exists = sub.exists /\ row.anchor = sub.anchor
        /\ row.paidThrough = sub.paidThrough /\ row.protectedFrom = sub.protectedFrom
    BY <2>2 DEF SubTyped, AnySubscription
  <2>7. sub.paidThrough \in Int
    BY DEF SubTyped, AnySubscription
  <2>. HIDE DEF row
  <2>4. lots \subseteq lots'
    BY <1>2, LotsGrow DEF EvaluateSubscriptionWindows
  <2>5. ASSUME NEW n \in Cycle, window[n].status = "granted"
        PROVE  window'[n].status = "granted"
    <3>1. ~Open(n)
      BY <2>5 DEF Open
    <3>. QED  BY <1>2, <2>5, <3>1 DEF EvaluateSubscriptionWindows
  <2>6. GrantsStand
    BY <2>4, <2>5 DEF GrantsStand
  <2>. QED  BY <2>1, <2>3, <2>6, <2>7, RowReplaced DEF NothingPaidBefore
<1>. QED  BY <1>1, <1>2

LEMMA ClockTyped ==
  ASSUME now \in Nat, NEW t \in Clock
  PROVE  t \in Int
BY DEF Clock

LEMMA HandleStands ==
  ASSUME BillingInv, NEW e \in Event, Handle(e)
  PROVE  Remote' /\ Local
<1>1. ASSUME Remote', UNCHANGED <<sub, window, lots>>
      PROVE  Remote' /\ Local
  BY <1>1, LocalUnchanged DEF BillingInv
<1>2. CASE RetrieveSubscription(e)
  BY <1>1, <1>2, RetrieveFits DEF BillingInv
<1>3. CASE \/ \E status \in {"processed", "held_anomaly"} : ResolveBillingEvent(e, status)
           \/ FailBillingEvent(e)
  BY <1>1, <1>3, InvocationFits DEF BillingInv
<1>4. ASSUME NEW t \in Clock, EvaluateAfterPayment(e, t)
      PROVE  Remote' /\ Local
  <2>1. t \in Int
    BY ClockTyped DEF BillingInv, Remote
  <2>2. UNCHANGED <<now, stripe, log, reconcile>> /\ HandlerFits'
    BY <1>4, GotoFits DEF EvaluateAfterPayment, At, BillingInv, Step
  <2>3. Local
    BY <1>4, <2>1, EvaluationStands DEF EvaluateAfterPayment, BillingInv
  <2>. QED  BY <2>2, <2>3 DEF BillingInv, Remote, StripeTyped, LogTyped
<1>5. ASSUME NEW t \in Clock, ApplyInvoicePaymentSucceeded(e, t)
      PROVE  Remote' /\ Local
  BY <1>5, ClockTyped, PaymentStands DEF BillingInv, Remote
<1>. QED
  BY <1>2, <1>3, <1>4, <1>5, InsertStands, ProjectStands, PaymentFailedStands DEF Handle

LEMMA MaintenanceStands ==
  ASSUME BillingInv, Maintenance \/ Tick
  PROVE  Remote' /\ Local
<1>1. UNCHANGED <<stripe, log, handler>>
  BY DEF Maintenance, Tick, EvaluateWindowsRoute, ReconcileReads, ReconcileRetrieves,
         ReconcileProjects, ClaimEnds
<1>2. ASSUME now' \in Nat, reconcile' \in Reconciliation
      PROVE  Remote'
  BY <1>1, <1>2 DEF BillingInv, Remote, StripeTyped, LogTyped, HandlerFits, Fits
<1>3. NoReconciliation \in Reconciliation
  BY InstantFacts DEF NoReconciliation, Reconciliation, NoSnapshot, AnySnapshot, Status, AnyOffer
<1>4. CASE Tick
  BY <1>2, <1>4, LocalUnchanged DEF Tick, BillingInv, Remote
<1>5. ASSUME NEW t \in Clock, EvaluateWindowsRoute(t)
      PROVE  Remote' /\ Local
  <2>1. t \in Int
    BY ClockTyped DEF BillingInv, Remote
  <2>. QED
    BY <1>2, <1>5, <2>1, EvaluationStands DEF EvaluateWindowsRoute, BillingInv, Remote
<1>6. CASE ReconcileReads
  <2>1. sub.lastEventCreated \in Int
    BY DEF BillingInv, SubTyped, AnySubscription
  <2>2. reconcile' \in Reconciliation
    BY <1>3, <1>6, <2>1 DEF ReconcileReads, Reconciliation
  <2>. QED  BY <1>2, <1>6, <2>2, LocalUnchanged DEF ReconcileReads, BillingInv, Remote
<1>7. CASE ReconcileRetrieves
  <2>1. reconcile' \in Reconciliation
    <3>1. Authoritative \in AnySnapshot
      BY AuthoritativeTyped DEF BillingInv, Remote
    <3>. QED  BY <1>3, <1>7, <3>1 DEF ReconcileRetrieves, Reconciliation, BillingInv, Remote
  <2>. QED  BY <1>2, <1>7, <2>1, LocalUnchanged DEF ReconcileRetrieves, BillingInv, Remote
<1>8. ASSUME NEW t \in Clock, ReconcileProjects(t)
      PROVE  Remote' /\ Local
  <2>1. reconcile.snapshot \in AnySnapshot /\ reconcile.watermark \in Int
    BY DEF BillingInv, Remote, Reconciliation
  <2>2. Remote'
    BY <1>2, <1>3, <1>8 DEF ReconcileProjects, BillingInv, Remote
  <2>3. \/ UNCHANGED <<sub, lots>>
        \/ UpdateSubscription(reconcile.snapshot, reconcile.watermark, t)
    BY <1>8 DEF ReconcileProjects
  <2>4. UNCHANGED window
    BY <1>8 DEF ReconcileProjects
  <2>5. Local
    BY <2>1, <2>3, <2>4, LocalUnchanged, UpdateStands DEF BillingInv
  <2>. QED  BY <2>2, <2>5
<1>9. ASSUME NEW status, ClaimEnds(status)
      PROVE  Remote' /\ Local
  BY <1>2, <1>9, LocalUnchanged DEF ClaimEnds, BillingInv, Remote
<1>. QED  BY <1>4, <1>5, <1>6, <1>7, <1>8, <1>9 DEF Maintenance

LEMMA BillingStep ==
  ASSUME BillingInv, [Next]_vars
  PROVE  Remote' /\ Local
<1>1. ASSUME Remote', UNCHANGED <<sub, window, lots>>
      PROVE  Remote' /\ Local
  BY <1>1, LocalUnchanged DEF BillingInv
<1>2. CASE UNCHANGED vars
  <2>1. Remote'
    BY <1>2 DEF vars, BillingInv, Remote, StripeTyped, LogTyped, HandlerFits, Fits
  <2>. QED  BY <1>1, <1>2, <2>1 DEF vars
<1>3. CASE Stripe
  BY <1>1, <1>3, StripeActs DEF Stripe, BillingInv
<1>4. CASE StripeRenews /\ UNCHANGED <<now, inbox, handler, sub, window, lots, claim, reconcile>>
  BY <1>1, <1>4, StripeRenewsFits DEF BillingInv
<1>5. ASSUME NEW e \in Event,
             Deliver(e) \/ BackoffPasses(e) \/ HandlerThrows(e) \/ HandlerDies(e)
      PROVE  Remote' /\ Local
  BY <1>1, <1>5, InvocationFits DEF BillingInv
<1>. QED
  BY <1>2, <1>3, <1>4, <1>5, HandleStands, MaintenanceStands DEF Next

LEMMA BillingStarts == Init => BillingInv
<1>. SUFFICES ASSUME Init
              PROVE  BillingInv
  OBVIOUS
<1>1. StripeTyped
  BY InstantFacts DEF Init, StripeTyped, StripeSide, Status, AnyOffer
<1>2. LogTyped
  BY DEF Init, LogTyped
<1>3. HandlerFits
  BY NoHandlerFits DEF Init, HandlerFits
<1>4. reconcile \in Reconciliation /\ now \in Nat
  BY InstantFacts
  DEF Init, NoReconciliation, Reconciliation, NoSnapshot, AnySnapshot, Status, AnyOffer
<1>5. SubTyped /\ NothingPaidBefore
  BY InstantFacts
  DEF Init, SubTyped, AnySubscription, NothingPaidBefore, NoSubscription, Status, AnyOffer
<1>. QED  BY <1>1, <1>2, <1>3, <1>4, <1>5 DEF BillingInv, Remote

(***************************************************************************)
(* Whatever is replayed, delayed, repeated or cut short: the row of the    *)
(* subscription keeps its anchor, its paid time and the start of its       *)
(* protection, granted windows stay granted and the ledger only grows.     *)
(***************************************************************************)
THEOREM ProvenStands == Spec => HistoryStands
<1>1. Init => BillingInv
  BY BillingStarts
<1>2. BillingInv /\ [Next]_vars => BillingInv'
  BY BillingStep DEF BillingInv, Local
<1>3. BillingInv /\ [Next]_vars
        => [/\ sub.exists => sub'.exists /\ sub'.anchor = sub.anchor
            /\ sub.paidThrough <= sub'.paidThrough
            /\ sub.protectedFrom # Never => sub'.protectedFrom = sub.protectedFrom
            /\ \A n \in Cycle : window[n].status = "granted" => window'[n].status = "granted"
            /\ lots \subseteq lots']_vars
  BY BillingStep DEF Local, RowStands, GrantsStand
<1>. QED  BY <1>1, <1>2, <1>3, PTL DEF Spec, HistoryStands

(***************************************************************************)
(* The rate protection has its evidence.  The payment is in the log: every *)
(* invoice ends after time 0, so a payment event means Stripe was paid.    *)
(***************************************************************************)
InvoicesReal ==
  /\ stripe.status # "none" => stripe.start \in Nat
  /\ \A invoice \in stripe.invoices : invoice.end > 0
PaidIsReal == (\E e \in 1..Len(log) : log[e].type = Payment) => stripe.paid > 0
Evidence == InvoicesReal /\ PaidIsReal

LEMMA OtherEventEmitted ==
  ASSUME LogTyped, PaidIsReal, NEW type, type # Payment, NEW second, NEW body,
         Emit(type, second, body), stripe'.paid = stripe.paid
  PROVE  PaidIsReal'
<1>. DEFINE row == [type |-> type, created |-> second, body |-> body]
<1>1. log' = Append(log, row)
  BY DEF Emit
<1>2. row.type = type
  OBVIOUS
<1>. HIDE DEF row
<1>3. /\ Len(log) \in Nat /\ Len(log') = Len(log) + 1
      /\ \A e \in 1..Len(log) : log'[e] = log[e]
      /\ log'[Len(log) + 1] = row
  BY <1>1 DEF LogTyped
<1>4. ASSUME NEW e \in 1..Len(log'), log'[e].type = Payment
      PROVE  stripe'.paid > 0
  <2>1. e # Len(log) + 1
    BY <1>2, <1>3, <1>4
  <2>2. e \in 1..Len(log)
    BY <1>3, <2>1
  <2>3. log[e].type = Payment
    BY <1>3, <1>4, <2>2
  <2>. QED  BY <2>2, <2>3 DEF PaidIsReal
<1>. QED  BY <1>4 DEF PaidIsReal

LEMMA StripeEvidence ==
  ASSUME Remote, Evidence, Stripe
  PROVE  Evidence' /\ stripe'.paid >= stripe.paid
<1>. USE DEF Remote
<1>1. PICK second \in Seconds :
        \/ \E status \in LiveStatus, offer \in Starts : StripeCreates(second, status, offer)
        \/ \E status \in LiveStatus, offer \in Offer : StripeUpdates(second, status, offer)
        \/ StripeDeletes(second)
        \/ \E invoice \in stripe.invoices : StripeIsPaid(second, invoice)
        \/ StripeIsNotPaid(second)
  BY DEF Stripe
<1>2. stripe.paid \in Int /\ Term \in Nat \ {0} /\ now \in Nat
  BY BillingAssumption DEF StripeTyped, StripeSide
<1>3. ASSUME NEW status, NEW offer, StripeCreates(second, status, offer)
      PROVE  Evidence' /\ stripe'.paid >= stripe.paid
  <2>1. /\ stripe'.paid = stripe.paid /\ stripe'.start = now
        /\ stripe'.invoices = {[end |-> now + Term]}
    BY <1>3 DEF StripeCreates, StripeTyped, StripeSide
  <2>2. InvoicesReal'
    BY <1>2, <2>1 DEF InvoicesReal
  <2>3. PaidIsReal'
    BY <1>3, <2>1, OtherEventEmitted DEF StripeCreates, Evidence, Payment
  <2>. QED  BY <1>2, <2>1, <2>2, <2>3 DEF Evidence
<1>4. ASSUME NEW type, type # Payment, NEW body, Emit(type, second, body),
             stripe.status # "none" \/ stripe'.status = stripe.status,
             stripe'.start = stripe.start, stripe'.invoices = stripe.invoices,
             stripe'.paid = stripe.paid
      PROVE  Evidence' /\ stripe'.paid >= stripe.paid
  <2>1. PaidIsReal'
    BY <1>4, OtherEventEmitted DEF Evidence
  <2>2. InvoicesReal'
    BY <1>4 DEF Evidence, InvoicesReal
  <2>. QED  BY <1>2, <1>4, <2>1, <2>2 DEF Evidence
<1>5. ASSUME NEW status, NEW offer, StripeUpdates(second, status, offer)
      PROVE  Evidence' /\ stripe'.paid >= stripe.paid
  <2>1. /\ stripe'.start = stripe.start /\ stripe'.invoices = stripe.invoices
        /\ stripe'.paid = stripe.paid
    BY <1>5 DEF StripeUpdates, StripeTyped, StripeSide
  <2>. QED  BY <1>4, <1>5, <2>1 DEF StripeUpdates, Payment
<1>6. CASE StripeDeletes(second)
  <2>1. /\ stripe'.start = stripe.start /\ stripe'.invoices = stripe.invoices
        /\ stripe'.paid = stripe.paid
    BY <1>6 DEF StripeDeletes, StripeTyped, StripeSide
  <2>. QED  BY <1>4, <1>6, <2>1 DEF StripeDeletes, Payment
<1>7. ASSUME NEW invoice \in stripe.invoices, StripeIsPaid(second, invoice)
      PROVE  Evidence' /\ stripe'.paid >= stripe.paid
  <2>1. invoice.end \in Int /\ invoice.end > 0
    BY DEF StripeTyped, StripeSide, AnyInvoice, Evidence, InvoicesReal
  <2>2. /\ stripe'.start = stripe.start /\ stripe'.status = stripe.status
        /\ stripe'.invoices \subseteq stripe.invoices
        /\ stripe'.paid = Later(stripe.paid, invoice.end)
    BY <1>7 DEF StripeIsPaid, StripeTyped, StripeSide
  <2>3. stripe'.paid > 0 /\ stripe'.paid >= stripe.paid
    BY <1>2, <2>1, <2>2 DEF Later
  <2>. QED  BY <2>2, <2>3 DEF Evidence, InvoicesReal, PaidIsReal
<1>8. CASE StripeIsNotPaid(second)
  <2>1. /\ stripe'.start = stripe.start /\ stripe'.invoices = stripe.invoices
        /\ stripe'.paid = stripe.paid /\ stripe'.status = stripe.status
    BY <1>8 DEF StripeIsNotPaid, StripeTyped, StripeSide
  <2>. QED  BY <1>4, <1>8, <2>1 DEF StripeIsNotPaid, Payment
<1>. QED  BY <1>1, <1>3, <1>5, <1>6, <1>7, <1>8

LEMMA RenewalEvidence ==
  ASSUME Remote, Evidence, StripeRenews
  PROVE  Evidence' /\ stripe'.paid = stripe.paid
<1>1. stripe.start \in Nat /\ Term \in Nat \ {0}
  BY BillingAssumption DEF StripeRenews, Evidence, InvoicesReal
<1>. DEFINE start == stripe.start + Term
            renewal == [end |-> start + Term]
<1>2. start \in Nat /\ renewal.end > 0
  BY <1>1
<1>3. /\ stripe'.start = start /\ stripe'.invoices = stripe.invoices \cup {renewal}
      /\ stripe'.paid = stripe.paid
  BY DEF StripeRenews, Remote, StripeTyped, StripeSide
<1>. HIDE DEF start, renewal
<1>4. UNCHANGED log
  BY DEF StripeRenews
<1>. QED  BY <1>2, <1>3, <1>4 DEF Evidence, InvoicesReal, PaidIsReal

LEMMA EvidenceKept ==
  ASSUME Evidence, UNCHANGED log,
         UNCHANGED <<stripe.status, stripe.start, stripe.invoices, stripe.paid>>
  PROVE  Evidence'
BY DEF Evidence, InvoicesReal, PaidIsReal

\* Only Stripe changes its side, up to the receipts.
ReceiptsOnly ==
  /\ UNCHANGED log
  /\ UNCHANGED <<stripe.status, stripe.start, stripe.invoices, stripe.paid>>

LEMMA Acknowledged ==
  ASSUME StripeTyped, NEW receipts,
         stripe' = [stripe EXCEPT !.acknowledged = receipts]
  PROVE  UNCHANGED <<stripe.status, stripe.start, stripe.invoices, stripe.paid>>
BY DEF StripeTyped, StripeSide

LEMMA InboxReceipts ==
  ASSUME StripeTyped, NEW e \in Event,
         Deliver(e) \/ BackoffPasses(e) \/ Handle(e) \/ HandlerThrows(e) \/ HandlerDies(e)
  PROVE  ReceiptsOnly
<1>1. ASSUME UNCHANGED <<stripe, log>>
      PROVE  ReceiptsOnly
  BY <1>1 DEF ReceiptsOnly
<1>2. ASSUME NEW receipts, stripe' = [stripe EXCEPT !.acknowledged = receipts], UNCHANGED log
      PROVE  ReceiptsOnly
  BY <1>2, Acknowledged DEF ReceiptsOnly
<1>3. CASE Deliver(e)
  BY <1>1, <1>2, <1>3 DEF Deliver, ClaimBillingEvent, Deduplicate
<1>4. ASSUME NEW status, ResolveBillingEvent(e, status)
      PROVE  ReceiptsOnly
  BY <1>2, <1>4 DEF ResolveBillingEvent
<1>5. CASE FailBillingEvent(e)
  BY <1>1, <1>2, <1>5 DEF FailBillingEvent
<1>6. CASE \/ RetrieveSubscription(e) \/ InsertSubscription(e)
           \/ \E t \in Clock : ProjectSubscriptionSnapshot(e, t)
           \/ \E t \in Clock : ApplyInvoicePaymentSucceeded(e, t)
           \/ \E t \in Clock : EvaluateAfterPayment(e, t)
           \/ ApplyInvoicePaymentFailed(e)
  BY <1>1, <1>6 DEF RetrieveSubscription, InsertSubscription, ProjectSubscriptionSnapshot,
     ApplyInvoicePaymentSucceeded, EvaluateAfterPayment, ApplyInvoicePaymentFailed
<1>7. CASE BackoffPasses(e) \/ HandlerThrows(e) \/ HandlerDies(e)
  BY <1>1, <1>7 DEF BackoffPasses, HandlerThrows, HandlerDies
<1>. QED  BY <1>3, <1>4, <1>5, <1>6, <1>7 DEF Handle

LEMMA EvidenceStep ==
  ASSUME BillingInv, Evidence, [Next]_vars
  PROVE  Evidence' /\ stripe'.paid >= stripe.paid
<1>1. stripe.paid \in Int
  BY DEF BillingInv, Remote, StripeTyped, StripeSide
<1>2. ASSUME ReceiptsOnly
      PROVE  Evidence' /\ stripe'.paid >= stripe.paid
  BY <1>1, <1>2, EvidenceKept DEF ReceiptsOnly
<1>3. CASE Stripe
  BY <1>3, StripeEvidence DEF BillingInv
<1>4. CASE StripeRenews /\ UNCHANGED <<now, inbox, handler, sub, window, lots, claim, reconcile>>
  BY <1>1, <1>4, RenewalEvidence DEF BillingInv
<1>5. CASE Maintenance \/ Tick
  BY <1>2, <1>5 DEF ReceiptsOnly, Maintenance, Tick, EvaluateWindowsRoute, ReconcileReads,
     ReconcileRetrieves, ReconcileProjects, ClaimEnds
<1>6. ASSUME NEW e \in Event,
             Deliver(e) \/ BackoffPasses(e) \/ Handle(e) \/ HandlerThrows(e) \/ HandlerDies(e)
      PROVE  Evidence' /\ stripe'.paid >= stripe.paid
  BY <1>2, <1>6, InboxReceipts DEF BillingInv, Remote
<1>7. CASE UNCHANGED vars
  BY <1>2, <1>7 DEF vars, ReceiptsOnly
<1>. QED  BY <1>3, <1>4, <1>5, <1>6, <1>7 DEF Next

\* The clock of the protection is started by the claim's redemption and
\* against the log: an invocation that pays has a payment of Stripe's.
ClockKept == sub'.protectedFrom = sub.protectedFrom /\ (claim = "redeemed" => claim' = "redeemed")

LEMMA PaymentProtects ==
  ASSUME BillingInv, Evidence, NEW e \in Event, NEW t \in Int, ApplyInvoicePaymentSucceeded(e, t)
  PROVE  ClockKept \/ (claim' = "redeemed" /\ stripe.paid > 0)
<1>1. handler[e].pc = "pay" /\ e \in 1..Len(log) /\ log[e].type = Payment
  BY DEF ApplyInvoicePaymentSucceeded, At, BillingInv, Remote, HandlerFits, Fits
<1>2. stripe.paid > 0
  BY <1>1 DEF Evidence, PaidIsReal
<1>3. CASE ~sub.exists
  BY <1>3 DEF ApplyInvoicePaymentSucceeded, ClockKept
<1>4. CASE sub.exists /\ Protects
  BY <1>2, <1>4 DEF ApplyInvoicePaymentSucceeded, Protects
<1>5. CASE sub.exists /\ ~Protects
  <2>1. sub'.protectedFrom = sub.protectedFrom
    BY <1>5 DEF ApplyInvoicePaymentSucceeded, BillingInv, SubTyped, AnySubscription
  <2>2. claim' = claim
    BY <1>5 DEF ApplyInvoicePaymentSucceeded
  <2>. QED  BY <2>1, <2>2 DEF ClockKept
<1>. QED  BY <1>3, <1>4, <1>5

LEMMA OthersKeepClock ==
  ASSUME SubTyped, NothingPaidBefore,
         \/ \E snapshot, created, t : UpdateSubscription(snapshot, created, t)
         \/ \E e \in Event : InsertSubscription(e) \/ ApplyInvoicePaymentFailed(e)
         \/ \E t : EvaluateSubscriptionWindows(t)
  PROVE  sub'.protectedFrom = sub.protectedFrom
<1>. USE DEF SubTyped, AnySubscription
<1>1. ASSUME NEW snapshot, NEW created, NEW t, UpdateSubscription(snapshot, created, t)
      PROVE  sub'.protectedFrom = sub.protectedFrom
  BY <1>1 DEF UpdateSubscription
<1>2. ASSUME NEW e \in Event, InsertSubscription(e)
      PROVE  sub'.protectedFrom = sub.protectedFrom
  BY <1>2 DEF InsertSubscription, NoSubscription, NothingPaidBefore
<1>3. ASSUME NEW e \in Event, ApplyInvoicePaymentFailed(e)
      PROVE  sub'.protectedFrom = sub.protectedFrom
  BY <1>3 DEF ApplyInvoicePaymentFailed
<1>4. ASSUME NEW t, EvaluateSubscriptionWindows(t)
      PROVE  sub'.protectedFrom = sub.protectedFrom
  BY <1>4 DEF EvaluateSubscriptionWindows
<1>. QED  BY <1>1, <1>2, <1>3, <1>4

LEMMA ProtectionStep ==
  ASSUME BillingInv, Evidence, [Next]_vars
  PROVE  ClockKept \/ (claim' = "redeemed" /\ stripe.paid > 0)
<1>1. ASSUME UNCHANGED <<sub, claim>>
      PROVE  ClockKept
  BY <1>1 DEF ClockKept
<1>2. ASSUME sub'.protectedFrom = sub.protectedFrom, UNCHANGED claim
      PROVE  ClockKept
  BY <1>2 DEF ClockKept
<1>3. CASE UNCHANGED vars
  BY <1>1, <1>3 DEF vars
<1>4. CASE Stripe
  BY <1>1, <1>4 DEF Stripe
<1>5. CASE StripeRenews /\ UNCHANGED <<now, inbox, handler, sub, window, lots, claim, reconcile>>
  BY <1>1, <1>5
<1>6. CASE Tick
  BY <1>1, <1>6 DEF Tick
<1>7. CASE Maintenance
  <2>1. CASE ReconcileReads \/ ReconcileRetrieves
    BY <1>1, <2>1 DEF ReconcileReads, ReconcileRetrieves
  <2>2. ASSUME NEW t, EvaluateWindowsRoute(t)
        PROVE  ClockKept
    BY <1>2, <2>2, OthersKeepClock DEF EvaluateWindowsRoute, BillingInv
  <2>3. ASSUME NEW t, ReconcileProjects(t)
        PROVE  ClockKept
    BY <1>1, <1>2, <2>3, OthersKeepClock DEF ReconcileProjects, BillingInv
  <2>4. ASSUME NEW status, ClaimEnds(status)
        PROVE  ClockKept
    BY <2>4 DEF ClaimEnds, ClockKept
  <2>. QED  BY <1>7, <2>1, <2>2, <2>3, <2>4 DEF Maintenance
<1>8. ASSUME NEW e \in Event,
             \/ Deliver(e) \/ BackoffPasses(e) \/ HandlerThrows(e) \/ HandlerDies(e)
             \/ RetrieveSubscription(e) \/ FailBillingEvent(e)
      PROVE  ClockKept
  BY <1>1, <1>8 DEF Deliver, ClaimBillingEvent, Deduplicate, BackoffPasses, HandlerThrows,
     HandlerDies, RetrieveSubscription, FailBillingEvent
<1>9. ASSUME NEW e \in Event, Handle(e)
      PROVE  ClockKept \/ (claim' = "redeemed" /\ stripe.paid > 0)
  <2>1. CASE RetrieveSubscription(e) \/ FailBillingEvent(e)
    BY <1>8, <2>1
  <2>2. ASSUME NEW status, ResolveBillingEvent(e, status)
        PROVE  ClockKept
    BY <1>1, <2>2 DEF ResolveBillingEvent
  <2>3. CASE InsertSubscription(e)
    BY <1>2, <2>3, OthersKeepClock DEF InsertSubscription, BillingInv
  <2>4. CASE ApplyInvoicePaymentFailed(e)
    BY <1>2, <2>4, OthersKeepClock DEF ApplyInvoicePaymentFailed, BillingInv
  <2>5. ASSUME NEW t, ProjectSubscriptionSnapshot(e, t)
        PROVE  ClockKept
    BY <1>1, <1>2, <2>5, OthersKeepClock DEF ProjectSubscriptionSnapshot, BillingInv
  <2>6. ASSUME NEW t \in Clock, ApplyInvoicePaymentSucceeded(e, t)
        PROVE  ClockKept \/ (claim' = "redeemed" /\ stripe.paid > 0)
    BY <2>6, ClockTyped, PaymentProtects DEF BillingInv, Remote
  <2>7. ASSUME NEW t, EvaluateAfterPayment(e, t)
        PROVE  ClockKept
    BY <1>2, <2>7, OthersKeepClock DEF EvaluateAfterPayment, BillingInv
  <2>. QED  BY <1>9, <2>1, <2>2, <2>3, <2>4, <2>5, <2>6, <2>7 DEF Handle
<1>. QED  BY <1>3, <1>4, <1>5, <1>6, <1>7, <1>8, <1>9 DEF Next

(***************************************************************************)
(* Whatever the order of events, checkouts and claims: a subscription is   *)
(* protected only when the claim of its salon was redeemed and Stripe was  *)
(* paid an invoice.  The redemption and the payment precede the clock of   *)
(* the protection, and no later step undoes either.                        *)
(***************************************************************************)
THEOREM ProtectionHasEvidence == Spec => []ProtectionProven
<1>. DEFINE Inv == BillingInv /\ Evidence /\ ProtectionProven
<1>1. Init => Inv
  <2>1. Init => Evidence
    BY DEF Init, Evidence, InvoicesReal, PaidIsReal
  <2>2. Init => ProtectionProven
    BY DEF Init, ProtectionProven, NoSubscription
  <2>. QED  BY <2>1, <2>2, BillingStarts
<1>2. Inv /\ [Next]_vars => Inv'
  <2>. SUFFICES ASSUME Inv, [Next]_vars
                PROVE  Inv'
    OBVIOUS
  <2>1. BillingInv'
    BY BillingStep DEF BillingInv, Local
  <2>2. Evidence' /\ stripe'.paid >= stripe.paid
    BY EvidenceStep
  <2>3. stripe.paid \in Int /\ stripe'.paid \in Int
    BY <2>1 DEF BillingInv, Remote, StripeTyped, StripeSide
  <2>4. ProtectionProven'
    BY <2>2, <2>3, ProtectionStep DEF ProtectionProven, ClockKept
  <2>. QED  BY <2>1, <2>2, <2>4
<1>. QED  BY <1>1, <1>2, PTL DEF Spec

(***************************************************************************)
(* What is granted.  On top of the above, the invariant says where things  *)
(* come from: an event is about a subscription that began and, if it is a  *)
(* payment, Stripe has it (StripeReal); an invocation carries such a       *)
(* snapshot and has attempts left to fail (HandlersReal); the row names    *)
(* offers the code knows and no time that is not paid (RowReal); a granted *)
(* window is paid to its end, a lot belongs to one, and what was granted   *)
(* of a month reaches the allowance of every key in use (AccountReal).     *)
(***************************************************************************)
AboutRow == {"subscription.created", "subscription.updated", "subscription.deleted"}
Moment == Nat \cup {Never}

EventReal(e) ==
  /\ log[e].created \in Nat
  /\ log[e].type = Payment => log[e].body.end \in 1..stripe.paid
  /\ log[e].type \in AboutRow => log[e].body.start \in Nat
StripeReal ==
  /\ now <= MaxTime /\ Len(log) <= MaxEvents
  /\ stripe.second \in Nat /\ stripe.paid \in Nat
  /\ stripe.status = "none" => Len(log) = 0 /\ stripe.invoices = {}
  /\ \A e \in 1..Len(log) : EventReal(e)

AttemptsLeft(row) ==
  /\ row.attempts <= MaxAttempts
  /\ row.status \in {"none", "failed_retryable"} => row.attempts < MaxAttempts
Reads(h, e) ==
  /\ h.snapshot \in Snapshot \cup Invoice
  /\ h.pc = "retrieve" => log[e].type \in AboutRow
  /\ h.pc \in {"project", "insert"} => h.snapshot.start \in Nat
  /\ h.pc = "insert" => h.snapshot.offer \in Catalogue
HandlersReal == \A e \in Event : AttemptsLeft(inbox[e]) /\ Reads(handler[e], e)

Sources == StripeReal /\ HandlersReal
SourcesInv == InboxInv /\ BillingInv /\ Evidence /\ Sources

LEMMA BodyTypes ==
  /\ AnySnapshot = Snapshot
  /\ Invoice \subseteq AnyInvoice
  /\ \A i \in AnyInvoice : i.end \in Nat => i \in Invoice
<1>1. Instant = Nat \cup {Never}
  BY DEF Instant, Never
<1>2. AnySnapshot = Snapshot
  BY <1>1 DEF AnySnapshot, Snapshot, AnyOffer
<1>. QED  BY <1>2 DEF AnyInvoice, Invoice

\* What an event of the log says is real.
LEMMA EventBody ==
  ASSUME Remote, StripeReal, NEW e \in 1..Len(log)
  PROVE  /\ log[e].body \in Snapshot \cup Invoice
         /\ log[e].created \in Nat
         /\ log[e].type \in AboutRow => log[e].body \in Snapshot /\ log[e].body.start \in Nat
         /\ log[e].type = Payment => log[e].body \in Invoice /\ log[e].body.end \in 1..stripe.paid
<1>1. /\ IF log[e].type = Payment THEN log[e].body \in AnyInvoice ELSE log[e].body \in AnySnapshot
      /\ EventReal(e)
  BY DEF Remote, LogTyped, StripeReal
<1>2. Payment \notin AboutRow
  BY DEF Payment, AboutRow
<1>3. stripe.paid \in Nat
  BY DEF StripeReal
<1>4. log[e].type = Payment => log[e].body.end \in Nat
  BY <1>1, <1>3 DEF EventReal
<1>. QED  BY <1>1, <1>2, <1>4, BodyTypes DEF EventReal

\* A new event joins the log; Stripe's receipts only grow.
LEMMA EmittedReal ==
  ASSUME LogTyped, HandlerFits, Sources, UNCHANGED <<now, inbox, handler>>,
         NEW type, NEW second \in Nat, NEW body, Emit(type, second, body),
         stripe'.paid \in Nat, stripe.paid <= stripe'.paid,
         stripe'.second = second, stripe'.status # "none",
         type = Payment => body.end \in 1..stripe'.paid,
         type \in AboutRow => body.start \in Nat
  PROVE  Sources'
<1>. DEFINE row == [type |-> type, created |-> second, body |-> body]
<1>1. log' = Append(log, row) /\ Len(log) < MaxEvents
  BY DEF Emit
<1>2. row.type = type /\ row.created = second /\ row.body = body
  OBVIOUS
<1>. HIDE DEF row
<1>3. /\ Len(log) \in Nat /\ Len(log') = Len(log) + 1
      /\ \A e \in 1..Len(log) : log'[e] = log[e]
      /\ log'[Len(log) + 1] = row
  BY <1>1 DEF LogTyped
<1>4. ASSUME NEW e \in 1..Len(log')
      PROVE  EventReal(e)'
  <2>1. CASE e \in 1..Len(log)
    <3>1. EventReal(e) /\ log'[e] = log[e] /\ stripe.paid \in Nat
      BY <1>3, <2>1 DEF Sources, StripeReal
    <3>. QED  BY <3>1 DEF EventReal
  <2>2. CASE e = Len(log) + 1
    BY <1>2, <1>3, <2>2 DEF EventReal
  <2>. QED  BY <1>3, <2>1, <2>2
<1>5. StripeReal'
  BY <1>1, <1>3, <1>4, BillingAssumption DEF Sources, StripeReal
<1>6. ASSUME NEW e \in Event
      PROVE  AttemptsLeft(inbox[e])' /\ Reads(handler[e], e)'
  <2>1. handler[e].pc = "retrieve" => log'[e] = log[e]
    BY <1>3 DEF HandlerFits, Fits
  <2>. QED  BY <2>1 DEF Sources, HandlersReal, AttemptsLeft, Reads
<1>. QED  BY <1>5, <1>6 DEF Sources, HandlersReal

LEMMA StripeSources ==
  ASSUME SourcesInv, Stripe
  PROVE  Sources'
<1>. USE DEF SourcesInv, BillingInv, Remote
<1>1. PICK second \in Seconds :
        \/ \E status \in LiveStatus, offer \in Starts : StripeCreates(second, status, offer)
        \/ \E status \in LiveStatus, offer \in Offer : StripeUpdates(second, status, offer)
        \/ StripeDeletes(second)
        \/ \E invoice \in stripe.invoices : StripeIsPaid(second, invoice)
        \/ StripeIsNotPaid(second)
  BY DEF Stripe
<1>2. UNCHANGED <<now, inbox, handler>>
  BY DEF Stripe
<1>3. second \in Nat /\ stripe.paid \in Nat
  BY DEF Seconds, Sources, StripeReal
<1>4. ASSUME NEW type \in AboutRow, Emit(type, second, Authoritative'),
             stripe'.second = second, stripe'.paid = stripe.paid, stripe'.status # "none",
             stripe'.start \in Nat
      PROVE  Sources'
  <2>1. type # Payment
    BY DEF AboutRow, Payment
  <2>2. PICK body : body = Authoritative'
    OBVIOUS
  <2>3. body.start \in Nat
    BY <1>4, <2>2 DEF Authoritative
  <2>. QED  BY <1>2, <1>3, <1>4, <2>1, <2>2, <2>3, EmittedReal
<1>5. LiveStatus \subseteq {"active", "past_due", "incomplete"}
  BY BillingAssumption
<1>6. ASSUME NEW status \in LiveStatus, NEW offer, StripeCreates(second, status, offer)
      PROVE  Sources'
  <2>1. /\ stripe'.second = second /\ stripe'.paid = stripe.paid /\ stripe'.status = status
        /\ stripe'.start = now
    BY <1>6 DEF StripeCreates, StripeTyped, StripeSide
  <2>. QED  BY <1>4, <1>5, <1>6, <2>1 DEF StripeCreates, AboutRow
<1>7. ASSUME NEW status \in LiveStatus, NEW offer, StripeUpdates(second, status, offer)
      PROVE  Sources'
  <2>1. /\ stripe'.second = second /\ stripe'.paid = stripe.paid /\ stripe'.status = status
        /\ stripe'.start = stripe.start
    BY <1>7 DEF StripeUpdates, StripeTyped, StripeSide
  <2>2. stripe.start \in Nat
    BY <1>7 DEF StripeUpdates, Evidence, InvoicesReal
  <2>. QED  BY <1>4, <1>5, <1>7, <2>1, <2>2 DEF StripeUpdates, AboutRow
<1>8. CASE StripeDeletes(second)
  <2>1. /\ stripe'.second = second /\ stripe'.paid = stripe.paid /\ stripe'.status = "canceled"
        /\ stripe'.start = stripe.start
    BY <1>8 DEF StripeDeletes, StripeTyped, StripeSide
  <2>2. stripe.start \in Nat
    BY <1>8 DEF StripeDeletes, Evidence, InvoicesReal
  <2>. QED  BY <1>4, <1>8, <2>1, <2>2 DEF StripeDeletes, AboutRow
<1>9. ASSUME NEW invoice \in stripe.invoices, StripeIsPaid(second, invoice)
      PROVE  Sources'
  <2>1. invoice.end \in Int /\ invoice.end > 0
    BY DEF StripeTyped, StripeSide, AnyInvoice, Evidence, InvoicesReal
  <2>2. /\ stripe'.second = second /\ stripe'.paid = Later(stripe.paid, invoice.end)
        /\ stripe'.status = stripe.status
    BY <1>9 DEF StripeIsPaid, StripeTyped, StripeSide
  <2>3. stripe'.paid \in Nat /\ stripe.paid <= stripe'.paid /\ invoice.end \in 1..stripe'.paid
    BY <1>3, <2>1, <2>2 DEF Later
  <2>4. stripe.status # "none"
    BY DEF Sources, StripeReal
  <2>5. Payment \notin AboutRow /\ Emit(Payment, second, invoice)
    BY <1>9 DEF StripeIsPaid, AboutRow, Payment
  <2>. QED  BY <1>2, <1>3, <2>2, <2>3, <2>4, <2>5, EmittedReal
<1>10. CASE StripeIsNotPaid(second)
  <2>1. /\ stripe'.second = second /\ stripe'.paid = stripe.paid
        /\ stripe'.status = stripe.status
    BY <1>10 DEF StripeIsNotPaid, StripeTyped, StripeSide
  <2>2. stripe.status # "none"
    BY <1>10 DEF StripeIsNotPaid, Sources, StripeReal
  <2>3. /\ "invoice.payment_failed" \notin AboutRow /\ "invoice.payment_failed" # Payment
        /\ Emit("invoice.payment_failed", second, NoSnapshot)
    BY <1>10 DEF StripeIsNotPaid, AboutRow, Payment
  <2>. QED  BY <1>2, <1>3, <2>1, <2>2, <2>3, EmittedReal
<1>. QED  BY <1>1, <1>6, <1>7, <1>8, <1>9, <1>10

\* Steps that leave the log alone.
LEMMA StripeStaysReal ==
  ASSUME StripeReal, UNCHANGED log, now' <= MaxTime,
         stripe'.second = stripe.second, stripe'.paid = stripe.paid,
         stripe'.status = stripe.status,
         stripe'.status = "none" => stripe'.invoices = stripe.invoices
  PROVE  StripeReal'
BY DEF StripeReal, EventReal

LEMMA HandlersStayReal ==
  ASSUME HandlersReal, UNCHANGED <<log, inbox, handler>>
  PROVE  HandlersReal'
BY DEF HandlersReal, AttemptsLeft, Reads

\* An invocation that moves, and the row of its event.
LEMMA HandlerReal ==
  ASSUME HandlersReal, InboxInv, UNCHANGED log, NEW e \in Event,
         NEW h, handler' = [handler EXCEPT ![e] = h], Reads(h, e),
         NEW row, inbox' = [inbox EXCEPT ![e] = row], AttemptsLeft(row)
  PROVE  HandlersReal'
<1>1. ASSUME NEW f \in Event
      PROVE  /\ inbox'[f] = inbox[f] \/ inbox'[f] = row
             /\ handler'[f] = handler[f] \/ (f = e /\ handler'[f] = h)
  BY DEF InboxInv, InboxTyped
<1>2. \A x, f : Reads(x, f)' <=> Reads(x, f)
  BY DEF Reads
<1>3. \A x : AttemptsLeft(x)' <=> AttemptsLeft(x)
  BY DEF AttemptsLeft
<1>. QED  BY <1>1, <1>2, <1>3 DEF HandlersReal

LEMMA NoHandlerReads ==
  ASSUME NEW e
  PROVE  Reads(NoHandler, e)
<1>1. NoSnapshot \in Snapshot
  BY DEF NoSnapshot, Snapshot, Status
<1>. QED  BY <1>1 DEF Reads, NoHandler

LEMMA RowAsItWas ==
  ASSUME InboxInv, HandlersReal, NEW e \in Event, UNCHANGED inbox
  PROVE  inbox' = [inbox EXCEPT ![e] = inbox[e]] /\ AttemptsLeft(inbox[e])
BY DEF InboxInv, InboxTyped, HandlersReal

LEMMA GotoReads ==
  ASSUME HandlersReal, InboxInv, HandlerFits, NEW e \in Event, UNCHANGED <<log, inbox>>,
         NEW pc \in Step \ {"retrieve", "project"}, Goto(e, pc),
         pc = "insert" => handler[e].pc = "project" /\ handler[e].snapshot.offer \in Catalogue
  PROVE  HandlersReal'
<1>. DEFINE h == [handler[e] EXCEPT !.pc = pc]
<1>1. h.pc = pc /\ h.snapshot = handler[e].snapshot
  BY DEF HandlerFits, Fits, Invocation
<1>2. handler' = [handler EXCEPT ![e] = h]
  BY DEF Goto
<1>. HIDE DEF h
<1>3. Reads(h, e)
  BY <1>1 DEF Reads, HandlersReal
<1>. QED  BY <1>2, <1>3, RowAsItWas, HandlerReal

LEMMA DeliverySources ==
  ASSUME SourcesInv, NEW e \in Event, Deliver(e) \/ BackoffPasses(e)
  PROVE  Sources'
<1>. USE DEF SourcesInv, BillingInv, Remote, Sources
<1>1. ASSUME StripeTyped, NEW receipts, stripe' = [stripe EXCEPT !.acknowledged = receipts],
             UNCHANGED <<now, log>>
      PROVE  StripeReal'
  <2>1. /\ stripe'.second = stripe.second /\ stripe'.paid = stripe.paid
        /\ stripe'.status = stripe.status /\ stripe'.invoices = stripe.invoices
    BY <1>1 DEF StripeTyped, StripeSide
  <2>. QED  BY <1>1, <2>1, StripeStaysReal DEF StripeReal
<1>2. ASSUME UNCHANGED <<now, log, stripe>>
      PROVE  StripeReal'
  BY <1>2, StripeStaysReal DEF StripeReal
<1>3. CASE ClaimBillingEvent(e) /\ e \in DOMAIN log
  <2>. DEFINE h == [pc |-> FirstStep(log[e].type), snapshot |-> log[e].body]
              row == [status |-> "processing", attempts |-> inbox[e].attempts + 1, due |-> FALSE]
  <2>1. e \in 1..Len(log)
    BY <1>3 DEF LogTyped
  <2>9. log[e] \in LogRow
    BY <2>1, ElementOfSeq DEF LogTyped
  <2>2. log[e].type \in EventType
    BY <2>9 DEF LogRow
  <2>3. /\ h.pc \in {"project", "retrieve"} => log[e].type \in AboutRow
        /\ h.pc # "insert" /\ h.snapshot = log[e].body
    BY <2>2 DEF FirstStep, AboutRow, EventType
  <2>4. Reads(h, e)
    BY <2>1, <2>3, EventBody DEF Reads
  <2>5. inbox[e].attempts \in Nat /\ inbox[e].attempts < MaxAttempts
    BY <1>3 DEF InboxInv, InboxTyped, InboxRow, HandlersReal, AttemptsLeft, ClaimBillingEvent,
                Claimable
  <2>6. AttemptsLeft(row)
    BY <2>5, BillingAssumption DEF AttemptsLeft
  <2>7. handler' = [handler EXCEPT ![e] = h] /\ inbox' = [inbox EXCEPT ![e] = row]
    BY <1>3 DEF ClaimBillingEvent
  <2>8. UNCHANGED <<now, log, stripe>>
    BY <1>3 DEF ClaimBillingEvent
  <2>. HIDE DEF h, row
  <2>. QED  BY <1>2, <2>4, <2>6, <2>7, <2>8, HandlerReal
<1>4. CASE Deduplicate(e)
  BY <1>1, <1>4, HandlersStayReal DEF Deduplicate
<1>5. CASE BackoffPasses(e)
  <2>. DEFINE row == [inbox[e] EXCEPT !.due = TRUE]
  <2>1. row.status = inbox[e].status /\ row.attempts = inbox[e].attempts
    BY DEF InboxInv, InboxTyped, InboxRow
  <2>2. inbox' = [inbox EXCEPT ![e] = row] /\ UNCHANGED handler
    BY <1>5 DEF BackoffPasses
  <2>. HIDE DEF row
  <2>3. AttemptsLeft(row) /\ Reads(handler[e], e)
    BY <2>1 DEF HandlersReal, AttemptsLeft
  <2>5. handler' = [handler EXCEPT ![e] = handler[e]]
    BY <2>2 DEF HandlerFits
  <2>4. UNCHANGED <<now, log, stripe>>
    BY <1>5 DEF BackoffPasses
  <2>. QED  BY <1>2, <2>2, <2>3, <2>4, <2>5, HandlerReal
<1>. QED  BY <1>3, <1>4, <1>5 DEF Deliver

LEMMA OutcomeSources ==
  ASSUME SourcesInv, NEW e \in Event,
         \/ \E status \in {"processed", "held_anomaly"} : ResolveBillingEvent(e, status)
         \/ FailBillingEvent(e) \/ HandlerThrows(e) \/ HandlerDies(e)
  PROVE  Sources'
<1>. USE DEF SourcesInv, BillingInv, Remote, Sources
<1>1. StripeReal'
  <2>1. UNCHANGED <<now, log>>
    BY DEF ResolveBillingEvent, FailBillingEvent, HandlerThrows, HandlerDies
  <2>2. /\ stripe'.second = stripe.second /\ stripe'.paid = stripe.paid
        /\ stripe'.status = stripe.status /\ stripe'.invoices = stripe.invoices
    BY DEF ResolveBillingEvent, FailBillingEvent, HandlerThrows, HandlerDies, StripeTyped,
           StripeSide
  <2>. QED  BY <2>1, <2>2, StripeStaysReal DEF StripeReal
<1>2. inbox[e] \in InboxRow /\ AttemptsLeft(inbox[e])
  BY DEF InboxInv, InboxTyped, HandlersReal
<1>3. ASSUME NEW status, status # "none", inbox' = [inbox EXCEPT ![e].status = status],
             handler' = [handler EXCEPT ![e] = NoHandler], UNCHANGED log,
             status = "failed_retryable" => ~Exhausted(e)
      PROVE  HandlersReal'
  <2>. DEFINE row == [inbox[e] EXCEPT !.status = status]
  <2>1. row.status = status /\ row.attempts = inbox[e].attempts /\ row.attempts \in Nat
    BY <1>2 DEF InboxRow
  <2>2. inbox' = [inbox EXCEPT ![e] = row]
    BY <1>3
  <2>. HIDE DEF row
  <2>3. AttemptsLeft(row)
    BY <1>2, <1>3, <2>1, BillingAssumption DEF AttemptsLeft, Exhausted
  <2>. QED  BY <1>3, <2>2, <2>3, NoHandlerReads, HandlerReal
<1>4. ASSUME NEW status \in {"processed", "held_anomaly"}, ResolveBillingEvent(e, status)
      PROVE  HandlersReal'
  BY <1>3, <1>4 DEF ResolveBillingEvent
<1>5. CASE FailBillingEvent(e)
  <2>1. handler' = [handler EXCEPT ![e] = NoHandler] /\ UNCHANGED log
    BY <1>5 DEF FailBillingEvent
  <2>2. \/ inbox' = [inbox EXCEPT ![e].status = "poisoned"]
        \/ inbox' = [inbox EXCEPT ![e].status = "failed_retryable"] /\ ~Exhausted(e)
    BY <1>5 DEF FailBillingEvent
  <2>. QED  BY <1>1, <1>3, <2>1, <2>2
<1>6. CASE HandlerThrows(e)
  <2>1. UNCHANGED <<log, inbox>> /\ Goto(e, "fail")
    BY <1>6 DEF HandlerThrows
  <2>. QED  BY <1>1, <2>1, GotoReads DEF Step
<1>7. CASE HandlerDies(e)
  <2>1. handler' = [handler EXCEPT ![e] = NoHandler] /\ UNCHANGED <<log, inbox>>
    BY <1>7 DEF HandlerDies
  <2>. QED  BY <1>1, <2>1, NoHandlerReads, RowAsItWas, HandlerReal
<1>. QED  BY <1>1, <1>4, <1>5, <1>6, <1>7

LEMMA HandleSources ==
  ASSUME SourcesInv, NEW e \in Event, Handle(e)
  PROVE  Sources'
<1>. USE DEF SourcesInv, BillingInv, Remote, Sources
<1>1. CASE \/ \E status \in {"processed", "held_anomaly"} : ResolveBillingEvent(e, status)
           \/ FailBillingEvent(e)
  BY <1>1, OutcomeSources
<1>2. ASSUME UNCHANGED <<now, log, stripe>>
      PROVE  StripeReal'
  BY <1>2, StripeStaysReal DEF StripeReal
<1>3. ASSUME NEW pc \in Step \ {"retrieve", "project", "insert"}, Goto(e, pc),
             UNCHANGED <<now, log, stripe, inbox>>
      PROVE  Sources'
  BY <1>2, <1>3, GotoReads
<1>4. CASE RetrieveSubscription(e)
  <2>1. handler[e].pc = "retrieve" /\ e \in 1..Len(log) /\ log[e].type \in AboutRow
    BY <1>4 DEF RetrieveSubscription, At, HandlerFits, Fits, HandlersReal, Reads
  <2>2. PICK snapshot \in {Authoritative, log[e].body} :
          handler' = [handler EXCEPT ![e] = [pc |-> "project", snapshot |-> snapshot]]
    BY <1>4 DEF RetrieveSubscription
  <2>3. stripe.status # "none" /\ stripe.start \in Nat
    BY <2>1 DEF StripeReal, Evidence, InvoicesReal
  <2>4. Authoritative \in Snapshot /\ Authoritative.start \in Nat
    BY <2>3, AuthoritativeTyped, BodyTypes DEF Authoritative
  <2>5. snapshot \in Snapshot /\ snapshot.start \in Nat
    BY <2>1, <2>2, <2>4, EventBody
  <2>. DEFINE h == [pc |-> "project", snapshot |-> snapshot]
  <2>6. Reads(h, e)
    BY <2>5 DEF Reads
  <2>7. handler' = [handler EXCEPT ![e] = h]
    BY <2>2
  <2>8. UNCHANGED <<now, log, stripe, inbox>>
    BY <1>4 DEF RetrieveSubscription
  <2>. HIDE DEF h
  <2>. QED  BY <1>2, <2>6, <2>7, <2>8, RowAsItWas, HandlerReal
<1>5. ASSUME NEW t \in Clock, ProjectSubscriptionSnapshot(e, t)
      PROVE  Sources'
  <2>1. UNCHANGED <<now, log, stripe, inbox>> /\ handler[e].pc = "project"
    BY <1>5 DEF ProjectSubscriptionSnapshot, At
  <2>2. \/ Goto(e, "held_anomaly") \/ Goto(e, "processed")
        \/ Goto(e, "insert") /\ handler[e].snapshot.offer \in Catalogue
    BY <1>5 DEF ProjectSubscriptionSnapshot
  <2>. QED  BY <1>2, <1>3, <2>1, <2>2, GotoReads DEF Step
<1>6. CASE InsertSubscription(e)
  BY <1>3, <1>6 DEF InsertSubscription, Step
<1>7. ASSUME NEW t \in Clock, ApplyInvoicePaymentSucceeded(e, t)
      PROVE  Sources'
  <2>1. Goto(e, "fail") \/ Goto(e, "evaluate")
    BY <1>7 DEF ApplyInvoicePaymentSucceeded
  <2>. QED  BY <1>3, <1>7, <2>1 DEF ApplyInvoicePaymentSucceeded, Step
<1>8. ASSUME NEW t \in Clock, EvaluateAfterPayment(e, t)
      PROVE  Sources'
  BY <1>3, <1>8 DEF EvaluateAfterPayment, Step
<1>9. CASE ApplyInvoicePaymentFailed(e)
  BY <1>3, <1>9 DEF ApplyInvoicePaymentFailed, Step
<1>. QED  BY <1>1, <1>4, <1>5, <1>6, <1>7, <1>8, <1>9 DEF Handle

LEMMA SourcesStep ==
  ASSUME SourcesInv, [Next]_vars
  PROVE  Sources'
<1>. USE DEF SourcesInv, BillingInv, Remote, Sources
<1>1. ASSUME UNCHANGED <<stripe, log, inbox, handler>>, now' <= MaxTime
      PROVE  Sources'
  BY <1>1, StripeStaysReal, HandlersStayReal
<1>2. CASE UNCHANGED vars
  BY <1>1, <1>2 DEF vars, StripeReal
<1>3. CASE StripeRenews /\ UNCHANGED <<now, inbox, handler, sub, window, lots, claim, reconcile>>
  <2>1. UNCHANGED log
    BY <1>3 DEF StripeRenews
  <2>2. /\ stripe'.second = stripe.second /\ stripe'.paid = stripe.paid
        /\ stripe'.status = stripe.status /\ stripe.status # "none"
    BY <1>3 DEF StripeRenews, StripeTyped, StripeSide
  <2>. QED  BY <1>3, <2>1, <2>2, StripeStaysReal, HandlersStayReal DEF StripeReal
<1>4. CASE Tick
  <2>1. now' <= MaxTime
    BY <1>4, BillingAssumption DEF Tick
  <2>. QED  BY <1>1, <1>4, <2>1 DEF Tick
<1>5. CASE Maintenance
  BY <1>1, <1>5 DEF Maintenance, EvaluateWindowsRoute, ReconcileReads, ReconcileRetrieves,
     ReconcileProjects, ClaimEnds, StripeReal
<1>. QED
  BY <1>2, <1>3, <1>4, <1>5, StripeSources, DeliverySources, OutcomeSources, HandleSources
  DEF Next

(***************************************************************************)
(* Sums of lots: a new lot adds its units to what ends with it.            *)
(***************************************************************************)
LEMMA UnitsAdded ==
  ASSUME NEW S, IsFiniteSet(UnitsOf(S)), NEW lot, lot \notin S, lot.units \in Nat
  PROVE  /\ IsFiniteSet(UnitsOf(S \cup {lot}))
         /\ Cardinality(UnitsOf(S \cup {lot})) = Cardinality(UnitsOf(S)) + lot.units
<1>. DEFINE new == {lot} \X (1..lot.units)
<1>1. UnitsOf(S \cup {lot}) = UnitsOf(S) \cup new
  BY DEF UnitsOf
<1>2. UnitsOf(S) \cap new = {}
  BY DEF UnitsOf
<1>3. IsFiniteSet({lot}) /\ Cardinality({lot}) = 1
  BY FS_Singleton
<1>4. IsFiniteSet(1..lot.units) /\ Cardinality(1..lot.units) = lot.units
  BY FS_Interval
<1>5. IsFiniteSet(new) /\ Cardinality(new) = lot.units
  <2>. DEFINE one == {lot}
              units == 1..lot.units
  <2>1. IsFiniteSet(one) /\ Cardinality(one) = 1
    BY <1>3
  <2>2. IsFiniteSet(units) /\ Cardinality(units) = lot.units
    BY <1>4
  <2>. HIDE DEF one, units
  <2>3. IsFiniteSet(one \X units) /\ Cardinality(one \X units) = 1 * lot.units
    BY <2>1, <2>2, FS_Product
  <2>. QED  BY <2>3 DEF one, units
<1>. HIDE DEF new
<1>6. IsFiniteSet({}) /\ Cardinality({}) = 0
  BY FS_EmptySet
<1>7. Cardinality(UnitsOf(S)) \in Nat
  BY FS_CardinalityType
<1>. DEFINE old == UnitsOf(S)
<1>. HIDE DEF old
<1>8. /\ IsFiniteSet(old \cup new)
      /\ Cardinality(old \cup new) = Cardinality(old) + Cardinality(new) - Cardinality(old \cap new)
  BY <1>5, FS_Union DEF old
<1>9. Cardinality(old \cap new) = 0 /\ Cardinality(old) \in Nat
  BY <1>2, <1>6, <1>7 DEF old
<1>10. IsFiniteSet(old \cup new) /\ Cardinality(old \cup new) = Cardinality(old) + lot.units
  BY <1>5, <1>8, <1>9
<1>. QED  BY <1>1, <1>10 DEF old

LEMMA GrantedNat ==
  ASSUME IsFiniteSet(UnitsOf(lots)), NEW end
  PROVE  /\ IsFiniteSet(UnitsOf({lot \in lots : lot.until = end}))
         /\ Granted(end) \in Nat
<1>1. UnitsOf({lot \in lots : lot.until = end}) \subseteq UnitsOf(lots)
  BY DEF UnitsOf
<1>2. IsFiniteSet(UnitsOf({lot \in lots : lot.until = end}))
  BY <1>1, FS_Subset
<1>. QED  BY <1>2, FS_CardinalityType DEF Granted

LEMMA GrantedGrows ==
  ASSUME IsFiniteSet(UnitsOf(lots)), NEW lot, lot \notin lots, lot.units \in Nat,
         lots' = lots \cup {lot}
  PROVE  /\ IsFiniteSet(UnitsOf(lots))'
         /\ \A end : Granted(end)' = Granted(end) + (IF lot.until = end THEN lot.units ELSE 0)
<1>1. IsFiniteSet(UnitsOf(lots))'
  <2>1. IsFiniteSet(UnitsOf(lots \cup {lot}))
    BY UnitsAdded
  <2>2. UnitsOf(lots)' = UnitsOf(lots \cup {lot})
    BY DEF UnitsOf
  <2>. QED  BY <2>1, <2>2
<1>2. ASSUME NEW end
      PROVE  Granted(end)' = Granted(end) + (IF lot.until = end THEN lot.units ELSE 0)
  <2>. DEFINE S == {x \in lots : x.until = end}
  <2>1. IsFiniteSet(UnitsOf(S)) /\ Cardinality(UnitsOf(S)) \in Nat /\ lot \notin S
    BY GrantedNat DEF Granted
  <2>2. Granted(end) = Cardinality(UnitsOf(S))
    BY DEF Granted
  <2>3. Granted(end)' = Cardinality(UnitsOf({x \in lots' : x.until = end}))
    BY DEF Granted, UnitsOf
  <2>4. {x \in lots' : x.until = end} = IF lot.until = end THEN S \cup {lot} ELSE S
    OBVIOUS
  <2>. HIDE DEF S
  <2>5. CASE lot.until = end
    <3>1. Cardinality(UnitsOf(S \cup {lot})) = Cardinality(UnitsOf(S)) + lot.units
      BY <2>1, UnitsAdded
    <3>2. {x \in lots' : x.until = end} = S \cup {lot}
      BY <2>4, <2>5
    <3>3. Granted(end)' = Cardinality(UnitsOf(S \cup {lot}))
      BY <2>3, <3>2
    <3>. QED  BY <2>2, <2>5, <3>1, <3>3
  <2>6. CASE lot.until # end
    <3>1. {x \in lots' : x.until = end} = S
      BY <2>4, <2>6
    <3>2. Granted(end)' = Granted(end)
      BY <2>2, <2>3, <3>1
    <3>. QED  BY <2>1, <2>2, <2>6, <3>2
  <2>. QED  BY <2>5, <2>6
<1>. QED  BY <1>1, <1>2

(***************************************************************************)
(* The row.                                                                *)
(***************************************************************************)
GoodRow(row) ==
  /\ ~row.exists => row = NoSubscription
  /\ row.exists => row.offer \in Catalogue /\ row.anchor \in Nat
  /\ row.pending # NoOffer =>
       row.exists /\ row.pending \in Catalogue /\ Credits(row.pending) <= Credits(row.offer)
  /\ row.cursor \in Cycle
  /\ {row.nextGrantAt, row.lastEventCreated, row.protectedFrom, row.paidThrough} \subseteq Moment
PaidFor(row) == row.paidThrough = row.anchor \/ row.paidThrough <= stripe.paid

RowReal ==
  /\ GoodRow(sub) /\ PaidFor(sub)
  /\ reconcile.pc # "idle" => sub.exists
  /\ reconcile.watermark \in Moment

LEMMA CreditsNat ==
  /\ \A offer \in Catalogue : PlanOf[offer] \in Plan /\ Credits(offer) \in Nat
  /\ \A plan \in Plan : MonthlySmsCredits[plan] \in Nat
BY BillingAssumption DEF Credits

LEMMA NoRowIsGood == GoodRow(NoSubscription)
BY BillingAssumption DEF GoodRow, NoSubscription, Cycle, Moment

LEMMA UpdateReal ==
  ASSUME SubTyped, GoodRow(sub), sub.exists, NEW snapshot, snapshot.offer \in Catalogue,
         NEW created \in Moment, NEW t, UpdateSubscription(snapshot, created, t)
  PROVE  /\ GoodRow(sub)' /\ sub'.exists
         /\ sub'.anchor = sub.anchor /\ sub'.cursor = sub.cursor
         /\ sub'.paidThrough = sub.paidThrough
<1>. DEFINE upgrade == /\ snapshot.offer # sub.offer
                       /\ Credits(snapshot.offer) > Credits(sub.offer)
            offer == IF upgrade THEN snapshot.offer ELSE sub.offer
            pending == IF upgrade THEN NoOffer
                       ELSE IF snapshot.offer # sub.offer THEN snapshot.offer ELSE sub.pending
            row == [sub EXCEPT !.status = snapshot.status, !.lastEventCreated = created,
                               !.offer = offer, !.pending = pending]
<1>1. sub' = row
  BY DEF UpdateSubscription
<1>2. sub.offer \in Catalogue /\ Credits(sub.offer) \in Nat /\ Credits(snapshot.offer) \in Nat
  BY CreditsNat DEF GoodRow
<1>3. /\ offer \in Catalogue
      /\ pending # NoOffer => pending \in Catalogue /\ Credits(pending) <= Credits(offer)
  BY <1>2 DEF GoodRow
<1>. HIDE DEF offer, pending, upgrade
<1>4. /\ row.offer = offer /\ row.pending = pending /\ row.lastEventCreated = created
      /\ row.exists = sub.exists /\ row.anchor = sub.anchor /\ row.cursor = sub.cursor
      /\ row.paidThrough = sub.paidThrough /\ row.protectedFrom = sub.protectedFrom
      /\ row.nextGrantAt = sub.nextGrantAt
  BY DEF SubTyped, AnySubscription
<1>. HIDE DEF row
<1>5. \A x : GoodRow(x)' <=> GoodRow(x)
  BY DEF GoodRow, Credits
<1>6. GoodRow(row)
  BY <1>3, <1>4 DEF GoodRow
<1>. QED  BY <1>1, <1>4, <1>5, <1>6

LEMMA InsertReal ==
  ASSUME SourcesInv, RowReal, NEW e \in Event, InsertSubscription(e)
  PROVE  GoodRow(sub)' /\ PaidFor(sub)' /\ (sub.exists => UNCHANGED sub)
<1>. DEFINE snapshot == handler[e].snapshot
            row == [NoSubscription EXCEPT
                      !.exists = TRUE, !.status = snapshot.status, !.offer = snapshot.offer,
                      !.paidThrough = snapshot.start, !.anchor = snapshot.start,
                      !.lastEventCreated = log[e].created]
<1>1. snapshot.offer \in Catalogue /\ snapshot.start \in Nat
  BY DEF InsertSubscription, At, SourcesInv, Sources, HandlersReal, Reads
<1>2. log[e].created \in Nat
  <2>1. e \in 1..Len(log)
    BY AtBody DEF InsertSubscription, At, SourcesInv, BillingInv
  <2>. QED  BY <2>1, EventBody DEF SourcesInv, BillingInv, Sources
<1>3. UNCHANGED stripe
  BY DEF InsertSubscription
<1>4. CASE sub.exists
  BY <1>3, <1>4 DEF InsertSubscription, RowReal, GoodRow, PaidFor
<1>5. CASE ~sub.exists
  <2>1. sub' = row
    BY <1>5 DEF InsertSubscription
  <2>. HIDE DEF snapshot
  <2>2. /\ row.exists /\ row.offer = snapshot.offer /\ row.pending = NoOffer
        /\ row.anchor = snapshot.start /\ row.paidThrough = snapshot.start
        /\ row.cursor = 0 /\ row.nextGrantAt = Never /\ row.protectedFrom = Never
        /\ row.lastEventCreated = log[e].created
    BY DEF NoSubscription
  <2>. HIDE DEF row
  <2>3. GoodRow(row) /\ PaidFor(row)
    BY <1>1, <1>2, <2>2, BillingAssumption DEF GoodRow, PaidFor, Cycle, Moment
  <2>. QED  BY <1>3, <1>5, <2>1, <2>3 DEF GoodRow, PaidFor
<1>. QED  BY <1>4, <1>5

LEMMA PaymentReal ==
  ASSUME SourcesInv, RowReal, NEW e \in Event, NEW t \in Clock, ApplyInvoicePaymentSucceeded(e, t)
  PROVE  /\ GoodRow(sub)' /\ PaidFor(sub)'
         /\ sub.exists => /\ sub'.exists /\ sub'.cursor = sub.cursor
                          /\ sub'.offer \in {sub.offer, sub.pending} /\ sub'.pending = NoOffer
                          /\ Credits(sub'.offer) <= Credits(sub.offer)
<1>. DEFINE end == log[e].body.end
            paid == PaidThrough(end)
            offer == IF sub.pending # NoOffer THEN sub.pending ELSE sub.offer
            protected == IF Protects THEN t ELSE sub.protectedFrom
            row == [sub EXCEPT !.status = "active", !.paidThrough = paid, !.offer = offer,
                               !.pending = NoOffer, !.lastEventCreated = Watermark(e),
                               !.protectedFrom = protected]
<1>1. handler[e].pc = "pay" /\ log[e].type = Payment /\ e \in 1..Len(log)
  BY DEF ApplyInvoicePaymentSucceeded, At, SourcesInv, BillingInv, Remote, HandlerFits, Fits
<1>2. end \in Nat /\ end <= stripe.paid /\ stripe.paid \in Nat
  BY <1>1, EventBody DEF SourcesInv, BillingInv, Sources, StripeReal
<1>3. UNCHANGED stripe
  BY DEF ApplyInvoicePaymentSucceeded
<1>4. CASE ~sub.exists
  BY <1>3, <1>4 DEF ApplyInvoicePaymentSucceeded, RowReal, GoodRow, PaidFor
<1>5. CASE sub.exists
  <2>1. /\ sub.offer \in Catalogue /\ sub.anchor \in Nat
        /\ sub.pending # NoOffer =>
             sub.pending \in Catalogue /\ Credits(sub.pending) <= Credits(sub.offer)
        /\ sub.paidThrough \in Moment /\ sub.protectedFrom \in Moment
        /\ sub.lastEventCreated \in Moment
        /\ sub.paidThrough = sub.anchor \/ sub.paidThrough <= stripe.paid
    BY <1>5 DEF RowReal, GoodRow, PaidFor
  <2>2. /\ paid \in Moment
        /\ paid = sub.anchor \/ paid <= stripe.paid
    BY <1>2, <2>1 DEF PaidThrough, Later, Moment, Never
  <2>3. protected \in Moment
    BY <2>1 DEF Clock, Moment
  <2>4. /\ offer \in Catalogue /\ Credits(offer) <= Credits(sub.offer)
        /\ offer \in {sub.offer, sub.pending}
    BY <2>1, CreditsNat
  <2>5. sub' = row
    BY <1>5 DEF ApplyInvoicePaymentSucceeded
  <2>. HIDE DEF end, paid, offer, protected
  <2>6. /\ row.exists = sub.exists /\ row.offer = offer /\ row.pending = NoOffer
        /\ row.anchor = sub.anchor /\ row.paidThrough = paid
        /\ row.cursor = sub.cursor /\ row.nextGrantAt = sub.nextGrantAt
        /\ row.protectedFrom = protected /\ row.lastEventCreated = sub.lastEventCreated
    BY DEF SourcesInv, BillingInv, SubTyped, AnySubscription, Watermark
  <2>. HIDE DEF row
  <2>7. GoodRow(row) /\ PaidFor(row)
    BY <1>5, <2>1, <2>2, <2>3, <2>4, <2>6 DEF GoodRow, PaidFor, RowReal
  <2>. QED  BY <1>3, <1>5, <2>4, <2>5, <2>6, <2>7 DEF GoodRow, PaidFor
<1>. QED  BY <1>4, <1>5

LEMMA PaymentFailedReal ==
  ASSUME SourcesInv, RowReal, NEW e \in Event, ApplyInvoicePaymentFailed(e)
  PROVE  /\ GoodRow(sub)' /\ PaidFor(sub)'
         /\ sub'.exists = sub.exists /\ sub'.cursor = sub.cursor /\ sub'.offer = sub.offer
<1>. DEFINE row == [sub EXCEPT !.status = "past_due", !.lastEventCreated = log[e].created]
<1>1. log[e].created \in Moment
  <2>1. e \in 1..Len(log)
    BY AtBody DEF ApplyInvoicePaymentFailed, At, SourcesInv, BillingInv
  <2>. QED  BY <2>1, EventBody DEF SourcesInv, BillingInv, Sources, Moment
<1>2. UNCHANGED stripe
  BY DEF ApplyInvoicePaymentFailed
<1>3. CASE ~sub.exists
  BY <1>2, <1>3 DEF ApplyInvoicePaymentFailed, RowReal, GoodRow, PaidFor
<1>4. CASE sub.exists
  <2>1. sub' = row
    BY <1>4 DEF ApplyInvoicePaymentFailed
  <2>2. /\ row.exists = sub.exists /\ row.offer = sub.offer /\ row.pending = sub.pending
        /\ row.anchor = sub.anchor /\ row.paidThrough = sub.paidThrough
        /\ row.cursor = sub.cursor /\ row.nextGrantAt = sub.nextGrantAt
        /\ row.protectedFrom = sub.protectedFrom /\ row.lastEventCreated = log[e].created
    BY DEF SourcesInv, BillingInv, SubTyped, AnySubscription
  <2>. HIDE DEF row
  <2>3. GoodRow(row) /\ PaidFor(row)
    BY <1>1, <1>4, <2>2 DEF GoodRow, PaidFor, RowReal
  <2>. QED  BY <1>2, <2>1, <2>2, <2>3 DEF GoodRow, PaidFor
<1>. QED  BY <1>3, <1>4

LEMMA EvaluationReal ==
  ASSUME BillingInv, now <= MaxTime, GoodRow(sub), NEW t \in Clock, EvaluateSubscriptionWindows(t),
         ~UNCHANGED <<sub, window, lots>>
  PROVE  /\ GoodRow(sub)' /\ sub.exists /\ sub'.exists /\ sub'.anchor = sub.anchor
         /\ sub'.cursor = t - sub.anchor /\ sub.cursor <= t - sub.anchor
         /\ t - sub.anchor \in Cycle
         /\ sub'.offer = sub.offer /\ sub'.paidThrough = sub.paidThrough
<1>. DEFINE active == t - sub.anchor
            due == t + 1
            row == [sub EXCEPT !.cursor = active, !.nextGrantAt = due]
<1>1. sub.status \in GRANT_ELIGIBLE_STATUSES /\ active >= sub.cursor /\ sub' = row
  BY DEF EvaluateSubscriptionWindows
<1>2. sub.exists
  BY <1>1 DEF GRANT_ELIGIBLE_STATUSES, GoodRow, NoSubscription
<1>3. /\ t \in Nat /\ t <= MaxTime /\ sub.anchor \in Nat
      /\ sub.cursor \in Nat
  BY <1>2, BillingAssumption DEF BillingInv, Remote, Clock, GoodRow, Cycle
<1>4. active \in Cycle /\ due \in Moment /\ active >= sub.cursor
  BY <1>1, <1>3, BillingAssumption DEF Cycle, Moment
<1>. HIDE DEF active, due
<1>5. /\ row.exists = sub.exists /\ row.offer = sub.offer /\ row.pending = sub.pending
      /\ row.anchor = sub.anchor /\ row.paidThrough = sub.paidThrough
      /\ row.cursor = active /\ row.nextGrantAt = due
      /\ row.protectedFrom = sub.protectedFrom
      /\ row.lastEventCreated = sub.lastEventCreated
  BY DEF BillingInv, SubTyped, AnySubscription
<1>. HIDE DEF row
<1>6. GoodRow(row)
  BY <1>2, <1>4, <1>5 DEF GoodRow
<1>7. active \in Int /\ sub.cursor <= active
  BY <1>3, <1>4 DEF Cycle
<1>. QED  BY <1>1, <1>2, <1>4, <1>5, <1>6, <1>7 DEF GoodRow, active

\* What a step does to the row, the windows and the ledger.
Updates ==
  \E snapshot \in Snapshot, created \in Moment, t \in Clock :
    /\ sub.exists /\ snapshot.offer \in Catalogue
    /\ UpdateSubscription(snapshot, created, t)
    /\ UNCHANGED <<now, stripe, window>>
RowOnly ==
  \E e \in Event :
    \/ InsertSubscription(e) \/ ApplyInvoicePaymentFailed(e)
    \/ \E t \in Clock : ApplyInvoicePaymentSucceeded(e, t)
Evaluates ==
  \E t \in Clock : EvaluateSubscriptionWindows(t) /\ UNCHANGED <<now, stripe>>

LEMMA AccountChanges ==
  ASSUME SourcesInv, RowReal, [Next]_vars
  PROVE  UNCHANGED <<sub, window, lots>> \/ Updates \/ RowOnly \/ Evaluates
<1>. USE DEF SourcesInv, BillingInv, Remote
<1>1. CASE UNCHANGED vars
  BY <1>1 DEF vars
<1>2. CASE Stripe \/ Tick
  BY <1>2 DEF Stripe, Tick
<1>3. CASE StripeRenews /\ UNCHANGED <<now, inbox, handler, sub, window, lots, claim, reconcile>>
  BY <1>3
<1>4. ASSUME NEW e \in Event,
             \/ Deliver(e) \/ BackoffPasses(e) \/ HandlerThrows(e) \/ HandlerDies(e)
             \/ \E status \in {"processed", "held_anomaly"} : ResolveBillingEvent(e, status)
             \/ FailBillingEvent(e)
      PROVE  UNCHANGED <<sub, window, lots>>
  BY <1>4, InvocationFits
<1>5. ASSUME NEW e \in Event, RetrieveSubscription(e)
      PROVE  UNCHANGED <<sub, window, lots>>
  BY <1>5 DEF RetrieveSubscription
<1>6. ASSUME NEW e \in Event, NEW t \in Clock, ProjectSubscriptionSnapshot(e, t)
      PROVE  UNCHANGED <<sub, window, lots>> \/ Updates
  <2>1. handler[e].snapshot \in Snapshot /\ e \in 1..Len(log)
    BY <1>6, BodyTypes DEF ProjectSubscriptionSnapshot, At, HandlerFits, Fits
  <2>2. log[e].created \in Moment
    BY <2>1, EventBody DEF Sources, Moment
  <2>3. UNCHANGED <<now, stripe, window>>
    BY <1>6 DEF ProjectSubscriptionSnapshot
  <2>4. \/ UNCHANGED <<sub, lots>>
        \/ /\ sub.exists /\ handler[e].snapshot.offer \in Catalogue
           /\ UpdateSubscription(handler[e].snapshot, log[e].created, t)
    BY <1>6 DEF ProjectSubscriptionSnapshot
  <2>. QED  BY <2>1, <2>2, <2>3, <2>4 DEF Updates
<1>7. ASSUME NEW e \in Event, NEW t \in Clock, EvaluateAfterPayment(e, t)
      PROVE  Evaluates
  BY <1>7 DEF EvaluateAfterPayment, Evaluates
<1>8. ASSUME NEW t \in Clock, EvaluateWindowsRoute(t)
      PROVE  Evaluates
  BY <1>8 DEF EvaluateWindowsRoute, Evaluates
<1>9. ASSUME NEW t \in Clock, ReconcileProjects(t)
      PROVE  UNCHANGED <<sub, window, lots>> \/ Updates
  <2>1. reconcile.snapshot \in Snapshot /\ reconcile.watermark \in Moment /\ sub.exists
    BY <1>9, BodyTypes DEF ReconcileProjects, RowReal, Reconciliation
  <2>2. UNCHANGED <<now, stripe, window>>
    BY <1>9 DEF ReconcileProjects
  <2>3. \/ UNCHANGED <<sub, lots>>
        \/ /\ reconcile.snapshot.offer \in Catalogue
           /\ UpdateSubscription(reconcile.snapshot, reconcile.watermark, t)
    BY <1>9 DEF ReconcileProjects
  <2>. QED  BY <2>1, <2>2, <2>3 DEF Updates
<1>10. CASE Maintenance
  BY <1>8, <1>9, <1>10 DEF Maintenance, ReconcileReads, ReconcileRetrieves, ClaimEnds
<1>11. ASSUME NEW e \in Event, Handle(e)
       PROVE  UNCHANGED <<sub, window, lots>> \/ Updates \/ RowOnly \/ Evaluates
  BY <1>4, <1>5, <1>6, <1>7, <1>11 DEF Handle, RowOnly
<1>. QED  BY <1>1, <1>2, <1>3, <1>4, <1>10, <1>11 DEF Next

LEMMA RowStep ==
  ASSUME SourcesInv, RowReal, [Next]_vars
  PROVE  RowReal'
<1>1. stripe.paid \in Int /\ stripe'.paid \in Int /\ stripe.paid <= stripe'.paid
  <2>1. Remote' /\ stripe'.paid >= stripe.paid
    BY BillingStep, EvidenceStep DEF SourcesInv
  <2>. QED  BY <2>1 DEF SourcesInv, BillingInv, Remote, StripeTyped, StripeSide
<1>2. GoodRow(sub)' /\ PaidFor(sub)'
  <2>1. CASE UNCHANGED sub
    <3>1. GoodRow(sub)'
      BY <2>1 DEF RowReal, GoodRow, Credits
    <3>2. sub.paidThrough \in Int
      BY DEF SourcesInv, BillingInv, SubTyped, AnySubscription
    <3>3. PaidFor(sub)'
      BY <1>1, <2>1, <3>2 DEF RowReal, PaidFor
    <3>. QED  BY <3>1, <3>3
  <2>2. CASE Updates
    BY <2>2, UpdateReal DEF Updates, RowReal, PaidFor, SourcesInv, BillingInv
  <2>3. CASE RowOnly
    BY <2>3, InsertReal, PaymentReal, PaymentFailedReal DEF RowOnly
  <2>4. CASE Evaluates /\ ~UNCHANGED <<sub, window, lots>>
    <3>1. now <= MaxTime
      BY DEF SourcesInv, Sources, StripeReal
    <3>. QED  BY <2>4, <3>1, EvaluationReal DEF Evaluates, RowReal, PaidFor, SourcesInv
  <2>. QED  BY <2>1, <2>2, <2>3, <2>4, AccountChanges
<1>3. sub.exists => sub'.exists
  BY BillingStep DEF SourcesInv, Local, RowStands
<1>4. sub.lastEventCreated \in Moment
  BY DEF RowReal, GoodRow
<1>5. (reconcile'.pc # "idle" => sub'.exists) /\ reconcile'.watermark \in Moment
  <2>1. CASE UNCHANGED reconcile
    BY <1>3, <2>1 DEF RowReal
  <2>2. reconcile \in Reconciliation /\ Never \in Moment
    BY DEF SourcesInv, BillingInv, Remote, Moment
  <2>3. CASE ReconcileReads
    BY <1>3, <1>4, <2>3 DEF ReconcileReads, NoReconciliation
  <2>4. CASE ReconcileRetrieves
    <3>1. reconcile.pc # "idle" /\ sub.exists /\ reconcile.watermark \in Moment
      BY <2>4 DEF ReconcileRetrieves, RowReal
    <3>2. CASE reconcile' = NoReconciliation
      BY <1>3, <2>2, <3>1, <3>2 DEF NoReconciliation
    <3>3. ASSUME NEW snapshot,
                 reconcile' = [reconcile EXCEPT !.pc = "project", !.snapshot = snapshot]
          PROVE  reconcile'.watermark = reconcile.watermark
      BY <2>2, <3>3 DEF Reconciliation
    <3>. QED  BY <1>3, <2>4, <3>1, <3>2, <3>3 DEF ReconcileRetrieves
  <2>5. ASSUME NEW t, ReconcileProjects(t)
        PROVE  (reconcile'.pc # "idle" => sub'.exists) /\ reconcile'.watermark \in Moment
    BY <2>2, <2>5 DEF ReconcileProjects, NoReconciliation
  <2>6. UNCHANGED reconcile \/ ReconcileReads \/ ReconcileRetrieves
        \/ \E t : ReconcileProjects(t)
    <3>1. ASSUME NEW e \in Event, Handle(e)
          PROVE  UNCHANGED reconcile
      BY <3>1 DEF Handle, RetrieveSubscription, InsertSubscription, ProjectSubscriptionSnapshot,
         ApplyInvoicePaymentSucceeded, EvaluateAfterPayment, ApplyInvoicePaymentFailed,
         ResolveBillingEvent, FailBillingEvent
    <3>2. ASSUME NEW e \in Event,
                 Deliver(e) \/ BackoffPasses(e) \/ HandlerThrows(e) \/ HandlerDies(e)
          PROVE  UNCHANGED reconcile
      BY <3>2 DEF Deliver, ClaimBillingEvent, Deduplicate, BackoffPasses, HandlerThrows,
         HandlerDies
    <3>3. CASE Maintenance
      BY <3>3 DEF Maintenance, EvaluateWindowsRoute, ClaimEnds
    <3>4. CASE Stripe \/ Tick \/ UNCHANGED vars
      BY <3>4 DEF Stripe, Tick, vars
    <3>. QED  BY <3>1, <3>2, <3>3, <3>4 DEF Next
  <2>. QED  BY <2>1, <2>3, <2>4, <2>5, <2>6
<1>. QED  BY <1>2, <1>5 DEF RowReal

(***************************************************************************)
(* The windows and the ledger.                                             *)
(***************************************************************************)
WindowRow ==
  [status : {"none", "granted", "skipped_unpaid", "skipped_missed"}, plan : Plan \cup {"none"}]
Lot == [key : {"monthly-grant", "upgrade-diff"} \X Cycle \X Plan \X Plan,
        units : Nat \ {0}, until : Nat]

WindowReal(n) ==
  window[n].status = "granted" =>
    /\ sub.exists /\ n <= sub.cursor
    /\ sub.anchor + n <= now /\ sub.anchor + n < stripe.paid
LotReal(lot) ==
  /\ lot \in Lot
  /\ window[lot.key[2]].status = "granted" /\ lot.until = sub.anchor + lot.key[2] + 1
  /\ Granted(lot.until) >= MonthlySmsCredits[lot.key[4]]
AccountReal ==
  /\ window \in [Cycle -> WindowRow]
  /\ \A n \in Cycle : WindowReal(n)
  /\ \A lot \in lots : LotReal(lot)
  /\ IsFiniteSet(UnitsOf(lots))

\* The month that ends at t + 1 now has the allowance of p, having had less.
Grows(t, p) ==
  /\ t < stripe.paid
  /\ Granted(t + 1) < MonthlySmsCredits[p]
  /\ \A end : Granted(end)' = IF end = t + 1 THEN MonthlySmsCredits[p] ELSE Granted(end)
LedgerStep == UNCHANGED lots \/ \E t \in Clock, p \in Plan : Grows(t, p)

LEMMA WindowFacts ==
  ASSUME SourcesInv, RowReal
  PROVE  /\ now \in Nat /\ stripe.paid \in Nat /\ MaxTime \in Nat
         /\ sub.cursor \in Cycle /\ sub.cursor \in Nat
         /\ sub.exists => sub.anchor \in Nat /\ sub.offer \in Catalogue /\ PlanOf[sub.offer] \in Plan
         /\ \A n \in Cycle : n \in Nat
BY BillingAssumption, CreditsNat
DEF SourcesInv, BillingInv, Remote, Sources, StripeReal, RowReal, GoodRow, Cycle

\* A granted window stays where it is.
LEMMA WindowsStay ==
  ASSUME SourcesInv, RowReal, AccountReal, UNCHANGED window, RowReal', SourcesInv',
         sub.exists => sub'.exists /\ sub'.anchor = sub.anchor /\ sub.cursor <= sub'.cursor,
         now <= now', stripe.paid <= stripe'.paid
  PROVE  \A n \in Cycle : WindowReal(n)'
<1>. SUFFICES ASSUME NEW n \in Cycle, window[n].status = "granted"
              PROVE  /\ sub'.exists /\ n <= sub'.cursor
                     /\ sub'.anchor + n <= now' /\ sub'.anchor + n < stripe'.paid
  BY DEF WindowReal
<1>1. /\ sub.exists /\ n <= sub.cursor
      /\ sub.anchor + n <= now /\ sub.anchor + n < stripe.paid
  BY DEF AccountReal, WindowReal
<1>2. /\ now \in Nat /\ stripe.paid \in Nat /\ sub.cursor \in Nat /\ sub.anchor \in Nat /\ n \in Nat
  BY <1>1, WindowFacts
<1>3. /\ now' \in Nat /\ stripe'.paid \in Nat /\ sub'.cursor \in Nat
  BY WindowFacts DEF SourcesInv, BillingInv, Remote, Sources, StripeReal, RowReal, GoodRow, Cycle
<1>. QED  BY <1>1, <1>2, <1>3

\* The lots that were there keep what they say when nothing joins them.
LEMMA LotsStay ==
  ASSUME AccountReal, UNCHANGED lots, RowStands, GrantsStand
  PROVE  (\A lot \in lots' : LotReal(lot)') /\ IsFiniteSet(UnitsOf(lots))'
<1>1. \A end : Granted(end)' = Granted(end)
  BY DEF Granted, UnitsOf
<1>2. ASSUME NEW lot \in lots
      PROVE  LotReal(lot)'
  <2>1. LotReal(lot) /\ lot.key[2] \in Cycle
    BY DEF AccountReal, LotReal, Lot
  <2>2. sub.exists
    BY <2>1 DEF LotReal, AccountReal, WindowReal
  <2>. QED  BY <1>1, <2>1, <2>2 DEF LotReal, RowStands, GrantsStand
<1>3. IsFiniteSet(UnitsOf(lots))'
  BY DEF AccountReal, UnitsOf
<1>. QED  BY <1>2, <1>3

\* A lot of the window n joins the ledger and brings the month up to the
\* allowance of the plan of its key.
Joins(lot, n) ==
  /\ lot \notin lots /\ lots' = lots \cup {lot}
  /\ lot \in Lot /\ lot.key[2] = n
  /\ window'[n].status = "granted"
  /\ lot.until = sub.anchor + n + 1
  /\ Granted(lot.until) + lot.units = MonthlySmsCredits[lot.key[4]]

LEMMA LotJoins ==
  ASSUME AccountReal, SourcesInv, RowReal, sub.exists, RowStands, GrantsStand,
         NEW lot, NEW n \in Cycle, Joins(lot, n),
         sub.anchor + n \in Clock, sub.anchor + n < stripe.paid
  PROVE  /\ \A x \in lots' : LotReal(x)'
         /\ IsFiniteSet(UnitsOf(lots))'
         /\ Granted(lot.until)' = MonthlySmsCredits[lot.key[4]]
         /\ Grows(sub.anchor + n, lot.key[4])
<1>1. /\ lot \in Lot /\ lot.units \in Nat \ {0} /\ lot.key[4] \in Plan /\ lot.key[2] = n
  BY DEF Joins, Lot
<1>2. /\ IsFiniteSet(UnitsOf(lots))'
      /\ \A end : Granted(end)' = Granted(end) + (IF lot.until = end THEN lot.units ELSE 0)
  BY <1>1, GrantedGrows DEF AccountReal, Joins
<1>3. \A end : Granted(end) \in Nat
  BY GrantedNat DEF AccountReal
<1>4. MonthlySmsCredits[lot.key[4]] \in Nat /\ \A p \in Plan : MonthlySmsCredits[p] \in Nat
  BY <1>1, CreditsNat
<1>5. Granted(lot.until)' = MonthlySmsCredits[lot.key[4]]
  BY <1>2 DEF Joins
<1>6. Granted(lot.until) < MonthlySmsCredits[lot.key[4]]
  BY <1>1, <1>3, <1>4 DEF Joins
<1>7. ASSUME NEW end, end # lot.until
      PROVE  Granted(end)' = Granted(end)
  BY <1>2, <1>3, <1>7
<1>8. Grows(sub.anchor + n, lot.key[4])
  BY <1>5, <1>6, <1>7 DEF Grows, Joins
<1>9. sub'.anchor = sub.anchor
  BY DEF RowStands
<1>10. LotReal(lot)'
  BY <1>1, <1>4, <1>5, <1>9 DEF LotReal, Joins
<1>11. ASSUME NEW x \in lots
       PROVE  LotReal(x)'
  <2>1. LotReal(x) /\ x \in Lot /\ x.key[2] \in Cycle /\ x.key[4] \in Plan
    BY DEF AccountReal, LotReal, Lot
  <2>2. Granted(x.until)' >= Granted(x.until)
    BY <1>2, <1>3, <1>1
  <2>3. Granted(x.until)' \in Nat /\ Granted(x.until) \in Nat
    BY <1>1, <1>2, <1>3
  <2>4. Granted(x.until)' >= MonthlySmsCredits[x.key[4]]
    BY <1>4, <2>1, <2>2, <2>3 DEF LotReal
  <2>. QED  BY <1>9, <2>1, <2>4 DEF LotReal, GrantsStand
<1>. QED  BY <1>2, <1>5, <1>8, <1>10, <1>11 DEF Joins

\* An upgrade tops the month of a granted window up: it adds what is missing,
\* or a lot of that upgrade is there already, or nothing is missing.
LEMMA DiffAccount ==
  ASSUME SourcesInv, RowReal, AccountReal, RowStands, GrantsStand, UNCHANGED window, sub.exists,
         NEW from \in Plan, NEW to \in Plan, NEW t \in Clock, ApplyUpgradeDiff(from, to, t)
  PROVE  /\ \A lot \in lots' : LotReal(lot)'
         /\ IsFiniteSet(UnitsOf(lots))'
         /\ LedgerStep
         /\ t = sub.anchor + sub.cursor /\ window[sub.cursor].status = "granted"
              => Granted(t + 1)' >= MonthlySmsCredits[to]
<1>. DEFINE start == sub.anchor + sub.cursor
            key == DiffKey(from, to)
            missing == Later(0, MonthlySmsCredits[to] - Granted(start + 1))
            lot == [key |-> key, units |-> missing, until |-> start + 1]
<1>1. sub.anchor \in Nat /\ sub.cursor \in Cycle /\ sub.cursor \in Nat /\ start \in Nat
  BY WindowFacts
<1>2. /\ Granted(start + 1) \in Nat /\ MonthlySmsCredits[to] \in Nat
  BY GrantedNat, CreditsNat DEF AccountReal
<1>3. ASSUME UNCHANGED lots
      PROVE  \A end : Granted(end)' = Granted(end)
  BY <1>3 DEF Granted, UnitsOf
<1>4. ASSUME UNCHANGED lots, ~(t = start /\ window[sub.cursor].status = "granted")
      PROVE  /\ \A x \in lots' : LotReal(x)'
             /\ IsFiniteSet(UnitsOf(lots))'
             /\ LedgerStep
             /\ t = start /\ window[sub.cursor].status = "granted"
                  => Granted(t + 1)' >= MonthlySmsCredits[to]
  BY <1>4, LotsStay DEF LedgerStep
<1>5. CASE t = start /\ window[sub.cursor].status = "granted"
  <2>1. AppendLotGrant(key, missing, start + 1)
    BY <1>5 DEF ApplyUpgradeDiff
  <2>2. missing \in Nat /\ (missing = 0 => Granted(start + 1) >= MonthlySmsCredits[to])
        /\ (missing # 0 => Granted(start + 1) + missing = MonthlySmsCredits[to])
    BY <1>2 DEF Later
  <2>3. key = <<"upgrade-diff", sub.cursor, from, to>>
    BY DEF DiffKey
  <2>4. /\ key \in {"monthly-grant", "upgrade-diff"} \X Cycle \X Plan \X Plan
        /\ key[2] = sub.cursor /\ key[4] = to
    BY <1>1, <2>3
  <2>5. start < stripe.paid
    BY <1>1, <1>5 DEF AccountReal, WindowReal
  <2>6. CASE missing = 0
    <3>1. UNCHANGED lots
      BY <2>1, <2>6 DEF AppendLotGrant
    <3>2. Granted(t + 1)' >= MonthlySmsCredits[to]
      BY <1>3, <1>5, <2>2, <2>6, <3>1
    <3>. QED  BY <1>5, <3>1, <3>2, LotsStay DEF LedgerStep
  <2>7. CASE key \in LotKeys
    <3>1. UNCHANGED lots
      BY <2>1, <2>7 DEF AppendLotGrant
    <3>2. PICK x \in lots : x.key = key
      BY <2>7 DEF LotKeys
    <3>3. x.until = start + 1 /\ Granted(x.until) >= MonthlySmsCredits[to]
      BY <1>1, <2>4, <3>2 DEF AccountReal, LotReal
    <3>4. Granted(t + 1)' >= MonthlySmsCredits[to]
      BY <1>3, <1>5, <3>1, <3>3
    <3>. QED  BY <1>5, <3>1, <3>4, LotsStay DEF LedgerStep
  <2>8. CASE missing # 0 /\ key \notin LotKeys
    <3>. HIDE DEF key, missing
    <3>1. lot.key = key /\ lot.units = missing /\ lot.until = start + 1
      OBVIOUS
    <3>2. lots' = lots \cup {lot}
      BY <2>1, <2>8 DEF AppendLotGrant
    <3>3. lot \in Lot
      BY <1>1, <2>2, <2>4, <2>8 DEF Lot
    <3>. HIDE DEF lot
    <3>4. lot \notin lots
      BY <2>8, <3>1 DEF LotKeys
    <3>5. Joins(lot, sub.cursor)
      BY <1>5, <2>2, <2>4, <2>8, <3>1, <3>2, <3>3, <3>4 DEF Joins
    <3>7. PICK l : l = lot
      OBVIOUS
    <3>6. /\ \A x \in lots' : LotReal(x)'
          /\ IsFiniteSet(UnitsOf(lots))'
          /\ Granted(t + 1)' = MonthlySmsCredits[to]
          /\ Grows(start, to)
      BY <1>1, <1>5, <2>4, <2>5, <3>1, <3>5, <3>7, LotJoins
    <3>. QED  BY <1>2, <1>5, <3>6 DEF LedgerStep
  <2>. QED  BY <2>6, <2>7, <2>8
<1>. QED  BY <1>4, <1>5 DEF ApplyUpgradeDiff

Upgraded(t) ==
  t = sub.anchor + sub.cursor /\ window[sub.cursor].status = "granted" /\ sub'.offer # sub.offer
    => Granted(t + 1)' >= Credits(sub'.offer)

LEMMA UpdateAccount ==
  ASSUME SourcesInv, RowReal, AccountReal, SourcesInv', RowReal', sub.exists,
         NEW snapshot, snapshot.offer \in Catalogue, NEW created \in Moment, NEW t \in Clock,
         UpdateSubscription(snapshot, created, t), UNCHANGED <<now, stripe, window>>
  PROVE  /\ AccountReal' /\ LedgerStep
         /\ sub'.exists /\ sub'.anchor = sub.anchor /\ sub'.cursor = sub.cursor
         /\ Upgraded(t)
         /\ sub'.offer = sub.offer => UNCHANGED lots
<1>1. /\ sub'.exists /\ sub'.anchor = sub.anchor /\ sub'.cursor = sub.cursor
      /\ sub'.paidThrough = sub.paidThrough
  BY UpdateReal DEF SourcesInv, BillingInv, RowReal
<1>2. RowStands /\ GrantsStand
  <2>1. created \in Int
    BY DEF Moment, Never
  <2>2. lots \subseteq lots'
    BY LotsGrow DEF UpdateSubscription, ApplyUpgradeDiff
  <2>3. sub'.protectedFrom = sub.protectedFrom
    BY DEF UpdateSubscription, SourcesInv, BillingInv, SubTyped, AnySubscription
  <2>4. sub.paidThrough \in Int
    BY DEF SourcesInv, BillingInv, SubTyped, AnySubscription
  <2>. QED  BY <1>1, <2>2, <2>3, <2>4 DEF RowStands, GrantsStand
<1>3. \A n \in Cycle : WindowReal(n)'
  <2>1. sub.cursor <= sub'.cursor /\ now <= now' /\ stripe.paid <= stripe'.paid
    BY <1>1, WindowFacts
  <2>. QED  BY <1>1, <2>1, WindowsStay
<1>4. sub.offer \in Catalogue /\ PlanOf[sub.offer] \in Plan /\ PlanOf[snapshot.offer] \in Plan
  BY WindowFacts, CreditsNat
<1>5. \/ UNCHANGED lots /\ sub'.offer = sub.offer
      \/ sub'.offer = snapshot.offer
           /\ ApplyUpgradeDiff(PlanOf[sub.offer], PlanOf[snapshot.offer], t)
  BY DEF UpdateSubscription, SourcesInv, BillingInv, SubTyped, AnySubscription
<1>6. CASE UNCHANGED lots /\ sub'.offer = sub.offer
  BY <1>1, <1>2, <1>3, <1>6, LotsStay DEF LedgerStep, AccountReal, Upgraded
<1>7. CASE sub'.offer = snapshot.offer
             /\ ApplyUpgradeDiff(PlanOf[sub.offer], PlanOf[snapshot.offer], t)
  <2>1. /\ \A lot \in lots' : LotReal(lot)'
        /\ IsFiniteSet(UnitsOf(lots))'
        /\ LedgerStep
        /\ t = sub.anchor + sub.cursor /\ window[sub.cursor].status = "granted"
             => Granted(t + 1)' >= MonthlySmsCredits[PlanOf[snapshot.offer]]
    BY <1>2, <1>4, <1>7, DiffAccount
  <2>2. Upgraded(t)
    BY <1>7, <2>1 DEF Upgraded, Credits
  <2>3. sub'.offer = sub.offer => UNCHANGED lots
    BY DEF UpdateSubscription, SourcesInv, BillingInv, SubTyped, AnySubscription
  <2>. QED  BY <1>1, <1>3, <2>1, <2>2, <2>3 DEF AccountReal
<1>. QED  BY <1>5, <1>6, <1>7

\* The engine grants the window of the present once, and what it grants of it
\* is paid to the end.
LEMMA EvaluationAccount ==
  ASSUME SourcesInv, RowReal, AccountReal, SourcesInv', RowReal', NEW t \in Clock,
         EvaluateSubscriptionWindows(t), UNCHANGED <<now, stripe>>,
         ~UNCHANGED <<sub, window, lots>>
  PROVE  /\ AccountReal' /\ LedgerStep
         /\ sub.exists /\ sub'.exists /\ sub'.anchor = sub.anchor /\ sub'.offer = sub.offer
         /\ sub'.cursor = t - sub.anchor /\ sub.cursor <= sub'.cursor
         /\ \/ window'[sub'.cursor].status = "granted" /\ window[sub'.cursor].status # "granted"
                 /\ Granted(t + 1)' >= Credits(sub.offer)
            \/ window'[sub'.cursor].status = window[sub'.cursor].status /\ UNCHANGED lots
            \/ window'[sub'.cursor].status # "granted"
<1>. DEFINE active == t - sub.anchor
            plan == PlanOf[sub.offer]
            grants == Open(active) /\ IsWindowFullyPaid(active)
            key == <<"monthly-grant", active, plan, plan>>
            lot == [key |-> key, units |-> MonthlySmsCredits[plan], until |-> t + 1]
<1>1. /\ sub.exists /\ sub'.exists /\ sub'.anchor = sub.anchor /\ sub'.offer = sub.offer
      /\ sub'.cursor = active /\ sub.cursor <= active /\ active \in Cycle
  BY EvaluationReal DEF SourcesInv, Sources, StripeReal, RowReal
<1>2. /\ sub.anchor \in Nat /\ plan \in Plan /\ sub.cursor \in Nat /\ active \in Nat
      /\ now \in Nat /\ stripe.paid \in Nat /\ t \in Nat /\ t <= now /\ t = sub.anchor + active
      /\ MonthlySmsCredits[plan] \in Nat /\ sub.paidThrough \in Int
  BY <1>1, WindowFacts, CreditsNat
  DEF Clock, SourcesInv, BillingInv, SubTyped, AnySubscription
<1>3. window' = [n \in Cycle |->
        IF n \in sub.cursor..(active - 1) /\ Open(n) THEN Recorded(n, "skipped_missed")
        ELSE IF n = active /\ grants THEN Recorded(n, "granted")
        ELSE IF n = active /\ Open(n) THEN Recorded(n, "skipped_unpaid")
        ELSE window[n]]
  BY DEF EvaluateSubscriptionWindows
<1>4. \/ grants /\ AppendLotGrant(key, MonthlySmsCredits[plan], t + 1)
      \/ ~grants /\ UNCHANGED lots
  BY DEF EvaluateSubscriptionWindows
<1>5. grants => t < stripe.paid
  BY <1>2 DEF IsWindowFullyPaid, RowReal, PaidFor
<1>6. Local
  <2>1. t \in Int
    BY <1>2
  <2>. QED  BY <2>1, EvaluationStands DEF SourcesInv, BillingInv
<1>7. ASSUME NEW n \in Cycle
      PROVE  /\ window[n] \in WindowRow
             /\ \A status \in {"granted", "skipped_unpaid", "skipped_missed"} :
                  Recorded(n, status) \in WindowRow /\ Recorded(n, status).status = status
  BY <1>2 DEF AccountReal, WindowRow, Recorded
<1>8. window' \in [Cycle -> WindowRow]
  BY <1>3, <1>7
<1>9. ASSUME NEW n \in Cycle, window'[n].status = "granted", window[n].status # "granted"
      PROVE  n = active /\ grants
  BY <1>3, <1>7, <1>9
<1>10. ASSUME NEW n \in Cycle
       PROVE  WindowReal(n)'
  <2>1. CASE window'[n].status = "granted" /\ window[n].status # "granted"
    <3>1. n = active /\ t < stripe.paid
      BY <1>5, <1>9, <2>1
    <3>. HIDE DEF active
    <3>2. n <= sub'.cursor /\ sub'.anchor + n <= now' /\ sub'.anchor + n < stripe'.paid
      BY <1>1, <1>2, <3>1
    <3>. QED  BY <1>1, <3>2 DEF WindowReal
  <2>2. CASE window[n].status = "granted"
    <3>1. /\ n <= sub.cursor /\ sub.anchor + n <= now /\ sub.anchor + n < stripe.paid
      BY <2>2 DEF AccountReal, WindowReal
    <3>2. n \in Nat
      BY WindowFacts
    <3>. HIDE DEF active
    <3>3. n <= sub'.cursor /\ sub'.anchor + n <= now' /\ sub'.anchor + n < stripe'.paid
      BY <1>1, <1>2, <3>1, <3>2
    <3>. QED  BY <1>1, <3>3 DEF WindowReal
  <2>3. CASE window'[n].status # "granted"
    BY <2>3 DEF WindowReal
  <2>. QED  BY <2>1, <2>2, <2>3
<1>11. ASSUME (\A x \in lots' : LotReal(x)') /\ IsFiniteSet(UnitsOf(lots))'
       PROVE  AccountReal'
  BY <1>8, <1>10, <1>11 DEF AccountReal
<1>12. CASE ~grants
  <2>1. UNCHANGED lots
    BY <1>4, <1>12
  <2>2. AccountReal' /\ LedgerStep
    BY <1>6, <1>11, <2>1, LotsStay DEF Local, LedgerStep
  <2>3. window'[active].status = window[active].status \/ window'[active].status # "granted"
    BY <1>1, <1>9, <1>12
  <2>. HIDE DEF grants, active
  <2>. QED  BY <1>1, <1>2, <2>1, <2>2, <2>3
<1>13. CASE grants
  <2>1. window'[active].status = "granted" /\ window[active].status # "granted"
    <3>1. active \notin sub.cursor..(active - 1)
      BY <1>2
    <3>2. window'[active] = Recorded(active, "granted")
      BY <1>1, <1>3, <1>13, <3>1
    <3>. QED  BY <1>1, <1>7, <1>13, <3>2 DEF Open
  <2>2. ASSUME NEW x \in lots
        PROVE  x.until # t + 1 /\ x.key # key
    <3>1. /\ x.key[2] \in Cycle /\ window[x.key[2]].status = "granted"
          /\ x.until = sub.anchor + x.key[2] + 1
      BY DEF AccountReal, LotReal, Lot
    <3>2. x.key[2] # active /\ x.key[2] \in Nat
      BY <2>1, <3>1, WindowFacts
    <3>3. key[2] = active
      OBVIOUS
    <3>. HIDE DEF active, key
    <3>. QED  BY <1>2, <3>1, <3>2, <3>3
  <2>3. Granted(t + 1) = 0
    <3>1. {x \in lots : x.until = t + 1} = {}
      BY <2>2
    <3>2. UnitsOf({}) = {}
      BY DEF UnitsOf
    <3>. QED  BY <3>1, <3>2, FS_EmptySet DEF Granted
  <2>4. CASE MonthlySmsCredits[plan] = 0
    <3>1. UNCHANGED lots
      BY <1>4, <1>13, <2>4 DEF AppendLotGrant
    <3>2. Granted(t + 1)' = 0
      BY <2>3, <3>1 DEF Granted, UnitsOf
    <3>3. AccountReal' /\ LedgerStep
      BY <1>6, <1>11, <3>1, LotsStay DEF Local, LedgerStep
    <3>4. Granted(t + 1)' >= Credits(sub.offer)
      BY <2>4, <3>2 DEF Credits
    <3>. HIDE DEF active, grants
    <3>. QED  BY <1>1, <1>2, <2>1, <3>3, <3>4
  <2>5. CASE MonthlySmsCredits[plan] # 0
    <3>1. key \notin LotKeys
      BY <2>2 DEF LotKeys
    <3>2. lots' = lots \cup {lot}
      BY <1>4, <1>13, <2>5, <3>1 DEF AppendLotGrant
    <3>3. lot.key = key /\ lot.units = MonthlySmsCredits[plan] /\ lot.until = t + 1
      OBVIOUS
    <3>4. key[2] = active /\ key[4] = plan
          /\ key \in {"monthly-grant", "upgrade-diff"} \X Cycle \X Plan \X Plan
      BY <1>1, <1>2
    <3>5. lot \in Lot
      <4>. HIDE DEF key, plan
      <4>. QED  BY <1>2, <2>5, <3>4 DEF Lot
    <3>6. lot \notin lots
      <4>. HIDE DEF lot, key
      <4>. QED  BY <2>2, <3>3
    <3>7. Joins(lot, active)
      <4>. HIDE DEF lot, key, active, plan
      <4>. QED  BY <1>2, <2>1, <2>3, <3>2, <3>3, <3>4, <3>5, <3>6 DEF Joins
    <3>8. PICK l : l = lot
      OBVIOUS
    <3>9. /\ \A x \in lots' : LotReal(x)'
          /\ IsFiniteSet(UnitsOf(lots))'
          /\ Granted(l.until)' = MonthlySmsCredits[l.key[4]]
          /\ Grows(sub.anchor + active, l.key[4])
      <4>. HIDE DEF lot, key, active, plan
      <4>. QED  BY <1>1, <1>2, <1>5, <1>6, <1>13, <3>7, <3>8, LotJoins DEF Local
    <3>10. l.until = t + 1 /\ l.key[4] = plan
      BY <3>3, <3>4, <3>8
    <3>11. Granted(t + 1)' >= Credits(sub.offer)
      BY <1>2, <3>9, <3>10 DEF Credits
    <3>12. AccountReal' /\ LedgerStep
      <4>. HIDE DEF plan, active
      <4>. QED  BY <1>2, <1>11, <3>9, <3>10 DEF LedgerStep
    <3>. HIDE DEF active, grants
    <3>. QED  BY <1>1, <1>2, <2>1, <3>11, <3>12
  <2>. QED  BY <2>4, <2>5
<1>. QED  BY <1>12, <1>13

\* Payments and insertions leave the windows and the ledger alone.
LEMMA RowOnlyAccount ==
  ASSUME SourcesInv, RowReal, AccountReal, SourcesInv', RowReal', RowOnly, [Next]_vars
  PROVE  /\ AccountReal' /\ UNCHANGED <<now, stripe, window, lots>>
         /\ sub.exists => /\ sub'.exists /\ sub'.anchor = sub.anchor
                          /\ sub'.cursor = sub.cursor
                          /\ Credits(sub'.offer) <= Credits(sub.offer)
<1>1. UNCHANGED <<now, stripe, window, lots>>
  BY DEF RowOnly, InsertSubscription, ApplyInvoicePaymentFailed, ApplyInvoicePaymentSucceeded
<1>2. RowStands /\ GrantsStand
  BY BillingStep DEF SourcesInv, Local
<1>3. sub.exists => sub'.exists /\ sub'.anchor = sub.anchor
  BY <1>2 DEF RowStands
<1>4. sub.exists => sub'.cursor = sub.cursor /\ Credits(sub'.offer) <= Credits(sub.offer)
  <2>1. sub.exists => Credits(sub.offer) \in Nat
    BY CreditsNat DEF RowReal, GoodRow
  <2>2. ASSUME NEW e \in Event, InsertSubscription(e), sub.exists
        PROVE  UNCHANGED sub
    BY <2>2, InsertReal
  <2>3. ASSUME NEW e \in Event, ApplyInvoicePaymentFailed(e)
        PROVE  sub'.cursor = sub.cursor /\ sub'.offer = sub.offer
    BY <2>3, PaymentFailedReal
  <2>4. ASSUME NEW e \in Event, NEW t \in Clock, ApplyInvoicePaymentSucceeded(e, t), sub.exists
        PROVE  sub'.cursor = sub.cursor /\ Credits(sub'.offer) <= Credits(sub.offer)
    BY <2>4, PaymentReal
  <2>. QED  BY <2>1, <2>2, <2>3, <2>4 DEF RowOnly
<1>5. \A n \in Cycle : WindowReal(n)'
  <2>1. now <= now' /\ stripe.paid <= stripe'.paid /\ (sub.exists => sub.cursor <= sub'.cursor)
    BY <1>1, <1>4, WindowFacts
  <2>. QED  BY <1>1, <1>3, <2>1, WindowsStay
<1>6. (\A lot \in lots' : LotReal(lot)') /\ IsFiniteSet(UnitsOf(lots))'
  BY <1>1, <1>2, LotsStay
<1>7. window' \in [Cycle -> WindowRow]
  BY <1>1 DEF AccountReal
<1>. QED  BY <1>1, <1>3, <1>4, <1>5, <1>6, <1>7 DEF AccountReal

LEMMA TimePasses == [Next]_vars => UNCHANGED now \/ Tick
<1>. SUFFICES ASSUME [Next]_vars
              PROVE  UNCHANGED now \/ Tick
  OBVIOUS
<1>1. ASSUME NEW e \in Event, Handle(e)
      PROVE  UNCHANGED now
  BY <1>1 DEF Handle, RetrieveSubscription, InsertSubscription, ProjectSubscriptionSnapshot,
     ApplyInvoicePaymentSucceeded, EvaluateAfterPayment, ApplyInvoicePaymentFailed,
     ResolveBillingEvent, FailBillingEvent
<1>2. ASSUME NEW e \in Event,
             Deliver(e) \/ BackoffPasses(e) \/ HandlerThrows(e) \/ HandlerDies(e)
      PROVE  UNCHANGED now
  BY <1>2 DEF Deliver, ClaimBillingEvent, Deduplicate, BackoffPasses, HandlerThrows, HandlerDies
<1>3. CASE Maintenance
  BY <1>3 DEF Maintenance, EvaluateWindowsRoute, ReconcileReads, ReconcileRetrieves,
     ReconcileProjects, ClaimEnds
<1>4. CASE Stripe \/ UNCHANGED vars
  BY <1>4 DEF Stripe, vars
<1>. QED  BY <1>1, <1>2, <1>3, <1>4 DEF Next

LEMMA IdleAccount ==
  ASSUME SourcesInv, RowReal, AccountReal, SourcesInv', RowReal', [Next]_vars,
         UNCHANGED <<sub, window, lots>>
  PROVE  AccountReal'
<1>1. RowStands /\ GrantsStand
  BY BillingStep DEF SourcesInv, Local
<1>2. stripe.paid <= stripe'.paid
  <2>1. stripe'.paid >= stripe.paid
    BY EvidenceStep DEF SourcesInv
  <2>2. stripe.paid \in Int /\ stripe'.paid \in Int
    BY DEF SourcesInv, BillingInv, Remote, StripeTyped, StripeSide
  <2>. QED  BY <2>1, <2>2
<1>3. now <= now'
  <2>1. UNCHANGED now \/ Tick
    BY TimePasses
  <2>. QED  BY <2>1, WindowFacts DEF Tick
<1>4. \A n \in Cycle : WindowReal(n)'
  <2>1. sub.cursor <= sub'.cursor
    BY WindowFacts
  <2>. QED  BY <1>2, <1>3, <2>1, WindowsStay
<1>5. (\A lot \in lots' : LotReal(lot)') /\ IsFiniteSet(UnitsOf(lots))'
  BY <1>1, LotsStay
<1>. QED  BY <1>4, <1>5 DEF AccountReal

AllowanceInv == SourcesInv /\ RowReal /\ AccountReal

LEMMA AllowanceStep ==
  ASSUME AllowanceInv, [Next]_vars
  PROVE  AllowanceInv' /\ LedgerStep
<1>. USE DEF AllowanceInv
<1>1. SourcesInv'
  BY InboxStep, BillingStep, EvidenceStep, SourcesStep DEF SourcesInv, BillingInv, Local
<1>2. RowReal'
  BY RowStep
<1>3. CASE UNCHANGED <<sub, window, lots>>
  BY <1>1, <1>2, <1>3, IdleAccount DEF LedgerStep
<1>4. CASE RowOnly
  BY <1>1, <1>2, <1>4, RowOnlyAccount DEF LedgerStep
<1>5. CASE Updates
  BY <1>1, <1>2, <1>5, UpdateAccount DEF Updates
<1>6. CASE Evaluates /\ ~UNCHANGED <<sub, window, lots>>
  BY <1>1, <1>2, <1>6, EvaluationAccount DEF Evaluates
<1>. QED  BY <1>1, <1>2, <1>3, <1>4, <1>5, <1>6, AccountChanges

LEMMA AllowanceStarts == Init => AllowanceInv
<1>. SUFFICES ASSUME Init
              PROVE  AllowanceInv
  OBVIOUS
<1>1. BillingInv
  BY BillingStarts
<1>2. InboxInv
  BY DEF Init, InboxInv, InboxTyped, InboxRow, AtWorkIsProcessing
<1>3. Evidence
  BY DEF Init, Evidence, InvoicesReal, PaidIsReal
<1>4. StripeReal
  BY BillingAssumption DEF Init, StripeReal
<1>5. HandlersReal
  BY BillingAssumption, NoHandlerReads DEF Init, HandlersReal, AttemptsLeft
<1>6. RowReal
  BY NoRowIsGood DEF Init, RowReal, PaidFor, NoSubscription, NoReconciliation, Moment
<1>7. AccountReal
  <2>1. UnitsOf({}) = {}
    BY DEF UnitsOf
  <2>2. window \in [Cycle -> WindowRow] /\ \A n \in Cycle : window[n].status # "granted"
    BY DEF Init, WindowRow
  <2>. QED  BY <2>1, <2>2, FS_EmptySet DEF Init, AccountReal, WindowReal
<1>. QED  BY <1>1, <1>2, <1>3, <1>4, <1>5, <1>6, <1>7 DEF AllowanceInv, SourcesInv, Sources

LEMMA ClaimStep ==
  ASSUME claim \in {"none", "reserved", "redeemed", "released", "expired"}, [Next]_vars
  PROVE  claim' \in {"none", "reserved", "redeemed", "released", "expired"}
<1>1. ASSUME NEW e \in Event, Handle(e)
      PROVE  claim' \in {claim, "redeemed"}
  BY <1>1 DEF Handle, RetrieveSubscription, InsertSubscription, ProjectSubscriptionSnapshot,
     ApplyInvoicePaymentSucceeded, EvaluateAfterPayment, ApplyInvoicePaymentFailed,
     ResolveBillingEvent, FailBillingEvent
<1>2. ASSUME NEW e \in Event,
             Deliver(e) \/ BackoffPasses(e) \/ HandlerThrows(e) \/ HandlerDies(e)
      PROVE  UNCHANGED claim
  BY <1>2 DEF Deliver, ClaimBillingEvent, Deduplicate, BackoffPasses, HandlerThrows, HandlerDies
<1>3. CASE Maintenance
  BY <1>3 DEF Maintenance, EvaluateWindowsRoute, ReconcileReads, ReconcileRetrieves,
     ReconcileProjects, ClaimEnds
<1>4. CASE Stripe \/ Tick \/ UNCHANGED vars
  BY <1>4 DEF Stripe, Tick, vars
<1>. QED  BY <1>1, <1>2, <1>3, <1>4 DEF Next

LEMMA AllowanceTypes ==
  ASSUME AllowanceInv, claim \in {"none", "reserved", "redeemed", "released", "expired"}
  PROVE  TypeOK
<1>. USE DEF AllowanceInv, SourcesInv, BillingInv, Remote, Sources
<1>1. now \in 0..MaxTime
  BY BillingAssumption DEF StripeReal
<1>2. stripe \in [status : Status, offer : Offer \cup {NoOffer}, start : Nat \cup {Never},
                  second : Nat, invoices : SUBSET Invoice, paid : Nat,
                  acknowledged : SUBSET Event]
  <2>1. stripe \in StripeSide /\ stripe.second \in Nat /\ stripe.paid \in Nat
    BY DEF StripeTyped, StripeReal
  <2>2. stripe.start \in Nat \cup {Never}
    BY <2>1 DEF StripeSide, Instant, Never
  <2>3. stripe.invoices \subseteq Invoice
    <3>1. ASSUME NEW invoice \in stripe.invoices
          PROVE  invoice \in Invoice
      <4>1. invoice \in AnyInvoice /\ invoice.end > 0
        BY <2>1 DEF StripeSide, Evidence, InvoicesReal
      <4>. QED  BY <4>1 DEF AnyInvoice, Invoice
    <3>. QED  BY <3>1
  <2>. QED  BY <2>1, <2>2, <2>3 DEF StripeSide, AnyOffer
<1>3. log \in Seq([type : EventType, created : Nat, body : Snapshot \cup Invoice])
  <2>1. ASSUME NEW e \in 1..Len(log)
        PROVE  log[e] \in [type : EventType, created : Nat, body : Snapshot \cup Invoice]
    <3>1. log[e] \in LogRow
      BY ElementOfSeq DEF LogTyped
    <3>. QED  BY <3>1, EventBody DEF LogRow
  <2>. DEFINE Row == [type : EventType, created : Nat, body : Snapshot \cup Invoice]
  <2>2. Len(log) \in Nat /\ log = [e \in 1..Len(log) |-> log[e]]
    BY DEF LogTyped
  <2>. HIDE DEF Row
  <2>3. \A e \in 1..Len(log) : log[e] \in Row
    BY <2>1 DEF Row
  <2>4. log \in Seq(Row)
    BY <2>2, <2>3, SeqDef
  <2>. QED  BY <2>4 DEF Row
<1>4. Len(log) <= MaxEvents
  BY DEF StripeReal
<1>5. inbox \in [Event -> [status : {"none", "processing", "failed_retryable"} \cup Terminal,
                           attempts : 0..MaxAttempts, due : BOOLEAN]]
  <2>1. \A e \in Event : inbox[e] \in InboxRow /\ inbox[e].attempts <= MaxAttempts
    BY DEF InboxInv, InboxTyped, HandlersReal, AttemptsLeft
  <2>2. ASSUME NEW e \in Event
        PROVE  inbox[e] \in [status : {"none", "processing", "failed_retryable"} \cup Terminal,
                             attempts : 0..MaxAttempts, due : BOOLEAN]
    BY <2>1, BillingAssumption DEF InboxRow
  <2>. QED  BY <2>2 DEF InboxInv, InboxTyped
<1>6. handler \in [Event -> [pc : Step, snapshot : Snapshot \cup Invoice]]
  <2>1. ASSUME NEW e \in Event
        PROVE  handler[e] \in [pc : Step, snapshot : Snapshot \cup Invoice]
    BY DEF HandlersReal, Reads, HandlerFits, Fits, Invocation
  <2>. QED  BY <2>1 DEF HandlerFits
<1>7. sub \in SubscriptionRow
  <2>1. sub \in AnySubscription /\ GoodRow(sub)
    BY DEF SubTyped, RowReal
  <2>2. /\ sub.offer \in Catalogue \cup {NoOffer} /\ sub.pending \in Catalogue \cup {NoOffer}
        /\ sub.anchor \in Nat \cup {Never}
    BY <2>1 DEF GoodRow, NoSubscription
  <2>. QED  BY <2>1, <2>2 DEF AnySubscription, GoodRow, SubscriptionRow, Moment
<1>8. window \in [Cycle -> [status : {"none", "granted", "skipped_unpaid", "skipped_missed"},
                            plan : Plan \cup {"none"}]]
  BY DEF AccountReal, WindowRow
<1>9. lots \subseteq [key : {"monthly-grant", "upgrade-diff"} \X Cycle \X Plan \X Plan,
                      units : Nat \ {0}, until : Nat]
  BY DEF AccountReal, LotReal, Lot
<1>10. reconcile \in [pc : {"idle", "retrieve", "project"}, watermark : Nat \cup {Never},
                      snapshot : Snapshot]
  BY BodyTypes DEF RowReal, Reconciliation, Moment
<1>. QED  BY <1>1, <1>2, <1>3, <1>4, <1>5, <1>6, <1>7, <1>8, <1>9, <1>10 DEF TypeOK, Step

(***************************************************************************)
(* The tables, the invocations and Stripe's side have their types, whoever *)
(* throws, dies or comes twice: no event is attempted more often than the  *)
(* poison pill allows, the row names offers the code knows, and every lot  *)
(* has units and a window.                                                 *)
(***************************************************************************)
THEOREM BillingTypes == Spec => []TypeOK
<1>. DEFINE Inv == /\ AllowanceInv
                   /\ claim \in {"none", "reserved", "redeemed", "released", "expired"}
<1>1. Init => Inv
  BY AllowanceStarts DEF Init
<1>2. Inv /\ [Next]_vars => Inv'
  BY AllowanceStep, ClaimStep
<1>3. Inv => TypeOK
  BY AllowanceTypes
<1>. QED  BY <1>1, <1>2, <1>3, PTL DEF Spec

(***************************************************************************)
(* The refinement.                                                         *)
(***************************************************************************)
PerMonth == [m \in Cycle |-> Granted(m + 1)]

LEMMA AllowanceRefines ==
  ASSUME AllowanceInv, [Next]_vars
  PROVE  Allowances!Next \/ UNCHANGED <<now, stripe.paid, PerMonth>>
<1>1. stripe'.paid >= stripe.paid /\ stripe.paid \in Int /\ stripe'.paid \in Int
  <2>1. stripe'.paid >= stripe.paid
    BY EvidenceStep DEF AllowanceInv, SourcesInv
  <2>2. SourcesInv'
    BY AllowanceStep DEF AllowanceInv
  <2>. QED
    BY <2>1, <2>2 DEF AllowanceInv, SourcesInv, BillingInv, Remote, StripeTyped, StripeSide
<1>2. CASE UNCHANGED lots
  <2>1. UNCHANGED PerMonth
    BY <1>2 DEF PerMonth, Granted, UnitsOf
  <2>2. CASE Tick
    <3>1. Allowances!Pass
      BY <2>1, <2>2 DEF Tick, Allowances!Pass, PerMonth
    <3>. QED  BY <3>1 DEF Allowances!Next
  <2>3. CASE UNCHANGED now /\ stripe'.paid > stripe.paid
    <3>1. Allowances!Pay
      BY <2>1, <2>3 DEF Allowances!Pay, PerMonth
    <3>. QED  BY <3>1 DEF Allowances!Next
  <2>4. CASE UNCHANGED now /\ stripe'.paid = stripe.paid
    BY <2>1, <2>4
  <2>. QED  BY <1>1, <2>2, <2>3, <2>4, TimePasses
<1>3. CASE ~UNCHANGED lots
  <2>1. UNCHANGED <<now, stripe>>
    BY <1>3, AccountChanges
    DEF AllowanceInv, Updates, Evaluates, RowOnly, InsertSubscription, ApplyInvoicePaymentFailed,
        ApplyInvoicePaymentSucceeded
  <2>2. PICK t \in Clock, p \in Plan : Grows(t, p)
    BY <1>3, AllowanceStep DEF LedgerStep
  <2>3. t \in Cycle /\ t <= now /\ now - t <= ClockLag /\ t < stripe.paid
    BY <2>2, WindowFacts DEF Clock, Cycle, Grows, AllowanceInv, SourcesInv, Sources, StripeReal
  <2>4. PerMonth' = [PerMonth EXCEPT ![t] = MonthlySmsCredits[p]]
    <3>1. ASSUME NEW m \in Cycle
          PROVE  Granted(m + 1)' = IF m = t THEN MonthlySmsCredits[p] ELSE Granted(m + 1)
      <4>1. m \in Int /\ t \in Int
        BY <2>3, BillingAssumption DEF Cycle
      <4>. QED  BY <2>2, <4>1 DEF Grows
    <3>. QED  BY <2>3, <3>1 DEF PerMonth
  <2>5. MonthlySmsCredits[p] > PerMonth[t]
    BY <2>2, <2>3, CreditsNat, GrantedNat DEF Grows, PerMonth, AllowanceInv, AccountReal
  <2>6. Allowances!Grant(t)
    BY <2>1, <2>3, <2>4, <2>5 DEF Allowances!Grant, PerMonth
  <2>. QED  BY <2>3, <2>6 DEF Allowances!Next
<1>. QED  BY <1>2, <1>3

(***************************************************************************)
(* The windows implement MonthlyAllowance, for every catalogue, lag and    *)
(* number of events: a month gets its allowance once, during the month and *)
(* when Stripe was paid to its end; an upgrade brings it up to the bigger  *)
(* allowance; nothing is granted twice by engine, invoice, projection,     *)
(* reconciliation and replay together, and nothing is taken back.          *)
(***************************************************************************)
THEOREM AllowanceImplemented == Spec => ImplementsMonthlyAllowance
<1>1. Init => Allowances!Init
  <2>. SUFFICES ASSUME Init
                PROVE  Allowances!Init
    OBVIOUS
  <2>1. \A end : Granted(end) = 0
    <3>1. \A end : UnitsOf({lot \in lots : lot.until = end}) = {}
      BY DEF Init, UnitsOf
    <3>. QED  BY <3>1, FS_EmptySet DEF Granted
  <2>. QED  BY <2>1 DEF Init, Allowances!Init
<1>2. AllowanceInv /\ [Next]_vars => [Allowances!Next]_(Allowances!allowanceVars)
  BY AllowanceRefines DEF Allowances!allowanceVars, PerMonth
<1>3. AllowanceInv /\ [Next]_vars => AllowanceInv'
  BY AllowanceStep
<1>. QED
  BY <1>1, <1>2, <1>3, AllowanceStarts, PTL DEF Spec, ImplementsMonthlyAllowance, Allowances!Spec

\* While handlers read the month right, a granted window of the present has
\* the allowance of the offer in force: every step that grants it or changes
\* the offer within it is taken in the month.
LEMMA ToppedUpStep ==
  ASSUME ClockLag = 0, AllowanceInv, UpgradeToppedUp, [Next]_vars
  PROVE  UpgradeToppedUp'
<1>. USE DEF AllowanceInv
<1>1. AllowanceInv'
  BY AllowanceStep
<1>. SUFFICES ASSUME sub'.exists, window'[sub'.cursor].status = "granted",
                     now' = sub'.anchor + sub'.cursor
              PROVE  Granted(now + 1)' >= Credits(sub'.offer)
  BY DEF UpgradeToppedUp, Credits
<1>2. /\ now \in Nat /\ now' \in Nat /\ sub'.cursor \in Nat
  BY <1>1, WindowFacts
  DEF SourcesInv, BillingInv, Remote, RowReal, GoodRow, Cycle
<1>3. \A t \in Clock : t = now
  BY <1>2 DEF Clock
<1>4. sub.exists => sub.offer \in Catalogue /\ Credits(sub.offer) \in Nat
  BY WindowFacts, CreditsNat
<1>5. sub'.offer \in Catalogue /\ Credits(sub'.offer) \in Nat
  BY <1>1, CreditsNat DEF RowReal, GoodRow
<1>6. ASSUME UNCHANGED lots
      PROVE  \A end : Granted(end)' = Granted(end)
  BY <1>6 DEF Granted, UnitsOf
<1>7. \A end : Granted(end) \in Nat
  BY GrantedNat DEF AccountReal
<1>8. CASE UNCHANGED <<sub, window, lots>>
  <2>1. CASE UNCHANGED now
    BY <1>6, <1>8, <2>1 DEF UpgradeToppedUp
  <2>2. CASE Tick
    <3>1. sub.anchor + sub.cursor <= now
      BY <1>8, WindowFacts DEF AccountReal, WindowReal
    <3>. QED  BY <1>2, <1>8, <2>2, <3>1 DEF Tick
  <2>. QED  BY <2>1, <2>2, TimePasses
<1>9. CASE RowOnly
  <2>1. /\ UNCHANGED <<now, stripe, window, lots>>
        /\ sub.exists => /\ sub'.exists /\ sub'.anchor = sub.anchor
                         /\ sub'.cursor = sub.cursor
                         /\ Credits(sub'.offer) <= Credits(sub.offer)
    BY <1>1, <1>9, RowOnlyAccount
  <2>2. sub.exists
    <3>1. sub'.cursor \in Cycle
      BY <1>1 DEF RowReal, GoodRow
    <3>. QED  BY <2>1, <3>1 DEF AccountReal, WindowReal
  <2>3. Granted(now + 1) >= Credits(sub.offer)
    BY <2>1, <2>2 DEF UpgradeToppedUp
  <2>. QED  BY <1>4, <1>5, <1>6, <1>7, <2>1, <2>2, <2>3
<1>10. CASE Updates
  <2>1. PICK snapshot \in Snapshot, created \in Moment, t \in Clock :
          /\ sub.exists /\ snapshot.offer \in Catalogue
          /\ UpdateSubscription(snapshot, created, t)
          /\ UNCHANGED <<now, stripe, window>>
    BY <1>10 DEF Updates
  <2>2. /\ sub'.exists /\ sub'.anchor = sub.anchor /\ sub'.cursor = sub.cursor
        /\ Upgraded(t)
        /\ sub'.offer = sub.offer => UNCHANGED lots
    BY <1>1, <2>1, UpdateAccount
  <2>3. CASE sub'.offer = sub.offer
    BY <1>6, <2>1, <2>2, <2>3 DEF UpgradeToppedUp
  <2>4. CASE sub'.offer # sub.offer
    <3>1. Granted(t + 1)' >= Credits(sub'.offer)
      BY <1>3, <2>1, <2>2, <2>4 DEF Upgraded
    <3>. QED  BY <1>3, <2>1, <3>1
  <2>. QED  BY <2>3, <2>4
<1>11. CASE Evaluates /\ ~UNCHANGED <<sub, window, lots>>
  <2>1. PICK t \in Clock : EvaluateSubscriptionWindows(t) /\ UNCHANGED <<now, stripe>>
    BY <1>11 DEF Evaluates
  <2>2. /\ sub.exists /\ sub'.exists /\ sub'.anchor = sub.anchor /\ sub'.offer = sub.offer
        /\ sub'.cursor = t - sub.anchor /\ sub.cursor <= sub'.cursor
        /\ \/ window'[sub'.cursor].status = "granted" /\ window[sub'.cursor].status # "granted"
                /\ Granted(t + 1)' >= Credits(sub.offer)
           \/ window'[sub'.cursor].status = window[sub'.cursor].status /\ UNCHANGED lots
           \/ window'[sub'.cursor].status # "granted"
    BY <1>1, <1>11, <2>1, EvaluationAccount
  <2>3. CASE Granted(t + 1)' >= Credits(sub.offer)
    BY <1>3, <2>1, <2>2, <2>3
  <2>4. CASE window'[sub'.cursor].status = window[sub'.cursor].status /\ UNCHANGED lots
    <3>1. sub'.cursor \in Cycle /\ sub.cursor \in Nat
      BY <1>1, WindowFacts DEF RowReal, GoodRow
    <3>2. sub'.cursor <= sub.cursor
      BY <2>4, <3>1 DEF AccountReal, WindowReal
    <3>3. sub'.cursor = sub.cursor
      BY <1>2, <2>2, <3>1, <3>2
    <3>. QED  BY <1>6, <2>1, <2>2, <2>4, <3>3 DEF UpgradeToppedUp
  <2>. QED  BY <2>2, <2>3, <2>4
<1>. QED  BY <1>8, <1>9, <1>10, <1>11, AccountChanges

(***************************************************************************)
(* Contract 6.4 for every catalogue and every order of upgrades,           *)
(* downgrades, invoices, evaluations and reconciliations: as long as no    *)
(* handler takes one month for another (ClockLag = 0), the granted window  *)
(* of the present carries the allowance of the offer in force.  A handler  *)
(* whose clock lags over the end of a month would skip the top-up.         *)
(***************************************************************************)
THEOREM UpgradesAreToppedUp ==
  ASSUME ClockLag = 0
  PROVE  Spec => []UpgradeToppedUp
<1>1. Init => AllowanceInv /\ UpgradeToppedUp
  BY AllowanceStarts DEF Init, UpgradeToppedUp, NoSubscription
<1>2. AllowanceInv /\ UpgradeToppedUp /\ [Next]_vars => AllowanceInv' /\ UpgradeToppedUp'
  BY AllowanceStep, ToppedUpStep
<1>. QED  BY <1>1, <1>2, PTL DEF Spec
=============================================================================
