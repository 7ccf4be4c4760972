--------------------------- MODULE DepositRefund ---------------------------
(***************************************************************************)
(* Refunds of one deposit: who may ask, the single core that creates them, *)
(* and everything that observes them at Stripe afterwards.                 *)
(*                                                                         *)
(* A worker is an invocation in the middle of the refund core or of late   *)
(* recovery: it holds a snapshot of the deposit row, and the claim it took *)
(* on the write-ahead row of its key epoch (a stripe_webhook_event row).   *)
(* Between two of its actions anything may happen, and it may die.  At     *)
(* Stripe a refund is a member of Refund; the statuses it has gone through *)
(* stay deliverable, because webhooks come late, twice and out of order.   *)
(*                                                                         *)
(* Backoffs and the fifteen-minute staleness are not counted: work that is *)
(* due is due at once, and a claim is stale once its worker is gone.  That *)
(* a worker outlives its lease, and is overtaken, is one of the faults.    *)
(***************************************************************************)
EXTENDS DepositHold, FiniteSets

CONSTANTS
    Worker,          \* concurrent invocations that handle refunds
    Refund,          \* refund objects Stripe may come to hold
    NoRefund,        \* a null stripeRefundId
    MaxEpoch,        \* refundKeyEpoch's limit (4 in the code)
    MaxFailures,     \* refundTerminalFailureCount's limit (3 in the code)
    MaxAttempts,     \* refundReconcileAttempts' limit (3 in the code)
    PoisonAttempts,  \* claims after which the sweep gives work up (8)
    MaxDashboard     \* refunds the salon makes in its Stripe Dashboard

ASSUME LimitsAssumption ==
    /\ MaxEpoch \in Nat \ {0} /\ MaxFailures \in Nat \ {0}
    /\ MaxAttempts \in Nat \ {0} /\ PoisonAttempts \in Nat \ {0, 1}
    /\ MaxDashboard \in Nat /\ NoRefund \notin Refund
    /\ IsFiniteSet(Refund)

VARIABLES
    lateChecked,  \* lateCheckDoneAt is set
    row,          \* the refund columns of the deposit row
    refund,       \* the refunds at Stripe
    work,         \* the write-ahead row of each key epoch
    worker        \* the invocations under way

refundVars == <<lateChecked, row, refund, work, worker>>

NullRow == [refundStatus |-> "null", refundId |-> NoRefund, prior |-> {},
            failures |-> 0, epoch |-> 1, attempts |-> 0, trigger |-> "none",
            partial |-> FALSE, barred |-> FALSE]

\* A refund Luster made carries the key it was made with; one from the
\* salon's Stripe Dashboard carries none.
NoKey == <<0, 0>>
NotMade == [seen |-> {}, key |-> NoKey, part |-> FALSE]

NoWork == [status |-> "none", attempts |-> 0]

Idle == [at |-> "idle", side |-> "lost", id |-> NoRefund, epoch |-> 1,
         failures |-> 0, on |-> 1, claim |-> 0, got |-> NoRefund, was |-> "pending",
         dead |-> {}, code |-> FALSE, lease |-> FALSE]

Step == {"idle", "restore", "reread", "open", "acquire", "look", "retire",
         "list", "partial", "corpses", "create", "relist", "stamp", "refuse",
         "finish"}

Epoch == 1..MaxEpoch
RefundState == {"pending", "succeeded", "failed"}

RefundTypeOK ==
    /\ lateChecked \in BOOLEAN
    /\ row \in [refundStatus : {"null", "requested"} \union RefundState,
                refundId : Refund \union {NoRefund}, prior : SUBSET Refund,
                failures : Nat, epoch : Epoch, attempts : Nat,
                trigger : {"none", "owner", "system", "external"},
                partial : BOOLEAN, barred : BOOLEAN]
    /\ refund \in [Refund -> [seen : SUBSET RefundState,
                              key : Nat \X Nat, part : BOOLEAN]]
    /\ work \in [Epoch -> [status : {"none", "processing", "retryable",
                                     "processed", "poisoned"},
                           attempts : Nat]]
    /\ worker \in [Worker -> [at : Step, side : {"kept", "lost"},
                              id : Refund \union {NoRefund}, epoch : Epoch,
                              failures : Nat, on : Epoch, claim : Nat,
                              got : Refund \union {NoRefund}, was : RefundState,
                              dead : SUBSET Refund, code : BOOLEAN,
                              lease : BOOLEAN]]

RefundInit ==
    /\ lateChecked = FALSE
    /\ row = NullRow
    /\ refund = [r \in Refund |-> NotMade]
    /\ work = [e \in Epoch |-> NoWork]
    /\ worker = [w \in Worker |-> Idle]

-----------------------------------------------------------------------------
(* Stripe.                                                                 *)

Made == {r \in Refund : refund[r].seen # {}}
StatusOf(r) == IF "failed" \in refund[r].seen THEN "failed"
               ELSE IF "succeeded" \in refund[r].seen THEN "succeeded" ELSE "pending"
\* What the creating call answered, and answers again when it is replayed.
Born(r) == IF "pending" \in refund[r].seen THEN "pending" ELSE "succeeded"

Live == {r \in Made : StatusOf(r) # "failed"}
Dead == Made \ Live
LiveFull == {r \in Live : ~refund[r].part}
LivePart == {r \in Live : refund[r].part}
ByLuster(r) == refund[r].key # NoKey

\* Nothing is left to refund; two partial refunds are taken to cover it.
Covered == LiveFull # {} \/ Cardinality(LivePart) > 1

\* A create without an amount refunds what is left.
Creates(r, key, part, st) ==
    refund' = [refund EXCEPT ![r] = [seen |-> {st}, key |-> key, part |-> part]]

RefundMoves ==
    /\ \E r \in Live : \E st \in RefundState \ {"pending", StatusOf(r)} :
           refund' = [refund EXCEPT ![r].seen = @ \union {st}]
    /\ UNCHANGED <<lateChecked, row, work, worker>>

\* The salon refunds all or part of the charge in its Stripe Dashboard.
DashboardRefund ==
    /\ session = "paid" /\ ~Covered
    /\ Cardinality({r \in Made : ~ByLuster(r)}) < MaxDashboard
    /\ \E r \in Refund \ Made : \E part \in BOOLEAN : \E st \in {"pending", "succeeded"} :
           /\ part \/ LivePart = {}
           /\ Creates(r, NoKey, part, st)
    /\ UNCHANGED <<lateChecked, row, work, worker>>

-----------------------------------------------------------------------------
(* The write-ahead row, and how a worker leaves the core.                  *)

Busy(w) == worker[w].at # "idle"
Working(w) == worker[w].at \notin {"idle", "restore", "reread", "open", "acquire"}
Holds(w) == /\ work[worker[w].on].status = "processing"
            /\ work[worker[w].on].attempts = worker[w].claim
Abandoned(e) == \A w \in Worker : ~(Working(w) /\ worker[w].on = e)
Stale(e) == /\ work[e].status = "processing"
            /\ IF Abandoned(e) THEN UNCHANGED faults ELSE Fault

Goes(w, step) == worker' = [worker EXCEPT ![w].at = step]
Leaves(w) == worker' = [worker EXCEPT ![w] = Idle]
Finalizes(w, outcome, attempts) ==
    work' = IF Holds(w)
            THEN [work EXCEPT ![worker[w].on] =
                     [status |-> outcome, attempts |-> attempts]]
            ELSE work

\* finalizeNoCallWork: nothing reached Stripe, so the claim is not spent.
LessOne(n) == IF n > 0 THEN n - 1 ELSE 0
NoCall(w) == Finalizes(w, "retryable", LessOne(worker[w].claim)) /\ Leaves(w)
\* Defect: a call Stripe may yet accept closes the work.
ProviderGaveUp(w) == Finalizes(w, "processed", worker[w].claim) /\ Leaves(w)

ProviderRetryable(w) == Finalizes(w, "retryable", worker[w].claim) /\ Leaves(w)
RestoredRow == [row EXCEPT !.attempts = LessOne(@)]

-----------------------------------------------------------------------------
(* applyRefundObservation: the only way a refund object enters the row.    *)

Adopts(r, st) == row.refundStatus = "failed" /\ row.refundId # r /\ st # "failed"
Binds(r, st) == row.refundId = NoRefund \/ Adopts(r, st)

LegalObservation(r, st) ==
    /\ r \notin row.prior /\ row.refundStatus # st
    /\ LET matches == row.refundId = r
           first   == row.refundId = NoRefund
       IN  \/ row.refundStatus = "null" /\ ((first /\ st # "failed") \/ matches)
           \/ row.refundStatus = "requested" /\ (matches \/ first)
           \/ row.refundStatus = "pending" /\ matches
           \/ row.refundStatus = "succeeded" /\ matches
           \/ Adopts(r, st)

Observed(r, st) ==
    [row EXCEPT
        !.refundStatus = st,
        !.refundId = IF Binds(r, st) THEN r ELSE @,
        !.trigger = IF Binds(r, st) /\ @ # "owner"
                    THEN IF ByLuster(r) THEN "system" ELSE "external" ELSE @,
        !.prior = IF Adopts(r, st) THEN @ \union ({row.refundId} \ {NoRefund}) ELSE @,
        !.failures = IF st = "failed" /\ Cardinality(row.prior) + 1 > @
                     THEN Cardinality(row.prior) + 1 ELSE @,
        !.barred = @ /\ st # "succeeded"]

Observes(r, st) ==
    IF LegalObservation(r, st)
    THEN /\ row' = Observed(r, st)
         /\ status' = IF Binds(r, st) THEN "refunded" ELSE status
    ELSE UNCHANGED <<row, status>>

\* refund.created, .updated and .failed are matched by PaymentIntent.  A
\* partial refund is only noted, and bars further ones.
RefundWebhook ==
    /\ intentStored
    /\ \E r \in Made : \E st \in refund[r].seen :
           IF refund[r].part
           THEN /\ r \notin row.prior
                /\ row' = [row EXCEPT !.partial = TRUE] /\ UNCHANGED status
           ELSE Observes(r, st)
    /\ UNCHANGED <<lateChecked, refund, work, worker>>

\* Passes 2 and 3 ask Stripe about the refund the row is bound to.
RetrieveBound ==
    /\ row.refundStatus \in {"pending", "succeeded"} /\ row.refundId # NoRefund
    /\ Observes(row.refundId, StatusOf(row.refundId))
    /\ UNCHANGED <<lateChecked, refund, work, worker>>

\* discoverAndAdoptDepositRefunds, by pass 5 and by charge.refunded: it
\* lists, and never creates.
Discover ==
    /\ Evidence
    /\ \/ intentStored
       \/ row.refundStatus = "null" /\ status \in {"paid", "refunded"}
       \/ row.refundStatus \in {"requested", "failed"}
    /\ LiveFull # {} \/ LivePart # {}
    /\ IF LiveFull # {}
       THEN \E r \in LiveFull : Observes(r, StatusOf(r))
       ELSE row' = [row EXCEPT !.partial = TRUE] /\ UNCHANGED status
    /\ UNCHANGED <<lateChecked, refund, work, worker>>
=============================================================================
