------------------------------ MODULE Deposits ------------------------------
(***************************************************************************)
(* The life of one deposit: its hold, its payment and its refund together. *)
(*                                                                         *)
(* Two specifications differ in where they begin.  Spec begins at the      *)
(* booking.  SettledSpec begins where the client has paid and the hold has *)
(* ended, in one of the ways it can end: an instance starting there can    *)
(* afford more workers, refunds and key epochs.                            *)
(***************************************************************************)
EXTENDS DepositRefundCore

CONSTANT Ended   \* how the deposits of SettledSpec have ended

ASSUME EndedAssumption == Ended \subseteq {"paid", "expired", "canceled", "waived"}

vars == <<appt, rival, clock, session, checkout, reaper, desk, status,
          sessionStored, intentStored, faults, refundVars>>

\* What no refund step touches, and what only recovery does.
holdVars == <<rival, clock, session, actorVars, sessionStored>>
rowVars  == <<holdVars, appt, intentStored>>

Init == HoldInit /\ RefundInit

Settled ==
    /\ status \in Ended
    /\ appt = IF status \in {"paid", "waived"} THEN "booked" ELSE "released"
    /\ intentStored = (status = "paid")
    /\ rival = FALSE /\ clock = "lapsed" /\ session = "paid"
    /\ checkout = "done" /\ reaper = NoReaper /\ desk = "idle"
    /\ sessionStored = TRUE /\ faults = 0
    /\ RefundInit

HoldStep == HoldNext /\ UNCHANGED refundVars

StripeStep ==
    /\ RefundMoves \/ DashboardRefund
    /\ UNCHANGED <<rowVars, status, faults>>

ObservationStep ==
    /\ RefundWebhook \/ RetrieveBound \/ Discover
    /\ UNCHANGED <<rowVars, faults>>

RecoveryStep(w) ==
    /\ EvidenceTooLate(w) \/ LateCheck(w) \/ Restore(w) \/ Reread(w)
    /\ UNCHANGED holdVars

CoreStepOf(w) ==
    \/ openSystemRefundIntent(w) \/ acquireRefundWork(w) \/ LookUpStored(w)
    \/ retireStoredRefund(w) \/ ListRefunds(w) \/ NotePartial(w)
    \/ recordListedRefundCorpses(w) \/ CreateRefund(w) \/ RelistRefunds(w)
    \/ RecordRefusal(w) \/ stampDepositRefund(w) \/ finalizeTerminalWork(w)

RefundStep(w) ==
    /\ \/ requestDepositRefund(w) \/ retryFailedDepositRefund(w) \/ RefundPass1(w)
       \/ \E e \in Epoch : Redispatch(w, e) \/ ReclaimWork(e)
       \/ CoreStepOf(w) \/ WorkerDies(w)
    /\ UNCHANGED rowVars

Next ==
    \/ HoldStep \/ StripeStep \/ ObservationStep
    \/ \E w \in Worker : RecoveryStep(w) \/ RefundStep(w)

Spec == Init /\ [][Next]_vars
SettledSpec == Settled /\ [][Next]_vars

-----------------------------------------------------------------------------
(* Fairness.  Stripe repeats an event until it is answered, and settles or *)
(* declines what a client has submitted; the reaper and the sweep are run  *)
(* by a cron for ever.  A crash is a fault, and faults end.  Nobody has to *)
(* submit, request, retry, cancel or reactivate anything.                  *)

Reaps == ReaperPicks \/ ReaperProbes \/ ReaperExpires \/ ReaperLooks \/ ReaperFinalizes

\* One delivery runs confirmDepositPayment, whichever arm it comes to.
Delivers ==
    \/ (ConfirmHold \/ ConfirmSettled) /\ UNCHANGED refundVars
    \/ \E w \in Worker : EvidenceTooLate(w) /\ UNCHANGED holdVars

Sweeps(w) ==
    \/ LateCheck(w) /\ UNCHANGED holdVars
    \/ (RefundPass1(w) \/ \E e \in Epoch : Redispatch(w, e)) /\ UNCHANGED rowVars

Continues(w) ==
    \/ (Restore(w) \/ Reread(w)) /\ UNCHANGED holdVars
    \/ CoreStepOf(w) /\ UNCHANGED rowVars

Fairness ==
    /\ WF_vars(Tick /\ UNCHANGED refundVars)
    /\ WF_vars((PaymentSettles \/ PaymentDeclined) /\ UNCHANGED refundVars)
    /\ WF_vars(SessionLapses /\ UNCHANGED refundVars)
    /\ WF_vars(Reaps /\ UNCHANGED refundVars)
    /\ WF_vars(Delivers)
    /\ WF_vars(RefundWebhook /\ UNCHANGED <<rowVars, faults>>)
    /\ WF_vars(Discover /\ UNCHANGED <<rowVars, faults>>)
    /\ \A w \in Worker : WF_vars(Sweeps(w)) /\ WF_vars(Continues(w))
    /\ \A e \in Epoch : WF_vars(ReclaimWork(e) /\ UNCHANGED rowVars)

FairSpec == Spec /\ Fairness

-----------------------------------------------------------------------------
(* What should hold.                                                       *)

\* The two rows, Stripe's side and the invocations have their types.
TypeOK == HoldTypeOK /\ RefundTypeOK

\* Every writer that ends a hold moves the appointment and the deposit
\* together: a slot is never held for a deposit that is already decided, and
\* a deposit never waits for a slot that is gone.
HoldPair == appt = "awaiting_payment" <=> status = "checkout_created"

\* Neither late evidence nor reactivation takes a slot that has been booked
\* again in the meantime.
SlotExclusive == ~(rival /\ Blocks)

\* A deposit counts as paid or refunded, and a refund exists at Stripe, only
\* if the client's payment went through: no worker refunds on stale belief.
MoneyIsReal == status \in {"paid", "refunded"} \/ Made # {} => session = "paid"

\* What the row says of refunds is so at Stripe: the refund it is bound to is
\* a full one, that succeeded or failed as the row says, and those it has
\* retired are dead.  Webhooks come late, twice and out of order meanwhile.
RowMatchesStripe ==
    /\ row.prior \subseteq Dead
    /\ row.refundId # NoRefund =>
           /\ row.refundId \in Made /\ ~refund[row.refundId].part
           /\ row.refundStatus = "succeeded" => "succeeded" \in refund[row.refundId].seen
           /\ row.refundStatus = "failed" => row.refundId \in Dead

\* A refund that is still to be created has no object: a retry, a corpse and
\* a retirement all leave the id column clear for the next one.
RequestedIsUnbound == row.refundStatus = "requested" => row.refundId = NoRefund

\* Of the workers that have claimed an epoch's work at most one may still
\* close it, although leases are overtaken and an attempt that reached
\* nothing gives its number back.
ClaimExclusive ==
    \A w, v \in Worker :
        w # v /\ Working(w) /\ Working(v) /\ worker[w].on = worker[v].on =>
            ~(Holds(w) /\ Holds(v))

\* A payment once recorded is never forgotten by a later release, waiver,
\* expiry or restore that was decided before it.
PaidStands == [][status = "paid" => status' \in {"paid", "refunded"}]_vars

\* Every hold ends: the backstop frees the slot whatever Stripe answers.
HoldEnds == appt = "awaiting_payment" ~> appt # "awaiting_payment"

\* The instance has one more refund to create and no object left for it.
PoolSpent == Made = Refund /\ Live = {}
LeftToOwner == row.refundStatus = "failed" \/ row.partial \/ PoolSpent

\* A payment that arrives after its hold has ended is kept, refunded, or put
\* before the owner as a failed or partial refund.
LatePaymentSettles ==
    Evidence /\ status \notin {"paid", "refunded"} ~>
        status \in {"paid", "refunded"} \/ LeftToOwner

\* A refund that was asked for does not stay asked for, whichever worker dies.
RequestResolves ==
    row.refundStatus = "requested" ~> row.refundStatus # "requested" \/ LeftToOwner

\* lateDepositRecovery.ts promises late money exactly one arrow: a restored
\* or confirmed booking that keeps it, or a refund by the system.
OneArrow == ~(status = "paid" /\ row.trigger = "system" /\ \E r \in Live : ByLuster(r))
=============================================================================
