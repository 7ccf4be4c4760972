------------------------- MODULE DepositRefundCore -------------------------
(***************************************************************************)
(* createOrAdoptDepositRefund, the only code that creates a refund, and    *)
(* the five ways into it: late recovery, the owner's request, the owner's  *)
(* retry, sweep pass 1 and the redispatch of a write-ahead row.            *)
(*                                                                         *)
(* The core is a chain of database transactions and Stripe calls, none     *)
(* inside another:                                                         *)
(*                                                                         *)
(*   open -> acquire -> look -> [retire] -> list -> corpses -> create      *)
(*                        |                  |                   |         *)
(*                        +------------------+---> stamp <-------+         *)
(*                                                                         *)
(* with exits to finish, partial, relist and refuse.                       *)
(***************************************************************************)
EXTENDS DepositRefund

\* resolveAllowedSourceStatuses: a refund belongs to a deposit that was kept
\* or to one that was lost, and never crosses over.
Allowed(side) == IF side = "kept" THEN {"paid", "refunded"}
                 ELSE {"expired", "canceled", "checkout_created", "waived"}
SideOf(st, trigger) ==
    IF st \in {"paid", "refunded"} \/ trigger = "owner" THEN "kept" ELSE "lost"

\* A worker that enters the core with the row it has just read.
Snapshot(w, step, st, r) ==
    [Idle EXCEPT !.at = step, !.side = SideOf(st, r.trigger), !.id = r.refundId,
                 !.epoch = r.epoch]
\* A later step keeps the claim, and of the row what it reads afresh.
Later(w, step) ==
    [Idle EXCEPT !.at = step, !.side = worker[w].side, !.on = worker[w].on,
                 !.claim = worker[w].claim, !.lease = worker[w].lease]
Refreshed(w, step, r) ==
    [Later(w, step) EXCEPT !.epoch = r.epoch, !.failures = r.failures]
Found(w, step, r, st) == [Later(w, step) EXCEPT !.got = r, !.was = st]
Refused(w, disputed) == [Later(w, "refuse") EXCEPT !.code = disputed]
CoreStep(r) == IF r.refundStatus = "null" THEN "open" ELSE "acquire"
EntersCore(w) == worker' = [worker EXCEPT ![w] = Snapshot(w, CoreStep(row), status, row)]

WorkerDies(w) ==
    /\ Busy(w) /\ Fault /\ Leaves(w)
    /\ UNCHANGED <<status, lateChecked, row, refund, work>>

-----------------------------------------------------------------------------
(* Late recovery: restore the booking if it can still be had, else refund. *)

\* A fresh read of the deposit, and, outside any transaction, of the booking.
Recovers(w) ==
    /\ ~Busy(w)
    /\ status \notin {"paid", "refunded"}
    /\ IF status = "expired" /\ appt = "released" /\ clock # "started"
       THEN Goes(w, "restore")
       ELSE EntersCore(w)

\* Defect: evidence for a waived booking is thought to be none of its business.
EvidenceForWaivedIgnored(w) ==
    /\ Evidence
    /\ appt \in {"released", "cancelled"}
    /\ Recovers(w)
    /\ UNCHANGED <<appt, status, intentStored, lateChecked, row, refund, work, faults>>

\* Evidence that confirms nothing: the slot is gone, or the deposit is
\* refunded or waived.
EvidenceTooLate(w) ==
    /\ Evidence
    /\ appt \in {"released", "cancelled"} \/ (appt = "booked" /\ status = "waived")
    /\ Recovers(w)
    /\ UNCHANGED <<appt, status, intentStored, lateChecked, row, refund, work, faults>>

\* Defect: the late check recovers without asking Stripe about the session.
LateCheckUnasked(w) ==
    /\ status \in {"expired", "canceled"} /\ sessionStored
    /\ row.refundId = NoRefund /\ ~lateChecked
    /\ Recovers(w)
    /\ UNCHANGED <<appt, status, intentStored, lateChecked, row, refund, work, faults>>

\* Step 0b of the sweep looks once at every hold that ended unpaid.
LateCheck(w) ==
    /\ status \in {"expired", "canceled"} /\ sessionStored
    /\ row.refundId = NoRefund /\ ~lateChecked
    /\ \A e \in Epoch : work[e].status \notin {"processing", "retryable", "poisoned"}
    /\ IF session = "paid"
       THEN Recovers(w) /\ UNCHANGED lateChecked
       ELSE lateChecked' = TRUE /\ UNCHANGED worker
    /\ UNCHANGED <<appt, status, intentStored, row, refund, work, faults>>

\* Defect: the restored booking is written without a look at the slot.
RestoreUnchecked(w) ==
    /\ worker[w].at = "restore"
    /\ IF appt = "released" /\ status = "expired"
       THEN appt' = "booked" /\ status' = "paid" /\ Leaves(w)
       ELSE UNCHANGED <<appt, status>> /\ Goes(w, "reread")
    /\ UNCHANGED <<intentStored, lateChecked, row, refund, work, faults>>

\* restoreReleasedHold, and the fresh look when it fails.
Restore(w) ==
    /\ worker[w].at = "restore"
    /\ IF appt = "released" /\ ~rival /\ status = "expired"
       THEN appt' = "booked" /\ status' = "paid" /\ Leaves(w)
       ELSE UNCHANGED <<appt, status>> /\ Goes(w, "reread")
    /\ UNCHANGED <<intentStored, lateChecked, row, refund, work, faults>>

Reread(w) ==
    /\ worker[w].at = "reread"
    /\ IF status \in {"paid", "refunded"} THEN Leaves(w) ELSE EntersCore(w)
    /\ UNCHANGED <<appt, status, intentStored, lateChecked, row, refund, work, faults>>

-----------------------------------------------------------------------------
(* The owner, and the sweep's other ways in.                               *)

Free == row.failures < MaxFailures /\ ~row.partial
Requested(r, trigger) ==
    [r EXCEPT !.refundStatus = "requested", !.trigger = trigger, !.attempts = 0]

requestDepositRefund(w) ==
    /\ ~Busy(w) /\ status = "paid" /\ row.refundStatus = "null" /\ Free
    /\ row' = Requested(row, "owner")
    /\ worker' = [worker EXCEPT ![w] = Snapshot(w, "acquire", status, row')]
    /\ UNCHANGED <<status, lateChecked, refund, work, faults>>

LeaseFree == IF \A w \in Worker : ~worker[w].lease THEN UNCHANGED faults ELSE Fault

\* Defect: the last epoch is used up once more.
RetryPastLastEpoch(w) ==
    /\ ~Busy(w) /\ row.refundStatus \in {"failed", "requested"}
    /\ Free /\ row.epoch <= MaxEpoch /\ ~row.barred /\ LeaseFree
    /\ row' = [Requested(row, row.trigger) EXCEPT !.epoch = @ + 1, !.refundId = NoRefund]
    /\ worker' = [worker EXCEPT ![w] = Snapshot(w, "acquire", status, row')]
    /\ UNCHANGED <<status, lateChecked, refund, work>>

\* Defect: a refund that is still pending may be retried too.
RetryWhilePending(w) ==
    /\ ~Busy(w) /\ row.refundStatus \in {"failed", "requested", "pending"}
    /\ Free /\ row.epoch < MaxEpoch /\ ~row.barred /\ LeaseFree
    /\ row' = [Requested(row, row.trigger) EXCEPT
                   !.epoch = @ + 1, !.refundId = NoRefund,
                   !.prior = @ \union ({row.refundId} \ {NoRefund})]
    /\ worker' = [worker EXCEPT ![w] = Snapshot(w, "acquire", status, row')]
    /\ UNCHANGED <<status, lateChecked, refund, work>>

\* A failed refund, or one requested long ago or tried too often, gets the
\* next key epoch.
retryFailedDepositRefund(w) ==
    /\ ~Busy(w) /\ row.refundStatus \in {"failed", "requested"}
    /\ Free /\ row.epoch < MaxEpoch /\ ~row.barred /\ LeaseFree
    /\ row' = IF row.refundStatus = "failed"
              THEN [Requested(row, row.trigger) EXCEPT
                       !.epoch = @ + 1, !.refundId = NoRefund,
                       !.prior = @ \union ({row.refundId} \ {NoRefund})]
              ELSE [Requested(row, row.trigger) EXCEPT !.epoch = @ + 1]
    /\ worker' = [worker EXCEPT ![w] = Snapshot(w, "acquire", status, row')]
    /\ UNCHANGED <<status, lateChecked, refund, work>>

RefundPass1(w) ==
    /\ ~Busy(w) /\ row.refundStatus = "requested"
    /\ row.attempts < MaxAttempts /\ LeaseFree
    /\ worker' = [worker EXCEPT
                     ![w] = [Snapshot(w, "acquire", status, row) EXCEPT !.lease = TRUE]]
    /\ UNCHANGED <<status, lateChecked, row, refund, work>>

\* Defect: reclaiming the work gives the lost attempt's number back.
ReclaimGivesBack(e) ==
    /\ Stale(e)
    /\ work' = [work EXCEPT ![e] = [status |-> "retryable", attempts |-> LessOne(@.attempts)]]
    /\ UNCHANGED <<status, lateChecked, row, refund, worker>>

ReclaimWork(e) ==
    /\ Stale(e)
    /\ work' = [work EXCEPT ![e].status = "retryable"]
    /\ UNCHANGED <<status, lateChecked, row, refund, worker>>

\* Work of an older epoch is refused and stays due; it is left out here.
Redispatch(w, e) ==
    /\ ~Busy(w) /\ work[e].status = "retryable"
    /\ IF work[e].attempts + 1 >= PoisonAttempts
       THEN /\ work' = [work EXCEPT ![e] = [status |-> "poisoned", attempts |-> @.attempts + 1]]
            /\ UNCHANGED worker
       ELSE /\ row.epoch = e
            /\ work' = [work EXCEPT ![e] = [status |-> "processing", attempts |-> @.attempts + 1]]
            /\ worker' = [worker EXCEPT ![w] =
                             [Snapshot(w, "look", status, row) EXCEPT
                                 !.on = e, !.claim = work[e].attempts + 1]]
    /\ UNCHANGED <<status, lateChecked, row, refund, faults>>

-----------------------------------------------------------------------------
(* The core.                                                               *)

\* TX-A0: the intent is fenced on the row as it is now, not as it was read.
openSystemRefundIntent(w) ==
    /\ worker[w].at = "open"
    /\ IF status \in Allowed(worker[w].side) /\ row.refundStatus = "null" /\ Free
       THEN /\ row' = Requested(row, "system")
            /\ worker' = [worker EXCEPT ![w] = [Later(w, "acquire") EXCEPT
                                             !.id = row.refundId, !.epoch = row.epoch]]
       ELSE UNCHANGED row /\ Leaves(w)
    /\ UNCHANGED <<status, lateChecked, refund, work, faults>>

\* The claim: insert the epoch's row, or take it over when it is due.
acquireRefundWork(w) ==
    /\ worker[w].at = "acquire"
    /\ LET e == worker[w].epoch IN
       \/ /\ \/ work[e].status \in {"none", "retryable"} /\ UNCHANGED faults
             \/ Stale(e)
          /\ work' = [work EXCEPT ![e] = [status |-> "processing", attempts |-> @.attempts + 1]]
          /\ worker' = [worker EXCEPT ![w] =
                [Later(w, "look") EXCEPT !.id = worker[w].id, !.on = e,
                                         !.claim = work[e].attempts + 1]]
       \/ /\ \/ work[e].status \in {"processed", "poisoned"}
             \/ work[e].status = "processing" /\ ~Abandoned(e)
          /\ Leaves(w) /\ UNCHANGED <<work, faults>>
    /\ UNCHANGED <<status, lateChecked, row, refund>>

\* The account must still be the charge's, and a refund the row already
\* names is looked up before anything is created.
LookUpStored(w) ==
    /\ worker[w].at = "look"
    /\ \/ /\ LET r == worker[w].id IN
             IF r # NoRefund
             THEN worker' = [worker EXCEPT ![w] =
                     Found(w, IF r \in Live THEN "stamp" ELSE "retire", r, StatusOf(r))]
             ELSE worker' = [worker EXCEPT ![w] = Later(w, "list")]
          /\ UNCHANGED <<work, faults>>
       \/ Fault /\ NoCall(w)
       \/ Fault /\ ProviderRetryable(w)
    /\ UNCHANGED <<status, lateChecked, row, refund>>

retireStoredRefund(w) ==
    /\ worker[w].at = "retire"
    /\ LET r == worker[w].got
           prior == row.prior \union {r}
       IN  /\ row' = IF r \in row.prior /\ row.refundId # r THEN row
                     ELSE [row EXCEPT
                              !.prior = prior,
                              !.refundId = IF @ = r THEN NoRefund ELSE @,
                              !.failures = IF Cardinality(prior) > @
                                           THEN Cardinality(prior) ELSE @]
           /\ worker' = [worker EXCEPT ![w] = [Later(w, "list") EXCEPT !.dead = {r}]]
    /\ UNCHANGED <<status, lateChecked, refund, work, faults>>

AnyLiveFull(w) == LET r == CHOOSE r \in LiveFull : TRUE
                  IN  Found(w, "stamp", r, StatusOf(r))

\* TX-C3 counts the attempt and reads the row afresh; then the listing.
ListRefunds(w) ==
    /\ worker[w].at = "list"
    /\ LET counted == [row EXCEPT !.attempts = @ + 1] IN
       \/ /\ row' = counted
          /\ worker' = [worker EXCEPT ![w] =
                IF LivePart # {} THEN Later(w, "partial")
                ELSE IF LiveFull # {} THEN AnyLiveFull(w)
                ELSE [Later(w, "corpses") EXCEPT !.dead = worker[w].dead \union Dead]]
          /\ UNCHANGED <<work, faults>>
       \/ Fault /\ UNCHANGED row /\ NoCall(w)
       \/ Fault /\ row' = counted /\ ProviderRetryable(w)
    /\ UNCHANGED <<status, lateChecked, refund>>

NotePartial(w) ==
    /\ worker[w].at = "partial"
    /\ row' = [row EXCEPT !.partial = TRUE]
    /\ worker' = [worker EXCEPT ![w] = Later(w, "finish")]
    /\ UNCHANGED <<status, lateChecked, refund, work, faults>>

\* The dead refunds are counted before a key is derived from the count.
recordListedRefundCorpses(w) ==
    /\ worker[w].at = "corpses"
    /\ LET prior == row.prior \union worker[w].dead IN
       row' = [row EXCEPT !.prior = prior,
                          !.failures = IF Cardinality(prior) > @
                                       THEN Cardinality(prior) ELSE @]
    /\ worker' = [worker EXCEPT ![w] = Refreshed(w, "create", row')]
    /\ UNCHANGED <<status, lateChecked, refund, work, faults>>

buildRefundIdempotencyKey(w) == <<worker[w].epoch, worker[w].failures>>
Keyed(key) == {r \in Made : refund[r].key = key}

\* A used key answers with the refund it made, as it was then.
CreateRefund(w) ==
    /\ worker[w].at = "create"
    /\ LET key == buildRefundIdempotencyKey(w) IN
       \/ \E r \in Keyed(key) :
             /\ worker' = [worker EXCEPT ![w] = Found(w, "stamp", r, Born(r))]
             /\ UNCHANGED <<refund, row, work, faults>>
       \/ /\ Keyed(key) = {} /\ ~Covered
          /\ \E r \in Refund \ Made : \E st \in {"pending", "succeeded"} :
                /\ Creates(r, key, LivePart # {}, st)
                /\ \/ /\ worker' = [worker EXCEPT ![w] = Found(w, "stamp", r, st)]
                      /\ UNCHANGED <<row, work, faults>>
                   \* The call timed out, after Stripe had acted on it.
                   \/ Fault /\ row' = RestoredRow /\ NoCall(w)
       \/ /\ Keyed(key) = {} /\ Covered
          /\ worker' = [worker EXCEPT ![w] = Later(w, "relist")] /\ UNCHANGED <<refund, row, work, faults>>
       \/ Fault /\ row' = RestoredRow /\ NoCall(w) /\ UNCHANGED refund
       \/ Fault /\ ProviderRetryable(w) /\ UNCHANGED <<refund, row>>
       \/ /\ Fault
          /\ \E disputed \in BOOLEAN :
                worker' = [worker EXCEPT ![w] = Refused(w, disputed)]
          /\ UNCHANGED <<refund, row, work>>
    /\ UNCHANGED <<status, lateChecked>>

\* charge_already_refunded: adopt what took the money, or record a refusal.
RelistRefunds(w) ==
    /\ worker[w].at = "relist"
    /\ \/ /\ worker' = [worker EXCEPT ![w] =
                IF LiveFull # {} THEN AnyLiveFull(w) ELSE Refused(w, TRUE)]
          /\ UNCHANGED <<row, work, faults>>
       \/ Fault /\ row' = RestoredRow /\ NoCall(w)
       \/ Fault /\ ProviderRetryable(w) /\ UNCHANGED row
    /\ UNCHANGED <<status, lateChecked, refund>>

\* Row 4b: there is no refund object, and the from-state counts it once.
RecordRefusal(w) ==
    /\ worker[w].at = "refuse"
    /\ row' = IF row.refundStatus = "requested"
              THEN [row EXCEPT !.refundStatus = "failed", !.failures = @ + 1,
                               !.barred = worker[w].code]
              ELSE row
    /\ worker' = [worker EXCEPT ![w] = Later(w, "finish")]
    /\ UNCHANGED <<status, lateChecked, refund, work, faults>>

\* TX-B: the refund enters the row and the work is closed, or neither; a row
\* that has moved to the other side is left as it is.
stampDepositRefund(w) ==
    /\ worker[w].at = "stamp"
    /\ LET r  == worker[w].got
           st == worker[w].was
       IN  IF /\ ~refund[r].part /\ LegalObservation(r, st)
              /\ row.refundId = NoRefund => status \in Allowed(worker[w].side)
           THEN IF Holds(w)
                THEN /\ Observes(r, st)
                     /\ Finalizes(w, "processed", worker[w].claim)
                     /\ Leaves(w)
                ELSE UNCHANGED <<row, status, work>> /\ Leaves(w)
           ELSE UNCHANGED <<row, status, work>> /\ worker' = [worker EXCEPT ![w] = Later(w, "finish")]
    /\ UNCHANGED <<lateChecked, refund, faults>>

finalizeTerminalWork(w) ==
    /\ worker[w].at = "finish"
    /\ Finalizes(w, "processed", worker[w].claim)
    /\ Leaves(w)
    /\ UNCHANGED <<status, lateChecked, row, refund, faults>>
=============================================================================
