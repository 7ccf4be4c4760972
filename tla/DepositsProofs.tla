--------------------------- MODULE DepositsProofs ---------------------------
(***************************************************************************)
(* Theorems about deposits, for every number of workers, refund objects,   *)
(* key epochs, faults and Dashboard refunds, and for both beginnings.      *)
(*                                                                         *)
(* None of the properties is inductive alone.  The invariant IInv is the   *)
(* conjunction of                                                          *)
(*   Typed    the types;                                                   *)
(*   Known    what the row and every worker believe of Stripe's refunds is *)
(*            so, and no refund starts out failed;                         *)
(*   Claims   no working invocation's claim exceeds the number of its      *)
(*            write-ahead row, and no two claims of an epoch are equal;    *)
(*   Control  the two rows move together, and everything a refund does     *)
(*            goes back to a session that was paid.                        *)
(* Each part has a section below: its definition, then one lemma per step. *)
(***************************************************************************)
EXTENDS Deposits, FiniteSetTheorems, TLAPS

(* The types, as sets a lemma can name. *)
DepositRow ==
    [refundStatus : {"null", "requested"} \union RefundState,
     refundId : Refund \union {NoRefund}, prior : SUBSET Refund,
     failures : Nat, epoch : Epoch, attempts : Nat,
     trigger : {"none", "owner", "system", "external"},
     partial : BOOLEAN, barred : BOOLEAN]
RefundObject == [seen : SUBSET RefundState, key : Nat \X Nat, part : BOOLEAN]
WorkRow == [status : {"none", "processing", "retryable", "processed", "poisoned"},
            attempts : Nat]
Invocation == [at : Step, side : {"kept", "lost"},
               id : Refund \union {NoRefund}, epoch : Epoch,
               failures : Nat, on : Epoch, claim : Nat,
               got : Refund \union {NoRefund}, was : RefundState,
               dead : SUBSET Refund, code : BOOLEAN, lease : BOOLEAN]

WorkerTyped == worker \in [Worker -> Invocation]

\* An invocation that has ended.
LEMMA IdleTyped == Idle \in Invocation
<1>1. 1 \in Epoch
  BY LimitsAssumption DEF Epoch
<1>. QED  BY <1>1 DEF Idle, Invocation, Step, RefundState

\* An invocation at a later step of the core.
LEMMA LaterTyped ==
  ASSUME WorkerTyped, NEW w \in Worker, NEW step \in Step
  PROVE  Later(w, step) \in Invocation
<1>1. worker[w] \in Invocation
  BY DEF WorkerTyped
<1>. QED  BY <1>1, IdleTyped DEF Later, Idle, Invocation

\* An invocation that has found a refund at Stripe.
LEMMA FoundTyped ==
  ASSUME WorkerTyped, NEW w \in Worker, NEW step \in Step,
         NEW r \in Refund \union {NoRefund}, NEW st \in RefundState
  PROVE  Found(w, step, r, st) \in Invocation
<1>1. Later(w, step) \in Invocation
  BY LaterTyped
<1>. HIDE DEF Later
<1>. QED  BY <1>1 DEF Found, Invocation

\* An invocation that enters with a row it has read.
LEMMA SnapshotTyped ==
  ASSUME NEW w \in Worker, NEW step \in Step, NEW st, NEW r \in DepositRow
  PROVE  Snapshot(w, step, st, r) \in Invocation
<1>1. SideOf(st, r.trigger) \in {"kept", "lost"}
  BY DEF SideOf
<1>2. r.refundId \in Refund \union {NoRefund} /\ r.epoch \in Epoch
  BY DEF DepositRow
<1>. QED  BY <1>1, <1>2, IdleTyped DEF Snapshot, Idle, Invocation

\* One worker moves to a typed state.
LEMMA MoveTyped ==
  ASSUME WorkerTyped, NEW w \in Worker, NEW v \in Invocation,
         worker' = [worker EXCEPT ![w] = v]
  PROVE  WorkerTyped'
BY DEF WorkerTyped

\* applyRefundObservation writes a typed row.
LEMMA ObservedTyped ==
  ASSUME row \in DepositRow, NEW r \in Refund, NEW st \in RefundState
  PROVE  Observed(r, st) \in DepositRow
<1>1. Cardinality(row.prior) + 1 \in Nat
  <2>1. row.prior \in SUBSET Refund /\ IsFiniteSet(Refund)
    BY LimitsAssumption DEF DepositRow
  <2>. QED  BY <2>1, FS_Subset, FS_CardinalityType
<1>. DEFINE k == Cardinality(row.prior) + 1
             id == IF Binds(r, st) THEN r ELSE row.refundId
             trigger == IF Binds(r, st) /\ row.trigger # "owner"
                        THEN IF ByLuster(r) THEN "system" ELSE "external" ELSE row.trigger
             prior == IF Adopts(r, st) THEN row.prior \union ({row.refundId} \ {NoRefund})
                      ELSE row.prior
             failures == IF st = "failed" /\ k > row.failures THEN k ELSE row.failures
             barred == row.barred /\ st # "succeeded"
<1>2. id \in Refund \union {NoRefund} /\ prior \in SUBSET Refund
  BY DEF DepositRow
<1>3. trigger \in {"none", "owner", "system", "external"}
  BY DEF DepositRow
<1>4. failures \in Nat
  BY <1>1 DEF DepositRow
<1>5. barred \in BOOLEAN
  OBVIOUS
<1>6. Observed(r, st) = [row EXCEPT !.refundStatus = st, !.refundId = id,
                                    !.trigger = trigger, !.prior = prior,
                                    !.failures = failures, !.barred = barred]
  BY DEF Observed
<1>. HIDE DEF id, trigger, prior, failures, barred
<1>. QED  BY <1>2, <1>3, <1>4, <1>5, <1>6 DEF DepositRow

\* Refunds are finite, so every set of them has a number.
LEMMA Counts ==
  ASSUME NEW S \in SUBSET Refund
  PROVE  Cardinality(S) \in Nat
BY FS_Subset, FS_CardinalityType, LimitsAssumption

\* A fault stays within the budget.
LEMMA FaultTyped ==
  ASSUME faults \in 0..MaxFaults, Fault
  PROVE  faults' \in 0..MaxFaults
BY MaxFaultsAssumption DEF Fault

\* What a step says of the faults, without what else it does.
LEMMA FaultsTyped ==
  ASSUME faults \in 0..MaxFaults, Fault \/ UNCHANGED faults
  PROVE  faults' \in 0..MaxFaults
BY MaxFaultsAssumption DEF Fault

ReaperSteps ==
    \/ reaper' = NoReaper
    \/ \E at \in {"expire", "get", "finalize"} : reaper' = [reaper EXCEPT !.at = at]

\* The reaper moves to one of its steps.
LEMMA ReaperTyped ==
  ASSUME reaper \in [at : {"idle", "probe", "expire", "get", "finalize"}, past : BOOLEAN],
         ReaperSteps
  PROVE  reaper' \in [at : {"idle", "probe", "expire", "get", "finalize"}, past : BOOLEAN]
<1>1. CASE reaper' = NoReaper
  BY <1>1 DEF NoReaper
<1>2. ASSUME NEW at \in {"expire", "get", "finalize"}, reaper' = [reaper EXCEPT !.at = at]
      PROVE  reaper' \in [at : {"idle", "probe", "expire", "get", "finalize"}, past : BOOLEAN]
  BY <1>2
<1>. QED  BY <1>1, <1>2 DEF ReaperSteps

\* Every step of the hold keeps its types.
LEMMA HoldStepTyped ==
  ASSUME HoldTypeOK, HoldNext
  PROVE  HoldTypeOK'
<1>. USE DEF HoldTypeOK, bookingVars, moneyVars, actorVars, Appointment, DepositStatus,
             Session, Instant, NoReaper
<1>1. CASE Tick
  BY <1>1 DEF Tick
<1>2. CASE ClientSubmits
  BY <1>2 DEF ClientSubmits
<1>3. CASE PaymentSettles
  BY <1>3 DEF PaymentSettles
<1>4. CASE PaymentDeclined
  BY <1>4 DEF PaymentDeclined
<1>5. CASE SessionLapses
  BY <1>5 DEF SessionLapses, Expired
<1>6. CASE RivalBooks
  BY <1>6 DEF RivalBooks
<1>7. CASE RivalLeaves
  <2>1. rival' \in BOOLEAN
    BY <1>7, Zenon DEF RivalLeaves
  <2>2. UNCHANGED <<appt, clock, session, actorVars, moneyVars, faults>>
    BY <1>7 DEF RivalLeaves
  <2>. QED  BY <2>1, <2>2
<1>8. CASE BookingCancelled
  BY <1>8 DEF BookingCancelled
<1>9. CASE BookingReactivated
  BY <1>9 DEF BookingReactivated
<1>10. CASE CreateSession
  <2>1. faults' \in 0..MaxFaults
    BY <1>10, FaultsTyped DEF CreateSession
  <2>. QED  BY <1>10, <2>1 DEF CreateSession
<1>11. CASE StoreSession
  <2>1. faults' \in 0..MaxFaults
    BY <1>11, FaultsTyped DEF StoreSession
  <2>2. sessionStored' \in BOOLEAN
    BY <1>11, Zenon DEF StoreSession
  <2>3. checkout' = "done" /\ UNCHANGED <<bookingVars, clock, session, reaper, desk,
                                         status, intentStored>>
    BY <1>11 DEF StoreSession
  <2>. QED  BY <2>1, <2>2, <2>3
<1>12. CASE CancelRefusedHold
  BY <1>12 DEF CancelRefusedHold, EndHold
<1>13. CASE ReaperPicks
  BY <1>13 DEF ReaperPicks
<1>14. CASE ReaperProbes
  <2>1. faults' \in 0..MaxFaults
    BY <1>14, FaultsTyped DEF ReaperProbes
  <2>2. reaper' \in [at : {"idle", "probe", "expire", "get", "finalize"}, past : BOOLEAN]
    <3>1. ReaperSteps
      BY <1>14, Zenon DEF ReaperProbes, Unresolved, LeftStanding, ReaperSteps
    <3>. QED  BY <3>1, ReaperTyped
  <2>3. sessionStored' \in BOOLEAN
    BY <1>14, Zenon DEF ReaperProbes
  <2>4. UNCHANGED <<bookingVars, clock, session, checkout, desk, status, intentStored>>
    BY <1>14 DEF ReaperProbes
  <2>. QED  BY <2>1, <2>2, <2>3, <2>4
<1>15. CASE ReaperExpires
  <2>1. faults' \in 0..MaxFaults
    BY <1>15, FaultsTyped DEF ReaperExpires
  <2>2. reaper' \in [at : {"idle", "probe", "expire", "get", "finalize"}, past : BOOLEAN]
    <3>1. ReaperSteps
      BY <1>15, Zenon DEF ReaperExpires, Unresolved, LeftStanding, ReaperSteps
    <3>. QED  BY <3>1, ReaperTyped
  <2>3. session' \in Session
    BY <1>15 DEF ReaperExpires, Expired
  <2>4. UNCHANGED <<bookingVars, clock, checkout, desk, moneyVars>>
    BY <1>15 DEF ReaperExpires
  <2>. QED  BY <2>1, <2>2, <2>3, <2>4
<1>16. CASE ReaperLooks
  <2>1. faults' \in 0..MaxFaults
    BY <1>16, FaultsTyped DEF ReaperLooks
  <2>2. reaper' \in [at : {"idle", "probe", "expire", "get", "finalize"}, past : BOOLEAN]
    <3>1. ReaperSteps
      BY <1>16, Zenon DEF ReaperLooks, Unresolved, LeftStanding, ReaperSteps
    <3>. QED  BY <3>1, ReaperTyped
  <2>4. UNCHANGED <<bookingVars, clock, session, checkout, desk, moneyVars>>
    BY <1>16 DEF ReaperLooks
  <2>. QED  BY <2>1, <2>2, <2>4
<1>17. CASE ReaperFinalizes
  <2>1. faults' \in 0..MaxFaults
    BY <1>17, FaultsTyped DEF ReaperFinalizes
  <2>2. reaper' \in [at : {"idle", "probe", "expire", "get", "finalize"}, past : BOOLEAN]
    BY <1>17 DEF ReaperFinalizes, LeftStanding
  <2>3. appt' \in Appointment /\ status' \in DepositStatus
    BY <1>17 DEF ReaperFinalizes, EndHold
  <2>4. UNCHANGED <<rival, clock, session, checkout, desk, sessionStored, intentStored>>
    BY <1>17 DEF ReaperFinalizes
  <2>. QED  BY <2>1, <2>2, <2>3, <2>4
<1>18. CASE DeskPrepares
  BY <1>18 DEF DeskPrepares, Expired
<1>19. CASE DeskGivesUp
  <2>1. faults' \in 0..MaxFaults
    BY <1>19, FaultsTyped DEF DeskGivesUp
  <2>. QED  BY <1>19, <2>1 DEF DeskGivesUp
<1>20. CASE waiveDeposit
  BY <1>20 DEF waiveDeposit, DeskWrites
<1>21. CASE releaseHold
  BY <1>21 DEF releaseHold, DeskWrites
<1>22. CASE ConfirmHold
  BY <1>22 DEF ConfirmHold
<1>23. CASE ConfirmSettled
  BY <1>23 DEF ConfirmSettled
<1>. QED
  BY <1>1, <1>2, <1>3, <1>4, <1>5, <1>6, <1>7, <1>8, <1>9, <1>10, <1>11, <1>12, <1>13,
     <1>14, <1>15, <1>16, <1>17, <1>18, <1>19, <1>20, <1>21, <1>22, <1>23 DEF HoldNext

-----------------------------------------------------------------------------
(* The refund side.                                                        *)

RefundTyped ==
    /\ lateChecked \in BOOLEAN
    /\ row \in DepositRow
    /\ refund \in [Refund -> RefundObject]
    /\ work \in [Epoch -> WorkRow]
    /\ WorkerTyped

\* The types of the module, and the same by name.
LEMMA RefundTypes == RefundTypeOK <=> RefundTyped
BY DEF RefundTypeOK, RefundTyped, DepositRow, RefundObject, WorkRow, WorkerTyped, Invocation

\* The statuses Stripe tells, and which refunds are alive.
LEMMA StripeFacts ==
  ASSUME refund \in [Refund -> RefundObject]
  PROVE  /\ Made \subseteq Refund /\ Live \subseteq Made /\ Dead \subseteq Made
         /\ LiveFull \subseteq Live /\ LivePart \subseteq Live
         /\ \A r \in Refund : /\ StatusOf(r) \in RefundState /\ Born(r) \in RefundState
                              /\ refund[r].seen \subseteq RefundState
BY DEF Made, Live, Dead, LiveFull, LivePart, StatusOf, Born, RefundState, RefundObject

\* An observation, applied or not, leaves a typed row and status.
LEMMA ObservesTyped ==
  ASSUME row \in DepositRow, status \in DepositStatus,
         NEW r \in Refund, NEW st \in RefundState, Observes(r, st)
  PROVE  row' \in DepositRow /\ status' \in DepositStatus
<1>1. Observed(r, st) \in DepositRow
  BY ObservedTyped
<1>2. \/ row' = Observed(r, st) /\ status' \in {status, "refunded"}
      \/ UNCHANGED <<row, status>>
  BY Zenon DEF Observes
<1>. QED  BY <1>1, <1>2 DEF DepositStatus

\* A refund Stripe creates is typed.
LEMMA CreatesTyped ==
  ASSUME refund \in [Refund -> RefundObject], NEW r \in Refund, NEW key \in Nat \X Nat,
         NEW part \in BOOLEAN, NEW st \in RefundState, Creates(r, key, part, st)
  PROVE  refund' \in [Refund -> RefundObject]
<1>1. [seen |-> {st}, key |-> key, part |-> part] \in RefundObject
  BY DEF RefundObject
<1>. QED  BY <1>1 DEF Creates

\* Closing the work, fenced, leaves typed work.
LEMMA FinalizesTyped ==
  ASSUME work \in [Epoch -> WorkRow], NEW w \in Worker, NEW attempts \in Nat,
         NEW outcome \in {"retryable", "processed"}, Finalizes(w, outcome, attempts)
  PROVE  work' \in [Epoch -> WorkRow]
<1>1. [status |-> outcome, attempts |-> attempts] \in WorkRow
  BY DEF WorkRow
<1>. QED  BY <1>1 DEF Finalizes

\* A worker that ends is typed.
LEMMA LeavesTyped ==
  ASSUME WorkerTyped, NEW w \in Worker, Leaves(w)
  PROVE  WorkerTyped'
BY IdleTyped, MoveTyped DEF Leaves

\* A worker that reached nothing gives up, typed.
LEMMA NoCallTyped ==
  ASSUME work \in [Epoch -> WorkRow], WorkerTyped, NEW w \in Worker, NoCall(w)
  PROVE  work' \in [Epoch -> WorkRow] /\ WorkerTyped'
<1>1. worker[w].claim \in Nat
  BY DEF WorkerTyped, Invocation
<1>2. LessOne(worker[w].claim) \in Nat
  BY <1>1 DEF LessOne
<1>. QED  BY <1>2, FinalizesTyped, LeavesTyped DEF NoCall

\* A worker whose call may have landed gives up, typed.
LEMMA ProviderRetryableTyped ==
  ASSUME work \in [Epoch -> WorkRow], WorkerTyped, NEW w \in Worker, ProviderRetryable(w)
  PROVE  work' \in [Epoch -> WorkRow] /\ WorkerTyped'
<1>1. worker[w].claim \in Nat
  BY DEF WorkerTyped, Invocation
<1>. QED  BY <1>1, FinalizesTyped, LeavesTyped DEF ProviderRetryable

\* A requested row is typed.
LEMMA RequestedTyped ==
  ASSUME NEW r \in DepositRow, NEW trigger \in {"none", "owner", "system", "external"}
  PROVE  Requested(r, trigger) \in DepositRow
BY DEF Requested, DepositRow

\* A worker enters the core, typed.
LEMMA EntersCoreTyped ==
  ASSUME WorkerTyped, row \in DepositRow, NEW w \in Worker, EntersCore(w)
  PROVE  WorkerTyped'
<1>1. CoreStep(row) \in Step
  BY DEF CoreStep, Step
<1>2. Snapshot(w, CoreStep(row), status, row) \in Invocation
  BY <1>1, SnapshotTyped
<1>. QED  BY <1>2, MoveTyped DEF EntersCore

\* A worker goes to another step, typed.
LEMMA GoesTyped ==
  ASSUME WorkerTyped, NEW w \in Worker, NEW step \in Step, Goes(w, step)
  PROVE  WorkerTyped'
<1>1. [worker[w] EXCEPT !.at = step] \in Invocation
  BY DEF WorkerTyped, Invocation
<1>2. worker' = [worker EXCEPT ![w] = [worker[w] EXCEPT !.at = step]]
  BY DEF Goes
<1>. QED  BY <1>1, <1>2, MoveTyped

\* Late recovery begins, typed.
LEMMA RecoversTyped ==
  ASSUME WorkerTyped, row \in DepositRow, NEW w \in Worker, Recovers(w)
  PROVE  WorkerTyped'
<1>1. "restore" \in Step
  BY DEF Step
<1>. QED  BY <1>1, GoesTyped, EntersCoreTyped DEF Recovers

Typed == HoldTypeOK /\ RefundTyped

\* Stripe's own steps keep the types.
LEMMA StripeStepTyped ==
  ASSUME Typed, StripeStep
  PROVE  Typed'
<1>1. refund' \in [Refund -> RefundObject]
  <2>1. CASE RefundMoves
    <3>1. PICK r \in Live, st \in RefundState :
             refund' = [refund EXCEPT ![r].seen = @ \union {st}]
      BY <2>1 DEF RefundMoves
    <3>2. r \in Refund
      BY StripeFacts DEF Typed, RefundTyped
    <3>. QED  BY <3>1, <3>2 DEF Typed, RefundTyped, RefundObject
  <2>2. CASE DashboardRefund
    <3>1. PICK r \in Refund \ Made, part \in BOOLEAN, st \in {"pending", "succeeded"} :
             Creates(r, NoKey, part, st)
      BY <2>2 DEF DashboardRefund
    <3>2. NoKey \in Nat \X Nat /\ st \in RefundState
      BY DEF NoKey, RefundState
    <3>. QED  BY <3>1, <3>2, CreatesTyped DEF Typed, RefundTyped
  <2>. QED  BY <2>1, <2>2 DEF StripeStep
<1>2. UNCHANGED <<lateChecked, row, work, worker>>
  BY DEF StripeStep, RefundMoves, DashboardRefund
<1>3. UNCHANGED <<rowVars, status, faults>>
  BY DEF StripeStep
<1>. QED
  BY <1>1, <1>2, <1>3 DEF Typed, RefundTyped, HoldTypeOK, WorkerTyped, rowVars, holdVars, actorVars

\* What observes Stripe keeps the types.
LEMMA ObservationTyped ==
  ASSUME Typed, ObservationStep
  PROVE  Typed'
<1>1. row' \in DepositRow /\ status' \in DepositStatus
  <2>1. row \in DepositRow /\ status \in DepositStatus /\ refund \in [Refund -> RefundObject]
    BY DEF Typed, RefundTyped, HoldTypeOK
  <2>2. ASSUME row' = [row EXCEPT !.partial = TRUE], UNCHANGED status
        PROVE  row' \in DepositRow /\ status' \in DepositStatus
    BY <2>1, <2>2 DEF DepositRow
  <2>3. ASSUME NEW r \in Refund, NEW st \in RefundState, Observes(r, st)
        PROVE  row' \in DepositRow /\ status' \in DepositStatus
    BY <2>1, <2>3, ObservesTyped
  <2>4. CASE RefundWebhook
    <3>1. PICK r \in Made : \E st \in refund[r].seen :
             \/ row' = [row EXCEPT !.partial = TRUE] /\ UNCHANGED status
             \/ Observes(r, st)
      BY <2>4 DEF RefundWebhook
    <3>2. r \in Refund /\ refund[r].seen \subseteq RefundState
      BY <2>1, StripeFacts
    <3>. QED  BY <3>1, <3>2, <2>2, <2>3
  <2>5. CASE RetrieveBound
    <3>1. row.refundId \in Refund
      BY <2>1, <2>5 DEF RetrieveBound, DepositRow
    <3>2. StatusOf(row.refundId) \in RefundState
      BY <2>1, <3>1, StripeFacts
    <3>. QED  BY <2>5, <3>1, <3>2, <2>3 DEF RetrieveBound
  <2>6. CASE Discover
    <3>1. \/ \E r \in LiveFull : Observes(r, StatusOf(r))
          \/ row' = [row EXCEPT !.partial = TRUE] /\ UNCHANGED status
      BY <2>6 DEF Discover
    <3>2. \A r \in LiveFull : r \in Refund /\ StatusOf(r) \in RefundState
      BY <2>1, StripeFacts
    <3>. QED  BY <3>1, <3>2, <2>2, <2>3
  <2>. QED  BY <2>4, <2>5, <2>6 DEF ObservationStep
<1>2. UNCHANGED <<lateChecked, refund, work, worker>>
  BY DEF ObservationStep, RefundWebhook, RetrieveBound, Discover
<1>3. UNCHANGED <<rowVars, faults>>
  BY DEF ObservationStep
<1>. QED
  BY <1>1, <1>2, <1>3 DEF Typed, RefundTyped, HoldTypeOK, WorkerTyped, rowVars, holdVars, actorVars

\* Late recovery keeps the types.
LEMMA RecoveryTyped ==
  ASSUME Typed, NEW w \in Worker, RecoveryStep(w)
  PROVE  Typed'
<1>. USE DEF Typed, RefundTyped, HoldTypeOK
<1>1. UNCHANGED <<holdVars, row, refund, work, faults, intentStored>>
  BY DEF RecoveryStep, EvidenceTooLate, LateCheck, Restore, Reread
<1>2. WorkerTyped'
  <2>1. WorkerTyped /\ row \in DepositRow
    OBVIOUS
  <2>2. "reread" \in Step
    BY DEF Step
  <2>3. CASE UNCHANGED worker
    BY <2>1, <2>3 DEF WorkerTyped
  <2>. HIDE DEF Typed, RefundTyped, HoldTypeOK
  <2>4. Recovers(w) \/ UNCHANGED worker \/ Leaves(w) \/ Goes(w, "reread") \/ EntersCore(w)
    BY DEF RecoveryStep, EvidenceTooLate, LateCheck, Restore, Reread
  <2>. QED  BY <2>1, <2>2, <2>3, <2>4, RecoversTyped, LeavesTyped, GoesTyped, EntersCoreTyped
<1>3. appt' \in Appointment /\ status' \in DepositStatus
  BY DEF RecoveryStep, EvidenceTooLate, LateCheck, Restore, Reread, Appointment, DepositStatus
<1>4. lateChecked' \in BOOLEAN
  <2>. HIDE DEF Typed, RefundTyped, HoldTypeOK
  <2>1. lateChecked' = TRUE \/ UNCHANGED lateChecked
    BY Zenon DEF RecoveryStep, EvidenceTooLate, LateCheck, Restore, Reread
  <2>. QED  BY <2>1 DEF Typed, RefundTyped
<1>. QED  BY <1>1, <1>2, <1>3, <1>4 DEF holdVars, actorVars

\* The hold's variables in a step of a refund.
LEMMA RefundFrameTyped ==
  ASSUME Typed, UNCHANGED rowVars, Fault \/ UNCHANGED faults,
         status' \in DepositStatus, RefundTyped'
  PROVE  Typed'
<1>1. faults' \in 0..MaxFaults
  BY FaultsTyped DEF Typed, HoldTypeOK
<1>. QED  BY <1>1 DEF Typed, HoldTypeOK, rowVars, holdVars, actorVars

\* What a refund step may change, typed.
Parts ==
    /\ lateChecked' \in BOOLEAN
    /\ row' \in DepositRow
    /\ refund' \in [Refund -> RefundObject]
    /\ work' \in [Epoch -> WorkRow]
    /\ WorkerTyped'
    /\ status' \in DepositStatus
    /\ Fault \/ UNCHANGED faults

\* The ways in.
LEMMA EntryTyped ==
  ASSUME Typed, NEW w \in Worker,
         requestDepositRefund(w) \/ retryFailedDepositRefund(w) \/ RefundPass1(w)
  PROVE  Parts
<1>. USE DEF Typed, RefundTyped, HoldTypeOK
<1>1. UNCHANGED <<lateChecked, refund, work, status>> /\ (Fault \/ UNCHANGED faults)
  BY DEF requestDepositRefund, retryFailedDepositRefund, RefundPass1, LeaseFree
<1>2. row' \in DepositRow
  <2>1. CASE requestDepositRefund(w)
    BY <2>1, RequestedTyped DEF requestDepositRefund
  <2>2. CASE retryFailedDepositRefund(w)
    <3>. DEFINE next == Requested(row, row.trigger)
    <3>1. next \in DepositRow /\ next.epoch = row.epoch /\ row.epoch + 1 \in Epoch
      <4>1. row.trigger \in {"none", "owner", "system", "external"}
        BY DEF DepositRow
      <4>2. next \in DepositRow
        BY <4>1, RequestedTyped
      <4>3. next.epoch = row.epoch
        BY DEF Requested, DepositRow
      <4>4. row.epoch \in 1..MaxEpoch /\ row.epoch < MaxEpoch /\ MaxEpoch \in Nat
        BY <2>2, LimitsAssumption DEF retryFailedDepositRefund, DepositRow, Epoch
      <4>5. row.epoch + 1 \in 1..MaxEpoch
        BY <4>4
      <4>. QED  BY <4>2, <4>3, <4>5 DEF Epoch
    <3>2. row.refundId \in Refund \union {NoRefund} /\ row.prior \in SUBSET Refund
      BY DEF DepositRow
    <3>3. next.prior = row.prior /\ next.refundId = row.refundId
      BY DEF Requested, DepositRow
    <3>4. row' = IF row.refundStatus = "failed"
                 THEN [next EXCEPT !.epoch = row.epoch + 1, !.refundId = NoRefund,
                          !.prior = row.prior \union ({row.refundId} \ {NoRefund})]
                 ELSE [next EXCEPT !.epoch = row.epoch + 1]
      <4>. HIDE DEF Typed, RefundTyped, HoldTypeOK
      <4>1. next.epoch = row.epoch /\ next.prior = row.prior
        BY <3>1, <3>3
      <4>. HIDE DEF next
      <4>2. row' = IF row.refundStatus = "failed"
                   THEN [next EXCEPT !.epoch = @ + 1, !.refundId = NoRefund,
                            !.prior = @ \union ({row.refundId} \ {NoRefund})]
                   ELSE [next EXCEPT !.epoch = @ + 1]
        BY <2>2 DEF retryFailedDepositRefund, next
      <4>. QED  BY <4>1, <4>2
    <3>. HIDE DEF next
    <3>. QED  BY <3>1, <3>2, <3>4 DEF DepositRow
  <2>3. CASE RefundPass1(w)
    BY <2>3 DEF RefundPass1
  <2>. QED  BY <2>1, <2>2, <2>3
<1>3. WorkerTyped'
  <2>1. "acquire" \in Step
    BY DEF Step
  <2>2. Snapshot(w, "acquire", status, row) \in Invocation
    BY <2>1, SnapshotTyped
  <2>3. Snapshot(w, "acquire", status, row') \in Invocation
    BY <2>1, <1>2, SnapshotTyped
  <2>4. [Snapshot(w, "acquire", status, row) EXCEPT !.lease = TRUE] \in Invocation
    <3>. HIDE DEF Snapshot
    <3>. QED  BY <2>2 DEF Invocation
  <2>5. \E v \in Invocation : worker' = [worker EXCEPT ![w] = v]
    BY <2>3, <2>4, Zenon DEF requestDepositRefund, retryFailedDepositRefund, RefundPass1
  <2>. QED  BY <2>5, MoveTyped
<1>. QED  BY <1>1, <1>2, <1>3 DEF Parts

\* Redispatch and reclaim.
LEMMA WorkTyped ==
  ASSUME Typed, NEW w \in Worker, NEW e \in Epoch, Redispatch(w, e) \/ ReclaimWork(e)
  PROVE  Parts
<1>. USE DEF Typed, RefundTyped, HoldTypeOK
<1>1. UNCHANGED <<lateChecked, row, refund, status>> /\ (Fault \/ UNCHANGED faults)
  BY DEF Redispatch, ReclaimWork, Stale
<1>2. work[e] \in WorkRow /\ work[e].attempts \in Nat
  BY DEF WorkRow
<1>3. \E v \in WorkRow : work' = [work EXCEPT ![e] = v]
  <2>1. CASE ReclaimWork(e)
    <3>1. [work[e] EXCEPT !.status = "retryable"] \in WorkRow
      BY <1>2 DEF WorkRow
    <3>2. work' = [work EXCEPT ![e] = [work[e] EXCEPT !.status = "retryable"]]
      BY <2>1 DEF ReclaimWork
    <3>. QED  BY <3>1, <3>2
  <2>2. CASE Redispatch(w, e)
    <3>1. /\ [status |-> "poisoned", attempts |-> work[e].attempts + 1] \in WorkRow
          /\ [status |-> "processing", attempts |-> work[e].attempts + 1] \in WorkRow
      BY <1>2 DEF WorkRow
    <3>2. \/ work' = [work EXCEPT ![e] = [status |-> "poisoned", attempts |-> work[e].attempts + 1]]
          \/ work' = [work EXCEPT ![e] =
                         [status |-> "processing", attempts |-> work[e].attempts + 1]]
      BY <2>2 DEF Redispatch
    <3>. QED  BY <3>1, <3>2
  <2>. QED  BY <2>1, <2>2
<1>4. WorkerTyped'
  <2>1. CASE UNCHANGED worker
    BY <2>1 DEF WorkerTyped
  <2>2. "look" \in Step
    BY DEF Step
  <2>3. Snapshot(w, "look", status, row) \in Invocation
    BY <2>2, SnapshotTyped
  <2>. DEFINE v == [Snapshot(w, "look", status, row) EXCEPT
                       !.on = e, !.claim = work[e].attempts + 1]
  <2>4. v \in Invocation
    <3>1. work[e].attempts + 1 \in Nat
      BY <1>2
    <3>. HIDE DEF Snapshot
    <3>. QED  BY <2>3, <3>1 DEF Invocation
  <2>5. UNCHANGED worker \/ worker' = [worker EXCEPT ![w] = v]
    BY Zenon DEF Redispatch, ReclaimWork
  <2>. HIDE DEF v
  <2>. QED  BY <2>1, <2>4, <2>5, MoveTyped
<1>. QED  BY <1>1, <1>3, <1>4 DEF Parts

-----------------------------------------------------------------------------
(* The core, one lemma per transaction or Stripe call.                     *)

\* The core's steps are steps.
LEMMA StepOfCore ==
  {"acquire", "look", "retire", "list", "partial", "corpses", "create", "relist", "stamp",
   "refuse", "finish"} \subseteq Step
BY DEF Step

\* An attempt counted.
LEMMA CountedTyped ==
  ASSUME NEW r \in DepositRow
  PROVE  /\ [r EXCEPT !.attempts = @ + 1] \in DepositRow
         /\ [r EXCEPT !.partial = TRUE] \in DepositRow
<1>1. [r EXCEPT !.attempts = @ + 1] \in DepositRow
  BY DEF DepositRow
<1>2. [r EXCEPT !.partial = TRUE] \in DepositRow
  BY DEF DepositRow
<1>. QED  BY <1>1, <1>2

\* An attempt given back.
LEMMA RestoredTyped ==
  ASSUME row \in DepositRow
  PROVE  RestoredRow \in DepositRow
<1>1. row.attempts \in Nat
  BY DEF DepositRow
<1>2. LessOne(row.attempts) \in Nat
  BY <1>1 DEF LessOne
<1>. QED  BY <1>2 DEF RestoredRow, DepositRow

\* The dead refunds enter the row together with their count.
LEMMA RetiredTyped ==
  ASSUME NEW r \in DepositRow, NEW S \in SUBSET Refund, NEW id \in Refund \union {NoRefund}
  PROVE  /\ [r EXCEPT !.prior = S, !.refundId = id,
                !.failures = IF Cardinality(S) > @ THEN Cardinality(S) ELSE @] \in DepositRow
         /\ [r EXCEPT !.prior = S,
                !.failures = IF Cardinality(S) > @ THEN Cardinality(S) ELSE @] \in DepositRow
<1>1. Cardinality(S) \in Nat
  BY Counts
<1>. QED  BY <1>1 DEF DepositRow

\* The live refund a listing found.
LEMMA AnyLiveFullTyped ==
  ASSUME Typed, NEW w \in Worker, LiveFull # {}
  PROVE  AnyLiveFull(w) \in Invocation
<1>. DEFINE r == CHOOSE r \in LiveFull : TRUE
<1>1. r \in LiveFull
  OBVIOUS
<1>2. r \in Refund /\ StatusOf(r) \in RefundState
  BY <1>1, StripeFacts DEF Typed, RefundTyped
<1>. HIDE DEF r
<1>3. Found(w, "stamp", r, StatusOf(r)) \in Invocation
  BY <1>2, FoundTyped, StepOfCore DEF Typed, RefundTyped
<1>. QED  BY <1>3 DEF AnyLiveFull, r

\* A refusal on its way to the row.
LEMMA RefusedTyped ==
  ASSUME Typed, NEW w \in Worker, NEW disputed \in BOOLEAN
  PROVE  Refused(w, disputed) \in Invocation
<1>1. Later(w, "refuse") \in Invocation
  BY LaterTyped, StepOfCore DEF Typed, RefundTyped
<1>. HIDE DEF Later
<1>. QED  BY <1>1 DEF Refused, Invocation

LEMMA OpenTyped ==
  ASSUME Typed, NEW w \in Worker, openSystemRefundIntent(w)
  PROVE  Parts
<1>. USE DEF Typed, RefundTyped, HoldTypeOK
<1>1. row' \in DepositRow
  BY RequestedTyped DEF openSystemRefundIntent
<1>2. WorkerTyped'
  <2>. DEFINE v == [Later(w, "acquire") EXCEPT !.id = row.refundId, !.epoch = row.epoch]
  <2>1. v \in Invocation
    <3>1. Later(w, "acquire") \in Invocation
      BY LaterTyped, StepOfCore
    <3>2. row.refundId \in Refund \union {NoRefund} /\ row.epoch \in Epoch
      BY DEF DepositRow
    <3>. HIDE DEF Later
    <3>. QED  BY <3>1, <3>2 DEF Invocation
  <2>2. worker' = [worker EXCEPT ![w] = v] \/ Leaves(w)
    BY DEF openSystemRefundIntent
  <2>. HIDE DEF v
  <2>. QED  BY <2>1, <2>2, MoveTyped, LeavesTyped
<1>. QED  BY <1>1, <1>2 DEF Parts, openSystemRefundIntent

LEMMA AcquireTyped ==
  ASSUME Typed, NEW w \in Worker, acquireRefundWork(w)
  PROVE  Parts
<1>. USE DEF Typed, RefundTyped, HoldTypeOK
<1>. DEFINE e == worker[w].epoch
            v == [Later(w, "look") EXCEPT !.id = worker[w].id, !.on = e,
                                          !.claim = work[e].attempts + 1]
            claimed == [status |-> "processing", attempts |-> work[e].attempts + 1]
<1>1. e \in Epoch /\ worker[w].id \in Refund \union {NoRefund}
  BY DEF WorkerTyped, Invocation
<1>2. work[e].attempts + 1 \in Nat
  BY <1>1 DEF WorkRow
<1>3. v \in Invocation
  <2>1. Later(w, "look") \in Invocation
    BY LaterTyped, StepOfCore
  <2>. HIDE DEF Later, e
  <2>. QED  BY <2>1, <1>1, <1>2 DEF Invocation
<1>4. claimed \in WorkRow
  BY <1>2 DEF WorkRow
<1>5. Fault \/ UNCHANGED faults
  BY DEF acquireRefundWork, Stale
<1>6. \/ work' = [work EXCEPT ![e] = claimed] /\ worker' = [worker EXCEPT ![w] = v]
      \/ UNCHANGED work /\ Leaves(w)
  <2>. HIDE DEF Typed, RefundTyped, HoldTypeOK
  <2>. QED  BY DEF acquireRefundWork
<1>7. UNCHANGED <<status, lateChecked, row, refund>>
  BY DEF acquireRefundWork
<1>. HIDE DEF e, v, claimed
<1>8. work' \in [Epoch -> WorkRow] /\ WorkerTyped'
  BY <1>1, <1>3, <1>4, <1>6, MoveTyped, LeavesTyped
<1>. QED  BY <1>5, <1>7, <1>8 DEF Parts

LEMMA LookUpTyped ==
  ASSUME Typed, NEW w \in Worker, LookUpStored(w)
  PROVE  Parts
<1>. USE DEF Typed, RefundTyped, HoldTypeOK
<1>1. work' \in [Epoch -> WorkRow] /\ WorkerTyped'
  <2>. DEFINE r == worker[w].id
  <2>1. CASE /\ worker' = [worker EXCEPT ![w] =
                      Found(w, IF r \in Live THEN "stamp" ELSE "retire", r, StatusOf(r))]
             /\ UNCHANGED work /\ r # NoRefund
    <3>1. r \in Refund
      BY <2>1 DEF WorkerTyped, Invocation
    <3>2. StatusOf(r) \in RefundState
      BY <3>1, StripeFacts
    <3>3. (IF r \in Live THEN "stamp" ELSE "retire") \in Step
      BY StepOfCore
    <3>4. Found(w, IF r \in Live THEN "stamp" ELSE "retire", r, StatusOf(r)) \in Invocation
      BY <3>1, <3>2, <3>3, FoundTyped
    <3>. QED  BY <2>1, <3>4, MoveTyped
  <2>2. CASE worker' = [worker EXCEPT ![w] = Later(w, "list")] /\ UNCHANGED work
    BY <2>2, LaterTyped, MoveTyped, StepOfCore
  <2>3. CASE NoCall(w) \/ ProviderRetryable(w)
    BY <2>3, NoCallTyped, ProviderRetryableTyped
  <2>. QED  BY <2>1, <2>2, <2>3 DEF LookUpStored
<1>2. UNCHANGED <<status, lateChecked, row, refund>> /\ (Fault \/ UNCHANGED faults)
  BY DEF LookUpStored
<1>. QED  BY <1>1, <1>2 DEF Parts

LEMMA RetireTyped ==
  ASSUME Typed, NEW w \in Worker, retireStoredRefund(w), worker[w].got \in Refund
  PROVE  Parts
<1>. USE DEF Typed, RefundTyped, HoldTypeOK
<1>. DEFINE r == worker[w].got
            prior == row.prior \union {r}
            id == IF row.refundId = r THEN NoRefund ELSE row.refundId
            next == [row EXCEPT !.prior = prior, !.refundId = id,
                        !.failures = IF Cardinality(prior) > @ THEN Cardinality(prior) ELSE @]
<1>1. prior \in SUBSET Refund /\ id \in Refund \union {NoRefund}
  BY DEF DepositRow
<1>2. next \in DepositRow
  <2>. HIDE DEF prior, id
  <2>. QED  BY <1>1, RetiredTyped
<1>3. row' = row \/ row' = next
  BY DEF retireStoredRefund
<1>4. [Later(w, "list") EXCEPT !.dead = {r}] \in Invocation
  <2>1. Later(w, "list") \in Invocation
    BY LaterTyped, StepOfCore
  <2>. HIDE DEF Later
  <2>. QED  BY <2>1 DEF Invocation
<1>5. worker' = [worker EXCEPT ![w] = [Later(w, "list") EXCEPT !.dead = {r}]]
  BY DEF retireStoredRefund
<1>6. UNCHANGED <<status, lateChecked, refund, work, faults>>
  BY DEF retireStoredRefund
<1>. HIDE DEF next
<1>7. row' \in DepositRow
  BY <1>2, <1>3
<1>8. WorkerTyped'
  BY <1>4, <1>5, MoveTyped
<1>. QED  BY <1>6, <1>7, <1>8 DEF Parts

LEMMA ListTyped ==
  ASSUME Typed, NEW w \in Worker, ListRefunds(w)
  PROVE  Parts
<1>. USE DEF Typed, RefundTyped, HoldTypeOK
<1>. DEFINE counted == [row EXCEPT !.attempts = @ + 1]
            corpses == [Later(w, "corpses") EXCEPT !.dead = worker[w].dead \union Dead]
<1>1. row' \in DepositRow
  BY CountedTyped DEF ListRefunds
<1>2. UNCHANGED <<status, lateChecked, refund>> /\ (Fault \/ UNCHANGED faults)
  BY DEF ListRefunds
<1>3. corpses \in Invocation
  <2>1. Later(w, "corpses") \in Invocation
    BY LaterTyped, StepOfCore
  <2>2. worker[w].dead \union Dead \subseteq Refund
    BY StripeFacts DEF WorkerTyped, Invocation
  <2>. HIDE DEF Later
  <2>. QED  BY <2>1, <2>2 DEF Invocation
<1>4. \/ worker' = [worker EXCEPT ![w] = Later(w, "partial")] /\ UNCHANGED work
      \/ LiveFull # {} /\ worker' = [worker EXCEPT ![w] = AnyLiveFull(w)] /\ UNCHANGED work
      \/ worker' = [worker EXCEPT ![w] = corpses] /\ UNCHANGED work
      \/ NoCall(w) \/ ProviderRetryable(w)
  <2>. HIDE DEF Typed, RefundTyped, HoldTypeOK
  <2>. QED  BY DEF ListRefunds
<1>. HIDE DEF corpses
<1>5. work' \in [Epoch -> WorkRow] /\ WorkerTyped'
  BY <1>3, <1>4, LaterTyped, StepOfCore, AnyLiveFullTyped, MoveTyped, NoCallTyped,
     ProviderRetryableTyped
<1>. QED  BY <1>1, <1>2, <1>5 DEF Parts

LEMMA NotePartialTyped ==
  ASSUME Typed, NEW w \in Worker, NotePartial(w)
  PROVE  Parts
<1>1. row' \in DepositRow
  BY CountedTyped DEF NotePartial, Typed, RefundTyped
<1>2. WorkerTyped'
  BY LaterTyped, StepOfCore, MoveTyped DEF NotePartial, Typed, RefundTyped
<1>. QED  BY <1>1, <1>2 DEF Parts, NotePartial, Typed, RefundTyped, HoldTypeOK

LEMMA CorpsesTyped ==
  ASSUME Typed, NEW w \in Worker, recordListedRefundCorpses(w)
  PROVE  Parts
<1>. DEFINE prior == row.prior \union worker[w].dead
<1>1. row' \in DepositRow
  <2>1. row \in DepositRow /\ prior \in SUBSET Refund
    BY DEF Typed, RefundTyped, DepositRow, WorkerTyped, Invocation
  <2>2. row' = [row EXCEPT !.prior = prior,
                   !.failures = IF Cardinality(prior) > @ THEN Cardinality(prior) ELSE @]
    BY DEF recordListedRefundCorpses
  <2>. HIDE DEF prior
  <2>. QED  BY <2>1, <2>2, RetiredTyped
<1>2. WorkerTyped'
  <2>1. Later(w, "create") \in Invocation
    BY LaterTyped, StepOfCore DEF Typed, RefundTyped
  <2>2. row'.epoch \in Epoch /\ row'.failures \in Nat
    BY <1>1 DEF DepositRow
  <2>3. Refreshed(w, "create", row') \in Invocation
    <3>. HIDE DEF Later
    <3>. QED  BY <2>1, <2>2 DEF Refreshed, Invocation
  <2>. QED  BY <2>3, MoveTyped DEF recordListedRefundCorpses, Typed, RefundTyped
<1>. QED  BY <1>1, <1>2 DEF Parts, recordListedRefundCorpses, Typed, RefundTyped, HoldTypeOK

LEMMA CreateTyped ==
  ASSUME Typed, NEW w \in Worker, CreateRefund(w)
  PROVE  Parts
<1>. DEFINE key == buildRefundIdempotencyKey(w)
<1>1. row \in DepositRow /\ WorkerTyped /\ refund \in [Refund -> RefundObject]
      /\ work \in [Epoch -> WorkRow]
  BY DEF Typed, RefundTyped
<1>2. key \in Nat \X Nat
  BY <1>1 DEF buildRefundIdempotencyKey, WorkerTyped, Invocation, Epoch
<1>. HIDE DEF key
<1>3. row' \in DepositRow
  BY <1>1, RestoredTyped DEF CreateRefund
<1>4. refund' \in [Refund -> RefundObject]
  <2>1. \/ UNCHANGED refund
        \/ \E r \in Refund \ Made : \E st \in {"pending", "succeeded"} :
              Creates(r, key, LivePart # {}, st)
    BY Zenon DEF CreateRefund, key
  <2>2. (LivePart # {}) \in BOOLEAN /\ {"pending", "succeeded"} \subseteq RefundState
    BY DEF RefundState
  <2>. QED  BY <1>1, <1>2, <2>1, <2>2, CreatesTyped
<1>5. work' \in [Epoch -> WorkRow] /\ WorkerTyped'
  <2>1. \/ \E r \in Made : worker' = [worker EXCEPT ![w] = Found(w, "stamp", r, Born(r))]
                           /\ UNCHANGED work
        \/ \E r \in Refund \ Made : \E st \in {"pending", "succeeded"} :
              worker' = [worker EXCEPT ![w] = Found(w, "stamp", r, st)] /\ UNCHANGED work
        \/ worker' = [worker EXCEPT ![w] = Later(w, "relist")] /\ UNCHANGED work
        \/ \E disputed \in BOOLEAN :
              worker' = [worker EXCEPT ![w] = Refused(w, disputed)] /\ UNCHANGED work
        \/ NoCall(w) \/ ProviderRetryable(w)
    BY Zenon DEF CreateRefund, Keyed
  <2>2. ASSUME NEW r \in Refund, NEW st \in RefundState,
               worker' = [worker EXCEPT ![w] = Found(w, "stamp", r, st)], UNCHANGED work
        PROVE  work' \in [Epoch -> WorkRow] /\ WorkerTyped'
    BY <1>1, <2>2, FoundTyped, StepOfCore, MoveTyped
  <2>3. \A r \in Made : r \in Refund /\ Born(r) \in RefundState
    BY <1>1, StripeFacts
  <2>4. {"pending", "succeeded"} \subseteq RefundState
    BY DEF RefundState
  <2>5. ASSUME worker' = [worker EXCEPT ![w] = Later(w, "relist")], UNCHANGED work
        PROVE  work' \in [Epoch -> WorkRow] /\ WorkerTyped'
    BY <1>1, <2>5, LaterTyped, StepOfCore, MoveTyped
  <2>6. ASSUME NEW disputed \in BOOLEAN,
               worker' = [worker EXCEPT ![w] = Refused(w, disputed)], UNCHANGED work
        PROVE  work' \in [Epoch -> WorkRow] /\ WorkerTyped'
    BY <1>1, <2>6, RefusedTyped, MoveTyped
  <2>7. ASSUME NoCall(w) \/ ProviderRetryable(w)
        PROVE  work' \in [Epoch -> WorkRow] /\ WorkerTyped'
    BY <1>1, <2>7, NoCallTyped, ProviderRetryableTyped
  <2>. QED  BY <2>1, <2>2, <2>3, <2>4, <2>5, <2>6, <2>7
<1>6. UNCHANGED <<status, lateChecked>> /\ (Fault \/ UNCHANGED faults)
  BY DEF CreateRefund
<1>. QED  BY <1>3, <1>4, <1>5, <1>6 DEF Parts, Typed, RefundTyped, HoldTypeOK

LEMMA RelistTyped ==
  ASSUME Typed, NEW w \in Worker, RelistRefunds(w)
  PROVE  Parts
<1>1. row \in DepositRow /\ WorkerTyped /\ work \in [Epoch -> WorkRow]
  BY DEF Typed, RefundTyped
<1>2. row' \in DepositRow
  BY <1>1, RestoredTyped DEF RelistRefunds
<1>3. work' \in [Epoch -> WorkRow] /\ WorkerTyped'
  <2>1. \/ LiveFull # {} /\ worker' = [worker EXCEPT ![w] = AnyLiveFull(w)] /\ UNCHANGED work
        \/ worker' = [worker EXCEPT ![w] = Refused(w, TRUE)] /\ UNCHANGED work
        \/ NoCall(w) \/ ProviderRetryable(w)
    BY DEF RelistRefunds
  <2>. QED
    BY <1>1, <2>1, AnyLiveFullTyped, RefusedTyped, MoveTyped, NoCallTyped, ProviderRetryableTyped
<1>4. UNCHANGED <<status, lateChecked, refund>> /\ (Fault \/ UNCHANGED faults)
  BY DEF RelistRefunds
<1>. QED  BY <1>2, <1>3, <1>4 DEF Parts, Typed, RefundTyped, HoldTypeOK

LEMMA RefusalTyped ==
  ASSUME Typed, NEW w \in Worker, RecordRefusal(w)
  PROVE  Parts
<1>1. row \in DepositRow /\ worker[w].code \in BOOLEAN
  BY DEF Typed, RefundTyped, WorkerTyped, Invocation
<1>2. ASSUME NEW code \in BOOLEAN, NEW n \in Nat
      PROVE  [row EXCEPT !.refundStatus = "failed", !.failures = n, !.barred = code] \in DepositRow
  BY <1>1 DEF DepositRow, RefundState
<1>3. row' \in DepositRow
  <2>1. row.failures + 1 \in Nat
    BY <1>1 DEF DepositRow
  <2>2. row' = row \/ row' = [row EXCEPT !.refundStatus = "failed",
                                !.failures = row.failures + 1, !.barred = worker[w].code]
    BY DEF RecordRefusal
  <2>. QED  BY <1>1, <1>2, <2>1, <2>2
<1>4. WorkerTyped'
  BY LaterTyped, StepOfCore, MoveTyped DEF RecordRefusal, Typed, RefundTyped
<1>. QED  BY <1>3, <1>4 DEF Parts, RecordRefusal, Typed, RefundTyped, HoldTypeOK

LEMMA StampTyped ==
  ASSUME Typed, NEW w \in Worker, stampDepositRefund(w), worker[w].got \in Refund
  PROVE  Parts
<1>1. /\ row \in DepositRow /\ WorkerTyped /\ work \in [Epoch -> WorkRow]
      /\ status \in DepositStatus
      /\ worker[w].was \in RefundState /\ worker[w].claim \in Nat
  BY DEF Typed, RefundTyped, HoldTypeOK, WorkerTyped, Invocation
<1>2. \/ /\ Observes(worker[w].got, worker[w].was)
         /\ Finalizes(w, "processed", worker[w].claim) /\ Leaves(w)
      \/ UNCHANGED <<row, status, work>> /\ Leaves(w)
      \/ UNCHANGED <<row, status, work>>
         /\ worker' = [worker EXCEPT ![w] = Later(w, "finish")]
  BY DEF stampDepositRefund
<1>3. row' \in DepositRow /\ status' \in DepositStatus
  BY <1>1, <1>2, ObservesTyped
<1>4. work' \in [Epoch -> WorkRow]
  BY <1>1, <1>2, FinalizesTyped
<1>5. WorkerTyped'
  BY <1>1, <1>2, LeavesTyped, LaterTyped, StepOfCore, MoveTyped
<1>. QED  BY <1>3, <1>4, <1>5 DEF Parts, stampDepositRefund, Typed, RefundTyped

LEMMA FinishTyped ==
  ASSUME Typed, NEW w \in Worker, finalizeTerminalWork(w) \/ WorkerDies(w)
  PROVE  Parts
<1>1. WorkerTyped /\ work \in [Epoch -> WorkRow] /\ worker[w].claim \in Nat
  BY DEF Typed, RefundTyped, WorkerTyped, Invocation
<1>2. work' \in [Epoch -> WorkRow]
  BY <1>1, FinalizesTyped DEF finalizeTerminalWork, WorkerDies
<1>3. WorkerTyped'
  BY <1>1, LeavesTyped DEF finalizeTerminalWork, WorkerDies
<1>4. UNCHANGED <<status, lateChecked, row, refund>> /\ (Fault \/ UNCHANGED faults)
  BY DEF finalizeTerminalWork, WorkerDies
<1>. QED  BY <1>2, <1>3, <1>4 DEF Parts, Typed, RefundTyped, HoldTypeOK

-----------------------------------------------------------------------------
(***************************************************************************)
(* What is known of Stripe.  A worker's snapshot is stale, but whatever it *)
(* remembers of a refund stays true: a refund that is made stays made, one *)
(* that died stays dead, and it never becomes partial.                     *)
(***************************************************************************)

BornAlive == \A r \in Made : refund[r].seen \cap {"pending", "succeeded"} # {}

Knowledge(v) ==
    /\ v.id # NoRefund => v.id \in Made
    /\ v.dead \subseteq Dead
    /\ v.at = "retire" => v.got \in Dead
    /\ v.at = "stamp" =>
           /\ v.got \in Made
           /\ v.was = "succeeded" => "succeeded" \in refund[v.got].seen
           /\ v.was = "failed" => v.got \in Dead

WorkersKnow == \A w \in Worker : Knowledge(worker[w])

\* Only a refund that has been observed has its id in the row.
BoundIsObserved == row.refundId # NoRefund => row.refundStatus \in RefundState

Known == BornAlive /\ WorkersKnow /\ RowMatchesStripe /\ BoundIsObserved

\* The refunds at Stripe only grow.
Grows ==
    \A r \in Made :
        /\ refund[r].seen \subseteq refund'[r].seen
        /\ refund'[r].part = refund[r].part

LEMMA GrowthKeeps ==
  ASSUME Typed, RefundTyped', Grows
  PROVE  Made \subseteq Made' /\ Dead \subseteq Dead'
<1>1. Made \subseteq Made'
  BY DEF Grows, Made, Typed, RefundTyped
<1>2. ASSUME NEW r \in Dead
      PROVE  r \in Dead'
  <2>1. r \in Made /\ "failed" \in refund[r].seen
    BY DEF Dead, Live, StatusOf, Made
  <2>2. r \in Made' /\ "failed" \in refund'[r].seen
    BY <1>1, <2>1 DEF Grows
  <2>3. StatusOf(r)' = "failed"
    BY <2>2 DEF StatusOf
  <2>. QED  BY <2>2, <2>3 DEF Dead, Live
<1>. QED  BY <1>1, <1>2
LEMMA KnowledgeStands ==
  ASSUME Typed, RefundTyped', Grows, NEW w \in Worker, NEW v, Knowledge(v), worker'[w] = v
  PROVE  Knowledge(worker[w])'
BY GrowthKeeps DEF Knowledge, Grows

LEMMA WorkersStillKnow ==
  ASSUME Typed, RefundTyped', Grows, WorkersKnow, UNCHANGED worker
  PROVE  WorkersKnow'
BY KnowledgeStands DEF WorkersKnow

LEMMA OneLearns ==
  ASSUME Typed, RefundTyped', Grows, WorkersKnow, NEW w \in Worker, NEW v, Knowledge(v),
         worker' = [worker EXCEPT ![w] = v]
  PROVE  WorkersKnow'
<1>1. ASSUME NEW u \in Worker
      PROVE  Knowledge(worker[u])'
  <2>1. CASE u = w
    <3>1. worker'[u] = v
      BY <2>1 DEF Typed, RefundTyped, WorkerTyped
    <3>. QED  BY <3>1, KnowledgeStands
  <2>2. CASE u # w
    <3>1. worker'[u] = worker[u] /\ Knowledge(worker[u])
      BY <2>2 DEF Typed, RefundTyped, WorkerTyped, WorkersKnow
    <3>. QED  BY <3>1, KnowledgeStands
  <2>. QED  BY <2>1, <2>2
<1>. QED  BY <1>1 DEF WorkersKnow

LEMMA RowStands ==
  ASSUME Typed, RefundTyped', Grows, RowMatchesStripe, BoundIsObserved,
         row'.prior \subseteq Dead,
         \/ row'.refundId = NoRefund
         \/ row'.refundId = row.refundId /\ row'.refundStatus = row.refundStatus
  PROVE  RowMatchesStripe' /\ BoundIsObserved'
<1>1. row'.prior \subseteq Dead'
  BY GrowthKeeps
<1>2. CASE row'.refundId = NoRefund
  BY <1>1, <1>2 DEF RowMatchesStripe, BoundIsObserved
<1>3. CASE row'.refundId = row.refundId /\ row'.refundStatus = row.refundStatus
           /\ row.refundId # NoRefund
  BY <1>1, <1>3, GrowthKeeps DEF RowMatchesStripe, BoundIsObserved, Grows
<1>. QED  BY <1>2, <1>3

LEMMA NothingGrows ==
  ASSUME UNCHANGED refund
  PROVE  Grows /\ (BornAlive => BornAlive')
BY DEF Grows, BornAlive, Made

\* A worker that is between two refunds remembers nothing of either.
LEMMA LaterKnows ==
  ASSUME NEW w \in Worker, NEW step, step \notin {"retire", "stamp"}
  PROVE  Knowledge(Later(w, step))
BY DEF Knowledge, Later, Idle

LEMMA IdleKnows == Knowledge(Idle)
BY DEF Knowledge, Idle

LEMMA FoundKnows ==
  ASSUME NEW w \in Worker, NEW r \in Made, NEW st,
         st = "succeeded" => "succeeded" \in refund[r].seen,
         st = "failed" => r \in Dead
  PROVE  Knowledge(Found(w, "stamp", r, st))
BY DEF Knowledge, Found, Later, Idle

LEMMA SnapshotKnows ==
  ASSUME NEW w \in Worker, NEW step, step \notin {"retire", "stamp"}, NEW st, NEW r,
         r.refundId # NoRefund => r.refundId \in Made
  PROVE  Knowledge(Snapshot(w, step, st, r))
BY DEF Knowledge, Snapshot, Idle

\* What a look at Stripe says of a refund is so.
LEMMA StatusIsSeen ==
  ASSUME NEW r \in Made
  PROVE  /\ StatusOf(r) = "succeeded" => "succeeded" \in refund[r].seen
         /\ StatusOf(r) = "failed" => r \in Dead
         /\ "failed" \in refund[r].seen => r \in Dead
         /\ Born(r) # "failed"
         /\ BornAlive /\ Born(r) = "succeeded" => "succeeded" \in refund[r].seen
BY DEF StatusOf, Dead, Live, Born, BornAlive

LEMMA ObservedIsSo ==
  ASSUME Typed, Known, UNCHANGED refund, NEW r \in Made, NEW st \in RefundState,
         ~refund[r].part, Observes(r, st),
         st = "succeeded" => "succeeded" \in refund[r].seen,
         st = "failed" => r \in Dead
  PROVE  RowMatchesStripe' /\ BoundIsObserved'
<1>0. /\ row \in DepositRow /\ UNCHANGED Made /\ UNCHANGED Dead /\ r # NoRefund
  BY LimitsAssumption, StripeFacts DEF Typed, RefundTyped, Made, Dead, Live, StatusOf
<1>1. CASE UNCHANGED row
  BY <1>0, <1>1 DEF Known, RowMatchesStripe, BoundIsObserved
<1>2. CASE LegalObservation(r, st) /\ row' = Observed(r, st)
  <2>1. Binds(r, st) \/ row.refundId = r
    BY <1>2 DEF LegalObservation, Binds
  <2>2. row'.refundId = r /\ row'.refundStatus = st
    BY <1>0, <1>2, <2>1 DEF Observed, DepositRow
  <2>3. row'.prior \subseteq Dead
    <3>1. row'.prior = IF Adopts(r, st) THEN row.prior \union ({row.refundId} \ {NoRefund})
                       ELSE row.prior
      BY <1>0, <1>2 DEF Observed, DepositRow
    <3>2. row.prior \subseteq Dead
      BY DEF Known, RowMatchesStripe
    <3>3. Adopts(r, st) /\ row.refundId # NoRefund => row.refundId \in Dead
      BY DEF Adopts, Known, RowMatchesStripe
    <3>. QED  BY <3>1, <3>2, <3>3
  <2>. QED  BY <1>0, <2>2, <2>3 DEF RowMatchesStripe, BoundIsObserved
<1>. QED  BY <1>1, <1>2 DEF Observes

-----------------------------------------------------------------------------
(* No step makes anybody's knowledge untrue.                               *)

\* Steps that leave Stripe's refunds alone: what remains to be shown of one.
LEMMA KnownFrom ==
  ASSUME Known, UNCHANGED refund, WorkersKnow', RowMatchesStripe' /\ BoundIsObserved'
  PROVE  Known'
BY NothingGrows DEF Known

LEMMA UntouchedKnown ==
  ASSUME Known, UNCHANGED <<refund, row, worker>>
  PROVE  Known'
BY DEF Known, BornAlive, WorkersKnow, Knowledge, RowMatchesStripe, BoundIsObserved, Made, Dead,
       Live, StatusOf

LEMMA StripeKnown ==
  ASSUME Typed, Typed', Known, StripeStep
  PROVE  Known'
<1>1. refund \in [Refund -> RefundObject]
  BY DEF Typed, RefundTyped
<1>2. Grows /\ BornAlive'
  <2>1. CASE RefundMoves
    <3>1. PICK r \in Live, st \in RefundState :
             refund' = [refund EXCEPT ![r].seen = @ \union {st}]
      BY <2>1 DEF RefundMoves
    <3>2. r \in Made
      BY <1>1, StripeFacts
    <3>3. \A u \in Refund : refund'[u].part = refund[u].part
                         /\ refund'[u].seen = IF u = r THEN refund[u].seen \union {st}
                                              ELSE refund[u].seen
      BY <1>1, <3>1 DEF RefundObject
    <3>4. Made' = Made
      BY <3>2, <3>3 DEF Made
    <3>. QED  BY <3>3, <3>4 DEF Grows, BornAlive, Known, Made
  <2>2. CASE DashboardRefund
    <3>1. PICK r \in Refund \ Made, part \in BOOLEAN, st \in {"pending", "succeeded"} :
             Creates(r, NoKey, part, st)
      BY <2>2 DEF DashboardRefund
    <3>2. \A u \in Refund : refund'[u] = IF u = r THEN [seen |-> {st}, key |-> NoKey, part |-> part]
                                         ELSE refund[u]
      BY <1>1, <3>1 DEF Creates
    <3>. QED  BY <3>1, <3>2 DEF Grows, BornAlive, Known, Made
  <2>. QED  BY <2>1, <2>2 DEF StripeStep
<1>3. UNCHANGED <<row, worker>>
  BY DEF StripeStep, RefundMoves, DashboardRefund
<1>4. WorkersKnow'
  BY <1>2, <1>3, WorkersStillKnow DEF Known, Typed
<1>5. RowMatchesStripe' /\ BoundIsObserved'
  <2>1. row'.prior \subseteq Dead
    BY <1>3 DEF Known, RowMatchesStripe
  <2>. QED  BY <1>2, <1>3, <2>1, RowStands DEF Known, Typed
<1>. QED  BY <1>2, <1>4, <1>5 DEF Known

LEMMA ObservationKnown ==
  ASSUME Typed, Typed', Known, ObservationStep
  PROVE  Known'
<1>1. UNCHANGED <<refund, worker>>
  BY DEF ObservationStep, RefundWebhook, RetrieveBound, Discover
<1>2. Grows
  BY <1>1, NothingGrows
<1>3. WorkersKnow'
  BY <1>1, <1>2, WorkersStillKnow DEF Known, Typed
<1>4. RowMatchesStripe' /\ BoundIsObserved'
  <2>1. row \in DepositRow /\ refund \in [Refund -> RefundObject]
    BY DEF Typed, RefundTyped
  <2>2. ASSUME row' = [row EXCEPT !.partial = TRUE]
        PROVE  RowMatchesStripe' /\ BoundIsObserved'
    <3>1. row'.prior = row.prior /\ row'.refundId = row.refundId
          /\ row'.refundStatus = row.refundStatus
      BY <2>1, <2>2 DEF DepositRow
    <3>2. row'.prior \subseteq Dead
      BY <3>1 DEF Known, RowMatchesStripe
    <3>. QED  BY <1>2, <3>1, <3>2, RowStands DEF Known, Typed
  <2>3. CASE RefundWebhook
    <3>1. PICK r \in Made : \E st \in refund[r].seen :
             \/ row' = [row EXCEPT !.partial = TRUE]
             \/ ~refund[r].part /\ Observes(r, st)
      BY <2>3 DEF RefundWebhook
    <3>2. ASSUME NEW st \in refund[r].seen, ~refund[r].part, Observes(r, st)
          PROVE  RowMatchesStripe' /\ BoundIsObserved'
      <4>1. st \in RefundState
        BY <2>1, StripeFacts
      <4>2. st = "failed" => r \in Dead
        BY StatusIsSeen
      <4>. QED  BY <1>1, <3>2, <4>1, <4>2, ObservedIsSo
    <3>. QED  BY <2>2, <3>1, <3>2
  <2>4. CASE RetrieveBound
    <3>1. row.refundId \in Made /\ ~refund[row.refundId].part
      BY <2>4 DEF RetrieveBound, Known, RowMatchesStripe
    <3>2. StatusOf(row.refundId) \in RefundState
      BY <2>1, <3>1, StripeFacts
    <3>3. Observes(row.refundId, StatusOf(row.refundId))
      BY <2>4 DEF RetrieveBound
    <3>. QED  BY <1>1, <3>1, <3>2, <3>3, StatusIsSeen, ObservedIsSo
  <2>5. CASE Discover
    <3>1. \/ \E r \in LiveFull : Observes(r, StatusOf(r))
          \/ row' = [row EXCEPT !.partial = TRUE]
      BY <2>5 DEF Discover
    <3>2. ASSUME NEW r \in LiveFull, Observes(r, StatusOf(r))
          PROVE  RowMatchesStripe' /\ BoundIsObserved'
      <4>1. r \in Made /\ ~refund[r].part /\ StatusOf(r) \in RefundState
        BY <2>1, StripeFacts DEF LiveFull
      <4>. QED  BY <1>1, <3>2, <4>1, StatusIsSeen, ObservedIsSo
    <3>. QED  BY <2>2, <3>1, <3>2
  <2>. QED  BY <2>3, <2>4, <2>5 DEF ObservationStep
<1>. QED  BY <1>1, <1>3, <1>4, KnownFrom

\* A worker that enters the core, or leaves it, with the row as it is.
LEMMA BoundIsMade ==
  ASSUME Known
  PROVE  row.refundId # NoRefund => row.refundId \in Made
BY DEF Known, RowMatchesStripe

LEMMA WorkerMovesKnown ==
  ASSUME Typed, Typed', Known, UNCHANGED <<refund, row>>, NEW w \in Worker, NEW v, Knowledge(v),
         worker' = [worker EXCEPT ![w] = v]
  PROVE  Known'
<1>1. Grows
  BY NothingGrows
<1>2. WorkersKnow'
  BY <1>1, OneLearns DEF Known, Typed
<1>3. RowMatchesStripe' /\ BoundIsObserved'
  BY <1>1, RowStands DEF Known, Typed, RowMatchesStripe
<1>. QED  BY <1>2, <1>3, KnownFrom

LEMMA EntersCoreKnown ==
  ASSUME Typed, Typed', Known, UNCHANGED <<refund, row>>, NEW w \in Worker, EntersCore(w)
  PROVE  Known'
<1>1. CoreStep(row) \notin {"retire", "stamp"}
  BY DEF CoreStep
<1>2. Knowledge(Snapshot(w, CoreStep(row), status, row))
  BY <1>1, BoundIsMade, SnapshotKnows
<1>. QED  BY <1>2, WorkerMovesKnown DEF EntersCore

LEMMA GoesKnown ==
  ASSUME Typed, Typed', Known, UNCHANGED <<refund, row>>, NEW w \in Worker,
         NEW step \in {"restore", "reread"}, Goes(w, step)
  PROVE  Known'
<1>. DEFINE v == [worker[w] EXCEPT !.at = step]
<1>1. Knowledge(v)
  <2>1. worker[w] \in Invocation /\ Knowledge(worker[w])
    BY DEF Typed, RefundTyped, WorkerTyped, Known, WorkersKnow
  <2>2. v.id = worker[w].id /\ v.dead = worker[w].dead /\ v.at = step
    BY <2>1 DEF Invocation
  <2>. HIDE DEF v
  <2>. QED  BY <2>1, <2>2 DEF Knowledge
<1>2. worker' = [worker EXCEPT ![w] = v]
  BY DEF Goes
<1>. HIDE DEF v
<1>. QED  BY <1>1, <1>2, WorkerMovesKnown

LEMMA LeavesKnown ==
  ASSUME Typed, Typed', Known, UNCHANGED <<refund, row>>, NEW w \in Worker, Leaves(w)
  PROVE  Known'
BY IdleKnows, WorkerMovesKnown DEF Leaves

LEMMA RecoveryKnown ==
  ASSUME Typed, Typed', Known, NEW w \in Worker, RecoveryStep(w)
  PROVE  Known'
<1>1. UNCHANGED <<refund, row>>
  BY DEF RecoveryStep, EvidenceTooLate, LateCheck, Restore, Reread
<1>2. \/ UNCHANGED worker \/ Leaves(w) \/ EntersCore(w)
      \/ Goes(w, "restore") \/ Goes(w, "reread")
  BY DEF RecoveryStep, EvidenceTooLate, LateCheck, Restore, Reread, Recovers
<1>. QED  BY <1>1, <1>2, UntouchedKnown, LeavesKnown, EntersCoreKnown, GoesKnown

\* The row keeps its refund or lets go of it, and retires only dead ones.
RowMoves ==
    /\ row'.prior \subseteq Dead
    /\ \/ row'.refundId = NoRefund
       \/ row'.refundId = row.refundId /\ row'.refundStatus = row.refundStatus

LEMMA StepKnown ==
  ASSUME Typed, Typed', Known, UNCHANGED refund, RowMoves,
         NEW w \in Worker, NEW v, Knowledge(v), worker' = [worker EXCEPT ![w] = v]
  PROVE  Known'
<1>1. Grows
  BY NothingGrows
<1>2. WorkersKnow'
  BY <1>1, OneLearns DEF Known, Typed
<1>3. RowMatchesStripe' /\ BoundIsObserved'
  BY <1>1, RowStands DEF Known, Typed, RowMoves
<1>. QED  BY <1>2, <1>3, KnownFrom

LEMMA RowStaysPut ==
  ASSUME Typed, Known,
         row'.prior = row.prior, row'.refundId = row.refundId,
         row'.refundStatus = row.refundStatus \/ row.refundId = NoRefund
  PROVE  RowMoves
BY DEF Known, RowMatchesStripe, RowMoves

LEMMA EntryKnown ==
  ASSUME Typed, Typed', Known, NEW w \in Worker,
         requestDepositRefund(w) \/ retryFailedDepositRefund(w) \/ RefundPass1(w)
  PROVE  Known'
<1>1. UNCHANGED refund /\ row \in DepositRow /\ row' \in DepositRow
  BY DEF Typed, RefundTyped, requestDepositRefund, retryFailedDepositRefund, RefundPass1
<1>2. row.refundStatus \in {"null", "requested"} => row.refundId = NoRefund
  BY DEF Known, BoundIsObserved, RefundState
<1>3. RowMoves
  <2>1. CASE requestDepositRefund(w)
    <3>1. row' = Requested(row, "owner") /\ row.refundStatus = "null"
      BY <2>1 DEF requestDepositRefund
    <3>2. row'.prior = row.prior /\ row'.refundId = row.refundId
      BY <1>1, <3>1 DEF Requested, DepositRow
    <3>. QED  BY <1>2, <3>1, <3>2, RowStaysPut
  <2>2. CASE retryFailedDepositRefund(w) /\ row.refundStatus = "failed"
    <3>. DEFINE next == Requested(row, row.trigger)
    <3>1. next.prior = row.prior /\ next \in DepositRow
      <4>1. row.trigger \in {"none", "owner", "system", "external"}
        BY <1>1 DEF DepositRow
      <4>. QED  BY <1>1, <4>1, RequestedTyped DEF Requested, DepositRow
    <3>2. row' = [next EXCEPT !.epoch = @ + 1, !.refundId = NoRefund,
                     !.prior = @ \union ({row.refundId} \ {NoRefund})]
      BY <2>2 DEF retryFailedDepositRefund, next
    <3>. HIDE DEF next
    <3>3. row'.prior = row.prior \union ({row.refundId} \ {NoRefund}) /\ row'.refundId = NoRefund
      BY <3>1, <3>2 DEF DepositRow
    <3>4. row.refundId # NoRefund => row.refundId \in Dead
      BY <2>2 DEF Known, RowMatchesStripe
    <3>. QED  BY <3>3, <3>4 DEF RowMoves, Known, RowMatchesStripe
  <2>3. CASE retryFailedDepositRefund(w) /\ row.refundStatus # "failed"
    <3>1. row.refundStatus = "requested"
          /\ row' = [Requested(row, row.trigger) EXCEPT !.epoch = @ + 1]
      BY <2>3 DEF retryFailedDepositRefund
    <3>2. row'.prior = row.prior /\ row'.refundId = row.refundId
      BY <1>1, <3>1 DEF Requested, DepositRow
    <3>. QED  BY <1>2, <3>1, <3>2, RowStaysPut
  <2>4. CASE RefundPass1(w)
    BY <2>4, RowStaysPut DEF RefundPass1
  <2>. QED  BY <2>1, <2>2, <2>3, <2>4
<1>4. \E v : Knowledge(v) /\ worker' = [worker EXCEPT ![w] = v]
  <2>1. row'.refundId # NoRefund => row'.refundId \in Made
    BY <1>3, BoundIsMade DEF RowMoves
  <2>2. Knowledge(Snapshot(w, "acquire", status, row'))
    BY <2>1, SnapshotKnows
  <2>3. Knowledge(Snapshot(w, "acquire", status, row))
    BY BoundIsMade, SnapshotKnows
  <2>4. Knowledge([Snapshot(w, "acquire", status, row) EXCEPT !.lease = TRUE])
    <3>1. row.refundId # NoRefund => row.refundId \in Made
      BY BoundIsMade
    <3>. QED  BY <3>1 DEF Knowledge, Snapshot, Idle
  <2>. QED
    BY <2>2, <2>4, Zenon DEF requestDepositRefund, retryFailedDepositRefund, RefundPass1
<1>. QED  BY <1>1, <1>3, <1>4, StepKnown

LEMMA WorkKnown ==
  ASSUME Typed, Typed', Known, NEW w \in Worker, NEW e \in Epoch,
         Redispatch(w, e) \/ ReclaimWork(e)
  PROVE  Known'
<1>. DEFINE v == [Snapshot(w, "look", status, row) EXCEPT
                     !.on = e, !.claim = work[e].attempts + 1]
<1>1. UNCHANGED <<refund, row>>
  BY DEF Redispatch, ReclaimWork
<1>2. UNCHANGED worker \/ worker' = [worker EXCEPT ![w] = v]
  BY Zenon DEF Redispatch, ReclaimWork
<1>3. Knowledge(v)
  <2>1. row.refundId # NoRefund => row.refundId \in Made
    BY BoundIsMade
  <2>. QED  BY <2>1 DEF Knowledge, Snapshot, Idle
<1>. HIDE DEF v
<1>. QED  BY <1>1, <1>2, <1>3, UntouchedKnown, WorkerMovesKnown

\* NoCall and ProviderRetryable end in an idle worker.
LEMMA GivesUpKnown ==
  ASSUME Typed, Typed', Known, UNCHANGED refund, NEW w \in Worker,
         NoCall(w) \/ ProviderRetryable(w), RowMoves
  PROVE  Known'
<1>1. worker' = [worker EXCEPT ![w] = Idle]
  BY DEF NoCall, ProviderRetryable, Leaves
<1>. QED  BY <1>1, IdleKnows, StepKnown

LEMMA OpenKnown ==
  ASSUME Typed, Typed', Known, NEW w \in Worker, openSystemRefundIntent(w)
  PROVE  Known'
<1>. DEFINE v == [Later(w, "acquire") EXCEPT !.id = row.refundId, !.epoch = row.epoch]
<1>1. UNCHANGED refund /\ row \in DepositRow
  BY DEF openSystemRefundIntent, Typed, RefundTyped
<1>2. CASE row' = Requested(row, "system") /\ row.refundStatus = "null"
           /\ worker' = [worker EXCEPT ![w] = v]
  <2>1. row'.prior = row.prior /\ row'.refundId = row.refundId
    BY <1>1, <1>2 DEF Requested, DepositRow
  <2>2. row.refundId = NoRefund
    BY <1>2 DEF Known, BoundIsObserved, RefundState
  <2>3. Knowledge(v)
    BY <2>2 DEF Knowledge, Later, Idle
  <2>. HIDE DEF v
  <2>. QED  BY <1>1, <1>2, <2>1, <2>2, <2>3, RowStaysPut, StepKnown
<1>3. CASE UNCHANGED row /\ Leaves(w)
  BY <1>1, <1>3, LeavesKnown
<1>. QED  BY <1>2, <1>3 DEF openSystemRefundIntent

LEMMA AcquireKnown ==
  ASSUME Typed, Typed', Known, NEW w \in Worker, acquireRefundWork(w)
  PROVE  Known'
<1>. DEFINE v == [Later(w, "look") EXCEPT !.id = worker[w].id, !.on = worker[w].epoch,
                     !.claim = work[worker[w].epoch].attempts + 1]
<1>1. UNCHANGED <<refund, row>>
  BY DEF acquireRefundWork
<1>2. worker' = [worker EXCEPT ![w] = v] \/ Leaves(w)
  BY DEF acquireRefundWork
<1>3. Knowledge(v)
  <2>1. worker[w].id # NoRefund => worker[w].id \in Made
    BY DEF Known, WorkersKnow, Knowledge
  <2>. QED  BY <2>1 DEF Knowledge, Later, Idle
<1>. HIDE DEF v
<1>. QED  BY <1>1, <1>2, <1>3, WorkerMovesKnown, LeavesKnown

LEMMA LookUpKnown ==
  ASSUME Typed, Typed', Known, NEW w \in Worker, LookUpStored(w)
  PROVE  Known'
<1>. DEFINE r == worker[w].id
<1>1. UNCHANGED <<refund, row>>
  BY DEF LookUpStored
<1>2. CASE r # NoRefund /\ worker' = [worker EXCEPT ![w] =
                Found(w, IF r \in Live THEN "stamp" ELSE "retire", r, StatusOf(r))]
  <2>1. r \in Made
    BY <1>2 DEF Known, WorkersKnow, Knowledge
  <2>2. CASE r \in Live
    <3>1. Knowledge(Found(w, "stamp", r, StatusOf(r)))
      BY <2>1, StatusIsSeen, FoundKnows
    <3>. QED  BY <1>1, <1>2, <2>2, <3>1, WorkerMovesKnown
  <2>3. CASE r \notin Live
    <3>1. r \in Dead
      BY <2>1, <2>3 DEF Dead
    <3>2. Knowledge(Found(w, "retire", r, StatusOf(r)))
      BY <3>1 DEF Knowledge, Found, Later, Idle
    <3>. QED  BY <1>1, <1>2, <2>3, <3>2, WorkerMovesKnown
  <2>. QED  BY <2>2, <2>3
<1>3. CASE worker' = [worker EXCEPT ![w] = Later(w, "list")]
  BY <1>1, <1>3, LaterKnows, WorkerMovesKnown
<1>4. CASE NoCall(w) \/ ProviderRetryable(w)
  BY <1>1, <1>4, LeavesKnown DEF NoCall, ProviderRetryable
<1>. QED  BY <1>2, <1>3, <1>4 DEF LookUpStored

LEMMA RetireKnown ==
  ASSUME Typed, Typed', Known, NEW w \in Worker, retireStoredRefund(w)
  PROVE  Known'
<1>. DEFINE r == worker[w].got
            prior == row.prior \union {r}
            v == [Later(w, "list") EXCEPT !.dead = {r}]
<1>1. UNCHANGED refund /\ row \in DepositRow /\ worker' = [worker EXCEPT ![w] = v]
  BY DEF retireStoredRefund, Typed, RefundTyped
<1>2. r \in Dead
  BY DEF retireStoredRefund, Known, WorkersKnow, Knowledge
<1>3. Knowledge(v)
  BY <1>2 DEF Knowledge, Later, Idle
<1>4. RowMoves
  <2>. DEFINE failures == IF Cardinality(prior) > row.failures THEN Cardinality(prior)
                          ELSE row.failures
  <2>1. row' = row \/ row' = [row EXCEPT !.prior = prior,
                                 !.refundId = IF @ = r THEN NoRefund ELSE @,
                                 !.failures = failures]
    BY DEF retireStoredRefund
  <2>. HIDE DEF failures
  <2>2. /\ row'.prior \subseteq prior /\ row'.refundStatus = row.refundStatus
        /\ row'.refundId \in {row.refundId, NoRefund}
    BY <1>1, <2>1 DEF DepositRow
  <2>3. prior \subseteq Dead
    BY <1>2 DEF Known, RowMatchesStripe
  <2>. QED  BY <2>2, <2>3 DEF RowMoves
<1>. HIDE DEF v
<1>. QED  BY <1>1, <1>3, <1>4, StepKnown

LEMMA ListKnown ==
  ASSUME Typed, Typed', Known, NEW w \in Worker, ListRefunds(w)
  PROVE  Known'
<1>. DEFINE v == [Later(w, "corpses") EXCEPT !.dead = worker[w].dead \union Dead]
<1>1. UNCHANGED refund /\ row \in DepositRow
  BY DEF ListRefunds, Typed, RefundTyped
<1>2. RowMoves
  <2>1. row' = row \/ row' = [row EXCEPT !.attempts = @ + 1]
    BY DEF ListRefunds
  <2>2. row'.prior = row.prior /\ row'.refundId = row.refundId
        /\ row'.refundStatus = row.refundStatus
    BY <1>1, <2>1 DEF DepositRow
  <2>. QED  BY <2>2, RowStaysPut
<1>3. Knowledge(v)
  <2>1. worker[w].dead \subseteq Dead
    BY DEF Known, WorkersKnow, Knowledge
  <2>. QED  BY <2>1 DEF Knowledge, Later, Idle
<1>4. LiveFull # {} => Knowledge(AnyLiveFull(w))
  BY FoundKnows, StatusIsSeen, StripeFacts DEF AnyLiveFull, Typed, RefundTyped
<1>5. \/ worker' = [worker EXCEPT ![w] = Later(w, "partial")]
      \/ LiveFull # {} /\ worker' = [worker EXCEPT ![w] = AnyLiveFull(w)]
      \/ worker' = [worker EXCEPT ![w] = v]
      \/ NoCall(w) \/ ProviderRetryable(w)
  BY DEF ListRefunds
<1>. HIDE DEF v
<1>6. CASE worker' = [worker EXCEPT ![w] = Later(w, "partial")]
  BY <1>1, <1>2, <1>6, LaterKnows, StepKnown
<1>. QED  BY <1>1, <1>2, <1>3, <1>4, <1>5, <1>6, StepKnown, GivesUpKnown

LEMMA NotePartialKnown ==
  ASSUME Typed, Typed', Known, NEW w \in Worker, NotePartial(w)
  PROVE  Known'
<1>1. UNCHANGED refund /\ row \in DepositRow /\ row' = [row EXCEPT !.partial = TRUE]
      /\ worker' = [worker EXCEPT ![w] = Later(w, "finish")]
  BY DEF NotePartial, Typed, RefundTyped
<1>2. row'.prior = row.prior /\ row'.refundId = row.refundId
      /\ row'.refundStatus = row.refundStatus
  BY <1>1 DEF DepositRow
<1>3. Knowledge(Later(w, "finish"))
  BY LaterKnows
<1>. QED  BY <1>1, <1>2, <1>3, RowStaysPut, StepKnown

LEMMA CorpsesKnown ==
  ASSUME Typed, Typed', Known, NEW w \in Worker, recordListedRefundCorpses(w)
  PROVE  Known'
<1>. DEFINE prior == row.prior \union worker[w].dead
            failures == IF Cardinality(prior) > row.failures THEN Cardinality(prior)
                        ELSE row.failures
<1>1. /\ UNCHANGED refund /\ row \in DepositRow
      /\ row' = [row EXCEPT !.prior = prior, !.failures = failures]
      /\ worker' = [worker EXCEPT ![w] = Refreshed(w, "create", row')]
  BY DEF recordListedRefundCorpses, Typed, RefundTyped
<1>2. prior \subseteq Dead
  BY DEF Known, WorkersKnow, Knowledge, RowMatchesStripe
<1>3. Knowledge(Refreshed(w, "create", row'))
  BY DEF Knowledge, Refreshed, Later, Idle
<1>. HIDE DEF failures, prior
<1>4. row'.prior = prior /\ row'.refundId = row.refundId /\ row'.refundStatus = row.refundStatus
  BY <1>1 DEF DepositRow
<1>. QED  BY <1>1, <1>2, <1>3, <1>4, StepKnown DEF RowMoves

\* A call that Stripe did not get, or whose answer was lost.
LEMMA RestoredMoves ==
  ASSUME Typed, Known, row' = RestoredRow \/ UNCHANGED row
  PROVE  RowMoves
<1>1. row'.prior = row.prior /\ row'.refundId = row.refundId
      /\ row'.refundStatus = row.refundStatus
  BY DEF RestoredRow, DepositRow, Typed, RefundTyped
<1>. QED  BY <1>1, RowStaysPut

\* The refund is made, whether or not the answer comes back.
LEMMA MadeKnown ==
  ASSUME Typed, Typed', Known, NEW w \in Worker, NEW r \in Refund \ Made, NEW key,
         NEW st \in {"pending", "succeeded"}, NEW part, Creates(r, key, part, st),
         row' = RestoredRow \/ UNCHANGED row,
         worker' = [worker EXCEPT ![w] = Found(w, "stamp", r, st)] \/ Leaves(w)
  PROVE  Known'
<1>1. refund \in [Refund -> RefundObject] /\ worker \in [Worker -> Invocation]
  BY DEF Typed, RefundTyped, WorkerTyped
<1>2. \A u \in Refund : refund'[u] = IF u = r THEN [seen |-> {st}, key |-> key, part |-> part]
                                     ELSE refund[u]
  BY <1>1 DEF Creates
<1>3. Grows /\ BornAlive' /\ r \in Made'
  BY <1>1, <1>2 DEF Grows, BornAlive, Known, Made
<1>4. RowMatchesStripe' /\ BoundIsObserved'
  BY <1>3, RestoredMoves, RowStands DEF Known, Typed, RowMoves
<1>5. WorkersKnow'
  <2>1. CASE Leaves(w)
    BY <1>3, <2>1, IdleKnows, OneLearns DEF Leaves, Known, Typed
  <2>2. CASE worker' = [worker EXCEPT ![w] = Found(w, "stamp", r, st)]
    <3>1. ASSUME NEW u \in Worker, u # w
          PROVE  Knowledge(worker[u])'
      <4>1. worker'[u] = worker[u] /\ Knowledge(worker[u])
        BY <1>1, <2>2, <3>1 DEF Known, WorkersKnow
      <4>. QED  BY <1>3, <4>1, KnowledgeStands DEF Typed
    <3>2. Knowledge(worker[w])'
      <4>1. worker'[w] = Found(w, "stamp", r, st)
        BY <1>1, <2>2
      <4>2. /\ worker'[w].id = NoRefund /\ worker'[w].dead = {} /\ worker'[w].at = "stamp"
            /\ worker'[w].got = r /\ worker'[w].was = st
        BY <4>1 DEF Found, Later, Idle
      <4>3. refund'[r].seen = {st}
        BY <1>2
      <4>. QED  BY <1>3, <4>2, <4>3 DEF Knowledge
    <3>. QED  BY <3>1, <3>2 DEF WorkersKnow
  <2>. QED  BY <2>1, <2>2
<1>. QED  BY <1>3, <1>4, <1>5 DEF Known

LEMMA CreateKnown ==
  ASSUME Typed, Typed', Known, NEW w \in Worker, CreateRefund(w)
  PROVE  Known'
<1>. DEFINE key == buildRefundIdempotencyKey(w)
<1>1. \/ \E r \in Made : /\ worker' = [worker EXCEPT ![w] = Found(w, "stamp", r, Born(r))]
                         /\ UNCHANGED <<refund, row>>
      \/ \E r \in Refund \ Made : \E st \in {"pending", "succeeded"} :
            /\ Creates(r, key, LivePart # {}, st)
            /\ row' = RestoredRow \/ UNCHANGED row
            /\ worker' = [worker EXCEPT ![w] = Found(w, "stamp", r, st)] \/ Leaves(w)
      \/ \E v : worker' = [worker EXCEPT ![w] = v] /\ Knowledge(v)
                /\ (row' = RestoredRow \/ UNCHANGED row) /\ UNCHANGED refund
  <2>. HIDE DEF key
  <2>1. Knowledge(Later(w, "relist")) /\ Knowledge(Idle)
    BY LaterKnows, IdleKnows
  <2>2. \A disputed \in BOOLEAN : Knowledge(Refused(w, disputed))
    BY DEF Knowledge, Refused, Later, Idle
  <2>. QED
    BY <2>1, <2>2, Zenon DEF CreateRefund, Keyed, NoCall, ProviderRetryable, Leaves, key
<1>2. ASSUME NEW r \in Made, worker' = [worker EXCEPT ![w] = Found(w, "stamp", r, Born(r))],
             UNCHANGED <<refund, row>>
      PROVE  Known'
  <2>1. Knowledge(Found(w, "stamp", r, Born(r)))
    BY StatusIsSeen, FoundKnows DEF Known
  <2>. QED  BY <1>2, <2>1, WorkerMovesKnown
<1>3. ASSUME NEW r \in Refund \ Made, NEW st \in {"pending", "succeeded"},
             Creates(r, key, LivePart # {}, st),
             row' = RestoredRow \/ UNCHANGED row,
             worker' = [worker EXCEPT ![w] = Found(w, "stamp", r, st)] \/ Leaves(w)
      PROVE  Known'
  BY <1>3, MadeKnown
<1>4. ASSUME NEW v, worker' = [worker EXCEPT ![w] = v], Knowledge(v),
             row' = RestoredRow \/ UNCHANGED row, UNCHANGED refund
      PROVE  Known'
  BY <1>4, RestoredMoves, StepKnown
<1>. QED  BY <1>1, <1>2, <1>3, <1>4

LEMMA RelistKnown ==
  ASSUME Typed, Typed', Known, NEW w \in Worker, RelistRefunds(w)
  PROVE  Known'
<1>1. UNCHANGED refund /\ (row' = RestoredRow \/ UNCHANGED row)
  BY DEF RelistRefunds
<1>2. RowMoves
  BY <1>1, RestoredMoves
<1>3. LiveFull # {} => Knowledge(AnyLiveFull(w))
  BY FoundKnows, StatusIsSeen, StripeFacts DEF AnyLiveFull, Typed, RefundTyped
<1>4. Knowledge(Refused(w, TRUE))
  BY DEF Knowledge, Refused, Later, Idle
<1>5. \/ LiveFull # {} /\ worker' = [worker EXCEPT ![w] = AnyLiveFull(w)]
      \/ worker' = [worker EXCEPT ![w] = Refused(w, TRUE)]
      \/ NoCall(w) \/ ProviderRetryable(w)
  BY DEF RelistRefunds
<1>. QED  BY <1>1, <1>2, <1>3, <1>4, <1>5, StepKnown, GivesUpKnown

LEMMA RefusalKnown ==
  ASSUME Typed, Typed', Known, NEW w \in Worker, RecordRefusal(w)
  PROVE  Known'
<1>1. UNCHANGED refund /\ row \in DepositRow
      /\ worker' = [worker EXCEPT ![w] = Later(w, "finish")]
  BY DEF RecordRefusal, Typed, RefundTyped
<1>2. \/ UNCHANGED row
      \/ row.refundStatus = "requested"
         /\ row' = [row EXCEPT !.refundStatus = "failed", !.failures = @ + 1,
                               !.barred = worker[w].code]
  BY DEF RecordRefusal
<1>3. row'.prior = row.prior /\ row'.refundId = row.refundId
  BY <1>1, <1>2 DEF DepositRow
<1>4. row'.refundStatus = row.refundStatus \/ row.refundId = NoRefund
  BY <1>2 DEF Known, BoundIsObserved, RefundState
<1>5. Knowledge(Later(w, "finish"))
  BY LaterKnows
<1>. QED  BY <1>1, <1>3, <1>4, <1>5, RowStaysPut, StepKnown

LEMMA StampKnown ==
  ASSUME Typed, Typed', Known, NEW w \in Worker, stampDepositRefund(w)
  PROVE  Known'
<1>. DEFINE r == worker[w].got
            st == worker[w].was
<1>1. UNCHANGED refund
  BY DEF stampDepositRefund
<1>2. CASE Observes(r, st) /\ Leaves(w) /\ ~refund[r].part
  <2>1. /\ r \in Made /\ (st = "succeeded" => "succeeded" \in refund[r].seen)
        /\ (st = "failed" => r \in Dead)
    BY DEF stampDepositRefund, Known, WorkersKnow, Knowledge
  <2>2. st \in RefundState
    BY DEF Typed, RefundTyped, WorkerTyped, Invocation
  <2>3. RowMatchesStripe' /\ BoundIsObserved'
    BY <1>1, <1>2, <2>1, <2>2, ObservedIsSo
  <2>4. WorkersKnow'
    BY <1>1, <1>2, NothingGrows, IdleKnows, OneLearns DEF Leaves, Known, Typed
  <2>. QED  BY <1>1, <2>3, <2>4, KnownFrom
<1>3. CASE UNCHANGED row /\ Leaves(w)
  BY <1>1, <1>3, LeavesKnown
<1>4. CASE UNCHANGED row /\ worker' = [worker EXCEPT ![w] = Later(w, "finish")]
  BY <1>1, <1>4, LaterKnows, WorkerMovesKnown
<1>. QED  BY <1>2, <1>3, <1>4 DEF stampDepositRefund

LEMMA FinishKnown ==
  ASSUME Typed, Typed', Known, NEW w \in Worker, finalizeTerminalWork(w) \/ WorkerDies(w)
  PROVE  Known'
BY LeavesKnown DEF finalizeTerminalWork, WorkerDies

-----------------------------------------------------------------------------
(***************************************************************************)
(* Claims.  An attempt that reached nothing gives its number back, so the  *)
(* number alone does not name a worker.  What holds is that no working     *)
(* invocation's claim exceeds the row's number and no two are equal: the   *)
(* one that gives its number back leaves, and all the others are below it. *)
(***************************************************************************)

Claim(w) == worker[w].claim
Together(w, v) == Working(w) /\ Working(v) /\ worker[w].on = worker[v].on

Claims ==
    /\ \A w \in Worker : Working(w) => Claim(w) # 0 /\ Claim(w) <= work[worker[w].on].attempts
    /\ \A w, v \in Worker : w # v /\ Together(w, v) => Claim(w) # Claim(v)

LEMMA ClaimsAreExclusive ==
  ASSUME Claims
  PROVE  ClaimExclusive
BY DEF Claims, ClaimExclusive, Together, Claim, Holds

ClaimNumbers ==
    /\ \A w \in Worker : worker[w].claim \in Nat /\ worker[w].on \in Epoch
    /\ \A e \in Epoch : work[e].attempts \in Nat

LEMMA ClaimsTyped ==
  ASSUME Typed
  PROVE  ClaimNumbers
BY DEF Typed, RefundTyped, WorkerTyped, Invocation, WorkRow, ClaimNumbers

\* A worker goes on with its claim, or is not working.
LEMMA ClaimKept ==
  ASSUME Typed, Claims, UNCHANGED work, NEW w \in Worker, NEW v,
         worker' = [worker EXCEPT ![w] = v],
         \/ v.at \in {"idle", "restore", "reread", "open", "acquire"}
         \/ Working(w) /\ v.on = worker[w].on /\ v.claim = worker[w].claim
  PROVE  Claims'
<1>1. \A u \in Worker : worker'[u] = IF u = w THEN v ELSE worker[u]
  BY DEF Typed, RefundTyped, WorkerTyped
<1>2. ASSUME NEW u \in Worker, Working(u)'
      PROVE  Working(u) /\ worker'[u].on = worker[u].on /\ worker'[u].claim = worker[u].claim
  BY <1>1, <1>2 DEF Working
<1>. QED  BY <1>2 DEF Claims, Claim, Together

\* The row of an epoch counts up, and nobody claims it.
LEMMA ClaimCounts ==
  ASSUME Typed, Claims, UNCHANGED worker, NEW e \in Epoch, NEW r,
         work' = [work EXCEPT ![e] = r],
         r.attempts = work[e].attempts \/ r.attempts = work[e].attempts + 1
  PROVE  Claims'
<1>1. \A f \in Epoch : \/ work'[f].attempts = work[f].attempts
                       \/ work'[f].attempts = work[f].attempts + 1
  BY DEF Typed, RefundTyped
<1>2. ASSUME NEW u \in Worker, Working(u)
      PROVE  Claim(u) # 0 /\ Claim(u) <= work'[worker[u].on].attempts
  <2>1. Claim(u) # 0 /\ Claim(u) <= work[worker[u].on].attempts
    BY <1>2 DEF Claims
  <2>2. Claim(u) \in Nat /\ worker[u].on \in Epoch /\ work[worker[u].on].attempts \in Nat
    BY ClaimsTyped DEF ClaimNumbers, Claim
  <2>. QED  BY <1>1, <2>1, <2>2
<1>. QED  BY <1>2 DEF Claims, Claim, Together, Working

\* A new claim is above all the others.
LEMMA ClaimTaken ==
  ASSUME Typed, Claims, NEW w \in Worker, NEW e \in Epoch, NEW v, NEW r, ~Working(w),
         work' = [work EXCEPT ![e] = r], worker' = [worker EXCEPT ![w] = v],
         r.attempts = work[e].attempts + 1, v.on = e, v.claim = work[e].attempts + 1
  PROVE  Claims'
<1>1. \A u \in Worker : worker'[u] = IF u = w THEN v ELSE worker[u]
  BY DEF Typed, RefundTyped, WorkerTyped
<1>2. \A f \in Epoch : work'[f] = IF f = e THEN r ELSE work[f]
  BY DEF Typed, RefundTyped
<1>3. ASSUME NEW u \in Worker, Working(u)', u # w
      PROVE  /\ Working(u) /\ worker'[u] = worker[u]
             /\ worker[u].on = e => Claim(u) < work[e].attempts + 1
             /\ Claim(u) # 0 /\ Claim(u) <= work'[worker[u].on].attempts
  <2>1. Working(u) /\ worker'[u] = worker[u]
    BY <1>1, <1>3 DEF Working
  <2>2. Claim(u) # 0 /\ Claim(u) <= work[worker[u].on].attempts
    BY <2>1 DEF Claims
  <2>3. Claim(u) \in Nat /\ worker[u].on \in Epoch /\ work[worker[u].on].attempts \in Nat
    BY ClaimsTyped DEF ClaimNumbers, Claim
  <2>4. worker[u].on = e => Claim(u) < work[e].attempts + 1
    BY <2>2, <2>3
  <2>5. Claim(u) <= work'[worker[u].on].attempts
    BY <1>2, <2>2, <2>3
  <2>. QED  BY <2>1, <2>2, <2>4, <2>5
<1>4. worker'[w] = v /\ work'[e] = r /\ work[e].attempts \in Nat
  BY <1>1, <1>2, ClaimsTyped DEF ClaimNumbers
<1>5. ASSUME NEW u \in Worker, Working(u)'
      PROVE  Claim(u)' # 0 /\ Claim(u)' <= work'[worker'[u].on].attempts
  <2>1. CASE u = w
    BY <1>4, <2>1 DEF Claim
  <2>2. CASE u # w
    BY <1>3, <1>5, <2>2 DEF Claim
  <2>. QED  BY <2>1, <2>2
<1>6. ASSUME NEW u \in Worker, NEW x \in Worker, u # x, Together(u, x)'
      PROVE  Claim(u)' # Claim(x)'
  <2>1. Working(u)' /\ Working(x)' /\ worker'[u].on = worker'[x].on
    BY <1>6 DEF Together
  <2>2. CASE u # w /\ x # w
    BY <1>3, <1>6, <2>1, <2>2 DEF Claims, Claim, Together
  <2>3. CASE u = w
    <3>1. Claim(x) < work[e].attempts + 1 /\ Claim(x)' = Claim(x) /\ Claim(x) \in Nat
      BY <1>3, <1>4, <1>6, <2>1, <2>3, ClaimsTyped DEF Claim, ClaimNumbers
    <3>. QED  BY <1>4, <2>3, <3>1 DEF Claim
  <2>4. CASE x = w
    <3>1. Claim(u) < work[e].attempts + 1 /\ Claim(u)' = Claim(u) /\ Claim(u) \in Nat
      BY <1>3, <1>4, <1>6, <2>1, <2>4, ClaimsTyped DEF Claim, ClaimNumbers
    <3>. QED  BY <1>4, <2>4, <3>1 DEF Claim
  <2>. QED  BY <2>2, <2>3, <2>4
<1>. QED  BY <1>5, <1>6 DEF Claims

\* The holder of the claim closes the work, or gives its number back.
LEMMA ClaimClosed ==
  ASSUME Typed, Claims, NEW w \in Worker, Working(w), NEW outcome, NEW n \in Nat,
         Finalizes(w, outcome, n), Leaves(w),
         n = Claim(w) \/ n = Claim(w) - 1
  PROVE  Claims'
<1>. DEFINE e == worker[w].on
<1>1. \A u \in Worker : worker'[u] = IF u = w THEN Idle ELSE worker[u]
  BY DEF Typed, RefundTyped, WorkerTyped, Leaves
<1>2. e \in Epoch /\ Claim(w) \in Nat
  BY ClaimsTyped DEF ClaimNumbers, Claim
<1>3. \A f \in Epoch : work'[f].attempts = IF Holds(w) /\ f = e THEN n ELSE work[f].attempts
  BY <1>2 DEF Typed, RefundTyped, Finalizes
<1>4. ASSUME NEW u \in Worker, Working(u)'
      PROVE  /\ Working(u) /\ worker'[u] = worker[u] /\ u # w
             /\ Claim(u) # 0 /\ Claim(u) <= work'[worker[u].on].attempts
  <2>1. Working(u) /\ worker'[u] = worker[u] /\ u # w
    BY <1>1, <1>4 DEF Working, Idle
  <2>2. Claim(u) # 0 /\ Claim(u) <= work[worker[u].on].attempts
    BY <2>1 DEF Claims
  <2>3. Claim(u) \in Nat /\ worker[u].on \in Epoch
    BY ClaimsTyped DEF ClaimNumbers, Claim
  <2>4. CASE Holds(w) /\ worker[u].on = e
    <3>1. work[e].attempts = Claim(w)
      BY <2>4 DEF Holds, Claim
    <3>2. Claim(u) # Claim(w)
      BY <2>1, <2>4 DEF Claims, Together
    <3>3. Claim(u) <= Claim(w)
      BY <2>2, <2>4, <3>1
    <3>4. Claim(u) <= n
      BY <1>2, <2>3, <3>2, <3>3
    <3>5. work'[worker[u].on].attempts = n
      BY <1>2, <1>3, <2>4
    <3>. QED  BY <2>1, <2>2, <3>4, <3>5
  <2>5. CASE ~(Holds(w) /\ worker[u].on = e)
    BY <1>3, <2>1, <2>2, <2>3, <2>5
  <2>. QED  BY <2>4, <2>5
<1>5. ASSUME NEW u \in Worker, NEW x \in Worker, u # x, Together(u, x)'
      PROVE  Claim(u)' # Claim(x)'
  <2>1. Working(u)' /\ Working(x)'
    BY <1>5 DEF Together
  <2>2. Together(u, x) /\ worker'[u] = worker[u] /\ worker'[x] = worker[x]
    BY <1>4, <1>5, <2>1 DEF Together
  <2>. QED  BY <1>5, <2>2 DEF Claims, Claim
<1>. QED  BY <1>4, <1>5 DEF Claims, Claim

LEMMA GivesUpClaim ==
  ASSUME Typed, Claims, NEW w \in Worker, Working(w), NoCall(w) \/ ProviderRetryable(w)
  PROVE  Claims'
<1>1. Claim(w) \in Nat /\ Claim(w) # 0
  BY ClaimsTyped DEF ClaimNumbers, Claims, Claim
<1>2. LessOne(worker[w].claim) = Claim(w) - 1 /\ Claim(w) - 1 \in Nat
  BY <1>1 DEF LessOne, Claim
<1>3. CASE NoCall(w)
  BY <1>2, <1>3, ClaimClosed DEF NoCall
<1>4. CASE ProviderRetryable(w)
  BY <1>1, <1>4, ClaimClosed DEF ProviderRetryable, Claim
<1>. QED  BY <1>3, <1>4

\* The steps that leave the claims alone: the worker ends, is not yet at work
\* or keeps what it has.
Resting == {"idle", "restore", "reread", "open", "acquire"}

LEMMA LaterHasClaim ==
  ASSUME NEW w, NEW step
  PROVE  /\ Later(w, step).on = worker[w].on /\ Later(w, step).claim = worker[w].claim
         /\ Later(w, step).at = step
BY DEF Later, Idle

LEMMA FoundHasClaim ==
  ASSUME NEW w, NEW step, NEW r, NEW st
  PROVE  /\ Found(w, step, r, st).on = worker[w].on
         /\ Found(w, step, r, st).claim = worker[w].claim
BY DEF Found, Later, Idle

LEMMA SnapshotRests ==
  ASSUME NEW w, NEW step, NEW st, NEW r
  PROVE  Snapshot(w, step, st, r).at = step
BY DEF Snapshot, Idle

LEMMA LeavesClaim ==
  ASSUME Typed, Claims, UNCHANGED work, NEW w \in Worker, Leaves(w)
  PROVE  Claims'
<1>1. Idle.at = "idle"
  BY DEF Idle
<1>. QED  BY <1>1, ClaimKept DEF Leaves

LEMMA EntersCoreClaim ==
  ASSUME Typed, Claims, UNCHANGED work, NEW w \in Worker, EntersCore(w)
  PROVE  Claims'
<1>1. Snapshot(w, CoreStep(row), status, row).at \in {"open", "acquire"}
  BY SnapshotRests DEF CoreStep
<1>. QED  BY <1>1, ClaimKept DEF EntersCore

LEMMA GoesClaim ==
  ASSUME Typed, Claims, UNCHANGED work, NEW w \in Worker, NEW step \in Resting,
         Goes(w, step)
  PROVE  Claims'
<1>. DEFINE v == [worker[w] EXCEPT !.at = step]
<1>1. worker' = [worker EXCEPT ![w] = v]
  BY DEF Goes
<1>2. v.at = step
  BY DEF Typed, RefundTyped, WorkerTyped, Invocation
<1>. HIDE DEF v
<1>. QED  BY <1>1, <1>2, ClaimKept DEF Resting

LEMMA RecoveryClaim ==
  ASSUME Typed, Claims, NEW w \in Worker, RecoveryStep(w)
  PROVE  Claims'
<1>1. UNCHANGED work
  BY DEF RecoveryStep, EvidenceTooLate, LateCheck, Restore, Reread
<1>2. \/ EntersCore(w) \/ Leaves(w) \/ UNCHANGED worker
      \/ \E step \in Resting : Goes(w, step)
  BY DEF RecoveryStep, EvidenceTooLate, LateCheck, Restore, Reread, Recovers, Resting
<1>3. CASE UNCHANGED worker
  BY <1>1, <1>3 DEF Claims, Claim, Together, Working
<1>. QED  BY <1>1, <1>2, <1>3, EntersCoreClaim, LeavesClaim, GoesClaim

LEMMA EntryClaim ==
  ASSUME Typed, Claims, NEW w \in Worker,
         requestDepositRefund(w) \/ retryFailedDepositRefund(w) \/ RefundPass1(w)
  PROVE  Claims'
<1>1. UNCHANGED work
  BY DEF requestDepositRefund, retryFailedDepositRefund, RefundPass1
<1>2. CASE requestDepositRefund(w) \/ retryFailedDepositRefund(w)
  <2>1. worker' = [worker EXCEPT ![w] = Snapshot(w, "acquire", status, row')]
    BY <1>2 DEF requestDepositRefund, retryFailedDepositRefund
  <2>2. Snapshot(w, "acquire", status, row').at = "acquire"
    BY DEF Snapshot, Idle
  <2>. QED  BY <1>1, <2>1, <2>2, ClaimKept
<1>3. CASE RefundPass1(w)
  <2>. DEFINE v == [Snapshot(w, "acquire", status, row) EXCEPT !.lease = TRUE]
  <2>1. worker' = [worker EXCEPT ![w] = v]
    BY <1>3 DEF RefundPass1
  <2>2. v.at = "acquire"
    BY DEF Snapshot, Idle
  <2>. HIDE DEF v
  <2>. QED  BY <1>1, <2>1, <2>2, ClaimKept
<1>. QED  BY <1>2, <1>3

LEMMA WorkClaim ==
  ASSUME Typed, Claims, NEW w \in Worker, NEW e \in Epoch, Redispatch(w, e) \/ ReclaimWork(e)
  PROVE  Claims'
<1>1. CASE ReclaimWork(e)
  <2>. DEFINE r == [work[e] EXCEPT !.status = "retryable"]
  <2>1. work' = [work EXCEPT ![e] = r] /\ UNCHANGED worker
    BY <1>1 DEF ReclaimWork
  <2>2. r.attempts = work[e].attempts
    BY DEF Typed, RefundTyped, WorkRow
  <2>. HIDE DEF r
  <2>. QED  BY <2>1, <2>2, ClaimCounts
<1>2. CASE Redispatch(w, e) /\ UNCHANGED worker
      /\ work' = [work EXCEPT ![e] = [status |-> "poisoned", attempts |-> work[e].attempts + 1]]
  <2>. DEFINE r == [status |-> "poisoned", attempts |-> work[e].attempts + 1]
  <2>1. work' = [work EXCEPT ![e] = r] /\ r.attempts = work[e].attempts + 1
    BY <1>2
  <2>. HIDE DEF r
  <2>. QED  BY <1>2, <2>1, ClaimCounts
<1>3. ASSUME Redispatch(w, e), ~Working(w),
        work' = [work EXCEPT ![e] = [status |-> "processing", attempts |-> work[e].attempts + 1]],
        worker' = [worker EXCEPT ![w] =
                      [Snapshot(w, "look", status, row) EXCEPT
                          !.on = e, !.claim = work[e].attempts + 1]]
      PROVE Claims'
  <2>. DEFINE r == [status |-> "processing", attempts |-> work[e].attempts + 1]
              v == [Snapshot(w, "look", status, row) EXCEPT
                       !.on = e, !.claim = work[e].attempts + 1]
  <2>1. /\ work' = [work EXCEPT ![e] = r] /\ worker' = [worker EXCEPT ![w] = v]
        /\ r.attempts = work[e].attempts + 1
    BY <1>3
  <2>2. v.on = e /\ v.claim = work[e].attempts + 1
    BY DEF Snapshot, Idle
  <2>. HIDE DEF r, v
  <2>. QED  BY <1>3, <2>1, <2>2, ClaimTaken
<1>4. ASSUME Redispatch(w, e)
      PROVE ~Working(w)
  BY <1>4 DEF Redispatch, Busy, Working
<1>. QED  BY <1>1, <1>2, <1>3, <1>4 DEF Redispatch

LEMMA AcquireClaim ==
  ASSUME Typed, Claims, NEW w \in Worker, acquireRefundWork(w)
  PROVE  Claims'
<1>. DEFINE e == worker[w].epoch
            r == [status |-> "processing", attempts |-> work[e].attempts + 1]
            v == [Later(w, "look") EXCEPT !.id = worker[w].id, !.on = e,
                                          !.claim = work[e].attempts + 1]
<1>1. e \in Epoch /\ ~Working(w)
  BY DEF Typed, RefundTyped, WorkerTyped, Invocation, acquireRefundWork, Working
<1>2. v.on = e /\ v.claim = work[e].attempts + 1 /\ r.attempts = work[e].attempts + 1
  BY DEF Later, Idle
<1>3. \/ work' = [work EXCEPT ![e] = r] /\ worker' = [worker EXCEPT ![w] = v]
      \/ Leaves(w) /\ UNCHANGED work
  BY DEF acquireRefundWork
<1>. HIDE DEF e, r, v
<1>. QED  BY <1>1, <1>2, <1>3, ClaimTaken, LeavesClaim

\* Within the core a worker goes on with its claim, gives up or is done.
Carries(w, v) == v.on = worker[w].on /\ v.claim = worker[w].claim
Carried(w) ==
    /\ UNCHANGED work
    /\ \/ Leaves(w)
       \/ \E v : Carries(w, v) /\ worker' = [worker EXCEPT ![w] = v]

LEMMA CarriedClaim ==
  ASSUME Typed, Claims, NEW w \in Worker, Working(w), Carried(w)
  PROVE  Claims'
<1>1. CASE Leaves(w)
  BY <1>1, LeavesClaim DEF Carried
<1>2. ASSUME NEW v, Carries(w, v), worker' = [worker EXCEPT ![w] = v]
      PROVE  Claims'
  BY <1>2, ClaimKept DEF Carried, Carries
<1>. QED  BY <1>1, <1>2 DEF Carried

LEMMA VariantsCarry ==
  ASSUME NEW w \in Worker
  PROVE  /\ \A step : Carries(w, Later(w, step))
         /\ \A step, d : Carries(w, [Later(w, step) EXCEPT !.dead = d])
         /\ \A step, r, st : Carries(w, Found(w, step, r, st))
         /\ \A disputed : Carries(w, Refused(w, disputed))
         /\ \A step, r : Carries(w, Refreshed(w, step, r))
         /\ Carries(w, AnyLiveFull(w))
<1>1. \A step : Carries(w, Later(w, step))
  BY DEF Carries, Later, Idle
<1>2. \A step, d : Carries(w, [Later(w, step) EXCEPT !.dead = d])
  BY DEF Carries, Later, Idle
<1>3. \A step, r, st : Carries(w, Found(w, step, r, st))
  BY DEF Carries, Found, Later, Idle
<1>4. \A disputed : Carries(w, Refused(w, disputed))
  BY DEF Carries, Refused, Later, Idle
<1>5. \A step, r : Carries(w, Refreshed(w, step, r))
  BY DEF Carries, Refreshed, Later, Idle
<1>. QED  BY <1>1, <1>2, <1>3, <1>4, <1>5 DEF AnyLiveFull

LEMMA CoreClaim ==
  ASSUME Typed, Claims, NEW w \in Worker, CoreStepOf(w) \/ WorkerDies(w)
  PROVE  Claims'
<1>1. CASE openSystemRefundIntent(w)
  <2>1. CASE Leaves(w)
    BY <1>1, <2>1, LeavesClaim DEF openSystemRefundIntent
  <2>2. ASSUME worker' = [worker EXCEPT ![w] = [Later(w, "acquire") EXCEPT
                                             !.id = row.refundId, !.epoch = row.epoch]]
        PROVE Claims'
    <3>. DEFINE v == [Later(w, "acquire") EXCEPT !.id = row.refundId, !.epoch = row.epoch]
    <3>1. v.at = "acquire" /\ worker' = [worker EXCEPT ![w] = v]
      BY <2>2 DEF Later, Idle
    <3>. HIDE DEF v
    <3>. QED  BY <1>1, <3>1, ClaimKept DEF openSystemRefundIntent
  <2>. QED  BY <1>1, <2>1, <2>2 DEF openSystemRefundIntent
<1>2. CASE acquireRefundWork(w)
  BY <1>2, AcquireClaim
<1>3. CASE LookUpStored(w)
  <2>1. Working(w)
    BY <1>3 DEF LookUpStored, Working
  <2>2. Carried(w) \/ NoCall(w) \/ ProviderRetryable(w)
    BY <1>3, VariantsCarry DEF LookUpStored, Carried
  <2>. QED  BY <2>1, <2>2, CarriedClaim, GivesUpClaim
<1>4. CASE retireStoredRefund(w)
  <2>1. Working(w)
    BY <1>4 DEF retireStoredRefund, Working
  <2>2. Carried(w)
    BY <1>4, VariantsCarry DEF retireStoredRefund, Carried
  <2>. QED  BY <2>1, <2>2, CarriedClaim
<1>5. CASE ListRefunds(w)
  <2>1. Working(w)
    BY <1>5 DEF ListRefunds, Working
  <2>2. Carried(w) \/ NoCall(w) \/ ProviderRetryable(w)
    BY <1>5, VariantsCarry DEF ListRefunds, Carried
  <2>. QED  BY <2>1, <2>2, CarriedClaim, GivesUpClaim
<1>6. CASE NotePartial(w)
  <2>1. Working(w)
    BY <1>6 DEF NotePartial, Working
  <2>2. Carried(w)
    BY <1>6, VariantsCarry DEF NotePartial, Carried
  <2>. QED  BY <2>1, <2>2, CarriedClaim
<1>7. CASE recordListedRefundCorpses(w)
  <2>1. Working(w)
    BY <1>7 DEF recordListedRefundCorpses, Working
  <2>2. Carries(w, Refreshed(w, "create", row'))
    BY DEF Carries, Refreshed, Later, Idle
  <2>3. Carried(w)
    BY <1>7, <2>2 DEF recordListedRefundCorpses, Carried
  <2>. QED  BY <2>1, <2>3, CarriedClaim
<1>8. CASE CreateRefund(w)
  <2>1. Working(w)
    BY <1>8 DEF CreateRefund, Working
  <2>2. Carried(w) \/ NoCall(w) \/ ProviderRetryable(w)
    BY <1>8, VariantsCarry DEF CreateRefund, Carried
  <2>. QED  BY <2>1, <2>2, CarriedClaim, GivesUpClaim
<1>9. CASE RelistRefunds(w)
  <2>1. Working(w)
    BY <1>9 DEF RelistRefunds, Working
  <2>2. Carried(w) \/ NoCall(w) \/ ProviderRetryable(w)
    BY <1>9, VariantsCarry DEF RelistRefunds, Carried
  <2>. QED  BY <2>1, <2>2, CarriedClaim, GivesUpClaim
<1>10. CASE RecordRefusal(w)
  <2>1. Working(w)
    BY <1>10 DEF RecordRefusal, Working
  <2>2. Carried(w)
    BY <1>10, VariantsCarry DEF RecordRefusal, Carried
  <2>. QED  BY <2>1, <2>2, CarriedClaim
<1>11. CASE stampDepositRefund(w)
  <2>1. Working(w) /\ Claim(w) \in Nat
    BY <1>11, ClaimsTyped DEF stampDepositRefund, Working, ClaimNumbers, Claim
  <2>2. Carried(w) \/ (Finalizes(w, "processed", worker[w].claim) /\ Leaves(w))
    BY <1>11, VariantsCarry DEF stampDepositRefund, Carried
  <2>. QED  BY <2>1, <2>2, CarriedClaim, ClaimClosed DEF Claim
<1>12. CASE finalizeTerminalWork(w)
  <2>1. Working(w) /\ Claim(w) \in Nat
    BY <1>12, ClaimsTyped DEF finalizeTerminalWork, Working, ClaimNumbers, Claim
  <2>. QED  BY <1>12, <2>1, ClaimClosed DEF Claim, finalizeTerminalWork
<1>13. CASE WorkerDies(w)
  BY <1>13, LeavesClaim DEF WorkerDies
<1>. QED  BY <1>1, <1>2, <1>3, <1>4, <1>5, <1>6, <1>7, <1>8, <1>9, <1>10, <1>11, <1>12,
             <1>13 DEF CoreStepOf

LEMMA ElsewhereClaim ==
  ASSUME Claims, UNCHANGED <<work, worker>>
  PROVE  Claims'
BY DEF Claims, Claim, Together, Working

-----------------------------------------------------------------------------
(***************************************************************************)
(* Control.  While the hold waits nothing of a refund has begun, and       *)
(* whatever has begun goes back to a session that was paid; before the     *)
(* booking request has answered there is no session.                       *)
(***************************************************************************)

Begun == \/ row.refundStatus # "null" \/ intentStored = TRUE
         \/ \E w \in Worker : Busy(w)
         \/ \E e \in Epoch : work[e].status # "none"

WaitingIsFresh == status = "checkout_created" => ~Begun
MoneyBegins == Begun \/ Made # {} \/ status \in {"paid", "refunded"} => session = "paid"
CreatingIsFirst == checkout = "creating" => session = "none"

Control == HoldPair /\ SlotExclusive /\ WaitingIsFresh /\ MoneyBegins /\ CreatingIsFirst

LEMMA ControlFrame ==
  ASSUME UNCHANGED <<refundVars, intentStored>>
  PROVE  Begun' = Begun /\ Made' = Made
BY DEF refundVars, Begun, Made, Busy

\* The steps of the hold that move neither row nor the rival.
LEMMA SessionControl ==
  ASSUME Control, UNCHANGED <<refundVars, intentStored>>,
         UNCHANGED <<appt, rival, status>>,
         session = "paid" => session' = "paid",
         checkout' = "creating" => checkout = "creating" /\ session' = session
  PROVE  Control'
<1>1. Begun' = Begun /\ Made' = Made
  BY ControlFrame
<1>2. HoldPair' /\ SlotExclusive'
  BY DEF Control, HoldPair, SlotExclusive, Blocks
<1>3. WaitingIsFresh' /\ MoneyBegins' /\ CreatingIsFirst'
  BY <1>1 DEF Control, WaitingIsFresh, MoneyBegins, CreatingIsFirst
<1>. QED  BY <1>2, <1>3 DEF Control

\* The steps that end, book or cancel a hold, or that move the rival.
LEMMA BookControl ==
  ASSUME Control, UNCHANGED <<refundVars, session>>,
         HoldPair', SlotExclusive',
         status' = "checkout_created" => status = "checkout_created",
         \/ /\ UNCHANGED intentStored
            /\ status' \in {"paid", "refunded"} => status \in {"paid", "refunded"}
         \/ status' = "paid" /\ session = "paid",
         checkout' = "creating" => checkout = "creating"
  PROVE  Control'
<1>1. CASE /\ UNCHANGED intentStored
           /\ status' \in {"paid", "refunded"} => status \in {"paid", "refunded"}
  <2>1. Begun' = Begun /\ Made' = Made
    BY <1>1, ControlFrame
  <2>2. WaitingIsFresh' /\ MoneyBegins' /\ CreatingIsFirst'
    BY <1>1, <2>1 DEF Control, WaitingIsFresh, MoneyBegins, CreatingIsFirst
  <2>. QED  BY <2>2 DEF Control
<1>2. CASE status' = "paid" /\ session = "paid"
  BY <1>2 DEF Control, WaitingIsFresh, MoneyBegins, CreatingIsFirst
<1>. QED  BY <1>1, <1>2

LEMMA ExpiredFacts ==
  /\ Expired("paid") = "paid" /\ Expired("none") = "none"
BY DEF Expired

LEMMA HoldControl ==
  ASSUME Typed, Control, HoldStep
  PROVE  Control'
<1>. USE DEF bookingVars, moneyVars, actorVars
<1>0. UNCHANGED refundVars
  BY DEF HoldStep
<1>1. CASE Tick
  BY <1>0, <1>1, SessionControl DEF Tick
<1>2. CASE ClientSubmits
  <2>1. checkout # "creating"
    BY <1>2 DEF ClientSubmits, Control, CreatingIsFirst
  <2>. QED  BY <1>0, <1>2, <2>1, SessionControl DEF ClientSubmits
<1>3. CASE PaymentSettles
  <2>1. checkout # "creating"
    BY <1>3 DEF PaymentSettles, Control, CreatingIsFirst
  <2>. QED  BY <1>0, <1>3, <2>1, SessionControl DEF PaymentSettles
<1>4. CASE PaymentDeclined
  <2>1. checkout # "creating"
    BY <1>4 DEF PaymentDeclined, Control, CreatingIsFirst
  <2>. QED  BY <1>0, <1>4, <2>1, SessionControl DEF PaymentDeclined
<1>5. CASE SessionLapses
  <2>1. checkout # "creating"
    BY <1>5 DEF SessionLapses, Control, CreatingIsFirst
  <2>. QED  BY <1>0, <1>5, <2>1, SessionControl DEF SessionLapses
<1>6. CASE RivalBooks
  <2>1. HoldPair' /\ SlotExclusive'
    BY <1>6 DEF RivalBooks, Control, HoldPair, SlotExclusive, Blocks
  <2>. QED  BY <1>0, <1>6, <2>1, BookControl DEF RivalBooks
<1>7. CASE RivalLeaves
  <2>1. HoldPair' /\ SlotExclusive'
    BY <1>7 DEF RivalLeaves, Control, HoldPair, SlotExclusive, Blocks
  <2>. QED  BY <1>0, <1>7, <2>1, BookControl DEF RivalLeaves
<1>8. CASE BookingCancelled
  <2>1. HoldPair' /\ SlotExclusive'
    BY <1>8 DEF BookingCancelled, Control, HoldPair, SlotExclusive, Blocks
  <2>. QED  BY <1>0, <1>8, <2>1, BookControl DEF BookingCancelled
<1>9. CASE BookingReactivated
  <2>1. HoldPair' /\ SlotExclusive'
    BY <1>9 DEF BookingReactivated, Control, HoldPair, SlotExclusive, Blocks
  <2>. QED  BY <1>0, <1>9, <2>1, BookControl DEF BookingReactivated
<1>10. CASE CreateSession
  <2>1. session # "paid" /\ checkout' # "creating"
    BY <1>10 DEF CreateSession, Control, CreatingIsFirst
  <2>. QED  BY <1>0, <1>10, <2>1, SessionControl DEF CreateSession
<1>11. CASE StoreSession
  BY <1>0, <1>11, SessionControl DEF StoreSession
<1>12. ASSUME NEW outcome \in {"expired", "canceled"}, EndHold(outcome)
       PROVE  /\ HoldPair' /\ (UNCHANGED rival => SlotExclusive')
              /\ status' = "checkout_created" => status = "checkout_created"
              /\ status' \in {"paid", "refunded"} => status \in {"paid", "refunded"}
  BY <1>12 DEF EndHold, Control, HoldPair, SlotExclusive, Blocks
<1>13. CASE CancelRefusedHold
  <2>1. EndHold("canceled") /\ UNCHANGED <<rival, session, intentStored>> /\ checkout' = "done"
    BY <1>13 DEF CancelRefusedHold
  <2>. QED  BY <1>0, <1>12, <2>1, BookControl
<1>14. CASE ReaperPicks
  BY <1>0, <1>14, SessionControl DEF ReaperPicks
<1>15. CASE ReaperProbes
  BY <1>0, <1>15, SessionControl DEF ReaperProbes
<1>16. CASE ReaperExpires
  <2>1. UNCHANGED <<appt, rival, status, intentStored, checkout>>
    BY <1>16 DEF ReaperExpires
  <2>2. session' = Expired(session) \/ UNCHANGED session
    BY <1>16 DEF ReaperExpires
  <2>3. /\ session = "paid" => session' = "paid"
        /\ checkout' = "creating" => checkout = "creating" /\ session' = session
    BY <2>1, <2>2, ExpiredFacts DEF Control, CreatingIsFirst
  <2>. QED  BY <1>0, <2>1, <2>3, SessionControl
<1>17. CASE ReaperLooks
  BY <1>0, <1>17, SessionControl DEF ReaperLooks
<1>18. CASE ReaperFinalizes
  <2>1. EndHold("expired") /\ UNCHANGED <<rival, session, intentStored, checkout>>
    BY <1>18 DEF ReaperFinalizes
  <2>. QED  BY <1>0, <1>12, <2>1, BookControl
<1>19. CASE DeskPrepares
  <2>1. /\ UNCHANGED <<appt, rival, status, intentStored, checkout>>
        /\ session # "paid" /\ session' = Expired(session)
    BY <1>19 DEF DeskPrepares
  <2>2. checkout' = "creating" => checkout = "creating" /\ session' = session
    BY <2>1, ExpiredFacts DEF Control, CreatingIsFirst
  <2>. QED  BY <1>0, <2>1, <2>2, SessionControl
<1>20. CASE DeskGivesUp
  BY <1>0, <1>20, SessionControl DEF DeskGivesUp
<1>21. CASE waiveDeposit
  <2>1. /\ HoldPair' /\ SlotExclusive' /\ status' \in {status, "waived"}
        /\ UNCHANGED <<session, intentStored, checkout>>
    BY <1>21 DEF waiveDeposit, DeskWrites, HoldLive, Control, HoldPair, SlotExclusive, Blocks
  <2>. QED  BY <1>0, <2>1, BookControl
<1>22. CASE releaseHold
  <2>1. /\ HoldPair' /\ SlotExclusive' /\ status' \in {status, "canceled"}
        /\ UNCHANGED <<session, intentStored, checkout>>
    BY <1>22 DEF releaseHold, DeskWrites, HoldLive, Control, HoldPair, SlotExclusive, Blocks
  <2>. QED  BY <1>0, <2>1, BookControl
<1>23. CASE ConfirmHold
  <2>1. /\ HoldPair' /\ SlotExclusive' /\ status' = "paid" /\ session = "paid"
        /\ UNCHANGED <<session, checkout>>
    BY <1>23 DEF ConfirmHold, Evidence, HoldLive, Control, HoldPair, SlotExclusive, Blocks
  <2>. QED  BY <1>0, <2>1, BookControl
<1>24. CASE ConfirmSettled
  <2>1. /\ HoldPair' /\ SlotExclusive' /\ status' = "paid" /\ session = "paid"
        /\ UNCHANGED <<session, checkout>>
    BY <1>24 DEF ConfirmSettled, Evidence, Control, HoldPair, SlotExclusive, Blocks
  <2>. QED  BY <1>0, <2>1, BookControl
<1>. QED  BY <1>1, <1>2, <1>3, <1>4, <1>5, <1>6, <1>7, <1>8, <1>9, <1>10, <1>11, <1>13,
             <1>14, <1>15, <1>16, <1>17, <1>18, <1>19, <1>20, <1>21, <1>22, <1>23,
             <1>24 DEF HoldStep, HoldNext

\* Nothing of a refund moves the hold, and it starts only from money.
LEMMA MoneyControl ==
  ASSUME Control, UNCHANGED rowVars, session = "paid", status # "checkout_created",
         status' \in {status, "refunded"}
  PROVE  Control'
BY DEF Control, rowVars, holdVars, actorVars, HoldPair, SlotExclusive, Blocks, WaitingIsFresh,
       MoneyBegins, CreatingIsFirst

LEMMA BegunIsPaid ==
  ASSUME Control, Begun \/ status \in {"paid", "refunded"}
  PROVE  session = "paid" /\ status # "checkout_created"
BY DEF Control, WaitingIsFresh, MoneyBegins

LEMMA StripeControl ==
  ASSUME Typed, Control, StripeStep
  PROVE  Control'
<1>1. UNCHANGED <<rowVars, status, row, work, worker>>
  BY DEF StripeStep, RefundMoves, DashboardRefund
<1>2. session = "paid"
  <2>1. CASE RefundMoves
    <3>1. Made # {}
      BY <2>1 DEF RefundMoves, Live
    <3>. QED  BY <3>1 DEF Control, MoneyBegins
  <2>2. CASE DashboardRefund
    BY <2>2 DEF DashboardRefund
  <2>. QED  BY <2>1, <2>2 DEF StripeStep
<1>3. Begun' = Begun
  BY <1>1 DEF Begun, Busy, rowVars
<1>. QED  BY <1>1, <1>2, <1>3
     DEF Control, rowVars, holdVars, actorVars, HoldPair, SlotExclusive, Blocks,
         WaitingIsFresh, MoneyBegins, CreatingIsFirst

LEMMA ObservesStatus ==
  ASSUME NEW r, NEW st, Observes(r, st)
  PROVE  status' \in {status, "refunded"}
BY DEF Observes

LEMMA ObservationControl ==
  ASSUME Typed, Control, ObservationStep
  PROVE  Control'
<1>1. UNCHANGED rowVars
  BY DEF ObservationStep
<1>2. CASE RefundWebhook
  <2>1. Begun
    BY <1>2 DEF RefundWebhook, Begun
  <2>2. status' \in {status, "refunded"}
    BY <1>2, ObservesStatus DEF RefundWebhook
  <2>. QED  BY <1>1, <2>1, <2>2, BegunIsPaid, MoneyControl
<1>3. CASE RetrieveBound
  <2>1. Begun
    BY <1>3 DEF RetrieveBound, Begun
  <2>2. status' \in {status, "refunded"}
    BY <1>3, ObservesStatus DEF RetrieveBound
  <2>. QED  BY <1>1, <2>1, <2>2, BegunIsPaid, MoneyControl
<1>4. CASE Discover
  <2>1. Begun \/ status \in {"paid", "refunded"}
    BY <1>4 DEF Discover, Begun
  <2>2. status' \in {status, "refunded"}
    BY <1>4, ObservesStatus DEF Discover
  <2>. QED  BY <1>1, <2>1, <2>2, BegunIsPaid, MoneyControl
<1>. QED  BY <1>2, <1>3, <1>4 DEF ObservationStep

LEMMA RecoveryControl ==
  ASSUME Typed, Control, NEW w \in Worker, RecoveryStep(w)
  PROVE  Control'
<1>1. UNCHANGED <<holdVars, row, refund, work, intentStored>> /\ Made' = Made
  BY DEF RecoveryStep, EvidenceTooLate, LateCheck, Restore, Reread, Made
<1>2. ASSUME session = "paid", status # "checkout_created",
             UNCHANGED <<appt, status>>
      PROVE Control'
  BY <1>1, <1>2 DEF Control, holdVars, actorVars, HoldPair, SlotExclusive, Blocks,
     WaitingIsFresh, MoneyBegins, CreatingIsFirst
<1>3. CASE EvidenceTooLate(w)
  <2>1. session = "paid" /\ appt # "awaiting_payment" /\ UNCHANGED <<appt, status>>
    BY <1>3 DEF EvidenceTooLate, Evidence
  <2>. QED  BY <1>2, <2>1 DEF Control, HoldPair
<1>4. CASE LateCheck(w) /\ session = "paid"
  BY <1>2, <1>4 DEF LateCheck
<1>5. CASE LateCheck(w) /\ session # "paid"
  <2>1. UNCHANGED <<worker, appt, status>>
    BY <1>5 DEF LateCheck
  <2>2. Begun' = Begun
    BY <1>1, <2>1 DEF Begun, Busy
  <2>. QED  BY <1>1, <2>1, <2>2
       DEF Control, holdVars, actorVars, HoldPair, SlotExclusive, Blocks, WaitingIsFresh,
           MoneyBegins, CreatingIsFirst
<1>6. CASE Restore(w)
  <2>1. session = "paid" /\ status # "checkout_created"
    <3>1. Begun
      BY <1>6 DEF Restore, Begun, Busy
    <3>. QED  BY <3>1, BegunIsPaid
  <2>2. CASE UNCHANGED <<appt, status>>
    BY <1>2, <2>1, <2>2
  <2>3. CASE ~rival /\ appt' = "booked" /\ status' = "paid"
    BY <1>1, <2>1, <2>3
    DEF Control, holdVars, actorVars, HoldPair, SlotExclusive, Blocks, WaitingIsFresh,
        MoneyBegins, CreatingIsFirst
  <2>. QED  BY <1>6, <2>2, <2>3 DEF Restore
<1>7. CASE Reread(w)
  <2>1. session = "paid" /\ status # "checkout_created"
    <3>1. Begun
      BY <1>7 DEF Reread, Begun, Busy
    <3>. QED  BY <3>1, BegunIsPaid
  <2>. QED  BY <1>2, <1>7, <2>1 DEF Reread
<1>. QED  BY <1>3, <1>4, <1>5, <1>6, <1>7 DEF RecoveryStep

LEMMA RefundControl ==
  ASSUME Typed, Control, NEW w \in Worker, RefundStep(w)
  PROVE  Control'
<1>1. UNCHANGED rowVars
  BY DEF RefundStep
<1>2. /\ Begun \/ status = "paid"
      /\ status' \in {status, "refunded"}
  <2>1. CASE requestDepositRefund(w)
    BY <2>1 DEF requestDepositRefund
  <2>2. CASE retryFailedDepositRefund(w) \/ RefundPass1(w)
    BY <2>2 DEF retryFailedDepositRefund, RefundPass1, Begun
  <2>3. ASSUME NEW e \in Epoch, Redispatch(w, e) \/ ReclaimWork(e)
        PROVE  Begun /\ UNCHANGED status
    <3>1. work[e].status # "none" /\ UNCHANGED status
      BY <2>3 DEF Redispatch, ReclaimWork, Stale
    <3>. QED  BY <3>1 DEF Begun
  <2>4. CASE CoreStepOf(w)
    <3>1. worker[w].at # "idle"
      BY <2>4 DEF CoreStepOf, openSystemRefundIntent, acquireRefundWork, LookUpStored,
         retireStoredRefund, ListRefunds, NotePartial, recordListedRefundCorpses,
         CreateRefund, RelistRefunds, RecordRefusal, stampDepositRefund, finalizeTerminalWork
    <3>2. ASSUME stampDepositRefund(w)
          PROVE  status' \in {status, "refunded"}
      BY <3>2, ObservesStatus DEF stampDepositRefund
    <3>3. ASSUME ~stampDepositRefund(w)
          PROVE  UNCHANGED status
      BY <2>4, <3>3 DEF CoreStepOf, openSystemRefundIntent, acquireRefundWork, LookUpStored,
         retireStoredRefund, ListRefunds, NotePartial, recordListedRefundCorpses,
         CreateRefund, RelistRefunds, RecordRefusal, finalizeTerminalWork
    <3>. QED  BY <3>1, <3>2, <3>3 DEF Begun, Busy
  <2>5. CASE WorkerDies(w)
    BY <2>5 DEF WorkerDies, Begun
  <2>. QED  BY <2>1, <2>2, <2>3, <2>4, <2>5 DEF RefundStep
<1>. QED  BY <1>1, <1>2, BegunIsPaid, MoneyControl

-----------------------------------------------------------------------------
(***************************************************************************)
(* The invariant, from either beginning.                                   *)
(***************************************************************************)

IInv == Typed /\ Known /\ Claims /\ Control

\* A working invocation that retires or stamps a refund has got one.
LEMMA GotIsRefund ==
  ASSUME Typed, Known, NEW w \in Worker, worker[w].at \in {"retire", "stamp"}
  PROVE  worker[w].got \in Refund
BY DEF Known, WorkersKnow, Knowledge, Made, Dead

LEMMA CoreStepParts ==
  ASSUME Typed, Known, NEW w \in Worker, CoreStepOf(w) \/ WorkerDies(w)
  PROVE  Parts
<1>1. CASE retireStoredRefund(w)
  BY <1>1, GotIsRefund, RetireTyped DEF retireStoredRefund
<1>2. CASE stampDepositRefund(w)
  BY <1>2, GotIsRefund, StampTyped DEF stampDepositRefund
<1>. QED  BY <1>1, <1>2, OpenTyped, AcquireTyped, LookUpTyped, ListTyped, NotePartialTyped,
             CorpsesTyped, CreateTyped, RelistTyped, RefusalTyped, FinishTyped DEF CoreStepOf

LEMMA RefundStepTyped ==
  ASSUME Typed, Known, NEW w \in Worker, RefundStep(w)
  PROVE  Typed'
<1>1. Parts /\ UNCHANGED rowVars
  BY EntryTyped, WorkTyped, CoreStepParts DEF RefundStep
<1>2. RefundTyped'
  BY <1>1 DEF Parts, RefundTyped
<1>. QED  BY <1>1, <1>2, RefundFrameTyped DEF Parts

LEMMA RefundStepKnown ==
  ASSUME Typed, Typed', Known, NEW w \in Worker, RefundStep(w)
  PROVE  Known'
BY EntryKnown, WorkKnown, OpenKnown, AcquireKnown, LookUpKnown, RetireKnown, ListKnown,
   NotePartialKnown, CorpsesKnown, CreateKnown, RelistKnown, RefusalKnown, StampKnown,
   FinishKnown DEF RefundStep, CoreStepOf

LEMMA RefundStepClaim ==
  ASSUME Typed, Claims, NEW w \in Worker, RefundStep(w)
  PROVE  Claims'
BY EntryClaim, WorkClaim, CoreClaim DEF RefundStep

LEMMA StripeIsElsewhere ==
  ASSUME StripeStep \/ ObservationStep
  PROVE  UNCHANGED <<work, worker>>
BY DEF StripeStep, ObservationStep, RefundMoves, DashboardRefund, RefundWebhook, RetrieveBound,
       Discover

LEMMA HoldStepAll ==
  ASSUME IInv, HoldStep
  PROVE  IInv'
<1>1. HoldNext /\ UNCHANGED <<lateChecked, row, refund, work, worker>>
  BY DEF HoldStep, refundVars
<1>2. Typed'
  BY <1>1, HoldStepTyped DEF IInv, Typed, RefundTyped, WorkerTyped
<1>3. Known' /\ Claims'
  BY <1>1, UntouchedKnown, ElsewhereClaim DEF IInv
<1>4. Control'
  BY HoldControl DEF IInv
<1>. QED  BY <1>2, <1>3, <1>4 DEF IInv

LEMMA Inductive ==
  ASSUME IInv, [Next]_vars
  PROVE  IInv'
<1>1. CASE HoldStep
  BY <1>1, HoldStepAll
<1>2. CASE StripeStep
  <2>1. Typed'
    BY <1>2, StripeStepTyped DEF IInv
  <2>. QED  BY <1>2, <2>1, StripeKnown, StripeIsElsewhere, ElsewhereClaim, StripeControl DEF IInv
<1>3. CASE ObservationStep
  <2>1. Typed'
    BY <1>3, ObservationTyped DEF IInv
  <2>. QED  BY <1>3, <2>1, ObservationKnown, StripeIsElsewhere, ElsewhereClaim,
               ObservationControl DEF IInv
<1>4. ASSUME NEW w \in Worker, RecoveryStep(w)
      PROVE  IInv'
  <2>1. Typed'
    BY <1>4, RecoveryTyped DEF IInv
  <2>. QED  BY <1>4, <2>1, RecoveryKnown, RecoveryClaim, RecoveryControl DEF IInv
<1>5. ASSUME NEW w \in Worker, RefundStep(w)
      PROVE  IInv'
  <2>1. Typed'
    BY <1>5, RefundStepTyped DEF IInv
  <2>. QED  BY <1>5, <2>1, RefundStepKnown, RefundStepClaim, RefundControl DEF IInv
<1>6. CASE UNCHANGED vars
  <2>1. /\ UNCHANGED <<appt, rival, clock, session, checkout, reaper, desk, status>>
        /\ UNCHANGED <<sessionStored, intentStored, faults>>
        /\ UNCHANGED <<lateChecked, row, refund, work, worker>>
    BY <1>6 DEF vars, refundVars
  <2>2. Typed'
    BY <2>1 DEF IInv, Typed, HoldTypeOK, RefundTyped, WorkerTyped
  <2>3. Known' /\ Claims'
    BY <2>1, UntouchedKnown, ElsewhereClaim DEF IInv
  <2>4. Control'
    BY <2>1, SessionControl DEF IInv, refundVars
  <2>. QED  BY <2>2, <2>3, <2>4 DEF IInv
<1>. QED  BY <1>1, <1>2, <1>3, <1>4, <1>5, <1>6 DEF Next

LEMMA RefundStarts ==
  ASSUME RefundInit
  PROVE  /\ RefundTyped /\ Known /\ Claims
         /\ Made = {} /\ (Begun <=> intentStored = TRUE)
<1>. USE DEF RefundInit, NullRow, NotMade, NoWork
<1>1. 1 \in Epoch
  BY LimitsAssumption DEF Epoch
<1>2. /\ row \in DepositRow /\ lateChecked \in BOOLEAN
      /\ refund \in [Refund -> RefundObject] /\ work \in [Epoch -> WorkRow]
  BY <1>1 DEF DepositRow, RefundObject, WorkRow, NoKey
<1>3. WorkerTyped
  BY IdleTyped DEF WorkerTyped
<1>4. Made = {}
  BY DEF Made
<1>5. \A w \in Worker : worker[w] = Idle /\ worker[w].at = "idle"
  BY DEF Idle
<1>6. Known
  BY <1>4, <1>5, IdleKnows
  DEF Known, BornAlive, WorkersKnow, RowMatchesStripe, BoundIsObserved, Dead
<1>7. Claims
  BY <1>5 DEF Claims, Together, Working
<1>8. Begun <=> intentStored = TRUE
  BY <1>5 DEF Begun, Busy
<1>. QED  BY <1>2, <1>3, <1>4, <1>6, <1>7, <1>8 DEF RefundTyped

LEMMA Starts ==
  ASSUME Init \/ Settled
  PROVE  IInv
<1>1. RefundTyped /\ Known /\ Claims /\ Made = {} /\ (Begun <=> intentStored = TRUE)
  BY RefundStarts DEF Init, Settled
<1>0. NoReaper \in [at : {"idle", "probe", "expire", "get", "finalize"}, past : BOOLEAN]
  BY DEF NoReaper
<1>2. CASE Init
  <2>1. HoldTypeOK
    <3>1. rival \in BOOLEAN /\ sessionStored \in BOOLEAN /\ intentStored \in BOOLEAN
      BY <1>2, Zenon DEF Init, HoldInit
    <3>2. faults \in 0..MaxFaults
      BY <1>2, MaxFaultsAssumption DEF Init, HoldInit
    <3>3. reaper = NoReaper
      BY <1>2 DEF Init, HoldInit
    <3>. QED  BY <1>0, <1>2, <3>1, <3>2, <3>3
         DEF Init, HoldInit, HoldTypeOK, Appointment, Instant, Session, DepositStatus
  <2>2. Control
    BY <1>1, <1>2 DEF Init, HoldInit, Control, HoldPair, SlotExclusive, WaitingIsFresh,
       MoneyBegins, CreatingIsFirst
  <2>. QED  BY <1>1, <2>1, <2>2 DEF IInv, Typed
<1>3. CASE Settled
  <2>1. status \in {"paid", "expired", "canceled", "waived"}
    BY <1>3, EndedAssumption DEF Settled
  <2>2. intentStored \in BOOLEAN
    BY <1>3, Zenon DEF Settled
  <2>3. HoldTypeOK
    <3>1. rival \in BOOLEAN /\ sessionStored \in BOOLEAN
      BY <1>3, Zenon DEF Settled
    <3>2. faults \in 0..MaxFaults
      BY <1>3, MaxFaultsAssumption DEF Settled
    <3>3. reaper = NoReaper
      BY <1>3 DEF Settled
    <3>. QED  BY <1>0, <1>3, <2>1, <2>2, <3>1, <3>2, <3>3
         DEF Settled, HoldTypeOK, Appointment, Instant, Session, DepositStatus
  <2>4. Control
    BY <1>1, <1>3, <2>1 DEF Settled, Control, HoldPair, SlotExclusive, Blocks, WaitingIsFresh,
       MoneyBegins, CreatingIsFirst
  <2>. QED  BY <1>1, <2>3, <2>4 DEF IInv, Typed
<1>. QED  BY <1>2, <1>3

LEMMA Invariant ==
  /\ Spec => []IInv
  /\ SettledSpec => []IInv
BY Starts, Inductive, PTL DEF Spec, SettledSpec

-----------------------------------------------------------------------------
(* The theorems, of Spec and of SettledSpec.                               *)

\* The appointment, the deposit row, Stripe's refunds, the write-ahead rows
\* and the invocations keep their types: among others no key epoch passes
\* the limit retryFailedDepositRefund reads, and no attempt count goes below 0.
THEOREM TypesHold ==
  /\ Spec => []TypeOK
  /\ SettledSpec => []TypeOK
<1>1. IInv => TypeOK
  BY RefundTypes DEF IInv, Typed, TypeOK
<1>. QED  BY <1>1, Invariant, PTL

\* finalizeExpiredHold, cancelHoldAfterDefiniteCheckoutFailure, the owner's
\* waive and release, confirmDepositPayment and restoreReleasedHold all move
\* the appointment and its deposit together, however their steps interleave.
THEOREM HoldsArePairs ==
  /\ Spec => []HoldPair
  /\ SettledSpec => []HoldPair
<1>1. IInv => HoldPair
  BY DEF IInv, Control
<1>. QED  BY <1>1, Invariant, PTL

\* Late recovery and reactivation never take a slot that is booked again.
THEOREM SlotsAreExclusive ==
  /\ Spec => []SlotExclusive
  /\ SettledSpec => []SlotExclusive
<1>1. IInv => SlotExclusive
  BY DEF IInv, Control
<1>. QED  BY <1>1, Invariant, PTL

\* Nothing is marked paid or refunded, and createOrAdoptDepositRefund creates
\* nothing, for a session that was not paid.
THEOREM RealMoney ==
  /\ Spec => []MoneyIsReal
  /\ SettledSpec => []MoneyIsReal
<1>1. IInv => MoneyIsReal
  BY DEF IInv, Control, MoneyBegins, MoneyIsReal
<1>. QED  BY <1>1, Invariant, PTL

\* Whatever order observations, stamps, corpses, retirements and retries come
\* in, the refund columns say only what is so at Stripe.
THEOREM RowsMatchStripe ==
  /\ Spec => []RowMatchesStripe
  /\ SettledSpec => []RowMatchesStripe
<1>1. IInv => RowMatchesStripe
  BY DEF IInv, Known
<1>. QED  BY <1>1, Invariant, PTL

\* A request that is out is bound to no refund object.
THEOREM RequestsAreUnbound ==
  /\ Spec => []RequestedIsUnbound
  /\ SettledSpec => []RequestedIsUnbound
<1>1. IInv => RequestedIsUnbound
  BY DEF IInv, Known, BoundIsObserved, RequestedIsUnbound, RefundState
<1>. QED  BY <1>1, Invariant, PTL

\* The claim on an epoch's write-ahead row has one holder, for any number of
\* workers and however often leases are overtaken.
THEOREM OneClaimant ==
  /\ Spec => []ClaimExclusive
  /\ SettledSpec => []ClaimExclusive
<1>1. IInv => ClaimExclusive
  BY ClaimsAreExclusive DEF IInv
<1>. QED  BY <1>1, Invariant, PTL

\* A recorded payment is overwritten by nothing but its refund.
THEOREM PaymentsStand ==
  /\ Spec => PaidStands
  /\ SettledSpec => PaidStands
<1>. DEFINE Stands == status = "paid" => status' \in {"paid", "refunded"}
<1>1. ASSUME HoldStep
      PROVE  Stands
  BY <1>1 DEF HoldStep, HoldNext, Tick, ClientSubmits, PaymentSettles, PaymentDeclined,
     SessionLapses, RivalBooks, RivalLeaves, BookingCancelled, BookingReactivated,
     CreateSession, StoreSession, CancelRefusedHold, ReaperPicks, ReaperProbes,
     ReaperExpires, ReaperLooks, ReaperFinalizes, EndHold, DeskPrepares, DeskGivesUp,
     waiveDeposit, releaseHold, DeskWrites, HoldLive, ConfirmHold, ConfirmSettled, moneyVars
<1>2. ASSUME StripeStep
      PROVE  Stands
  BY <1>2 DEF StripeStep
<1>3. ASSUME ObservationStep
      PROVE  Stands
  BY <1>3 DEF ObservationStep, RefundWebhook, RetrieveBound, Discover, Observes
<1>4. ASSUME NEW w \in Worker, RecoveryStep(w)
      PROVE  Stands
  BY <1>4 DEF RecoveryStep, EvidenceTooLate, LateCheck, Restore, Reread
<1>5. ASSUME NEW w \in Worker, RefundStep(w)
      PROVE  Stands
  <2>1. CASE stampDepositRefund(w)
    BY <2>1, ObservesStatus DEF stampDepositRefund
  <2>2. CASE ~stampDepositRefund(w)
    BY <1>5, <2>2 DEF RefundStep, CoreStepOf, requestDepositRefund, retryFailedDepositRefund,
       RefundPass1, Redispatch, ReclaimWork, openSystemRefundIntent, acquireRefundWork,
       LookUpStored, retireStoredRefund, ListRefunds, NotePartial, recordListedRefundCorpses,
       CreateRefund, RelistRefunds, RecordRefusal, finalizeTerminalWork, WorkerDies
  <2>. QED  BY <2>1, <2>2
<1>6. [Next]_vars => [Stands]_vars
  BY <1>1, <1>2, <1>3, <1>4, <1>5 DEF Next
<1>. QED  BY <1>6, PTL DEF Spec, SettledSpec, PaidStands
=============================================================================
