-------------------- MODULE CommunicationDispatchProofs --------------------
(***************************************************************************)
(* Type correctness of the pipeline, and that it asks the provider at most *)
(* once per intent, for any number of intents, workers and attempts.       *)
(***************************************************************************)
EXTENDS CommunicationDispatch, TLAPS

(***************************************************************************)
(* How the shared steps of a worker keep its state typed.                  *)
(***************************************************************************)
WorkersTyped == worker \in [Worker -> WorkerState]
IntentsTyped == intent \in [Intent -> IntentRow]
HoldsTyped == reservation \in [Hold -> ReservationRow]
DeliveriesTyped == delivery \in [Job -> DeliveryRow]

LEMMA GotoTyped ==
  ASSUME WorkersTyped, NEW w \in Worker, NEW pc \in Pc, Goto(w, pc)
  PROVE WorkersTyped'
BY DEF WorkersTyped, Goto, WorkerState

LEMMA IdleTyped == Idle \in WorkerState
BY DEF Idle, WorkerState, Pc, StopReason

LEMMA FinishTyped ==
  ASSUME WorkersTyped, NEW w \in Worker, Finish(w)
  PROVE WorkersTyped'
<1> DEFINE rest == [worker[w] EXCEPT !.pc = "batch", !.job = NoJob, !.hold = NoHold,
                                     !.reason = "none"]
<1>1. rest \in WorkerState
  BY DEF WorkersTyped, WorkerState, Pc, StopReason
<1> HIDE DEF rest
<1>2. worker' = [worker EXCEPT ![w] = IF worker[w].todo = {} THEN Idle ELSE rest]
  BY DEF Finish, rest
<1> QED
  BY <1>1, <1>2, IdleTyped DEF WorkersTyped

LEMMA DismissTyped ==
  ASSUME WorkersTyped, NEW w \in Worker, NEW d, Dismiss(w, d)
  PROVE WorkersTyped'
<1>1. Without(w, d) \in WorkerState
  BY DEF WorkersTyped, WorkerState, Without
<1> QED
  BY <1>1, IdleTyped DEF WorkersTyped, Dismiss

LEMMA StopTyped ==
  ASSUME WorkersTyped, NEW w \in Worker, NEW reason \in StopReason, Stop(w, reason)
  PROVE WorkersTyped'
<1> DEFINE stopped == [worker[w] EXCEPT !.pc = "release", !.reason = reason]
<1>1. stopped \in WorkerState
  BY DEF WorkersTyped, WorkerState, Pc
<1> HIDE DEF stopped
<1>2. worker' = [worker EXCEPT ![w] = stopped]
  BY DEF Stop, stopped, WorkersTyped, WorkerState
<1> QED
  BY <1>1, <1>2 DEF WorkersTyped

LEMMA BeginTyped ==
  ASSUME WorkersTyped, NEW w \in Worker, NEW d \in Job
  PROVE Begin(w, d) \in WorkerState
BY DEF WorkersTyped, Begin, Without, WorkerState

LEMMA TransitionTyped ==
  ASSUME IntentsTyped, NEW i, NEW to \in IntentStatus, TransitionIntent(i, to)
  PROVE IntentsTyped'
BY DEF IntentsTyped, IntentRow, TransitionIntent

LEMMA ReleasedTyped ==
  ASSUME HoldsTyped, NEW r
  PROVE /\ Released(r) \in [Hold -> ReservationRow]
        /\ Settled(r) \in [Hold -> ReservationRow]
        /\ Refunded(r) \in [Hold -> ReservationRow]
BY DEF HoldsTyped, ReservationRow, Released, Settled, Refunded

LEMMA MarkedTyped ==
  ASSUME DeliveriesTyped, NEW d, NEW from, NEW to \in {"settled", "refunded"}
  PROVE Marked(d, from, to) \in [Job -> DeliveryRow]
BY DEF DeliveriesTyped, DeliveryRow, Marked

LEMMA JobsTyped ==
  ASSUME IntentsTyped, NEW i \in Intent
  PROVE JobOf(i) \in Job
<1>1. intent[i].attempts \in 0..MaxAttempts /\ 0 \in 0..MaxAttempts
  BY TimeAssumption DEF IntentsTyped, IntentRow
<1> QED
  BY <1>1 DEF JobOf, Job

(***************************************************************************)
(* Type correctness, one action after the other.                           *)
(***************************************************************************)
CallbacksTyped == callback \in [Job -> {"none", "refund", "mark"}]
ProviderTyped ==
  provider \in [Job -> [requests : Nat, fate : {"none", "accepted", "refused", "lost",
                                                "delivered", "failed"}]]

LEMMA TypeParts ==
  TypeOK <=> /\ now \in 0..MaxTime
             /\ IntentsTyped /\ DeliveriesTyped /\ HoldsTyped
             /\ ProviderTyped /\ WorkersTyped /\ CallbacksTyped
BY DEF TypeOK, IntentsTyped, DeliveriesTyped, HoldsTyped, ProviderTyped, WorkersTyped,
       CallbacksTyped

LEMMA TypePartsNext ==
  ASSUME now' \in 0..MaxTime, IntentsTyped', DeliveriesTyped', HoldsTyped',
         ProviderTyped', WorkersTyped', CallbacksTyped'
  PROVE TypeOK'
BY DEF TypeOK, IntentsTyped, DeliveriesTyped, HoldsTyped, ProviderTyped, WorkersTyped,
       CallbacksTyped

LEMMA UnchangedTyped ==
  /\ IntentsTyped /\ UNCHANGED intent => IntentsTyped'
  /\ DeliveriesTyped /\ UNCHANGED delivery => DeliveriesTyped'
  /\ HoldsTyped /\ UNCHANGED reservation => HoldsTyped'
  /\ ProviderTyped /\ UNCHANGED provider => ProviderTyped'
  /\ WorkersTyped /\ UNCHANGED worker => WorkersTyped'
  /\ CallbacksTyped /\ UNCHANGED callback => CallbacksTyped'
BY DEF IntentsTyped, DeliveriesTyped, HoldsTyped, ProviderTyped, WorkersTyped, CallbacksTyped

LEMMA InitTyped == Init => TypeOK
BY IdleTyped, TimeAssumption
   DEF Init, TypeOK, IntentRow, IntentStatus, NoIntent, DeliveryRow, NoDelivery, Rank,
       ReservationRow, NoReservation, NoRequest

LEMMA ProducerTyped ==
  ASSUME TypeOK, NEW i \in Intent,
         \/ EnqueueCommunicationIntent(i)
         \/ CancelAppointmentIntents(i)
         \/ ReleaseBlockedIntentsAfterTopup(i)
         \/ RecoverClaimed(i)
         \/ ParkSending(i)
         \/ ExpireStaleIntents(i)
         \/ ResolverAdopts(i)
  PROVE TypeOK'
<1>1. now \in Nat /\ ScheduledFor[i] \in Nat
  BY IntentAssumption, TimeAssumption DEF TypeOK
<1>2. IntentsTyped'
  <2>1. CASE EnqueueCommunicationIntent(i)
    <3>1. [NoIntent EXCEPT !.status = "pending", !.availableAt = ScheduledFor[i]] \in IntentRow
      <4>1. NoIntent \in IntentRow
        BY TimeAssumption DEF NoIntent, IntentRow, IntentStatus
      <4> QED
        BY <1>1, <4>1 DEF IntentRow, IntentStatus
    <3> QED
      BY <2>1, <3>1, TypeParts DEF EnqueueCommunicationIntent, IntentsTyped
  <2>2. CASE CancelAppointmentIntents(i)
    BY <2>2, TypeParts DEF CancelAppointmentIntents, IntentsTyped, IntentRow, IntentStatus
  <2>3. CASE ReleaseBlockedIntentsAfterTopup(i)
    BY <1>1, <2>3, TypeParts
       DEF ReleaseBlockedIntentsAfterTopup, IntentsTyped, IntentRow, IntentStatus
  <2>4. CASE RecoverClaimed(i)
    <3>1. [intent[i] EXCEPT !.status = "pending", !.lease = 0, !.availableAt = now] \in IntentRow
      BY <1>1, TypeParts DEF IntentsTyped, IntentRow, IntentStatus
    <3> QED
      BY <1>1, <2>4, <3>1, TypeParts DEF RecoverClaimed, IntentsTyped, IntentRow
  <2>5. CASE ParkSending(i)
    BY <2>5, TypeParts DEF ParkSending, IntentsTyped, IntentRow, IntentStatus
  <2>6. CASE ExpireStaleIntents(i)
    BY <2>6, TypeParts DEF ExpireStaleIntents, IntentsTyped, IntentRow, IntentStatus
  <2>7. CASE ResolverAdopts(i)
    BY <2>7, TypeParts DEF ResolverAdopts, IntentsTyped, IntentRow, IntentStatus
  <2> QED
    BY <2>1, <2>2, <2>3, <2>4, <2>5, <2>6, <2>7
<1>3. UNCHANGED <<now, delivery, reservation, provider, worker, callback>>
  BY DEF EnqueueCommunicationIntent, CancelAppointmentIntents, ReleaseBlockedIntentsAfterTopup,
         RecoverClaimed, ParkSending, ExpireStaleIntents, ResolverAdopts
<1> QED
  BY <1>2, <1>3, TypeParts, TypePartsNext, UnchangedTyped

LEMMA HoldSweepTyped ==
  ASSUME TypeOK, NEW i, NEW r,
         ReapExpiredReservations(r) \/ ResolverSettles(i)
  PROVE TypeOK'
<1>1. HoldsTyped'
  BY ReleasedTyped, TypeParts DEF ReapExpiredReservations, ResolverSettles, HoldsTyped
<1>2. UNCHANGED <<now, intent, delivery, provider, worker, callback>>
  BY DEF ReapExpiredReservations, ResolverSettles
<1> QED
  BY <1>1, <1>2, TypeParts, TypePartsNext, UnchangedTyped

LEMMA TickTyped == TypeOK /\ Tick => TypeOK'
BY TypeParts, TypePartsNext, UnchangedTyped, TimeAssumption DEF Tick

LEMMA PickTyped ==
  ASSUME TypeOK, NEW w \in Worker, NEW t \in 0..now, PickDueIntents(w, t)
  PROVE TypeOK'
<1>0. PICK n \in SalonLimits :
        worker' = [worker EXCEPT ![w] = [Idle EXCEPT !.pc = "claim", !.now = t,
                     !.todo = (UNION {First(n, s, t) : s \in Salon}) \X {0}]]
  BY DEF PickDueIntents
<1> DEFINE picked == UNION {First(n, s, t) : s \in Salon}
           started == [Idle EXCEPT !.pc = "claim", !.now = t, !.todo = picked \X {0}]
<1>1. picked \subseteq Intent
  BY DEF First, Due
<1>2. picked \X {0} \subseteq Job
  BY <1>1, TimeAssumption DEF Job
<1>3. started \in WorkerState
  <2> HIDE DEF picked
  <2>1. t \in Nat
    BY TypeParts, TimeAssumption
  <2> QED
    BY <1>2, <2>1, IdleTyped DEF WorkerState, Pc
<1>4. worker' = [worker EXCEPT ![w] = started]
  BY <1>0
<1>5. WorkersTyped'
  <2> HIDE DEF started
  <2> QED
    BY <1>3, <1>4, TypeParts DEF WorkersTyped
<1>6. UNCHANGED <<now, intent, delivery, reservation, provider, callback>>
  BY DEF PickDueIntents
<1> QED
  BY <1>5, <1>6, TypeParts, TypePartsNext, UnchangedTyped

LEMMA ClaimTyped ==
  ASSUME TypeOK, NEW w \in Worker, ClaimDueIntents(w)
  PROVE TypeOK'
<1> DEFINE won == {i \in Intent : <<i, 0>> \in worker[w].todo /\ intent[i].status = "pending"}
           loading == [worker[w] EXCEPT !.pc = "load", !.todo = won \X {0}]
<1>1. \A i \in won : Claimed(worker[w].now, i) \in IntentRow
  <2> SUFFICES ASSUME NEW i \in Intent, i \in won
               PROVE Claimed(worker[w].now, i) \in IntentRow
    OBVIOUS
  <2>1. intent[i].attempts + 1 \in 0..MaxAttempts
    BY TypeParts, TimeAssumption DEF ClaimDueIntents, IntentsTyped, IntentRow
  <2>2. worker[w].now + LeaseTTL \in Nat
    BY TypeParts, TimeAssumption DEF WorkersTyped, WorkerState
  <2> QED
    BY <2>1, <2>2, TypeParts DEF Claimed, IntentsTyped, IntentRow, IntentStatus
<1>2. IntentsTyped'
  <2>1. intent' = [i \in Intent |-> IF i \in won THEN Claimed(worker[w].now, i) ELSE intent[i]]
    BY DEF ClaimDueIntents
  <2> HIDE DEF won
  <2> QED
    BY <1>1, <2>1, TypeParts DEF IntentsTyped
<1>3. loading \in WorkerState
  <2>1. won \X {0} \subseteq Job
    BY TimeAssumption DEF Job
  <2> HIDE DEF won
  <2> QED
    BY <2>1, TypeParts DEF WorkersTyped, WorkerState, Pc
<1>4. worker' = [worker EXCEPT ![w] = IF won = {} THEN Idle ELSE loading]
  BY DEF ClaimDueIntents
<1>5. WorkersTyped'
  <2> HIDE DEF loading, won
  <2> QED
    BY <1>3, <1>4, IdleTyped, TypeParts DEF WorkersTyped
<1>6. UNCHANGED <<now, delivery, reservation, provider, callback>>
  BY DEF ClaimDueIntents
<1> QED
  BY <1>2, <1>5, <1>6, TypeParts, TypePartsNext, UnchangedTyped

LEMMA LoadTyped ==
  ASSUME TypeOK, NEW w \in Worker, LoadClaimedIntents(w)
  PROVE TypeOK'
<1> DEFINE jobs == {JobOf(d[1]) : d \in worker[w].todo}
           loaded == [worker[w] EXCEPT !.pc = "batch", !.todo = jobs]
<1>1. jobs \subseteq Job
  <2> SUFFICES ASSUME NEW d \in worker[w].todo PROVE JobOf(d[1]) \in Job
    OBVIOUS
  <2>1. d \in Job
    BY TypeParts DEF WorkersTyped, WorkerState
  <2>2. d[1] \in Intent
    BY <2>1 DEF Job
  <2> QED
    BY <2>2, JobsTyped, TypeParts
<1>2. loaded \in WorkerState
  <2> HIDE DEF jobs
  <2> QED
    BY <1>1, TypeParts DEF WorkersTyped, WorkerState, Pc
<1>3. worker' = [worker EXCEPT ![w] = loaded]
  <2> HIDE DEF jobs
  <2>1. worker' = [worker EXCEPT ![w].pc = "batch", ![w].todo = jobs]
    BY DEF LoadClaimedIntents, jobs
  <2> QED
    BY <2>1, TypeParts DEF WorkersTyped, WorkerState
<1>4. WorkersTyped'
  <2> HIDE DEF loaded
  <2> QED
    BY <1>2, <1>3, TypeParts DEF WorkersTyped
<1>5. UNCHANGED <<now, intent, delivery, reservation, provider, callback>>
  BY DEF LoadClaimedIntents
<1> QED
  BY <1>4, <1>5, TypeParts, TypePartsNext, UnchangedTyped

LEMMA TakenTyped ==
  ASSUME TypeOK, NEW w \in Worker, NEW d \in worker[w].todo
  PROVE d \in Job /\ d[1] \in Intent
BY TypeParts DEF WorkersTyped, WorkerState, Job

LEMMA DismissedTyped ==
  ASSUME TypeOK, NEW w \in Worker, NEW d \in worker[w].todo,
         TemplateUnknown(w, d) \/ Suppress(w, d) \/ DeferIntent(w, d) \/ NoCreditsLeft(w, d)
  PROVE TypeOK'
<1>1. WorkersTyped'
  BY DismissTyped, TypeParts DEF TemplateUnknown, Suppress, DeferIntent, NoCreditsLeft
<1>2. IntentsTyped'
  <2>1. CASE TemplateUnknown(w, d)
    BY <2>1, TransitionTyped, TypeParts DEF TemplateUnknown, IntentStatus
  <2>2. CASE Suppress(w, d)
    BY <2>2, TransitionTyped, TypeParts DEF Suppress, IntentStatus
  <2>3. CASE NoCreditsLeft(w, d)
    BY <2>3, TransitionTyped, TypeParts DEF NoCreditsLeft, IntentStatus
  <2>4. CASE DeferIntent(w, d)
    <3>1. worker[w].now + DeferFor \in Nat
      BY TimeAssumption, TypeParts DEF WorkersTyped, WorkerState
    <3>2. [intent[d[1]] EXCEPT !.status = "pending", !.lease = 0,
                               !.availableAt = worker[w].now + DeferFor] \in IntentRow
      <4>1. intent[d[1]] \in IntentRow
        BY TakenTyped, TypeParts DEF IntentsTyped
      <4> QED
        BY <3>1, <4>1 DEF IntentRow, IntentStatus
    <3> QED
      BY <2>4, <3>1, <3>2, TypeParts DEF DeferIntent, IntentsTyped, IntentRow
  <2> QED
    BY <2>1, <2>2, <2>3, <2>4
<1>3. UNCHANGED <<now, delivery, reservation, provider, callback>>
  BY DEF TemplateUnknown, Suppress, DeferIntent, NoCreditsLeft
<1> QED
  BY <1>1, <1>2, <1>3, TypeParts, TypePartsNext, UnchangedTyped

LEMMA InsertingTyped ==
  ASSUME TypeOK, NEW w \in Worker, NEW d \in Job, NEW r \in Hold,
         worker' = [worker EXCEPT ![w] = [Begin(w, d) EXCEPT !.pc = "insert", !.hold = r]]
  PROVE WorkersTyped'
<1> DEFINE inserting == [Begin(w, d) EXCEPT !.pc = "insert", !.hold = r]
<1>1. inserting \in WorkerState
  <2>1. Begin(w, d) \in WorkerState
    BY BeginTyped, TypeParts
  <2> QED
    BY <2>1 DEF WorkerState, Pc
<1> QED
  BY <1>1, TypeParts DEF WorkersTyped

LEMMA ReserveTyped ==
  ASSUME TypeOK, NEW w \in Worker, NEW d \in worker[w].todo, ReserveSmsCredits(w, d)
  PROVE TypeOK'
<1>1. d \in Job /\ <<d, w>> \in Hold
  BY TakenTyped DEF Hold
<1>2. CASE LiveHold(d) = {}
  <2> DEFINE row == [status |-> "held", expiresAt |-> worker[w].now + ReservationTTL,
                     refunded |-> FALSE]
  <2>1. row \in ReservationRow
    BY TimeAssumption, TypeParts DEF ReservationRow, WorkersTyped, WorkerState
  <2>2. reservation' = [reservation EXCEPT ![<<d, w>>] = row]
    BY <1>2 DEF ReserveSmsCredits
  <2>3. HoldsTyped'
    <3> HIDE DEF row
    <3> QED
      BY <2>1, <2>2, TypeParts DEF HoldsTyped
  <2>4. WorkersTyped'
    BY <1>1, <1>2, InsertingTyped DEF ReserveSmsCredits
  <2> QED
    BY <2>3, <2>4, TypeParts, TypePartsNext, UnchangedTyped DEF ReserveSmsCredits
<1>3. CASE LiveHold(d) # {}
  <2>1. PICK r \in LiveHold(d) :
          /\ worker' = [worker EXCEPT ![w] = [Begin(w, d) EXCEPT !.pc = "insert", !.hold = r]]
          /\ UNCHANGED reservation
    BY <1>3 DEF ReserveSmsCredits
  <2>2. WorkersTyped'
    BY <1>1, <2>1, InsertingTyped DEF LiveHold
  <2> QED
    BY <2>1, <2>2, TypeParts, TypePartsNext, UnchangedTyped DEF ReserveSmsCredits
<1> QED
  BY <1>2, <1>3

LEMMA InsertTyped ==
  ASSUME TypeOK, NEW w \in Worker, InsertDelivery(w)
  PROVE TypeOK'
<1> DEFINE row == [status |-> "queued", settlement |-> "settling", hold |-> worker[w].hold,
                   sid |-> FALSE]
<1>1. row \in DeliveryRow
  BY TypeParts DEF DeliveryRow, WorkersTyped, WorkerState, Rank
<1>2. \/ UNCHANGED delivery
      \/ delivery' = [delivery EXCEPT ![worker[w].job] = row]
  BY DEF InsertDelivery
<1>3. DeliveriesTyped'
  <2> HIDE DEF row
  <2> QED
    BY <1>1, <1>2, TypeParts, UnchangedTyped DEF DeliveriesTyped
<1>4. WorkersTyped'
  BY GotoTyped, FinishTyped, TypeParts DEF InsertDelivery, Pc
<1>5. UNCHANGED <<now, intent, reservation, provider, callback>>
  BY DEF InsertDelivery
<1> QED
  BY <1>3, <1>4, <1>5, TypeParts, TypePartsNext, UnchangedTyped

LEMMA InsertEmailTyped ==
  ASSUME TypeOK, NEW w \in Worker, NEW d \in worker[w].todo, InsertEmailDelivery(w, d)
  PROVE TypeOK'
<1> DEFINE row == [NoDelivery EXCEPT !.status = "queued"]
           begun == [Begin(w, d) EXCEPT !.pc = "sending"]
<1>1. row \in DeliveryRow
  BY DEF DeliveryRow, Rank, NoDelivery
<1>2. UNCHANGED delivery \/ delivery' = [delivery EXCEPT ![d] = row]
  BY DEF InsertEmailDelivery
<1>3. DeliveriesTyped'
  <2> HIDE DEF row
  <2> QED
    BY <1>1, <1>2, TypeParts, UnchangedTyped DEF DeliveriesTyped
<1>4. begun \in WorkerState
  BY BeginTyped, TakenTyped, TypeParts DEF WorkerState, Pc
<1>5. WorkersTyped'
  BY <1>4, TypeParts DEF InsertEmailDelivery, WorkersTyped
<1>6. UNCHANGED <<now, intent, reservation, provider, callback>>
  BY DEF InsertEmailDelivery
<1> QED
  BY <1>3, <1>5, <1>6, TypeParts, TypePartsNext, UnchangedTyped

LEMMA ToSendingTyped ==
  ASSUME TypeOK, NEW w \in Worker, ToSending(w)
  PROVE TypeOK'
<1> DEFINE i == worker[w].job[1]
           row == [intent[i] EXCEPT !.status = "sending", !.delivery = worker[w].job,
                                    !.hold = worker[w].hold]
<1>1. worker[w].job \in Job \cup {NoJob} /\ worker[w].hold \in Hold \cup {NoHold}
  BY TypeParts DEF WorkersTyped, WorkerState
<1>2. ASSUME i \in Intent PROVE row \in IntentRow
  <2>1. intent[i] \in IntentRow
    BY <1>2, TypeParts DEF IntentsTyped
  <2> QED
    BY <1>1, <2>1 DEF IntentRow, IntentStatus
<1>3. ASSUME i \in Intent, ~UNCHANGED intent PROVE intent' = [intent EXCEPT ![i] = row]
  <2>1. intent' = [intent EXCEPT ![i].status = "sending", ![i].delivery = worker[w].job,
                                 ![i].hold = worker[w].hold]
    BY <1>3 DEF ToSending
  <2> HIDE DEF i
  <2> QED
    BY <1>3, <2>1, TypeParts DEF IntentsTyped, IntentRow
<1>4. CASE i \notin Intent
  <2>1. UNCHANGED intent
    <3> HIDE DEF i
    <3>1. \/ UNCHANGED intent
          \/ intent' = [intent EXCEPT ![i].status = "sending", ![i].delivery = worker[w].job,
                                      ![i].hold = worker[w].hold]
      BY DEF ToSending, i
    <3> QED
      BY <1>4, <3>1, TypeParts DEF IntentsTyped
  <2> QED
    BY <2>1, GotoTyped, FinishTyped, TypeParts, TypePartsNext, UnchangedTyped DEF ToSending, Pc
<1>5. CASE i \in Intent
  <2>1. IntentsTyped'
    <3> HIDE DEF row, i
    <3> QED
      BY <1>2, <1>3, <1>5, TypeParts, UnchangedTyped DEF IntentsTyped
  <2>2. WorkersTyped'
    BY GotoTyped, FinishTyped, TypeParts DEF ToSending, Pc
  <2> QED
    BY <2>1, <2>2, TypeParts, TypePartsNext, UnchangedTyped DEF ToSending
<1> QED
  BY <1>4, <1>5

\* The steps that write the worker and at most one other table.
LEMMA WorkerStepTyped ==
  ASSUME TypeOK, NEW w \in Worker,
         \/ Superseded(w)
         \/ FinalCheck(w)
         \/ AnswerAccepted(w)
         \/ AnswerRefused(w)
         \/ Crash(w)
  PROVE TypeOK'
<1>1. WorkersTyped'
  <2>1. CASE Superseded(w)
    BY <2>1, FinishTyped, StopTyped, TypeParts DEF Superseded, StopReason
  <2>2. CASE FinalCheck(w)
    BY <2>2, GotoTyped, StopTyped, TypeParts DEF FinalCheck, StopReason, Pc
  <2>3. CASE AnswerAccepted(w)
    BY <2>3, GotoTyped, TypeParts DEF AnswerAccepted, Pc
  <2>4. CASE AnswerRefused(w)
    BY <2>4, StopTyped, TypeParts DEF AnswerRefused, StopReason
  <2>5. CASE Crash(w)
    BY <2>5, IdleTyped, TypeParts DEF Crash, WorkersTyped
  <2> QED
    BY <2>1, <2>2, <2>3, <2>4, <2>5
<1>2. UNCHANGED <<now, intent, delivery, reservation, provider, callback>>
  BY DEF Superseded, FinalCheck, AnswerAccepted, AnswerRefused, Crash
<1> QED
  BY <1>1, <1>2, TypeParts, TypePartsNext, UnchangedTyped

LEMMA HoldStepTyped ==
  ASSUME TypeOK, NEW w \in Worker,
         ReleaseReservation(w) \/ SettleReservation(w) \/ RecheckTerminalFailure(w)
  PROVE TypeOK'
<1>1. HoldsTyped'
  BY ReleasedTyped, TypeParts, UnchangedTyped
     DEF ReleaseReservation, SettleReservation, RecheckTerminalFailure, HoldsTyped
<1>2. WorkersTyped'
  BY GotoTyped, TypeParts DEF ReleaseReservation, SettleReservation, RecheckTerminalFailure, Pc
<1>3. UNCHANGED <<now, intent, delivery, provider, callback>>
  BY DEF ReleaseReservation, SettleReservation, RecheckTerminalFailure
<1> QED
  BY <1>1, <1>2, <1>3, TypeParts, TypePartsNext, UnchangedTyped

(***************************************************************************)
(* What a worker's place in the pipeline says of its job and its reason to *)
(* stop: from the delivery row on it works on a job, and the intent is     *)
(* resolved only with a status that intents have.                          *)
(***************************************************************************)
BatchPc == {"idle", "claim", "load", "batch"}
PlaceFits(s) ==
  /\ s.pc \notin BatchPc => s.job \in Job
  /\ s.pc \in {"release", "close"} => s.reason \in {"failed", "suppressed", "superseded"}
  /\ s.pc = "resolve" => s.reason \in {"failed", "suppressed"}
PlacesFit == \A w \in Worker : PlaceFits(worker[w])

LEMMA IntentStepTyped ==
  ASSUME TypeOK, PlacesFit, NEW w \in Worker, ResolveStopped(w) \/ AnswerLost(w) \/ ToSent(w)
  PROVE TypeOK'
<1>1. WorkersTyped'
  BY FinishTyped, TypeParts DEF ResolveStopped, AnswerLost, ToSent
<1>2. IntentsTyped'
  <2>1. CASE ResolveStopped(w)
    <3>1. worker[w].reason \in IntentStatus
      BY <2>1 DEF PlacesFit, PlaceFits, ResolveStopped, At, IntentStatus
    <3> QED
      BY <2>1, <3>1, TransitionTyped, TypeParts DEF ResolveStopped
  <2>2. CASE AnswerLost(w)
    BY <2>2, TransitionTyped, TypeParts DEF AnswerLost, IntentStatus
  <2>3. CASE ToSent(w)
    BY <2>3, TransitionTyped, TypeParts DEF ToSent, IntentStatus
  <2> QED
    BY <2>1, <2>2, <2>3
<1>3. UNCHANGED <<now, delivery, reservation, provider, callback>>
  BY DEF ResolveStopped, AnswerLost, ToSent
<1> QED
  BY <1>1, <1>2, <1>3, TypeParts, TypePartsNext, UnchangedTyped

LEMMA CloseTyped ==
  ASSUME TypeOK, NEW w \in Worker, CloseDelivery(w) \/ AcceptDelivery(w)
  PROVE TypeOK'
<1>1. WorkersTyped'
  BY FinishTyped, GotoTyped, TypeParts DEF CloseDelivery, AcceptDelivery, Pc
<1>2. DeliveriesTyped'
  <2>1. CASE CloseDelivery(w)
    <3> DEFINE d == worker[w].job
               status == IF worker[w].reason = "failed" THEN "failed" ELSE "canceled"
    <3>1. status \in DOMAIN Rank
      BY DEF Rank
    <3>2. delivery' = [delivery EXCEPT ![d].status = status, ![d].settlement = "not_applicable"]
      BY <2>1 DEF CloseDelivery
    <3> HIDE DEF d, status
    <3>3. \A e \in Job : delivery[e] \in DeliveryRow
      BY TypeParts DEF DeliveriesTyped
    <3> QED
      BY <3>1, <3>2, <3>3, TypeParts DEF DeliveriesTyped, DeliveryRow
  <2>2. CASE AcceptDelivery(w)
    <3> DEFINE d == worker[w].job
    <3>1. \/ delivery' = [delivery EXCEPT ![d].status = "accepted", ![d].sid = TRUE]
          \/ UNCHANGED delivery
      BY <2>2 DEF AcceptDelivery
    <3>2. "accepted" \in DOMAIN Rank
      BY DEF Rank
    <3> HIDE DEF d
    <3> QED
      BY <3>1, <3>2, TypeParts, UnchangedTyped DEF DeliveriesTyped, DeliveryRow
  <2> QED
    BY <2>1, <2>2
<1>3. UNCHANGED <<now, intent, reservation, provider, callback>>
  BY DEF CloseDelivery, AcceptDelivery
<1> QED
  BY <1>1, <1>2, <1>3, TypeParts, TypePartsNext, UnchangedTyped

LEMMA MarkTyped ==
  ASSUME TypeOK, NEW w \in Worker, MarkSettled(w) \/ MarkRefunded(w)
  PROVE TypeOK'
<1>1. WorkersTyped'
  BY GotoTyped, TypeParts DEF MarkSettled, MarkRefunded, Pc
<1>2. DeliveriesTyped'
  BY MarkedTyped, TypeParts DEF MarkSettled, MarkRefunded, DeliveriesTyped
<1>3. UNCHANGED <<now, intent, reservation, provider, callback>>
  BY DEF MarkSettled, MarkRefunded
<1> QED
  BY <1>1, <1>2, <1>3, TypeParts, TypePartsNext, UnchangedTyped

LEMMA RequestTyped ==
  ASSUME TypeOK, NEW d, NEW fates,
         fates \subseteq {"accepted", "refused", "lost"}, Request(d, fates)
  PROVE ProviderTyped'
<1>1. PICK fate \in fates :
        provider' = [provider EXCEPT ![d] = [requests |-> provider[d].requests + 1, fate |-> fate]]
  BY DEF Request
<1>2. CASE d \in Job
  <2>1. [requests |-> provider[d].requests + 1, fate |-> fate]
          \in [requests : Nat, fate : {"none", "accepted", "refused", "lost", "delivered", "failed"}]
    BY <1>2, TypeParts DEF ProviderTyped
  <2> QED
    BY <1>1, <2>1, TypeParts DEF ProviderTyped
<1>3. CASE d \notin Job
  BY <1>1, <1>3, TypeParts DEF ProviderTyped
<1> QED
  BY <1>2, <1>3

LEMMA CallTyped ==
  ASSUME TypeOK, NEW w \in Worker, CallProvider(w) \/ SendEmail(w)
  PROVE TypeOK'
<1>1. WorkersTyped'
  BY GotoTyped, TypeParts DEF CallProvider, SendEmail, Pc
<1>2. ProviderTyped'
  <2>1. CASE CallProvider(w)
    BY <2>1, RequestTyped DEF CallProvider
  <2>2. CASE SendEmail(w)
    BY <2>2, RequestTyped DEF SendEmail
  <2> QED
    BY <2>1, <2>2
<1>3. UNCHANGED <<now, intent, delivery, reservation, callback>>
  BY DEF CallProvider, SendEmail
<1> QED
  BY <1>1, <1>2, <1>3, TypeParts, TypePartsNext, UnchangedTyped

LEMMA CloseEmailTyped ==
  ASSUME TypeOK, NEW w \in Worker, CloseEmail(w)
  PROVE TypeOK'
<1> DEFINE d == worker[w].job
<1>1. \E status \in {"sent", "failed"} : delivery' = [delivery EXCEPT ![d].status = status]
  BY DEF CloseEmail
<1>2. {"sent", "failed"} \subseteq DOMAIN Rank
  BY DEF Rank
<1>3. DeliveriesTyped'
  <2> HIDE DEF d
  <2> QED
    BY <1>1, <1>2, TypeParts DEF DeliveriesTyped, DeliveryRow
<1>4. WorkersTyped'
  <2> DEFINE failed == [worker[w] EXCEPT !.pc = "resolve", !.reason = "failed"]
  <2>1. failed \in WorkerState
    BY TypeParts DEF WorkersTyped, WorkerState, Pc, StopReason
  <2>2. CASE Goto(w, "sent")
    BY <2>2, GotoTyped, TypeParts DEF Pc
  <2>3. CASE worker' = [worker EXCEPT ![w].pc = "resolve", ![w].reason = "failed"]
    <3>1. worker' = [worker EXCEPT ![w] = failed]
      BY <2>3, TypeParts DEF WorkersTyped, WorkerState
    <3> HIDE DEF failed
    <3> QED
      BY <2>1, <3>1, TypeParts DEF WorkersTyped
  <2> QED
    BY <2>2, <2>3 DEF CloseEmail
<1>5. UNCHANGED <<now, intent, reservation, provider, callback>>
  BY DEF CloseEmail
<1> QED
  BY <1>3, <1>4, <1>5, TypeParts, TypePartsNext, UnchangedTyped

LEMMA ReportTyped ==
  ASSUME TypeOK, NEW d \in Job, NEW fate \in {"delivered", "failed"}, ProviderReports(d, fate)
  PROVE TypeOK'
<1>1. ProviderTyped'
  BY TypeParts DEF ProviderReports, ProviderTyped
<1> QED
  BY <1>1, TypeParts, TypePartsNext, UnchangedTyped DEF ProviderReports

LEMMA StatusCallbackTyped ==
  ASSUME TypeOK, NEW d \in Job, NEW status \in {"sent", "delivered", "failed"},
         StatusCallback(d, status)
  PROVE TypeOK'
<1>1. status \in DOMAIN Rank
  BY DEF Rank
<1>2. delivery' = [delivery EXCEPT ![d].status = status, ![d].sid = TRUE]
  BY DEF StatusCallback
<1>3. DeliveriesTyped'
  BY <1>1, <1>2, TypeParts DEF DeliveriesTyped, DeliveryRow
<1>4. CallbacksTyped'
  BY TypeParts DEF StatusCallback, CallbacksTyped
<1> QED
  BY <1>3, <1>4, TypeParts, TypePartsNext, UnchangedTyped DEF StatusCallback

LEMMA CallbackStepTyped ==
  ASSUME TypeOK, NEW d \in Job,
         CallbackRefund(d) \/ CallbackMarkRefunded(d) \/ CallbackCrash(d)
  PROVE TypeOK'
<1>1. CallbacksTyped'
  BY TypeParts DEF CallbackRefund, CallbackMarkRefunded, CallbackCrash, CallbacksTyped
<1>2. HoldsTyped'
  BY ReleasedTyped, TypeParts, UnchangedTyped
     DEF CallbackRefund, CallbackMarkRefunded, CallbackCrash, HoldsTyped
<1>3. DeliveriesTyped'
  BY MarkedTyped, TypeParts, UnchangedTyped
     DEF CallbackRefund, CallbackMarkRefunded, CallbackCrash, DeliveriesTyped
<1>4. UNCHANGED <<now, intent, provider, worker>>
  BY DEF CallbackRefund, CallbackMarkRefunded, CallbackCrash
<1> QED
  BY <1>1, <1>2, <1>3, <1>4, TypeParts, TypePartsNext, UnchangedTyped

LEMMA TypeStep ==
  ASSUME TypeOK, PlacesFit, [Next]_vars
  PROVE TypeOK'
<1>1. CASE Producer
  BY <1>1, ProducerTyped DEF Producer
<1>2. CASE Housekeeping
  BY <1>2, ProducerTyped, HoldSweepTyped DEF Housekeeping
<1>3. CASE Provider
  BY <1>3, ReportTyped, StatusCallbackTyped, CallbackStepTyped DEF Provider
<1>4. CASE Tick
  BY <1>4, TickTyped
<1>5. ASSUME NEW w \in Worker, Batch(w) PROVE TypeOK'
  BY <1>5, PickTyped, ClaimTyped, LoadTyped, DismissedTyped, ReserveTyped, InsertEmailTyped
     DEF Batch
<1>6. ASSUME NEW w \in Worker, Pipeline(w) PROVE TypeOK'
  BY <1>6, InsertTyped, ToSendingTyped, WorkerStepTyped, HoldStepTyped, IntentStepTyped,
     CloseTyped, MarkTyped, CallTyped, CloseEmailTyped DEF Pipeline
<1>7. ASSUME NEW w \in Worker, Crash(w) PROVE TypeOK'
  BY <1>7, WorkerStepTyped
<1>8. ASSUME NEW d \in Job, CallbackCrash(d) PROVE TypeOK'
  BY <1>8, CallbackStepTyped
<1>9. CASE UNCHANGED vars
  BY <1>9, TypeParts, TypePartsNext, UnchangedTyped DEF vars
<1> QED
  BY <1>1, <1>2, <1>3, <1>4, <1>5, <1>6, <1>7, <1>8, <1>9 DEF Next

(***************************************************************************)
(* The places fit: each step moves one worker, to a place its state fits.  *)
(***************************************************************************)
LEMMA MoveFits ==
  ASSUME TypeOK, PlacesFit, NEW w \in Worker, NEW s,
         PlaceFits(s), worker' = [worker EXCEPT ![w] = s]
  PROVE PlacesFit'
BY TypeParts DEF PlacesFit, PlaceFits, WorkersTyped

LEMMA IdleFits == PlaceFits(Idle)
BY DEF PlaceFits, Idle, BatchPc

LEMMA FinishFits ==
  ASSUME TypeOK, PlacesFit, NEW w \in Worker, Finish(w)
  PROVE PlacesFit'
<1> DEFINE s == worker'[w]
<1>1. worker' = [worker EXCEPT ![w] = s]
  BY TypeParts DEF Finish, WorkersTyped
<1>2. s.pc \in BatchPc
  BY TypeParts DEF Finish, WorkersTyped, WorkerState, Idle, BatchPc
<1> HIDE DEF s
<1>3. PlaceFits(s)
  BY <1>2 DEF PlaceFits, BatchPc
<1> QED
  BY <1>1, <1>3, MoveFits

LEMMA GotoFits ==
  ASSUME TypeOK, PlacesFit, NEW w \in Worker, NEW pc, Goto(w, pc),
         worker[w].pc \notin BatchPc,
         pc = "close" => worker[w].pc = "release",
         pc = "resolve" => worker[w].pc = "close" /\ worker[w].reason # "superseded",
         pc # "release"
  PROVE PlacesFit'
<1> DEFINE s == [worker[w] EXCEPT !.pc = pc]
<1>1. worker' = [worker EXCEPT ![w] = s]
  BY DEF Goto
<1>2. s.pc = pc /\ s.job = worker[w].job /\ s.reason = worker[w].reason
  BY TypeParts DEF WorkersTyped, WorkerState
<1> HIDE DEF s
<1>3. PlaceFits(worker[w])
  BY DEF PlacesFit
<1>4. PlaceFits(s)
  BY <1>2, <1>3 DEF PlaceFits
<1> QED
  BY <1>1, <1>4, MoveFits

LEMMA StopFits ==
  ASSUME TypeOK, PlacesFit, NEW w \in Worker,
         NEW reason \in {"failed", "suppressed", "superseded"}, Stop(w, reason),
         worker[w].pc \notin BatchPc
  PROVE PlacesFit'
<1> DEFINE s == [worker[w] EXCEPT !.pc = "release", !.reason = reason]
<1>1. worker' = [worker EXCEPT ![w] = s]
  BY TypeParts DEF Stop, WorkersTyped, WorkerState
<1>2. s.pc = "release" /\ s.job = worker[w].job /\ s.reason = reason
  BY TypeParts DEF WorkersTyped, WorkerState
<1> HIDE DEF s
<1>3. PlaceFits(s)
  BY <1>2 DEF PlaceFits, PlacesFit
<1> QED
  BY <1>1, <1>3, MoveFits

LEMMA BatchFits ==
  ASSUME TypeOK, PlacesFit, NEW w \in Worker, Batch(w)
  PROVE PlacesFit'
<1>1. ASSUME NEW t, PickDueIntents(w, t) PROVE PlacesFit'
  <2>0. PICK n \in SalonLimits :
          worker' = [worker EXCEPT ![w] = [Idle EXCEPT !.pc = "claim", !.now = t,
                       !.todo = (UNION {First(n, b, t) : b \in Salon}) \X {0}]]
    BY <1>1 DEF PickDueIntents
  <2> DEFINE s == [Idle EXCEPT !.pc = "claim", !.now = t,
                               !.todo = (UNION {First(n, b, t) : b \in Salon}) \X {0}]
  <2>1. worker' = [worker EXCEPT ![w] = s]
    BY <2>0
  <2>2. s.pc = "claim"
    BY DEF Idle
  <2> HIDE DEF s
  <2> QED
    BY <2>1, <2>2, MoveFits DEF PlaceFits, BatchPc
<1>2. ASSUME ClaimDueIntents(w) PROVE PlacesFit'
  <2> DEFINE s == worker'[w]
  <2>1. worker' = [worker EXCEPT ![w] = s]
    BY <1>2, TypeParts DEF ClaimDueIntents, WorkersTyped
  <2>2. s.pc \in {"idle", "load"}
    BY <1>2, TypeParts DEF ClaimDueIntents, WorkersTyped, WorkerState, Idle
  <2> HIDE DEF s
  <2> QED
    BY <2>1, <2>2, MoveFits DEF PlaceFits, BatchPc
<1>3. ASSUME LoadClaimedIntents(w) PROVE PlacesFit'
  <2> DEFINE s == worker'[w]
  <2>1. worker' = [worker EXCEPT ![w] = s]
    BY <1>3, TypeParts DEF LoadClaimedIntents, WorkersTyped
  <2>2. s.pc = "batch"
    BY <1>3, TypeParts DEF LoadClaimedIntents, WorkersTyped, WorkerState
  <2> HIDE DEF s
  <2> QED
    BY <2>1, <2>2, MoveFits DEF PlaceFits, BatchPc
<1>4. ASSUME NEW d \in worker[w].todo,
             TemplateUnknown(w, d) \/ Suppress(w, d) \/ DeferIntent(w, d) \/ NoCreditsLeft(w, d)
      PROVE PlacesFit'
  <2> DEFINE s == worker'[w]
  <2>1. Dismiss(w, d) /\ worker[w].pc = "batch"
    BY <1>4 DEF TemplateUnknown, Suppress, DeferIntent, NoCreditsLeft, Take, At
  <2>2. worker' = [worker EXCEPT ![w] = s]
    BY <2>1, TypeParts DEF Dismiss, WorkersTyped
  <2>3. s.pc \in {"idle", "batch"}
    BY <2>1, TypeParts DEF Dismiss, WorkersTyped, WorkerState, Idle, Without
  <2> HIDE DEF s
  <2> QED
    BY <2>2, <2>3, MoveFits DEF PlaceFits, BatchPc
<1>5. ASSUME NEW d \in worker[w].todo, ReserveSmsCredits(w, d) \/ InsertEmailDelivery(w, d)
      PROVE PlacesFit'
  <2>1. d \in Job /\ Begin(w, d) \in WorkerState /\ Begin(w, d).job = d
    BY TakenTyped, BeginTyped, TypeParts DEF Begin, Without, WorkersTyped, WorkerState
  <2>2. \E s : /\ worker' = [worker EXCEPT ![w] = s]
               /\ s.pc \in {"insert", "sending"} /\ s.job = d
    <3>1. CASE InsertEmailDelivery(w, d)
      <4> DEFINE s == [Begin(w, d) EXCEPT !.pc = "sending"]
      <4>1. worker' = [worker EXCEPT ![w] = s]
        BY <3>1 DEF InsertEmailDelivery
      <4>2. s.pc = "sending" /\ s.job = d
        BY <2>1 DEF WorkerState
      <4> HIDE DEF s
      <4> QED
        BY <4>1, <4>2
    <3>2. CASE ReserveSmsCredits(w, d)
      <4>1. PICK r : worker' = [worker EXCEPT ![w] =
                                 [Begin(w, d) EXCEPT !.pc = "insert", !.hold = r]]
        BY <3>2 DEF ReserveSmsCredits
      <4> DEFINE s == [Begin(w, d) EXCEPT !.pc = "insert", !.hold = r]
      <4>2. s.pc = "insert" /\ s.job = d
        BY <2>1 DEF WorkerState
      <4>3. worker' = [worker EXCEPT ![w] = s]
        BY <4>1
      <4> HIDE DEF s
      <4> QED
        BY <4>2, <4>3
    <3> QED
      BY <1>5, <3>1, <3>2
  <2> QED
    BY <2>1, <2>2, MoveFits DEF PlaceFits
<1> QED
  BY <1>1, <1>2, <1>3, <1>4, <1>5 DEF Batch

LEMMA PipelineFits ==
  ASSUME TypeOK, PlacesFit, NEW w \in Worker, Pipeline(w)
  PROVE PlacesFit'
<1>1. ASSUME InsertDelivery(w) \/ ToSending(w) PROVE PlacesFit'
  BY <1>1, GotoFits, FinishFits DEF InsertDelivery, ToSending, At, BatchPc
<1>2. ASSUME Superseded(w) PROVE PlacesFit'
  BY <1>2, StopFits, FinishFits DEF Superseded, At, BatchPc
<1>3. ASSUME ReleaseReservation(w) \/ CloseDelivery(w) PROVE PlacesFit'
  BY <1>3, GotoFits, FinishFits DEF ReleaseReservation, CloseDelivery, At, BatchPc
<1>4. ASSUME ResolveStopped(w) \/ AnswerLost(w) \/ ToSent(w) PROVE PlacesFit'
  BY <1>4, FinishFits DEF ResolveStopped, AnswerLost, ToSent
<1>5. ASSUME FinalCheck(w) \/ AnswerAccepted(w) \/ AnswerRefused(w) PROVE PlacesFit'
  BY <1>5, GotoFits, StopFits DEF FinalCheck, AnswerAccepted, AnswerRefused, At, BatchPc
<1>6. ASSUME CallProvider(w) \/ SendEmail(w) PROVE PlacesFit'
  BY <1>6, GotoFits DEF CallProvider, SendEmail, At, BatchPc
<1>7. ASSUME AcceptDelivery(w) \/ SettleReservation(w) \/ MarkSettled(w) PROVE PlacesFit'
  BY <1>7, GotoFits DEF AcceptDelivery, SettleReservation, MarkSettled, At, BatchPc
<1>8. ASSUME RecheckTerminalFailure(w) \/ MarkRefunded(w) PROVE PlacesFit'
  BY <1>8, GotoFits DEF RecheckTerminalFailure, MarkRefunded, At, BatchPc
<1>9. ASSUME CloseEmail(w) PROVE PlacesFit'
  <2> DEFINE s == [worker[w] EXCEPT !.pc = "resolve", !.reason = "failed"]
  <2>1. s.pc = "resolve" /\ s.reason = "failed" /\ s.job = worker[w].job
    BY TypeParts DEF WorkersTyped, WorkerState
  <2>2. CASE Goto(w, "sent")
    BY <1>9, <2>2, GotoFits DEF CloseEmail, At, BatchPc
  <2>3. CASE worker' = [worker EXCEPT ![w].pc = "resolve", ![w].reason = "failed"]
    <3>1. worker' = [worker EXCEPT ![w] = s]
      BY <2>3, TypeParts DEF WorkersTyped, WorkerState
    <3>2. worker[w].job \in Job
      BY <1>9 DEF CloseEmail, At, PlacesFit, PlaceFits, BatchPc
    <3> HIDE DEF s
    <3> QED
      BY <2>1, <3>1, <3>2, MoveFits DEF PlaceFits
  <2> QED
    BY <1>9, <2>2, <2>3 DEF CloseEmail
<1> QED
  BY <1>1, <1>2, <1>3, <1>4, <1>5, <1>6, <1>7, <1>8, <1>9 DEF Pipeline

LEMMA IdleWorkersFit ==
  ASSUME PlacesFit, UNCHANGED worker
  PROVE PlacesFit'
BY DEF PlacesFit

LEMMA PlacesStep ==
  ASSUME TypeOK, PlacesFit, [Next]_vars
  PROVE PlacesFit'
<1>1. CASE Producer
  BY <1>1, IdleWorkersFit
     DEF Producer, EnqueueCommunicationIntent, CancelAppointmentIntents,
         ReleaseBlockedIntentsAfterTopup
<1>2. CASE Housekeeping
  BY <1>2, IdleWorkersFit
     DEF Housekeeping, RecoverClaimed, ParkSending, ExpireStaleIntents,
         ReapExpiredReservations, ResolverSettles, ResolverAdopts
<1>3. CASE Provider
  BY <1>3, IdleWorkersFit
     DEF Provider, ProviderReports, StatusCallback, CallbackRefund, CallbackMarkRefunded
<1>4. CASE Tick
  BY <1>4, IdleWorkersFit DEF Tick
<1>5. ASSUME NEW w \in Worker, Batch(w) \/ Pipeline(w) PROVE PlacesFit'
  BY <1>5, BatchFits, PipelineFits
<1>6. ASSUME NEW w \in Worker, Crash(w) PROVE PlacesFit'
  BY <1>6, IdleFits, MoveFits DEF Crash
<1>7. ASSUME NEW d \in Job, CallbackCrash(d) PROVE PlacesFit'
  BY <1>7, IdleWorkersFit DEF CallbackCrash
<1>8. CASE UNCHANGED vars
  BY <1>8, IdleWorkersFit DEF vars
<1> QED
  BY <1>1, <1>2, <1>3, <1>4, <1>5, <1>6, <1>7, <1>8 DEF Next

TypeInv == TypeOK /\ PlacesFit

LEMMA TypeInvariant == Spec => []TypeInv
<1>1. Init => TypeInv
  BY InitTyped, IdleFits DEF Init, TypeInv, PlacesFit
<1>2. TypeInv /\ [Next]_vars => TypeInv'
  BY TypeStep, PlacesStep DEF TypeInv
<1> QED
  BY <1>1, <1>2, PTL DEF Spec

\* For any number of intents, workers and attempts the tables and the
\* invocations keep their types; in particular no claim leaves a job
\* without its rows.
THEOREM TypeCorrect == Spec => []TypeOK
<1>1. TypeInv => TypeOK
  BY DEF TypeInv
<1> QED
  BY <1>1, TypeInvariant, PTL

(***************************************************************************)
(* At most one request.  Once an intent is `sending' it never waits again, *)
(* so the compare-and-set to `sending' succeeds once per intent; only the  *)
(* worker whose did goes on to ask the provider, and it asks once.         *)
(***************************************************************************)
Past == {"sending", "send_outcome_unknown", "sent", "failed", "suppressed"}
AskPc == {"final", "call", "email"}
Asking(w) == worker[w].pc \in AskPc

AskersOwn ==
  \A w \in Worker : Asking(w) =>
    /\ intent[worker[w].job[1]].status \in Past
    /\ \A d \in Job : d[1] = worker[w].job[1] => provider[d].requests = 0
AskersApart ==
  \A v, w \in Worker :
    Asking(v) /\ Asking(w) /\ worker[v].job[1] = worker[w].job[1] => v = w
RequestedPast == \A d \in Job : provider[d].requests > 0 => intent[d[1]].status \in Past

AskInv == AskersOwn /\ AskersApart /\ RequestedPast /\ AtMostOneSend

PastStays == \A i \in Intent : intent[i].status \in Past => intent'[i].status \in Past
NoNewAsker ==
  \A w \in Worker : Asking(w)' => Asking(w) /\ worker'[w].job = worker[w].job
SameRequests == \A d \in Job : provider'[d].requests = provider[d].requests

LEMMA TransitionPast ==
  ASSUME IntentsTyped, NEW i, NEW to, to \in Past \/ to = "blocked_no_credit",
         TransitionIntent(i, to)
  PROVE PastStays
<1>1. CASE i \in Intent
  BY <1>1 DEF IntentsTyped, IntentRow, TransitionIntent, TRANSITION_PRECONDITIONS, PastStays, Past
<1>2. CASE i \notin Intent
  BY <1>2 DEF IntentsTyped, IntentRow, TransitionIntent, PastStays, Past
<1> QED
  BY <1>1, <1>2

LEMMA QuietStep ==
  ASSUME TypeOK, PlacesFit, AskInv, PastStays, NoNewAsker, SameRequests
  PROVE AskInv'
<1>1. \A w \in Worker : Asking(w)' => worker[w].job[1] \in Intent /\ Asking(w)
                                    /\ worker'[w].job = worker[w].job
  BY DEF NoNewAsker, PlacesFit, PlaceFits, BatchPc, Asking, AskPc, Job
<1>2. AskersOwn'
  BY <1>1 DEF AskInv, AskersOwn, PastStays, SameRequests
<1>3. AskersApart'
  BY <1>1 DEF AskInv, AskersApart
<1>4. RequestedPast'
  BY DEF AskInv, RequestedPast, PastStays, SameRequests, Job
<1>5. AtMostOneSend'
  BY DEF AskInv, AtMostOneSend, SameRequests, Requested
<1> QED
  BY <1>2, <1>3, <1>4, <1>5 DEF AskInv

LEMMA WorkersQuiet ==
  /\ UNCHANGED worker => NoNewAsker
  /\ UNCHANGED provider => SameRequests
  /\ UNCHANGED intent => PastStays
BY DEF NoNewAsker, SameRequests, PastStays, Asking

LEMMA ProducerAsks ==
  ASSUME TypeOK, PlacesFit, AskInv, Producer \/ Housekeeping \/ Provider \/ Tick
  PROVE AskInv'
<1>1. NoNewAsker
  BY WorkersQuiet
     DEF Producer, EnqueueCommunicationIntent, CancelAppointmentIntents,
         ReleaseBlockedIntentsAfterTopup, Housekeeping, RecoverClaimed, ParkSending,
         ExpireStaleIntents, ReapExpiredReservations, ResolverSettles, ResolverAdopts,
         Provider, ProviderReports, StatusCallback, CallbackRefund, CallbackMarkRefunded, Tick
<1>2. SameRequests
  <2>1. CASE Producer \/ Housekeeping \/ Tick
    BY <2>1, WorkersQuiet
       DEF Producer, EnqueueCommunicationIntent, CancelAppointmentIntents,
           ReleaseBlockedIntentsAfterTopup, Housekeeping, RecoverClaimed, ParkSending,
           ExpireStaleIntents, ReapExpiredReservations, ResolverSettles, ResolverAdopts, Tick
  <2>2. ASSUME NEW d \in Job, NEW fate, ProviderReports(d, fate) PROVE SameRequests
    BY <2>2, TypeParts DEF ProviderReports, ProviderTyped, SameRequests
  <2>3. ASSUME Provider, ~\E d \in Job, fate \in {"delivered", "failed"} : ProviderReports(d, fate)
        PROVE SameRequests
    BY <2>3, WorkersQuiet DEF Provider, StatusCallback, CallbackRefund, CallbackMarkRefunded
  <2> QED
    BY <2>1, <2>2, <2>3
<1>3. PastStays
  <2>1. CASE Provider \/ Tick
    BY <2>1, WorkersQuiet
       DEF Provider, ProviderReports, StatusCallback, CallbackRefund, CallbackMarkRefunded, Tick
  <2>2. CASE Producer
    BY <2>2, TypeParts
       DEF Producer, EnqueueCommunicationIntent, CancelAppointmentIntents,
           ReleaseBlockedIntentsAfterTopup, PastStays, Past, IntentsTyped, IntentRow
  <2>3. CASE Housekeeping
    <3>1. ASSUME NEW r, ReapExpiredReservations(r) PROVE PastStays
      BY <3>1, WorkersQuiet DEF ReapExpiredReservations
    <3>2. ASSUME NEW i, ResolverSettles(i) PROVE PastStays
      BY <3>2, WorkersQuiet DEF ResolverSettles
    <3>3. ASSUME NEW i \in Intent,
                 RecoverClaimed(i) \/ ParkSending(i) \/ ExpireStaleIntents(i) \/ ResolverAdopts(i)
          PROVE PastStays
      BY <3>3, TypeParts
         DEF RecoverClaimed, ParkSending, ExpireStaleIntents, ResolverAdopts, PastStays, Past,
             IntentsTyped, IntentRow
    <3> QED
      BY <2>3, <3>1, <3>2, <3>3 DEF Housekeeping
  <2> QED
    BY <2>1, <2>2, <2>3
<1> QED
  BY <1>1, <1>2, <1>3, QuietStep

\* A worker that moves to a place where it does not ask.
LEMMA MoveAway ==
  ASSUME TypeOK, NEW w \in Worker, NEW s, worker' = [worker EXCEPT ![w] = s], s.pc \notin AskPc
  PROVE NoNewAsker
BY TypeParts DEF WorkersTyped, NoNewAsker, Asking

LEMMA GotoAway ==
  ASSUME TypeOK, NEW w \in Worker, NEW pc, Goto(w, pc), pc \notin AskPc
  PROVE NoNewAsker
<1> DEFINE s == [worker[w] EXCEPT !.pc = pc]
<1>1. worker' = [worker EXCEPT ![w] = s] /\ s.pc = pc
  BY TypeParts DEF Goto, WorkersTyped, WorkerState
<1> HIDE DEF s
<1> QED
  BY <1>1, MoveAway

LEMMA FinishAway ==
  ASSUME TypeOK, NEW w \in Worker, Finish(w)
  PROVE NoNewAsker
<1> DEFINE s == worker'[w]
<1>1. worker' = [worker EXCEPT ![w] = s]
  BY TypeParts DEF Finish, WorkersTyped
<1>2. s.pc \in {"idle", "batch"}
  BY TypeParts DEF Finish, WorkersTyped, WorkerState, Idle
<1> HIDE DEF s
<1> QED
  BY <1>1, <1>2, MoveAway DEF AskPc

LEMMA StopAway ==
  ASSUME TypeOK, NEW w \in Worker, NEW reason, Stop(w, reason)
  PROVE NoNewAsker
<1> DEFINE s == [worker[w] EXCEPT !.pc = "release", !.reason = reason]
<1>1. worker' = [worker EXCEPT ![w] = s] /\ s.pc = "release"
  BY TypeParts DEF Stop, WorkersTyped, WorkerState
<1> HIDE DEF s
<1> QED
  BY <1>1, MoveAway DEF AskPc

LEMMA BatchAsks ==
  ASSUME TypeOK, PlacesFit, AskInv, NEW w \in Worker, Batch(w)
  PROVE AskInv'
<1>1. SameRequests
  BY WorkersQuiet
     DEF Batch, PickDueIntents, ClaimDueIntents, LoadClaimedIntents, TemplateUnknown, Suppress,
         DeferIntent, NoCreditsLeft, ReserveSmsCredits, InsertEmailDelivery
<1>2. NoNewAsker
  <2> DEFINE s == worker'[w]
  <2>1. worker' = [worker EXCEPT ![w] = s]
    BY TypeParts
       DEF Batch, PickDueIntents, ClaimDueIntents, LoadClaimedIntents, TemplateUnknown, Suppress,
           DeferIntent, NoCreditsLeft, ReserveSmsCredits, InsertEmailDelivery, Dismiss, WorkersTyped
  <2>2. s.pc \notin AskPc
    <3>1. ASSUME NEW t, PickDueIntents(w, t) PROVE s.pc \notin AskPc
      <4>0. PICK n \in SalonLimits :
              worker' = [worker EXCEPT ![w] = [Idle EXCEPT !.pc = "claim", !.now = t,
                           !.todo = (UNION {First(n, b, t) : b \in Salon}) \X {0}]]
        BY <3>1 DEF PickDueIntents
      <4> DEFINE begun == [Idle EXCEPT !.pc = "claim", !.now = t,
                                       !.todo = (UNION {First(n, b, t) : b \in Salon}) \X {0}]
      <4>1. begun.pc = "claim"
        BY DEF Idle
      <4>2. worker' = [worker EXCEPT ![w] = begun]
        BY <4>0
      <4> HIDE DEF begun
      <4>3. worker'[w] = begun
        BY <4>2, TypeParts DEF WorkersTyped
      <4>4. worker'[w].pc = "claim"
        BY <4>1, <4>3
      <4> QED
        BY <4>4 DEF AskPc
    <3>2. ASSUME ClaimDueIntents(w) \/ LoadClaimedIntents(w) PROVE s.pc \notin AskPc
      <4>1. ASSUME ClaimDueIntents(w) PROVE worker'[w].pc \in {"idle", "load"}
        <5>1. \/ worker' = [worker EXCEPT ![w] = Idle]
              \/ \E won : worker' = [worker EXCEPT ![w] =
                                      [worker[w] EXCEPT !.pc = "load", !.todo = won]]
          BY <4>1 DEF ClaimDueIntents
        <5>2. CASE worker' = [worker EXCEPT ![w] = Idle]
          BY <5>2, TypeParts DEF WorkersTyped, Idle
        <5>3. ASSUME NEW won, worker' = [worker EXCEPT ![w] =
                                           [worker[w] EXCEPT !.pc = "load", !.todo = won]]
              PROVE worker'[w].pc = "load"
          BY <5>3, TypeParts DEF WorkersTyped, WorkerState
        <5> QED
          BY <5>1, <5>2, <5>3
      <4>2. ASSUME LoadClaimedIntents(w) PROVE worker'[w].pc = "batch"
        <5>1. PICK todo : worker' = [worker EXCEPT ![w].pc = "batch", ![w].todo = todo]
          BY <4>2 DEF LoadClaimedIntents
        <5> QED
          BY <5>1, TypeParts DEF WorkersTyped, WorkerState
      <4>3. worker'[w].pc \in {"idle", "load", "batch"}
        BY <3>2, <4>1, <4>2
      <4> QED
        BY <4>3 DEF AskPc
    <3>3. ASSUME NEW d, Dismiss(w, d), worker[w].pc = "batch" PROVE s.pc \notin AskPc
      BY <3>3, TypeParts DEF Dismiss, Without, WorkersTyped, WorkerState, Idle, AskPc
    <3>4. ASSUME NEW d \in worker[w].todo, ReserveSmsCredits(w, d) PROVE s.pc \notin AskPc
      <4>1. Begin(w, d) \in WorkerState
        BY BeginTyped, TakenTyped, TypeParts
      <4>2. PICK r : worker' = [worker EXCEPT ![w] =
                                 [Begin(w, d) EXCEPT !.pc = "insert", !.hold = r]]
        BY <3>4 DEF ReserveSmsCredits
      <4> QED
        BY <4>1, <4>2, TypeParts DEF WorkersTyped, WorkerState, AskPc
    <3>5. ASSUME NEW d \in worker[w].todo, InsertEmailDelivery(w, d) PROVE s.pc \notin AskPc
      <4>1. Begin(w, d) \in WorkerState
        BY BeginTyped, TakenTyped, TypeParts
      <4> QED
        BY <3>5, <4>1, TypeParts DEF InsertEmailDelivery, WorkersTyped, WorkerState, AskPc
    <3> QED
      BY <3>1, <3>2, <3>3, <3>4, <3>5
         DEF Batch, TemplateUnknown, Suppress, DeferIntent, NoCreditsLeft, Take, At
  <2> HIDE DEF s
  <2> QED
    BY <2>1, <2>2, MoveAway
<1>3. PastStays
  <2>1. ASSUME ClaimDueIntents(w) PROVE PastStays
    BY <2>1, TypeParts DEF ClaimDueIntents, PastStays, Past, IntentsTyped
  <2>2. ASSUME NEW d \in worker[w].todo, TemplateUnknown(w, d) \/ Suppress(w, d) \/ NoCreditsLeft(w, d)
        PROVE PastStays
    BY <2>2, TransitionPast, TypeParts DEF TemplateUnknown, Suppress, NoCreditsLeft, Past
  <2>3. ASSUME NEW d \in worker[w].todo, DeferIntent(w, d) PROVE PastStays
    BY <2>3, TypeParts DEF DeferIntent, PastStays, Past, IntentsTyped, IntentRow
  <2>4. ASSUME UNCHANGED intent PROVE PastStays
    BY <2>4, WorkersQuiet
  <2> QED
    BY <2>1, <2>2, <2>3, <2>4
       DEF Batch, PickDueIntents, LoadClaimedIntents, ReserveSmsCredits, InsertEmailDelivery
<1> QED
  BY <1>1, <1>2, <1>3, QuietStep

LEMMA QuietPipelineAsks ==
  ASSUME TypeOK, PlacesFit, AskInv, NEW w \in Worker, Pipeline(w),
         ~ToSending(w), ~CallProvider(w), ~SendEmail(w)
  PROVE AskInv'
<1>1. SameRequests
  BY WorkersQuiet
     DEF Pipeline, InsertDelivery, Superseded, ReleaseReservation, CloseDelivery, ResolveStopped,
         FinalCheck, AnswerAccepted, AnswerRefused, AnswerLost, AcceptDelivery, SettleReservation,
         MarkSettled, RecheckTerminalFailure, MarkRefunded, ToSent, CloseEmail
<1>2. NoNewAsker
  <2>1. CASE FinalCheck(w)
    <3>1. CASE Stop(w, "suppressed")
      BY <3>1, StopAway
    <3>2. CASE Goto(w, "call")
      BY <2>1, <3>2, TypeParts
         DEF FinalCheck, At, Goto, NoNewAsker, Asking, AskPc, WorkersTyped, WorkerState
    <3> QED
      BY <2>1, <3>1, <3>2 DEF FinalCheck
  <2>2. CASE CloseEmail(w)
    <3>1. CASE Goto(w, "sent")
      BY <3>1, GotoAway DEF AskPc
    <3>2. CASE worker' = [worker EXCEPT ![w].pc = "resolve", ![w].reason = "failed"]
      <4> DEFINE s == [worker[w] EXCEPT !.pc = "resolve", !.reason = "failed"]
      <4>1. worker' = [worker EXCEPT ![w] = s] /\ s.pc = "resolve"
        BY <3>2, TypeParts DEF WorkersTyped, WorkerState
      <4> HIDE DEF s
      <4> QED
        BY <4>1, MoveAway DEF AskPc
    <3> QED
      BY <2>2, <3>1, <3>2 DEF CloseEmail
  <2>3. CASE \/ \E pc : Goto(w, pc) /\ pc \notin AskPc
             \/ Finish(w)
             \/ \E reason : Stop(w, reason)
    BY <2>3, GotoAway, FinishAway, StopAway
  <2>4. \/ FinalCheck(w) \/ CloseEmail(w) \/ Finish(w)
        \/ \E reason : Stop(w, reason)
        \/ \E pc \in Pc \ AskPc : Goto(w, pc)
    BY DEF Pipeline, InsertDelivery, Superseded, ReleaseReservation, CloseDelivery,
           ResolveStopped, AnswerAccepted, AnswerRefused, AnswerLost, AcceptDelivery,
           SettleReservation, MarkSettled, RecheckTerminalFailure, MarkRefunded, ToSent,
           AskPc, Pc
  <2> QED
    BY <2>1, <2>2, <2>3, <2>4
<1>3. PastStays
  <2>1. ASSUME ResolveStopped(w) PROVE PastStays
    <3>1. worker[w].reason \in Past
      BY <2>1 DEF PlacesFit, PlaceFits, ResolveStopped, At, Past
    <3> QED
      BY <2>1, <3>1, TransitionPast, TypeParts DEF ResolveStopped
  <2>2. ASSUME AnswerLost(w) \/ ToSent(w) PROVE PastStays
    BY <2>2, TransitionPast, TypeParts DEF AnswerLost, ToSent, Past
  <2>3. ASSUME UNCHANGED intent PROVE PastStays
    BY <2>3, WorkersQuiet
  <2> QED
    BY <2>1, <2>2, <2>3
       DEF Pipeline, InsertDelivery, Superseded, ReleaseReservation, CloseDelivery, FinalCheck,
           AnswerAccepted, AnswerRefused, AcceptDelivery, SettleReservation, MarkSettled,
           RecheckTerminalFailure, MarkRefunded, CloseEmail
<1> QED
  BY <1>1, <1>2, <1>3, QuietStep

\* The compare-and-set: an intent still `claimed' has no asker and no request.
LEMMA ToSendingAsks ==
  ASSUME TypeOK, PlacesFit, AskInv, NEW w \in Worker, ToSending(w)
  PROVE AskInv'
<1> DEFINE i == worker[w].job[1]
<1>1. worker[w].job \in Job /\ i \in Intent
  BY DEF ToSending, At, PlacesFit, PlaceFits, BatchPc, Job
<1>2. SameRequests
  BY WorkersQuiet DEF ToSending
<1>3. CASE intent[i].status # "claimed"
  <2>1. NoNewAsker
    BY <1>3, GotoAway, FinishAway DEF ToSending, TRANSITION_PRECONDITIONS, AskPc
  <2>2. PastStays
    BY <1>3, WorkersQuiet DEF ToSending, TRANSITION_PRECONDITIONS
  <2> QED
    BY <1>2, <2>1, <2>2, QuietStep
<1>4. CASE intent[i].status = "claimed"
  <2>1. intent' = [intent EXCEPT ![i].status = "sending", ![i].delivery = worker[w].job,
                                 ![i].hold = worker[w].hold]
    BY <1>4 DEF ToSending, TRANSITION_PRECONDITIONS
  <2>2. intent'[i].status \in Past /\ PastStays
    <3> HIDE DEF i
    <3> QED
      BY <1>1, <2>1, TypeParts DEF IntentsTyped, IntentRow, PastStays, Past
  <2>3. PICK pc : Goto(w, pc)
    BY <1>4 DEF ToSending, TRANSITION_PRECONDITIONS
  <2>4. /\ worker'[w].job = worker[w].job
        /\ \A v \in Worker \ {w} : worker'[v] = worker[v]
    BY <2>3, TypeParts DEF Goto, WorkersTyped, WorkerState
  <2>5. \A v \in Worker : Asking(v) => worker[v].job[1] # i
    BY <1>4 DEF AskInv, AskersOwn, Past
  <2>6. \A d \in Job : d[1] = i => provider[d].requests = 0
    <3>1. \A d \in Job : provider[d].requests \in Nat
      BY TypeParts DEF ProviderTyped
    <3> QED
      BY <1>4, <3>1 DEF AskInv, RequestedPast, Past
  <2>7. \A v \in Worker \ {w} : Asking(v)' => Asking(v) /\ worker'[v].job = worker[v].job
    BY <2>4 DEF Asking
  <2>8. \A v \in Worker : Asking(v) => worker[v].job[1] \in Intent
    BY DEF PlacesFit, PlaceFits, BatchPc, Asking, AskPc, Job
  <2>9. AskersOwn'
    <3> SUFFICES ASSUME NEW v \in Worker, Asking(v)'
                 PROVE /\ intent'[worker'[v].job[1]].status \in Past
                       /\ \A d \in Job : d[1] = worker'[v].job[1] => provider'[d].requests = 0
      BY DEF AskersOwn
    <3>1. CASE v = w
      BY <1>2, <2>2, <2>4, <2>6, <3>1 DEF SameRequests
    <3>2. CASE v # w
      BY <1>2, <2>2, <2>7, <2>8, <3>2 DEF SameRequests, PastStays, AskInv, AskersOwn
    <3> QED
      BY <3>1, <3>2
  <2>10. AskersApart'
    BY <2>4, <2>5, <2>7 DEF AskInv, AskersApart
  <2>11. RequestedPast' /\ AtMostOneSend'
    BY <1>2, <2>2 DEF AskInv, RequestedPast, AtMostOneSend, SameRequests, PastStays, Requested, Job
  <2> QED
    BY <2>9, <2>10, <2>11 DEF AskInv
<1> QED
  BY <1>3, <1>4

\* The asker asks: it was the only one, and nothing had been asked.
LEMMA CallAsks ==
  ASSUME TypeOK, PlacesFit, AskInv, NEW w \in Worker, CallProvider(w) \/ SendEmail(w)
  PROVE AskInv'
<1> DEFINE job == worker[w].job
<1>1. Asking(w) /\ job \in Job /\ job[1] \in Intent
  BY DEF CallProvider, SendEmail, At, Asking, AskPc, PlacesFit, PlaceFits, BatchPc, Job
<1>2. \E fate : provider' = [provider EXCEPT ![job] =
                               [requests |-> provider[job].requests + 1, fate |-> fate]]
  BY DEF CallProvider, SendEmail, Request
<1>3. /\ \A d \in Job : provider'[d].requests = IF d = job THEN 1 ELSE provider[d].requests
      /\ \A d \in Job : d[1] = job[1] => provider[d].requests = 0
  <2>1. \A d \in Job : d[1] = job[1] => provider[d].requests = 0
    BY <1>1 DEF AskInv, AskersOwn
  <2> HIDE DEF job
  <2> QED
    BY <1>1, <1>2, <2>1, TypeParts DEF ProviderTyped
<1>4. UNCHANGED intent
  BY DEF CallProvider, SendEmail
<1>5. Goto(w, "answer") \/ Goto(w, "emailed")
  BY DEF CallProvider, SendEmail
<1>6. NoNewAsker /\ ~Asking(w)'
  <2>1. NoNewAsker
    BY <1>5, GotoAway DEF AskPc
  <2>2. worker'[w].pc \in {"answer", "emailed"}
    BY <1>5, TypeParts DEF Goto, WorkersTyped, WorkerState
  <2> QED
    BY <2>1, <2>2 DEF Asking, AskPc
<1>7. \A v \in Worker : Asking(v)' => v # w /\ Asking(v) /\ worker'[v].job = worker[v].job
                                    /\ worker[v].job[1] # job[1]
  BY <1>1, <1>6 DEF NoNewAsker, AskInv, AskersApart
<1>8. AskersOwn'
  <2> HIDE DEF job
  <2> SUFFICES ASSUME NEW v \in Worker, Asking(v)'
               PROVE /\ intent'[worker'[v].job[1]].status \in Past
                     /\ \A d \in Job : d[1] = worker'[v].job[1] => provider'[d].requests = 0
    BY DEF AskersOwn
  <2> QED
    BY <1>3, <1>4, <1>7 DEF AskInv, AskersOwn
<1>9. AskersApart'
  BY <1>7 DEF AskInv, AskersApart
<1>10. RequestedPast'
  <2>1. intent[job[1]].status \in Past
    BY <1>1 DEF AskInv, AskersOwn
  <2> HIDE DEF job
  <2> QED
    BY <1>3, <1>4, <2>1 DEF AskInv, RequestedPast
<1>11. AtMostOneSend'
  <2> HIDE DEF job
  <2> SUFFICES ASSUME NEW i \in Intent, NEW d \in Job, NEW e \in Job, d[1] = i, e[1] = i
               PROVE /\ provider'[d].requests <= 1
                     /\ provider'[d].requests > 0 /\ provider'[e].requests > 0 => d = e
    BY DEF AtMostOneSend, Requested
  <2>1. CASE i = job[1]
    BY <1>3, <2>1
  <2>2. CASE i # job[1]
    BY <1>3, <2>2 DEF AskInv, AtMostOneSend, Requested
  <2> QED
    BY <2>1, <2>2
<1> QED
  BY <1>8, <1>9, <1>10, <1>11 DEF AskInv

LEMMA AskStep ==
  ASSUME TypeOK, PlacesFit, AskInv, [Next]_vars
  PROVE AskInv'
<1>1. CASE Producer \/ Housekeeping \/ Provider \/ Tick
  BY <1>1, ProducerAsks
<1>2. ASSUME NEW w \in Worker, Batch(w) PROVE AskInv'
  BY <1>2, BatchAsks
<1>3. ASSUME NEW w \in Worker, Pipeline(w) PROVE AskInv'
  BY <1>3, QuietPipelineAsks, ToSendingAsks, CallAsks
<1>4. ASSUME NEW w \in Worker, Crash(w) PROVE AskInv'
  <2>1. NoNewAsker
    BY <1>4, MoveAway DEF Crash, Idle, AskPc
  <2> QED
    BY <1>4, <2>1, WorkersQuiet, QuietStep DEF Crash
<1>5. ASSUME NEW d \in Job, CallbackCrash(d) PROVE AskInv'
  BY <1>5, WorkersQuiet, QuietStep DEF CallbackCrash
<1>6. CASE UNCHANGED vars
  BY <1>6, WorkersQuiet, QuietStep DEF vars
<1> QED
  BY <1>1, <1>2, <1>3, <1>4, <1>5, <1>6 DEF Next

\* However many workers overlap, whatever leases lapse and whoever dies, an
\* intent leads to at most one request to the provider.
THEOREM SentAtMostOnce == Spec => []AtMostOneSend
<1>1. Init => AskInv
  <2>1. Init => \A w \in Worker : ~Asking(w)
    BY DEF Init, Asking, AskPc, Idle
  <2>2. Init => \A d \in Job : provider[d].requests = 0
    BY DEF Init, NoRequest
  <2> QED
    BY <2>1, <2>2 DEF AskInv, AskersOwn, AskersApart, RequestedPast, AtMostOneSend, Requested
<1>2. TypeInv /\ AskInv /\ [Next]_vars => AskInv'
  BY AskStep DEF TypeInv
<1>3. AskInv => AtMostOneSend
  BY DEF AskInv
<1> QED
  BY <1>1, <1>2, <1>3, TypeInvariant, PTL DEF Spec
=============================================================================
