----------------------- MODULE CommunicationDispatch -----------------------
(***************************************************************************)
(* The outbound message pipeline: intents waiting in a table, serverless   *)
(* workers that claim them under a lease and take each through reserve,    *)
(* delivery row, `sending', final check, provider call and settlement,     *)
(* the housekeeping every invocation begins with, the provider's status    *)
(* callbacks and the resolver of unknown outcomes.                         *)
(*                                                                         *)
(* A worker's pipeline is NOT one transaction: each database statement or  *)
(* transaction is an action, a worker may stop between any two of them,    *)
(* and every timestamp it writes is the instant its invocation began.      *)
(* What the pipeline asks the credit account is CreditLedger's business;   *)
(* here a reservation is only none, held, settled or released.             *)
(***************************************************************************)
EXTENDS Integers, FiniteSets

CONSTANTS
  Intent,           \* rows of communication_intent
  Salon,
  SalonOf,          \* [Intent -> Salon]
  Channel,          \* [Intent -> {"sms", "email"}]
  KnownTemplate,    \* intents whose template the registry has
  ScheduledFor,     \* [Intent -> Nat]
  NotAfter,         \* [Intent -> Nat]
  Id,               \* [Intent -> Nat]: the order of the ids
  Worker,           \* invocations of the dispatcher alive at once
  LeaseTTL,         \* INTENT_LEASE_MS
  DeferFor,         \* the delay of deferIntent
  ReservationTTL,   \* RESERVATION_TTL_MS
  RunLimit,         \* the longest an invocation lives
  SalonLimits,      \* values of perSalonBatchLimit, 1 unless the control row says otherwise
  MaxAttempts,      \* bound: claims of one intent
  MaxTime           \* bound: the clock

ASSUME IntentAssumption ==
  /\ SalonOf \in [Intent -> Salon]
  /\ Channel \in [Intent -> {"sms", "email"}]
  /\ KnownTemplate \subseteq Intent
  /\ ScheduledFor \in [Intent -> Nat]
  /\ NotAfter \in [Intent -> Nat]
  /\ Id \in [Intent -> Nat]

\* Two invocations that overlap are both gone before a reservation they share
\* can lapse: the platform ends a serverless function in 5 minutes, and
\* RESERVATION_TTL_MS is 15.
ASSUME TimeAssumption ==
  /\ LeaseTTL \in Nat /\ DeferFor \in Nat /\ RunLimit \in Nat
  /\ SalonLimits \subseteq Nat
  /\ ReservationTTL \in Nat /\ 2 * RunLimit <= ReservationTTL
  /\ MaxAttempts \in Nat \ {0} /\ MaxTime \in Nat

Job == Intent \X (0..MaxAttempts)      \* the r<attempts> of the dedupe keys; email uses 0
NoJob == <<"none", 0>>
Hold == Job \X Worker                  \* one reservation row per job and invocation
NoHold == <<NoJob, "none">>

VARIABLES
  now,
  intent,        \* [status, attempts, lease, availableAt, delivery, hold]
  delivery,      \* notification_delivery rows by dedupe key
  reservation,   \* sms_credit_reservation: [status, expiresAt, refunded]
  provider,      \* external: requests received per delivery, and their fate
  worker,        \* [pc, now, todo, job, hold, reason]
  callback       \* the status callback at work on a delivery: its next step

vars == <<now, intent, delivery, reservation, provider, worker, callback>>

NoIntent == [status |-> "none", attempts |-> 0, lease |-> 0, availableAt |-> 0,
             delivery |-> NoJob, hold |-> NoHold]
NoDelivery == [status |-> "none", settlement |-> "none", hold |-> NoHold, sid |-> FALSE]
NoReservation == [status |-> "none", expiresAt |-> 0, refunded |-> FALSE]
NoRequest == [requests |-> 0, fate |-> "none"]
Idle == [pc |-> "idle", now |-> 0, todo |-> {}, job |-> NoJob, hold |-> NoHold,
         reason |-> "none"]

(***************************************************************************)
(* Intent transitions are compare-and-set on the status alone: the holder  *)
(* of the lease is not compared, and only a claim renews the lease.        *)
(***************************************************************************)
TRANSITION_PRECONDITIONS ==
  [sending |-> {"claimed"},
   sent |-> {"sending", "send_outcome_unknown"},
   send_outcome_unknown |-> {"sending", "claimed"},
   failed |-> {"sending", "claimed"},
   suppressed |-> {"claimed", "pending", "sending"},
   blocked_no_credit |-> {"claimed"}]

TransitionIntent(i, to) ==
  intent' = IF intent[i].status \in TRANSITION_PRECONDITIONS[to]
            THEN [intent EXCEPT ![i].status = to] ELSE intent

\* Idempotent on the dedupe key.
EnqueueCommunicationIntent(i) ==
  /\ intent[i].status = "none"
  /\ intent' = [intent EXCEPT ![i] =
       [NoIntent EXCEPT !.status = "pending", !.availableAt = ScheduledFor[i]]]
  /\ UNCHANGED <<now, delivery, reservation, provider, worker, callback>>

\* A reschedule or a cancellation; claimed and later rows are the worker's.
CancelAppointmentIntents(i) ==
  /\ intent[i].status \in {"pending", "blocked_no_credit"}
  /\ intent' = [intent EXCEPT ![i].status = "canceled"]
  /\ UNCHANGED <<now, delivery, reservation, provider, worker, callback>>

\* Nothing in the repository calls this but its tests.
ReleaseBlockedIntentsAfterTopup(i) ==
  /\ intent[i].status = "blocked_no_credit"
  /\ NotAfter[i] > now
  /\ intent' = [intent EXCEPT ![i].status = "pending", ![i].availableAt = now]
  /\ UNCHANGED <<now, delivery, reservation, provider, worker, callback>>

(***************************************************************************)
(* Housekeeping: the statements an invocation runs before it claims.  Each *)
(* stands alone, so an invocation that dies between two of them is one     *)
(* that never reached the second.                                          *)
(***************************************************************************)
RecoverClaimed(i) ==
  /\ intent[i].status = "claimed"
  /\ intent[i].lease < now
  /\ intent' = [intent EXCEPT ![i].status = "pending", ![i].lease = 0, ![i].availableAt = now]
  /\ UNCHANGED <<now, delivery, reservation, provider, worker, callback>>

\* Defect: a message whose worker died is queued again.
RequeueMidSend(i) ==
  /\ intent[i].status = "sending"
  /\ intent[i].lease < now
  /\ intent' = [intent EXCEPT ![i].status = "pending"]
  /\ UNCHANGED <<now, delivery, reservation, provider, worker, callback>>

ParkSending(i) ==
  /\ intent[i].status = "sending"
  /\ intent[i].lease < now
  /\ intent' = [intent EXCEPT ![i].status = "send_outcome_unknown"]
  /\ UNCHANGED <<now, delivery, reservation, provider, worker, callback>>

\* Defect: blocked intents are forgotten.
ExpirePendingOnly(i) ==
  /\ intent[i].status = "pending"
  /\ NotAfter[i] < now
  /\ intent' = [intent EXCEPT ![i].status = "expired"]
  /\ UNCHANGED <<now, delivery, reservation, provider, worker, callback>>

ExpireStaleIntents(i) ==
  /\ intent[i].status \in {"pending", "blocked_no_credit"}
  /\ NotAfter[i] < now
  /\ intent' = [intent EXCEPT ![i].status = "expired"]
  /\ UNCHANGED <<now, delivery, reservation, provider, worker, callback>>

\* releaseReservation: a no-op on anything not held.
Released(r) ==
  IF reservation[r].status = "held"
  THEN [reservation EXCEPT ![r].status = "released"] ELSE reservation

\* Defect: the rows of the intent are looked up, not those of the reservation.
IntentMayHaveBeenSent(r) ==
  \E d \in Job : d[1] = r[1][1] /\ delivery[d].settlement \in {"settling", "settled"}
MayHaveBeenSent(r) ==
  \E d \in Job : /\ delivery[d].hold = r
                 /\ delivery[d].settlement \in {"settling", "settled"}
                 /\ delivery[d].status # "canceled"

\* Defect: the sweep does not look at the delivery rows.
ReapRegardless(r) ==
  /\ reservation[r].status = "held"
  /\ reservation[r].expiresAt < now
  /\ reservation' = Released(r)
  /\ UNCHANGED <<now, intent, delivery, provider, worker, callback>>

\* The scan and the release are two statements; the invocation that could
\* insert the delivery row in between is past its RunLimit, so one action.
ReapExpiredReservations(r) ==
  /\ reservation[r].status = "held"
  /\ reservation[r].expiresAt < now
  /\ ~MayHaveBeenSent(r)
  /\ reservation' = Released(r)
  /\ UNCHANGED <<now, intent, delivery, provider, worker, callback>>

(***************************************************************************)
(* The claim.  One UPDATE statement: its snapshot picks the first due      *)
(* intents of every salon with nothing in flight, as many as the control   *)
(* row allows, then each picked row is locked and its status compared      *)
(* again; the rows are read back afterwards by id.  The cap on the batch   *)
(* is not reached.                                                         *)
(***************************************************************************)
At(w, pc) == worker[w].pc = pc /\ now - worker[w].now <= RunLimit
Goto(w, pc) == worker' = [worker EXCEPT ![w].pc = pc]
Finish(w) ==
  worker' = [worker EXCEPT ![w] =
    IF @.todo = {} THEN Idle ELSE [@ EXCEPT !.pc = "batch", !.job = NoJob, !.hold = NoHold,
                                            !.reason = "none"]]

InFlight(s) == {i \in Intent : SalonOf[i] = s /\ intent[i].status \in {"claimed", "sending"}}
Due(s, t) ==
  {i \in Intent : /\ SalonOf[i] = s
                  /\ intent[i].status = "pending"
                  /\ intent[i].availableAt <= t /\ NotAfter[i] > t
                  /\ InFlight(s) = {}}
QueueKey(i) == <<intent[i].availableAt, ScheduledFor[i], Id[i]>>
QueuedBefore(i, j) ==
  \E n \in 1..3 : /\ QueueKey(i)[n] < QueueKey(j)[n]
                  /\ \A m \in 1..(n - 1) : QueueKey(i)[m] = QueueKey(j)[m]
First(n, s, t) == {i \in Due(s, t) : Cardinality({j \in Due(s, t) : QueuedBefore(j, i)}) < n}

PickDueIntents(w, t) ==
  /\ worker[w] = Idle
  /\ now - t <= RunLimit
  /\ \E n \in SalonLimits :
       LET picked == UNION {First(n, s, t) : s \in Salon} IN
       /\ picked # {}
       /\ worker' = [worker EXCEPT ![w] =
            [Idle EXCEPT !.pc = "claim", !.now = t, !.todo = picked \X {0}]]
  /\ UNCHANGED <<now, intent, delivery, reservation, provider, callback>>

Claimed(t, i) ==
  [intent[i] EXCEPT !.status = "claimed", !.attempts = @ + 1, !.lease = t + LeaseTTL]

ClaimDueIntents(w) ==
  LET won == {i \in Intent : <<i, 0>> \in worker[w].todo /\ intent[i].status = "pending"} IN
  /\ At(w, "claim")
  /\ \A i \in won : intent[i].attempts < MaxAttempts
  /\ intent' = [i \in Intent |-> IF i \in won THEN Claimed(worker[w].now, i) ELSE intent[i]]
  /\ worker' = [worker EXCEPT ![w] =
       IF won = {} THEN Idle ELSE [@ EXCEPT !.pc = "load", !.todo = won \X {0}]]
  /\ UNCHANGED <<now, delivery, reservation, provider, callback>>

\* Defect: the job is keyed by the attempt after this one.
JobOfNextAttempt(i) == <<i, IF Channel[i] = "sms" THEN intent[i].attempts + 1 ELSE 0>>
JobOf(i) == <<i, IF Channel[i] = "sms" THEN intent[i].attempts ELSE 0>>

LoadClaimedIntents(w) ==
  /\ At(w, "load")
  /\ worker' = [worker EXCEPT ![w].pc = "batch", ![w].todo = {JobOf(d[1]) : d \in @}]
  /\ UNCHANGED <<now, intent, delivery, reservation, provider, callback>>

(***************************************************************************)
(* The checks before anything is reserved.  What they read (salon, control *)
(* row, consent, rate limits, appointment) belongs to other components and *)
(* may answer anything; only the template registry is fixed.  Their        *)
(* notAfter test compares the instant the claim itself compared with, so   *)
(* it never stops a message.                                               *)
(***************************************************************************)
\* The worker takes up job d of its batch.
Take(w, d, lane) ==
  /\ At(w, "batch")
  /\ d \in worker[w].todo
  /\ Channel[d[1]] = lane
Without(w, d) == [worker[w] EXCEPT !.todo = @ \ {d}]
Begin(w, d) == [Without(w, d) EXCEPT !.job = d]
Dismiss(w, d) ==
  worker' = [worker EXCEPT ![w] = IF worker[w].todo = {d} THEN Idle ELSE Without(w, d)]

TemplateUnknown(w, d) ==
  /\ Take(w, d, Channel[d[1]])
  /\ d[1] \notin KnownTemplate
  /\ TransitionIntent(d[1], "failed")
  /\ Dismiss(w, d)
  /\ UNCHANGED <<now, delivery, reservation, provider, callback>>

Suppress(w, d) ==
  /\ Take(w, d, Channel[d[1]])
  /\ d[1] \in KnownTemplate
  /\ TransitionIntent(d[1], "suppressed")
  /\ Dismiss(w, d)
  /\ UNCHANGED <<now, delivery, reservation, provider, callback>>

DeferIntent(w, d) ==
  /\ Take(w, d, "sms")
  /\ d[1] \in KnownTemplate
  /\ intent' = IF intent[d[1]].status = "claimed"
               THEN [intent EXCEPT ![d[1]].status = "pending", ![d[1]].lease = 0,
                                   ![d[1]].availableAt = worker[w].now + DeferFor]
               ELSE intent
  /\ Dismiss(w, d)
  /\ UNCHANGED <<now, delivery, reservation, provider, callback>>

(***************************************************************************)
(* TX1, three statements: the hold, the delivery row, `sending'.           *)
(***************************************************************************)
\* A live hold under the dedupe key of the job is shared, not duplicated.
LiveHold(d) == {r \in Hold : r[1] = d /\ reservation[r].status \in {"held", "settled"}}

ReserveSmsCredits(w, d) ==
  /\ Take(w, d, "sms")
  /\ d[1] \in KnownTemplate
  /\ IF LiveHold(d) = {}
     THEN /\ reservation' = [reservation EXCEPT ![<<d, w>>] =
               [status |-> "held", expiresAt |-> worker[w].now + ReservationTTL, refunded |-> FALSE]]
          /\ worker' = [worker EXCEPT ![w] = [Begin(w, d) EXCEPT !.pc = "insert", !.hold = <<d, w>>]]
     ELSE \E r \in LiveHold(d) :
          /\ worker' = [worker EXCEPT ![w] = [Begin(w, d) EXCEPT !.pc = "insert", !.hold = r]]
          /\ UNCHANGED reservation
  /\ UNCHANGED <<now, intent, delivery, provider, callback>>

NoCreditsLeft(w, d) ==
  /\ Take(w, d, "sms")
  /\ d[1] \in KnownTemplate
  /\ LiveHold(d) = {}
  /\ TransitionIntent(d[1], "blocked_no_credit")
  /\ Dismiss(w, d)
  /\ UNCHANGED <<now, delivery, reservation, provider, callback>>

\* Defect: the loser of the insert gives the hold it shares with the winner back.
InsertDeliveryLoserReleases(w) ==
  LET d == worker[w].job IN
  /\ At(w, "insert")
  /\ IF delivery[d].status # "none"
     THEN reservation' = Released(worker[w].hold) /\ Finish(w) /\ UNCHANGED delivery
     ELSE /\ delivery' = [delivery EXCEPT ![d] =
               [status |-> "queued", settlement |-> "settling", hold |-> worker[w].hold, sid |-> FALSE]]
          /\ Goto(w, "sending") /\ UNCHANGED reservation
  /\ UNCHANGED <<now, intent, provider, callback>>

InsertDelivery(w) ==
  LET d == worker[w].job IN
  /\ At(w, "insert")
  /\ IF delivery[d].status # "none"
     THEN Finish(w) /\ UNCHANGED delivery
     ELSE /\ delivery' = [delivery EXCEPT ![d] =
               [status |-> "queued", settlement |-> "settling", hold |-> worker[w].hold, sid |-> FALSE]]
          /\ Goto(w, "sending")
  /\ UNCHANGED <<now, intent, reservation, provider, callback>>

\* Defect: the status is written without comparing it.
ToSendingUnconditionally(w) ==
  LET i == worker[w].job[1] IN
  /\ At(w, "sending")
  /\ intent' = [intent EXCEPT ![i].status = "sending", ![i].delivery = worker[w].job,
                              ![i].hold = worker[w].hold]
  /\ Goto(w, IF Channel[i] = "sms" THEN "final" ELSE "email")
  /\ UNCHANGED <<now, delivery, reservation, provider, callback>>

ToSending(w) ==
  LET i == worker[w].job[1] IN
  /\ At(w, "sending")
  /\ IF intent[i].status \in TRANSITION_PRECONDITIONS["sending"]
     THEN /\ intent' = [intent EXCEPT ![i].status = "sending", ![i].delivery = worker[w].job,
                                      ![i].hold = worker[w].hold]
          /\ Goto(w, IF Channel[i] = "sms" THEN "final" ELSE "email")
     ELSE /\ UNCHANGED intent
          /\ IF Channel[i] = "sms" THEN Goto(w, "superseded") ELSE Finish(w)
  /\ UNCHANGED <<now, delivery, reservation, provider, callback>>

(***************************************************************************)
(* Giving up: release the hold, close the delivery row, then resolve the   *)
(* intent unless another invocation owns it.                               *)
(***************************************************************************)
Stop(w, reason) ==
  worker' = [worker EXCEPT ![w].pc = "release", ![w].reason = reason]

Superseded(w) ==
  LET fresh == intent[worker[w].job[1]] IN
  /\ At(w, "superseded")
  /\ IF fresh.status \in {"sending", "sent"} /\ fresh.hold = worker[w].hold
     THEN Finish(w) ELSE Stop(w, "superseded")
  /\ UNCHANGED <<now, intent, delivery, reservation, provider, callback>>

ReleaseReservation(w) ==
  /\ At(w, "release")
  /\ reservation' = Released(worker[w].hold)
  /\ Goto(w, "close")
  /\ UNCHANGED <<now, intent, delivery, provider, callback>>

CloseDelivery(w) ==
  /\ At(w, "close")
  /\ delivery' = [delivery EXCEPT
       ![worker[w].job].status = IF worker[w].reason = "failed" THEN "failed" ELSE "canceled",
       ![worker[w].job].settlement = "not_applicable"]
  /\ IF worker[w].reason = "superseded" THEN Finish(w) ELSE Goto(w, "resolve")
  /\ UNCHANGED <<now, intent, reservation, provider, callback>>

ResolveStopped(w) ==
  /\ At(w, "resolve")
  /\ TransitionIntent(worker[w].job[1], worker[w].reason)
  /\ Finish(w)
  /\ UNCHANGED <<now, delivery, reservation, provider, callback>>

\* Kill switch, STOP, consent, appointment: read fresh, any answer.
FinalCheck(w) ==
  /\ At(w, "final")
  /\ Goto(w, "call") \/ Stop(w, "suppressed")
  /\ UNCHANGED <<now, intent, delivery, reservation, provider, callback>>

(***************************************************************************)
(* The provider call, outside any transaction, and what is heard of it.  A *)
(* coded refusal proves that nothing was sent; any other error leaves the  *)
(* outcome unknown.                                                        *)
(***************************************************************************)
Heard == {"accepted", "delivered", "failed"}      \* fates of an accepted request

Request(d, fates) ==
  \E fate \in fates :
    provider' = [provider EXCEPT ![d] = [requests |-> @.requests + 1, fate |-> fate]]

CallProvider(w) ==
  /\ At(w, "call")
  /\ Request(worker[w].job, {"accepted", "refused", "lost"})
  /\ Goto(w, "answer")
  /\ UNCHANGED <<now, intent, delivery, reservation, callback>>

AnswerAccepted(w) ==
  /\ At(w, "answer")
  /\ provider[worker[w].job].fate \in Heard
  /\ Goto(w, "accept")
  /\ UNCHANGED <<now, intent, delivery, reservation, provider, callback>>

AnswerRefused(w) ==
  /\ At(w, "answer")
  /\ provider[worker[w].job].fate = "refused"
  /\ Stop(w, "failed")
  /\ UNCHANGED <<now, intent, delivery, reservation, provider, callback>>

AnswerLost(w) ==
  /\ At(w, "answer")
  /\ TransitionIntent(worker[w].job[1], "send_outcome_unknown")
  /\ Finish(w)
  /\ UNCHANGED <<now, delivery, reservation, provider, callback>>

(***************************************************************************)
(* TX2, six statements.                                                    *)
(***************************************************************************)
\* STATUS_RANK.  The rows the pipeline itself closes were never accepted, so
\* no callback compares with them.
Rank ==
  [none |-> 0, queued |-> 0, accepted |-> 20, sent |-> 40, delivered |-> 50,
   failed |-> 70, canceled |-> 70]

\* Defect: the accepted write is not fenced by the rank.
AcceptUnfenced(w) ==
  /\ At(w, "accept")
  /\ delivery' = [delivery EXCEPT ![worker[w].job].status = "accepted", ![worker[w].job].sid = TRUE]
  /\ Goto(w, "settle")
  /\ UNCHANGED <<now, intent, reservation, provider, callback>>

AcceptDelivery(w) ==
  LET d == worker[w].job IN
  /\ At(w, "accept")
  /\ delivery' = IF Rank[delivery[d].status] < 20
                 THEN [delivery EXCEPT ![d].status = "accepted", ![d].sid = TRUE] ELSE delivery
  /\ Goto(w, "settle")
  /\ UNCHANGED <<now, intent, reservation, provider, callback>>

\* settleReservationOnAccept: only a hold settles, and it settles once.
Settled(r) ==
  IF reservation[r].status = "held"
  THEN [reservation EXCEPT ![r].status = "settled"] ELSE reservation

SettleReservation(w) ==
  /\ At(w, "settle")
  /\ reservation' = Settled(worker[w].hold)
  /\ Goto(w, "mark")
  /\ UNCHANGED <<now, intent, delivery, provider, callback>>

Marked(d, from, to) ==
  IF delivery[d].settlement = from THEN [delivery EXCEPT ![d].settlement = to] ELSE delivery

MarkSettled(w) ==
  /\ At(w, "mark")
  /\ delivery' = Marked(worker[w].job, "settling", "settled")
  /\ Goto(w, "recheck")
  /\ UNCHANGED <<now, intent, reservation, provider, callback>>

\* refundTerminalFailure: a settled reservation, once (CreditLedger's fence).
Refunded(r) ==
  IF reservation[r].status = "settled"
  THEN [reservation EXCEPT ![r].refunded = TRUE] ELSE reservation

\* A terminal callback that met `settling' left its refund to the worker.  The
\* row it reads is terminal for good, so reading and refunding are one action.
RecheckTerminalFailure(w) ==
  LET d == worker[w].job IN
  /\ At(w, "recheck")
  /\ IF delivery[d].status \in {"failed", "canceled"} /\ delivery[d].settlement = "settled"
     THEN reservation' = Refunded(worker[w].hold) /\ Goto(w, "remark")
     ELSE Goto(w, "sent") /\ UNCHANGED reservation
  /\ UNCHANGED <<now, intent, delivery, provider, callback>>

MarkRefunded(w) ==
  /\ At(w, "remark")
  /\ delivery' = Marked(worker[w].job, "settled", "refunded")
  /\ Goto(w, "sent")
  /\ UNCHANGED <<now, intent, reservation, provider, callback>>

ToSent(w) ==
  /\ At(w, "sent")
  /\ TransitionIntent(worker[w].job[1], "sent")
  /\ Finish(w)
  /\ UNCHANGED <<now, delivery, reservation, provider, callback>>

(***************************************************************************)
(* The email lane: no hold, one delivery row per intent whatever the       *)
(* attempt, and every error of the mailer is taken for a failure.          *)
(***************************************************************************)
InsertEmailDelivery(w, d) ==
  /\ Take(w, d, "email")
  /\ d[1] \in KnownTemplate
  /\ delivery' = IF delivery[d].status # "none" THEN delivery
                 ELSE [delivery EXCEPT ![d] = [NoDelivery EXCEPT !.status = "queued"]]
  /\ worker' = [worker EXCEPT ![w] = [Begin(w, d) EXCEPT !.pc = "sending"]]
  /\ UNCHANGED <<now, intent, reservation, provider, callback>>

SendEmail(w) ==
  /\ At(w, "email")
  /\ Request(worker[w].job, {"accepted", "lost"})
  /\ Goto(w, "emailed")
  /\ UNCHANGED <<now, intent, delivery, reservation, callback>>

CloseEmail(w) ==
  LET d == worker[w].job IN
  /\ At(w, "emailed")
  /\ \/ /\ provider[d].fate \in Heard
        /\ delivery' = [delivery EXCEPT ![d].status = "sent"]
        /\ Goto(w, "sent")
     \/ /\ delivery' = [delivery EXCEPT ![d].status = "failed"]
        /\ worker' = [worker EXCEPT ![w].pc = "resolve", ![w].reason = "failed"]
  /\ UNCHANGED <<now, intent, reservation, provider, callback>>

(***************************************************************************)
(* The provider, and its status callbacks: lost, repeated and in any       *)
(* order.  Only the first callback of a rank passes the compare-and-set,   *)
(* so at most one handler per delivery ever has a refund to make.          *)
(***************************************************************************)
ProviderReports(d, fate) ==
  /\ provider[d].fate = "accepted"
  /\ Channel[d[1]] = "sms"
  /\ provider' = [provider EXCEPT ![d].fate = fate]
  /\ UNCHANGED <<now, intent, delivery, reservation, worker, callback>>

Announced(d) ==
  CASE provider[d].fate = "accepted" -> {"sent"}
    [] provider[d].fate \in {"delivered", "failed"} -> {"sent", provider[d].fate}
    [] OTHER -> {}

StatusCallback(d, status) ==
  /\ Channel[d[1]] = "sms"
  /\ callback[d] = "none"
  /\ status \in Announced(d)
  /\ Rank[delivery[d].status] < Rank[status]
  /\ delivery' = [delivery EXCEPT ![d].status = status, ![d].sid = TRUE]
  /\ callback' = [callback EXCEPT ![d] =
       IF status = "failed" /\ delivery[d].settlement = "settled" THEN "refund" ELSE "none"]
  /\ UNCHANGED <<now, intent, reservation, provider, worker>>

CallbackRefund(d) ==
  /\ callback[d] = "refund"
  /\ reservation' = Refunded(delivery[d].hold)
  /\ callback' = [callback EXCEPT ![d] = "mark"]
  /\ UNCHANGED <<now, intent, delivery, provider, worker>>

CallbackMarkRefunded(d) ==
  /\ callback[d] = "mark"
  /\ delivery' = Marked(d, "settled", "refunded")
  /\ callback' = [callback EXCEPT ![d] = "none"]
  /\ UNCHANGED <<now, intent, reservation, provider, worker>>

(***************************************************************************)
(* The resolver of unknown outcomes keeps nothing between its two          *)
(* statements: they are two actions, and a pass that dies is a pass that   *)
(* did not take the second.                                                *)
(***************************************************************************)
Evidence(i) ==
  /\ intent[i].status = "send_outcome_unknown"
  /\ intent[i].delivery # NoJob
  /\ delivery[intent[i].delivery].sid

ResolverSettles(i) ==
  /\ Evidence(i)
  /\ intent[i].hold # NoHold
  /\ reservation[intent[i].hold].status = "held"
  /\ reservation' = Settled(intent[i].hold)
  /\ UNCHANGED <<now, intent, delivery, provider, worker, callback>>

\* Defect: an intent parked for long enough is taken for sent.
ResolverAssumesSent(i) ==
  /\ intent[i].status = "send_outcome_unknown"
  /\ intent' = [intent EXCEPT ![i].status = "sent"]
  /\ UNCHANGED <<now, delivery, reservation, provider, worker, callback>>

ResolverAdopts(i) ==
  /\ Evidence(i)
  /\ intent[i].hold # NoHold => reservation[intent[i].hold].status # "held"
  /\ intent' = [intent EXCEPT ![i].status = "sent"]
  /\ UNCHANGED <<now, delivery, reservation, provider, worker, callback>>

(***************************************************************************)
(* An invocation may die at any point, and must once it outlives RunLimit; *)
(* so may a callback handler.  The next cron tick starts from Idle.        *)
(***************************************************************************)
Crash(w) ==
  /\ worker[w] # Idle
  /\ worker' = [worker EXCEPT ![w] = Idle]
  /\ UNCHANGED <<now, intent, delivery, reservation, provider, callback>>

CallbackCrash(d) ==
  /\ callback[d] # "none"
  /\ callback' = [callback EXCEPT ![d] = "none"]
  /\ UNCHANGED <<now, intent, delivery, reservation, provider, worker>>

Tick ==
  /\ now < MaxTime
  /\ now' = now + 1
  /\ UNCHANGED <<intent, delivery, reservation, provider, worker, callback>>

Init ==
  /\ now = 0
  /\ intent = [i \in Intent |-> NoIntent]
  /\ delivery = [d \in Job |-> NoDelivery]
  /\ reservation = [r \in Hold |-> NoReservation]
  /\ provider = [d \in Job |-> NoRequest]
  /\ worker = [w \in Worker |-> Idle]
  /\ callback = [d \in Job |-> "none"]

Producer ==
  \E i \in Intent :
    \/ EnqueueCommunicationIntent(i)
    \/ CancelAppointmentIntents(i)
    \/ ReleaseBlockedIntentsAfterTopup(i)

Housekeeping ==
  \/ \E i \in Intent : RecoverClaimed(i) \/ ParkSending(i) \/ ExpireStaleIntents(i)
  \/ \E r \in Hold : ReapExpiredReservations(r)
  \/ \E i \in Intent : ResolverSettles(i) \/ ResolverAdopts(i)

Batch(w) ==
  \/ \E t \in 0..now : PickDueIntents(w, t)
  \/ ClaimDueIntents(w) \/ LoadClaimedIntents(w)
  \/ \E d \in worker[w].todo :
       \/ TemplateUnknown(w, d) \/ Suppress(w, d) \/ DeferIntent(w, d)
       \/ ReserveSmsCredits(w, d) \/ NoCreditsLeft(w, d)
       \/ InsertEmailDelivery(w, d)

Pipeline(w) ==
  \/ InsertDelivery(w) \/ ToSending(w)
  \/ Superseded(w) \/ ReleaseReservation(w) \/ CloseDelivery(w) \/ ResolveStopped(w)
  \/ FinalCheck(w) \/ CallProvider(w)
  \/ AnswerAccepted(w) \/ AnswerRefused(w) \/ AnswerLost(w)
  \/ AcceptDelivery(w) \/ SettleReservation(w) \/ MarkSettled(w)
  \/ RecheckTerminalFailure(w) \/ MarkRefunded(w) \/ ToSent(w)
  \/ SendEmail(w) \/ CloseEmail(w)

Provider ==
  \E d \in Job :
    \/ \E fate \in {"delivered", "failed"} : ProviderReports(d, fate)
    \/ \E status \in {"sent", "delivered", "failed"} : StatusCallback(d, status)
    \/ CallbackRefund(d) \/ CallbackMarkRefunded(d)

Next ==
  \/ Producer \/ Housekeeping \/ Provider \/ Tick
  \/ \E w \in Worker : Batch(w) \/ Pipeline(w) \/ Crash(w)
  \/ \E d \in Job : CallbackCrash(d)

Spec == Init /\ [][Next]_vars

(***************************************************************************)
(* Fairness.  The cron invokes the dispatcher every five minutes for ever, *)
(* so its housekeeping and its resolver keep running and time passes; an   *)
(* invocation may always die, so nothing is asked of a worker.             *)
(***************************************************************************)
CronFairness ==
  /\ WF_vars(Tick)
  /\ \A i \in Intent :
       /\ WF_vars(RecoverClaimed(i)) /\ WF_vars(ParkSending(i))
       /\ WF_vars(ExpireStaleIntents(i))
       /\ WF_vars(ResolverSettles(i)) /\ WF_vars(ResolverAdopts(i))
  /\ \A r \in Hold : WF_vars(ReapExpiredReservations(r))

FairSpec == Spec /\ CronFairness

IntentStatus ==
  {"none", "pending", "claimed", "sending", "send_outcome_unknown", "sent", "failed",
   "suppressed", "canceled", "expired", "blocked_no_credit"}
StopReason == {"none", "superseded", "failed", "suppressed"}
Pc ==
  {"idle", "claim", "load", "batch", "insert", "sending", "superseded", "release", "close",
   "resolve", "final", "call", "answer", "accept", "settle", "mark", "recheck", "remark",
   "sent", "email", "emailed"}
IntentRow ==
  [status : IntentStatus, attempts : 0..MaxAttempts, lease : Nat, availableAt : Nat,
   delivery : Job \cup {NoJob}, hold : Hold \cup {NoHold}]
DeliveryRow ==
  [status : DOMAIN Rank, sid : BOOLEAN, hold : Hold \cup {NoHold},
   settlement : {"none", "settling", "settled", "refunded", "not_applicable"}]
ReservationRow ==
  [status : {"none", "held", "settled", "released"}, expiresAt : Nat, refunded : BOOLEAN]
WorkerState ==
  [pc : Pc, now : Nat, todo : SUBSET Job, job : Job \cup {NoJob}, hold : Hold \cup {NoHold},
   reason : StopReason]

\* The tables and the invocations have their types; a claim never exceeds the
\* bound on attempts, so every job has a row.
TypeOK ==
  /\ now \in 0..MaxTime
  /\ intent \in [Intent -> IntentRow]
  /\ delivery \in [Job -> DeliveryRow]
  /\ reservation \in [Hold -> ReservationRow]
  /\ provider \in [Job -> [requests : Nat, fate : {"none", "accepted", "refused", "lost",
                                                   "delivered", "failed"}]]
  /\ worker \in [Worker -> WorkerState]
  /\ callback \in [Job -> {"none", "refund", "mark"}]

(***************************************************************************)
(* Contract 18, "two workers, one due intent: one messages.create": over   *)
(* all attempts, lease recoveries and overlapping invocations, an intent   *)
(* leads to at most one request to the provider (the two gates are the     *)
(* delivery row's key and the compare-and-set to `sending').               *)
(***************************************************************************)
Requested(d) == provider[d].requests > 0
JobsOf(i) == {d \in Job : d[1] = i}

AtMostOneSend ==
  \A i \in Intent, d, e \in Job :
    d[1] = i /\ e[1] = i =>
      /\ provider[d].requests <= 1
      /\ Requested(d) /\ Requested(e) => d = e

(***************************************************************************)
(* Contract 19, "reservation released after proven acceptance: zero": no   *)
(* sweep, loser of a race or stale worker frees the hold of a message the  *)
(* provider took.                                                          *)
(***************************************************************************)
AcceptedBySms(d) == Channel[d[1]] = "sms" /\ provider[d].fate \in Heard

NeverReleasedAfterAcceptance ==
  \A d \in Job : AcceptedBySms(d) => reservation[delivery[d].hold].status \in {"held", "settled"}

(***************************************************************************)
(* What an intent says is what happened to it: sent means accepted, and    *)
(* paid for if an SMS; a failed SMS means the provider did not take it;    *)
(* waiting, canceled, expired and blocked mean it was never asked.         *)
(***************************************************************************)
NeverAsked == {"none", "pending", "claimed", "canceled", "expired", "blocked_no_credit"}

StatusTellsTruth ==
  \A i \in Intent :
    /\ intent[i].status \in NeverAsked => \A d \in JobsOf(i) : ~Requested(d)
    /\ intent[i].status = "sent" =>
         \E d \in JobsOf(i) :
           /\ provider[d].fate \in Heard
           /\ Channel[i] = "sms" => reservation[delivery[d].hold].status = "settled"
    /\ Channel[i] = "sms" /\ intent[i].status = "failed" =>
         \A d \in JobsOf(i) : provider[d].fate \notin Heard

(***************************************************************************)
(* The evidence on a delivery row agrees with the credit account, although *)
(* two transactions write them: settled or refunded rows were charged,     *)
(* refunded ones were given back, and closed ones hold nothing any more.   *)
(***************************************************************************)
EvidenceAgrees ==
  \A d \in Job :
    LET hold == reservation[delivery[d].hold] IN
    /\ delivery[d].settlement \in {"settled", "refunded"} => hold.status = "settled"
    /\ delivery[d].settlement = "refunded" => hold.refunded
    /\ delivery[d].settlement = "not_applicable" => hold.status = "released"
    /\ callback[d] = "mark" => hold.refunded

(***************************************************************************)
(* Contract 19, "callback status never regresses": neither a late callback *)
(* nor the worker's own accepted write lowers the rank of a delivery.      *)
(***************************************************************************)
DeliveryNeverRegresses ==
  [][\A d \in Job : Rank[delivery'[d].status] >= Rank[delivery[d].status]]_delivery

(***************************************************************************)
(* The pipeline as a whole implements SendOnce.                            *)
(***************************************************************************)
RequestedJobs(i) == {d \in JobsOf(i) : Requested(d)}
HoldsOf(i) == {r \in Hold : r[1][1] = i}
Fate(i) ==
  IF RequestedJobs(i) = {} THEN "no" ELSE provider[CHOOSE d \in RequestedJobs(i) : TRUE].fate
Paid(i) == Cardinality({r \in HoldsOf(i) : reservation[r].status = "settled"})
Returned(i) == Cardinality({r \in HoldsOf(i) : reservation[r].refunded})

Once == INSTANCE SendOnce WITH
  Message <- Intent,
  asked <- [i \in Intent |-> Fate(i)],
  paid <- [i \in Intent |-> Paid(i)],
  returned <- [i \in Intent |-> Returned(i)]

ImplementsSendOnce == Once!Spec

(***************************************************************************)
(* No intent is left behind: whatever workers die, it leaves the waiting   *)
(* and in-flight states (the lease and notAfter see to it).                *)
(***************************************************************************)
LiveStatus == {"pending", "claimed", "sending", "blocked_no_credit"}

EveryIntentResolves ==
  \A i \in Intent : intent[i].status \in LiveStatus ~> intent[i].status \notin LiveStatus

(***************************************************************************)
(* A hold whose worker died before it wrote the delivery row is given back *)
(* by the sweep (contract 7.6): no message keeps one for ever.             *)
(***************************************************************************)
UnderWay(r) == \E d \in Job : delivery[d].hold = r

Abandoned(r) == reservation[r].status = "held" /\ ~UnderWay(r)

AbandonedHoldsReturn ==
  \A i \in Intent :
    LET left == \E r \in Hold : r[1][1] = i /\ Abandoned(r) IN left ~> ~left

(***************************************************************************)
(* communicationDispatcher.ts:564, "without this sweep a crashed worker's  *)
(* reservation would suppress the salon's balance forever": every hold     *)
(* whose message was not sent, and is not in doubt, ends.                  *)
(***************************************************************************)
InDoubt(r) == intent[r[1][1]].status = "send_outcome_unknown" \/ Requested(r[1])

UnsentHoldsEnd ==
  \A r \in Hold :
    reservation[r].status = "held" /\ ~InDoubt(r) ~> reservation[r].status # "held" \/ InDoubt(r)
=============================================================================
