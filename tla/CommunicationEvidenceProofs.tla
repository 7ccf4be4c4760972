-------------------- MODULE CommunicationEvidenceProofs --------------------
(***************************************************************************)
(* What the rows of a message say of it: the hold of an accepted message   *)
(* is never released, delivery row and credit account agree, an intent's   *)
(* status is true, and the pipeline implements SendOnce.                   *)
(***************************************************************************)
EXTENDS CommunicationDispatchProofs, FiniteSetTheorems

(***************************************************************************)
(* How a worker moves.                                                     *)
(***************************************************************************)
OthersStay(w) == \A v \in Worker \ {w} : worker'[v] = worker[v]
Keeps(w) ==
  /\ worker'[w].job = worker[w].job /\ worker'[w].hold = worker[w].hold
  /\ worker'[w].todo = worker[w].todo /\ worker'[w].now = worker[w].now

LEMMA GotoMoves ==
  ASSUME TypeOK, NEW w \in Worker, NEW pc, Goto(w, pc)
  PROVE OthersStay(w) /\ Keeps(w) /\ worker'[w].pc = pc /\ worker'[w].reason = worker[w].reason
BY DEF TypeOK, WorkerState, Goto, OthersStay, Keeps

LEMMA StopMoves ==
  ASSUME TypeOK, NEW w \in Worker, NEW reason, Stop(w, reason)
  PROVE OthersStay(w) /\ Keeps(w) /\ worker'[w].pc = "release" /\ worker'[w].reason = reason
BY DEF TypeOK, WorkerState, Stop, OthersStay, Keeps

LEMMA FinishMoves ==
  ASSUME TypeOK, NEW w \in Worker, Finish(w)
  PROVE /\ OthersStay(w)
        /\ \/ worker'[w] = Idle
           \/ /\ worker'[w].pc = "batch" /\ worker'[w].hold = NoHold
              /\ worker'[w].todo = worker[w].todo /\ worker'[w].now = worker[w].now
BY DEF TypeOK, WorkerState, Finish, OthersStay

LEMMA DismissMoves ==
  ASSUME TypeOK, NEW w \in Worker, NEW d, Dismiss(w, d)
  PROVE /\ OthersStay(w)
        /\ \/ worker'[w] = Idle
           \/ /\ worker'[w].pc = worker[w].pc /\ worker'[w].hold = worker[w].hold
              /\ worker'[w].todo = worker[w].todo \ {d} /\ worker'[w].now = worker[w].now
BY DEF TypeOK, WorkerState, Dismiss, Without, OthersStay

LEMMA BegunTyped ==
  ASSUME TypeOK, NEW w \in Worker, NEW d \in Job
  PROVE /\ Begin(w, d) \in WorkerState
        /\ Begin(w, d).job = d /\ Begin(w, d).todo = worker[w].todo \ {d}
        /\ Begin(w, d).now = worker[w].now /\ Begin(w, d).hold = worker[w].hold
BY DEF TypeOK, WorkerState, Begin, Without

LEMMA ReserveMoves ==
  ASSUME TypeOK, NEW w \in Worker, NEW d \in Job, NEW r,
         worker' = [worker EXCEPT ![w] = [Begin(w, d) EXCEPT !.pc = "insert", !.hold = r]]
  PROVE /\ OthersStay(w)
        /\ worker'[w].pc = "insert" /\ worker'[w].job = d /\ worker'[w].hold = r
        /\ worker'[w].todo = worker[w].todo \ {d} /\ worker'[w].now = worker[w].now
<1> DEFINE s == [Begin(w, d) EXCEPT !.pc = "insert", !.hold = r]
<1>1. /\ s.pc = "insert" /\ s.job = d /\ s.hold = r
      /\ s.todo = worker[w].todo \ {d} /\ s.now = worker[w].now
  BY BegunTyped DEF WorkerState
<1>2. worker'[w] = s /\ OthersStay(w)
  BY DEF TypeOK, OthersStay
<1> QED
  BY <1>1, <1>2

LEMMA EmailMoves ==
  ASSUME TypeOK, NEW w \in Worker, NEW d \in Job,
         worker' = [worker EXCEPT ![w] = [Begin(w, d) EXCEPT !.pc = "sending"]]
  PROVE /\ OthersStay(w)
        /\ worker'[w].pc = "sending" /\ worker'[w].job = d /\ worker'[w].hold = worker[w].hold
        /\ worker'[w].todo = worker[w].todo \ {d} /\ worker'[w].now = worker[w].now
<1> DEFINE s == [Begin(w, d) EXCEPT !.pc = "sending"]
<1>1. /\ s.pc = "sending" /\ s.job = d /\ s.hold = worker[w].hold
      /\ s.todo = worker[w].todo \ {d} /\ s.now = worker[w].now
  BY BegunTyped DEF WorkerState
<1>2. worker'[w] = s /\ OthersStay(w)
  BY DEF TypeOK, OthersStay
<1> QED
  BY <1>1, <1>2

(***************************************************************************)
(* Jobs, attempts and clocks.  Two invocations take up the same job of an  *)
(* SMS only if both were alive when its attempt was the newest, so neither *)
(* began more than RunLimit after the other; a hold made for the job is    *)
(* good for twice as long and outlives both.                               *)
(***************************************************************************)
Sms(d) == Channel[d[1]] = "sms"

Loaded(w) == worker[w].pc \notin {"idle", "claim", "load"}
Ahead(w, d) ==
  /\ Sms(d)
  /\ \/ Loaded(w) /\ d \in worker[w].todo
     \/ worker[w].pc = "load" /\ <<d[1], 0>> \in worker[w].todo /\ intent[d[1]].attempts = d[2]
Inserting(w, d) == worker[w].pc = "insert" /\ worker[w].job = d
Carries(w, d) == (Loaded(w) /\ Ahead(w, d)) \/ Inserting(w, d)
MayTakeUp(w, d) == Ahead(w, d) \/ Inserting(w, d)

ClocksBehind == \A w \in Worker : worker[w].now <= now
AttemptsCounted ==
  /\ \A i \in Intent : intent[i].status = "none" => intent[i].attempts = 0
  /\ \A w \in Worker, i \in Intent :
       worker[w].pc = "load" /\ <<i, 0>> \in worker[w].todo => intent[i].attempts >= 1
  /\ \A w \in Worker : worker[w].pc = "load" => worker[w].todo \subseteq Intent \X {0}
  /\ \A w \in Worker, d \in Job :
       MayTakeUp(w, d) => 1 <= d[2] /\ d[2] <= intent[d[1]].attempts
ClocksClose ==
  \A v, w \in Worker, d \in Job :
    Carries(w, d) /\ MayTakeUp(v, d) => worker[v].now <= worker[w].now + RunLimit
HoldsLast ==
  \A r \in Hold, v \in Worker :
    reservation[r].status # "none" /\ MayTakeUp(v, r[1])
      => worker[v].now + RunLimit <= reservation[r].expiresAt
HoldsTaken ==
  \A r \in Hold : reservation[r].status # "none" =>
    /\ Sms(r[1]) /\ 1 <= r[1][2] /\ r[1][2] <= intent[r[1][1]].attempts
    /\ ~Ahead(r[2], r[1])

TimeInv == ClocksBehind /\ AttemptsCounted /\ ClocksClose /\ HoldsLast /\ HoldsTaken

\* A step that gives no worker a job, and no job a hold or an attempt.
Lessens(w) ==
  \/ worker'[w] = worker[w]
  \/ worker'[w].pc \in {"idle", "claim"} /\ worker'[w].now <= now'
  \/ /\ Loaded(w) /\ worker'[w].pc \notin {"idle", "claim", "load", "insert"}
     /\ worker'[w].todo \subseteq worker[w].todo /\ worker'[w].now = worker[w].now
AllLessen == \A w \in Worker : Lessens(w)
HoldsSame ==
  \A r \in Hold : reservation'[r].status # "none" =>
    reservation[r].status # "none" /\ reservation'[r].expiresAt = reservation[r].expiresAt
AttemptsSame ==
  \A i \in Intent :
    /\ intent'[i].attempts = intent[i].attempts
    /\ intent'[i].status = "none" => intent[i].status = "none"

LEMMA JobParts ==
  /\ \A d \in Job : d[1] \in Intent /\ d[2] \in 0..MaxAttempts /\ d[2] \in Int
  /\ \A r \in Hold : r[1] \in Job /\ r[2] \in Worker
BY TimeAssumption DEF Job, Hold

LEMMA TimeKept ==
  ASSUME TypeOK, TimeInv, now' \in Nat, now <= now', AllLessen, HoldsSame, AttemptsSame
  PROVE TimeInv'
<1>1. /\ \A w \in Worker : worker[w].now \in Nat
      /\ \A i \in Intent : intent[i].attempts \in Nat
      /\ now \in Nat /\ RunLimit \in Nat
  BY TimeAssumption DEF TypeOK, WorkerState, IntentRow
<1>2. \A w \in Worker, d \in Job : Ahead(w, d)' => Ahead(w, d)
  BY JobParts DEF AllLessen, Lessens, Ahead, Loaded, AttemptsSame, Sms
<1>3. \A w \in Worker, d \in Job : MayTakeUp(w, d)' =>
        MayTakeUp(w, d) /\ worker'[w].now = worker[w].now
  BY <1>2, JobParts DEF AllLessen, Lessens, MayTakeUp, Ahead, Inserting, Loaded
<1>4. \A w \in Worker, d \in Job : Carries(w, d)' => Carries(w, d)
  BY <1>2, JobParts DEF AllLessen, Lessens, Carries, Ahead, Inserting, Loaded
<1>5. ClocksBehind'
  BY <1>1 DEF TimeInv, ClocksBehind, AllLessen, Lessens
<1>6. AttemptsCounted'
  <2>1. \A w \in Worker : worker'[w].pc = "load" => worker'[w] = worker[w]
    BY DEF AllLessen, Lessens
  <2> QED
    BY <1>3, <2>1, JobParts DEF TimeInv, AttemptsCounted, AttemptsSame
<1>7. ClocksClose'
  <2>1. \A w \in Worker, d \in Job : Carries(w, d) => MayTakeUp(w, d)
    BY DEF Carries, MayTakeUp
  <2>2. \A w \in Worker, d \in Job : Carries(w, d)' => MayTakeUp(w, d)'
    BY DEF Carries, MayTakeUp
  <2> SUFFICES ASSUME NEW v \in Worker, NEW w \in Worker, NEW d \in Job,
                      Carries(w, d)', MayTakeUp(v, d)'
               PROVE worker'[v].now <= worker'[w].now + RunLimit
    BY DEF ClocksClose
  <2> QED
    BY <1>3, <1>4, <2>2 DEF TimeInv, ClocksClose
<1>8. HoldsLast'
  BY <1>3, JobParts DEF TimeInv, HoldsLast, HoldsSame
<1>9. HoldsTaken'
  BY <1>2, JobParts DEF TimeInv, HoldsTaken, HoldsSame, AttemptsSame, Sms
<1> QED
  BY <1>5, <1>6, <1>7, <1>8, <1>9 DEF TimeInv

LEMMA OneLessens ==
  ASSUME NEW w \in Worker, OthersStay(w), Lessens(w)
  PROVE AllLessen
BY DEF OthersStay, AllLessen, Lessens

LEMMA GotoLessens ==
  ASSUME TypeOK, NEW w \in Worker, NEW pc, Goto(w, pc), Loaded(w),
         pc \notin {"idle", "claim", "load", "insert"}
  PROVE AllLessen
BY GotoMoves, OneLessens DEF Keeps, Lessens

LEMMA StopLessens ==
  ASSUME TypeOK, NEW w \in Worker, NEW reason, Stop(w, reason), Loaded(w)
  PROVE AllLessen
BY StopMoves, OneLessens DEF Keeps, Lessens

LEMMA FinishLessens ==
  ASSUME TypeOK, now' \in Nat, NEW w \in Worker, Finish(w), Loaded(w)
  PROVE AllLessen
BY FinishMoves, OneLessens DEF Lessens, Idle

LEMMA DismissLessens ==
  ASSUME TypeOK, now' \in Nat, NEW w \in Worker, NEW d, Dismiss(w, d), worker[w].pc = "batch"
  PROVE AllLessen
BY DismissMoves, OneLessens DEF Lessens, Loaded, Idle

LEMMA PipelineLessens ==
  ASSUME TypeOK, NEW w \in Worker, Pipeline(w)
  PROVE AllLessen /\ now' = now
<1>1. now' = now /\ now \in Nat
  BY TimeAssumption
     DEF TypeOK, Pipeline, InsertDelivery, ToSending, Superseded, ReleaseReservation,
         CloseDelivery, ResolveStopped, FinalCheck, CallProvider, AnswerAccepted, AnswerRefused,
         AnswerLost, AcceptDelivery, SettleReservation, MarkSettled, RecheckTerminalFailure,
         MarkRefunded, ToSent, SendEmail, CloseEmail
<1>2. CASE CloseEmail(w)
  <2>1. Loaded(w)
    BY <1>2 DEF CloseEmail, At, Loaded
  <2>2. CASE Goto(w, "sent")
    BY <1>1, <2>1, <2>2, GotoLessens
  <2>3. CASE worker' = [worker EXCEPT ![w].pc = "resolve", ![w].reason = "failed"]
    <3>1. /\ OthersStay(w) /\ worker'[w].pc = "resolve"
          /\ worker'[w].todo = worker[w].todo /\ worker'[w].now = worker[w].now
      BY <2>3 DEF TypeOK, WorkerState, OthersStay
    <3> QED
      BY <1>1, <2>1, <3>1, OneLessens DEF Lessens
  <2> QED
    BY <1>1, <1>2, <2>2, <2>3 DEF CloseEmail
<1>3. CASE ~CloseEmail(w)
  <2>1. Loaded(w)
    BY <1>3
       DEF Pipeline, InsertDelivery, ToSending, Superseded, ReleaseReservation, CloseDelivery,
           ResolveStopped, FinalCheck, CallProvider, AnswerAccepted, AnswerRefused, AnswerLost,
           AcceptDelivery, SettleReservation, MarkSettled, RecheckTerminalFailure, MarkRefunded,
           ToSent, SendEmail, At, Loaded
  <2>2. \/ Finish(w)
        \/ \E reason : Stop(w, reason)
        \/ \E pc : Goto(w, pc) /\ pc \notin {"idle", "claim", "load", "insert"}
    <3>1. ASSUME ToSending(w) PROVE Finish(w) \/ Goto(w, "final") \/ Goto(w, "email")
                                    \/ Goto(w, "superseded")
      BY <3>1 DEF ToSending
    <3>2. ASSUME InsertDelivery(w) \/ CloseDelivery(w) \/ ResolveStopped(w) \/ AnswerLost(w)
                 \/ ToSent(w) \/ FinalCheck(w) \/ AnswerRefused(w) \/ Superseded(w)
          PROVE Finish(w) \/ Goto(w, "sending") \/ Goto(w, "resolve") \/ Goto(w, "call")
                \/ \E reason : Stop(w, reason)
      BY <3>2 DEF InsertDelivery, CloseDelivery, ResolveStopped, AnswerLost, ToSent, FinalCheck,
                  AnswerRefused, Superseded
    <3>3. ASSUME ~Finish(w), ~\E reason : Stop(w, reason), ~ToSending(w), ~Goto(w, "sending"),
                 ~Goto(w, "resolve"), ~Goto(w, "call")
          PROVE \E pc \in {"close", "answer", "accept", "settle", "mark", "recheck", "remark",
                            "sent", "emailed"} : Goto(w, pc)
      BY <1>3, <3>2, <3>3
         DEF Pipeline, ReleaseReservation, CallProvider, AnswerAccepted, AcceptDelivery,
             SettleReservation, MarkSettled, RecheckTerminalFailure, MarkRefunded, SendEmail
    <3> QED
      BY <3>1, <3>3
  <2> QED
    BY <1>1, <2>1, <2>2, FinishLessens, StopLessens, GotoLessens
<1> QED
  BY <1>2, <1>3

LEMMA HoldsStaySame ==
  ASSUME TypeOK,
         \/ UNCHANGED reservation
         \/ \E r : \/ reservation' = Released(r) \/ reservation' = Settled(r)
                   \/ reservation' = Refunded(r)
  PROVE HoldsSame
BY DEF TypeOK, ReservationRow, Released, Settled, Refunded, HoldsSame

LEMMA TransitionCounts ==
  ASSUME TypeOK, NEW i, NEW to, to # "none", TransitionIntent(i, to)
  PROVE AttemptsSame
BY DEF TypeOK, IntentRow, TransitionIntent, AttemptsSame

LEMMA PipelineTime ==
  ASSUME TypeOK, PlacesFit, TimeInv, NEW w \in Worker, Pipeline(w)
  PROVE TimeInv'
<1>1. HoldsSame
  BY HoldsStaySame
     DEF Pipeline, InsertDelivery, ToSending, Superseded, ReleaseReservation,
         CloseDelivery, ResolveStopped, FinalCheck, CallProvider, AnswerAccepted, AnswerRefused,
         AnswerLost, AcceptDelivery, SettleReservation, MarkSettled, RecheckTerminalFailure,
         MarkRefunded, ToSent, SendEmail, CloseEmail
<1>2. AttemptsSame
  <2>1. CASE ResolveStopped(w)
    BY <2>1, TransitionCounts DEF ResolveStopped, PlacesFit, PlaceFits, At
  <2>2. CASE AnswerLost(w) \/ ToSent(w)
    BY <2>2, TransitionCounts DEF AnswerLost, ToSent
  <2>3. CASE ToSending(w)
    BY <2>3 DEF ToSending, AttemptsSame, TypeOK, IntentRow
  <2>4. CASE UNCHANGED intent
    BY <2>4 DEF AttemptsSame
  <2> QED
    BY <2>1, <2>2, <2>3, <2>4
       DEF Pipeline, InsertDelivery, Superseded, ReleaseReservation, CloseDelivery, FinalCheck,
           CallProvider, AnswerAccepted, AnswerRefused, AcceptDelivery, SettleReservation,
           MarkSettled, RecheckTerminalFailure, MarkRefunded, SendEmail, CloseEmail
<1>3. now \in Nat
  BY TimeAssumption DEF TypeOK
<1> QED
  BY <1>1, <1>2, <1>3, PipelineLessens, TimeKept

LEMMA TablesTime ==
  ASSUME TypeOK, TimeInv,
         Producer \/ Housekeeping \/ Provider \/ Tick \/ \E d \in Job : CallbackCrash(d)
  PROVE TimeInv'
<1>1. AllLessen /\ now' \in Nat /\ now <= now'
  <2>1. UNCHANGED worker /\ (UNCHANGED now \/ Tick)
    BY DEF Producer, EnqueueCommunicationIntent,
           CancelAppointmentIntents, ReleaseBlockedIntentsAfterTopup, Housekeeping, RecoverClaimed,
           ParkSending, ExpireStaleIntents, ReapExpiredReservations, ResolverSettles,
           ResolverAdopts, Provider, ProviderReports, StatusCallback, CallbackRefund,
           CallbackMarkRefunded, Tick, CallbackCrash
  <2>2. now \in Nat
    BY TimeAssumption DEF TypeOK
  <2> QED
    BY <2>1, <2>2 DEF AllLessen, Lessens, Tick
<1>2. HoldsSame
  BY HoldsStaySame
     DEF Producer, EnqueueCommunicationIntent,
         CancelAppointmentIntents, ReleaseBlockedIntentsAfterTopup, Housekeeping, RecoverClaimed,
         ParkSending, ExpireStaleIntents, ReapExpiredReservations, ResolverSettles, ResolverAdopts,
         Provider, ProviderReports, StatusCallback, CallbackRefund, CallbackMarkRefunded, Tick,
         CallbackCrash
<1>3. AttemptsSame
  <2>1. ASSUME NEW i \in Intent, EnqueueCommunicationIntent(i) PROVE AttemptsSame
    BY <2>1 DEF EnqueueCommunicationIntent, AttemptsSame, TypeOK, IntentRow, NoIntent, TimeInv,
                AttemptsCounted
  <2>2. ASSUME NEW i \in Intent,
               \/ CancelAppointmentIntents(i) \/ ReleaseBlockedIntentsAfterTopup(i)
               \/ RecoverClaimed(i) \/ ParkSending(i) \/ ExpireStaleIntents(i)
               \/ ResolverAdopts(i)
        PROVE AttemptsSame
    BY <2>2
       DEF CancelAppointmentIntents, ReleaseBlockedIntentsAfterTopup, RecoverClaimed, ParkSending,
           ExpireStaleIntents, ResolverAdopts, AttemptsSame, TypeOK, IntentRow
  <2>3. CASE UNCHANGED intent
    BY <2>3 DEF AttemptsSame
  <2> QED
    BY <2>1, <2>2, <2>3
       DEF Producer, Housekeeping, ReapExpiredReservations, ResolverSettles,
           Provider, ProviderReports, StatusCallback, CallbackRefund, CallbackMarkRefunded, Tick,
           CallbackCrash
<1> QED
  BY <1>1, <1>2, <1>3, TimeKept

LEMMA DismissTime ==
  ASSUME TypeOK, TimeInv, NEW w \in Worker, NEW d \in worker[w].todo,
         TemplateUnknown(w, d) \/ Suppress(w, d) \/ DeferIntent(w, d) \/ NoCreditsLeft(w, d)
  PROVE TimeInv'
<1>1. /\ UNCHANGED <<now, reservation>> /\ now \in Nat
      /\ Dismiss(w, d) /\ worker[w].pc = "batch"
  BY TimeAssumption
     DEF TypeOK, TemplateUnknown, Suppress, DeferIntent, NoCreditsLeft, Take, At
<1>2. AttemptsSame
  <2>1. CASE DeferIntent(w, d)
    BY <2>1 DEF DeferIntent, AttemptsSame, TypeOK, IntentRow
  <2>2. CASE TemplateUnknown(w, d) \/ Suppress(w, d) \/ NoCreditsLeft(w, d)
    BY <2>2, TransitionCounts DEF TemplateUnknown, Suppress, NoCreditsLeft
  <2> QED
    BY <2>1, <2>2
<1> QED
  BY <1>1, <1>2, DismissLessens, HoldsStaySame, TimeKept

LEMMA BeginTime ==
  ASSUME TypeOK, TimeInv, NEW w \in Worker,
         \/ \E t \in 0..now : PickDueIntents(w, t)
         \/ \E d \in worker[w].todo : InsertEmailDelivery(w, d)
         \/ Crash(w)
  PROVE TimeInv'
<1>1. UNCHANGED <<now, reservation, intent>> /\ now \in Nat
  <2>1. UNCHANGED <<now, reservation, intent>>
    BY DEF PickDueIntents, InsertEmailDelivery, Crash
  <2> QED
    BY <2>1, TimeAssumption DEF TypeOK
<1>2. OthersStay(w) /\ Lessens(w)
  <2>1. ASSUME NEW t \in 0..now, PickDueIntents(w, t) PROVE OthersStay(w) /\ Lessens(w)
    <3>0. PICK n \in SalonLimits :
            worker' = [worker EXCEPT ![w] = [Idle EXCEPT !.pc = "claim", !.now = t,
                         !.todo = (UNION {First(n, s, t) : s \in Salon}) \X {0}]]
      BY <2>1 DEF PickDueIntents
    <3> DEFINE picked == UNION {First(n, s, t) : s \in Salon}
               begun == [Idle EXCEPT !.pc = "claim", !.now = t, !.todo = picked \X {0}]
    <3>1. begun.pc = "claim" /\ begun.now = t
      BY DEF Idle
    <3>2. worker' = [worker EXCEPT ![w] = begun]
      BY <3>0
    <3> HIDE DEF begun
    <3>3. worker'[w] = begun /\ OthersStay(w)
      BY <3>2 DEF TypeOK, OthersStay
    <3> QED
      BY <1>1, <3>1, <3>3 DEF Lessens
  <2>2. ASSUME NEW d \in worker[w].todo, InsertEmailDelivery(w, d)
        PROVE OthersStay(w) /\ Lessens(w)
    <3>1. d \in Job /\ worker[w].pc = "batch"
      BY <2>2, TakenTyped DEF InsertEmailDelivery, Take, At
    <3>2. OthersStay(w) /\ worker'[w].pc = "sending"
          /\ worker'[w].todo = worker[w].todo \ {d} /\ worker'[w].now = worker[w].now
      BY <2>2, <3>1, EmailMoves DEF InsertEmailDelivery
    <3> QED
      BY <3>1, <3>2 DEF Lessens, Loaded
  <2>3. CASE Crash(w)
    BY <1>1, <2>3 DEF Crash, TypeOK, OthersStay, Lessens, Idle
  <2> QED
    BY <2>1, <2>2, <2>3
<1> QED
  BY <1>1, <1>2, OneLessens, HoldsStaySame, TimeKept DEF AttemptsSame

\* An attempt that has just been counted is nobody's job yet, and has no hold.
LEMMA ClaimTime ==
  ASSUME TypeOK, TimeInv, NEW w \in Worker, ClaimDueIntents(w)
  PROVE TimeInv'
<1> DEFINE won == {i \in Intent : <<i, 0>> \in worker[w].todo /\ intent[i].status = "pending"}
<1>1. /\ UNCHANGED <<now, reservation>> /\ now \in Nat /\ OthersStay(w)
      /\ worker[w].now \in Nat /\ worker[w].pc = "claim"
      /\ intent' = [i \in Intent |-> IF i \in won THEN Claimed(worker[w].now, i) ELSE intent[i]]
  BY TimeAssumption DEF TypeOK, WorkerState, ClaimDueIntents, At, OthersStay
<1>2. \/ worker'[w] = Idle
      \/ /\ worker'[w].pc = "load" /\ worker'[w].now = worker[w].now
         /\ worker'[w].todo = won \X {0}
  <2> HIDE DEF won
  <2>1. worker' = [worker EXCEPT ![w] =
          IF won = {} THEN Idle ELSE [@ EXCEPT !.pc = "load", !.todo = won \X {0}]]
    BY DEF ClaimDueIntents, won
  <2> QED
    BY <2>1 DEF TypeOK, WorkerState
<1>3. \A i \in Intent :
        /\ intent[i].attempts \in Nat
        /\ i \in won => intent'[i].attempts = intent[i].attempts + 1
                       /\ intent'[i].status = "claimed"
        /\ i \notin won => intent'[i] = intent[i]
  <2>1. \A i \in Intent : intent[i] \in IntentRow
    BY DEF TypeOK
  <2>2. \A i \in Intent : LET c == Claimed(worker[w].now, i) IN
           c.attempts = intent[i].attempts + 1 /\ c.status = "claimed"
    BY <2>1 DEF Claimed, IntentRow
  <2> HIDE DEF won
  <2> QED
    BY <1>1, <2>1, <2>2 DEF IntentRow
<1> HIDE DEF won
<1>4. /\ \A i \in Intent : intent'[i].attempts >= intent[i].attempts
      /\ \A i \in Intent : intent'[i].attempts # intent[i].attempts =>
           intent'[i].attempts > intent[i].attempts
      /\ \A i \in Intent : intent'[i].attempts \in Nat
      /\ \A i \in Intent : intent'[i].status = "none" => intent'[i] = intent[i]
  BY <1>3
\* Who may take up a job now, could before, or the job is of a new attempt.
<1>5. \A v \in Worker, d \in Job : MayTakeUp(v, d)' =>
        \/ MayTakeUp(v, d) /\ worker'[v].now = worker[v].now
        \/ d[2] > intent[d[1]].attempts /\ d[2] <= intent'[d[1]].attempts /\ 1 <= d[2]
           /\ worker'[v].pc = "load"
  <2> SUFFICES ASSUME NEW v \in Worker, NEW d \in Job, MayTakeUp(v, d)'
               PROVE \/ MayTakeUp(v, d) /\ worker'[v].now = worker[v].now
                     \/ d[2] > intent[d[1]].attempts /\ d[2] <= intent'[d[1]].attempts
                        /\ 1 <= d[2] /\ worker'[v].pc = "load"
    OBVIOUS
  <2>1. d[1] \in Intent /\ d[2] \in Int /\ intent[d[1]].attempts \in Nat
    BY <1>3, JobParts
  <2>2. CASE v = w
    <3>1. worker'[w].pc = "load" /\ Sms(d) /\ d[1] \in won /\ intent'[d[1]].attempts = d[2]
      BY <1>2, <2>1, <2>2 DEF MayTakeUp, Ahead, Inserting, Loaded, Idle, Sms
    <3> QED
      BY <1>3, <2>1, <2>2, <3>1
  <2>3. CASE v # w
    <3>1. worker'[v] = worker[v]
      BY <1>1, <2>3 DEF OthersStay
    <3>2. CASE intent'[d[1]].attempts = intent[d[1]].attempts
      BY <3>1, <3>2 DEF MayTakeUp, Ahead, Inserting, Loaded, Sms
    <3>3. CASE intent'[d[1]].attempts # intent[d[1]].attempts /\ worker[v].pc # "load"
      BY <3>1, <3>3 DEF MayTakeUp, Ahead, Inserting, Loaded, Sms
    <3>4. CASE intent'[d[1]].attempts # intent[d[1]].attempts /\ worker[v].pc = "load"
      <4>1. intent'[d[1]].attempts = d[2]
        BY <3>1, <3>4 DEF MayTakeUp, Ahead, Inserting, Loaded, Sms
      <4> QED
        BY <1>4, <2>1, <3>1, <3>4, <4>1
    <3> QED
      BY <3>2, <3>3, <3>4
  <2> QED
    BY <2>2, <2>3
<1>6. \A v \in Worker, d \in Job : Carries(v, d)' =>
        /\ Carries(v, d) /\ worker'[v].now = worker[v].now
        /\ d[2] <= intent[d[1]].attempts
  <2> SUFFICES ASSUME NEW v \in Worker, NEW d \in Job, Carries(v, d)'
               PROVE /\ Carries(v, d) /\ worker'[v].now = worker[v].now
                     /\ d[2] <= intent[d[1]].attempts
    OBVIOUS
  <2>1. v # w
    BY <1>2 DEF Carries, Inserting, Loaded, Idle
  <2>2. worker'[v] = worker[v]
    BY <1>1, <2>1 DEF OthersStay
  <2>3. Carries(v, d)
    BY <2>2 DEF Carries, Inserting, Loaded, Ahead, Sms
  <2>4. MayTakeUp(v, d)
    BY <2>3 DEF Carries, MayTakeUp
  <2> QED
    BY <2>2, <2>3, <2>4 DEF TimeInv, AttemptsCounted
<1>7. ClocksBehind'
  BY <1>1, <1>2 DEF TimeInv, ClocksBehind, OthersStay, Idle
<1>8. AttemptsCounted'
  <2>1. \A i \in Intent : intent'[i].status = "none" => intent'[i].attempts = 0
    BY <1>4 DEF TimeInv, AttemptsCounted
  <2>2. \A v \in Worker, i \in Intent :
          worker'[v].pc = "load" /\ <<i, 0>> \in worker'[v].todo => intent'[i].attempts >= 1
    <3> SUFFICES ASSUME NEW v \in Worker, NEW i \in Intent,
                        worker'[v].pc = "load", <<i, 0>> \in worker'[v].todo
                 PROVE intent'[i].attempts >= 1
      OBVIOUS
    <3>1. CASE v = w
      <4>1. i \in won
        BY <1>2, <3>1 DEF Idle
      <4> QED
        BY <1>3, <4>1
    <3>2. CASE v # w
      BY <1>1, <1>3, <1>4, <3>2 DEF OthersStay, TimeInv, AttemptsCounted
    <3> QED
      BY <3>1, <3>2
  <2>3. \A v \in Worker, d \in Job :
          MayTakeUp(v, d)' => 1 <= d[2] /\ d[2] <= intent'[d[1]].attempts
    BY <1>3, <1>4, <1>5, JobParts DEF TimeInv, AttemptsCounted
  <2>4. \A v \in Worker : worker'[v].pc = "load" => worker'[v].todo \subseteq Intent \X {0}
    <3>1. won \subseteq Intent
      BY DEF won
    <3>2. worker'[w].pc = "load" => worker'[w].todo \subseteq Intent \X {0}
      BY <1>2, <3>1 DEF Idle
    <3> QED
      BY <1>1, <3>2 DEF OthersStay, TimeInv, AttemptsCounted
  <2> QED
    BY <2>1, <2>2, <2>3, <2>4 DEF AttemptsCounted
<1>9. ClocksClose'
  <2> SUFFICES ASSUME NEW u \in Worker, NEW v \in Worker, NEW d \in Job,
                      Carries(v, d)', MayTakeUp(u, d)'
               PROVE worker'[u].now <= worker'[v].now + RunLimit
    BY DEF ClocksClose
  <2>1. d[2] \in Int /\ intent[d[1]].attempts \in Nat
    BY <1>3, JobParts
  <2>2. MayTakeUp(u, d) /\ worker'[u].now = worker[u].now
    BY <1>5, <1>6, <2>1
  <2> QED
    BY <1>6, <2>2 DEF TimeInv, ClocksClose
<1>10. HoldsLast'
  <2> SUFFICES ASSUME NEW r \in Hold, NEW v \in Worker, reservation[r].status # "none",
                      MayTakeUp(v, r[1])'
               PROVE worker'[v].now + RunLimit <= reservation[r].expiresAt
    BY <1>1 DEF HoldsLast
  <2>1. r[1][2] <= intent[r[1][1]].attempts /\ r[1][2] \in Int
        /\ intent[r[1][1]].attempts \in Nat /\ r[1] \in Job
    BY <1>3, JobParts DEF TimeInv, HoldsTaken
  <2>2. MayTakeUp(v, r[1]) /\ worker'[v].now = worker[v].now
    BY <1>5, <2>1
  <2> QED
    BY <2>2 DEF TimeInv, HoldsLast
<1>11. HoldsTaken'
  <2> SUFFICES ASSUME NEW r \in Hold, reservation[r].status # "none"
               PROVE /\ Sms(r[1]) /\ 1 <= r[1][2] /\ r[1][2] <= intent'[r[1][1]].attempts
                     /\ ~Ahead(r[2], r[1])'
    BY <1>1 DEF HoldsTaken, Sms
  <2>1. /\ r[1] \in Job /\ r[1][1] \in Intent /\ r[2] \in Worker /\ r[1][2] \in Int
        /\ Sms(r[1]) /\ 1 <= r[1][2] /\ r[1][2] <= intent[r[1][1]].attempts
        /\ ~Ahead(r[2], r[1]) /\ intent[r[1][1]].attempts \in Nat
    BY <1>3, JobParts DEF TimeInv, HoldsTaken
  <2>2. r[1][2] <= intent'[r[1][1]].attempts
    BY <1>4, <2>1
  <2>3. ASSUME Ahead(r[2], r[1])' PROVE FALSE
    <3>1. ~(r[1][2] > intent[r[1][1]].attempts)
      BY <2>1
    <3>2. MayTakeUp(r[2], r[1])'
      BY <2>3 DEF MayTakeUp
    <3>3. MayTakeUp(r[2], r[1])
      BY <1>5, <2>1, <3>1, <3>2
    <3>4. Inserting(r[2], r[1])
      BY <2>1, <3>3 DEF MayTakeUp
    <3>5. r[2] # w
      BY <1>1, <3>4 DEF Inserting
    <3>6. worker'[r[2]] = worker[r[2]] /\ worker[r[2]].pc = "insert"
      BY <1>1, <2>1, <3>4, <3>5 DEF OthersStay, Inserting
    <3> QED
      BY <2>1, <2>3, <3>6 DEF Ahead, Loaded, Sms
  <2> QED
    BY <2>1, <2>2, <2>3
<1> QED
  BY <1>7, <1>8, <1>9, <1>10, <1>11 DEF TimeInv

\* Who loads a job is alive, and nobody else can have begun after it by more.
LEMMA LoadTime ==
  ASSUME TypeOK, TimeInv, NEW w \in Worker, LoadClaimedIntents(w)
  PROVE TimeInv'
<1>1. /\ UNCHANGED <<now, reservation, intent>> /\ now \in Nat /\ RunLimit \in Nat
      /\ worker[w].pc = "load" /\ now - worker[w].now <= RunLimit
  BY TimeAssumption DEF TypeOK, LoadClaimedIntents, At
<1>2. /\ OthersStay(w) /\ worker'[w].pc = "batch" /\ worker'[w].now = worker[w].now
      /\ worker'[w].todo = {JobOf(d[1]) : d \in worker[w].todo}
  BY DEF LoadClaimedIntents, TypeOK, WorkerState, OthersStay
<1>3. \A v \in Worker : worker[v].now \in Nat /\ worker'[v].now = worker[v].now
                        /\ worker[v].now <= now
  BY <1>2 DEF OthersStay, TypeOK, WorkerState, TimeInv, ClocksBehind
<1>4. \A v \in Worker, d \in Job : Ahead(v, d)' => Ahead(v, d)
  <2> SUFFICES ASSUME NEW d \in Job, Ahead(w, d)' PROVE Ahead(w, d)
    BY <1>1, <1>2 DEF OthersStay, Ahead, Loaded, Sms
  <2>1. Sms(d) /\ d \in worker'[w].todo
    BY <1>2 DEF Ahead, Loaded, Sms
  <2>2. PICK e \in worker[w].todo : d = JobOf(e[1])
    BY <1>2, <2>1
  <2>3. e = <<e[1], 0>> /\ e[1] \in Intent
    BY <1>1, <2>2 DEF TimeInv, AttemptsCounted
  <2>4. d[1] = e[1]
    BY <2>2 DEF JobOf
  <2>5. d[2] = intent[d[1]].attempts
    BY <2>1, <2>2, <2>4 DEF JobOf, Sms
  <2> QED
    BY <1>1, <2>1, <2>2, <2>3, <2>4, <2>5 DEF Ahead
<1>5. \A v \in Worker, d \in Job : MayTakeUp(v, d)' => MayTakeUp(v, d)
  BY <1>2, <1>4 DEF OthersStay, MayTakeUp, Inserting
<1>6. ClocksBehind' /\ HoldsTaken'
  BY <1>1, <1>3, <1>4, JobParts DEF TimeInv, ClocksBehind, HoldsTaken, Sms
<1>7. AttemptsCounted'
  <2>1. \A v \in Worker : worker'[v].pc = "load" => worker'[v] = worker[v]
    BY <1>2 DEF OthersStay
  <2> QED
    BY <1>1, <1>5, <2>1 DEF TimeInv, AttemptsCounted
<1>8. ClocksClose'
  <2> SUFFICES ASSUME NEW u \in Worker, NEW v \in Worker, NEW d \in Job,
                      Carries(v, d)', MayTakeUp(u, d)'
               PROVE worker'[u].now <= worker'[v].now + RunLimit
    BY DEF ClocksClose
  <2>1. CASE v = w
    BY <1>1, <1>3, <2>1
  <2>2. CASE v # w
    <3>1. Carries(v, d)
      BY <1>1, <1>2, <2>2 DEF OthersStay, Carries, Ahead, Loaded, Inserting, Sms
    <3> QED
      BY <1>3, <1>5, <3>1 DEF TimeInv, ClocksClose
  <2> QED
    BY <2>1, <2>2
<1>9. HoldsLast'
  BY <1>1, <1>3, <1>5, JobParts DEF TimeInv, HoldsLast
<1> QED
  BY <1>6, <1>7, <1>8, <1>9 DEF TimeInv

LEMMA ReserveTime ==
  ASSUME TypeOK, TimeInv, NEW w \in Worker, NEW d \in worker[w].todo, ReserveSmsCredits(w, d)
  PROVE TimeInv'
<1>1. /\ UNCHANGED <<now, intent>> /\ now \in Nat /\ RunLimit \in Nat /\ d \in Job
      /\ worker[w].pc = "batch" /\ Sms(d)
  <2>1. UNCHANGED <<now, intent>> /\ worker[w].pc = "batch" /\ Sms(d)
    BY DEF ReserveSmsCredits, Take, At, Sms
  <2>2. now \in Nat
    BY TimeAssumption DEF TypeOK
  <2> QED
    BY <2>1, <2>2, TakenTyped, TimeAssumption
<1>2. /\ OthersStay(w) /\ worker'[w].pc = "insert" /\ worker'[w].job = d
      /\ worker'[w].now = worker[w].now /\ worker'[w].todo = worker[w].todo \ {d}
  <2>1. PICK r : worker' = [worker EXCEPT ![w] = [Begin(w, d) EXCEPT !.pc = "insert", !.hold = r]]
    BY DEF ReserveSmsCredits
  <2> QED
    BY <1>1, <2>1, ReserveMoves
<1>3. \A v \in Worker : worker[v].now \in Nat /\ worker'[v].now = worker[v].now
                        /\ worker[v].now <= now
  BY <1>2 DEF OthersStay, TypeOK, WorkerState, TimeInv, ClocksBehind
<1>4. \A v \in Worker, e \in Job : Ahead(v, e)' => Ahead(v, e)
  BY <1>1, <1>2 DEF OthersStay, Ahead, Loaded, Sms
<1>5. /\ Carries(w, d) /\ ~Ahead(w, d)'
      /\ \A v \in Worker, e \in Job : Inserting(v, e)' => Inserting(v, e) \/ (v = w /\ e = d)
  BY <1>1, <1>2 DEF OthersStay, Carries, Ahead, Loaded, Inserting
<1>6. MayTakeUp(w, d)
  BY <1>5 DEF Carries, MayTakeUp
<1>7. \A v \in Worker, e \in Job : MayTakeUp(v, e)' => MayTakeUp(v, e)
  BY <1>4, <1>5, <1>6 DEF MayTakeUp
<1>8. \A v \in Worker, e \in Job : Carries(v, e)' => Carries(v, e)
  <2> SUFFICES ASSUME NEW v \in Worker, NEW e \in Job, Carries(v, e)' PROVE Carries(v, e)
    OBVIOUS
  <2>1. CASE v = w
    BY <1>1, <1>4, <1>5, <2>1 DEF Carries, Loaded
  <2>2. CASE v # w
    BY <1>1, <1>2, <2>2 DEF OthersStay, Carries, Ahead, Loaded, Inserting, Sms
  <2> QED
    BY <2>1, <2>2
\* The only hold that may be new is that of this job and this worker.
<1>9. \A r \in Hold : reservation'[r].status # "none" =>
        \/ reservation'[r] = reservation[r]
        \/ r = <<d, w>> /\ reservation'[r].expiresAt = worker[w].now + ReservationTTL
  <2> DEFINE row == [status |-> "held", expiresAt |-> worker[w].now + ReservationTTL,
                     refunded |-> FALSE]
  <2>1. \/ UNCHANGED reservation
        \/ reservation' = [reservation EXCEPT ![<<d, w>>] = row]
    BY DEF ReserveSmsCredits
  <2>2. row.expiresAt = worker[w].now + ReservationTTL
    OBVIOUS
  <2>3. reservation \in [Hold -> ReservationRow]
    BY DEF TypeOK
  <2> HIDE DEF row
  <2> QED
    BY <2>1, <2>2, <2>3
<1>10. ClocksBehind' /\ ClocksClose'
  BY <1>1, <1>3, <1>7, <1>8 DEF TimeInv, ClocksBehind, ClocksClose
<1>11. AttemptsCounted'
  <2>1. \A v \in Worker : worker'[v].pc = "load" => worker'[v] = worker[v]
    BY <1>2 DEF OthersStay
  <2> QED
    BY <1>1, <1>7, <2>1 DEF TimeInv, AttemptsCounted
<1>12. HoldsLast'
  <2> SUFFICES ASSUME NEW r \in Hold, NEW v \in Worker, reservation'[r].status # "none",
                      MayTakeUp(v, r[1])'
               PROVE worker'[v].now + RunLimit <= reservation'[r].expiresAt
    BY DEF HoldsLast
  <2>1. r[1] \in Job /\ MayTakeUp(v, r[1])
    BY <1>7, JobParts
  <2>2. CASE reservation'[r] = reservation[r]
    BY <1>3, <2>1, <2>2 DEF TimeInv, HoldsLast
  <2>3. CASE r = <<d, w>> /\ reservation'[r].expiresAt = worker[w].now + ReservationTTL
    <3>1. worker[v].now <= worker[w].now + RunLimit
      BY <1>1, <1>5, <2>1, <2>3 DEF TimeInv, ClocksClose
    <3> QED
      BY <1>1, <1>3, <2>3, <3>1, TimeAssumption
  <2> QED
    BY <1>9, <2>2, <2>3
<1>13. HoldsTaken'
  <2> SUFFICES ASSUME NEW r \in Hold, reservation'[r].status # "none"
               PROVE /\ Sms(r[1]) /\ 1 <= r[1][2] /\ r[1][2] <= intent[r[1][1]].attempts
                     /\ ~Ahead(r[2], r[1])'
    BY <1>1 DEF HoldsTaken, Sms
  <2>1. CASE reservation'[r] = reservation[r]
    BY <1>4, <2>1, JobParts DEF TimeInv, HoldsTaken
  <2>2. CASE r = <<d, w>>
    BY <1>1, <1>5, <1>6, <2>2 DEF TimeInv, AttemptsCounted
  <2> QED
    BY <1>9, <2>1, <2>2
<1> QED
  BY <1>10, <1>11, <1>12, <1>13 DEF TimeInv

LEMMA TimeStep ==
  ASSUME TypeOK, PlacesFit, TimeInv, [Next]_vars
  PROVE TimeInv'
<1>1. CASE Producer \/ Housekeeping \/ Provider \/ Tick
  BY <1>1, TablesTime
<1>2. ASSUME NEW w \in Worker, Batch(w) PROVE TimeInv'
  BY <1>2, BeginTime, ClaimTime, LoadTime, DismissTime, ReserveTime DEF Batch
<1>3. ASSUME NEW w \in Worker, Pipeline(w) PROVE TimeInv'
  BY <1>3, PipelineTime
<1>4. ASSUME NEW w \in Worker, Crash(w) PROVE TimeInv'
  BY <1>4, BeginTime
<1>5. ASSUME NEW d \in Job, CallbackCrash(d) PROVE TimeInv'
  BY <1>5, TablesTime
<1>6. CASE UNCHANGED vars
  <2>1. AllLessen /\ HoldsSame /\ AttemptsSame /\ now' = now /\ now \in Nat
    BY <1>6, TimeAssumption DEF vars, AllLessen, Lessens, HoldsSame, AttemptsSame, TypeOK
  <2> QED
    BY <2>1, TimeKept
<1> QED
  BY <1>1, <1>2, <1>3, <1>4, <1>5, <1>6 DEF Next

LEMMA InitTime == Init => TimeInv
BY TimeAssumption
   DEF Init, TimeInv, ClocksBehind, AttemptsCounted, ClocksClose, HoldsLast, HoldsTaken,
       MayTakeUp, Carries, Ahead, Inserting, Loaded, Idle, NoIntent, NoReservation

(***************************************************************************)
(* The rows of one message.  The invocation that inserts the delivery row  *)
(* of an SMS owns the job from then on: nobody else moves the row, its     *)
(* hold or its request, except the provider once it took the message, and  *)
(* the resolver on the evidence of that.                                   *)
(***************************************************************************)
Reached(d) == provider[d].fate \in Heard
HoldOf(d) == reservation[delivery[d].hold]

SmsPc == {"insert", "superseded", "release", "close", "final", "call", "answer", "accept",
          "settle", "mark", "recheck", "remark"}
OwnPc == {"sending", "superseded", "release", "close", "resolve", "final", "call", "answer",
          "accept", "settle", "mark", "recheck", "remark", "sent"}
EmailPc == {"email", "emailed"}
BeforeAsk == {"sending", "superseded", "final", "call"}
GivingUp == {"release", "close", "resolve"}
AfterSettle == {"mark", "recheck", "remark", "sent"}
AfterAccept == {"accept", "settle", "mark", "recheck", "remark", "sent"}

\* An invocation is in the lane of its job, and what it was handed is there.
LaneFits(s) ==
  /\ s.pc \in SmsPc => Sms(s.job)
  /\ s.pc \in EmailPc => ~Sms(s.job)
  /\ s.pc \notin BatchPc => s.job[1] \in KnownTemplate
  /\ s.pc \in BatchPc => s.hold = NoHold
  /\ s.pc \notin BatchPc /\ ~Sms(s.job) => s.hold = NoHold
  /\ s.pc = "insert" => /\ s.hold \in Hold /\ s.hold[1] = s.job
                        /\ reservation[s.hold].status # "none"

\* The hold that a live invocation is about to insert under is still there.
HoldFits(s) ==
  s.pc = "insert" /\ now - s.now <= RunLimit /\ delivery[s.job].status = "none"
    => reservation[s.hold].status = "held"

OwnerFits(s) ==
  s.pc \in OwnPc /\ Sms(s.job) =>
    /\ delivery[s.job].status # "none" /\ delivery[s.job].hold = s.hold
    /\ s.pc \in BeforeAsk => /\ reservation[s.hold].status = "held"
                             /\ provider[s.job].requests = 0
                             /\ delivery[s.job].settlement = "settling"
    /\ s.pc \in GivingUp => /\ ~Reached(s.job)
                            /\ s.reason = "failed" => provider[s.job].fate = "refused"
    /\ s.pc = "close" => reservation[s.hold].status = "released"
    /\ s.pc = "answer" => provider[s.job].requests > 0
    /\ s.pc \in AfterAccept => Reached(s.job)
    /\ s.pc \in AfterSettle => reservation[s.hold].status = "settled"
    /\ s.pc = "remark" => reservation[s.hold].refunded

EmailerFits(s) ==
  s.pc \notin BatchPc /\ ~Sms(s.job) =>
    /\ s.pc = "emailed" => provider[s.job].requests > 0
    /\ s.pc \in EmailPc => delivery[s.job].status \in {"none", "queued"}
    /\ s.pc = "sent" => Reached(s.job)

WorkFits(s) == LaneFits(s) /\ HoldFits(s) /\ OwnerFits(s) /\ EmailerFits(s)
WorkersFit == \A w \in Worker : WorkFits(worker[w])

Owns(s, d) == s.pc \in OwnPc /\ s.job = d /\ Sms(d)
OwnersApart ==
  \A v, w \in Worker, d \in Job : Owns(worker[v], d) /\ Owns(worker[w], d) => v = w
Emailed(s, d) == s.pc = "emailed" /\ s.job = d
EmailersApart ==
  \A v, w \in Worker, d \in Job : Emailed(worker[v], d) /\ Emailed(worker[w], d) => v = w

\* What was asked, and that a message without a row, or by email, owes nothing.
RequestFits(d) ==
  /\ delivery[d].status = "none" \/ ~Sms(d) =>
       delivery[d].settlement = "none" /\ ~delivery[d].sid /\ callback[d] = "none"
  /\ Sms(d) /\ delivery[d].status = "none" => provider[d].requests = 0
  /\ provider[d].requests = 0 <=> provider[d].fate = "none"
  /\ ~Sms(d) /\ provider[d].requests = 0 => delivery[d].status \in {"none", "queued"}
  /\ provider[d].requests > 0 => d[1] \in KnownTemplate

\* The delivery row of an SMS against its hold and its request.
RowFits(d) ==
  Sms(d) /\ delivery[d].status # "none" =>
    /\ delivery[d].hold \in Hold /\ delivery[d].hold[1] = d
    /\ HoldOf(d).status # "none"
    /\ delivery[d].settlement # "none"
    /\ delivery[d].settlement = "settling" => delivery[d].status # "canceled"
    /\ delivery[d].settlement \in {"settled", "refunded"} => HoldOf(d).status = "settled"
    /\ delivery[d].settlement = "refunded" => HoldOf(d).refunded
    /\ delivery[d].settlement = "not_applicable" => HoldOf(d).status = "released"
    /\ Reached(d) => HoldOf(d).status \in {"held", "settled"}
    /\ delivery[d].sid => Reached(d)
    /\ delivery[d].status \in {"failed", "canceled"} =>
         delivery[d].settlement = "not_applicable" \/ provider[d].fate = "failed"
    /\ callback[d] # "none" => /\ delivery[d].settlement \in {"settled", "refunded"}
                               /\ provider[d].fate = "failed"
    /\ callback[d] = "mark" => HoldOf(d).refunded
RowsFit == \A d \in Job : RequestFits(d) /\ RowFits(d)

\* A charge belongs to the row of a message that was taken.
ChargeFits(r) ==
  /\ reservation[r].refunded =>
       reservation[r].status = "settled" /\ provider[r[1]].fate = "failed"
  /\ reservation[r].status = "settled" =>
       /\ delivery[r[1]].hold = r /\ delivery[r[1]].status # "none"
       /\ Reached(r[1])
ChargesFit == \A r \in Hold : ChargeFits(r)

\* The row and the hold an intent names, and what its last status rests on.
Outcome(i) ==
  /\ intent[i].status = "sent" =>
       \E d \in JobsOf(i) : Reached(d) /\ (Sms(d) => HoldOf(d).status = "settled")
  /\ Channel[i] = "sms" /\ intent[i].status = "failed" =>
       i \notin KnownTemplate \/ \E d \in JobsOf(i) : provider[d].fate = "refused"
LinkFits(i) ==
  /\ intent[i].delivery # NoJob => intent[i].delivery \in Job /\ intent[i].delivery[1] = i
  /\ intent[i].hold # NoHold =>
       LET d == intent[i].delivery
       IN /\ d \in Job /\ d[1] = i /\ Sms(d)
          /\ delivery[d].status # "none" /\ delivery[d].hold = intent[i].hold
  /\ Channel[i] = "sms" /\ intent[i].status \in {"sending", "send_outcome_unknown"} =>
       intent[i].hold # NoHold
LinksFit == \A i \in Intent : LinkFits(i) /\ Outcome(i)

EvidenceInv ==
  WorkersFit /\ OwnersApart /\ EmailersApart /\ RowsFit /\ ChargesFit /\ LinksFit

(***************************************************************************)
(* Frames.  What no step undoes (Grows); a step about one job (Touches);   *)
(* a step that makes no new owner; a step that leaves the links alone.     *)
(***************************************************************************)
Grows ==
  /\ \A d \in Job :
       /\ delivery[d].status # "none" =>
            delivery'[d].status # "none" /\ delivery'[d].hold = delivery[d].hold
       /\ provider[d].fate = "refused" => provider'[d].fate = "refused"
       /\ Reached(d) => Reached(d)'
       /\ provider[d].requests > 0 => provider'[d].requests > 0
  /\ \A r \in Hold :
       /\ reservation[r].status = "settled" => reservation'[r].status = "settled"
       /\ reservation[r].status # "none" => reservation'[r].status # "none"
       /\ reservation[r].refunded => reservation'[r].refunded

Touches(d) ==
  /\ \A e \in Job \ {d} :
       /\ delivery'[e] = delivery[e] /\ provider'[e] = provider[e] /\ callback'[e] = callback[e]
  /\ \A r \in Hold : r[1] # d => reservation'[r] = reservation[r]

NoNewOwner ==
  \A w \in Worker, d \in Job :
    /\ Owns(worker'[w], d) => Owns(worker[w], d)
    /\ Emailed(worker'[w], d) => Emailed(worker[w], d)

LinksKept ==
  \A i \in Intent :
    /\ \/ intent'[i].hold = intent[i].hold /\ intent'[i].delivery = intent[i].delivery
       \/ intent'[i].hold = NoHold /\ intent'[i].delivery = NoJob
    /\ intent'[i].status \in {"sending", "send_outcome_unknown"} =>
         /\ intent[i].status \in {"sending", "send_outcome_unknown"}
         /\ intent'[i].hold = intent[i].hold
    /\ intent'[i].status \in {"sent", "failed"} => intent'[i].status = intent[i].status

SameTables == UNCHANGED <<delivery, reservation, provider, callback>>

\* The evidence invariant in a state, without the workers.
TablesFit == RowsFit /\ ChargesFit

LEMMA SameGrows ==
  ASSUME SameTables
  PROVE Grows
BY DEF SameTables, Grows, Reached

LEMMA SameTablesFit ==
  ASSUME SameTables, TablesFit
  PROVE TablesFit'
BY DEF SameTables, TablesFit, RowsFit, ChargesFit, RequestFits, RowFits, ChargeFits, HoldOf, Reached,
       Sms

LEMMA ApartKept ==
  ASSUME OwnersApart, EmailersApart, NoNewOwner
  PROVE OwnersApart' /\ EmailersApart'
BY DEF OwnersApart, EmailersApart, NoNewOwner, Owns, Emailed, Sms

\* An outcome stands while the tables grow.
LEMMA OutcomeStands ==
  ASSUME TypeOK, TablesFit, Grows, NEW i \in Intent, Outcome(i),
         intent'[i].status \in {"sent", "failed"} => intent'[i].status = intent[i].status
  PROVE Outcome(i)'
<1>1. CASE intent'[i].status = "sent"
  <2>1. PICK d \in JobsOf(i) : Reached(d) /\ (Sms(d) => HoldOf(d).status = "settled")
    BY <1>1 DEF Outcome
  <2>2. d \in Job
    BY <2>1 DEF JobsOf
  <2>3. Reached(d)'
    BY <2>1, <2>2 DEF Grows
  <2>4. ASSUME Sms(d) PROVE HoldOf(d)'.status = "settled"
    <3>1. provider[d].requests # 0
      BY <2>1, <2>2 DEF TablesFit, RowsFit, RequestFits, Reached, Heard
    <3>2. delivery[d].status # "none" /\ delivery[d].hold \in Hold
      BY <2>2, <2>4, <3>1 DEF TablesFit, RowsFit, RequestFits, RowFits
    <3> QED
      BY <2>1, <2>2, <2>4, <3>2 DEF Grows, HoldOf
  <2> QED
    BY <1>1, <2>1, <2>3, <2>4 DEF Outcome, JobsOf, Sms
<1>2. CASE intent'[i].status = "failed"
  <2>1. ASSUME Channel[i] = "sms", i \in KnownTemplate
        PROVE \E d \in JobsOf(i) : provider'[d].fate = "refused"
    <3>1. PICK d \in JobsOf(i) : provider[d].fate = "refused"
      BY <1>2, <2>1 DEF Outcome
    <3> QED
      BY <3>1 DEF Grows, JobsOf
  <2> QED
    BY <1>2, <2>1 DEF Outcome, JobsOf
<1>3. CASE intent'[i].status \notin {"sent", "failed"}
  BY <1>3 DEF Outcome
<1> QED
  BY <1>1, <1>2, <1>3

LEMMA LinkStands ==
  ASSUME TypeOK, Grows, NEW i \in Intent, LinkFits(i),
         \/ intent'[i].hold = intent[i].hold /\ intent'[i].delivery = intent[i].delivery
         \/ intent'[i].hold = NoHold /\ intent'[i].delivery = NoJob,
         intent'[i].status \in {"sending", "send_outcome_unknown"} =>
           /\ intent[i].status \in {"sending", "send_outcome_unknown"}
           /\ intent'[i].hold = intent[i].hold
  PROVE LinkFits(i)'
BY DEF LinkFits, Grows, Sms

LEMMA LinksStand ==
  ASSUME TypeOK, TablesFit, LinksFit, Grows, LinksKept
  PROVE LinksFit'
BY OutcomeStands, LinkStands DEF LinksFit, LinksKept

LEMMA SameLinks == UNCHANGED intent => LinksKept
BY DEF LinksKept

\* What a step by another may not do to the rows an invocation relies on.
Undisturbed(s) ==
  /\ s.pc = "insert" /\ now - s.now <= RunLimit /\ delivery'[s.job].status = "none" =>
       reservation'[s.hold].status = reservation[s.hold].status
  /\ s.pc \in BeforeAsk \cup GivingUp /\ Sms(s.job) =>
       /\ reservation'[s.hold].status = reservation[s.hold].status
       /\ provider'[s.job] = provider[s.job]
       /\ delivery'[s.job].settlement = delivery[s.job].settlement
  /\ s.pc \in EmailPc /\ delivery[s.job].status \in {"none", "queued"} =>
       delivery'[s.job].status \in {"none", "queued"}

LEMMA PlacesApart ==
  /\ BatchPc \cap (OwnPc \cup SmsPc \cup EmailPc) = {} /\ "insert" \notin BatchPc
  /\ BeforeAsk \cup GivingUp \cup AfterSettle \cup AfterAccept \subseteq OwnPc
BY DEF BatchPc, OwnPc, SmsPc, EmailPc, BeforeAsk, GivingUp, AfterSettle, AfterAccept

LEMMA UnmovedFits ==
  ASSUME TypeOK, PlacesFit, Grows, NEW v \in Worker, worker'[v] = worker[v],
         WorkFits(worker[v]), Undisturbed(worker[v]), RowsFit, now <= now', now' \in Nat
  PROVE WorkFits(worker[v])'
<1> DEFINE s == worker[v]
<1>1. /\ s.pc \notin BatchPc => s.job \in Job
      /\ s.now \in Nat /\ now \in Nat /\ RunLimit \in Nat
  BY TimeAssumption DEF TypeOK, WorkerState, PlacesFit, PlaceFits
<1>2. s.pc \in OwnPc /\ Sms(s.job) => s.hold \in Hold
  BY <1>1, PlacesApart DEF WorkFits, OwnerFits, RowsFit, RowFits
<1> USE PlacesApart
<1> HIDE DEF s
<1>3. LaneFits(s) /\ HoldFits(s) /\ OwnerFits(s) /\ EmailerFits(s) /\ Undisturbed(s)
  BY DEF s, WorkFits
<1>4. LaneFits(worker[v])'
  BY <1>1, <1>3 DEF s, LaneFits, Grows, Sms
<1>5. HoldFits(worker[v])'
  BY <1>1, <1>3 DEF s, HoldFits, Grows, Undisturbed
<1>6. OwnerFits(worker[v])'
  <2> SUFFICES ASSUME s.pc \in OwnPc, Sms(s.job) PROVE OwnerFits(worker[v])'
    BY DEF OwnerFits, Sms, s
  <2>1. s.job \in Job /\ s.hold \in Hold
    BY <1>1, <1>2
  <2>2. /\ delivery'[s.job].status # "none" /\ delivery'[s.job].hold = s.hold
        /\ s.pc \in BeforeAsk => /\ reservation'[s.hold].status = "held"
                                 /\ provider'[s.job].requests = 0
                                 /\ delivery'[s.job].settlement = "settling"
        /\ s.pc \in GivingUp =>
             provider'[s.job].fate \notin Heard
             /\ (s.reason = "failed" => provider'[s.job].fate = "refused")
        /\ s.pc = "close" => reservation'[s.hold].status = "released"
    BY <1>3, <2>1 DEF OwnerFits, Undisturbed, Grows, Reached, GivingUp
  <2>3. /\ s.pc = "answer" => provider'[s.job].requests > 0
        /\ s.pc \in AfterAccept => provider'[s.job].fate \in Heard
        /\ s.pc \in AfterSettle => reservation'[s.hold].status = "settled"
        /\ s.pc = "remark" => reservation'[s.hold].refunded
    BY <1>3, <2>1 DEF OwnerFits, Grows, Reached
  <2> QED
    BY <2>2, <2>3 DEF OwnerFits, s, Reached
<1>7. EmailerFits(worker[v])'
  <2> SUFFICES ASSUME s.pc \notin BatchPc, ~Sms(s.job) PROVE EmailerFits(worker[v])'
    BY DEF EmailerFits, Sms, s
  <2>1. /\ s.pc = "emailed" => provider'[s.job].requests > 0
        /\ s.pc \in EmailPc => delivery'[s.job].status \in {"none", "queued"}
        /\ s.pc = "sent" => provider'[s.job].fate \in Heard
    BY <1>1, <1>3 DEF EmailerFits, Undisturbed, Grows, Reached
  <2> QED
    BY <2>1 DEF EmailerFits, s, Reached
<1> QED
  BY <1>4, <1>5, <1>6, <1>7 DEF WorkFits

LEMMA OthersFit ==
  ASSUME TypeOK, PlacesFit, EvidenceInv, Grows, NEW w \in Worker, OthersStay(w), now' = now,
         \A v \in Worker \ {w} : Undisturbed(worker[v]), WorkFits(worker[w])'
  PROVE WorkersFit'
<1>1. now \in Nat
  BY TimeAssumption DEF TypeOK
<1>2. ASSUME NEW v \in Worker, v # w PROVE WorkFits(worker[v])'
  BY <1>1, <1>2, UnmovedFits DEF EvidenceInv, WorkersFit, OthersStay
<1> QED
  BY <1>2 DEF WorkersFit

\* A step of a worker that touches no row of a message.
LEMMA SameTablesStep ==
  ASSUME TypeOK, PlacesFit, EvidenceInv, NEW w \in Worker, OthersStay(w), now' = now,
         SameTables, WorkFits(worker[w])', NoNewOwner, LinksFit'
  PROVE EvidenceInv'
<1>1. \A v \in Worker : Undisturbed(worker[v])
  BY DEF SameTables, Undisturbed
<1>2. WorkersFit'
  BY <1>1, OthersFit, SameGrows
<1>3. TablesFit'
  BY SameTablesFit DEF EvidenceInv, TablesFit
<1> QED
  BY <1>2, <1>3, ApartKept DEF EvidenceInv, TablesFit

\* Nobody else relies on the rows of a job that has an owner, or whose message
\* was taken.
LEMMA TouchesOne ==
  ASSUME TypeOK, PlacesFit, EvidenceInv, NEW d \in Job, Sms(d), delivery[d].status # "none",
         Touches(d), Grows, NEW v \in Worker,
         Reached(d) \/ \E w \in Worker \ {v} : Owns(worker[w], d)
  PROVE Undisturbed(worker[v])
<1> DEFINE s == worker[v]
<1>1. /\ s.pc \notin BatchPc => s.job \in Job
      /\ LaneFits(s) /\ OwnerFits(s)
  BY DEF PlacesFit, PlaceFits, EvidenceInv, WorkersFit, WorkFits
<1>2. RowFits(d) /\ RequestFits(d)
  BY DEF EvidenceInv, RowsFit
<1>3. \A e \in Job : RowFits(e)
  BY DEF EvidenceInv, RowsFit
<1>4. Owns(s, d) => ~\E w \in Worker \ {v} : Owns(worker[w], d)
  BY DEF EvidenceInv, OwnersApart
<1> USE PlacesApart
<1> HIDE DEF s
<1>5. s.pc = "insert" /\ delivery'[s.job].status = "none" =>
        reservation'[s.hold].status = reservation[s.hold].status
  BY <1>1 DEF LaneFits, Touches, Grows
<1>6. s.pc \in BeforeAsk \cup GivingUp /\ Sms(s.job) =>
       /\ reservation'[s.hold].status = reservation[s.hold].status
       /\ provider'[s.job] = provider[s.job]
       /\ delivery'[s.job].settlement = delivery[s.job].settlement
  <2> SUFFICES ASSUME s.pc \in BeforeAsk \cup GivingUp, Sms(s.job)
               PROVE s.job # d /\ s.job \in Job /\ s.hold \in Hold /\ s.hold[1] = s.job
    BY DEF Touches
  <2>1. s.job \in Job /\ s.hold \in Hold /\ s.hold[1] = s.job
    BY <1>1, <1>3 DEF OwnerFits, RowFits
  <2>2. ASSUME s.job = d PROVE FALSE
    <3>1. ~Reached(d)
      BY <1>1, <1>2, <2>2 DEF OwnerFits, RequestFits, Reached, Heard
    <3> QED
      BY <1>4, <2>2, <3>1 DEF Owns
  <2> QED
    BY <2>1, <2>2
<1>7. s.pc \in EmailPc => s.job \in Job /\ s.job # d
  BY <1>1 DEF LaneFits
<1> QED
  BY <1>5, <1>6, <1>7 DEF Undisturbed, Touches, s

LEMMA TablesKept ==
  ASSUME TypeOK, EvidenceInv, NEW d \in Job, Touches(d), RequestFits(d)', RowFits(d)',
         \A r \in Hold : r[1] = d => ChargeFits(r)'
  PROVE TablesFit'
<1>1. ASSUME NEW e \in Job, e # d PROVE RequestFits(e)' /\ RowFits(e)'
  <2>1. RequestFits(e) /\ RowFits(e)
    BY DEF EvidenceInv, RowsFit
  <2>2. /\ delivery'[e] = delivery[e] /\ provider'[e] = provider[e] /\ callback'[e] = callback[e]
        /\ \A r \in Hold : r[1] = e => reservation'[r] = reservation[r]
    BY <1>1 DEF Touches
  <2>3. RequestFits(e)'
    BY <2>1, <2>2 DEF RequestFits, Sms
  <2>4. RowFits(e)'
    BY <2>1, <2>2 DEF RowFits, Sms, HoldOf, Reached
  <2> QED
    BY <2>3, <2>4
<1>2. ASSUME NEW r \in Hold, r[1] # d PROVE ChargeFits(r)'
  <2>1. ChargeFits(r) /\ r[1] \in Job
    BY JobParts DEF EvidenceInv, ChargesFit
  <2> QED
    BY <1>2, <2>1 DEF Touches, ChargeFits, Reached
<1> QED
  BY <1>1, <1>2 DEF TablesFit, RowsFit, ChargesFit

LEMMA TablesAre == EvidenceInv => TablesFit
BY DEF EvidenceInv, TablesFit

\* A step of the owner of a job about the rows of the job.
LEMMA OwnStep ==
  ASSUME TypeOK, PlacesFit, EvidenceInv, NEW w \in Worker, NEW d \in Job, Owns(worker[w], d),
         Touches(d), Grows, OthersStay(w), now' = now, UNCHANGED intent,
         WorkFits(worker[w])', NoNewOwner, RequestFits(d)', RowFits(d)',
         \A r \in Hold : r[1] = d => ChargeFits(r)'
  PROVE EvidenceInv'
<1>1. Sms(d) /\ delivery[d].status # "none"
  BY DEF Owns, EvidenceInv, WorkersFit, WorkFits, OwnerFits
<1>2. \A v \in Worker \ {w} : Undisturbed(worker[v])
  BY <1>1, TouchesOne
<1>3. WorkersFit'
  BY <1>2, OthersFit
<1>4. TablesFit'
  BY TablesKept
<1>5. LinksFit'
  BY TablesAre, LinksStand, SameLinks DEF EvidenceInv
<1> QED
  BY <1>3, <1>4, <1>5, ApartKept DEF EvidenceInv, TablesFit

\* A step of the provider or the resolver about a message that was taken.
LEMMA ReachedStep ==
  ASSUME TypeOK, PlacesFit, EvidenceInv, NEW d \in Job, Sms(d), delivery[d].status # "none",
         Reached(d), Touches(d), Grows, UNCHANGED <<now, worker, intent>>,
         RequestFits(d)', RowFits(d)', \A r \in Hold : r[1] = d => ChargeFits(r)'
  PROVE EvidenceInv'
<1>1. now' \in Nat /\ now <= now'
  BY TimeAssumption DEF TypeOK
<1>2. ASSUME NEW v \in Worker PROVE WorkFits(worker[v])'
  BY <1>1, TouchesOne, UnmovedFits DEF EvidenceInv, WorkersFit
<1>3. WorkersFit'
  BY <1>2 DEF WorkersFit
<1>4. TablesFit'
  BY TablesKept
<1>5. LinksFit'
  BY TablesAre, LinksStand, SameLinks DEF EvidenceInv
<1>6. NoNewOwner
  BY DEF NoNewOwner
<1> QED
  BY <1>3, <1>4, <1>5, <1>6, ApartKept DEF EvidenceInv, TablesFit

\* A step of a table alone that touches no row of a message.
LEMMA IntentStep ==
  ASSUME TypeOK, PlacesFit, EvidenceInv, UNCHANGED worker, SameTables, now' \in Nat, now <= now',
         LinksFit'
  PROVE EvidenceInv'
<1>1. ASSUME NEW v \in Worker PROVE WorkFits(worker[v])'
  <2>1. Undisturbed(worker[v])
    BY DEF SameTables, Undisturbed
  <2> QED
    BY <2>1, UnmovedFits, SameGrows DEF EvidenceInv, WorkersFit
<1>2. WorkersFit'
  BY <1>1 DEF WorkersFit
<1>3. NoNewOwner
  BY DEF NoNewOwner
<1> QED
  BY <1>2, <1>3, TablesAre, SameTablesFit, ApartKept DEF EvidenceInv, TablesFit

\* A worker that is between jobs owns nothing, and relies on nothing.
LEMMA RestFits ==
  ASSUME NEW w \in Worker, worker'[w].pc \in BatchPc, worker'[w].hold = NoHold
  PROVE WorkFits(worker[w])'
BY PlacesApart DEF WorkFits, LaneFits, HoldFits, OwnerFits, EmailerFits

LEMMA RestQuiet ==
  ASSUME NEW w \in Worker, OthersStay(w), worker'[w].pc \in BatchPc
  PROVE NoNewOwner
<1>1. ~(worker'[w].pc \in OwnPc) /\ worker'[w].pc # "emailed"
  BY PlacesApart DEF BatchPc
<1> QED
  BY <1>1 DEF OthersStay, NoNewOwner, Owns, Emailed

LEMMA MoveQuiet ==
  ASSUME NEW w \in Worker, OthersStay(w), worker'[w].job = worker[w].job,
         worker'[w].pc # "emailed",
         Sms(worker[w].job) /\ worker'[w].pc \in OwnPc => worker[w].pc \in OwnPc
  PROVE NoNewOwner
BY DEF OthersStay, NoNewOwner, Owns, Emailed

LEMMA FinishRests ==
  ASSUME TypeOK, NEW w \in Worker, Finish(w)
  PROVE /\ OthersStay(w) /\ worker'[w].pc \in BatchPc /\ worker'[w].hold = NoHold
        /\ WorkFits(worker[w])' /\ NoNewOwner
<1>1. OthersStay(w) /\ worker'[w].pc \in BatchPc /\ worker'[w].hold = NoHold
  BY FinishMoves DEF Idle, BatchPc
<1> QED
  BY <1>1, RestFits, RestQuiet

LEMMA DismissRests ==
  ASSUME TypeOK, EvidenceInv, NEW w \in Worker, NEW d, Dismiss(w, d), worker[w].pc = "batch"
  PROVE OthersStay(w) /\ WorkFits(worker[w])' /\ NoNewOwner
<1>1. worker[w].hold = NoHold
  BY DEF EvidenceInv, WorkersFit, WorkFits, LaneFits, BatchPc
<1>2. OthersStay(w) /\ worker'[w].pc \in BatchPc /\ worker'[w].hold = NoHold
  BY <1>1, DismissMoves DEF Idle, BatchPc
<1> QED
  BY <1>2, RestFits, RestQuiet

\* A step about one intent.
LEMMA OneLink ==
  ASSUME TypeOK, EvidenceInv, Grows, NEW i \in Intent,
         \A j \in Intent \ {i} : intent'[j] = intent[j], LinkFits(i)', Outcome(i)'
  PROVE LinksFit'
<1>1. ASSUME NEW j \in Intent, j # i PROVE LinkFits(j)' /\ Outcome(j)'
  BY <1>1, LinkStands, OutcomeStands, TablesAre DEF EvidenceInv, LinksFit
<1> QED
  BY <1>1 DEF LinksFit

LEMMA TransitionMoves ==
  ASSUME TypeOK, NEW i \in Intent, NEW to, TransitionIntent(i, to)
  PROVE /\ \A j \in Intent \ {i} : intent'[j] = intent[j]
        /\ \/ intent'[i] = intent[i]
           \/ /\ intent[i].status \in TRANSITION_PRECONDITIONS[to]
              /\ intent'[i].status = to
              /\ intent'[i].hold = intent[i].hold /\ intent'[i].delivery = intent[i].delivery
BY DEF TypeOK, IntentRow, TransitionIntent

(***************************************************************************)
(* The steps that touch no row of a message.                               *)
(***************************************************************************)
LEMMA TablesEvidence ==
  ASSUME TypeOK, PlacesFit, EvidenceInv,
         \/ Producer \/ Tick \/ UNCHANGED vars
         \/ \E i \in Intent : RecoverClaimed(i) \/ ParkSending(i) \/ ExpireStaleIntents(i)
  PROVE EvidenceInv'
<1>1. UNCHANGED worker /\ SameTables /\ (now' = now \/ Tick)
  BY DEF Producer, EnqueueCommunicationIntent, CancelAppointmentIntents,
         ReleaseBlockedIntentsAfterTopup, RecoverClaimed, ParkSending, ExpireStaleIntents, Tick,
         vars, SameTables
<1>2. now' \in Nat /\ now <= now'
  <2>1. now \in Nat
    BY TimeAssumption DEF TypeOK
  <2> QED
    BY <1>1, <2>1 DEF Tick
<1>3. LinksKept
  <2>1. ASSUME NEW i \in Intent, EnqueueCommunicationIntent(i) PROVE LinksKept
    <3>1. /\ intent'[i].hold = NoHold /\ intent'[i].delivery = NoJob
          /\ intent'[i].status = "pending"
      BY <2>1 DEF EnqueueCommunicationIntent, TypeOK, NoIntent
    <3>2. \A j \in Intent \ {i} : intent'[j] = intent[j]
      BY <2>1 DEF EnqueueCommunicationIntent, TypeOK
    <3> QED
      BY <3>1, <3>2 DEF LinksKept
  <2>2. ASSUME NEW i \in Intent,
               \/ CancelAppointmentIntents(i) \/ ReleaseBlockedIntentsAfterTopup(i)
               \/ RecoverClaimed(i) \/ ParkSending(i) \/ ExpireStaleIntents(i)
        PROVE LinksKept
    <3>1. /\ intent'[i].hold = intent[i].hold /\ intent'[i].delivery = intent[i].delivery
          /\ \/ intent'[i].status \in {"canceled", "pending", "expired"}
             \/ intent'[i].status = "send_outcome_unknown" /\ intent[i].status = "sending"
          /\ \A j \in Intent \ {i} : intent'[j] = intent[j]
      <4>1. CASE CancelAppointmentIntents(i) \/ ParkSending(i) \/ ExpireStaleIntents(i)
        BY <4>1 DEF CancelAppointmentIntents, ParkSending, ExpireStaleIntents, TypeOK, IntentRow
      <4>2. CASE ReleaseBlockedIntentsAfterTopup(i)
        BY <4>2 DEF ReleaseBlockedIntentsAfterTopup, TypeOK, IntentRow
      <4>3. CASE RecoverClaimed(i)
        <5> DEFINE row == [intent[i] EXCEPT !.status = "pending", !.lease = 0, !.availableAt = now]
        <5>1. intent' = [intent EXCEPT ![i] = row]
          BY <4>3 DEF RecoverClaimed
        <5>2. row.status = "pending" /\ row.hold = intent[i].hold /\ row.delivery = intent[i].delivery
          BY DEF TypeOK, IntentRow
        <5> HIDE DEF row
        <5> QED
          BY <5>1, <5>2 DEF TypeOK
      <4> QED
        BY <2>2, <4>1, <4>2, <4>3
    <3> QED
      BY <3>1 DEF LinksKept
  <2>3. CASE UNCHANGED intent
    BY <2>3, SameLinks
  <2> QED
    BY <2>1, <2>2, <2>3 DEF Producer, Tick, vars
<1>4. LinksFit'
  BY <1>1, <1>3, LinksStand, TablesAre, SameGrows DEF EvidenceInv
<1> QED
  BY <1>1, <1>2, <1>4, IntentStep

\* The evidence of the resolver is a row with the provider's id on it.
LEMMA EvidenceProves ==
  ASSUME TypeOK, EvidenceInv, NEW i \in Intent, Evidence(i)
  PROVE LET d == intent[i].delivery
        IN /\ d \in Job /\ d[1] = i /\ Sms(d) /\ delivery[d].status # "none" /\ Reached(d)
           /\ intent[i].hold # NoHold /\ delivery[d].hold = intent[i].hold
           /\ HoldOf(d).status \in {"held", "settled"}
<1> DEFINE d == intent[i].delivery
<1>1. /\ intent[i].status = "send_outcome_unknown" /\ d # NoJob /\ delivery[d].sid
  BY DEF Evidence
<1>2. LinkFits(i)
  BY DEF EvidenceInv, LinksFit
<1>3. d \in Job /\ d[1] = i
  BY <1>1, <1>2 DEF LinkFits
<1>4. RequestFits(d) /\ RowFits(d)
  BY <1>3 DEF EvidenceInv, RowsFit
<1>5. Sms(d) /\ delivery[d].status # "none" /\ Reached(d)
      /\ HoldOf(d).status \in {"held", "settled"}
  BY <1>1, <1>4 DEF RequestFits, RowFits
<1>6. intent[i].hold # NoHold /\ delivery[d].hold = intent[i].hold
  BY <1>1, <1>2, <1>3, <1>5 DEF LinkFits, Sms
<1> QED
  BY <1>3, <1>5, <1>6

LEMMA AdoptEvidence ==
  ASSUME TypeOK, PlacesFit, EvidenceInv, NEW i \in Intent, ResolverAdopts(i)
  PROVE EvidenceInv'
<1> DEFINE d == intent[i].delivery
<1>1. /\ UNCHANGED <<now, worker>> /\ SameTables /\ Evidence(i)
      /\ intent[i].hold # NoHold => reservation[intent[i].hold].status # "held"
  BY DEF ResolverAdopts, SameTables
<1>2. /\ intent'[i].status = "sent" /\ intent'[i].hold = intent[i].hold
      /\ intent'[i].delivery = intent[i].delivery
      /\ \A j \in Intent \ {i} : intent'[j] = intent[j]
  BY DEF ResolverAdopts, TypeOK, IntentRow
<1>3. /\ d \in Job /\ d[1] = i /\ Reached(d) /\ HoldOf(d).status = "settled"
  BY <1>1, EvidenceProves DEF HoldOf
<1>4. LinkFits(i)'
  BY <1>1, <1>2, LinkStands, SameGrows DEF EvidenceInv, LinksFit
<1>5. Outcome(i)'
  <2> HIDE DEF d
  <2>1. provider'[d].fate \in Heard /\ reservation'[delivery'[d].hold].status = "settled"
    BY <1>1, <1>3 DEF SameTables, Reached, HoldOf
  <2>2. d \in JobsOf(i)
    BY <1>3 DEF JobsOf
  <2> QED
    BY <1>2, <2>1, <2>2 DEF Outcome, JobsOf, Reached, HoldOf
<1>6. LinksFit'
  BY <1>1, <1>2, <1>4, <1>5, OneLink, SameGrows
<1>7. now' \in Nat /\ now <= now'
  BY <1>1, TimeAssumption DEF TypeOK
<1> QED
  BY <1>1, <1>6, <1>7, IntentStep

LEMMA PickEvidence ==
  ASSUME TypeOK, PlacesFit, EvidenceInv, NEW w \in Worker,
         Crash(w) \/ \E t \in 0..now : PickDueIntents(w, t)
  PROVE EvidenceInv'
<1>1. SameTables /\ UNCHANGED <<now, intent>>
  BY DEF Crash, PickDueIntents, SameTables
<1>2. OthersStay(w) /\ worker'[w].pc \in BatchPc /\ worker'[w].hold = NoHold
  <2>1. CASE Crash(w)
    BY <2>1 DEF Crash, TypeOK, OthersStay, Idle, BatchPc
  <2>2. ASSUME NEW t, PickDueIntents(w, t)
        PROVE OthersStay(w) /\ worker'[w].pc \in BatchPc /\ worker'[w].hold = NoHold
    <3>0. PICK n \in SalonLimits :
            worker' = [worker EXCEPT ![w] = [Idle EXCEPT !.pc = "claim", !.now = t,
                         !.todo = (UNION {First(n, s, t) : s \in Salon}) \X {0}]]
      BY <2>2 DEF PickDueIntents
    <3> DEFINE begun == [Idle EXCEPT !.pc = "claim", !.now = t,
                                     !.todo = (UNION {First(n, s, t) : s \in Salon}) \X {0}]
    <3>1. begun.pc = "claim" /\ begun.hold = NoHold
      BY DEF Idle
    <3>2. worker' = [worker EXCEPT ![w] = begun]
      BY <3>0
    <3> HIDE DEF begun
    <3>3. worker'[w] = begun /\ OthersStay(w)
      BY <3>2 DEF TypeOK, OthersStay
    <3> QED
      BY <3>1, <3>3 DEF BatchPc
  <2> QED
    BY <2>1, <2>2
<1>3. LinksFit'
  BY <1>1, LinksStand, TablesAre, SameGrows, SameLinks DEF EvidenceInv
<1> QED
  BY <1>1, <1>2, <1>3, RestFits, RestQuiet, SameTablesStep

LEMMA ClaimEvidence ==
  ASSUME TypeOK, PlacesFit, EvidenceInv, NEW w \in Worker,
         ClaimDueIntents(w) \/ LoadClaimedIntents(w)
  PROVE EvidenceInv'
<1>1. SameTables /\ UNCHANGED now /\ worker[w].pc \in {"claim", "load"}
  BY DEF ClaimDueIntents, LoadClaimedIntents, SameTables, At
<1>2. worker[w].hold = NoHold
  BY <1>1 DEF EvidenceInv, WorkersFit, WorkFits, LaneFits, BatchPc
<1>3. OthersStay(w) /\ worker'[w].pc \in BatchPc /\ worker'[w].hold = NoHold
  <2>1. CASE LoadClaimedIntents(w)
    BY <1>2, <2>1 DEF LoadClaimedIntents, TypeOK, WorkerState, OthersStay, BatchPc
  <2>2. CASE ClaimDueIntents(w)
    <3>1. PICK won : worker' = [worker EXCEPT ![w] =
            IF won = {} THEN Idle ELSE [@ EXCEPT !.pc = "load", !.todo = won \X {0}]]
      BY <2>2 DEF ClaimDueIntents
    <3>2. OthersStay(w)
      BY <3>1 DEF TypeOK, OthersStay
    <3>3. worker'[w] = Idle \/ worker'[w] = [worker[w] EXCEPT !.pc = "load", !.todo = won \X {0}]
      BY <3>1 DEF TypeOK
    <3>4. worker'[w] = Idle \/ (worker'[w].pc = "load" /\ worker'[w].hold = NoHold)
      BY <1>2, <3>3 DEF TypeOK, WorkerState
    <3> QED
      BY <3>2, <3>4 DEF Idle, BatchPc
  <2> QED
    BY <2>1, <2>2
<1>4. LinksKept
  <2>1. CASE LoadClaimedIntents(w)
    BY <2>1, SameLinks DEF LoadClaimedIntents
  <2>2. CASE ClaimDueIntents(w)
    <3>1. \A i \in Intent :
            intent'[i] = intent[i] \/ intent'[i] = Claimed(worker[w].now, i)
      BY <2>2 DEF ClaimDueIntents
    <3>2. \A i \in Intent : LET c == Claimed(worker[w].now, i) IN
             c.hold = intent[i].hold /\ c.delivery = intent[i].delivery /\ c.status = "claimed"
      BY DEF Claimed, TypeOK, IntentRow
    <3> QED
      BY <3>1, <3>2 DEF LinksKept
  <2> QED
    BY <2>1, <2>2
<1>5. LinksFit'
  BY <1>1, <1>4, LinksStand, TablesAre, SameGrows DEF EvidenceInv
<1> QED
  BY <1>1, <1>3, <1>5, RestFits, RestQuiet, SameTablesStep

LEMMA DismissEvidence ==
  ASSUME TypeOK, PlacesFit, EvidenceInv, NEW w \in Worker, NEW d \in worker[w].todo,
         TemplateUnknown(w, d) \/ Suppress(w, d) \/ DeferIntent(w, d) \/ NoCreditsLeft(w, d)
  PROVE EvidenceInv'
<1>1. SameTables /\ UNCHANGED now /\ worker[w].pc = "batch" /\ Dismiss(w, d)
  BY DEF TemplateUnknown, Suppress, DeferIntent, NoCreditsLeft, SameTables, Take, At
<1>2. OthersStay(w) /\ WorkFits(worker[w])' /\ NoNewOwner
  BY <1>1, DismissRests
<1> DEFINE i == d[1]
<1>3. i \in Intent
  BY TakenTyped
<1> HIDE DEF i
<1>4. /\ \A j \in Intent \ {i} : intent'[j] = intent[j]
      /\ intent'[i].hold = intent[i].hold /\ intent'[i].delivery = intent[i].delivery
      /\ \/ intent'[i].status = intent[i].status
         \/ intent'[i].status \in {"suppressed", "blocked_no_credit", "pending"}
         \/ intent'[i].status = "failed" /\ i \notin KnownTemplate
  <2>1. CASE DeferIntent(w, d)
    BY <1>3, <2>1 DEF DeferIntent, TypeOK, IntentRow, i
  <2>2. CASE TemplateUnknown(w, d)
    BY <1>3, <2>2, TransitionMoves DEF TemplateUnknown, i
  <2>3. CASE Suppress(w, d) \/ NoCreditsLeft(w, d)
    <3>1. TransitionIntent(i, "suppressed") \/ TransitionIntent(i, "blocked_no_credit")
      BY <2>3 DEF Suppress, NoCreditsLeft, i
    <3> QED
      BY <1>3, <3>1, TransitionMoves
  <2> QED
    BY <2>1, <2>2, <2>3
<1>5. LinkFits(i) /\ Outcome(i)
  BY <1>3 DEF EvidenceInv, LinksFit
<1>6. LinkFits(i)'
  BY <1>1, <1>3, <1>4, <1>5, LinkStands, SameGrows
<1>7. Outcome(i)'
  <2>1. CASE intent'[i].status = intent[i].status
    BY <1>1, <1>3, <1>5, <2>1, OutcomeStands, SameGrows, TablesAre
  <2>2. CASE intent'[i].status # intent[i].status
    BY <1>4, <2>2 DEF Outcome
  <2> QED
    BY <2>1, <2>2
<1>8. LinksFit'
  BY <1>1, <1>3, <1>4, <1>6, <1>7, OneLink, SameGrows
<1> QED
  BY <1>1, <1>2, <1>8, SameTablesStep

\* What the place of an invocation says of its job.
LEMMA AtJob ==
  ASSUME PlacesFit, EvidenceInv, NEW w \in Worker, worker[w].pc \notin BatchPc
  PROVE /\ worker[w].job \in Job /\ worker[w].job[1] \in Intent
        /\ WorkFits(worker[w])
        /\ RequestFits(worker[w].job) /\ RowFits(worker[w].job)
        /\ LinkFits(worker[w].job[1]) /\ Outcome(worker[w].job[1])
<1>1. worker[w].job \in Job
  BY DEF PlacesFit, PlaceFits
<1> QED
  BY <1>1, JobParts DEF EvidenceInv, WorkersFit, RowsFit, LinksFit

LEMMA HoldIsReal ==
  ASSUME TimeInv, NEW r \in Hold, reservation[r].status # "none"
  PROVE r # NoHold
<1>1. 1 <= r[1][2]
  BY DEF TimeInv, HoldsTaken
<1> QED
  BY <1>1 DEF NoHold, NoJob

LEMMA ToSendingEvidence ==
  ASSUME TypeOK, PlacesFit, AskInv, TimeInv, EvidenceInv, NEW w \in Worker, ToSending(w)
  PROVE EvidenceInv'
<1> DEFINE s == worker[w]
<1> USE PlacesApart
<1>1. /\ SameTables /\ UNCHANGED now /\ s.pc = "sending"
  BY DEF ToSending, SameTables, At
<1>0. PICK d \in Job, i \in Intent : d = s.job /\ i = d[1]
  BY <1>1, AtJob DEF BatchPc
<1> USE <1>0
<1>2. /\ d \in Job /\ i \in Intent /\ WorkFits(s) /\ RequestFits(d) /\ RowFits(d)
      /\ LinkFits(i) /\ Outcome(i)
  BY <1>1, AtJob DEF BatchPc
<1>3. /\ LaneFits(s) /\ OwnerFits(s) /\ s.pc \in OwnPc /\ s.pc \in BeforeAsk /\ s.pc \notin BatchPc
  BY <1>1, <1>2 DEF WorkFits, OwnPc, BeforeAsk, BatchPc
<1>4. CASE intent[i].status \notin TRANSITION_PRECONDITIONS["sending"]
  <2>1. UNCHANGED intent /\ IF Sms(d) THEN Goto(w, "superseded") ELSE Finish(w)
    BY <1>4 DEF ToSending, Sms
  <2>2. LinksFit'
    BY <1>1, <2>1, LinksStand, TablesAre, SameGrows, SameLinks DEF EvidenceInv
  <2>3. CASE Finish(w)
    BY <1>1, <2>2, <2>3, FinishRests, SameTablesStep
  <2>4. CASE Goto(w, "superseded") /\ Sms(d)
    <3>1. OthersStay(w) /\ Keeps(w) /\ worker'[w].pc = "superseded"
      BY <2>4, GotoMoves
    <3>2. NoNewOwner
      BY <1>3, <3>1, MoveQuiet DEF Keeps
    <3>3. WorkFits(worker[w])'
      BY <1>1, <1>2, <1>3, <2>4, <3>1
         DEF WorkFits, LaneFits, HoldFits, OwnerFits, EmailerFits, Keeps, SameTables, Sms,
             BatchPc, SmsPc, OwnPc, EmailPc, BeforeAsk, GivingUp, AfterAccept, AfterSettle
    <3> QED
      BY <1>1, <2>2, <3>1, <3>2, <3>3, SameTablesStep
  <2> QED
    BY <2>1, <2>3, <2>4
<1>5. CASE intent[i].status \in TRANSITION_PRECONDITIONS["sending"]
  <2>1. intent[i].status = "claimed"
    BY <1>5 DEF TRANSITION_PRECONDITIONS
  <2>2. Goto(w, IF Sms(d) THEN "final" ELSE "email")
    BY <1>5 DEF ToSending, Sms
  <2>3. OthersStay(w) /\ Keeps(w) /\ worker'[w].pc = IF Sms(d) THEN "final" ELSE "email"
    BY <2>2, GotoMoves
  <2>4. /\ \A j \in Intent \ {i} : intent'[j] = intent[j]
        /\ intent'[i].status = "sending" /\ intent'[i].delivery = d /\ intent'[i].hold = s.hold
    BY <1>2, <1>5 DEF ToSending, TypeOK, IntentRow
  <2>5. provider[d].requests = 0
    <3>1. provider[d].requests > 0 => intent[i].status \in Past
      BY <1>2 DEF AskInv, RequestedPast
    <3>2. provider[d].requests \in Nat
      BY <1>2 DEF TypeOK
    <3> QED
      BY <2>1, <3>1, <3>2 DEF Past
  <2>6. NoNewOwner
    BY <1>3, <2>3, MoveQuiet DEF Keeps
  <2>7. WorkFits(worker[w])'
    <3>1. CASE Sms(d)
      BY <1>1, <1>2, <1>3, <2>3, <3>1
         DEF WorkFits, LaneFits, HoldFits, OwnerFits, EmailerFits, Keeps, SameTables, Sms,
             BatchPc, SmsPc, OwnPc, EmailPc, BeforeAsk, GivingUp, AfterAccept, AfterSettle
    <3>2. CASE ~Sms(d)
      BY <1>1, <1>2, <1>3, <2>3, <2>5, <3>2
         DEF WorkFits, LaneFits, HoldFits, OwnerFits, EmailerFits, Keeps, SameTables, Sms,
             BatchPc, SmsPc, OwnPc, EmailPc, BeforeAsk, GivingUp, AfterAccept, AfterSettle,
             RequestFits
    <3> QED
      BY <3>1, <3>2
  <2>8. LinkFits(i)'
    <3>1. CASE Sms(d)
      <4>1. /\ delivery[d].status # "none" /\ delivery[d].hold = s.hold
            /\ s.hold \in Hold /\ reservation[s.hold].status = "held"
        BY <1>2, <1>3, <3>1 DEF OwnerFits, RowFits
      <4>2. s.hold # NoHold
        BY <4>1, HoldIsReal
      <4> QED
        BY <1>1, <1>2, <2>4, <3>1, <4>1, <4>2 DEF LinkFits, SameTables, Sms
    <3>2. CASE ~Sms(d)
      BY <1>2, <1>3, <2>4, <3>2 DEF LinkFits, LaneFits, Sms
    <3> QED
      BY <3>1, <3>2
  <2>9. Outcome(i)'
    BY <2>4 DEF Outcome
  <2>10. LinksFit'
    BY <1>1, <1>2, <2>4, <2>8, <2>9, OneLink, SameGrows
  <2> QED
    BY <1>1, <2>3, <2>6, <2>7, <2>10, SameTablesStep
<1> QED
  BY <1>4, <1>5

\* A move of an owner that stays one, on what it knows.
LEMMA SupersededEvidence ==
  ASSUME TypeOK, PlacesFit, EvidenceInv, NEW w \in Worker,
         Superseded(w) \/ FinalCheck(w) \/ AnswerAccepted(w) \/ AnswerRefused(w)
  PROVE EvidenceInv'
<1> DEFINE s == worker[w]
           d == s.job
<1> USE PlacesApart
<1>1. /\ SameTables /\ UNCHANGED <<now, intent>>
      /\ s.pc \in {"superseded", "final", "answer"}
  BY DEF Superseded, FinalCheck, AnswerAccepted, AnswerRefused, SameTables, At
<1>2. LinksFit'
  BY <1>1, LinksStand, TablesAre, SameGrows, SameLinks DEF EvidenceInv
<1>3. s.pc \notin BatchPc /\ s.pc \in OwnPc
  BY <1>1 DEF BatchPc, OwnPc
<1>4. /\ d \in Job /\ WorkFits(s) /\ RequestFits(d)
  BY <1>3, AtJob
<1>5. Sms(d) /\ LaneFits(s) /\ OwnerFits(s)
  BY <1>1, <1>4 DEF WorkFits, LaneFits, SmsPc
<1>6. CASE Finish(w)
  BY <1>1, <1>2, <1>6, FinishRests, SameTablesStep
<1>7. CASE FinalCheck(w) /\ Goto(w, "call")
  <2>1. OthersStay(w) /\ Keeps(w) /\ worker'[w].pc = "call" /\ s.pc = "final"
    BY <1>7, GotoMoves DEF FinalCheck, At
  <2>2. NoNewOwner
    BY <1>3, <2>1, MoveQuiet DEF Keeps
  <2>3. WorkFits(worker[w])'
    BY <1>1, <1>3, <1>4, <1>5, <2>1
       DEF WorkFits, LaneFits, HoldFits, OwnerFits, EmailerFits, Keeps, SameTables, Sms,
           BatchPc, SmsPc, OwnPc, EmailPc, BeforeAsk, GivingUp, AfterAccept, AfterSettle
  <2> QED
    BY <1>1, <1>2, <2>1, <2>2, <2>3, SameTablesStep
<1>8. CASE AnswerAccepted(w)
  <2>1. OthersStay(w) /\ Keeps(w) /\ worker'[w].pc = "accept" /\ Reached(d)
    BY <1>8, GotoMoves DEF AnswerAccepted, Reached
  <2>2. NoNewOwner
    BY <1>3, <2>1, MoveQuiet DEF Keeps
  <2>3. WorkFits(worker[w])'
    BY <1>1, <1>3, <1>4, <1>5, <2>1
       DEF WorkFits, LaneFits, HoldFits, OwnerFits, EmailerFits, Keeps, SameTables, Sms,
           BatchPc, SmsPc, OwnPc, EmailPc, BeforeAsk, GivingUp, AfterAccept, AfterSettle, Reached
  <2> QED
    BY <1>1, <1>2, <2>1, <2>2, <2>3, SameTablesStep
<1>9. ASSUME NEW reason, Stop(w, reason), ~Reached(d),
             reason = "failed" => provider[d].fate = "refused"
      PROVE EvidenceInv'
  <2>1. OthersStay(w) /\ Keeps(w) /\ worker'[w].pc = "release" /\ worker'[w].reason = reason
    BY <1>9, StopMoves
  <2>2. NoNewOwner
    BY <1>3, <2>1, MoveQuiet DEF Keeps
  <2>3. WorkFits(worker[w])'
    BY <1>1, <1>3, <1>4, <1>5, <1>9, <2>1
       DEF WorkFits, LaneFits, HoldFits, OwnerFits, EmailerFits, Keeps, SameTables, Sms,
           BatchPc, SmsPc, OwnPc, EmailPc, BeforeAsk, GivingUp, AfterAccept, AfterSettle, Reached
  <2> QED
    BY <1>1, <1>2, <2>1, <2>2, <2>3, SameTablesStep
<1>10. ASSUME s.pc \in BeforeAsk PROVE ~Reached(d)
  BY <1>3, <1>4, <1>5, <1>10 DEF OwnerFits, RequestFits, Reached, Heard
<1>11. CASE AnswerRefused(w)
  <2>1. Stop(w, "failed") /\ ~Reached(d) /\ provider[d].fate = "refused"
    BY <1>11 DEF AnswerRefused, Reached, Heard
  <2> QED
    BY <1>9, <2>1
<1>12. CASE Superseded(w) /\ ~Finish(w)
  <2>1. Stop(w, "superseded") /\ ~Reached(d)
    BY <1>10, <1>12 DEF Superseded, At, BeforeAsk
  <2> QED
    BY <1>9, <2>1
<1>13. CASE FinalCheck(w) /\ Stop(w, "suppressed")
  <2>1. ~Reached(d)
    BY <1>10, <1>13 DEF FinalCheck, At, BeforeAsk
  <2> QED
    BY <1>9, <1>13, <2>1
<1> QED
  BY <1>6, <1>7, <1>8, <1>11, <1>12, <1>13 DEF FinalCheck

\* A verdict on the intent, after which the worker lets go of the job.
LEMMA VerdictEvidence ==
  ASSUME TypeOK, PlacesFit, AskInv, EvidenceInv, NEW w \in Worker,
         ResolveStopped(w) \/ AnswerLost(w) \/ ToSent(w)
  PROVE EvidenceInv'
<1> DEFINE s == worker[w]
<1> USE PlacesApart
<1>1. /\ SameTables /\ UNCHANGED now /\ Finish(w) /\ s.pc \in {"resolve", "answer", "sent"}
  BY DEF ResolveStopped, AnswerLost, ToSent, SameTables, At
<1>2. s.pc \notin BatchPc /\ s.pc \in OwnPc
  BY <1>1 DEF BatchPc, OwnPc
<1>0. PICK d \in Job, i \in Intent : d = s.job /\ i = d[1]
  BY <1>2, AtJob
<1> USE <1>0
<1>3. /\ d \in Job /\ i \in Intent /\ WorkFits(s) /\ RequestFits(d) /\ RowFits(d)
      /\ LinkFits(i) /\ Outcome(i)
  BY <1>2, AtJob
<1>4. LaneFits(s) /\ OwnerFits(s) /\ EmailerFits(s)
  BY <1>3 DEF WorkFits
<1>5. PICK to : /\ TransitionIntent(i, to)
                /\ \/ s.pc = "resolve" /\ to = s.reason /\ to \in {"failed", "suppressed"}
                   \/ s.pc = "answer" /\ to = "send_outcome_unknown"
                   \/ s.pc = "sent" /\ to = "sent"
  BY DEF ResolveStopped, AnswerLost, ToSent, At, PlacesFit, PlaceFits
<1>6. \A j \in Intent \ {i} : intent'[j] = intent[j]
  BY <1>3, <1>5, TransitionMoves
<1>7. LinkFits(i)' /\ Outcome(i)'
  <2>1. CASE intent'[i] = intent[i]
    BY <1>1, <1>3, <2>1, LinkStands, OutcomeStands, SameGrows, TablesAre
  <2>2. CASE intent'[i] # intent[i]
    <3>1. /\ intent[i].status \in TRANSITION_PRECONDITIONS[to] /\ intent'[i].status = to
          /\ intent'[i].hold = intent[i].hold /\ intent'[i].delivery = intent[i].delivery
      BY <1>3, <1>5, <2>2, TransitionMoves
    <3>2. CASE to \in {"failed", "suppressed"}
      <4>1. LinkFits(i)'
        BY <1>1, <1>3, <3>1, <3>2, LinkStands, SameGrows
      <4>2. s.pc = "resolve" /\ to = s.reason
        BY <1>5, <3>2
      <4>3. Sms(d) /\ to = "failed" => provider[d].fate = "refused"
        BY <1>2, <1>4, <4>2 DEF OwnerFits, GivingUp
      <4>4. d \in JobsOf(i)
        BY <1>3 DEF JobsOf
      <4>5. Sms(d) /\ to = "failed" => \E e \in JobsOf(i) : provider'[e].fate = "refused"
        BY <1>1, <4>3, <4>4 DEF SameTables
      <4> QED
        BY <3>1, <3>2, <4>1, <4>5 DEF Outcome, Sms, JobsOf
    <3>3. CASE to = "send_outcome_unknown"
      <4>1. s.pc = "answer"
        BY <1>5, <3>3
      <4>2. intent[i].status \in Past
        BY <1>2, <1>3, <1>4, <4>1 DEF AskInv, RequestedPast, OwnerFits, LaneFits, SmsPc
      <4>3. intent[i].status = "sending"
        BY <3>1, <3>3, <4>2 DEF TRANSITION_PRECONDITIONS, Past
      <4>4. LinkFits(i)'
        BY <1>1, <1>3, <3>1, <3>3, <4>3, LinkStands, SameGrows
      <4> QED
        BY <3>1, <3>3, <4>4 DEF Outcome
    <3>4. CASE to = "sent"
      <4>1. LinkFits(i)'
        BY <1>1, <1>3, <3>1, <3>4, LinkStands, SameGrows
      <4>2. s.pc = "sent"
        BY <1>5, <3>4
      <4>3. Reached(d) /\ (Sms(d) => reservation[delivery[d].hold].status = "settled")
        BY <1>2, <1>4, <4>2 DEF OwnerFits, EmailerFits, AfterAccept, AfterSettle
      <4>4. d \in JobsOf(i)
        BY <1>3 DEF JobsOf
      <4>5. /\ provider'[d].fate \in Heard
            /\ Sms(d) => reservation'[delivery'[d].hold].status = "settled"
        BY <1>1, <4>3 DEF SameTables, Reached
      <4>6. Outcome(i)'
        BY <3>1, <3>4, <4>4, <4>5 DEF Outcome, Reached, HoldOf, JobsOf, Sms
      <4> QED
        BY <4>1, <4>6
    <3> QED
      BY <1>5, <3>2, <3>3, <3>4
  <2> QED
    BY <2>1, <2>2
<1>8. LinksFit'
  BY <1>1, <1>3, <1>6, <1>7, OneLink, SameGrows
<1> QED
  BY <1>1, <1>8, FinishRests, SameTablesStep

(***************************************************************************)
(* The owner's steps.                                                      *)
(***************************************************************************)
LEMMA OwnerHas ==
  ASSUME PlacesFit, EvidenceInv, NEW w \in Worker, NEW d \in Job, Owns(worker[w], d)
  PROVE LET s == worker[w]
        IN /\ delivery[d].status # "none" /\ delivery[d].hold = s.hold
           /\ s.hold \in Hold /\ s.hold[1] = d /\ HoldOf(d) = reservation[s.hold]
           /\ HoldOf(d).status # "none" /\ OwnerFits(s) /\ LaneFits(s)
           /\ RequestFits(d) /\ RowFits(d) /\ ChargeFits(s.hold)
           /\ d[1] \in KnownTemplate
<1> DEFINE s == worker[w]
<1>1. OwnerFits(s) /\ LaneFits(s) /\ RequestFits(d) /\ RowFits(d) /\ s.pc \notin BatchPc
  BY PlacesApart DEF EvidenceInv, WorkersFit, WorkFits, RowsFit, Owns
<1>2. delivery[d].status # "none" /\ delivery[d].hold = s.hold
  BY <1>1 DEF OwnerFits, Owns
<1>3. s.hold \in Hold /\ s.hold[1] = d /\ HoldOf(d) = reservation[s.hold]
      /\ HoldOf(d).status # "none"
  BY <1>1, <1>2 DEF RowFits, HoldOf, Owns
<1>4. d[1] \in KnownTemplate
  BY <1>1 DEF LaneFits, Owns
<1> QED
  BY <1>1, <1>2, <1>3, <1>4 DEF EvidenceInv, ChargesFit

LEMMA HoldMoves ==
  ASSUME TypeOK, NEW r \in Hold, NEW rows,
         rows \in {Released(r), Settled(r), Refunded(r)}
  PROVE /\ \A q \in Hold \ {r} : rows[q] = reservation[q]
        /\ rows[r].expiresAt = reservation[r].expiresAt
        /\ rows = Released(r) =>
             /\ rows[r].refunded = reservation[r].refunded
             /\ rows[r].status = IF reservation[r].status = "held" THEN "released"
                                 ELSE reservation[r].status
        /\ rows = Settled(r) =>
             /\ rows[r].refunded = reservation[r].refunded
             /\ rows[r].status = IF reservation[r].status = "held" THEN "settled"
                                 ELSE reservation[r].status
        /\ rows = Refunded(r) =>
             /\ rows[r].status = reservation[r].status
             /\ rows[r].refunded = IF reservation[r].status = "settled" THEN TRUE
                                   ELSE reservation[r].refunded
BY DEF TypeOK, ReservationRow, Released, Settled, Refunded

\* The hold of a job moves on.
LEMMA HoldTouches ==
  ASSUME TypeOK, NEW d \in Job, NEW h \in Hold, h[1] = d,
         UNCHANGED <<delivery, provider, callback>>,
         \A q \in Hold \ {h} : reservation'[q] = reservation[q],
         reservation[h].status = "settled" => reservation'[h].status = "settled",
         reservation[h].status # "none" => reservation'[h].status # "none",
         reservation[h].refunded => reservation'[h].refunded
  PROVE Touches(d) /\ Grows
<1>1. Touches(d)
  BY DEF Touches
<1>2. Grows
  BY DEF Grows, Reached
<1> QED
  BY <1>1, <1>2

\* The row of a job moves on.
LEMMA RowTouches ==
  ASSUME TypeOK, NEW d \in Job, UNCHANGED <<reservation, provider>>,
         \A e \in Job \ {d} : delivery'[e] = delivery[e] /\ callback'[e] = callback[e],
         delivery'[d].status # "none", delivery'[d].hold = delivery[d].hold
  PROVE Touches(d) /\ Grows
<1>1. Touches(d)
  BY DEF Touches
<1>2. Grows
  BY DEF Grows, Reached
<1> QED
  BY <1>1, <1>2

LEMMA OwnerKnows ==
  ASSUME PlacesFit, EvidenceInv, NEW w \in Worker, worker[w].pc \in OwnPc \cap SmsPc
  PROVE \E d \in Job, h \in Hold :
          LET s == worker[w]
          IN /\ Owns(s, d) /\ d = s.job /\ h = s.hold /\ Sms(d) /\ d[1] \in KnownTemplate
             /\ delivery[d].status # "none" /\ delivery[d].hold = h
             /\ h[1] = d /\ HoldOf(d) = reservation[h] /\ HoldOf(d).status # "none"
             /\ OwnerFits(s) /\ LaneFits(s) /\ RequestFits(d) /\ RowFits(d) /\ ChargeFits(h)
<1> DEFINE s == worker[w]
<1>1. s.job \in Job /\ Sms(s.job)
  BY PlacesApart, AtJob DEF WorkFits, LaneFits
<1>2. Owns(s, s.job)
  BY <1>1 DEF Owns
<1> QED
  BY <1>1, <1>2, OwnerHas

LEMMA ReleaseEvidence ==
  ASSUME TypeOK, PlacesFit, EvidenceInv, NEW w \in Worker, ReleaseReservation(w)
  PROVE EvidenceInv'
<1> DEFINE s == worker[w]
<1> USE PlacesApart
<1>1. /\ UNCHANGED <<now, intent, delivery, provider, callback>> /\ s.pc = "release"
      /\ reservation' = Released(s.hold)
  BY DEF ReleaseReservation, At
<1>2. /\ OthersStay(w) /\ Keeps(w) /\ worker'[w].pc = "close"
      /\ worker'[w].reason = s.reason
  BY GotoMoves DEF ReleaseReservation
<1>3. s.pc \in OwnPc \cap SmsPc
  BY <1>1 DEF OwnPc, SmsPc
<1>4. PICK d \in Job, h \in Hold :
        /\ Owns(s, d) /\ d = s.job /\ h = s.hold /\ Sms(d) /\ d[1] \in KnownTemplate
        /\ delivery[d].status # "none" /\ delivery[d].hold = h
        /\ h[1] = d /\ HoldOf(d) = reservation[h] /\ HoldOf(d).status # "none"
        /\ OwnerFits(s) /\ LaneFits(s) /\ RequestFits(d) /\ RowFits(d) /\ ChargeFits(h)
  BY <1>3, OwnerKnows
<1>5. ~Reached(d) /\ (s.reason = "failed" => provider[d].fate = "refused")
  BY <1>1, <1>4 DEF OwnerFits, GivingUp
<1>6. reservation[h].status \in {"held", "released"} /\ ~reservation[h].refunded
  BY <1>4, <1>5 DEF ChargeFits, TypeOK, ReservationRow
<1>7. /\ \A q \in Hold \ {h} : reservation'[q] = reservation[q]
      /\ reservation'[h].status = "released" /\ ~reservation'[h].refunded
  <2>1. reservation' = Released(h)
    BY <1>1, <1>4
  <2> QED
    BY <1>6, <2>1, HoldMoves
<1>8. Touches(d) /\ Grows
  BY <1>1, <1>4, <1>6, <1>7, HoldTouches
<1>9. NoNewOwner
  BY <1>1, <1>2, MoveQuiet DEF Keeps, OwnPc
<1>10. WorkFits(worker[w])'
  BY <1>1, <1>2, <1>4, <1>5, <1>7
     DEF WorkFits, LaneFits, HoldFits, OwnerFits, EmailerFits, Keeps, Sms,
         BatchPc, SmsPc, OwnPc, EmailPc, BeforeAsk, GivingUp, AfterAccept, AfterSettle, Reached
<1>11. RequestFits(d)' /\ RowFits(d)'
  BY <1>1, <1>4, <1>5, <1>6, <1>7 DEF RequestFits, RowFits, HoldOf, Reached, Sms
<1>12. ASSUME NEW r \in Hold, r[1] = d PROVE ChargeFits(r)'
  <2>1. ChargeFits(r)
    BY DEF EvidenceInv, ChargesFit
  <2> QED
    BY <1>1, <1>7, <1>12, <2>1 DEF ChargeFits, Reached
<1> QED
  BY <1>1, <1>2, <1>4, <1>8, <1>9, <1>10, <1>11, <1>12, OwnStep

LEMMA CloseEvidence ==
  ASSUME TypeOK, PlacesFit, EvidenceInv, NEW w \in Worker, CloseDelivery(w)
  PROVE EvidenceInv'
<1> DEFINE s == worker[w]
<1> USE PlacesApart
<1>1. /\ UNCHANGED <<now, intent, reservation, provider, callback>> /\ s.pc = "close"
      /\ Finish(w) \/ Goto(w, "resolve")
  BY DEF CloseDelivery, At
<1>2. s.pc \in OwnPc \cap SmsPc
  BY <1>1 DEF OwnPc, SmsPc
<1>3. PICK d \in Job, h \in Hold :
        /\ Owns(s, d) /\ d = s.job /\ h = s.hold /\ Sms(d) /\ d[1] \in KnownTemplate
        /\ delivery[d].status # "none" /\ delivery[d].hold = h
        /\ h[1] = d /\ HoldOf(d) = reservation[h] /\ HoldOf(d).status # "none"
        /\ OwnerFits(s) /\ LaneFits(s) /\ RequestFits(d) /\ RowFits(d) /\ ChargeFits(h)
  BY <1>2, OwnerKnows
<1>4. /\ ~Reached(d) /\ (s.reason = "failed" => provider[d].fate = "refused")
      /\ reservation[h].status = "released"
  BY <1>1, <1>3 DEF OwnerFits, GivingUp
<1>5. callback[d] = "none"
  BY <1>3, <1>4 DEF RowFits, TypeOK
<1>6. /\ \A e \in Job \ {d} : delivery'[e] = delivery[e]
      /\ delivery'[d].status \in {"failed", "canceled"}
      /\ delivery'[d].settlement = "not_applicable"
      /\ delivery'[d].hold = h /\ delivery'[d].sid = delivery[d].sid
  BY <1>3 DEF CloseDelivery, TypeOK, DeliveryRow
<1>7. Touches(d) /\ Grows
  BY <1>1, <1>3, <1>6, RowTouches
<1>8. OthersStay(w) /\ NoNewOwner /\ WorkFits(worker[w])'
  <2>1. CASE Finish(w)
    BY <2>1, FinishRests
  <2>2. CASE Goto(w, "resolve")
    <3>1. /\ OthersStay(w) /\ Keeps(w) /\ worker'[w].pc = "resolve"
          /\ worker'[w].reason = s.reason
      BY <2>2, GotoMoves
    <3>2. NoNewOwner
      BY <1>2, <3>1, MoveQuiet DEF Keeps
    <3>3. WorkFits(worker[w])'
      BY <1>1, <1>3, <1>4, <1>6, <3>1
         DEF WorkFits, LaneFits, HoldFits, OwnerFits, EmailerFits, Keeps, Sms,
             BatchPc, SmsPc, OwnPc, EmailPc, BeforeAsk, GivingUp, AfterAccept, AfterSettle, Reached
    <3> QED
      BY <3>1, <3>2, <3>3
  <2> QED
    BY <1>1, <2>1, <2>2
<1>9. RequestFits(d)' /\ RowFits(d)'
  BY <1>1, <1>3, <1>4, <1>5, <1>6 DEF RequestFits, RowFits, HoldOf, Reached, Sms
<1>10. ASSUME NEW r \in Hold, r[1] = d PROVE ChargeFits(r)'
  <2>1. ChargeFits(r)
    BY DEF EvidenceInv, ChargesFit
  <2> QED
    BY <1>1, <1>4, <1>10, <2>1 DEF ChargeFits, Reached
<1> QED
  BY <1>1, <1>3, <1>7, <1>8, <1>9, <1>10, OwnStep

LEMMA CallEvidence ==
  ASSUME TypeOK, PlacesFit, EvidenceInv, NEW w \in Worker, CallProvider(w)
  PROVE EvidenceInv'
<1> DEFINE s == worker[w]
<1> USE PlacesApart
<1>1. /\ UNCHANGED <<now, intent, delivery, reservation, callback>> /\ s.pc = "call"
  BY DEF CallProvider, At
<1>2. s.pc \in OwnPc \cap SmsPc
  BY <1>1 DEF OwnPc, SmsPc
<1>3. PICK d \in Job, h \in Hold :
        /\ Owns(s, d) /\ d = s.job /\ h = s.hold /\ Sms(d) /\ d[1] \in KnownTemplate
        /\ delivery[d].status # "none" /\ delivery[d].hold = h
        /\ h[1] = d /\ HoldOf(d) = reservation[h] /\ HoldOf(d).status # "none"
        /\ OwnerFits(s) /\ LaneFits(s) /\ RequestFits(d) /\ RowFits(d) /\ ChargeFits(h)
  BY <1>2, OwnerKnows
<1>4. /\ reservation[h].status = "held" /\ provider[d].requests = 0
      /\ delivery[d].settlement = "settling" /\ provider[d].fate = "none" /\ ~Reached(d)
  BY <1>1, <1>3 DEF OwnerFits, RequestFits, BeforeAsk, Reached, Heard
<1>5. /\ \A e \in Job \ {d} : provider'[e] = provider[e]
      /\ provider'[d].requests = 1 /\ provider'[d].fate \in {"accepted", "refused", "lost"}
  <2>1. PICK fate \in {"accepted", "refused", "lost"} :
          provider' = [provider EXCEPT ![d] =
                         [requests |-> provider[d].requests + 1, fate |-> fate]]
    BY <1>3 DEF CallProvider, Request
  <2> QED
    BY <1>4, <2>1 DEF TypeOK
<1>6. delivery[d].status \notin {"failed", "canceled"} /\ ~delivery[d].sid /\ callback[d] = "none"
  BY <1>3, <1>4 DEF RowFits, TypeOK
<1>7. Touches(d)
  BY <1>1, <1>5 DEF Touches
<1>8. Grows
  <2>1. \A e \in Job : provider[e].requests > 0 => provider'[e].requests > 0
    BY <1>5
  <2> QED
    BY <1>1, <1>4, <1>5, <2>1 DEF Grows, Reached
<1>9. OthersStay(w) /\ Keeps(w) /\ worker'[w].pc = "answer"
  BY GotoMoves DEF CallProvider
<1>10. NoNewOwner
  BY <1>2, <1>9, MoveQuiet DEF Keeps
<1>11. WorkFits(worker[w])'
  BY <1>1, <1>3, <1>5, <1>9
     DEF WorkFits, LaneFits, HoldFits, OwnerFits, EmailerFits, Keeps, Sms,
         BatchPc, SmsPc, OwnPc, EmailPc, BeforeAsk, GivingUp, AfterAccept, AfterSettle
<1>12. RequestFits(d)' /\ RowFits(d)'
  BY <1>1, <1>3, <1>4, <1>5, <1>6 DEF RequestFits, RowFits, HoldOf, Reached, Sms
<1>13. ASSUME NEW r \in Hold, r[1] = d PROVE ChargeFits(r)'
  <2>1. ChargeFits(r)
    BY DEF EvidenceInv, ChargesFit
  <2> QED
    BY <1>1, <1>4, <1>13, <2>1 DEF ChargeFits, Reached
<1> QED
  BY <1>1, <1>3, <1>7, <1>8, <1>9, <1>10, <1>11, <1>12, <1>13, OwnStep

\* TX2: what the owner writes on the delivery row of a message that was taken.
LEMMA WriteEvidence ==
  ASSUME TypeOK, PlacesFit, EvidenceInv, NEW w \in Worker,
         AcceptDelivery(w) \/ MarkSettled(w) \/ MarkRefunded(w)
  PROVE EvidenceInv'
<1> DEFINE s == worker[w]
<1> USE PlacesApart
<1>1. /\ UNCHANGED <<now, intent, reservation, provider, callback>>
      /\ s.pc \in {"accept", "mark", "remark"}
  BY DEF AcceptDelivery, MarkSettled, MarkRefunded, At
<1>2. s.pc \in OwnPc \cap SmsPc
  BY <1>1 DEF OwnPc, SmsPc
<1>3. PICK d \in Job, h \in Hold :
        /\ Owns(s, d) /\ d = s.job /\ h = s.hold /\ Sms(d) /\ d[1] \in KnownTemplate
        /\ delivery[d].status # "none" /\ delivery[d].hold = h
        /\ h[1] = d /\ HoldOf(d) = reservation[h] /\ HoldOf(d).status # "none"
        /\ OwnerFits(s) /\ LaneFits(s) /\ RequestFits(d) /\ RowFits(d) /\ ChargeFits(h)
  BY <1>2, OwnerKnows
<1>4. /\ Reached(d)
      /\ s.pc \in {"mark", "remark"} => reservation[h].status = "settled"
      /\ s.pc = "remark" => reservation[h].refunded
  BY <1>1, <1>3 DEF OwnerFits, AfterAccept, AfterSettle
<1>5. /\ OthersStay(w) /\ Keeps(w)
      /\ \/ s.pc = "accept" /\ worker'[w].pc = "settle"
         \/ s.pc = "mark" /\ worker'[w].pc = "recheck"
         \/ s.pc = "remark" /\ worker'[w].pc = "sent"
  BY GotoMoves DEF AcceptDelivery, MarkSettled, MarkRefunded, At
<1>6. /\ \A e \in Job \ {d} : delivery'[e] = delivery[e]
      /\ delivery'[d].hold = h
      /\ \/ delivery'[d] = delivery[d]
         \/ /\ delivery'[d].status = "accepted" /\ delivery'[d].sid
            /\ delivery'[d].settlement = delivery[d].settlement
            /\ delivery[d].status \notin {"failed", "canceled"}
         \/ /\ delivery'[d].status = delivery[d].status /\ delivery'[d].sid = delivery[d].sid
            /\ delivery[d].settlement = "settling" /\ delivery'[d].settlement = "settled"
            /\ s.pc = "mark"
         \/ /\ delivery'[d].status = delivery[d].status /\ delivery'[d].sid = delivery[d].sid
            /\ delivery[d].settlement = "settled" /\ delivery'[d].settlement = "refunded"
            /\ s.pc = "remark"
  <2>1. CASE AcceptDelivery(w)
    <3>1. CASE Rank[delivery[d].status] < 20
      <4> DEFINE row == [delivery[d] EXCEPT !.status = "accepted", !.sid = TRUE]
      <4>1. delivery' = [delivery EXCEPT ![d] = row]
        BY <1>3, <2>1, <3>1 DEF AcceptDelivery
      <4>2. delivery[d].status \notin {"failed", "canceled"}
        BY <3>1 DEF Rank
      <4>3. /\ row.status = "accepted" /\ row.sid /\ row.hold = delivery[d].hold
            /\ row.settlement = delivery[d].settlement
        BY DEF TypeOK, DeliveryRow
      <4> HIDE DEF row
      <4>4. delivery'[d] = row /\ \A e \in Job \ {d} : delivery'[e] = delivery[e]
        BY <4>1 DEF TypeOK
      <4> QED
        BY <1>3, <4>2, <4>3, <4>4
    <3>2. CASE ~(Rank[delivery[d].status] < 20)
      BY <1>3, <2>1, <3>2 DEF AcceptDelivery
    <3> QED
      BY <3>1, <3>2
  <2>2. CASE MarkSettled(w)
    BY <1>3, <2>2 DEF MarkSettled, Marked, At, TypeOK, DeliveryRow
  <2>3. CASE MarkRefunded(w)
    BY <1>3, <2>3 DEF MarkRefunded, Marked, At, TypeOK, DeliveryRow
  <2> QED
    BY <2>1, <2>2, <2>3
<1>7. Touches(d) /\ Grows
  BY <1>1, <1>3, <1>6, RowTouches
<1>8. NoNewOwner
  BY <1>2, <1>5, MoveQuiet DEF Keeps
<1>9. WorkFits(worker[w])'
  BY <1>1, <1>3, <1>4, <1>5, <1>6
     DEF WorkFits, LaneFits, HoldFits, OwnerFits, EmailerFits, Keeps, Sms,
         BatchPc, SmsPc, OwnPc, EmailPc, BeforeAsk, GivingUp, AfterAccept, AfterSettle, Reached
<1>10. RequestFits(d)' /\ RowFits(d)'
  <2>1. RequestFits(d)'
    BY <1>1, <1>3, <1>6 DEF RequestFits, Sms
  <2>2. RowFits(d)'
    BY <1>1, <1>3, <1>4, <1>6 DEF RowFits, HoldOf, Reached, Sms
  <2> QED
    BY <2>1, <2>2
<1>11. ASSUME NEW r \in Hold, r[1] = d PROVE ChargeFits(r)'
  <2>1. ChargeFits(r)
    BY DEF EvidenceInv, ChargesFit
  <2> QED
    BY <1>1, <1>3, <1>6, <1>11, <2>1 DEF ChargeFits, Reached
<1> QED
  BY <1>1, <1>3, <1>5, <1>7, <1>8, <1>9, <1>10, <1>11, OwnStep

\* TX2: what the owner does to the hold of a message that was taken.
LEMMA SettleEvidence ==
  ASSUME TypeOK, PlacesFit, EvidenceInv, NEW w \in Worker,
         SettleReservation(w) \/ RecheckTerminalFailure(w)
  PROVE EvidenceInv'
<1> DEFINE s == worker[w]
<1> USE PlacesApart
<1>1. /\ UNCHANGED <<now, intent, delivery, provider, callback>>
      /\ s.pc \in {"settle", "recheck"}
  BY DEF SettleReservation, RecheckTerminalFailure, At
<1>2. s.pc \in OwnPc \cap SmsPc
  BY <1>1 DEF OwnPc, SmsPc
<1>3. PICK d \in Job, h \in Hold :
        /\ Owns(s, d) /\ d = s.job /\ h = s.hold /\ Sms(d) /\ d[1] \in KnownTemplate
        /\ delivery[d].status # "none" /\ delivery[d].hold = h
        /\ h[1] = d /\ HoldOf(d) = reservation[h] /\ HoldOf(d).status # "none"
        /\ OwnerFits(s) /\ LaneFits(s) /\ RequestFits(d) /\ RowFits(d) /\ ChargeFits(h)
  BY <1>2, OwnerKnows
<1>4. /\ Reached(d) /\ reservation[h].status \in {"held", "settled"}
      /\ s.pc = "recheck" => reservation[h].status = "settled"
  BY <1>1, <1>3 DEF OwnerFits, RowFits, AfterAccept, AfterSettle
<1>5. /\ OthersStay(w) /\ Keeps(w)
      /\ \/ /\ s.pc = "settle" /\ worker'[w].pc = "mark"
            /\ reservation' = Settled(h)
         \/ /\ s.pc = "recheck" /\ worker'[w].pc = "remark"
            /\ reservation' = Refunded(h) /\ provider[d].fate = "failed"
         \/ s.pc = "recheck" /\ worker'[w].pc = "sent" /\ UNCHANGED reservation
  <2>1. CASE SettleReservation(w)
    BY <1>3, <2>1, GotoMoves DEF SettleReservation, At
  <2>2. CASE RecheckTerminalFailure(w)
    <3>1. delivery[d].settlement = "settled" /\ delivery[d].status \in {"failed", "canceled"}
          => provider[d].fate = "failed"
      BY <1>3 DEF RowFits
    <3> QED
      BY <1>3, <2>2, <3>1, GotoMoves DEF RecheckTerminalFailure, At
  <2> QED
    BY <2>1, <2>2
<1>6. /\ \A q \in Hold \ {h} : reservation'[q] = reservation[q]
      /\ reservation'[h].status = "settled"
      /\ reservation[h].refunded => reservation'[h].refunded
      /\ reservation'[h].refunded => reservation[h].refunded \/ provider[d].fate = "failed"
      /\ worker'[w].pc = "remark" => reservation'[h].refunded
  <2>1. CASE reservation' = Settled(h) /\ worker'[w].pc = "mark"
    BY <1>4, <2>1, HoldMoves
  <2>2. CASE reservation' = Refunded(h) /\ provider[d].fate = "failed" /\ s.pc = "recheck"
    BY <1>4, <2>2, HoldMoves
  <2>3. CASE UNCHANGED reservation /\ worker'[w].pc = "sent" /\ s.pc = "recheck"
    BY <1>4, <2>3
  <2> QED
    BY <1>5, <2>1, <2>2, <2>3
<1>7. Touches(d) /\ Grows
  BY <1>1, <1>3, <1>6, HoldTouches
<1>8. NoNewOwner
  BY <1>2, <1>5, MoveQuiet DEF Keeps
<1>9. WorkFits(worker[w])'
  BY <1>1, <1>3, <1>4, <1>5, <1>6
     DEF WorkFits, LaneFits, HoldFits, OwnerFits, EmailerFits, Keeps, Sms,
         BatchPc, SmsPc, OwnPc, EmailPc, BeforeAsk, GivingUp, AfterAccept, AfterSettle, Reached
<1>10. RequestFits(d)' /\ RowFits(d)'
  BY <1>1, <1>3, <1>4, <1>6 DEF RequestFits, RowFits, HoldOf, Reached, Sms
<1>11. ASSUME NEW r \in Hold, r[1] = d PROVE ChargeFits(r)'
  <2>1. ChargeFits(r)
    BY DEF EvidenceInv, ChargesFit
  <2> QED
    BY <1>1, <1>3, <1>4, <1>6, <1>11, <2>1 DEF ChargeFits, Reached
<1> QED
  BY <1>1, <1>3, <1>5, <1>7, <1>8, <1>9, <1>10, <1>11, OwnStep

(***************************************************************************)
(* The provider, its callbacks and the resolver.                           *)
(***************************************************************************)
LEMMA ReachedHas ==
  ASSUME TypeOK, EvidenceInv, NEW d \in Job, Sms(d), Reached(d) \/ callback[d] # "none"
  PROVE /\ RequestFits(d) /\ RowFits(d) /\ delivery[d].status # "none" /\ Reached(d)
        /\ delivery[d].hold \in Hold /\ delivery[d].hold[1] = d
        /\ HoldOf(d).status \in {"held", "settled"} /\ HoldOf(d) = reservation[delivery[d].hold]
        /\ delivery[d].settlement \in {"settling", "settled", "refunded"}
        /\ ChargeFits(delivery[d].hold)
        /\ delivery[d].status \in {"failed", "canceled"} => provider[d].fate = "failed"
        /\ callback[d] # "none" => provider[d].fate = "failed" /\ HoldOf(d).status = "settled"
<1>1. RequestFits(d) /\ RowFits(d)
  BY DEF EvidenceInv, RowsFit
<1>2. delivery[d].status # "none"
  BY <1>1 DEF RequestFits, Reached, Heard
<1>3. Reached(d)
  BY <1>1, <1>2 DEF RowFits, Reached, Heard
<1>4. /\ delivery[d].hold \in Hold /\ delivery[d].hold[1] = d
      /\ HoldOf(d).status \in {"held", "settled"}
  BY <1>1, <1>2, <1>3 DEF RowFits
<1>5. delivery[d].settlement \in {"settling", "settled", "refunded"}
  BY <1>1, <1>2, <1>4 DEF RowFits, TypeOK, DeliveryRow
<1>6. ChargeFits(delivery[d].hold) /\ HoldOf(d) = reservation[delivery[d].hold]
  BY <1>4 DEF EvidenceInv, ChargesFit, HoldOf
<1>7. /\ delivery[d].status \in {"failed", "canceled"} => provider[d].fate = "failed"
      /\ callback[d] # "none" => provider[d].fate = "failed" /\ HoldOf(d).status = "settled"
  BY <1>1, <1>2, <1>5 DEF RowFits
<1> QED
  BY <1>1, <1>2, <1>3, <1>4, <1>5, <1>6, <1>7

LEMMA ReportEvidence ==
  ASSUME TypeOK, PlacesFit, EvidenceInv, NEW d \in Job, NEW fate \in {"delivered", "failed"},
         ProviderReports(d, fate)
  PROVE EvidenceInv'
<1>1. /\ UNCHANGED <<now, intent, delivery, reservation, worker, callback>>
      /\ Sms(d) /\ provider[d].fate = "accepted" /\ Reached(d)
      /\ provider'[d].fate = fate /\ provider'[d].requests = provider[d].requests
      /\ \A e \in Job \ {d} : provider'[e] = provider[e]
  BY DEF ProviderReports, Sms, Reached, Heard, TypeOK
<1>2. /\ RequestFits(d) /\ RowFits(d) /\ delivery[d].status \notin {"none", "failed", "canceled"}
      /\ callback[d] = "none"
  BY <1>1, ReachedHas
<1>3. Touches(d) /\ Grows
  <2>1. Touches(d)
    BY <1>1 DEF Touches
  <2>2. Grows
    BY <1>1 DEF Grows, Reached, Heard
  <2> QED
    BY <2>1, <2>2
<1>4. RequestFits(d)' /\ RowFits(d)'
  BY <1>1, <1>2 DEF RequestFits, RowFits, HoldOf, Reached, Sms, Heard
<1>5. ASSUME NEW r \in Hold, r[1] = d PROVE ChargeFits(r)'
  <2>1. ChargeFits(r)
    BY DEF EvidenceInv, ChargesFit
  <2> QED
    BY <1>1, <1>5, <2>1 DEF ChargeFits, Reached, Heard
<1> QED
  BY <1>1, <1>2, <1>3, <1>4, <1>5, ReachedStep

LEMMA StatusEvidence ==
  ASSUME TypeOK, PlacesFit, EvidenceInv, NEW d \in Job, NEW status \in {"sent", "delivered", "failed"},
         StatusCallback(d, status)
  PROVE EvidenceInv'
<1>1. /\ UNCHANGED <<now, intent, reservation, provider, worker>>
      /\ Sms(d) /\ Reached(d) /\ (status = "failed" => provider[d].fate = "failed")
  BY DEF StatusCallback, Announced, Sms, Reached, Heard
<1>2. /\ \A e \in Job \ {d} : delivery'[e] = delivery[e] /\ callback'[e] = callback[e]
      /\ delivery'[d].status = status /\ delivery'[d].sid
      /\ delivery'[d].hold = delivery[d].hold
      /\ delivery'[d].settlement = delivery[d].settlement
  BY DEF StatusCallback, TypeOK, DeliveryRow
<1>3. /\ callback'[d] \in {"none", "refund"}
      /\ callback'[d] # "none" => status = "failed" /\ delivery[d].settlement = "settled"
  BY DEF StatusCallback, TypeOK
<1>4. RequestFits(d) /\ RowFits(d) /\ delivery[d].status # "none"
  BY <1>1, ReachedHas
<1>5. Touches(d) /\ Grows
  BY <1>1, <1>2, RowTouches
<1>6. RequestFits(d)' /\ RowFits(d)'
  <2>1. RequestFits(d)'
    BY <1>1, <1>2, <1>4 DEF RequestFits, Sms
  <2>2. RowFits(d)'
    BY <1>1, <1>2, <1>3, <1>4 DEF RowFits, HoldOf, Reached, Sms
  <2> QED
    BY <2>1, <2>2
<1>7. ASSUME NEW r \in Hold, r[1] = d PROVE ChargeFits(r)'
  <2>1. ChargeFits(r)
    BY DEF EvidenceInv, ChargesFit
  <2> QED
    BY <1>1, <1>2, <1>7, <2>1 DEF ChargeFits, Reached
<1> QED
  BY <1>1, <1>4, <1>5, <1>6, <1>7, ReachedStep

LEMMA CallbackEvidence ==
  ASSUME TypeOK, PlacesFit, EvidenceInv, NEW d \in Job,
         CallbackRefund(d) \/ CallbackMarkRefunded(d) \/ CallbackCrash(d)
  PROVE EvidenceInv'
<1> DEFINE h == delivery[d].hold
<1>1. UNCHANGED <<now, intent, provider, worker>> /\ callback[d] # "none"
  BY DEF CallbackRefund, CallbackMarkRefunded, CallbackCrash
<1>2. Sms(d)
  BY <1>1 DEF EvidenceInv, RowsFit, RequestFits
<1>3. /\ RequestFits(d) /\ RowFits(d) /\ delivery[d].status # "none" /\ Reached(d)
      /\ HoldOf(d) = reservation[h] /\ provider[d].fate = "failed" /\ HoldOf(d).status = "settled"
  BY <1>1, <1>2, ReachedHas
<1>0. PICK k \in Hold : k = h /\ k[1] = d
  BY <1>1, <1>2, ReachedHas
<1>4. /\ \A e \in Job \ {d} : delivery'[e] = delivery[e] /\ callback'[e] = callback[e]
      /\ \A q \in Hold \ {k} : reservation'[q] = reservation[q]
      /\ reservation'[k].status = "settled"
      /\ delivery'[d].hold = k /\ delivery'[d].status = delivery[d].status
      /\ delivery'[d].sid = delivery[d].sid
      /\ \/ /\ delivery' = delivery /\ reservation'[k].refunded /\ callback'[d] = "mark"
         \/ /\ reservation' = reservation /\ callback'[d] = "none" /\ callback[d] = "mark"
            /\ \/ delivery'[d].settlement = delivery[d].settlement
               \/ delivery'[d].settlement = "refunded" /\ delivery[d].settlement = "settled"
         \/ delivery' = delivery /\ reservation' = reservation /\ callback'[d] = "none"
  <2>1. CASE CallbackRefund(d)
    <3>1. reservation' = Refunded(k) /\ delivery' = delivery
      BY <1>0, <2>1 DEF CallbackRefund
    <3>2. callback'[d] = "mark" /\ \A e \in Job \ {d} : callback'[e] = callback[e]
      BY <2>1 DEF CallbackRefund, TypeOK
    <3> QED
      BY <1>3, <1>0, <3>1, <3>2, HoldMoves
  <2>2. CASE CallbackMarkRefunded(d)
    <3>1. /\ reservation' = reservation /\ callback[d] = "mark"
          /\ callback'[d] = "none" /\ \A e \in Job \ {d} : callback'[e] = callback[e]
      BY <2>2 DEF CallbackMarkRefunded, TypeOK
    <3>2. /\ \A e \in Job \ {d} : delivery'[e] = delivery[e]
          /\ delivery'[d].hold = k /\ delivery'[d].status = delivery[d].status
          /\ delivery'[d].sid = delivery[d].sid
          /\ \/ delivery'[d].settlement = delivery[d].settlement
             \/ delivery'[d].settlement = "refunded" /\ delivery[d].settlement = "settled"
      BY <1>0, <2>2 DEF CallbackMarkRefunded, Marked, TypeOK, DeliveryRow
    <3> QED
      BY <1>3, <1>0, <3>1, <3>2
  <2>3. CASE CallbackCrash(d)
    BY <1>3, <1>0, <2>3 DEF CallbackCrash, TypeOK
  <2> QED
    BY <2>1, <2>2, <2>3
<1>5. Touches(d)
  BY <1>1, <1>4, <1>0 DEF Touches
<1>6. reservation[k].refunded => reservation'[k].refunded
  BY <1>4
<1>7. Grows
  BY <1>1, <1>3, <1>4, <1>6, <1>0 DEF Grows, Reached
<1>8. RequestFits(d)'
  BY <1>1, <1>2, <1>3, <1>4 DEF RequestFits, Sms
<1>9. RowFits(d)'
  BY <1>1, <1>2, <1>3, <1>4, <1>6, <1>0 DEF RowFits, HoldOf, Reached, Sms
<1>10. ASSUME NEW r \in Hold, r[1] = d PROVE ChargeFits(r)'
  <2>1. ChargeFits(r)
    BY DEF EvidenceInv, ChargesFit
  <2> QED
    BY <1>1, <1>3, <1>4, <1>10, <1>0, <2>1 DEF ChargeFits, Reached
<1> QED
  BY <1>1, <1>2, <1>3, <1>5, <1>7, <1>8, <1>9, <1>10, ReachedStep

LEMMA ResolveEvidence ==
  ASSUME TypeOK, PlacesFit, EvidenceInv, NEW i \in Intent, ResolverSettles(i)
  PROVE EvidenceInv'
<1>1. UNCHANGED <<now, intent, delivery, provider, worker, callback>> /\ Evidence(i)
      /\ reservation' = Settled(intent[i].hold)
  BY DEF ResolverSettles
<1>2. PICK d \in Job, h \in Hold :
        /\ Sms(d) /\ Reached(d) /\ delivery[d].hold = h /\ h = intent[i].hold /\ h[1] = d
        /\ HoldOf(d).status \in {"held", "settled"} /\ HoldOf(d) = reservation[h]
        /\ RequestFits(d) /\ RowFits(d) /\ delivery[d].status # "none"
  BY <1>1, EvidenceProves, ReachedHas
<1>3. reservation' = Settled(h)
  BY <1>1, <1>2
<1>4. /\ \A q \in Hold \ {h} : reservation'[q] = reservation[q]
      /\ reservation'[h].status = "settled"
      /\ reservation'[h].refunded = reservation[h].refunded
  BY <1>2, <1>3, HoldMoves
<1>5. Touches(d) /\ Grows
  BY <1>1, <1>2, <1>4, HoldTouches
<1>6. RequestFits(d)' /\ RowFits(d)'
  BY <1>1, <1>2, <1>4 DEF RequestFits, RowFits, HoldOf, Reached, Sms
<1>7. ASSUME NEW r \in Hold, r[1] = d PROVE ChargeFits(r)'
  <2>1. ChargeFits(r)
    BY DEF EvidenceInv, ChargesFit
  <2> QED
    BY <1>1, <1>2, <1>4, <1>7, <2>1 DEF ChargeFits, Reached
<1> QED
  BY <1>1, <1>2, <1>5, <1>6, <1>7, ReachedStep

(***************************************************************************)
(* The sweep, the hold, the row, and the email lane.                       *)
(***************************************************************************)
\* The sweep releases only holds no row refers to and no live worker inserts
\* under: a hold outlasts every invocation that could still use it.
LEMMA ReapEvidence ==
  ASSUME TypeOK, PlacesFit, TimeInv, EvidenceInv, NEW r \in Hold, ReapExpiredReservations(r)
  PROVE EvidenceInv'
<1>1. /\ UNCHANGED <<now, intent, delivery, provider, worker, callback>>
      /\ reservation[r].status = "held" /\ reservation[r].expiresAt < now /\ ~MayHaveBeenSent(r)
      /\ reservation' = Released(r)
  BY DEF ReapExpiredReservations
<1>2. /\ \A q \in Hold \ {r} : reservation'[q] = reservation[q]
      /\ reservation'[r].status = "released"
      /\ reservation'[r].refunded = reservation[r].refunded /\ ~reservation[r].refunded
  <2>1. ~reservation[r].refunded
    BY <1>1 DEF EvidenceInv, ChargesFit, ChargeFits
  <2> QED
    BY <1>1, <2>1, HoldMoves
<1>3. ASSUME NEW d \in Job, Sms(d), delivery[d].status # "none"
      PROVE delivery[d].hold \in Hold \ {r}
  <2>1. RowFits(d)
    BY DEF EvidenceInv, RowsFit
  <2>2. CASE delivery[d].hold = r
    <3>1. delivery[d].settlement \notin {"settled", "refunded", "not_applicable", "none"}
      BY <1>1, <1>3, <2>1, <2>2 DEF RowFits, HoldOf
    <3>2. delivery[d].settlement = "settling" /\ delivery[d].status # "canceled"
      BY <1>3, <2>1, <3>1 DEF RowFits, TypeOK, DeliveryRow
    <3> QED
      BY <1>1, <2>2, <3>2 DEF MayHaveBeenSent
  <2> QED
    BY <1>3, <2>1, <2>2 DEF RowFits
<1>4. Grows
  BY <1>1, <1>2 DEF Grows, Reached
<1>5. now \in Nat /\ RunLimit \in Nat /\ reservation[r].expiresAt \in Nat
  BY TimeAssumption DEF TypeOK, ReservationRow
<1>6. ASSUME NEW v \in Worker PROVE WorkFits(worker[v])'
  <2> DEFINE s == worker[v]
  <2>1. /\ s.pc \notin BatchPc => s.job \in Job
        /\ LaneFits(s) /\ OwnerFits(s) /\ WorkFits(s) /\ s.now \in Nat
    BY DEF PlacesFit, PlaceFits, EvidenceInv, WorkersFit, WorkFits, TypeOK, WorkerState
  <2>2. s.pc = "insert" /\ now - s.now <= RunLimit => s.hold \in Hold \ {r}
    <3> SUFFICES ASSUME s.pc = "insert", s.hold = r PROVE ~(now - s.now <= RunLimit)
      BY <2>1 DEF LaneFits
    <3>1. s.job = r[1]
      BY <2>1 DEF LaneFits
    <3>2. MayTakeUp(v, r[1])
      BY <3>1 DEF MayTakeUp, Inserting
    <3>3. s.now + RunLimit <= reservation[r].expiresAt
      BY <1>1, <3>2 DEF TimeInv, HoldsLast
    <3> QED
      BY <1>1, <1>5, <2>1, <3>3
  <2>3. s.pc \in BeforeAsk \cup GivingUp /\ Sms(s.job) => s.hold \in Hold \ {r}
    <3> SUFFICES ASSUME s.pc \in BeforeAsk \cup GivingUp, Sms(s.job) PROVE s.hold \in Hold \ {r}
      OBVIOUS
    <3>1. s.job \in Job /\ delivery[s.job].status # "none" /\ delivery[s.job].hold = s.hold
      BY <2>1, PlacesApart DEF OwnerFits
    <3> QED
      BY <1>3, <3>1
  <2>4. Undisturbed(s)
    BY <1>1, <1>2, <2>2, <2>3 DEF Undisturbed
  <2> QED
    BY <1>1, <1>4, <1>5, <2>1, <2>4, UnmovedFits DEF EvidenceInv
<1>7. ASSUME NEW d \in Job PROVE RequestFits(d)' /\ RowFits(d)'
  <2>1. RequestFits(d) /\ RowFits(d)
    BY DEF EvidenceInv, RowsFit
  <2>2. Sms(d) /\ delivery[d].status # "none" =>
          reservation'[delivery[d].hold] = reservation[delivery[d].hold]
    BY <1>2, <1>3
  <2>3. RequestFits(d)'
    BY <1>1, <2>1 DEF RequestFits, Sms
  <2>4. RowFits(d)'
    BY <1>1, <2>1, <2>2 DEF RowFits, Sms, HoldOf, Reached
  <2> QED
    BY <2>3, <2>4
<1>8. ASSUME NEW q \in Hold PROVE ChargeFits(q)'
  <2>1. ChargeFits(q)
    BY DEF EvidenceInv, ChargesFit
  <2> QED
    BY <1>1, <1>2, <2>1 DEF ChargeFits, Reached
<1>9. NoNewOwner
  BY <1>1 DEF NoNewOwner
<1>10. LinksFit'
  BY <1>1, <1>4, LinksStand, TablesAre, SameLinks DEF EvidenceInv
<1>11. OwnersApart' /\ EmailersApart'
  BY <1>9, ApartKept DEF EvidenceInv
<1> QED
  BY <1>6, <1>7, <1>8, <1>10, <1>11 DEF EvidenceInv, WorkersFit, RowsFit, ChargesFit

\* The hold an invocation makes is one it never had: the job was still ahead.
LEMMA ReserveEvidence ==
  ASSUME TypeOK, PlacesFit, TimeInv, EvidenceInv, NEW w \in Worker, NEW d \in worker[w].todo,
         ReserveSmsCredits(w, d)
  PROVE EvidenceInv'
<1>1. /\ UNCHANGED <<now, intent, delivery, provider, callback>>
      /\ Sms(d) /\ d[1] \in KnownTemplate /\ worker[w].pc = "batch" /\ d \in Job
  BY TakenTyped DEF ReserveSmsCredits, Take, At, Sms
<1>2. PICK r \in Hold :
        /\ worker' = [worker EXCEPT ![w] = [Begin(w, d) EXCEPT !.pc = "insert", !.hold = r]]
        /\ r[1] = d /\ (delivery[d].status = "none" => reservation'[r].status = "held")
        /\ reservation'[r].status # "none"
        /\ \A q \in Hold : \/ reservation'[q] = reservation[q]
                           \/ /\ q = r /\ reservation[q].status = "none"
                              /\ reservation'[q].status = "held" /\ ~reservation'[q].refunded
  <2>1. CASE LiveHold(d) = {}
    <3> DEFINE row == [status |-> "held", expiresAt |-> worker[w].now + ReservationTTL,
                       refunded |-> FALSE]
    <3>1. row.status = "held" /\ ~row.refunded
      OBVIOUS
    <3>2. /\ reservation' = [reservation EXCEPT ![<<d, w>>] = row]
          /\ worker' = [worker EXCEPT ![w] = [Begin(w, d) EXCEPT !.pc = "insert", !.hold = <<d, w>>]]
      BY <2>1 DEF ReserveSmsCredits
    <3> HIDE DEF row
    <3>3. <<d, w>> \in Hold
      BY <1>1 DEF Hold
    <3>4. Ahead(w, d)
      BY <1>1 DEF Ahead, Loaded
    <3>5. reservation[<<d, w>>].status = "none"
      BY <3>3, <3>4 DEF TimeInv, HoldsTaken
    <3>6. /\ reservation'[<<d, w>>] = row
          /\ \A q \in Hold \ {<<d, w>>} : reservation'[q] = reservation[q]
      BY <3>2, <3>3 DEF TypeOK
    <3> QED
      BY <3>1, <3>2, <3>3, <3>5, <3>6
  <2>2. CASE LiveHold(d) # {}
    <3>1. PICK r \in LiveHold(d) :
            /\ worker' = [worker EXCEPT ![w] = [Begin(w, d) EXCEPT !.pc = "insert", !.hold = r]]
            /\ UNCHANGED reservation
      BY <2>2 DEF ReserveSmsCredits
    <3>2. r \in Hold /\ r[1] = d /\ reservation[r].status \in {"held", "settled"}
      BY <3>1 DEF LiveHold
    <3>3. ChargeFits(r)
      BY <3>2 DEF EvidenceInv, ChargesFit
    <3>4. delivery[d].status = "none" => reservation[r].status = "held"
      BY <3>2, <3>3 DEF ChargeFits
    <3> QED
      BY <3>1, <3>2, <3>4
  <2> QED
    BY <2>1, <2>2
<1>3. /\ OthersStay(w) /\ worker'[w].pc = "insert" /\ worker'[w].job = d
      /\ worker'[w].hold = r
  BY <1>1, <1>2, ReserveMoves
<1>4. ~reservation[r].refunded \/ reservation'[r] = reservation[r]
  BY <1>2 DEF EvidenceInv, ChargesFit, ChargeFits
<1>5. Grows
  BY <1>1, <1>2, <1>4 DEF Grows, Reached
<1>6. ASSUME NEW v \in Worker \ {w} PROVE Undisturbed(worker[v])
  <2> DEFINE s == worker[v]
  <2>1. /\ s.pc \notin BatchPc => s.job \in Job
        /\ LaneFits(s) /\ OwnerFits(s) /\ \A e \in Job : RowFits(e)
    BY DEF PlacesFit, PlaceFits, EvidenceInv, WorkersFit, WorkFits, RowsFit
  <2>2. s.pc = "insert" => reservation'[s.hold].status = reservation[s.hold].status
    BY <1>2, <2>1 DEF LaneFits
  <2>3. s.pc \in BeforeAsk \cup GivingUp /\ Sms(s.job) =>
          reservation'[s.hold].status = reservation[s.hold].status
    <3> SUFFICES ASSUME s.pc \in BeforeAsk \cup GivingUp, Sms(s.job)
                 PROVE reservation'[s.hold].status = reservation[s.hold].status
      OBVIOUS
    <3>1. s.job \in Job /\ delivery[s.job].status # "none" /\ delivery[s.job].hold = s.hold
      BY <2>1, PlacesApart DEF OwnerFits
    <3>2. s.hold \in Hold /\ reservation[s.hold].status # "none"
      BY <2>1, <3>1 DEF RowFits, HoldOf
    <3> QED
      BY <1>2, <3>2
  <2> QED
    BY <1>1, <2>2, <2>3 DEF Undisturbed
<1>7. WorkFits(worker[w])'
  BY <1>1, <1>2, <1>3
     DEF WorkFits, LaneFits, HoldFits, OwnerFits, EmailerFits, Sms, BatchPc, SmsPc, OwnPc, EmailPc
<1>8. WorkersFit'
  BY <1>1, <1>3, <1>5, <1>6, <1>7, OthersFit
<1>9. ASSUME NEW e \in Job PROVE RequestFits(e)' /\ RowFits(e)'
  <2>1. RequestFits(e) /\ RowFits(e)
    BY DEF EvidenceInv, RowsFit
  <2>2. Sms(e) /\ delivery[e].status # "none" =>
          reservation'[delivery[e].hold] = reservation[delivery[e].hold]
    BY <1>2, <2>1 DEF RowFits, HoldOf
  <2>3. RequestFits(e)'
    BY <1>1, <2>1 DEF RequestFits, Sms
  <2>4. RowFits(e)'
    BY <1>1, <2>1, <2>2 DEF RowFits, Sms, HoldOf, Reached
  <2> QED
    BY <2>3, <2>4
<1>10. ASSUME NEW q \in Hold PROVE ChargeFits(q)'
  <2>1. ChargeFits(q)
    BY DEF EvidenceInv, ChargesFit
  <2> QED
    BY <1>1, <1>2, <2>1 DEF ChargeFits, Reached
<1>11. NoNewOwner
  BY <1>3 DEF NoNewOwner, OthersStay, Owns, Emailed, OwnPc
<1>12. LinksFit'
  BY <1>1, <1>5, LinksStand, TablesAre, SameLinks DEF EvidenceInv
<1>13. OwnersApart' /\ EmailersApart'
  BY <1>11, ApartKept DEF EvidenceInv
<1> QED
  BY <1>8, <1>9, <1>10, <1>12, <1>13 DEF EvidenceInv, RowsFit, ChargesFit

\* The winner of the insert becomes the owner; there was none.
LEMMA InsertEvidence ==
  ASSUME TypeOK, PlacesFit, EvidenceInv, NEW w \in Worker, InsertDelivery(w)
  PROVE EvidenceInv'
<1> DEFINE s == worker[w]
<1> USE PlacesApart
<1>1. /\ UNCHANGED <<now, intent, reservation, provider, callback>> /\ s.pc = "insert"
      /\ now - s.now <= RunLimit
  BY DEF InsertDelivery, At
<1>2. PICK d \in Job, h \in Hold :
        /\ d = s.job /\ h = s.hold /\ Sms(d) /\ d[1] \in KnownTemplate /\ h[1] = d
        /\ LaneFits(s) /\ HoldFits(s) /\ RequestFits(d)
  <2>1. s.job \in Job /\ WorkFits(s) /\ RequestFits(s.job)
    BY <1>1, AtJob DEF BatchPc
  <2> QED
    BY <1>1, <2>1 DEF WorkFits, LaneFits, SmsPc, BatchPc
<1>3. CASE delivery[d].status # "none"
  <2>1. SameTables /\ Finish(w)
    BY <1>1, <1>2, <1>3 DEF InsertDelivery, SameTables
  <2>2. LinksFit'
    BY <1>1, <2>1, LinksStand, TablesAre, SameGrows, SameLinks DEF EvidenceInv
  <2> QED
    BY <1>1, <2>1, <2>2, FinishRests, SameTablesStep
<1>4. CASE delivery[d].status = "none"
  <2>1. /\ reservation[h].status = "held" /\ provider[d].requests = 0 /\ ~Reached(d)
        /\ callback[d] = "none"
    BY <1>1, <1>2, <1>4 DEF HoldFits, RequestFits, Reached, Heard
  <2>2. /\ \A e \in Job \ {d} : delivery'[e] = delivery[e]
        /\ delivery'[d].status = "queued" /\ delivery'[d].settlement = "settling"
        /\ delivery'[d].hold = h /\ ~delivery'[d].sid
    <3> DEFINE row == [status |-> "queued", settlement |-> "settling", hold |-> h, sid |-> FALSE]
    <3>1. delivery' = [delivery EXCEPT ![d] = row]
      BY <1>2, <1>4 DEF InsertDelivery
    <3>2. /\ row.status = "queued" /\ row.settlement = "settling" /\ row.hold = h /\ ~row.sid
      OBVIOUS
    <3> HIDE DEF row
    <3> QED
      BY <3>1, <3>2 DEF TypeOK
  <2>3. OthersStay(w) /\ Keeps(w) /\ worker'[w].pc = "sending"
    BY <1>2, <1>4, GotoMoves DEF InsertDelivery
  <2>4. Grows
    BY <1>1, <1>4, <2>2 DEF Grows, Reached
  <2>5. Touches(d)
    BY <1>1, <2>2 DEF Touches
  <2>6. ASSUME NEW v \in Worker PROVE ~Owns(worker[v], d)
    BY <1>4 DEF EvidenceInv, WorkersFit, WorkFits, OwnerFits, Owns
  <2>7. ASSUME NEW v \in Worker \ {w} PROVE Undisturbed(worker[v])
    <3>1. /\ worker[v].pc \notin BatchPc => worker[v].job \in Job
          /\ LaneFits(worker[v]) /\ ~Owns(worker[v], d)
      BY <2>6 DEF PlacesFit, PlaceFits, EvidenceInv, WorkersFit, WorkFits
    <3> QED
      BY <1>1, <1>2, <2>2, <3>1 DEF Undisturbed, Owns, LaneFits
  <2>8. WorkFits(worker[w])'
    BY <1>1, <1>2, <2>1, <2>2, <2>3
       DEF WorkFits, LaneFits, HoldFits, OwnerFits, EmailerFits, Keeps, Sms,
           BatchPc, SmsPc, OwnPc, EmailPc, BeforeAsk, GivingUp, AfterAccept, AfterSettle
  <2>9. WorkersFit'
    BY <1>1, <2>3, <2>4, <2>7, <2>8, OthersFit
  <2>10. RequestFits(d)' /\ RowFits(d)'
    BY <1>1, <1>2, <1>4, <2>1, <2>2 DEF RequestFits, RowFits, HoldOf, Reached, Sms
  <2>11. ASSUME NEW r \in Hold, r[1] = d PROVE ChargeFits(r)'
    <3>1. ChargeFits(r)
      BY DEF EvidenceInv, ChargesFit
    <3> QED
      BY <1>1, <1>4, <2>11, <3>1 DEF ChargeFits
  <2>12. TablesFit'
    BY <2>5, <2>10, <2>11, TablesKept
  <2>13. LinksFit'
    BY <1>1, <2>4, LinksStand, TablesAre, SameLinks DEF EvidenceInv
  <2>14. OwnersApart'
    <3>1. \A v \in Worker, e \in Job : Owns(worker'[v], e) => Owns(worker[v], e) \/ (v = w /\ e = d)
      BY <1>2, <2>3 DEF OthersStay, Keeps, Owns
    <3>2. \A v \in Worker : Owns(worker'[v], d) => v = w
      BY <2>6, <3>1
    <3> QED
      BY <3>1, <3>2 DEF EvidenceInv, OwnersApart, Owns, Sms
  <2>15. EmailersApart'
    <3>1. \A v \in Worker, e \in Job : Emailed(worker'[v], e) => Emailed(worker[v], e)
      BY <2>3 DEF OthersStay, Emailed
    <3> QED
      BY <3>1 DEF EvidenceInv, EmailersApart, Emailed
  <2> QED
    BY <2>9, <2>12, <2>13, <2>14, <2>15 DEF EvidenceInv, TablesFit
<1> QED
  BY <1>3, <1>4

\* A job of the email lane has no hold.
LEMMA EmailHoldsNothing ==
  ASSUME TimeInv, EvidenceInv, NEW d \in Job, ~Sms(d), NEW r \in Hold, r[1] = d
  PROVE reservation[r].status = "none" /\ ~reservation[r].refunded
<1>1. reservation[r].status = "none"
  BY DEF TimeInv, HoldsTaken
<1> QED
  BY <1>1 DEF EvidenceInv, ChargesFit, ChargeFits

\* A step of the email lane disturbs no owner and no insert.
LEMMA EmailDisturbs ==
  ASSUME TypeOK, PlacesFit, EvidenceInv, NEW d \in Job, ~Sms(d), Touches(d), UNCHANGED reservation,
         NEW v \in Worker,
         worker[v].pc \in EmailPc /\ worker[v].job = d
           /\ delivery[d].status \in {"none", "queued"} => delivery'[d].status \in {"none", "queued"}
  PROVE Undisturbed(worker[v])
<1>1. /\ worker[v].pc \notin BatchPc => worker[v].job \in Job
      /\ LaneFits(worker[v])
  BY DEF PlacesFit, PlaceFits, EvidenceInv, WorkersFit, WorkFits
<1> QED
  BY <1>1, PlacesApart DEF Undisturbed, Touches, LaneFits

LEMMA EmailRowEvidence ==
  ASSUME TypeOK, PlacesFit, TimeInv, EvidenceInv, NEW w \in Worker, NEW d \in worker[w].todo,
         InsertEmailDelivery(w, d)
  PROVE EvidenceInv'
<1>1. /\ UNCHANGED <<now, intent, reservation, provider, callback>>
      /\ ~Sms(d) /\ d[1] \in KnownTemplate /\ worker[w].pc = "batch" /\ d \in Job
  BY TakenTyped DEF InsertEmailDelivery, Take, At, Sms
<1>2. worker[w].hold = NoHold
  BY <1>1 DEF EvidenceInv, WorkersFit, WorkFits, LaneFits, BatchPc
<1>3. /\ OthersStay(w) /\ worker'[w].pc = "sending" /\ worker'[w].job = d
      /\ worker'[w].hold = NoHold
  BY <1>1, <1>2, EmailMoves DEF InsertEmailDelivery
<1>4. /\ \A e \in Job \ {d} : delivery'[e] = delivery[e]
      /\ \/ delivery'[d] = delivery[d]
         \/ /\ delivery[d].status = "none" /\ delivery'[d].status = "queued"
            /\ delivery'[d].settlement = "none" /\ ~delivery'[d].sid
  <2> DEFINE row == [NoDelivery EXCEPT !.status = "queued"]
  <2>1. row.status = "queued" /\ row.settlement = "none" /\ ~row.sid
    BY DEF NoDelivery
  <2>2. delivery' = IF delivery[d].status # "none" THEN delivery
                    ELSE [delivery EXCEPT ![d] = row]
    BY DEF InsertEmailDelivery
  <2> HIDE DEF row
  <2> QED
    BY <1>1, <2>1, <2>2 DEF TypeOK
<1>5. Grows
  BY <1>1, <1>4 DEF Grows, Reached
<1>6. Touches(d)
  BY <1>1, <1>4 DEF Touches
<1>7. ASSUME NEW v \in Worker \ {w} PROVE Undisturbed(worker[v])
  BY <1>1, <1>4, <1>6, EmailDisturbs
<1>8. WorkFits(worker[w])'
  BY <1>1, <1>3
     DEF WorkFits, LaneFits, HoldFits, OwnerFits, EmailerFits, Sms, BatchPc, SmsPc, OwnPc, EmailPc
<1>9. WorkersFit'
  BY <1>1, <1>3, <1>5, <1>7, <1>8, OthersFit
<1>10. RequestFits(d)' /\ RowFits(d)'
  <2>1. RequestFits(d)
    BY <1>1 DEF EvidenceInv, RowsFit
  <2> QED
    BY <1>1, <1>4, <2>1 DEF RequestFits, RowFits, Sms
<1>11. ASSUME NEW r \in Hold, r[1] = d PROVE ChargeFits(r)'
  <2>1. reservation[r].status = "none" /\ ~reservation[r].refunded
    BY <1>1, <1>11, EmailHoldsNothing
  <2> QED
    BY <1>1, <2>1 DEF ChargeFits
<1>12. TablesFit'
  BY <1>1, <1>6, <1>10, <1>11, TablesKept
<1>13. LinksFit'
  BY <1>1, <1>5, LinksStand, TablesAre, SameLinks DEF EvidenceInv
<1>14. NoNewOwner
  BY <1>1, <1>3 DEF NoNewOwner, OthersStay, Owns, Emailed
<1> QED
  BY <1>9, <1>12, <1>13, <1>14, ApartKept DEF EvidenceInv, TablesFit

LEMMA SendEmailEvidence ==
  ASSUME TypeOK, PlacesFit, AskInv, TimeInv, EvidenceInv, NEW w \in Worker, SendEmail(w)
  PROVE EvidenceInv'
<1> DEFINE s == worker[w]
<1> USE PlacesApart
<1>1. /\ UNCHANGED <<now, intent, delivery, reservation, callback>> /\ s.pc = "email"
  BY DEF SendEmail, At
<1>2. PICK d \in Job :
        /\ d = s.job /\ ~Sms(d) /\ d[1] \in KnownTemplate /\ LaneFits(s) /\ RequestFits(d)
        /\ s.hold = NoHold /\ delivery[d].status \in {"none", "queued"}
  <2>1. s.job \in Job /\ WorkFits(s) /\ RequestFits(s.job)
    BY <1>1, AtJob DEF BatchPc
  <2> QED
    BY <1>1, <2>1 DEF WorkFits, LaneFits, EmailerFits, EmailPc, BatchPc
<1>3. provider[d].requests = 0 /\ provider[d].fate = "none"
  BY <1>1, <1>2 DEF AskInv, AskersOwn, Asking, AskPc, RequestFits
<1>4. /\ \A e \in Job \ {d} : provider'[e] = provider[e]
      /\ provider'[d].requests = 1 /\ provider'[d].fate \in {"accepted", "lost"}
  <2>1. PICK fate \in {"accepted", "lost"} :
          provider' = [provider EXCEPT ![d] =
                         [requests |-> provider[d].requests + 1, fate |-> fate]]
    BY <1>2 DEF SendEmail, Request
  <2> QED
    BY <1>3, <2>1 DEF TypeOK
<1>5. OthersStay(w) /\ Keeps(w) /\ worker'[w].pc = "emailed"
  BY GotoMoves DEF SendEmail
<1>6. Touches(d)
  BY <1>1, <1>4 DEF Touches
<1>7. Grows
  <2>1. \A e \in Job : provider[e].requests > 0 => provider'[e].requests > 0
    BY <1>4
  <2> QED
    BY <1>1, <1>3, <1>4, <2>1 DEF Grows, Reached, Heard
<1>8. ASSUME NEW v \in Worker \ {w} PROVE Undisturbed(worker[v])
  BY <1>1, <1>2, <1>6, EmailDisturbs
<1>9. WorkFits(worker[w])'
  BY <1>1, <1>2, <1>4, <1>5
     DEF WorkFits, LaneFits, HoldFits, OwnerFits, EmailerFits, Keeps, Sms, BatchPc, SmsPc, OwnPc,
         EmailPc
<1>10. WorkersFit'
  BY <1>1, <1>5, <1>7, <1>8, <1>9, OthersFit
<1>11. RequestFits(d)' /\ RowFits(d)'
  BY <1>1, <1>2, <1>4 DEF RequestFits, RowFits, Sms
<1>12. ASSUME NEW r \in Hold, r[1] = d PROVE ChargeFits(r)'
  <2>1. reservation[r].status = "none" /\ ~reservation[r].refunded
    BY <1>2, <1>12, EmailHoldsNothing
  <2> QED
    BY <1>1, <2>1 DEF ChargeFits
<1>13. TablesFit'
  BY <1>6, <1>11, <1>12, TablesKept
<1>14. LinksFit'
  BY <1>1, <1>7, LinksStand, TablesAre, SameLinks DEF EvidenceInv
<1>15. OwnersApart'
  <2>1. \A v \in Worker, e \in Job : Owns(worker'[v], e) => Owns(worker[v], e)
    BY <1>2, <1>5 DEF OthersStay, Keeps, Owns
  <2> QED
    BY <2>1 DEF EvidenceInv, OwnersApart, Owns, Sms
<1>16. EmailersApart'
  <2>1. ASSUME NEW v \in Worker PROVE ~Emailed(worker[v], d)
    BY <1>2, <1>3, PlacesApart DEF EvidenceInv, WorkersFit, WorkFits, EmailerFits, Emailed, BatchPc
  <2>2. \A v \in Worker, e \in Job : Emailed(worker'[v], e) => Emailed(worker[v], e) \/ (v = w /\ e = d)
    BY <1>2, <1>5 DEF OthersStay, Keeps, Emailed
  <2> QED
    BY <2>1, <2>2 DEF EvidenceInv, EmailersApart, Emailed
<1> QED
  BY <1>10, <1>13, <1>14, <1>15, <1>16 DEF EvidenceInv, TablesFit

LEMMA CloseEmailEvidence ==
  ASSUME TypeOK, PlacesFit, AskInv, TimeInv, EvidenceInv, NEW w \in Worker, CloseEmail(w)
  PROVE EvidenceInv'
<1> DEFINE s == worker[w]
<1> USE PlacesApart
<1>1. /\ UNCHANGED <<now, intent, reservation, provider, callback>> /\ s.pc = "emailed"
  BY DEF CloseEmail, At
<1>2. PICK d \in Job :
        /\ d = s.job /\ ~Sms(d) /\ d[1] \in KnownTemplate /\ LaneFits(s) /\ RequestFits(d)
        /\ s.hold = NoHold /\ provider[d].requests > 0
  <2>1. s.job \in Job /\ WorkFits(s) /\ RequestFits(s.job)
    BY <1>1, AtJob DEF BatchPc
  <2> QED
    BY <1>1, <2>1 DEF WorkFits, LaneFits, EmailerFits, EmailPc, BatchPc
<1>3. /\ \A e \in Job \ {d} : delivery'[e] = delivery[e]
      /\ delivery'[d].status \in {"sent", "failed"} /\ delivery'[d].hold = delivery[d].hold
      /\ delivery'[d].settlement = delivery[d].settlement /\ delivery'[d].sid = delivery[d].sid
  BY <1>2 DEF CloseEmail, TypeOK, DeliveryRow
<1>4. /\ OthersStay(w) /\ Keeps(w)
      /\ worker'[w].pc = "resolve" \/ (worker'[w].pc = "sent" /\ Reached(d))
  <2>1. CASE provider[s.job].fate \in Heard /\ Goto(w, "sent")
    BY <1>2, <2>1, GotoMoves DEF Reached
  <2>2. CASE worker' = [worker EXCEPT ![w].pc = "resolve", ![w].reason = "failed"]
    BY <2>2 DEF TypeOK, WorkerState, OthersStay, Keeps
  <2> QED
    BY <2>1, <2>2 DEF CloseEmail
<1>5. Touches(d) /\ Grows
  BY <1>1, <1>3, RowTouches
<1>6. ASSUME NEW v \in Worker \ {w} PROVE Undisturbed(worker[v])
  <2>1. ~(worker[v].pc \in EmailPc /\ worker[v].job = d)
    <3>1. CASE worker[v].pc = "email"
      BY <1>2, <3>1 DEF AskInv, AskersOwn, Asking, AskPc
    <3>2. CASE worker[v].pc = "emailed"
      BY <1>1, <1>2, <1>6, <3>2 DEF EvidenceInv, EmailersApart, Emailed
    <3> QED
      BY <3>1, <3>2 DEF EmailPc
  <2> QED
    BY <1>1, <1>2, <1>5, <2>1, EmailDisturbs
<1>7. WorkFits(worker[w])'
  BY <1>1, <1>2, <1>3, <1>4
     DEF WorkFits, LaneFits, HoldFits, OwnerFits, EmailerFits, Keeps, Sms, BatchPc, SmsPc, OwnPc,
         EmailPc, Reached
<1>8. WorkersFit'
  BY <1>1, <1>4, <1>5, <1>6, <1>7, OthersFit
<1>9. RequestFits(d)' /\ RowFits(d)'
  BY <1>1, <1>2, <1>3 DEF RequestFits, RowFits, Sms
<1>10. ASSUME NEW r \in Hold, r[1] = d PROVE ChargeFits(r)'
  <2>1. reservation[r].status = "none" /\ ~reservation[r].refunded
    BY <1>2, <1>10, EmailHoldsNothing
  <2> QED
    BY <1>1, <2>1 DEF ChargeFits
<1>11. TablesFit'
  BY <1>5, <1>9, <1>10, TablesKept
<1>12. LinksFit'
  BY <1>1, <1>5, LinksStand, TablesAre, SameLinks DEF EvidenceInv
<1>13. NoNewOwner
  BY <1>2, <1>4 DEF NoNewOwner, OthersStay, Keeps, Owns, Emailed
<1> QED
  BY <1>8, <1>11, <1>12, <1>13, ApartKept DEF EvidenceInv, TablesFit

(***************************************************************************)
(* The evidence invariant, and the properties it gives.                    *)
(***************************************************************************)
LEMMA EvidenceStep ==
  ASSUME TypeOK, PlacesFit, AskInv, TimeInv, EvidenceInv, [Next]_vars
  PROVE EvidenceInv'
<1>1. CASE Producer \/ Tick \/ UNCHANGED vars
  BY <1>1, TablesEvidence
<1>2. CASE Housekeeping
  BY <1>2, TablesEvidence, ReapEvidence, ResolveEvidence, AdoptEvidence DEF Housekeeping
<1>3. CASE Provider
  BY <1>3, ReportEvidence, StatusEvidence, CallbackEvidence DEF Provider
<1>4. ASSUME NEW w \in Worker, Batch(w) PROVE EvidenceInv'
  BY <1>4, PickEvidence, ClaimEvidence, DismissEvidence, ReserveEvidence, EmailRowEvidence
     DEF Batch
<1>5. ASSUME NEW w \in Worker, Pipeline(w) PROVE EvidenceInv'
  BY <1>5, InsertEvidence, ToSendingEvidence, SupersededEvidence, VerdictEvidence,
     ReleaseEvidence, CloseEvidence, CallEvidence, WriteEvidence, SettleEvidence,
     SendEmailEvidence, CloseEmailEvidence DEF Pipeline
<1>6. ASSUME NEW w \in Worker, Crash(w) PROVE EvidenceInv'
  BY <1>6, PickEvidence
<1>7. ASSUME NEW d \in Job, CallbackCrash(d) PROVE EvidenceInv'
  BY <1>7, CallbackEvidence
<1> QED
  BY <1>1, <1>2, <1>3, <1>4, <1>5, <1>6, <1>7 DEF Next

LEMMA InitEvidence == Init => EvidenceInv
<1> SUFFICES ASSUME Init PROVE EvidenceInv
  OBVIOUS
<1>1. /\ \A w \in Worker : worker[w] = Idle
      /\ \A d \in Job : delivery[d] = NoDelivery /\ provider[d] = NoRequest /\ callback[d] = "none"
      /\ \A r \in Hold : reservation[r] = NoReservation
      /\ \A i \in Intent : intent[i] = NoIntent
  BY DEF Init
<1>2. WorkersFit
  BY <1>1, PlacesApart
     DEF WorkersFit, WorkFits, LaneFits, HoldFits, OwnerFits, EmailerFits, Idle, BatchPc
<1>3. OwnersApart /\ EmailersApart
  BY <1>1 DEF OwnersApart, EmailersApart, Owns, Emailed, Idle, OwnPc
<1>4. RowsFit
  BY <1>1 DEF RowsFit, RequestFits, RowFits, NoDelivery, NoRequest
<1>5. ChargesFit
  BY <1>1 DEF ChargesFit, ChargeFits, NoReservation
<1>6. LinksFit
  BY <1>1 DEF LinksFit, LinkFits, Outcome, NoIntent
<1> QED
  BY <1>2, <1>3, <1>4, <1>5, <1>6 DEF EvidenceInv

MessageInv == TypeInv /\ AskInv /\ TimeInv /\ EvidenceInv

LEMMA MessageStep == MessageInv /\ [Next]_vars => MessageInv'
BY TypeStep, PlacesStep, AskStep, TimeStep, EvidenceStep DEF MessageInv, TypeInv

LEMMA InitAsks == Init => AskInv
<1>1. Init => \A w \in Worker : ~Asking(w)
  BY DEF Init, Asking, AskPc, Idle
<1>2. Init => \A d \in Job : provider[d].requests = 0
  BY DEF Init, NoRequest
<1> QED
  BY <1>1, <1>2 DEF AskInv, AskersOwn, AskersApart, RequestedPast, AtMostOneSend, Requested

LEMMA MessageInvariant == Spec => []MessageInv
<1>1. Init => AskInv /\ TimeInv /\ EvidenceInv
  BY InitAsks, InitTime, InitEvidence
<1>2. TypeInv /\ AskInv /\ TimeInv /\ EvidenceInv /\ [Next]_vars
        => AskInv' /\ TimeInv' /\ EvidenceInv'
  BY AskStep, TimeStep, EvidenceStep DEF TypeInv
<1> QED
  BY <1>1, <1>2, TypeInvariant, PTL DEF Spec, MessageInv

\* Contract 19: whatever sweeps run, workers race or wake up late, the hold of
\* a message the provider took is never released.
THEOREM AcceptedIsNeverReleased == Spec => []NeverReleasedAfterAcceptance
<1>1. MessageInv => NeverReleasedAfterAcceptance
  <2> SUFFICES ASSUME MessageInv, NEW d \in Job, AcceptedBySms(d)
               PROVE reservation[delivery[d].hold].status \in {"held", "settled"}
    BY DEF NeverReleasedAfterAcceptance
  <2> QED
    BY ReachedHas DEF MessageInv, TypeInv, AcceptedBySms, Sms, Reached
<1> QED
  BY <1>1, MessageInvariant, PTL

\* The evidence on the delivery rows agrees with the credit account.
THEOREM RowsAgreeWithAccount == Spec => []EvidenceAgrees
<1>1. MessageInv => EvidenceAgrees
  <2> SUFFICES ASSUME MessageInv, NEW d \in Job
               PROVE LET hold == reservation[delivery[d].hold] IN
                     /\ delivery[d].settlement \in {"settled", "refunded"} => hold.status = "settled"
                     /\ delivery[d].settlement = "refunded" => hold.refunded
                     /\ delivery[d].settlement = "not_applicable" => hold.status = "released"
                     /\ callback[d] = "mark" => hold.refunded
    BY DEF EvidenceAgrees
  <2>1. RequestFits(d) /\ RowFits(d)
    BY DEF MessageInv, EvidenceInv, RowsFit
  <2> QED
    BY <2>1 DEF RequestFits, RowFits, HoldOf
<1> QED
  BY <1>1, MessageInvariant, PTL

\* What an intent says of its message is what happened to it.
THEOREM StatusIsTrue == Spec => []StatusTellsTruth
<1>1. MessageInv => StatusTellsTruth
  <2> SUFFICES ASSUME MessageInv, NEW i \in Intent
               PROVE /\ intent[i].status \in NeverAsked => \A d \in JobsOf(i) : ~Requested(d)
                     /\ intent[i].status = "sent" =>
                          \E d \in JobsOf(i) :
                            /\ provider[d].fate \in Heard
                            /\ Channel[i] = "sms" =>
                                 reservation[delivery[d].hold].status = "settled"
                     /\ Channel[i] = "sms" /\ intent[i].status = "failed" =>
                          \A d \in JobsOf(i) : provider[d].fate \notin Heard
    BY DEF StatusTellsTruth
  <2>1. Outcome(i) /\ \A d \in JobsOf(i) : d \in Job /\ d[1] = i /\ RequestFits(d)
    BY DEF MessageInv, EvidenceInv, LinksFit, RowsFit, JobsOf
  <2>2. intent[i].status \in NeverAsked => \A d \in JobsOf(i) : ~Requested(d)
    BY <2>1 DEF MessageInv, AskInv, RequestedPast, NeverAsked, Past, Requested
  <2>3. ASSUME intent[i].status = "sent"
        PROVE \E d \in JobsOf(i) :
                 /\ provider[d].fate \in Heard
                 /\ Channel[i] = "sms" => reservation[delivery[d].hold].status = "settled"
    BY <2>1, <2>3 DEF Outcome, Reached, Sms, HoldOf
  <2>4. ASSUME Channel[i] = "sms", intent[i].status = "failed", NEW d \in JobsOf(i),
               provider[d].fate \in Heard
        PROVE FALSE
    <3>1. provider[d].requests > 0
      <4>1. provider[d].requests \in Nat /\ provider[d].requests # 0
        BY <2>1, <2>4 DEF RequestFits, Heard, MessageInv, TypeInv, TypeOK
      <4> QED
        BY <4>1
    <3>2. i \in KnownTemplate
      BY <2>1, <3>1 DEF RequestFits
    <3>3. PICK e \in JobsOf(i) : provider[e].fate = "refused"
      BY <2>1, <2>4, <3>2 DEF Outcome
    <3>4. provider[e].requests > 0
      <4>1. provider[e].requests \in Nat /\ provider[e].requests # 0
        BY <2>1, <3>3 DEF RequestFits, MessageInv, TypeInv, TypeOK
      <4> QED
        BY <4>1
    <3>5. d = e
      BY <2>1, <3>1, <3>4 DEF MessageInv, AskInv, AtMostOneSend, Requested
    <3> QED
      BY <2>4, <3>3, <3>5 DEF Heard
  <2> QED
    BY <2>2, <2>3, <2>4
<1> QED
  BY <1>1, MessageInvariant, PTL

LEMMA Ranked ==
  /\ \A status \in DOMAIN Rank : Rank[status] \in Int /\ 0 <= Rank[status] /\ Rank[status] <= 70
  /\ Rank["none"] = 0 /\ Rank["queued"] = 0 /\ Rank["accepted"] = 20
  /\ Rank["sent"] = 40 /\ Rank["failed"] = 70 /\ Rank["canceled"] = 70
BY DEF Rank

\* Contract 19: no callback and no write of the pipeline lowers the rank of a
\* delivery row.
THEOREM RankNeverFalls == Spec => DeliveryNeverRegresses
<1>1. MessageInv /\ [Next]_vars =>
        [\A d \in Job : Rank[delivery'[d].status] >= Rank[delivery[d].status]]_delivery
  <2> SUFFICES ASSUME MessageInv, Next, delivery' # delivery, NEW e \in Job
               PROVE Rank[delivery'[e].status] >= Rank[delivery[e].status]
    BY DEF vars
  <2>1. TypeOK /\ PlacesFit /\ EvidenceInv
    BY DEF MessageInv, TypeInv
  <2>2. delivery[e].status \in DOMAIN Rank
    BY <2>1 DEF TypeOK, DeliveryRow
  <2>3. CASE delivery'[e].status = delivery[e].status
    BY <2>2, <2>3, Ranked
  <2>4. ASSUME NEW d \in Job, NEW status \in {"sent", "delivered", "failed"},
               StatusCallback(d, status)
        PROVE Rank[delivery'[e].status] >= Rank[delivery[e].status]
    <3>1. Rank[delivery[d].status] < Rank[status] /\ status \in DOMAIN Rank
      BY <2>4 DEF StatusCallback, Rank
    <3>2. delivery'[e].status = delivery[e].status \/ (e = d /\ delivery'[e].status = status)
      BY <2>1, <2>4 DEF StatusCallback, TypeOK, DeliveryRow
    <3> QED
      BY <2>2, <2>3, <3>1, <3>2, Ranked
  <2>5. ASSUME NEW d \in Job, CallbackMarkRefunded(d)
        PROVE delivery'[e].status = delivery[e].status
    BY <2>1, <2>5 DEF CallbackMarkRefunded, Marked, TypeOK, DeliveryRow
  <2>6. ASSUME NEW w \in Worker, MarkSettled(w) \/ MarkRefunded(w)
        PROVE delivery'[e].status = delivery[e].status
    BY <2>1, <2>6 DEF MarkSettled, MarkRefunded, Marked, TypeOK, DeliveryRow
  <2>7. ASSUME NEW w \in Worker, InsertDelivery(w) \/ \E d \in worker[w].todo : InsertEmailDelivery(w, d)
        PROVE delivery'[e].status = delivery[e].status \/ delivery[e].status = "none"
    <3>1. ASSUME NEW d, NEW row, delivery[d].status = "none", delivery' = [delivery EXCEPT ![d] = row]
          PROVE delivery'[e].status = delivery[e].status \/ delivery[e].status = "none"
      BY <2>1, <3>1 DEF TypeOK
    <3> QED
      BY <2>7, <3>1 DEF InsertDelivery, InsertEmailDelivery
  <2>8. ASSUME NEW w \in Worker, CloseDelivery(w)
        PROVE delivery'[e].status \in {delivery[e].status, "failed", "canceled"}
    BY <2>1, <2>8 DEF CloseDelivery, TypeOK, DeliveryRow
  <2>9. ASSUME NEW w \in Worker, AcceptDelivery(w)
        PROVE \/ delivery'[e].status = delivery[e].status
              \/ Rank[delivery[e].status] < 20 /\ delivery'[e].status = "accepted"
    <3> DEFINE d == worker[w].job
    <3>1. CASE delivery' = delivery
      BY <3>1
    <3>2. CASE delivery' # delivery
      <4>1. /\ Rank[delivery[d].status] < 20
            /\ delivery' = [delivery EXCEPT ![d].status = "accepted", ![d].sid = TRUE]
        BY <2>9, <3>2 DEF AcceptDelivery
      <4> HIDE DEF d
      <4>2. delivery'[e].status = delivery[e].status \/ (e = d /\ delivery'[e].status = "accepted")
        BY <2>1, <4>1 DEF TypeOK, DeliveryRow
      <4> QED
        BY <4>1, <4>2
    <3> QED
      BY <3>1, <3>2
  <2>10. ASSUME NEW w \in Worker, CloseEmail(w)
         PROVE \/ delivery'[e].status = delivery[e].status
               \/ /\ delivery[e].status \in {"none", "queued"}
                  /\ delivery'[e].status \in {"sent", "failed"}
    <3>1. worker[w].pc = "emailed"
      BY <2>10 DEF CloseEmail, At
    <3>2. /\ worker[w].job \in Job /\ delivery[worker[w].job].status \in {"none", "queued"}
      BY <2>1, <3>1, AtJob DEF BatchPc, WorkFits, LaneFits, EmailerFits, EmailPc
    <3>3. PICK d \in Job : d = worker[w].job /\ delivery[d].status \in {"none", "queued"}
      BY <3>2
    <3>4. \/ delivery' = [delivery EXCEPT ![d].status = "sent"]
          \/ delivery' = [delivery EXCEPT ![d].status = "failed"]
      BY <2>10, <3>3 DEF CloseEmail
    <3>5. /\ e # d => delivery'[e] = delivery[e]
          /\ delivery'[d].status \in {"sent", "failed"}
      BY <2>1, <3>4 DEF TypeOK, DeliveryRow
    <3> QED
      BY <3>3, <3>5
  <2>11. ASSUME NEW w \in Worker,
                \/ Crash(w) \/ \E t \in 0..now : PickDueIntents(w, t)
                \/ ClaimDueIntents(w) \/ LoadClaimedIntents(w)
                \/ \E d \in worker[w].todo :
                     \/ TemplateUnknown(w, d) \/ Suppress(w, d) \/ DeferIntent(w, d)
                     \/ ReserveSmsCredits(w, d) \/ NoCreditsLeft(w, d)
         PROVE FALSE
    BY <2>11 DEF Crash, PickDueIntents, ClaimDueIntents, LoadClaimedIntents, TemplateUnknown,
                 Suppress, DeferIntent, ReserveSmsCredits, NoCreditsLeft
  <2>12. ASSUME NEW w \in Worker,
                \/ ToSending(w) \/ Superseded(w) \/ ReleaseReservation(w) \/ ResolveStopped(w)
                \/ FinalCheck(w) \/ CallProvider(w) \/ AnswerAccepted(w) \/ AnswerRefused(w)
                \/ AnswerLost(w) \/ SettleReservation(w) \/ RecheckTerminalFailure(w)
                \/ ToSent(w) \/ SendEmail(w)
         PROVE FALSE
    BY <2>12 DEF ToSending, Superseded, ReleaseReservation, ResolveStopped, FinalCheck,
                 CallProvider, AnswerAccepted, AnswerRefused, AnswerLost, SettleReservation,
                 RecheckTerminalFailure, ToSent, SendEmail
  <2>13. CASE Producer \/ Housekeeping \/ Tick \/ \E d \in Job : CallbackCrash(d)
    BY <2>13
       DEF Producer, EnqueueCommunicationIntent, CancelAppointmentIntents,
           ReleaseBlockedIntentsAfterTopup, Housekeeping, RecoverClaimed, ParkSending,
           ExpireStaleIntents, ReapExpiredReservations, ResolverSettles, ResolverAdopts, Tick,
           CallbackCrash
  <2>14. CASE Provider
    <3>1. \/ \E d \in Job, status \in {"sent", "delivered", "failed"} : StatusCallback(d, status)
          \/ \E d \in Job : CallbackMarkRefunded(d)
      BY <2>14 DEF Provider, ProviderReports, CallbackRefund
    <3> QED
      BY <2>3, <2>4, <2>5, <3>1
  <2>15. ASSUME delivery[e].status = "none" PROVE Rank[delivery'[e].status] >= Rank[delivery[e].status]
    <3>1. delivery'[e].status \in DOMAIN Rank
      BY TypeStep, <2>1 DEF TypeOK, DeliveryRow
    <3> QED
      BY <2>15, <3>1, Ranked
  <2>16. ASSUME NEW w \in Worker, Batch(w) \/ Crash(w)
         PROVE Rank[delivery'[e].status] >= Rank[delivery[e].status]
    BY <2>3, <2>7, <2>11, <2>15, <2>16 DEF Batch
  <2>17. ASSUME NEW w \in Worker, Pipeline(w)
         PROVE Rank[delivery'[e].status] >= Rank[delivery[e].status]
    <3>1. \/ InsertDelivery(w) \/ CloseDelivery(w) \/ AcceptDelivery(w) \/ MarkSettled(w)
          \/ MarkRefunded(w) \/ CloseEmail(w)
      BY <2>12, <2>17 DEF Pipeline
    <3>2. \/ delivery'[e].status = delivery[e].status \/ delivery[e].status = "none"
          \/ delivery'[e].status \in {"failed", "canceled"}
          \/ Rank[delivery[e].status] < 20 /\ delivery'[e].status = "accepted"
          \/ /\ delivery[e].status \in {"none", "queued"}
             /\ delivery'[e].status \in {"sent", "failed"}
      BY <2>6, <2>7, <2>8, <2>9, <2>10, <3>1
    <3> QED
      BY <2>2, <2>3, <2>15, <3>2, Ranked
  <2> QED
    BY <2>13, <2>14, <2>16, <2>17 DEF Next
<1> QED
  BY <1>1, MessageInvariant, PTL DEF Spec, DeliveryNeverRegresses

(***************************************************************************)
(* The pipeline implements SendOnce.  The request, the charge and the      *)
(* return of an intent are unique, so the counts SendOnce sees are 0 or 1. *)
(***************************************************************************)
IsPaid(i) == \E r \in HoldsOf(i) : reservation[r].status = "settled"
IsReturned(i) == \E r \in HoldsOf(i) : reservation[r].refunded

Counts ==
  \A i \in Intent :
    /\ Paid(i) = IF IsPaid(i) THEN 1 ELSE 0
    /\ Returned(i) = IF IsReturned(i) THEN 1 ELSE 0
    /\ (\A d \in JobsOf(i) : ~Requested(d)) => Fate(i) = "no"
    /\ \A d \in JobsOf(i) : Requested(d) => Fate(i) = provider[d].fate

\* The holds of an intent that are settled are one: the hold of its one request.
LEMMA OneCharge ==
  ASSUME MessageInv, NEW q \in Hold, NEW r \in Hold, q[1][1] = r[1][1],
         reservation[q].status = "settled", reservation[r].status = "settled"
  PROVE q = r
<1>1. ChargeFits(q) /\ ChargeFits(r) /\ q[1] \in Job /\ r[1] \in Job
  BY JobParts DEF MessageInv, EvidenceInv, ChargesFit
<1>2. Reached(q[1]) /\ Reached(r[1]) /\ delivery[q[1]].hold = q /\ delivery[r[1]].hold = r
  BY <1>1 DEF ChargeFits
<1>3. ASSUME NEW d \in Job, Reached(d) PROVE Requested(d)
  <2>1. RequestFits(d) /\ provider[d].requests \in Nat
    BY DEF MessageInv, TypeInv, TypeOK, EvidenceInv, RowsFit
  <2> QED
    BY <1>3, <2>1 DEF RequestFits, Reached, Heard, Requested
<1>4. q[1] = r[1]
  BY <1>1, <1>2, <1>3, JobParts DEF MessageInv, AskInv, AtMostOneSend
<1> QED
  BY <1>2, <1>4

LEMMA Counted == MessageInv => Counts
<1> SUFFICES ASSUME MessageInv, NEW i \in Intent
             PROVE /\ Paid(i) = IF IsPaid(i) THEN 1 ELSE 0
                   /\ Returned(i) = IF IsReturned(i) THEN 1 ELSE 0
                   /\ (\A d \in JobsOf(i) : ~Requested(d)) => Fate(i) = "no"
                   /\ \A d \in JobsOf(i) : Requested(d) => Fate(i) = provider[d].fate
  BY DEF Counts
<1>1. Paid(i) = IF IsPaid(i) THEN 1 ELSE 0
  <2> DEFINE settled == {r \in HoldsOf(i) : reservation[r].status = "settled"}
  <2>1. CASE IsPaid(i)
    <3>1. PICK r \in settled : TRUE
      BY <2>1 DEF IsPaid
    <3>2. settled = {r}
      BY <3>1, OneCharge DEF HoldsOf
    <3> QED
      BY <2>1, <3>2, FS_Singleton DEF Paid
  <2>2. CASE ~IsPaid(i)
    <3>1. settled = {}
      BY <2>2 DEF IsPaid
    <3> QED
      BY <2>2, <3>1, FS_EmptySet DEF Paid
  <2> QED
    BY <2>1, <2>2
<1>2. Returned(i) = IF IsReturned(i) THEN 1 ELSE 0
  <2> DEFINE refunded == {r \in HoldsOf(i) : reservation[r].refunded}
  <2>1. \A r \in refunded : reservation[r].status = "settled"
    BY DEF HoldsOf, MessageInv, EvidenceInv, ChargesFit, ChargeFits
  <2>2. CASE IsReturned(i)
    <3>1. PICK r \in refunded : TRUE
      BY <2>2 DEF IsReturned
    <3>2. refunded = {r}
      BY <2>1, <3>1, OneCharge DEF HoldsOf
    <3> QED
      BY <2>2, <3>2, FS_Singleton DEF Returned
  <2>3. CASE ~IsReturned(i)
    <3>1. refunded = {}
      BY <2>3 DEF IsReturned
    <3> QED
      BY <2>3, <3>1, FS_EmptySet DEF Returned
  <2> QED
    BY <2>2, <2>3
<1>3. (\A d \in JobsOf(i) : ~Requested(d)) => Fate(i) = "no"
  BY DEF Fate, RequestedJobs
<1>4. ASSUME NEW d \in JobsOf(i), Requested(d) PROVE Fate(i) = provider[d].fate
  <2>1. RequestedJobs(i) = {d}
    BY <1>4 DEF RequestedJobs, JobsOf, MessageInv, AskInv, AtMostOneSend
  <2> QED
    BY <2>1 DEF Fate
<1> QED
  BY <1>1, <1>2, <1>3, <1>4

LEMMA CountedNext == MessageInv' => Counts'
BY Counted, PTL

\* What SendOnce sees of an intent, and when a step leaves it alone.
SeenSame(i) == Fate(i)' = Fate(i) /\ Paid(i)' = Paid(i) /\ Returned(i)' = Returned(i)
RequestsSame(i) ==
  \A d \in JobsOf(i) :
    provider'[d].requests = provider[d].requests /\ provider'[d].fate = provider[d].fate
ChargesSame(i) ==
  \A r \in HoldsOf(i) :
    /\ reservation'[r].status = "settled" <=> reservation[r].status = "settled"
    /\ reservation'[r].refunded <=> reservation[r].refunded

LEMMA FateStays ==
  ASSUME Counts, Counts', NEW i \in Intent, RequestsSame(i)
  PROVE Fate(i)' = Fate(i)
<1>1. CASE \A d \in JobsOf(i) : ~Requested(d)
  <2>1. \A d \in JobsOf(i) : ~(provider'[d].requests > 0)
    BY <1>1 DEF RequestsSame, Requested
  <2> QED
    BY <1>1, <2>1 DEF Counts, Requested, JobsOf
<1>2. ASSUME NEW d \in JobsOf(i), Requested(d) PROVE Fate(i)' = Fate(i)
  <2>1. provider'[d].requests > 0 /\ provider'[d].fate = provider[d].fate
    BY <1>2 DEF RequestsSame, Requested
  <2> QED
    BY <1>2, <2>1 DEF Counts, Requested, JobsOf
<1> QED
  BY <1>1, <1>2

LEMMA ChargesStay ==
  ASSUME Counts, Counts', NEW i \in Intent, ChargesSame(i)
  PROVE Paid(i)' = Paid(i) /\ Returned(i)' = Returned(i)
<1>1. (IsPaid(i)' <=> IsPaid(i)) /\ (IsReturned(i)' <=> IsReturned(i))
  BY DEF ChargesSame, IsPaid, IsReturned, HoldsOf
<1> QED
  BY <1>1 DEF Counts

LEMMA SeenStutters ==
  ASSUME \A i \in Intent : SeenSame(i)
  PROVE UNCHANGED Once!sendVars
BY DEF SeenSame, Once!sendVars

\* The request of a message: nothing was asked of the provider before.
LEMMA AskSeen ==
  ASSUME MessageInv, MessageInv', NEW w \in Worker, CallProvider(w) \/ SendEmail(w)
  PROVE \E i \in Intent : Once!Ask(i)
<1>1. Counts /\ Counts'
  BY Counted, CountedNext
<1>2. /\ UNCHANGED reservation /\ worker[w].pc \in {"call", "email"}
      /\ \E fate \in {"accepted", "refused", "lost"} :
           provider' = [provider EXCEPT ![worker[w].job] = [requests |-> @.requests + 1, fate |-> fate]]
  BY DEF CallProvider, SendEmail, Request, At
<1>3. PICK d \in Job, i \in Intent : d = worker[w].job /\ i = d[1]
  <2>1. worker[w].job \in Job
    BY <1>2 DEF MessageInv, TypeInv, PlacesFit, PlaceFits, BatchPc
  <2> QED
    BY <2>1, JobParts
<1>4. \A e \in JobsOf(i) : ~Requested(e)
  <2>1. \A e \in Job : e[1] = i => provider[e].requests = 0
    BY <1>2, <1>3 DEF MessageInv, AskInv, AskersOwn, Asking, AskPc
  <2> QED
    BY <2>1 DEF Requested, JobsOf
<1>5. PICK fate \in {"accepted", "refused", "lost"} :
        provider' = [provider EXCEPT ![d] = [requests |-> provider[d].requests + 1, fate |-> fate]]
  BY <1>2, <1>3
<1>6. /\ provider'[d].requests = provider[d].requests + 1 /\ provider'[d].fate = fate
      /\ provider[d].requests \in Nat /\ \A e \in Job \ {d} : provider'[e] = provider[e]
  BY <1>5 DEF MessageInv, TypeInv, TypeOK
<1>7. Fate(i) = "no" /\ Fate(i)' = fate
  <2>1. Requested(d)' /\ d \in JobsOf(i)
    BY <1>3, <1>6 DEF Requested, JobsOf
  <2>2. (d \in JobsOf(i))'
    BY <1>3 DEF JobsOf
  <2> QED
    BY <1>1, <1>4, <1>6, <2>1, <2>2 DEF Counts
<1>8. \A j \in Intent \ {i} : RequestsSame(j)
  BY <1>3, <1>6 DEF RequestsSame, JobsOf
<1>9. \A j \in Intent \ {i} : Fate(j)' = Fate(j)
  BY <1>1, <1>8, FateStays
<1>10. \A j \in Intent : Paid(j)' = Paid(j) /\ Returned(j)' = Returned(j)
  BY <1>1, <1>2, ChargesStay DEF ChargesSame
<1>11. Once!Ask(i)
  BY <1>7, <1>9, <1>10 DEF Once!Ask
<1> QED
  BY <1>11

LEMMA ReportSeen ==
  ASSUME MessageInv, MessageInv', NEW d \in Job, NEW fate \in {"delivered", "failed"},
         ProviderReports(d, fate)
  PROVE \E i \in Intent : Once!Report(i)
<1>1. Counts /\ Counts'
  BY Counted, CountedNext
<1>2. PICK i \in Intent : i = d[1]
  BY JobParts
<1>3. /\ UNCHANGED reservation /\ provider[d].fate = "accepted"
      /\ provider'[d].fate = fate /\ provider'[d].requests = provider[d].requests
      /\ \A e \in Job \ {d} : provider'[e] = provider[e]
  BY DEF ProviderReports, MessageInv, TypeInv, TypeOK
<1>4. Requested(d)
  <2>1. RequestFits(d) /\ provider[d].requests \in Nat
    BY DEF MessageInv, TypeInv, TypeOK, EvidenceInv, RowsFit
  <2> QED
    BY <1>3, <2>1 DEF RequestFits, Requested
<1>5. Fate(i) = "accepted" /\ Fate(i)' = fate
  <2>1. d \in JobsOf(i) /\ (d \in JobsOf(i))' /\ Requested(d)'
    BY <1>2, <1>3, <1>4 DEF JobsOf, Requested
  <2> QED
    BY <1>1, <1>3, <1>4, <2>1 DEF Counts
<1>6. \A j \in Intent \ {i} : RequestsSame(j)
  BY <1>2, <1>3 DEF RequestsSame, JobsOf
<1>7. \A j \in Intent \ {i} : Fate(j)' = Fate(j)
  BY <1>1, <1>6, FateStays
<1>8. \A j \in Intent : Paid(j)' = Paid(j) /\ Returned(j)' = Returned(j)
  BY <1>1, <1>3, ChargesStay DEF ChargesSame
<1>9. Once!Report(i)
  BY <1>5, <1>7, <1>8 DEF Once!Report
<1> QED
  BY <1>9

\* The hold h of the message d moves on: what SendOnce sees of the others, and
\* of the request of its own intent, stays.
LEMMA HoldSeen ==
  ASSUME MessageInv, MessageInv', UNCHANGED provider, NEW i \in Intent, NEW h \in Hold,
         h[1][1] = i, \A q \in Hold \ {h} : reservation'[q] = reservation[q]
  PROVE /\ \A j \in Intent : Fate(j)' = Fate(j)
        /\ \A j \in Intent \ {i} : Paid(j)' = Paid(j) /\ Returned(j)' = Returned(j)
<1>1. Counts /\ Counts'
  BY Counted, CountedNext
<1>2. \A j \in Intent : Fate(j)' = Fate(j)
  BY <1>1, FateStays DEF RequestsSame
<1>3. \A j \in Intent \ {i} : ChargesSame(j)
  BY DEF ChargesSame, HoldsOf
<1> QED
  BY <1>1, <1>2, <1>3, ChargesStay

\* The charge of a message that was taken: its hold was still held, so nothing
\* was settled for the intent before.
LEMMA ChargeSeen ==
  ASSUME MessageInv, MessageInv', UNCHANGED provider, NEW d \in Job, NEW h \in Hold,
         Reached(d), delivery[d].hold = h, h[1] = d, reservation[h].status = "held",
         reservation' = Settled(h)
  PROVE \E i \in Intent : Once!Charge(i)
<1>1. Counts /\ Counts'
  BY Counted, CountedNext
<1>2. PICK i \in Intent : i = d[1]
  BY JobParts
<1>3. /\ \A q \in Hold \ {h} : reservation'[q] = reservation[q]
      /\ reservation'[h].status = "settled" /\ reservation'[h].refunded = reservation[h].refunded
  BY HoldMoves DEF MessageInv, TypeInv
<1>4. Requested(d)
  <2>1. RequestFits(d) /\ provider[d].requests \in Nat
    BY DEF MessageInv, TypeInv, TypeOK, EvidenceInv, RowsFit
  <2> QED
    BY <2>1 DEF RequestFits, Requested, Reached, Heard
<1>5. Fate(i) \in Heard
  BY <1>1, <1>2, <1>4 DEF Counts, JobsOf, Reached
<1>6. ~IsPaid(i)
  <2> SUFFICES ASSUME NEW r \in Hold, r[1][1] = i, reservation[r].status = "settled" PROVE FALSE
    BY DEF IsPaid, HoldsOf
  <2>1. r[1] \in Job /\ Reached(r[1]) /\ delivery[r[1]].hold = r
    BY JobParts DEF MessageInv, EvidenceInv, ChargesFit, ChargeFits
  <2>2. Requested(r[1])
    <3>1. RequestFits(r[1]) /\ provider[r[1]].requests \in Nat
      BY <2>1 DEF MessageInv, TypeInv, TypeOK, EvidenceInv, RowsFit
    <3> QED
      BY <2>1, <3>1 DEF RequestFits, Requested, Reached, Heard
  <2>3. r[1] = d
    BY <1>2, <1>4, <2>1, <2>2 DEF MessageInv, AskInv, AtMostOneSend
  <2> QED
    BY <2>1, <2>3
<1>7. IsPaid(i)' /\ (IsReturned(i)' <=> IsReturned(i))
  BY <1>2, <1>3 DEF IsPaid, IsReturned, HoldsOf
<1>8. Paid(i) = 0 /\ Paid(i)' = 1 /\ Returned(i)' = Returned(i)
  BY <1>1, <1>6, <1>7 DEF Counts
<1>9. /\ \A j \in Intent : Fate(j)' = Fate(j)
      /\ \A j \in Intent \ {i} : Paid(j)' = Paid(j) /\ Returned(j)' = Returned(j)
  BY <1>2, <1>3, HoldSeen
<1>10. Once!Charge(i)
  BY <1>5, <1>8, <1>9 DEF Once!Charge, Once!Accepted, Heard
<1> QED
  BY <1>10

\* The refund of a message that failed: the one settled hold of the intent is
\* the one given back, and it was not given back before.
LEMMA ReturnSeen ==
  ASSUME MessageInv, MessageInv', UNCHANGED provider, NEW d \in Job, NEW h \in Hold,
         h[1] = d, provider[d].fate = "failed", reservation[h].status = "settled",
         ~reservation[h].refunded, reservation' = Refunded(h)
  PROVE \E i \in Intent : Once!Return(i)
<1>1. Counts /\ Counts'
  BY Counted, CountedNext
<1>2. PICK i \in Intent : i = d[1]
  BY JobParts
<1>3. /\ \A q \in Hold \ {h} : reservation'[q] = reservation[q]
      /\ reservation'[h].status = "settled" /\ reservation'[h].refunded
  BY HoldMoves DEF MessageInv, TypeInv
<1>4. Requested(d)
  <2>1. RequestFits(d) /\ provider[d].requests \in Nat
    BY DEF MessageInv, TypeInv, TypeOK, EvidenceInv, RowsFit
  <2> QED
    BY <2>1 DEF RequestFits, Requested
<1>5. Fate(i) = "failed"
  BY <1>1, <1>2, <1>4 DEF Counts, JobsOf
<1>6. ~IsReturned(i)
  <2> SUFFICES ASSUME NEW r \in Hold, r[1][1] = i, reservation[r].refunded PROVE FALSE
    BY DEF IsReturned, HoldsOf
  <2>1. reservation[r].status = "settled"
    BY DEF MessageInv, EvidenceInv, ChargesFit, ChargeFits
  <2> QED
    BY <1>2, <2>1, OneCharge
<1>7. IsPaid(i) /\ IsPaid(i)' /\ IsReturned(i)'
  BY <1>2, <1>3 DEF IsPaid, IsReturned, HoldsOf
<1>8. Paid(i) = 1 /\ Paid(i)' = 1 /\ Returned(i) = 0 /\ Returned(i)' = 1
  BY <1>1, <1>6, <1>7 DEF Counts
<1>9. /\ \A j \in Intent : Fate(j)' = Fate(j)
      /\ \A j \in Intent \ {i} : Paid(j)' = Paid(j) /\ Returned(j)' = Returned(j)
  BY <1>2, <1>3, HoldSeen
<1>10. Once!Return(i)
  BY <1>5, <1>8, <1>9 DEF Once!Return
<1> QED
  BY <1>10

\* Everything else is invisible: no request, no charge, no refund.
LEMMA StutterSeen ==
  ASSUME MessageInv, MessageInv', UNCHANGED provider,
         \A r \in Hold :
           /\ reservation'[r].status = "settled" <=> reservation[r].status = "settled"
           /\ reservation'[r].refunded <=> reservation[r].refunded
  PROVE UNCHANGED Once!sendVars
<1>1. Counts /\ Counts'
  BY Counted, CountedNext
<1>2. \A i \in Intent : RequestsSame(i) /\ ChargesSame(i)
  BY DEF RequestsSame, ChargesSame, HoldsOf
<1> QED
  BY <1>1, <1>2, FateStays, ChargesStay, SeenStutters DEF SeenSame

LEMMA SettleSeen ==
  ASSUME MessageInv, MessageInv', NEW w \in Worker,
         SettleReservation(w) \/ RecheckTerminalFailure(w)
  PROVE (\E i \in Intent : Once!Charge(i) \/ Once!Return(i)) \/ UNCHANGED Once!sendVars
<1> DEFINE s == worker[w]
<1>1. UNCHANGED provider /\ s.pc \in {"settle", "recheck"}
  BY DEF SettleReservation, RecheckTerminalFailure, At
<1>2. s.pc \in OwnPc \cap SmsPc
  BY <1>1 DEF OwnPc, SmsPc
<1>3. PICK d \in Job, h \in Hold :
        /\ Owns(s, d) /\ d = s.job /\ h = s.hold /\ Sms(d) /\ d[1] \in KnownTemplate
        /\ delivery[d].status # "none" /\ delivery[d].hold = h
        /\ h[1] = d /\ HoldOf(d) = reservation[h] /\ HoldOf(d).status # "none"
        /\ OwnerFits(s) /\ LaneFits(s) /\ RequestFits(d) /\ RowFits(d) /\ ChargeFits(h)
  BY <1>2, OwnerKnows DEF MessageInv, TypeInv
<1>4. Reached(d)
  BY <1>1, <1>3 DEF OwnerFits, AfterAccept, OwnPc
<1>5. CASE reservation' = reservation
  BY <1>1, <1>5, StutterSeen
<1>6. CASE SettleReservation(w) /\ reservation' # reservation
  <2>1. reservation' = Settled(h) /\ reservation[h].status = "held"
    BY <1>3, <1>6 DEF SettleReservation, Settled
  <2> QED
    BY <1>1, <1>3, <1>4, <2>1, ChargeSeen
<1>7. CASE RecheckTerminalFailure(w) /\ reservation' # reservation
  <2>1. /\ delivery[d].status \in {"failed", "canceled"} /\ delivery[d].settlement = "settled"
        /\ reservation' = Refunded(h)
    BY <1>3, <1>7 DEF RecheckTerminalFailure
  <2>2. provider[d].fate = "failed" /\ reservation[h].status = "settled"
    BY <1>3, <2>1 DEF RowFits
  <2>3. ~reservation[h].refunded
    BY <1>7, <2>1 DEF Refunded, MessageInv, TypeInv, TypeOK, ReservationRow
  <2> QED
    BY <1>1, <1>3, <2>1, <2>2, <2>3, ReturnSeen
<1> QED
  BY <1>5, <1>6, <1>7

LEMMA CallbackSeen ==
  ASSUME MessageInv, MessageInv', NEW d \in Job, CallbackRefund(d)
  PROVE (\E i \in Intent : Once!Return(i)) \/ UNCHANGED Once!sendVars
<1>1. UNCHANGED provider /\ callback[d] # "none" /\ reservation' = Refunded(delivery[d].hold)
  BY DEF CallbackRefund
<1>2. Sms(d)
  BY <1>1 DEF MessageInv, EvidenceInv, RowsFit, RequestFits
<1>3. PICK h \in Hold :
        /\ h = delivery[d].hold /\ h[1] = d /\ provider[d].fate = "failed"
        /\ reservation[h].status = "settled"
  BY <1>1, <1>2, ReachedHas DEF MessageInv, TypeInv
<1>4. CASE reservation' = reservation
  BY <1>1, <1>4, StutterSeen
<1>5. CASE reservation' # reservation
  <2>1. ~reservation[h].refunded
    BY <1>1, <1>3, <1>5 DEF Refunded, MessageInv, TypeInv, TypeOK, ReservationRow
  <2> QED
    BY <1>1, <1>3, <2>1, ReturnSeen
<1> QED
  BY <1>4, <1>5

LEMMA ResolverSeen ==
  ASSUME MessageInv, MessageInv', NEW i \in Intent, ResolverSettles(i)
  PROVE \E j \in Intent : Once!Charge(j)
<1>1. /\ UNCHANGED provider /\ Evidence(i) /\ intent[i].hold # NoHold
      /\ reservation[intent[i].hold].status = "held" /\ reservation' = Settled(intent[i].hold)
  BY DEF ResolverSettles
<1>2. PICK d \in Job, h \in Hold :
        Sms(d) /\ Reached(d) /\ delivery[d].hold = h /\ h = intent[i].hold /\ h[1] = d
  BY <1>1, EvidenceProves, ReachedHas DEF MessageInv, TypeInv
<1> QED
  BY <1>1, <1>2, ChargeSeen

LEMMA ReleaseSeen ==
  ASSUME MessageInv, MessageInv', UNCHANGED provider, NEW r, reservation' = Released(r)
  PROVE UNCHANGED Once!sendVars
<1>1. \A q \in Hold :
        /\ reservation'[q].status = "settled" <=> reservation[q].status = "settled"
        /\ reservation'[q].refunded = reservation[q].refunded
  BY DEF Released, MessageInv, TypeInv, TypeOK, ReservationRow
<1> QED
  BY <1>1, StutterSeen

\* A new hold takes the place of one that is neither held nor settled.
LEMMA ReserveSeen ==
  ASSUME MessageInv, MessageInv', NEW w \in Worker, NEW d \in Job, ReserveSmsCredits(w, d)
  PROVE UNCHANGED Once!sendVars
<1>1. CASE LiveHold(d) = {}
  <2>1. PICK h \in Hold : h = <<d, w>> /\ h[1] = d
    <3>1. <<d, w>> \in Hold
      BY DEF Hold
    <3> QED
      BY <3>1
  <2>2. reservation[h].status # "settled" /\ ~reservation[h].refunded
    BY <1>1, <2>1 DEF LiveHold, MessageInv, EvidenceInv, ChargesFit, ChargeFits
  <2>3. /\ reservation'[h].status = "held" /\ ~reservation'[h].refunded
        /\ \A q \in Hold \ {h} : reservation'[q] = reservation[q]
    BY <1>1, <2>1 DEF ReserveSmsCredits, MessageInv, TypeInv, TypeOK
  <2>4. UNCHANGED provider
    BY DEF ReserveSmsCredits
  <2> QED
    BY <2>2, <2>3, <2>4, StutterSeen
<1>2. CASE LiveHold(d) # {}
  <2>1. UNCHANGED <<provider, reservation>>
    BY <1>2 DEF ReserveSmsCredits
  <2> QED
    BY <2>1, StutterSeen
<1> QED
  BY <1>1, <1>2

LEMMA SendOnceStep ==
  ASSUME MessageInv, MessageInv', [Next]_vars
  PROVE [Once!Next]_(Once!sendVars)
<1>1. ASSUME UNCHANGED <<provider, reservation>> PROVE UNCHANGED Once!sendVars
  BY <1>1, StutterSeen
<1>2. CASE UNCHANGED vars
  BY <1>1, <1>2 DEF vars
<1>3. CASE Producer \/ Tick \/ \E d \in Job : CallbackCrash(d)
  <2>1. UNCHANGED <<provider, reservation>>
    BY <1>3 DEF Producer, EnqueueCommunicationIntent, CancelAppointmentIntents,
                ReleaseBlockedIntentsAfterTopup, Tick, CallbackCrash
  <2> QED
    BY <1>1, <2>1
<1>4. CASE Housekeeping
  <2>1. ASSUME NEW i \in Intent, ResolverSettles(i) PROVE Once!Next
    BY <2>1, ResolverSeen DEF Once!Next
  <2>2. ASSUME NEW r \in Hold, ReapExpiredReservations(r) PROVE UNCHANGED Once!sendVars
    BY <2>2, ReleaseSeen DEF ReapExpiredReservations
  <2>3. ASSUME NEW i \in Intent,
               RecoverClaimed(i) \/ ParkSending(i) \/ ExpireStaleIntents(i) \/ ResolverAdopts(i)
        PROVE UNCHANGED Once!sendVars
    BY <1>1, <2>3 DEF RecoverClaimed, ParkSending, ExpireStaleIntents, ResolverAdopts
  <2> QED
    BY <1>4, <2>1, <2>2, <2>3 DEF Housekeeping
<1>5. CASE Provider
  <2>1. ASSUME NEW d \in Job, NEW fate \in {"delivered", "failed"}, ProviderReports(d, fate)
        PROVE Once!Next
    BY <2>1, ReportSeen DEF Once!Next
  <2>2. ASSUME NEW d \in Job, CallbackRefund(d) PROVE Once!Next \/ UNCHANGED Once!sendVars
    BY <2>2, CallbackSeen DEF Once!Next
  <2>3. ASSUME NEW d \in Job, NEW status, StatusCallback(d, status) \/ CallbackMarkRefunded(d)
        PROVE UNCHANGED Once!sendVars
    BY <1>1, <2>3 DEF StatusCallback, CallbackMarkRefunded
  <2> QED
    BY <1>5, <2>1, <2>2, <2>3 DEF Provider
<1>6. ASSUME NEW w \in Worker, Batch(w) \/ Crash(w) PROVE UNCHANGED Once!sendVars
  <2>1. ASSUME NEW d \in worker[w].todo, ReserveSmsCredits(w, d) PROVE UNCHANGED Once!sendVars
    <3>1. d \in Job
      BY <2>1 DEF ReserveSmsCredits, Take, MessageInv, TypeInv, TypeOK, WorkerState
    <3> QED
      BY <2>1, <3>1, ReserveSeen
  <2>2. ASSUME ~\E d \in worker[w].todo : ReserveSmsCredits(w, d)
        PROVE UNCHANGED <<provider, reservation>>
    BY <1>6, <2>2 DEF Batch, Crash, PickDueIntents, ClaimDueIntents, LoadClaimedIntents,
                      TemplateUnknown, Suppress, DeferIntent, NoCreditsLeft, InsertEmailDelivery
  <2> QED
    BY <1>1, <2>1, <2>2
<1>7. ASSUME NEW w \in Worker, Pipeline(w) PROVE Once!Next \/ UNCHANGED Once!sendVars
  <2>1. CASE CallProvider(w) \/ SendEmail(w)
    BY <2>1, AskSeen DEF Once!Next
  <2>2. CASE SettleReservation(w) \/ RecheckTerminalFailure(w)
    BY <2>2, SettleSeen DEF Once!Next
  <2>3. CASE ReleaseReservation(w)
    BY <2>3, ReleaseSeen DEF ReleaseReservation
  <2>4. ASSUME ~(CallProvider(w) \/ SendEmail(w)), ~ReleaseReservation(w),
               ~(SettleReservation(w) \/ RecheckTerminalFailure(w))
        PROVE UNCHANGED <<provider, reservation>>
    BY <1>7, <2>4 DEF Pipeline, InsertDelivery, ToSending, Superseded, CloseDelivery,
         ResolveStopped, FinalCheck, AnswerAccepted, AnswerRefused, AnswerLost, AcceptDelivery,
         MarkSettled, MarkRefunded, ToSent, CloseEmail
  <2> QED
    BY <1>1, <2>1, <2>2, <2>3, <2>4
<1> QED
  BY <1>2, <1>3, <1>4, <1>5, <1>6, <1>7 DEF Next

LEMMA SendOnceInit == Init => Once!Init
<1> SUFFICES ASSUME Init PROVE Once!Init
  OBVIOUS
<1>1. TypeInv /\ AskInv /\ TimeInv /\ EvidenceInv
  BY InitTyped, IdleFits, InitAsks, InitTime, InitEvidence DEF TypeInv, PlacesFit, Init
<1>2. Counts
  BY <1>1, Counted DEF MessageInv
<1>3. \A i \in Intent : (\A d \in JobsOf(i) : ~Requested(d)) /\ ~IsPaid(i) /\ ~IsReturned(i)
  BY DEF Init, NoRequest, NoReservation, JobsOf, Requested, IsPaid, IsReturned, HoldsOf
<1>4. \A i \in Intent : Fate(i) = "no" /\ Paid(i) = 0 /\ Returned(i) = 0
  BY <1>2, <1>3 DEF Counts
<1> QED
  BY <1>4 DEF Once!Init

\* The pipeline keeps what SendOnce promises the salon: over all attempts and
\* overlapping invocations a message is asked for once, charged once and only
\* when the provider took it, and given back once and only when it failed.
THEOREM PipelineSendsOnce == Spec => ImplementsSendOnce
<1>1. Init => Once!Init
  BY SendOnceInit
<1>2. MessageInv /\ MessageInv' /\ [Next]_vars => [Once!Next]_(Once!sendVars)
  BY SendOnceStep
<1> QED
  BY <1>1, <1>2, MessageInvariant, PTL DEF Spec, ImplementsSendOnce, Once!Spec
=============================================================================
