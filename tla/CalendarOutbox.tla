---------------------------- MODULE CalendarOutbox ----------------------------
(***************************************************************************)
(* The Google Calendar lane of the integration outbox                      *)
(* (libs/integrationOutbox.ts) for one appointment: the transactions that  *)
(* change the appointment enqueue jobs, cron invocations claim a job,      *)
(* prepare it, talk to Google under the appointment's advisory lock and    *)
(* finish it, and the scan at the end of an invocation looks for events    *)
(* that should not be there.                                               *)
(*                                                                         *)
(* The outbox is a partial function: a job is named by its dedupe key, the *)
(* triple of its kind, its revision and, for the two kinds of repair, the  *)
(* event.  A sync creates its event under an id that depends on the        *)
(* lifecycle (the "lane") alone, so a lane stands for that id.             *)
(***************************************************************************)
EXTENDS Naturals

CONSTANTS
  Worker,        \* cron invocations
  NoWorker,
  NoEvent,       \* NULL
  NoScan,
  MaxRevision,   \* bound: changes of the appointment
  MaxAttempts,   \* 8 in the code
  MaxFaults      \* bound: crashes, failures, lost answers and silences

ASSUME OutboxAssumption ==
  /\ MaxRevision \in Nat \ {0} /\ MaxAttempts \in Nat \ {0} /\ MaxFaults \in Nat
  /\ NoWorker \notin Worker
  /\ NoEvent \notin 0 .. MaxRevision

VARIABLES
  appointment,   \* its row
  outbox,        \* integration_outbox
  mirror,        \* google_calendar_event: the local row of each event
  worker,        \* the invocations
  lock,          \* who holds the session advisory lock of the appointment
  google,        \* external: the events at Google
  wire,          \* external: requests nobody waits for any more
  scan,          \* what the reconciliation has seen and not yet queued
  faults

vars == <<appointment, outbox, mirror, worker, lock, google, wire, scan, faults>>

Revision == 1 .. MaxRevision
Lane == 0 .. MaxRevision                    \* 0 is 'initial'
Event == Lane \cup {NoEvent}

Kind == {"sync", "terminal", "reconciliation", "cleanup"}
Key == Kind \X Revision \X Event
SyncKey(r) == <<"sync", r, NoEvent>>
TerminalKey(r) == <<"terminal", r, NoEvent>>

IsSync(k) == k[1] = "sync"
IsCleanup(k) == k[1] = "cleanup"
RevOf(k) == k[2]

Row ==
  [status : {"pending", "retry", "processing", "completed", "cancelled", "failed"},
   attempts : Nat,
   event : Event,          \* googleCalendarEventId
   lane : Lane,            \* providerEventLane
   targeted : BOOLEAN,     \* targetCalendarId is set
   pinned : BOOLEAN,       \* providerEventIdentity is set
   mirrored : BOOLEAN,     \* reconciliationMirrorId is set
   busy : BOOLEAN]         \* lastError is GOOGLE_CALENDAR_DISPATCH_BUSY

NewRow(event, lane, targeted, mirrored) ==
  [status |-> "pending", attempts |-> 0, event |-> event, lane |-> lane,
   targeted |-> targeted, pinned |-> FALSE, mirrored |-> mirrored, busy |-> FALSE]

Appointment ==
  [active : BOOLEAN, rev : Revision, event : Event,
   sync : {"not_synced", "pending", "synced", "deleted", "failed"}]

Writing == {"creating", "patching", "repatching", "deleting"}
Asking == Writing \cup {"reading", "conflicted", "refreshing"}
Answered == {"synced", "deleted", "disabled"}
Refused == {"failed", "busy", "ambiguous"}     \* by the error that ended the attempt

Process ==
  [pc : {"idle", "claimed", "ready", "superseded"} \cup Asking \cup Answered \cup Refused,
   key : Key,
   attempt : Nat,          \* claimedAttempt
   event : Event,          \* dispatchedEventId
   target : Event,         \* the event the next request is about
   etag : Nat]

Idle ==
  [pc |-> "idle", key |-> SyncKey(1), attempt |-> 0, event |-> NoEvent,
   target |-> NoEvent, etag |-> 0]

Request ==
  [method : {"POST", "PATCH", "DELETE"}, key : Key, event : Lane, etag : Nat]

Found == [event : Lane, rev : Revision, mirrored : BOOLEAN]

-----------------------------------------------------------------------------
(* The tables. *)

Jobs == DOMAIN outbox

\* Every way out of "processing" writes the status and lastError.
Stamped(k, status, busy) == [outbox EXCEPT ![k].status = status, ![k].busy = busy]
Settled(k, status) == Stamped(k, status, FALSE)

\* onConflictDoNothing: a dedupe key that is taken stays as it is.
Insert(k, row) ==
  [j \in Jobs \cup {k} |-> IF j \in Jobs THEN outbox[j] ELSE row]

Linked == {e \in Lane : mirror[e] = "active"}
KnownEvent == IF Linked = {} THEN NoEvent ELSE CHOOSE e \in Linked : TRUE

\* Otherwise the resolver throws (ambiguous, conflict, unattributed).
Resolvable ==
  /\ \A e, f \in Linked : e = f
  /\ appointment.event # NoEvent => appointment.event \in Linked

\* A cleanup carries no revision.
Newer(k) ==
  /\ ~IsCleanup(k)
  /\ \E j \in Jobs : ~IsCleanup(j) /\ RevOf(j) > RevOf(k)

\* The last terminal deletion before the revision, or 'initial'.
LaneAt(r) ==
  LET ended == {t \in Revision : t < r /\ TerminalKey(t) \in Jobs}
  IN CHOOSE l \in {0} \cup ended : \A t \in ended : t <= l

Adopted(e) ==
  /\ appointment.active
  /\ mirror[e] = "active"
  /\ \/ appointment.event = e
     \/ appointment.event = NoEvent /\ Linked = {e}

\* assertGoogleJobStillCurrentBeforeDispatch
StillCurrent(k) ==
  CASE k[1] = "sync" -> appointment.active /\ ~Newer(k)
    [] k[1] = "terminal" -> ~appointment.active /\ ~Newer(k)
    [] k[1] = "reconciliation" -> ~appointment.active
    [] k[1] = "cleanup" -> ~Adopted(outbox[k].event)

\* assertGoogleCalendarPairOwnedOrAbsent
PairOwned(k, e) ==
  e # NoEvent =>
    IF outbox[k].mirrored THEN mirror[e] \in {"active", "deleted"}
                          ELSE mirror[e] # "superseded"

-----------------------------------------------------------------------------
(* The appointment changes.  Each is one transaction; it fails when the    *)
(* advisory lock is taken (GoogleCalendarDispatchBusyError).               *)

\* The salon has a calendar connected at the moment, or not: with no linked
\* event, a job enqueued while it has none names no calendar.
enqueueGoogleCalendarAppointmentMutation ==
  LET r == appointment.rev + 1 IN
  /\ lock = NoWorker
  /\ r \in Revision
  /\ Resolvable
  /\ appointment' = [appointment EXCEPT !.active = TRUE, !.rev = r, !.sync = "pending"]
  /\ \E connected \in BOOLEAN :
       outbox' = Insert(SyncKey(r),
                        NewRow(KnownEvent, LaneAt(r), connected \/ Linked # {}, FALSE))
  /\ UNCHANGED <<mirror, worker, lock, google, wire, scan, faults>>

Edit == appointment.active /\ enqueueGoogleCalendarAppointmentMutation
Reactivate == ~appointment.active /\ enqueueGoogleCalendarAppointmentMutation

\* Defect: a deletion is enqueued although no event is known.
CancelAlwaysDeletes ==
  LET r == appointment.rev + 1 IN
  /\ appointment.active
  /\ lock = NoWorker
  /\ r \in Revision
  /\ Resolvable
  /\ appointment' = [appointment EXCEPT !.active = FALSE, !.rev = r, !.sync = "pending"]
  /\ outbox' = Insert(TerminalKey(r), NewRow(KnownEvent, 0, TRUE, FALSE))
  /\ UNCHANGED <<mirror, worker, lock, google, wire, scan, faults>>

\* With no known event there is nothing to delete, and no job.
Cancel ==
  LET r == appointment.rev + 1 IN
  /\ appointment.active
  /\ lock = NoWorker
  /\ r \in Revision
  /\ Resolvable
  /\ IF KnownEvent = NoEvent
       THEN /\ appointment' = [appointment EXCEPT !.active = FALSE, !.rev = r]
            /\ UNCHANGED outbox
       ELSE /\ appointment' = [appointment EXCEPT !.active = FALSE, !.rev = r,
                                                  !.sync = "pending"]
            /\ outbox' = Insert(TerminalKey(r), NewRow(KnownEvent, 0, TRUE, FALSE))
  /\ UNCHANGED <<mirror, worker, lock, google, wire, scan, faults>>

-----------------------------------------------------------------------------
(* Claiming and reclaiming. *)

Owns(w) ==
  /\ outbox[worker[w].key].status = "processing"
  /\ outbox[worker[w].key].attempts = worker[w].attempt

\* No request of the job is still under way: backoff and lease are longer.
claimIntegrationOutboxJob(w, k) ==
  /\ worker[w].pc = "idle"
  /\ k \in Jobs
  /\ outbox[k].status \in {"pending", "retry"}
  /\ lock = NoWorker
  /\ \A j \in Jobs : outbox[j].status # "processing"
  /\ \A q \in wire : q.key # k
  /\ outbox' = [outbox EXCEPT ![k].status = "processing", ![k].attempts = @ + 1]
  /\ worker' = [worker EXCEPT ![w] = [Idle EXCEPT !.pc = "claimed", !.key = k,
                                                  !.attempt = outbox[k].attempts + 1]]
  /\ UNCHANGED <<appointment, mirror, lock, google, wire, scan, faults>>

\* Defect: the row is reclaimed without asking for the lock.
ReclaimUnlocked(k) ==
  /\ k \in Jobs
  /\ outbox[k].status = "processing"
  /\ faults < MaxFaults
  /\ faults' = faults + 1
  /\ outbox' = Settled(k, "retry")
  /\ UNCHANGED <<appointment, mirror, worker, lock, google, wire, scan>>

\* A dead invocation writes no heartbeat.  A live one may be silent as well,
\* which is a fault; but then its session still holds the lock.
reclaimStaleGoogleCalendarJob(k) ==
  /\ k \in Jobs
  /\ outbox[k].status = "processing"
  /\ lock = NoWorker
  /\ \/ /\ \A w \in Worker : worker[w].pc = "idle" \/ worker[w].key # k \/ ~Owns(w)
        /\ UNCHANGED faults
     \/ /\ \E w \in Worker : worker[w].pc # "idle" /\ worker[w].key = k /\ Owns(w)
        /\ faults < MaxFaults
        /\ faults' = faults + 1
  /\ outbox' = Settled(k, "retry")
  /\ UNCHANGED <<appointment, mirror, worker, lock, google, wire, scan>>

-----------------------------------------------------------------------------
(* processGoogleCalendarJob up to the provider. *)

Go(w, pc) == worker' = [worker EXCEPT ![w].pc = pc]

Lifecycle(k) == {j \in Jobs : IsSync(j) /\ outbox[j].lane = outbox[k].lane}

\* The rows of the lifecycle that may have reached Google: an attempt before
\* this one counts, unless it was the first and met the lock.
Evidence(k) ==
  {j \in Lifecycle(k) :
     \/ outbox[j].pinned
     \/ LET prior == outbox[j].attempts - (IF j = k THEN 1 ELSE 0)
        IN prior > (IF outbox[j].busy THEN 1 ELSE 0)}

\* pinGoogleCalendarProviderEventLane: every row of the lifecycle.
\* pinGoogleCalendarTarget: the linked event, if the payload names none.
Pinned(k, e) ==
  [j \in Jobs |->
    [outbox[j] EXCEPT !.targeted = @ \/ j \in Lifecycle(k),
                      !.pinned = @ \/ j \in Lifecycle(k),
                      !.event = IF j = k THEN e ELSE @]]

\* Evidence without a calendar is never overcome (PROVIDER_IDENTITY_AMBIGUOUS).
\* Otherwise the evidence, the row, the linked event or the connection names the
\* calendar (TARGET_UNAVAILABLE).
PrepareSync(w) ==
  LET k == worker[w].key
      p == IF outbox[k].event = NoEvent THEN KnownEvent ELSE outbox[k].event
      e == IF p = NoEvent THEN appointment.event ELSE p
      blind == \E j \in Evidence(k) : ~outbox[j].targeted
      named == Evidence(k) # {} \/ outbox[k].targeted \/ Linked # {} IN
  /\ worker[w].pc = "claimed" /\ IsSync(k) /\ Owns(w) /\ lock = NoWorker
  /\ \/ blind /\ Go(w, "ambiguous") /\ UNCHANGED outbox
     \/ ~blind /\ ~named /\ Go(w, "failed") /\ UNCHANGED outbox
     \/ ~blind /\ outbox' = Pinned(k, p) /\ worker' = 
          [worker EXCEPT ![w].event = e,
                         ![w].target = IF e = NoEvent THEN outbox[k].lane ELSE e,
                         ![w].pc =
            CASE ~StillCurrent(k) \/ ~PairOwned(k, e) -> "superseded"
              [] StillCurrent(k) /\ PairOwned(k, e) /\ e # NoEvent /\ mirror[e] = "deleted"
                   -> "disabled"
              [] OTHER -> IF mirror[outbox[k].lane] = "superseded" THEN "failed"
                                                                   ELSE "ready"]
  /\ UNCHANGED <<appointment, mirror, lock, google, wire, scan, faults>>

\* A deletion of an event that is neither recorded nor linked is moot, and a
\* linked event that is already deleted may only be deleted again by the repair
\* that knows the row.
PrepareDelete(w) ==
  LET k == worker[w].key
      e == outbox[k].event
      moot == ~IsCleanup(k) /\ appointment.event # e /\ mirror[e] # "active" IN
  /\ worker[w].pc = "claimed" /\ ~IsSync(k) /\ Owns(w)
  /\ worker' = [worker EXCEPT ![w].event = e, ![w].target = e, ![w].pc =
       IF ~StillCurrent(k) \/ ~PairOwned(k, e) \/ moot THEN "superseded"
       ELSE IF mirror[e] = "deleted" /\ ~outbox[k].mirrored
         THEN IF k[1] = "reconciliation" THEN "failed" ELSE "disabled"
       ELSE "ready"]
  /\ UNCHANGED <<appointment, outbox, mirror, lock, google, wire, scan, faults>>

LoseLease(w) ==
  /\ worker[w].pc = "claimed"
  /\ Owns(w) => IsSync(worker[w].key) /\ lock # NoWorker
  /\ Go(w, IF Owns(w) THEN "busy" ELSE "failed")
  /\ UNCHANGED <<appointment, outbox, mirror, lock, google, wire, scan, faults>>

\* The fence: the lock, the lease, and the currentness once more.
withGoogleCalendarDispatchLock(w) ==
  LET k == worker[w].key IN
  /\ worker[w].pc = "ready"
  /\ IF lock # NoWorker \/ ~Owns(w)
       THEN Go(w, "failed") /\ UNCHANGED lock
     ELSE IF ~StillCurrent(k) \/ ~PairOwned(k, worker[w].event)
       THEN Go(w, "superseded") /\ UNCHANGED lock
     ELSE /\ Go(w, IF IsSync(k) /\ worker[w].event = NoEvent THEN "creating" ELSE "reading")
          /\ lock' = w
  /\ UNCHANGED <<appointment, outbox, mirror, google, wire, scan, faults>>

-----------------------------------------------------------------------------
(* At the provider, under the lock. *)

Exists(e) == google[e].rev # 0
Written(e, r) == [google EXCEPT ![e] = [rev |-> r, etag |-> google[e].etag + 1]]
Removed(e) == [google EXCEPT ![e].rev = 0]

\* Defect: the If-Match header is forgotten.
WithoutIfMatch(e, etag) == Exists(e)

\* A request is refused when the event has changed since.
IfMatch(e, etag) == Exists(e) /\ google[e].etag = etag

\* remoteEventIsAtLeastRevision
AtLeast(e, k) == Exists(e) /\ google[e].rev >= RevOf(k)

Answer(w, pc) == Go(w, pc) /\ lock' = NoWorker
Continue(w, pc) ==
  /\ worker' = [worker EXCEPT ![w].pc = pc, ![w].etag = google[worker[w].target].etag]
  /\ UNCHANGED lock

ReadForSync(w) ==
  LET k == worker[w].key
      e == worker[w].target IN
  /\ worker[w].pc = "reading" /\ IsSync(k)
  /\ IF ~Exists(e)
       THEN /\ worker' = [worker EXCEPT ![w].pc = "creating", ![w].target = outbox[k].lane]
            /\ UNCHANGED lock
     ELSE IF AtLeast(e, k) THEN Answer(w, "synced")
     ELSE Continue(w, "patching")
  /\ UNCHANGED <<appointment, outbox, mirror, google, wire, scan, faults>>

\* A create under an id that is taken is answered 409.
Create(w) ==
  LET e == worker[w].target IN
  /\ worker[w].pc = "creating"
  /\ IF Exists(e)
       THEN Go(w, "conflicted") /\ UNCHANGED <<lock, google>>
       ELSE Answer(w, "synced") /\ google' = Written(e, RevOf(worker[w].key))
  /\ UNCHANGED <<appointment, outbox, mirror, wire, scan, faults>>

ReadConflicting(w) ==
  LET e == worker[w].target IN
  /\ worker[w].pc = "conflicted"
  /\ IF ~Exists(e) THEN Answer(w, "failed")
     ELSE IF AtLeast(e, worker[w].key) THEN Answer(w, "synced")
     ELSE Continue(w, "repatching")
  /\ UNCHANGED <<appointment, outbox, mirror, google, wire, scan, faults>>

\* patchGoogleCalendarEventConditionally; a 404 of the first path creates.
Patch(w) ==
  LET e == worker[w].target
      k == worker[w].key IN
  /\ worker[w].pc \in {"patching", "repatching"}
  /\ IF ~Exists(e)
       THEN /\ UNCHANGED google
            /\ IF worker[w].pc = "repatching" THEN Answer(w, "failed")
               ELSE /\ worker' = [worker EXCEPT ![w].pc = "creating",
                                                ![w].target = outbox[k].lane]
                    /\ UNCHANGED lock
     ELSE IF IfMatch(e, worker[w].etag)
       THEN Answer(w, "synced") /\ google' = Written(e, RevOf(k))
     ELSE Continue(w, "refreshing") /\ UNCHANGED google
  /\ UNCHANGED <<appointment, outbox, mirror, wire, scan, faults>>

Refresh(w) ==
  /\ worker[w].pc = "refreshing"
  /\ Answer(w, IF AtLeast(worker[w].target, worker[w].key) THEN "synced" ELSE "failed")
  /\ UNCHANGED <<appointment, outbox, mirror, google, wire, scan, faults>>

\* An event newer than the deletion is left alone; a cleanup has no revision.
ReadForDelete(w) ==
  LET k == worker[w].key
      e == worker[w].target IN
  /\ worker[w].pc = "reading" /\ ~IsSync(k)
  /\ IF ~Exists(e) THEN Answer(w, "deleted")
     ELSE IF ~IsCleanup(k) /\ google[e].rev > RevOf(k) THEN Answer(w, "failed")
     ELSE Continue(w, "deleting")
  /\ UNCHANGED <<appointment, outbox, mirror, google, wire, scan, faults>>

Delete(w) ==
  LET e == worker[w].target IN
  /\ worker[w].pc = "deleting"
  /\ IF Exists(e) /\ ~IfMatch(e, worker[w].etag)
       THEN Answer(w, "failed") /\ UNCHANGED google
       ELSE Answer(w, "deleted") /\ google' = Removed(e)
  /\ UNCHANGED <<appointment, outbox, mirror, wire, scan, faults>>

-----------------------------------------------------------------------------
(* The answer is recorded if the attempt still owns the job, and dropped   *)
(* otherwise.                                                              *)

Ended(w) ==
  /\ worker' = [worker EXCEPT ![w] = Idle]
  /\ UNCHANGED <<lock, google, wire, scan, faults>>

Done(w, pc) == worker[w].pc = pc /\ Owns(w) /\ Ended(w)

NotOwned(w) ==
  /\ worker[w].pc \in Answered \cup Refused \cup {"superseded"}
  /\ ~Owns(w)
  /\ Ended(w)
  /\ UNCHANGED <<appointment, outbox, mirror>>

\* With its row, a cleanup of the event joins the outbox.
WithCleanup(rows, k, e) ==
  LET c == <<"cleanup", RevOf(k), e>> IN
  [j \in Jobs \cup {c} |-> IF j \in Jobs THEN rows[j] ELSE NewRow(e, 0, TRUE, FALSE)]

\* persistAuthoritativeGoogleCalendarMirror
MirrorOf(e) ==
  [f \in Lane |-> CASE f = e -> "active"
                    [] f # e /\ mirror[f] = "active" -> "superseded"
                    [] OTHER -> mirror[f]]

\* Defect: the appointment is not told that the job failed.
FailQuietly(w) ==
  LET k == worker[w].key
      final == outbox[k].attempts >= MaxAttempts IN
  /\ \E pc \in Refused : Done(w, pc)
  /\ outbox' = Settled(k, IF final THEN "failed" ELSE "retry")
  /\ UNCHANGED <<appointment, mirror>>

\* After the last attempt the event may be at Google, and a cleanup is queued.
\* It must name a calendar: without one the enqueue throws and the transaction
\* is undone, and processIntegrationOutbox fails the row alone.
finishGoogleJobFailure(w) ==
  LET k == worker[w].key
      final == outbox[k].attempts >= MaxAttempts
      cleans == final /\ IsSync(k) /\ worker[w].pc # "ambiguous"
                  /\ ~(Newer(k) /\ outbox[k].pinned)
      undone == cleans /\ ~outbox[k].targeted
      rows == Stamped(k, IF final THEN "failed" ELSE "retry",
                     worker[w].pc = "busy" /\ ~undone) IN
  /\ \E pc \in Refused : Done(w, pc)
  /\ outbox' = IF cleans /\ ~undone THEN WithCleanup(rows, k, outbox[k].lane) ELSE rows
  /\ appointment' = IF undone \/ IsCleanup(k) \/ Newer(k) THEN appointment
                     ELSE [appointment EXCEPT !.sync = "failed"]
  /\ UNCHANGED mirror

\* Every identity is pinned by now, so no cleanup is due.
finishGoogleJobSuperseded(w) ==
  /\ Done(w, "superseded")
  /\ outbox' = Settled(worker[w].key, "cancelled")
  /\ UNCHANGED <<appointment, mirror>>

\* Defect: a newer job does not keep the older answer from being published.
PublishRegardless(w) ==
  LET e == worker[w].target IN
  /\ Done(w, "synced")
  /\ mirror' = MirrorOf(e)
  /\ appointment' = [appointment EXCEPT !.event = e, !.sync = "synced"]
  /\ outbox' = Settled(worker[w].key, "completed")

\* A superseded row is never the event of a sync, so the guard of the mirror
\* never throws.
FinishSynced(w) ==
  LET k == worker[w].key
      e == worker[w].target IN
  /\ Done(w, "synced")
  /\ \/ /\ Newer(k)
        /\ outbox' = Settled(k, "cancelled")
        /\ UNCHANGED <<appointment, mirror>>
     \/ /\ ~Newer(k) /\ appointment.active
        /\ mirror' = MirrorOf(e)
        /\ appointment' = [appointment EXCEPT !.event = e, !.sync = "synced"]
        /\ outbox' = Settled(k, "completed")
     \/ /\ ~Newer(k) /\ ~appointment.active
        /\ outbox' = IF worker[w].event = e THEN Settled(k, "completed")
                                            ELSE WithCleanup(Settled(k, "completed"), k, e)
        /\ UNCHANGED <<appointment, mirror>>

\* An edit that waits for its turn still needs the mirror.
NewerSyncWaits(k) ==
  /\ ~IsCleanup(k)
  /\ \E j \in Jobs : /\ IsSync(j) /\ RevOf(j) > RevOf(k)
                     /\ outbox[j].status \in {"pending", "retry"}

FinishDeleted(w) ==
  LET k == worker[w].key
      e == worker[w].target
      keeps == NewerSyncWaits(k) /\ appointment.active IN
  /\ Done(w, "deleted")
  /\ mirror' = [mirror EXCEPT ![e] = IF ~keeps /\ @ = "active" THEN "deleted" ELSE @]
  /\ appointment' =
       IF /\ appointment.event \in {e, NoEvent}
          /\ \A f \in Lane : mirror'[f] # "active"
          /\ ~Newer(k)
          /\ ~appointment.active
         THEN [appointment EXCEPT !.event = NoEvent, !.sync = "deleted"]
         ELSE appointment
  /\ outbox' = Settled(k, "completed")

FinishDisabled(w) ==
  LET k == worker[w].key IN
  /\ Done(w, "disabled")
  /\ appointment' = IF Newer(k) THEN appointment
                    ELSE [appointment EXCEPT !.sync = "not_synced"]
  /\ outbox' = Settled(k, "completed")
  /\ UNCHANGED mirror

-----------------------------------------------------------------------------
(* What can go wrong. *)

\* Anything up to the end of the finish: the database, the token, the calendar, a
\* deadline of the invocation.  The lock goes with the session.  The transaction
\* of a change holds the lock as well, and may be undone: a sync that is to be
\* prepared meanwhile finds it busy.
Release(w) == IF lock = w THEN NoWorker ELSE lock
Fault == faults < MaxFaults /\ faults' = faults + 1

Fail(w) ==
  /\ Fault
  /\ \/ /\ worker[w].pc \in {"claimed", "ready"} \cup Asking \cup Answered
        /\ Go(w, "failed")
     \/ /\ worker[w].pc = "claimed" /\ IsSync(worker[w].key)
        /\ Go(w, "busy")
  /\ lock' = Release(w)
  /\ UNCHANGED <<appointment, outbox, mirror, google, wire, scan>>

Crash(w) ==
  /\ Fault
  /\ worker[w].pc # "idle"
  /\ worker' = [worker EXCEPT ![w] = Idle]
  /\ lock' = Release(w)
  /\ UNCHANGED <<appointment, outbox, mirror, google, wire, scan>>

\* The request is out, but its answer will not be heard: the call timed out or
\* the invocation died.
Method(w) ==
  CASE worker[w].pc = "creating" -> "POST"
    [] worker[w].pc = "deleting" -> "DELETE"
    [] OTHER -> "PATCH"

LoseAnswer(w) ==
  /\ Fault
  /\ worker[w].pc \in Writing
  /\ wire' = wire \cup {[method |-> Method(w), key |-> worker[w].key,
                         event |-> worker[w].target, etag |-> worker[w].etag]}
  /\ \/ Go(w, "failed")
     \/ worker' = [worker EXCEPT ![w] = Idle]
  /\ lock' = Release(w)
  /\ UNCHANGED <<appointment, outbox, mirror, google, scan>>

\* Google carries it out under the same conditions, or never.
Land(q) ==
  /\ q \in wire
  /\ wire' = wire \ {q}
  /\ google' =
       CASE q.method = "POST" /\ ~Exists(q.event) -> Written(q.event, RevOf(q.key))
         [] q.method = "PATCH" /\ IfMatch(q.event, q.etag)
              -> Written(q.event, RevOf(q.key))
         [] q.method = "DELETE" /\ IfMatch(q.event, q.etag)
              -> Removed(q.event)
         [] OTHER -> google
  /\ UNCHANGED <<appointment, outbox, mirror, worker, lock, scan, faults>>

Drop(q) ==
  /\ q \in wire
  /\ wire' = wire \ {q}
  /\ UNCHANGED <<appointment, outbox, mirror, worker, lock, google, scan, faults>>

-----------------------------------------------------------------------------
(* The reconciliation at the end of an invocation: a mirror that is still  *)
(* active or an event at Google, of an appointment that is over.           *)

\* The id of the local row joins the repair, but an event that is also found at
\* Google takes the place of its active row without it, unless the calendar could
\* not be listed.
MirrorNamed(e) ==
  CASE mirror[e] = "active" -> IF Exists(e) THEN BOOLEAN ELSE {TRUE}
    [] mirror[e] = "deleted" -> {TRUE}
    [] OTHER -> {FALSE}

\* Defect: the repair trusts a cancellation that enqueued its own job.
ScanTrusting(e) ==
  /\ scan = NoScan
  /\ ~appointment.active
  /\ TerminalKey(appointment.rev) \notin Jobs
  /\ mirror[e] = "active" \/ (Exists(e) /\ mirror[e] # "superseded")
  /\ <<"reconciliation", appointment.rev, e>> \notin Jobs
  /\ \E m \in MirrorNamed(e) :
       scan' = [event |-> e, rev |-> appointment.rev, mirrored |-> m]
  /\ UNCHANGED <<appointment, outbox, mirror, worker, lock, google, wire, faults>>

Scan(e) ==
  /\ scan = NoScan
  /\ ~appointment.active
  /\ \/ mirror[e] = "active"
     \/ Exists(e) /\ mirror[e] # "superseded"
  /\ <<"reconciliation", appointment.rev, e>> \notin Jobs
  /\ \E m \in MirrorNamed(e) :
       scan' = [event |-> e, rev |-> appointment.rev, mirrored |-> m]
  /\ UNCHANGED <<appointment, outbox, mirror, worker, lock, google, wire, faults>>

\* No lock is taken: the appointment may have changed since the scan.
enqueueGoogleCalendarReconciliationDelete ==
  /\ scan # NoScan
  /\ outbox' = Insert(<<"reconciliation", scan.rev, scan.event>>,
                      NewRow(scan.event, 0, TRUE, scan.mirrored))
  /\ scan' = NoScan
  /\ UNCHANGED <<appointment, mirror, worker, lock, google, wire, faults>>

-----------------------------------------------------------------------------

\* A new booking.
Init ==
  /\ appointment = [active |-> TRUE, rev |-> 1, event |-> NoEvent, sync |-> "pending"]
  /\ \E connected \in BOOLEAN :
       outbox = [k \in {SyncKey(1)} |-> NewRow(NoEvent, 0, connected, FALSE)]
  /\ mirror = [e \in Lane |-> "none"]
  /\ worker = [w \in Worker |-> Idle]
  /\ lock = NoWorker
  /\ google = [e \in Lane |-> [rev |-> 0, etag |-> 0]]
  /\ wire = {}
  /\ scan = NoScan
  /\ faults = 0

AtGoogle(w) ==
  \/ ReadForSync(w) \/ Create(w) \/ ReadConflicting(w) \/ Patch(w) \/ Refresh(w)
  \/ ReadForDelete(w) \/ Delete(w)

Finish(w) ==
  \/ FinishSynced(w) \/ FinishDeleted(w) \/ FinishDisabled(w)
  \/ finishGoogleJobSuperseded(w) \/ finishGoogleJobFailure(w) \/ NotOwned(w)

Work(w) ==
  \/ PrepareSync(w) \/ PrepareDelete(w) \/ LoseLease(w)
  \/ withGoogleCalendarDispatchLock(w)
  \/ AtGoogle(w)
  \/ Finish(w)

Next ==
  \/ Edit \/ Cancel \/ Reactivate
  \/ \E w \in Worker :
       \/ \E k \in Jobs : claimIntegrationOutboxJob(w, k)
       \/ Work(w)
       \/ Fail(w) \/ Crash(w) \/ LoseAnswer(w)
  \/ \E k \in Jobs : reclaimStaleGoogleCalendarJob(k)
  \/ \E q \in wire : Land(q) \/ Drop(q)
  \/ \E e \in Lane : Scan(e)
  \/ enqueueGoogleCalendarReconciliationDelete

Spec == Init /\ [][Next]_vars

\* Invocations keep coming: what is due is claimed, worked on and reclaimed, and
\* every invocation ends with a scan.  A late request lands or is lost.
FairSpec ==
  /\ Spec
  /\ WF_vars(\E w \in Worker, k \in Jobs : claimIntegrationOutboxJob(w, k))
  /\ \A w \in Worker : WF_vars(Work(w))
  /\ WF_vars(\E k \in Jobs : reclaimStaleGoogleCalendarJob(k))
  /\ WF_vars(\E q \in wire : Land(q) \/ Drop(q))
  /\ WF_vars(\E e \in Lane : Scan(e))
  /\ WF_vars(enqueueGoogleCalendarReconciliationDelete)

-----------------------------------------------------------------------------

(* Types.  Only a sync may be without an event: every deletion names the    *)
(* one it was enqueued for.                                                *)
TypeOK ==
  /\ appointment \in Appointment
  /\ Jobs \subseteq Key
  /\ \A k \in Jobs : /\ outbox[k] \in Row
                     /\ ~IsSync(k) => outbox[k].event # NoEvent
  /\ mirror \in [Lane -> {"none", "active", "deleted", "superseded"}]
  /\ worker \in [Worker -> Process]
  /\ lock \in Worker \cup {NoWorker}
  /\ google \in [Lane -> [rev : 0 .. MaxRevision, etag : Nat]]
  /\ wire \subseteq Request
  /\ scan \in Found \cup {NoScan}
  /\ faults \in 0 .. MaxFaults

(* Whoever talks to Google owns the row of its job: while one invocation   *)
(* holds the advisory lock, no other reclaims, claims or finishes it       *)
(* (reclaimStaleGoogleCalendarJob takes the lock before the row,           *)
(* withGoogleCalendarDispatchLock checks the lease under the lock).        *)
LeaseIsHeld ==
  \A w \in Worker : lock = w => Owns(w)

(* What the salon is told: an appointment marked synced is active, its     *)
(* event has a local row, and the event at Google shows its latest         *)
(* revision (finishGoogleJobSuccess, hasNewerGoogleCalendarIntent).  With  *)
(* two faults this is not so: a deletion whose answer is lost may land     *)
(* after the mark.                                                         *)
SyncedIsTrue ==
  appointment.sync = "synced" =>
    /\ appointment.active
    /\ mirror[appointment.event] = "active"
    /\ google[appointment.event].rev = appointment.rev

(* The event at Google never goes back to an older revision, whoever       *)
(* writes and however late a write lands (remoteEventIsAtLeastRevision and *)
(* the etag of patchGoogleCalendarEventConditionally).                     *)
RemoteNeverRegresses ==
  [][\A e \in Lane : google'[e].rev = 0 \/ google'[e].rev >= google[e].rev]_vars

GivenUp == \E k \in Jobs : k[1] = "reconciliation" /\ outbox[k].status = "failed"

(* An event with an active local row leaves Google once the appointment is *)
(* over: by the job of the cancellation or, when that was superseded,      *)
(* failed or never made, by the repair the scan enqueues - unless the      *)
(* repair itself was tried MaxAttempts times.                              *)
Lingers(e) == ~appointment.active /\ mirror[e] = "active" /\ Exists(e)

LinkedOrphansLeave ==
  \A e \in Lane : Lingers(e) ~> ~Lingers(e) \/ GivenUp

NoCalendar ==
  LET k == SyncKey(appointment.rev)
  IN k \in Jobs /\ outbox[k].status = "failed" /\ ~outbox[k].targeted

(* "pending" does not last: the job behind it is finished, replaced by a   *)
(* newer one or marked failed, whatever died or was reclaimed on the way - *)
(* unless its last attempt ended with no calendar to talk to, of which the *)
(* appointment is not told (enqueueObsoleteGoogleResultCleanup throws).    *)
PendingSettles ==
  appointment.active /\ appointment.sync = "pending" ~>
    NoCalendar \/ ~(appointment.active /\ appointment.sync = "pending")

(* What the comment in reconcileGoogleCalendarTerminalMirrors promises for *)
(* an event without local identifiers as well: it is found at Google by    *)
(* its private metadata and repaired.                                      *)
OrphansLeave ==
  \A e \in Lane :
    ~appointment.active /\ Exists(e) ~>
      appointment.active \/ ~Exists(e) \/ GivenUp
=============================================================================
