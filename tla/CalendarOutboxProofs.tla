------------------------ MODULE CalendarOutboxProofs ------------------------
(***************************************************************************)
(* Theorems about the calendar's outbox, for every number of invocations,  *)
(* revisions, attempts and faults.                                         *)
(***************************************************************************)
EXTENDS CalendarOutbox, WellFoundedInduction, TLAPS

(***************************************************************************)
(* The types, in the pieces the steps change.                              *)
(***************************************************************************)
Status == {"pending", "retry", "processing", "completed", "cancelled", "failed"}
MirrorState == {"none", "active", "deleted", "superseded"}
EventAtGoogle == [rev : 0 .. MaxRevision, etag : Nat]
Aiming == Asking \cup {"ready", "synced", "deleted"}

OutboxTyped ==
  /\ Jobs \subseteq Key
  /\ outbox = [k \in Jobs |-> outbox[k]]
  /\ \A k \in Jobs : outbox[k] \in Row /\ (~IsSync(k) => outbox[k].event # NoEvent)

\* An invocation at work has a job of the outbox, and an event where it needs one.
WorkerTyped ==
  /\ worker \in [Worker -> Process]
  /\ \A w \in Worker :
       /\ worker[w].pc # "idle" => worker[w].key \in Jobs
       /\ worker[w].pc \in Aiming => worker[w].target \in Lane

AppointmentTyped == appointment \in Appointment
MirrorTyped == mirror \in [Lane -> MirrorState]
LockTyped == lock \in Worker \cup {NoWorker}
GoogleTyped == google \in [Lane -> EventAtGoogle]
WireTyped == wire \subseteq Request
ScanTyped == scan \in Found \cup {NoScan}
FaultsTyped == faults \in 0 .. MaxFaults

Typed ==
  /\ OutboxTyped /\ WorkerTyped
  /\ AppointmentTyped /\ MirrorTyped /\ LockTyped
  /\ GoogleTyped /\ WireTyped /\ ScanTyped /\ FaultsTyped

LEMMA TypedIsTypeOK == Typed => TypeOK
BY DEF Typed, TypeOK, OutboxTyped, WorkerTyped, AppointmentTyped, MirrorTyped, LockTyped,
       GoogleTyped, WireTyped, ScanTyped, FaultsTyped, MirrorState, EventAtGoogle

LEMMA Numbers ==
  /\ MaxRevision \in Nat /\ MaxAttempts \in Nat /\ MaxFaults \in Nat
  /\ 0 \in 0 .. MaxFaults /\ 0 \in 0 .. MaxRevision /\ 1 \in Revision
  /\ Revision \subseteq 0 .. MaxRevision
  /\ NoEvent \notin Lane /\ NoWorker \notin Worker
  /\ 0 \in Lane /\ Revision \subseteq Lane
BY OutboxAssumption DEF OutboxAssumption, Lane, Revision

(***************************************************************************)
(* The operators of the tables.                                            *)
(***************************************************************************)
\* The lane of a revision is the latest deletion before it: a set of revisions
\* and 0 has a largest member.
LEMMA LatestExists ==
  ASSUME NEW S \in SUBSET Revision
  PROVE  \E l \in {0} \cup S : \A t \in S : t <= l
<1> DEFINE T == {MaxRevision - l : l \in {0} \cup S}
<1>1. \A l \in {0} \cup S : l \in Nat /\ l <= MaxRevision /\ MaxRevision - l \in Nat
  BY Numbers DEF Revision
<1>2. T \subseteq Nat /\ T # {} BY <1>1
<1> HIDE DEF T
<1>3. PICK m \in T : \A y \in T : <<y, m>> \notin OpToRel(<, Nat)
  BY <1>2, WFMin, NatLessThanWellFounded, Zenon
<1>4. \A y \in T : ~(y < m)
  BY <1>2, <1>3 DEF OpToRel
<1>5. PICK l \in {0} \cup S : m = MaxRevision - l BY DEF T
<1>6. \A t \in S : MaxRevision - t \in T BY DEF T
<1>7. ASSUME NEW t \in S PROVE t <= l
  <2>1. ~(MaxRevision - t < MaxRevision - l) BY <1>4, <1>5, <1>6
  <2>2. t \in Nat /\ l \in Nat /\ MaxRevision \in Nat BY <1>1, <1>5, Numbers
  <2>3. QED BY <2>1, <2>2
<1>8. QED BY <1>7

LEMMA LaneAtTyped ==
  ASSUME NEW r PROVE LaneAt(r) \in Lane
<1> DEFINE ended == {t \in Revision : t < r /\ TerminalKey(t) \in Jobs}
<1>1. \E l \in {0} \cup ended : \A t \in ended : t <= l
  BY LatestExists
<1>2. LaneAt(r) \in {0} \cup ended
  BY <1>1 DEF LaneAt
<1>3. QED BY <1>2, Numbers

LEMMA KnownEventTyped == KnownEvent \in Event
<1>1. CASE Linked = {} BY <1>1 DEF KnownEvent, Event
<1>2. CASE Linked # {}
  <2>1. KnownEvent \in Linked BY <1>2 DEF KnownEvent
  <2>2. QED BY <2>1 DEF Linked, Event
<1>3. QED BY <1>1, <1>2

LEMMA NewRowTyped ==
  ASSUME NEW e \in Event, NEW l \in Lane, NEW t \in BOOLEAN, NEW m \in BOOLEAN
  PROVE  /\ NewRow(e, l, t, m) \in Row
         /\ NewRow(e, l, t, m).event = e
BY DEF NewRow, Row

\* A new job leaves the others as they are.
LEMMA InsertTyped ==
  ASSUME OutboxTyped, NEW k \in Key, NEW row \in Row, ~IsSync(k) => row.event # NoEvent,
         outbox' = Insert(k, row)
  PROVE  OutboxTyped' /\ Jobs \subseteq Jobs' /\ \A j \in Jobs : outbox'[j] = outbox[j]
<1>1. Jobs' = Jobs \cup {k} BY DEF Insert, Jobs
<1>2. \A j \in Jobs' : outbox'[j] = IF j \in Jobs THEN outbox[j] ELSE row
  BY <1>1 DEF Insert
<1>3. outbox' = [j \in Jobs' |-> outbox'[j]]
  BY <1>1, <1>2 DEF Insert
<1>4. QED BY <1>1, <1>2, <1>3 DEF OutboxTyped

\* A row whose status changes.
LEMMA StampedRow ==
  ASSUME NEW r \in Row, NEW s \in Status, NEW b \in BOOLEAN
  PROVE  LET row == [r EXCEPT !.status = s, !.busy = b]
         IN row \in Row /\ row.event = r.event /\ row.attempts = r.attempts
BY DEF Row, Status

LEMMA StampedTyped ==
  ASSUME OutboxTyped, NEW k, NEW s \in Status, NEW b \in BOOLEAN, outbox' = Stamped(k, s, b)
  PROVE  /\ OutboxTyped' /\ Jobs' = Jobs
         /\ \A j \in Jobs : /\ outbox'[j].attempts = outbox[j].attempts
                            /\ j # k => outbox'[j] = outbox[j]
<1>1. outbox' = [j \in Jobs |-> IF j = k THEN [outbox[j] EXCEPT !.status = s, !.busy = b]
                                      ELSE outbox[j]]
  BY DEF OutboxTyped, Stamped
<1>2. Jobs' = Jobs BY <1>1 DEF Jobs
<1>3. \A j \in Jobs : outbox'[j] = IF j = k THEN [outbox[j] EXCEPT !.status = s, !.busy = b]
                                      ELSE outbox[j]
  BY <1>1
<1>4. outbox' = [j \in Jobs' |-> outbox'[j]] BY <1>1, <1>2
<1>5. ASSUME NEW j \in Jobs
      PROVE  /\ outbox'[j] \in Row /\ outbox'[j].event = outbox[j].event
             /\ outbox'[j].attempts = outbox[j].attempts
  <2>1. outbox[j] \in Row BY DEF OutboxTyped
  <2> DEFINE row == [outbox[j] EXCEPT !.status = s, !.busy = b]
  <2>2. row \in Row /\ row.event = outbox[j].event /\ row.attempts = outbox[j].attempts
    BY <2>1, StampedRow
  <2>3. outbox'[j] = row \/ outbox'[j] = outbox[j] BY <1>3
  <2> HIDE DEF row
  <2>4. QED BY <2>1, <2>2, <2>3
<1>6. QED BY <1>2, <1>3, <1>4, <1>5 DEF OutboxTyped

LEMMA SettledTyped ==
  ASSUME OutboxTyped, NEW k, NEW s \in Status, outbox' = Settled(k, s)
  PROVE  /\ OutboxTyped' /\ Jobs' = Jobs
         /\ \A j \in Jobs : /\ outbox'[j].attempts = outbox[j].attempts
                            /\ j # k => outbox'[j] = outbox[j]
BY StampedTyped DEF Settled

LEMMA CleanupTyped ==
  ASSUME OutboxTyped, NEW k \in Jobs, NEW s \in Status, NEW b \in BOOLEAN, NEW e \in Lane,
         outbox' = WithCleanup(Stamped(k, s, b), k, e)
  PROVE  /\ OutboxTyped' /\ Jobs \subseteq Jobs'
         /\ \A j \in Jobs : /\ outbox'[j].attempts = outbox[j].attempts
                            /\ j # k => outbox'[j] = outbox[j]
<1> DEFINE c == <<"cleanup", RevOf(k), e>>
<1>1. c \in Key /\ ~IsSync(c)
  BY DEF OutboxTyped, Key, Kind, RevOf, IsSync, Event
<1>2. NewRow(e, 0, TRUE, FALSE) \in Row /\ NewRow(e, 0, TRUE, FALSE).event # NoEvent
  <2>1. e \in Event /\ e # NoEvent /\ 0 \in Lane BY Numbers DEF Event
  <2>2. TRUE \in BOOLEAN /\ FALSE \in BOOLEAN OBVIOUS
  <2>3. QED BY <2>1, <2>2, NewRowTyped
<1> HIDE DEF c
<1>3. outbox' = [j \in Jobs \cup {c} |->
                   IF j \in Jobs THEN Stamped(k, s, b)[j] ELSE NewRow(e, 0, TRUE, FALSE)]
  BY DEF WithCleanup, c
<1>4. Jobs' = Jobs \cup {c} BY <1>3 DEF Jobs
<1>5. \A j \in Jobs : outbox'[j] = IF j = k THEN [outbox[j] EXCEPT !.status = s, !.busy = b]
                                      ELSE outbox[j]
  BY <1>3 DEF OutboxTyped, Stamped
<1>6. c \notin Jobs => outbox'[c] = NewRow(e, 0, TRUE, FALSE) BY <1>3
<1>7. outbox' = [j \in Jobs' |-> outbox'[j]] BY <1>3, <1>4
<1>8. ASSUME NEW j \in Jobs
      PROVE  /\ outbox'[j] \in Row /\ outbox'[j].event = outbox[j].event
             /\ outbox'[j].attempts = outbox[j].attempts
  <2>1. outbox[j] \in Row BY DEF OutboxTyped
  <2> DEFINE row == [outbox[j] EXCEPT !.status = s, !.busy = b]
  <2>2. row \in Row /\ row.event = outbox[j].event /\ row.attempts = outbox[j].attempts
    BY <2>1, StampedRow
  <2>3. outbox'[j] = row \/ outbox'[j] = outbox[j] BY <1>5
  <2> HIDE DEF row
  <2>4. QED BY <2>1, <2>2, <2>3
<1>9. QED BY <1>1, <1>2, <1>4, <1>5, <1>6, <1>7, <1>8 DEF OutboxTyped

(***************************************************************************)
(* The steps of an invocation.                                             *)
(***************************************************************************)
PC == {"idle", "claimed", "ready", "superseded"} \cup Asking \cup Answered \cup Refused

\* The invocation goes on with its job, or is over.
Moves(w, p) ==
  /\ worker' = [worker EXCEPT ![w] = p]
  /\ worker[w].pc # "idle"
  /\ p \in Process
  /\ p.pc # "idle" => /\ p.key = worker[w].key /\ p.attempt = worker[w].attempt
                      /\ p.pc \in Aiming => p.target \in Lane

LEMMA KeyParts ==
  ASSUME NEW k \in Key
  PROVE  RevOf(k) \in Revision /\ RevOf(k) \in 0 .. MaxRevision /\ k[3] \in Event
BY Numbers DEF Key, RevOf, Revision

LEMMA IdleTyped == Idle \in Process /\ Idle.pc = "idle" /\ SyncKey(1) \in Key
<1>1. SyncKey(1) \in Key
  BY Numbers DEF SyncKey, Key, Kind, Event
<1>2. QED BY <1>1 DEF Idle, Process, Event

LEMMA AtWork ==
  ASSUME Typed, NEW w \in Worker, worker[w].pc # "idle"
  PROVE  /\ worker[w] \in Process
         /\ worker[w].key \in Jobs /\ worker[w].key \in Key
         /\ outbox[worker[w].key] \in Row
         /\ outbox[worker[w].key].lane \in Lane
         /\ worker[w].pc \in Aiming => worker[w].target \in Lane
BY DEF Typed, WorkerTyped, OutboxTyped, Row

LEMMA MoveTyped ==
  ASSUME WorkerTyped, NEW w \in Worker, NEW p, Moves(w, p), Jobs \subseteq Jobs'
  PROVE  /\ WorkerTyped'
         /\ worker'[w] = p
         /\ \A v \in Worker : v # w => worker'[v] = worker[v]
<1>1. worker'[w] = p /\ \A v \in Worker : v # w => worker'[v] = worker[v]
  BY DEF Moves, WorkerTyped
<1>2. worker' \in [Worker -> Process] BY DEF Moves, WorkerTyped
<1>3. ASSUME NEW v \in Worker
      PROVE  /\ worker'[v].pc # "idle" => worker'[v].key \in Jobs'
             /\ worker'[v].pc \in Aiming => worker'[v].target \in Lane
  <2>1. "idle" \notin Aiming BY DEF Aiming, Asking, Writing
  <2>2. CASE v = w BY <1>1, <2>1, <2>2 DEF Moves, WorkerTyped
  <2>3. CASE v # w BY <1>1, <2>3 DEF WorkerTyped
  <2>4. QED BY <2>2, <2>3
<1>4. QED BY <1>1, <1>2, <1>3 DEF WorkerTyped

\* Another place of the program, with the event as it is.
LEMMA GoMoves ==
  ASSUME Typed, NEW w \in Worker, worker[w].pc # "idle", NEW pc \in PC \ {"idle"},
         Go(w, pc), pc \in Aiming => worker[w].target \in Lane
  PROVE  \E p : Moves(w, p) /\ p.pc = pc
<1> DEFINE p == [worker[w] EXCEPT !.pc = pc]
<1>1. worker[w] \in Process BY AtWork
<1>2. p \in Process /\ p.pc = pc /\ p.key = worker[w].key /\ p.attempt = worker[w].attempt
      /\ p.target = worker[w].target
  BY <1>1 DEF Process, PC
<1>3. worker' = [worker EXCEPT ![w] = p] BY DEF Go, Typed, WorkerTyped
<1>4. Moves(w, p) BY <1>2, <1>3 DEF Moves
<1>5. QED BY <1>2, <1>4

LEMMA ContinueMoves ==
  ASSUME Typed, NEW w \in Worker, worker[w].pc \in Asking, NEW pc \in Asking, Continue(w, pc)
  PROVE  /\ \E p : Moves(w, p) /\ p.pc = pc /\ p.target = worker[w].target
                   /\ p.etag = google[worker[w].target].etag
         /\ lock' = lock
<1> DEFINE p == [worker[w] EXCEPT !.pc = pc, !.etag = google[worker[w].target].etag]
<1>1. worker[w].pc # "idle" /\ worker[w].pc \in Aiming /\ pc # "idle" /\ pc \in PC
  BY DEF Asking, Writing, Aiming, PC
<1>2. worker[w] \in Process /\ worker[w].target \in Lane BY <1>1, AtWork
<1>3. google[worker[w].target].etag \in Nat
  BY <1>2 DEF Typed, GoogleTyped, EventAtGoogle
<1>4. p \in Process /\ p.pc = pc /\ p.key = worker[w].key /\ p.attempt = worker[w].attempt
      /\ p.target = worker[w].target /\ p.etag = google[worker[w].target].etag
  BY <1>1, <1>2, <1>3 DEF Process, PC
<1>5. worker' = [worker EXCEPT ![w] = p] BY DEF Continue, Typed, WorkerTyped
<1>6. Moves(w, p) BY <1>1, <1>2, <1>4, <1>5 DEF Moves
<1>7. QED BY <1>4, <1>6 DEF Continue

\* The event is missing, so it is created under the id of its lane.
LEMMA CreatingMoves ==
  ASSUME Typed, NEW w \in Worker, worker[w].pc \in Asking,
         worker' = [worker EXCEPT ![w].pc = "creating", ![w].target = outbox[worker[w].key].lane]
  PROVE  \E p : Moves(w, p) /\ p.pc = "creating"
<1> DEFINE p == [worker[w] EXCEPT !.pc = "creating", !.target = outbox[worker[w].key].lane]
<1>1. worker[w].pc # "idle" BY DEF Asking, Writing
<1>2. worker[w] \in Process /\ outbox[worker[w].key].lane \in Lane BY <1>1, AtWork
<1>3. p \in Process /\ p.pc = "creating" /\ p.key = worker[w].key
      /\ p.attempt = worker[w].attempt /\ p.target \in Lane
  BY <1>2 DEF Process, Asking, Writing, Event
<1>4. worker' = [worker EXCEPT ![w] = p] BY DEF Typed, WorkerTyped
<1>5. Moves(w, p) BY <1>1, <1>3, <1>4 DEF Moves
<1>6. QED BY <1>3, <1>5

LEMMA WrittenTyped ==
  ASSUME GoogleTyped, NEW e \in Lane, NEW r \in 0 .. MaxRevision
  PROVE  /\ Written(e, r) \in [Lane -> EventAtGoogle]
         /\ Written(e, r)[e].rev = r /\ Written(e, r)[e].etag = google[e].etag + 1
         /\ \A f \in Lane : f # e => Written(e, r)[f] = google[f]
<1>1. google[e].etag \in Nat BY DEF GoogleTyped, EventAtGoogle
<1>2. [rev |-> r, etag |-> google[e].etag + 1] \in EventAtGoogle BY <1>1 DEF EventAtGoogle
<1>3. QED BY <1>2 DEF Written, GoogleTyped

LEMMA RemovedTyped ==
  ASSUME GoogleTyped, NEW e \in Lane
  PROVE  /\ Removed(e) \in [Lane -> EventAtGoogle]
         /\ Removed(e)[e].rev = 0 /\ Removed(e)[e].etag = google[e].etag
         /\ \A f \in Lane : f # e => Removed(e)[f] = google[f]
<1> DEFINE r == [google[e] EXCEPT !.rev = 0]
<1>1. google[e] \in EventAtGoogle BY DEF GoogleTyped
<1>2. r \in EventAtGoogle /\ r.rev = 0 /\ r.etag = google[e].etag
  BY <1>1, Numbers DEF EventAtGoogle
<1>3. Removed(e) = [google EXCEPT ![e] = r] BY DEF Removed
<1> HIDE DEF r
<1>4. QED BY <1>2, <1>3 DEF GoogleTyped

\* What a step at Google does to everything but the freshness of etags.
AtGoogleStep(w) ==
  /\ \E p : /\ Moves(w, p)
            /\ \/ p.pc \in Asking /\ lock' = lock
               \/ p.pc \in {"synced", "deleted", "failed"} /\ lock' = NoWorker
  /\ GoogleTyped'
  /\ UNCHANGED <<appointment, outbox, mirror, wire, scan, faults>>

LEMMA AnswerMoves ==
  ASSUME Typed, NEW w \in Worker, worker[w].pc \in Asking,
         NEW pc \in {"synced", "deleted", "failed"}, Answer(w, pc)
  PROVE  \E p : /\ Moves(w, p)
                /\ p.pc \in {"synced", "deleted", "failed"} /\ lock' = NoWorker
<1>1. worker[w].pc # "idle" /\ worker[w].pc \in Aiming BY DEF Asking, Writing, Aiming
<1>2. pc \in PC \ {"idle"} BY DEF PC, Answered, Refused
<1>3. Go(w, pc) /\ lock' = NoWorker BY DEF Answer
<1>4. PICK p : Moves(w, p) /\ p.pc = pc BY <1>1, <1>2, <1>3, GoMoves, AtWork
<1>5. QED BY <1>3, <1>4

LEMMA ReadsStep ==
  ASSUME Typed, NEW w \in Worker, ReadForSync(w) \/ ReadConflicting(w) \/ Refresh(w) \/ ReadForDelete(w)
  PROVE  AtGoogleStep(w) /\ google' = google
<1>1. worker[w].pc \in Asking
  BY DEF ReadForSync, ReadConflicting, Refresh, ReadForDelete, Asking
<1>2. UNCHANGED <<appointment, outbox, mirror, google, wire, scan, faults>>
  BY DEF ReadForSync, ReadConflicting, Refresh, ReadForDelete
<1>3. GoogleTyped' BY <1>2 DEF Typed, GoogleTyped
<1>4. \/ \E pc \in {"synced", "deleted", "failed"} : Answer(w, pc)
      \/ \E pc \in Asking : Continue(w, pc)
      \/ /\ worker' = [worker EXCEPT ![w].pc = "creating", ![w].target = outbox[worker[w].key].lane]
         /\ lock' = lock
  <2>1. {"creating", "patching", "repatching", "deleting"} \subseteq Asking BY DEF Asking, Writing
  <2>2. CASE ReadForSync(w) BY <2>1, <2>2 DEF ReadForSync
  <2>3. CASE ReadConflicting(w) BY <2>1, <2>3 DEF ReadConflicting
  <2>4. CASE Refresh(w) BY <2>4 DEF Refresh
  <2>5. CASE ReadForDelete(w) BY <2>1, <2>5 DEF ReadForDelete
  <2>6. QED BY <2>2, <2>3, <2>4, <2>5
<1>5. CASE \E pc \in {"synced", "deleted", "failed"} : Answer(w, pc)
  <2>1. PICK pc \in {"synced", "deleted", "failed"} : Answer(w, pc) BY <1>5
  <2>2. QED BY <1>1, <1>2, <1>3, <2>1, AnswerMoves DEF AtGoogleStep
<1>6. CASE \E pc \in Asking : Continue(w, pc)
  <2>1. PICK pc \in Asking : Continue(w, pc) BY <1>6
  <2>2. QED BY <1>1, <1>2, <1>3, <2>1, ContinueMoves DEF AtGoogleStep
<1>7. CASE /\ worker' = [worker EXCEPT ![w].pc = "creating", ![w].target = outbox[worker[w].key].lane]
           /\ lock' = lock
  <2>1. "creating" \in Asking BY DEF Asking, Writing
  <2>2. QED BY <1>1, <1>2, <1>3, <1>7, <2>1, CreatingMoves DEF AtGoogleStep
<1>8. QED BY <1>2, <1>4, <1>5, <1>6, <1>7

LEMMA CreateStep ==
  ASSUME Typed, NEW w \in Worker, Create(w)
  PROVE  AtGoogleStep(w)
<1>1. worker[w].pc \in Asking /\ worker[w].pc # "idle" /\ worker[w].pc \in Aiming
  BY DEF Create, Asking, Writing, Aiming
<1>2. worker[w].target \in Lane /\ RevOf(worker[w].key) \in 0 .. MaxRevision
  BY <1>1, AtWork, KeyParts
<1>3. CASE Exists(worker[w].target)
  <2>1. Go(w, "conflicted") /\ UNCHANGED <<lock, google>> BY <1>3 DEF Create
  <2>2. "conflicted" \in Asking /\ "conflicted" \in PC \ {"idle"} BY DEF Asking, PC
  <2>3. GoogleTyped' BY <2>1 DEF Typed, GoogleTyped
  <2>4. \E p : Moves(w, p) /\ p.pc = "conflicted" BY <1>1, <1>2, <2>1, <2>2, GoMoves
  <2>5. QED BY <2>1, <2>2, <2>3, <2>4 DEF AtGoogleStep, Create
<1>4. CASE ~Exists(worker[w].target)
  <2>1. Answer(w, "synced") /\ google' = Written(worker[w].target, RevOf(worker[w].key))
    BY <1>4 DEF Create
  <2>2. GoogleTyped' BY <1>2, <2>1, WrittenTyped DEF Typed, GoogleTyped
  <2>3. QED BY <1>1, <2>1, <2>2, AnswerMoves DEF AtGoogleStep, Create
<1>5. QED BY <1>3, <1>4

LEMMA PatchStep ==
  ASSUME Typed, NEW w \in Worker, Patch(w)
  PROVE  AtGoogleStep(w)
<1>1. worker[w].pc \in Asking /\ worker[w].pc # "idle" /\ worker[w].pc \in Aiming
  BY DEF Patch, Asking, Writing, Aiming
<1>2. worker[w].target \in Lane /\ RevOf(worker[w].key) \in 0 .. MaxRevision
  BY <1>1, AtWork, KeyParts
<1>3. UNCHANGED <<appointment, outbox, mirror, wire, scan, faults>> BY DEF Patch
<1>4. CASE google' = google /\ Answer(w, "failed")
  <2>1. GoogleTyped' BY <1>4 DEF Typed, GoogleTyped
  <2>2. QED BY <1>1, <1>3, <1>4, <2>1, AnswerMoves DEF AtGoogleStep
<1>5. CASE /\ google' = google /\ lock' = lock
           /\ worker' = [worker EXCEPT ![w].pc = "creating", ![w].target = outbox[worker[w].key].lane]
  <2>1. GoogleTyped' BY <1>5 DEF Typed, GoogleTyped
  <2>2. "creating" \in Asking BY DEF Asking, Writing
  <2>3. QED BY <1>1, <1>3, <1>5, <2>1, <2>2, CreatingMoves DEF AtGoogleStep
<1>6. CASE Answer(w, "synced") /\ google' = Written(worker[w].target, RevOf(worker[w].key))
  <2>1. GoogleTyped' BY <1>2, <1>6, WrittenTyped DEF Typed, GoogleTyped
  <2>2. QED BY <1>1, <1>3, <1>6, <2>1, AnswerMoves DEF AtGoogleStep
<1>7. CASE Continue(w, "refreshing") /\ google' = google
  <2>1. GoogleTyped' BY <1>7 DEF Typed, GoogleTyped
  <2>2. "refreshing" \in Asking BY DEF Asking
  <2>3. QED BY <1>1, <1>3, <1>7, <2>1, <2>2, ContinueMoves DEF AtGoogleStep
<1>8. QED BY <1>4, <1>5, <1>6, <1>7 DEF Patch

LEMMA DeleteStep ==
  ASSUME Typed, NEW w \in Worker, Delete(w)
  PROVE  AtGoogleStep(w)
<1>1. worker[w].pc \in Asking /\ worker[w].pc # "idle" /\ worker[w].pc \in Aiming
  BY DEF Delete, Asking, Writing, Aiming
<1>2. worker[w].target \in Lane BY <1>1, AtWork
<1>3. CASE google' = google /\ Answer(w, "failed")
  <2>1. GoogleTyped' BY <1>3 DEF Typed, GoogleTyped
  <2>2. QED BY <1>1, <1>3, <2>1, AnswerMoves DEF AtGoogleStep, Delete
<1>4. CASE Answer(w, "deleted") /\ google' = Removed(worker[w].target)
  <2>1. GoogleTyped' BY <1>2, <1>4, RemovedTyped DEF Typed, GoogleTyped
  <2>2. QED BY <1>1, <1>4, <2>1, AnswerMoves DEF AtGoogleStep, Delete
<1>5. QED BY <1>3, <1>4 DEF Delete

LEMMA AtGoogleSteps ==
  ASSUME Typed, NEW w \in Worker, AtGoogle(w) PROVE AtGoogleStep(w)
BY ReadsStep, CreateStep, PatchStep, DeleteStep DEF AtGoogle

\* The preparation names the event and the target.
LEMMA NamedMoves ==
  ASSUME Typed, NEW w \in Worker, worker[w].pc # "idle", NEW pc \in PC \ {"idle"},
         NEW e \in Event, NEW t \in Event, pc \in Aiming => t \in Lane,
         worker' = [worker EXCEPT ![w].event = e, ![w].target = t, ![w].pc = pc]
  PROVE  \E p : Moves(w, p) /\ p.pc = pc
<1> DEFINE p == [worker[w] EXCEPT !.event = e, !.target = t, !.pc = pc]
<1>1. worker[w] \in Process BY AtWork
<1>2. p \in Process /\ p.pc = pc /\ p.key = worker[w].key /\ p.attempt = worker[w].attempt
      /\ p.target = t
  BY <1>1 DEF Process, PC
<1>3. worker' = [worker EXCEPT ![w] = p] BY DEF Typed, WorkerTyped
<1> HIDE DEF p
<1>4. Moves(w, p) BY <1>2, <1>3 DEF Moves
<1>5. QED BY <1>2, <1>4

\* Only the pins of the rows change, and the event of one sync.
LEMMA PinnedTyped ==
  ASSUME OutboxTyped, NEW k \in Jobs, IsSync(k), NEW e \in Event, outbox' = Pinned(k, e)
  PROVE  /\ OutboxTyped' /\ Jobs' = Jobs
         /\ \A j \in Jobs : /\ outbox'[j].status = outbox[j].status
                            /\ outbox'[j].attempts = outbox[j].attempts
<1> DEFINE tgt(j) == outbox[j].targeted \/ j \in Lifecycle(k)
           pin(j) == outbox[j].pinned \/ j \in Lifecycle(k)
           ev(j) == IF j = k THEN e ELSE outbox[j].event
<1>1. \A j : pin(j) \in BOOLEAN /\ tgt(j) \in BOOLEAN BY Zenon
<1>2. \A j \in Jobs : ev(j) \in Event /\ (~IsSync(j) => ev(j) # NoEvent)
  BY DEF OutboxTyped, Row
<1>3. outbox' = [j \in Jobs |-> [outbox[j] EXCEPT !.targeted = tgt(j), !.pinned = pin(j),
                                           !.event = ev(j)]]
  BY DEF Pinned
<1> HIDE DEF tgt, pin, ev
<1>4. Jobs' = Jobs BY <1>3 DEF Jobs
<1>5. \A j \in Jobs : outbox'[j] = [outbox[j] EXCEPT !.targeted = tgt(j), !.pinned = pin(j),
                                           !.event = ev(j)]
  BY <1>3
<1>6. outbox' = [j \in Jobs' |-> outbox'[j]] BY <1>3, <1>4
<1>7. ASSUME NEW j \in Jobs
      PROVE  /\ outbox'[j] \in Row /\ outbox'[j].event = ev(j)
             /\ outbox'[j].status = outbox[j].status
             /\ outbox'[j].attempts = outbox[j].attempts
  <2>1. outbox[j] \in Row BY DEF OutboxTyped
  <2>2. tgt(j) \in BOOLEAN /\ pin(j) \in BOOLEAN /\ ev(j) \in Event BY <1>1, <1>2
  <2>3. QED BY <1>5, <2>1, <2>2 DEF Row
<1>8. QED BY <1>2, <1>4, <1>6, <1>7 DEF OutboxTyped

LEMMA PrepareSyncStep ==
  ASSUME Typed, NEW w \in Worker, PrepareSync(w)
  PROVE  /\ \E p : Moves(w, p) /\ p.pc \in {"superseded", "disabled", "failed", "ambiguous", "ready"}
         /\ OutboxTyped' /\ Jobs' = Jobs
         /\ \A j \in Jobs : /\ outbox'[j].status = outbox[j].status
                            /\ outbox'[j].attempts = outbox[j].attempts
<1> DEFINE k == worker[w].key
           q == IF outbox[k].event = NoEvent THEN KnownEvent ELSE outbox[k].event
           e == IF q = NoEvent THEN appointment.event ELSE q
           t == IF e = NoEvent THEN outbox[k].lane ELSE e
           pc == CASE ~StillCurrent(k) \/ ~PairOwned(k, e) -> "superseded"
                   [] StillCurrent(k) /\ PairOwned(k, e) /\ e # NoEvent /\ mirror[e] = "deleted"
                        -> "disabled"
                   [] OTHER -> IF mirror[outbox[k].lane] = "superseded" THEN "failed" ELSE "ready"
<1>1. worker[w].pc # "idle" /\ IsSync(k) BY DEF PrepareSync
<1>2. k \in Jobs /\ outbox[k] \in Row /\ outbox[k].lane \in Lane BY <1>1, AtWork
<1>3. q \in Event BY <1>2, KnownEventTyped DEF Row
<1>4. e \in Event BY <1>3 DEF Typed, AppointmentTyped, Appointment
<1>5. t \in Event /\ t \in Lane BY <1>2, <1>4 DEF Event
<1>6. \/ outbox' = outbox /\ (Go(w, "ambiguous") \/ Go(w, "failed"))
      \/ /\ outbox' = Pinned(k, q)
         /\ worker' = [worker EXCEPT ![w].event = e, ![w].target = t, ![w].pc = pc]
  BY DEF PrepareSync
<1>7. CASE outbox' = outbox /\ (Go(w, "ambiguous") \/ Go(w, "failed"))
  <2>1. PICK x \in {"ambiguous", "failed"} : Go(w, x) BY <1>7
  <2>2. x \in PC \ {"idle"} /\ x \notin Aiming BY DEF PC, Refused, Aiming, Asking, Writing
  <2>3. \E p : Moves(w, p) /\ p.pc = x BY <1>1, <2>1, <2>2, GoMoves
  <2>4. OutboxTyped' /\ Jobs' = Jobs BY <1>7 DEF Typed, OutboxTyped, Jobs
  <2>5. QED BY <1>7, <2>3, <2>4
<1>8. pc \in {"superseded", "disabled", "failed", "ambiguous", "ready"} OBVIOUS
<1> HIDE DEF q, e, t, pc
<1>9. pc \in PC \ {"idle"} BY <1>8 DEF PC, Answered, Refused
<1>10. CASE /\ outbox' = Pinned(k, q)
            /\ worker' = [worker EXCEPT ![w].event = e, ![w].target = t, ![w].pc = pc]
  <2>1. \E p : Moves(w, p) /\ p.pc = pc BY <1>1, <1>4, <1>5, <1>9, <1>10, NamedMoves
  <2>2. QED BY <1>1, <1>2, <1>3, <1>8, <1>10, <2>1, PinnedTyped DEF Typed
<1>11. QED BY <1>6, <1>7, <1>10

LEMMA PrepareDeleteStep ==
  ASSUME Typed, NEW w \in Worker, PrepareDelete(w)
  PROVE  \E p : Moves(w, p) /\ p.pc \in {"superseded", "disabled", "failed", "ambiguous", "ready"}
<1> DEFINE k == worker[w].key
           e == outbox[k].event
           moot == ~IsCleanup(k) /\ appointment.event # e /\ mirror[e] # "active"
           pc == IF ~StillCurrent(k) \/ ~PairOwned(k, e) \/ moot THEN "superseded"
                 ELSE IF mirror[e] = "deleted" /\ ~outbox[k].mirrored
                   THEN IF k[1] = "reconciliation" THEN "failed" ELSE "disabled"
                 ELSE "ready"
<1>1. worker[w].pc # "idle" /\ ~IsSync(k) BY DEF PrepareDelete
<1>2. k \in Jobs /\ outbox[k] \in Row BY <1>1, AtWork
<1>3. e \in Event /\ e \in Lane BY <1>1, <1>2 DEF Typed, OutboxTyped, Row, Event
<1>4. worker' = [worker EXCEPT ![w].event = e, ![w].target = e, ![w].pc = pc] BY DEF PrepareDelete
<1>5. pc \in {"superseded", "disabled", "failed", "ambiguous", "ready"} OBVIOUS
<1> HIDE DEF e, pc
<1>6. pc \in PC \ {"idle"} BY <1>5 DEF PC, Answered, Refused
<1>7. \E p : Moves(w, p) /\ p.pc = pc BY <1>1, <1>3, <1>4, <1>6, NamedMoves
<1>8. QED BY <1>5, <1>7

LEMMA LoseLeaseStep ==
  ASSUME Typed, NEW w \in Worker, LoseLease(w)
  PROVE  \E p : Moves(w, p) /\ p.pc \in {"failed", "busy"}
<1>1. worker[w].pc # "idle" BY DEF LoseLease
<1>2. PICK pc \in {"failed", "busy"} : Go(w, pc) BY DEF LoseLease
<1>3. pc \in PC \ {"idle"} /\ pc \notin Aiming BY DEF PC, Refused, Aiming, Asking, Writing
<1>4. QED BY <1>1, <1>2, <1>3, GoMoves

LEMMA DispatchStep ==
  ASSUME Typed, NEW w \in Worker, withGoogleCalendarDispatchLock(w)
  PROVE  \E p : /\ Moves(w, p)
                /\ \/ p.pc \in {"failed", "superseded"} /\ lock' = lock
                   \/ p.pc \in Asking /\ lock = NoWorker /\ lock' = w /\ Owns(w)
<1>1. worker[w].pc # "idle" /\ worker[w].pc \in Aiming
  BY DEF withGoogleCalendarDispatchLock, Aiming
<1>2. worker[w].target \in Lane BY <1>1, AtWork
<1>3. {"failed", "superseded", "creating", "reading"} \subseteq PC \ {"idle"}
      /\ {"creating", "reading"} \subseteq Asking
  BY DEF PC, Refused, Asking, Writing
<1>4. CASE (Go(w, "failed") \/ Go(w, "superseded")) /\ UNCHANGED lock
  <2>1. PICK pc \in {"failed", "superseded"} : Go(w, pc) BY <1>4
  <2>2. \E p : Moves(w, p) /\ p.pc = pc BY <1>1, <1>2, <1>3, <2>1, GoMoves
  <2>3. QED BY <1>4, <2>2
<1>5. CASE (Go(w, "creating") \/ Go(w, "reading")) /\ lock = NoWorker /\ Owns(w) /\ lock' = w
  <2>1. PICK pc \in {"creating", "reading"} : Go(w, pc) BY <1>5
  <2>2. \E p : Moves(w, p) /\ p.pc = pc BY <1>1, <1>2, <1>3, <2>1, GoMoves
  <2>3. QED BY <1>3, <1>5, <2>2
<1>6. QED BY <1>4, <1>5 DEF withGoogleCalendarDispatchLock

\* A finish changes its own row, and other jobs only join.
FinishStep(w) ==
  /\ worker[w].pc \in Answered \cup Refused \cup {"superseded"}
  /\ Moves(w, Idle)
  /\ UNCHANGED <<lock, google, wire, scan, faults>>
  /\ OutboxTyped' /\ Jobs \subseteq Jobs'
  /\ \A j \in Jobs : /\ outbox'[j].attempts = outbox[j].attempts
                     /\ j # worker[w].key => outbox'[j] = outbox[j]
  /\ outbox' = outbox \/ Owns(w)
  /\ AppointmentTyped' /\ MirrorTyped'

LEMMA EndedMoves ==
  ASSUME NEW w \in Worker, worker[w].pc # "idle", Ended(w)
  PROVE  Moves(w, Idle) /\ UNCHANGED <<lock, google, wire, scan, faults>>
BY IdleTyped DEF Ended, Moves

\* A refused attempt leaves its row to a retry or fails it, with a cleanup at most.
LEMMA FailureRows ==
  ASSUME NEW w \in Worker, finishGoogleJobFailure(w)
  PROVE  \E s \in {"failed", "retry"}, b \in BOOLEAN :
           \/ outbox' = Stamped(worker[w].key, s, b)
           \/ outbox' = WithCleanup(Stamped(worker[w].key, s, b), worker[w].key,
                                   outbox[worker[w].key].lane)
<1> DEFINE k == worker[w].key
           final == outbox[k].attempts >= MaxAttempts
           cleans == final /\ IsSync(k) /\ worker[w].pc # "ambiguous"
                       /\ ~(Newer(k) /\ outbox[k].pinned)
           undone == cleans /\ ~outbox[k].targeted
           b == worker[w].pc = "busy" /\ ~undone
           s == IF final THEN "failed" ELSE "retry"
<1>1. outbox' = IF cleans /\ ~undone THEN WithCleanup(Stamped(k, s, b), k, outbox[k].lane)
                                     ELSE Stamped(k, s, b)
  BY DEF finishGoogleJobFailure
<1>2. s \in {"failed", "retry"} OBVIOUS
<1>3. b \in BOOLEAN BY Zenon
<1> HIDE DEF cleans, undone, b, s
<1>4. QED BY <1>1, <1>2, <1>3

LEMMA FinishSteps ==
  ASSUME Typed, NEW w \in Worker, Finish(w) PROVE FinishStep(w)
<1> DEFINE k == worker[w].key
           e == worker[w].target
<1> USE DEF Typed
<1>1. worker[w].pc \in Answered \cup Refused \cup {"superseded"} /\ Ended(w)
  BY DEF Finish, FinishSynced, FinishDeleted, FinishDisabled, finishGoogleJobSuperseded,
         finishGoogleJobFailure, NotOwned, Done, Answered, Refused
<1>2. worker[w].pc # "idle" BY <1>1 DEF Answered, Refused
<1>3. Moves(w, Idle) /\ UNCHANGED <<lock, google, wire, scan, faults>>
  BY <1>1, <1>2, EndedMoves
<1>4. k \in Jobs /\ outbox[k] \in Row /\ outbox[k].lane \in Lane BY <1>2, AtWork
<1>5. ASSUME NEW s \in Status, outbox' = Settled(k, s)
      PROVE  /\ OutboxTyped' /\ Jobs \subseteq Jobs'
             /\ \A j \in Jobs : /\ outbox'[j].attempts = outbox[j].attempts
                                /\ j # k => outbox'[j] = outbox[j]
  BY <1>5, SettledTyped
<1>6. ASSUME NEW s \in Status, NEW b \in BOOLEAN, NEW f \in Lane,
             outbox' = WithCleanup(Stamped(k, s, b), k, f)
      PROVE  /\ OutboxTyped' /\ Jobs \subseteq Jobs'
             /\ \A j \in Jobs : /\ outbox'[j].attempts = outbox[j].attempts
                                /\ j # k => outbox'[j] = outbox[j]
  BY <1>4, <1>6, CleanupTyped
<1>7. {"completed", "cancelled", "failed", "retry"} \subseteq Status BY DEF Status
<1>8. CASE finishGoogleJobFailure(w)
  <2>1. Owns(w) /\ mirror' = mirror BY <1>8 DEF finishGoogleJobFailure, Done
  <2>2. AppointmentTyped'
    BY <1>8 DEF finishGoogleJobFailure, AppointmentTyped, Appointment
  <2>3. MirrorTyped' BY <2>1 DEF MirrorTyped
  <2>4. PICK s \in {"failed", "retry"}, b \in BOOLEAN :
          \/ outbox' = Stamped(k, s, b)
          \/ outbox' = WithCleanup(Stamped(k, s, b), k, outbox[k].lane)
    BY <1>8, FailureRows
  <2>5. CASE outbox' = Stamped(k, s, b)
    <3>1. /\ OutboxTyped' /\ Jobs' = Jobs
          /\ \A j \in Jobs : /\ outbox'[j].attempts = outbox[j].attempts
                             /\ j # k => outbox'[j] = outbox[j]
      BY <1>7, <2>5, StampedTyped
    <3>2. QED BY <1>1, <1>3, <2>1, <2>2, <2>3, <3>1 DEF FinishStep
  <2>6. CASE outbox' = WithCleanup(Stamped(k, s, b), k, outbox[k].lane)
    BY <1>1, <1>3, <1>4, <1>6, <1>7, <2>1, <2>2, <2>3, <2>6 DEF FinishStep
  <2>7. QED BY <2>4, <2>5, <2>6
<1>9. CASE finishGoogleJobSuperseded(w)
  <2>1. /\ Owns(w) /\ mirror' = mirror /\ appointment' = appointment
        /\ outbox' = Settled(k, "cancelled")
    BY <1>9 DEF finishGoogleJobSuperseded, Done
  <2>2. MirrorTyped' /\ AppointmentTyped' BY <2>1 DEF MirrorTyped, AppointmentTyped
  <2>3. QED BY <1>1, <1>3, <1>5, <1>7, <2>1, <2>2 DEF FinishStep
<1>10. CASE FinishSynced(w)
  <2>1. Owns(w) /\ worker[w].pc \in Aiming BY <1>10 DEF FinishSynced, Done, Aiming
  <2>2. e \in Lane BY <1>2, <2>1, AtWork
  <2>3. MirrorOf(e) \in [Lane -> MirrorState]
    BY DEF MirrorOf, MirrorTyped, MirrorState
  <2>4. MirrorTyped' BY <1>10, <2>3 DEF FinishSynced, MirrorTyped
  <2>5. AppointmentTyped'
    BY <1>10, <2>2 DEF FinishSynced, AppointmentTyped, Appointment, Event
  <2>6. \/ \E s \in {"completed", "cancelled"} : outbox' = Settled(k, s)
        \/ outbox' = WithCleanup(Stamped(k, "completed", FALSE), k, e)
    BY <1>10 DEF FinishSynced, Settled
  <2>7. QED BY <1>1, <1>3, <1>5, <1>6, <1>7, <2>1, <2>2, <2>4, <2>5, <2>6 DEF FinishStep
<1>11. CASE FinishDeleted(w)
  <2> DEFINE keeps == NewerSyncWaits(k) /\ appointment.active
             m == IF ~keeps /\ mirror[e] = "active" THEN "deleted" ELSE mirror[e]
  <2>1. Owns(w) /\ worker[w].pc \in Aiming /\ outbox' = Settled(k, "completed")
    BY <1>11 DEF FinishDeleted, Done, Aiming
  <2>2. e \in Lane BY <1>2, <2>1, AtWork
  <2>3. m \in MirrorState BY <2>2 DEF MirrorTyped, MirrorState
  <2>4. mirror' = [mirror EXCEPT ![e] = m] BY <1>11 DEF FinishDeleted
  <2> HIDE DEF m
  <2>5. MirrorTyped' BY <2>3, <2>4 DEF MirrorTyped
  <2>6. appointment' \in {[appointment EXCEPT !.event = NoEvent, !.sync = "deleted"], appointment}
    BY <1>11 DEF FinishDeleted
  <2>7. AppointmentTyped' BY <2>6 DEF AppointmentTyped, Appointment, Event
  <2>8. QED BY <1>1, <1>3, <1>5, <1>7, <2>1, <2>5, <2>7 DEF FinishStep
<1>12. CASE FinishDisabled(w)
  <2>1. Owns(w) /\ mirror' = mirror /\ outbox' = Settled(k, "completed")
    BY <1>12 DEF FinishDisabled, Done
  <2>2. appointment' \in {[appointment EXCEPT !.sync = "not_synced"], appointment}
    BY <1>12 DEF FinishDisabled
  <2>3. MirrorTyped' /\ AppointmentTyped'
    BY <2>1, <2>2 DEF MirrorTyped, AppointmentTyped, Appointment
  <2>4. QED BY <1>1, <1>3, <1>5, <1>7, <2>1, <2>3 DEF FinishStep
<1>13. CASE NotOwned(w)
  <2>1. UNCHANGED <<appointment, outbox, mirror>> BY <1>13 DEF NotOwned
  <2>2. OutboxTyped' /\ Jobs' = Jobs /\ MirrorTyped' /\ AppointmentTyped'
    BY <2>1 DEF OutboxTyped, MirrorTyped, AppointmentTyped, Jobs
  <2>3. QED BY <1>1, <1>3, <2>1, <2>2 DEF FinishStep
<1>14. QED BY <1>8, <1>9, <1>10, <1>11, <1>12, <1>13 DEF Finish

\* What can go wrong in an invocation.
LEMMA FaultSteps ==
  ASSUME Typed, NEW w \in Worker, Fail(w) \/ Crash(w) \/ LoseAnswer(w)
  PROVE  /\ \E p : Moves(w, p) /\ p.pc \in {"failed", "busy", "idle"}
         /\ lock' = Release(w) /\ WireTyped' /\ FaultsTyped'
         /\ UNCHANGED <<appointment, outbox, mirror, google, scan>>
<1> USE DEF Typed
<1>1. worker[w].pc # "idle" BY DEF Fail, Crash, LoseAnswer, Asking, Writing, Answered
<1>2. FaultsTyped' BY Numbers DEF Fail, Crash, LoseAnswer, Fault, FaultsTyped
<1>3. lock' = Release(w) /\ UNCHANGED <<appointment, outbox, mirror, google, scan>>
  BY DEF Fail, Crash, LoseAnswer
<1>4. \/ \E pc \in {"failed", "busy"} : Go(w, pc)
      \/ worker' = [worker EXCEPT ![w] = Idle]
  BY DEF Fail, Crash, LoseAnswer
<1>5. ASSUME NEW pc \in {"failed", "busy"}, Go(w, pc) PROVE \E p : Moves(w, p) /\ p.pc = pc
  <2>1. pc \in PC \ {"idle"} /\ pc \notin Aiming BY DEF PC, Refused, Aiming, Asking, Writing
  <2>2. QED BY <1>1, <1>5, <2>1, GoMoves
<1>6. ASSUME worker' = [worker EXCEPT ![w] = Idle] PROVE Moves(w, Idle) /\ Idle.pc = "idle"
  BY <1>1, <1>6, IdleTyped DEF Moves
<1>7. WireTyped'
  <2>1. CASE Fail(w) \/ Crash(w) BY <2>1 DEF Fail, Crash, WireTyped
  <2>2. CASE LoseAnswer(w)
    <3>1. worker[w].pc \in Aiming BY <2>2 DEF LoseAnswer, Aiming, Asking
    <3>2. /\ worker[w].key \in Key /\ worker[w].target \in Lane /\ worker[w].etag \in Nat
          /\ Method(w) \in {"POST", "PATCH", "DELETE"}
      BY <1>1, <3>1, AtWork DEF Process, Method
    <3>3. QED BY <2>2, <3>2 DEF LoseAnswer, WireTyped, Request
  <2>3. QED BY <2>1, <2>2
<1>8. QED BY <1>2, <1>3, <1>4, <1>5, <1>6, <1>7

(***************************************************************************)
(* The steps outside the invocations.                                      *)
(***************************************************************************)
\* A change of the appointment and a repair add at most a job.
LEMMA ChangeSteps ==
  ASSUME Typed, Edit \/ Cancel \/ Reactivate
  PROVE  /\ AppointmentTyped' /\ OutboxTyped' /\ Jobs \subseteq Jobs'
         /\ \A j \in Jobs : outbox'[j] = outbox[j]
         /\ UNCHANGED <<mirror, worker, lock, google, wire, scan, faults>>
<1> USE DEF Typed
<1> DEFINE r == appointment.rev + 1
<1>1. CASE Edit \/ Reactivate
  <2>1. enqueueGoogleCalendarAppointmentMutation BY <1>1 DEF Edit, Reactivate
  <2>2. PICK c \in BOOLEAN :
          /\ r \in Revision /\ UNCHANGED <<mirror, worker, lock, google, wire, scan, faults>>
          /\ outbox' = Insert(SyncKey(r), NewRow(KnownEvent, LaneAt(r), c \/ Linked # {}, FALSE))
    BY <2>1 DEF enqueueGoogleCalendarAppointmentMutation
  <2>3. AppointmentTyped'
    BY <2>1, <2>2 DEF enqueueGoogleCalendarAppointmentMutation, AppointmentTyped, Appointment
  <2>4. SyncKey(r) \in Key /\ IsSync(SyncKey(r))
    BY <2>2 DEF SyncKey, IsSync, Key, Kind, Event
  <2> DEFINE t == c \/ Linked # {}
  <2>5. t \in BOOLEAN BY Zenon
  <2>6. outbox' = Insert(SyncKey(r), NewRow(KnownEvent, LaneAt(r), t, FALSE)) BY <2>2
  <2> HIDE DEF t
  <2>7. NewRow(KnownEvent, LaneAt(r), t, FALSE) \in Row
    BY <2>5, KnownEventTyped, LaneAtTyped, NewRowTyped
  <2>8. QED BY <2>2, <2>3, <2>4, <2>6, <2>7, InsertTyped
<1>2. CASE Cancel
  <2>1. r \in Revision /\ UNCHANGED <<mirror, worker, lock, google, wire, scan, faults>>
    BY <1>2 DEF Cancel
  <2>2. appointment' \in {[appointment EXCEPT !.active = FALSE, !.rev = r],
                          [appointment EXCEPT !.active = FALSE, !.rev = r, !.sync = "pending"]}
    BY <1>2 DEF Cancel
  <2>3. AppointmentTyped' BY <2>1, <2>2 DEF AppointmentTyped, Appointment
  <2>4. CASE outbox' = outbox
    BY <2>1, <2>3, <2>4 DEF OutboxTyped, Jobs
  <2>5. CASE KnownEvent # NoEvent /\ outbox' = Insert(TerminalKey(r), NewRow(KnownEvent, 0, TRUE, FALSE))
    <3>1. TerminalKey(r) \in Key
      BY <2>1 DEF TerminalKey, Key, Kind, Event
    <3>2. NewRow(KnownEvent, 0, TRUE, FALSE) \in Row /\ NewRow(KnownEvent, 0, TRUE, FALSE).event # NoEvent
      BY <2>5, Numbers, KnownEventTyped, NewRowTyped
    <3>3. QED BY <2>1, <2>3, <2>5, <3>1, <3>2, InsertTyped
  <2>6. QED BY <1>2, <2>4, <2>5 DEF Cancel
<1>3. QED BY <1>1, <1>2

LEMMA RepairStep ==
  ASSUME Typed, enqueueGoogleCalendarReconciliationDelete
  PROVE  /\ ScanTyped' /\ OutboxTyped' /\ Jobs \subseteq Jobs'
         /\ \A j \in Jobs : outbox'[j] = outbox[j]
         /\ UNCHANGED <<appointment, mirror, worker, lock, google, wire, faults>>
<1> USE DEF Typed
<1> DEFINE k == <<"reconciliation", scan.rev, scan.event>>
           row == NewRow(scan.event, 0, TRUE, scan.mirrored)
<1>1. outbox' = Insert(k, row) /\ scan' = NoScan
      /\ UNCHANGED <<appointment, mirror, worker, lock, google, wire, faults>>
  BY DEF enqueueGoogleCalendarReconciliationDelete
<1>2. scan.event \in Lane /\ scan.rev \in Revision /\ scan.mirrored \in BOOLEAN
  BY DEF enqueueGoogleCalendarReconciliationDelete, ScanTyped, Found
<1>3. k \in Key BY <1>2 DEF Key, Kind, Event
<1>4. row \in Row /\ row.event # NoEvent
  <2>1. scan.event \in Event /\ scan.event # NoEvent /\ 0 \in Lane BY <1>2, Numbers DEF Event
  <2>2. row \in Row /\ row.event = scan.event BY <1>2, <2>1, NewRowTyped
  <2>3. QED BY <2>1, <2>2
<1> HIDE DEF k, row
<1>5. ScanTyped' BY <1>1 DEF ScanTyped
<1>6. QED BY <1>1, <1>3, <1>4, <1>5, InsertTyped

\* A job that is claimed or reclaimed keeps all but its status and its count.
LEMMA ClaimStep ==
  ASSUME Typed, NEW w \in Worker, NEW k \in Jobs, claimIntegrationOutboxJob(w, k)
  PROVE  /\ OutboxTyped' /\ Jobs' = Jobs
         /\ outbox'[k].status = "processing" /\ outbox'[k].attempts = outbox[k].attempts + 1
         /\ \A j \in Jobs : j # k => outbox'[j] = outbox[j]
         /\ worker'[w].pc = "claimed" /\ worker'[w].key = k
         /\ worker'[w].attempt = outbox[k].attempts + 1
         /\ \A v \in Worker : v # w => worker'[v] = worker[v]
         /\ WorkerTyped'
         /\ UNCHANGED <<appointment, mirror, lock, google, wire, scan, faults>>
<1> USE DEF Typed
<1> DEFINE n == outbox[k].attempts + 1
           row == [outbox[k] EXCEPT !.status = "processing", !.attempts = n]
           p == [Idle EXCEPT !.pc = "claimed", !.key = k, !.attempt = n]
<1>1. k \in Key /\ outbox[k] \in Row /\ (~IsSync(k) => outbox[k].event # NoEvent)
  BY DEF OutboxTyped
<1>2. n \in Nat BY <1>1 DEF Row
<1> HIDE DEF n
<1>3. row \in Row /\ row.status = "processing" /\ row.attempts = n /\ row.event = outbox[k].event
  BY <1>1, <1>2 DEF Row
<1>4. p \in Process /\ p.pc = "claimed" /\ p.key = k /\ p.attempt = n
  BY <1>1, <1>2, IdleTyped DEF Process
<1>5. outbox' = [outbox EXCEPT ![k] = row]
  BY DEF claimIntegrationOutboxJob, n
<1>6. worker' = [worker EXCEPT ![w] = p] BY DEF claimIntegrationOutboxJob, n
<1> HIDE DEF row, p
<1>7. Jobs' = Jobs BY <1>5 DEF Jobs
<1>8. \A j \in Jobs : outbox'[j] = IF j = k THEN row ELSE outbox[j]
  BY <1>5 DEF OutboxTyped
<1>9. outbox' = [j \in Jobs' |-> outbox'[j]] BY <1>5, <1>7 DEF OutboxTyped
<1>10. OutboxTyped' BY <1>1, <1>3, <1>7, <1>8, <1>9 DEF OutboxTyped
<1>11. worker'[w] = p /\ \A v \in Worker : v # w => worker'[v] = worker[v]
  BY <1>6 DEF WorkerTyped
<1>12. worker' \in [Worker -> Process] BY <1>4, <1>6 DEF WorkerTyped
<1>13. WorkerTyped'
  BY <1>4, <1>7, <1>11, <1>12 DEF WorkerTyped, Aiming, Asking, Writing
<1>14. QED BY <1>3, <1>4, <1>7, <1>8, <1>10, <1>11, <1>13 DEF claimIntegrationOutboxJob, n

LEMMA ReclaimStep ==
  ASSUME Typed, NEW k \in Jobs, reclaimStaleGoogleCalendarJob(k)
  PROVE  /\ OutboxTyped' /\ Jobs' = Jobs /\ FaultsTyped'
         /\ \A j \in Jobs : outbox'[j].attempts = outbox[j].attempts
         /\ UNCHANGED <<appointment, mirror, worker, lock, google, wire, scan>>
<1> USE DEF Typed
<1>1. outbox' = Settled(k, "retry") /\ "retry" \in Status
  BY DEF reclaimStaleGoogleCalendarJob, Settled, Status
<1>2. FaultsTyped' BY Numbers DEF reclaimStaleGoogleCalendarJob, FaultsTyped
<1>3. QED BY <1>1, <1>2, SettledTyped DEF reclaimStaleGoogleCalendarJob

LEMMA LandStep ==
  ASSUME Typed, NEW q \in wire, Land(q)
  PROVE  /\ q.event \in Lane
         /\ \/ google' = Written(q.event, RevOf(q.key))
            \/ google' = Removed(q.event)
            \/ google' = google
         /\ GoogleTyped' /\ WireTyped'
         /\ UNCHANGED <<appointment, outbox, mirror, worker, lock, scan, faults>>
<1> USE DEF Typed
<1>1. q \in Request /\ q.event \in Lane /\ q.key \in Key BY DEF WireTyped, Request
<1>2. RevOf(q.key) \in 0 .. MaxRevision BY <1>1, KeyParts
<1>3. \/ google' = Written(q.event, RevOf(q.key))
      \/ google' = Removed(q.event)
      \/ google' = google
  BY DEF Land
<1>4. GoogleTyped'
  <2>1. CASE google' = Written(q.event, RevOf(q.key))
    BY <1>1, <1>2, <2>1, WrittenTyped DEF GoogleTyped
  <2>2. CASE google' = Removed(q.event) BY <1>1, <2>2, RemovedTyped DEF GoogleTyped
  <2>3. CASE google' = google BY <2>3 DEF GoogleTyped
  <2>4. QED BY <1>3, <2>1, <2>2, <2>3
<1>5. WireTyped' BY DEF Land, WireTyped
<1>6. QED BY <1>1, <1>3, <1>4, <1>5 DEF Land

(***************************************************************************)
(* The types are an invariant.                                             *)
(***************************************************************************)
LEMMA InitTyped == Init => Typed
<1> SUFFICES ASSUME Init PROVE Typed OBVIOUS
<1> USE DEF Init
<1>1. OutboxTyped /\ Jobs = {SyncKey(1)}
  <2>1. PICK c \in BOOLEAN : outbox = [k \in {SyncKey(1)} |-> NewRow(NoEvent, 0, c, FALSE)]
    OBVIOUS
  <2>2. NewRow(NoEvent, 0, c, FALSE) \in Row BY Numbers, NewRowTyped DEF Event
  <2>3. IsSync(SyncKey(1)) BY DEF IsSync, SyncKey
  <2>4. QED BY <2>1, <2>2, <2>3, IdleTyped DEF OutboxTyped, Jobs
<1>2. WorkerTyped BY IdleTyped DEF WorkerTyped, Aiming, Asking, Writing
<1>3. AppointmentTyped BY Numbers DEF AppointmentTyped, Appointment, Event
<1>4. MirrorTyped /\ LockTyped /\ WireTyped /\ ScanTyped /\ FaultsTyped
  BY Numbers DEF MirrorTyped, MirrorState, LockTyped, WireTyped, ScanTyped, FaultsTyped
<1>5. GoogleTyped
  <2>1. [rev |-> 0, etag |-> 0] \in EventAtGoogle BY Numbers DEF EventAtGoogle
  <2>2. QED BY <2>1 DEF GoogleTyped
<1>6. QED BY <1>1, <1>2, <1>3, <1>4, <1>5 DEF Typed

LEMMA StutterTyped ==
  /\ AppointmentTyped /\ UNCHANGED appointment => AppointmentTyped'
  /\ MirrorTyped /\ UNCHANGED mirror => MirrorTyped'
  /\ LockTyped /\ UNCHANGED lock => LockTyped'
  /\ GoogleTyped /\ UNCHANGED google => GoogleTyped'
  /\ WireTyped /\ UNCHANGED wire => WireTyped'
  /\ ScanTyped /\ UNCHANGED scan => ScanTyped'
  /\ FaultsTyped /\ UNCHANGED faults => FaultsTyped'
  /\ OutboxTyped /\ UNCHANGED outbox => OutboxTyped' /\ Jobs' = Jobs
  /\ WorkerTyped /\ UNCHANGED worker /\ Jobs \subseteq Jobs' => WorkerTyped'
BY DEF AppointmentTyped, MirrorTyped, LockTyped, GoogleTyped, WireTyped, ScanTyped, FaultsTyped,
       OutboxTyped, Jobs, WorkerTyped

LEMMA WorkTyped ==
  ASSUME Typed, NEW w \in Worker, Work(w) PROVE Typed'
<1> USE DEF Typed
<1>1. CASE PrepareSync(w)
  <2>1. UNCHANGED <<appointment, mirror, lock, google, wire, scan, faults>> BY <1>1 DEF PrepareSync
  <2>2. OutboxTyped' /\ WorkerTyped' BY <1>1, PrepareSyncStep, MoveTyped
  <2>3. QED BY <2>1, <2>2, StutterTyped
<1>2. CASE PrepareDelete(w)
  <2>1. UNCHANGED <<appointment, outbox, mirror, lock, google, wire, scan, faults>>
    BY <1>2 DEF PrepareDelete
  <2>2. Jobs' = Jobs BY <2>1, StutterTyped
  <2>3. WorkerTyped' BY <1>2, <2>2, PrepareDeleteStep, MoveTyped
  <2>4. QED BY <2>1, <2>3, StutterTyped
<1>3. CASE LoseLease(w)
  <2>1. UNCHANGED <<appointment, outbox, mirror, lock, google, wire, scan, faults>>
    BY <1>3 DEF LoseLease
  <2>2. Jobs' = Jobs BY <2>1, StutterTyped
  <2>3. WorkerTyped' BY <1>3, <2>2, LoseLeaseStep, MoveTyped
  <2>4. QED BY <2>1, <2>3, StutterTyped
<1>4. CASE withGoogleCalendarDispatchLock(w)
  <2>1. UNCHANGED <<appointment, outbox, mirror, google, wire, scan, faults>>
    BY <1>4 DEF withGoogleCalendarDispatchLock
  <2>2. Jobs' = Jobs BY <2>1, StutterTyped
  <2>3. PICK p : Moves(w, p) /\ lock' \in {lock, w} BY <1>4, DispatchStep
  <2>4. WorkerTyped' BY <2>2, <2>3, MoveTyped
  <2>5. LockTyped' BY <2>3 DEF LockTyped
  <2>6. QED BY <2>1, <2>4, <2>5, StutterTyped
<1>5. CASE AtGoogle(w)
  <2>1. AtGoogleStep(w) BY <1>5, AtGoogleSteps
  <2>2. UNCHANGED <<appointment, outbox, mirror, wire, scan, faults>> /\ GoogleTyped'
    BY <2>1 DEF AtGoogleStep
  <2>3. Jobs' = Jobs BY <2>2, StutterTyped
  <2>4. PICK p : Moves(w, p) /\ lock' \in {lock, NoWorker} BY <2>1 DEF AtGoogleStep
  <2>5. WorkerTyped' BY <2>3, <2>4, MoveTyped
  <2>6. LockTyped' BY <2>4 DEF LockTyped
  <2>7. QED BY <2>2, <2>5, <2>6, StutterTyped
<1>6. CASE Finish(w)
  <2>1. FinishStep(w) BY <1>6, FinishSteps
  <2>2. /\ Moves(w, Idle) /\ OutboxTyped' /\ Jobs \subseteq Jobs' /\ AppointmentTyped' /\ MirrorTyped'
        /\ UNCHANGED <<lock, google, wire, scan, faults>>
    BY <2>1 DEF FinishStep
  <2>3. WorkerTyped' BY <2>2, MoveTyped
  <2>4. QED BY <2>2, <2>3, StutterTyped
<1>7. QED BY <1>1, <1>2, <1>3, <1>4, <1>5, <1>6 DEF Work

LEMMA NextTyped ==
  ASSUME Typed, [Next]_vars PROVE Typed'
<1> USE DEF Typed
<1>1. CASE Edit \/ Cancel \/ Reactivate
  BY <1>1, ChangeSteps, StutterTyped
<1>2. ASSUME NEW w \in Worker, NEW k \in Jobs, claimIntegrationOutboxJob(w, k) PROVE Typed'
  BY <1>2, ClaimStep, StutterTyped
<1>3. ASSUME NEW w \in Worker, Work(w) PROVE Typed'
  BY <1>3, WorkTyped
<1>4. ASSUME NEW w \in Worker, Fail(w) \/ Crash(w) \/ LoseAnswer(w) PROVE Typed'
  <2>1. PICK p : Moves(w, p) BY <1>4, FaultSteps
  <2>2. /\ lock' = Release(w) /\ WireTyped' /\ FaultsTyped'
        /\ UNCHANGED <<appointment, outbox, mirror, google, scan>>
    BY <1>4, FaultSteps
  <2>3. LockTyped' BY <2>2 DEF LockTyped, Release
  <2>4. Jobs' = Jobs BY <2>2, StutterTyped
  <2>5. WorkerTyped' BY <2>1, <2>4, MoveTyped
  <2>6. QED BY <2>2, <2>3, <2>5, StutterTyped
<1>5. ASSUME NEW k \in Jobs, reclaimStaleGoogleCalendarJob(k) PROVE Typed'
  BY <1>5, ReclaimStep, StutterTyped
<1>6. ASSUME NEW q \in wire, Land(q) PROVE Typed'
  BY <1>6, LandStep, StutterTyped
<1>7. ASSUME NEW q \in wire, Drop(q) PROVE Typed'
  <2>1. WireTyped' BY <1>7 DEF Drop, WireTyped
  <2>2. UNCHANGED <<appointment, outbox, mirror, worker, lock, google, scan, faults>> BY <1>7 DEF Drop
  <2>3. QED BY <2>1, <2>2, StutterTyped
<1>8. ASSUME NEW e \in Lane, Scan(e) PROVE Typed'
  <2>1. scan' \in Found
    <3>1. PICK m \in MirrorNamed(e) :
            scan' = [event |-> e, rev |-> appointment.rev, mirrored |-> m]
      BY <1>8 DEF Scan
    <3>2. m \in BOOLEAN BY DEF MirrorNamed
    <3>3. QED BY <3>1, <3>2 DEF Found, AppointmentTyped, Appointment
  <2>2. ScanTyped' BY <2>1 DEF ScanTyped
  <2>3. UNCHANGED <<appointment, outbox, mirror, worker, lock, google, wire, faults>> BY <1>8 DEF Scan
  <2>4. QED BY <2>2, <2>3, StutterTyped
<1>9. CASE enqueueGoogleCalendarReconciliationDelete
  BY <1>9, RepairStep, StutterTyped
<1>10. CASE UNCHANGED vars
  BY <1>10, StutterTyped DEF vars
<1>11. QED BY <1>1, <1>2, <1>3, <1>4, <1>5, <1>6, <1>7, <1>8, <1>9, <1>10 DEF Next

LEMMA AlwaysTyped == Spec => []Typed
<1>1. Init => Typed BY InitTyped
<1>2. Typed /\ [Next]_vars => Typed' BY NextTyped
<1>3. QED BY <1>1, <1>2, PTL DEF Spec

(***************************************************************************)
(* The types: every deletion names an event, every row is a row of the     *)
(* table, and an invocation is at a place it can be.                       *)
(***************************************************************************)
THEOREM TypeCorrect == Spec => []TypeOK
<1>1. Typed => TypeOK BY TypedIsTypeOK
<1>2. QED BY <1>1, AlwaysTyped, PTL

(***************************************************************************)
(* Whoever holds the lock owns the job.                                    *)
(***************************************************************************)
Busy(w) == worker[w].pc # "idle"

\* No invocation is ahead of its row, and a row's attempt is one invocation's.
Behind == \A w \in Worker : Busy(w) => worker[w].attempt <= outbox[worker[w].key].attempts
Lone ==
  \A v, w \in Worker :
    Busy(v) /\ Busy(w) /\ worker[v].key = worker[w].key /\ worker[v].attempt = worker[w].attempt
      => v = w

\* The lock is held exactly while Google is asked.
Locked == \A w \in Worker : lock = w <=> worker[w].pc \in Asking

Control == Behind /\ Lone /\ Locked /\ LeaseIsHeld

LEMMA HolderBusy ==
  ASSUME Control, NEW w \in Worker, lock = w PROVE Busy(w) /\ Owns(w)
BY DEF Control, Locked, LeaseIsHeld, Busy, Asking, Writing

\* A step that claims nothing: rows keep their count, invocations their attempt,
\* and whoever holds the lock owned its job before, which keeps its status.
LEMMA QuietControl ==
  ASSUME Typed, Control, Jobs \subseteq Jobs',
         \A j \in Jobs : outbox'[j].attempts = outbox[j].attempts,
         \A w \in Worker : worker'[w].pc # "idle" =>
           /\ Busy(w)
           /\ worker'[w].key = worker[w].key /\ worker'[w].attempt = worker[w].attempt,
         \A w \in Worker : lock' = w <=> worker'[w].pc \in Asking,
         \A w \in Worker : lock' = w =>
           /\ Owns(w)
           /\ outbox'[worker[w].key].status = outbox[worker[w].key].status
  PROVE  Control'
<1>1. \A w \in Worker : Busy(w) => worker[w].key \in Jobs
  BY DEF Typed, WorkerTyped, Busy
<1>2. Behind' BY <1>1 DEF Control, Behind, Busy
<1>3. Lone' BY DEF Control, Lone, Busy
<1>4. Locked' BY DEF Locked
<1>5. ASSUME NEW w \in Worker, lock' = w PROVE Owns(w)'
  <2>1. worker'[w].pc # "idle" BY <1>5 DEF Asking, Writing
  <2>2. /\ Busy(w) /\ worker'[w].key = worker[w].key /\ worker'[w].attempt = worker[w].attempt
    BY <2>1
  <2>3. worker[w].key \in Jobs BY <1>1, <2>2
  <2>4. QED BY <1>5, <2>2, <2>3 DEF Owns
<1>6. LeaseIsHeld' BY <1>5 DEF LeaseIsHeld
<1>7. QED BY <1>2, <1>3, <1>4, <1>6 DEF Control

\* The same for a step of one invocation that goes on or is over.
LEMMA MoveControl ==
  ASSUME Typed, Control, NEW w \in Worker, NEW p, Moves(w, p), Jobs \subseteq Jobs',
         \A j \in Jobs : outbox'[j].attempts = outbox[j].attempts,
         \A v \in Worker : lock' = v =>
           outbox'[worker[v].key].status = outbox[worker[v].key].status,
         \/ p.pc \in Asking /\ lock' = w /\ (lock = w \/ (lock = NoWorker /\ Owns(w)))
         \/ p.pc \notin Asking /\ worker[w].pc \notin Asking /\ lock' = lock
         \/ p.pc \notin Asking /\ lock' = NoWorker /\ lock \in {w, NoWorker}
  PROVE  Control'
<1>1. worker'[w] = p /\ \A v \in Worker : v # w => worker'[v] = worker[v]
  BY MoveTyped DEF Typed
<1>2. ASSUME NEW v \in Worker, worker'[v].pc # "idle"
      PROVE  /\ Busy(v)
             /\ worker'[v].key = worker[v].key /\ worker'[v].attempt = worker[v].attempt
  BY <1>1, <1>2 DEF Moves, Busy
<1>3. ASSUME NEW v \in Worker PROVE lock' = v <=> worker'[v].pc \in Asking
  BY <1>1, Numbers DEF Control, Locked
<1>4. ASSUME NEW v \in Worker, lock' = v PROVE Owns(v)
  BY <1>4, Numbers DEF Control, LeaseIsHeld
<1>5. QED BY <1>2, <1>3, <1>4, QuietControl

LEMMA WorkControl ==
  ASSUME Typed, Control, NEW w \in Worker, Work(w) PROVE Control'
<1>1. CASE PrepareSync(w)
  <2>1. lock' = lock /\ worker[w].pc \notin Asking BY <1>1 DEF PrepareSync, Asking, Writing
  <2>2. PICK p : Moves(w, p) /\ p.pc \in {"superseded", "disabled", "failed", "ambiguous", "ready"}
    BY <1>1, PrepareSyncStep
  <2>3. p.pc \notin Asking BY <2>2 DEF Asking, Writing
  <2>4. Jobs' = Jobs /\ \A j \in Jobs : /\ outbox'[j].status = outbox[j].status
                                        /\ outbox'[j].attempts = outbox[j].attempts
    BY <1>1, PrepareSyncStep
  <2>5. \A v \in Worker : lock = v => worker[v].key \in Jobs
    BY HolderBusy, AtWork DEF Busy
  <2>6. QED BY <2>1, <2>2, <2>3, <2>4, <2>5, MoveControl
<1>2. CASE PrepareDelete(w)
  <2>1. lock' = lock /\ outbox' = outbox /\ worker[w].pc \notin Asking
    BY <1>2 DEF PrepareDelete, Asking, Writing
  <2>2. PICK p : Moves(w, p) /\ p.pc \in {"superseded", "disabled", "failed", "ambiguous", "ready"}
    BY <1>2, PrepareDeleteStep
  <2>3. p.pc \notin Asking BY <2>2 DEF Asking, Writing
  <2>4. Jobs' = Jobs BY <2>1 DEF Jobs
  <2>5. QED BY <2>1, <2>2, <2>3, <2>4, MoveControl
<1>3. CASE LoseLease(w)
  <2>1. lock' = lock /\ outbox' = outbox /\ worker[w].pc \notin Asking
    BY <1>3 DEF LoseLease, Asking, Writing
  <2>2. PICK p : Moves(w, p) /\ p.pc \in {"failed", "busy"} BY <1>3, LoseLeaseStep
  <2>3. p.pc \notin Asking BY <2>2 DEF Asking, Writing
  <2>4. Jobs' = Jobs BY <2>1 DEF Jobs
  <2>5. QED BY <2>1, <2>2, <2>3, <2>4, MoveControl
<1>4. CASE withGoogleCalendarDispatchLock(w)
  <2>1. outbox' = outbox /\ worker[w].pc \notin Asking
    BY <1>4 DEF withGoogleCalendarDispatchLock, Asking, Writing
  <2>2. Jobs' = Jobs BY <2>1 DEF Jobs
  <2>3. PICK p : /\ Moves(w, p)
                 /\ \/ p.pc \in {"failed", "superseded"} /\ lock' = lock
                    \/ p.pc \in Asking /\ lock = NoWorker /\ lock' = w /\ Owns(w)
    BY <1>4, DispatchStep
  <2>4. p.pc \in {"failed", "superseded"} => p.pc \notin Asking BY DEF Asking, Writing
  <2>5. QED BY <2>1, <2>2, <2>3, <2>4, MoveControl
<1>5. CASE AtGoogle(w)
  <2>1. AtGoogleStep(w) BY <1>5, AtGoogleSteps
  <2>2. outbox' = outbox BY <2>1 DEF AtGoogleStep
  <2>3. lock = w
    BY <1>5 DEF Control, Locked, AtGoogle, ReadForSync, Create, ReadConflicting, Patch, Refresh,
                ReadForDelete, Delete, Asking, Writing
  <2>4. Jobs' = Jobs BY <2>2 DEF Jobs
  <2>5. PICK p : /\ Moves(w, p)
                 /\ \/ p.pc \in Asking /\ lock' = lock
                    \/ p.pc \in {"synced", "deleted", "failed"} /\ lock' = NoWorker
    BY <2>1 DEF AtGoogleStep
  <2>6. p.pc \in {"synced", "deleted", "failed"} => p.pc \notin Asking BY DEF Asking, Writing
  <2>7. \/ p.pc \in Asking /\ lock' = w /\ (lock = w \/ (lock = NoWorker /\ Owns(w)))
        \/ p.pc \notin Asking /\ lock' = NoWorker /\ lock \in {w, NoWorker}
    BY <2>3, <2>5, <2>6
  <2>8. /\ \A j \in Jobs : outbox'[j].attempts = outbox[j].attempts
        /\ \A v \in Worker : outbox'[worker[v].key].status = outbox[worker[v].key].status
    BY <2>2
  <2>9. QED BY <2>4, <2>5, <2>7, <2>8, MoveControl
<1>6. CASE Finish(w)
  <2>1. FinishStep(w) BY <1>6, FinishSteps
  <2>2. /\ Moves(w, Idle) /\ Jobs \subseteq Jobs' /\ lock' = lock
        /\ \A j \in Jobs : /\ outbox'[j].attempts = outbox[j].attempts
                           /\ j # worker[w].key => outbox'[j] = outbox[j]
        /\ outbox' = outbox \/ Owns(w)
    BY <2>1 DEF FinishStep
  <2>3. worker[w].pc \notin Asking /\ Busy(w)
    BY <2>1 DEF FinishStep, Answered, Refused, Asking, Writing, Busy
  <2>4. Idle.pc \notin Asking BY IdleTyped DEF Asking, Writing
  <2>5. ASSUME NEW v \in Worker, lock = v
        PROVE  outbox'[worker[v].key].status = outbox[worker[v].key].status
    <3>1. v # w BY <2>3, <2>5 DEF Control, Locked
    <3>2. Busy(v) /\ Owns(v) BY <2>5, HolderBusy
    <3>3. worker[v].key \in Jobs BY <3>2, AtWork DEF Busy
    <3>4. Owns(w) => worker[v].key # worker[w].key
      BY <2>3, <3>1, <3>2 DEF Owns, Control, Lone
    <3>5. QED BY <2>2, <3>3, <3>4
  <2>6. QED BY <2>2, <2>3, <2>4, <2>5, MoveControl
<1>7. QED BY <1>1, <1>2, <1>3, <1>4, <1>5, <1>6 DEF Work

LEMMA ClaimControl ==
  ASSUME Typed, Control, NEW w \in Worker, NEW k \in Jobs, claimIntegrationOutboxJob(w, k)
  PROVE  Control'
<1> DEFINE n == outbox[k].attempts
<1>1. /\ Jobs' = Jobs
      /\ outbox'[k].attempts = n + 1
      /\ \A j \in Jobs : j # k => outbox'[j] = outbox[j]
      /\ worker'[w].pc = "claimed" /\ worker'[w].key = k /\ worker'[w].attempt = n + 1
      /\ \A v \in Worker : v # w => worker'[v] = worker[v]
      /\ lock' = lock
  BY ClaimStep
<1>2. lock = NoWorker /\ worker[w].pc = "idle" BY DEF claimIntegrationOutboxJob
<1>3. n \in Nat BY DEF Typed, OutboxTyped, Row
<1>4. \A v \in Worker : Busy(v) => worker[v].key \in Jobs /\ worker[v].attempt \in Nat
  BY DEF Typed, WorkerTyped, Process, Busy
<1>5. \A v \in Worker : Busy(v) /\ worker[v].key = k => worker[v].attempt <= n
  BY DEF Control, Behind
<1> HIDE DEF n
<1>6. Behind'
  <2>1. ASSUME NEW v \in Worker, Busy(v)'
        PROVE  worker'[v].attempt <= outbox'[worker'[v].key].attempts
    <3>1. CASE v = w BY <1>1, <1>3, <3>1
    <3>2. CASE v # w /\ worker[v].key = k
      BY <1>1, <1>3, <1>4, <1>5, <2>1, <3>2 DEF Busy
    <3>3. CASE v # w /\ worker[v].key # k
      BY <1>1, <1>4, <2>1, <3>3 DEF Busy, Control, Behind
    <3>4. QED BY <3>1, <3>2, <3>3
  <2>2. QED BY <2>1 DEF Behind
<1>7. Lone'
  <2>1. ASSUME NEW u \in Worker, NEW v \in Worker, u # v, Busy(u)', Busy(v)',
               worker'[u].key = worker'[v].key, worker'[u].attempt = worker'[v].attempt
        PROVE  FALSE
    <3>1. CASE u = w BY <1>1, <1>3, <1>4, <1>5, <2>1, <3>1 DEF Busy
    <3>2. CASE v = w BY <1>1, <1>3, <1>4, <1>5, <2>1, <3>2 DEF Busy
    <3>3. CASE u # w /\ v # w BY <1>1, <2>1, <3>3 DEF Busy, Control, Lone
    <3>4. QED BY <3>1, <3>2, <3>3
  <2>2. QED BY <2>1 DEF Lone
<1>8. Locked'
  <2>1. "claimed" \notin Asking /\ "idle" \notin Asking BY DEF Asking, Writing
  <2>2. QED BY <1>1, <1>2, <2>1 DEF Control, Locked
<1>9. LeaseIsHeld' BY <1>1, <1>2, Numbers DEF LeaseIsHeld
<1>10. QED BY <1>6, <1>7, <1>8, <1>9 DEF Control

LEMMA InitControl == Init => Control
<1> SUFFICES ASSUME Init PROVE Control OBVIOUS
<1>1. \A w \in Worker : worker[w].pc = "idle" /\ lock # w
  BY Numbers, IdleTyped DEF Init
<1>2. "idle" \notin Asking BY DEF Asking, Writing
<1>3. QED BY <1>1, <1>2 DEF Control, Behind, Lone, Locked, LeaseIsHeld, Busy

\* A step that leaves the invocations, the lock and the rows alone.
LEMMA StillControl ==
  ASSUME Typed, Control, UNCHANGED <<worker, lock>>, Jobs \subseteq Jobs',
         \A j \in Jobs : outbox'[j].attempts = outbox[j].attempts,
         lock = NoWorker \/ \A j \in Jobs : outbox'[j].status = outbox[j].status
  PROVE  Control'
<1>1. \A w \in Worker : lock = w => Owns(w) /\ worker[w].key \in Jobs
  BY HolderBusy, AtWork DEF Busy
<1>2. \A w \in Worker : lock' = w <=> worker'[w].pc \in Asking BY DEF Control, Locked
<1>3. \A w \in Worker : lock' = w =>
        Owns(w) /\ outbox'[worker[w].key].status = outbox[worker[w].key].status
  BY <1>1, Numbers
<1>4. \A w \in Worker : worker'[w].pc # "idle" =>
        Busy(w) /\ worker'[w].key = worker[w].key /\ worker'[w].attempt = worker[w].attempt
  BY DEF Busy
<1>5. QED BY <1>2, <1>3, <1>4, QuietControl

LEMMA NextControl ==
  ASSUME Typed, Control, [Next]_vars PROVE Control'
<1>1. CASE Edit \/ Cancel \/ Reactivate
  <2>1. /\ Jobs \subseteq Jobs' /\ \A j \in Jobs : outbox'[j] = outbox[j]
        /\ UNCHANGED <<worker, lock>>
    BY <1>1, ChangeSteps
  <2>2. QED BY <2>1, StillControl
<1>2. ASSUME NEW w \in Worker, NEW k \in Jobs, claimIntegrationOutboxJob(w, k) PROVE Control'
  BY <1>2, ClaimControl
<1>3. ASSUME NEW w \in Worker, Work(w) PROVE Control'
  BY <1>3, WorkControl
<1>4. ASSUME NEW w \in Worker, Fail(w) \/ Crash(w) \/ LoseAnswer(w) PROVE Control'
  <2>1. PICK p : Moves(w, p) /\ p.pc \in {"failed", "busy", "idle"} BY <1>4, FaultSteps
  <2>2. lock' = Release(w) /\ outbox' = outbox BY <1>4, FaultSteps
  <2>3. Jobs' = Jobs BY <2>2 DEF Jobs
  <2>4. p.pc \notin Asking BY <2>1 DEF Asking, Writing
  <2>5. \/ worker[w].pc \notin Asking /\ lock' = lock
        \/ lock' = NoWorker /\ lock \in {w, NoWorker}
    BY <2>2 DEF Release, Control, Locked
  <2>6. QED BY <2>1, <2>2, <2>3, <2>4, <2>5, MoveControl
<1>5. ASSUME NEW k \in Jobs, reclaimStaleGoogleCalendarJob(k) PROVE Control'
  <2>1. Jobs' = Jobs /\ UNCHANGED <<worker, lock>>
        /\ \A j \in Jobs : outbox'[j].attempts = outbox[j].attempts
    BY <1>5, ReclaimStep
  <2>2. lock = NoWorker BY <1>5 DEF reclaimStaleGoogleCalendarJob
  <2>3. QED BY <2>1, <2>2, StillControl
<1>6. ASSUME UNCHANGED <<outbox, worker, lock>> PROVE Control'
  <2>1. Jobs' = Jobs BY <1>6 DEF Jobs
  <2>2. QED BY <1>6, <2>1, StillControl
<1>7. CASE \E q \in wire : Land(q) \/ Drop(q)
  BY <1>6, <1>7 DEF Land, Drop
<1>8. CASE \E e \in Lane : Scan(e)
  BY <1>6, <1>8 DEF Scan
<1>9. CASE enqueueGoogleCalendarReconciliationDelete
  <2>1. /\ Jobs \subseteq Jobs' /\ \A j \in Jobs : outbox'[j] = outbox[j]
        /\ UNCHANGED <<worker, lock>>
    BY <1>9, RepairStep
  <2>2. QED BY <2>1, StillControl
<1>10. CASE UNCHANGED vars
  BY <1>6, <1>10 DEF vars
<1>11. QED BY <1>1, <1>2, <1>3, <1>4, <1>5, <1>7, <1>8, <1>9, <1>10 DEF Next

(***************************************************************************)
(* The holder of the advisory lock owns the row of its job: it is in       *)
(* processing under the holder's attempt, whatever is reclaimed, claimed   *)
(* or finished meanwhile.                                                  *)
(***************************************************************************)
THEOREM LeaseHeld == Spec => []LeaseIsHeld
<1>1. Init => Control BY InitControl
<1>2. Typed /\ Control /\ [Next]_vars => Control' BY NextControl
<1>3. Control => LeaseIsHeld BY DEF Control
<1>4. QED BY <1>1, <1>2, <1>3, AlwaysTyped, PTL DEF Spec

(***************************************************************************)
(* An event never goes back.                                               *)
(***************************************************************************)
Patching == {"patching", "repatching"}

\* Under this etag the event is not newer than the job that would write it.
FreshFor(e, etag, k) ==
  /\ etag <= google[e].etag
  /\ etag = google[e].etag => google[e].rev <= RevOf(k)

Fresh ==
  /\ \A w \in Worker : worker[w].pc \in Patching =>
       FreshFor(worker[w].target, worker[w].etag, worker[w].key)
  /\ \A q \in wire : q.method = "PATCH" => FreshFor(q.event, q.etag, q.key)

\* What Google does to an event: a new etag, or nothing newer.
GoogleMoves ==
  \A e \in Lane :
    /\ google[e].etag <= google'[e].etag
    /\ google'[e].etag = google[e].etag => google'[e].rev <= google[e].rev

NotBack == \A e \in Lane : google'[e].rev = 0 \/ google'[e].rev >= google[e].rev

LEMMA EventNumbers ==
  ASSUME GoogleTyped, NEW e \in Lane
  PROVE  google[e].rev \in Nat /\ google[e].etag \in Nat
BY Numbers DEF GoogleTyped, EventAtGoogle

LEMMA SameGoogle ==
  ASSUME Typed, google' = google PROVE GoogleMoves /\ NotBack
BY EventNumbers DEF GoogleMoves, NotBack, Typed

\* Writing is safe where there is no event, or where the job is not older.
LEMMA WrittenMoves ==
  ASSUME Typed, NEW e \in Lane, NEW r \in 0 .. MaxRevision, google' = Written(e, r),
         google[e].rev = 0 \/ google[e].rev <= r
  PROVE  GoogleMoves /\ NotBack
<1>1. /\ google'[e].rev = r /\ google'[e].etag = google[e].etag + 1
      /\ \A f \in Lane : f # e => google'[f] = google[f]
  BY WrittenTyped DEF Typed
<1>2. \A f \in Lane : google[f].rev \in Nat /\ google[f].etag \in Nat
  BY EventNumbers DEF Typed
<1>3. r \in Nat BY Numbers
<1>4. ASSUME NEW f \in Lane
      PROVE  /\ google[f].etag <= google'[f].etag
             /\ google'[f].etag = google[f].etag => google'[f].rev <= google[f].rev
             /\ google'[f].rev = 0 \/ google'[f].rev >= google[f].rev
  <2>1. CASE f = e BY <1>1, <1>2, <1>3, <2>1
  <2>2. CASE f # e BY <1>1, <1>2, <2>2
  <2>3. QED BY <2>1, <2>2
<1>5. QED BY <1>4 DEF GoogleMoves, NotBack

LEMMA RemovedMoves ==
  ASSUME Typed, NEW e \in Lane, google' = Removed(e)
  PROVE  GoogleMoves /\ NotBack
<1>1. /\ google'[e].rev = 0 /\ google'[e].etag = google[e].etag
      /\ \A f \in Lane : f # e => google'[f] = google[f]
  BY RemovedTyped DEF Typed
<1>2. \A f \in Lane : google[f].rev \in Nat /\ google[f].etag \in Nat
  BY EventNumbers DEF Typed
<1>3. QED BY <1>1, <1>2 DEF GoogleMoves, NotBack

LEMMA AtGoogleMoves ==
  ASSUME Typed, Fresh, NEW w \in Worker, AtGoogle(w) PROVE GoogleMoves /\ NotBack
<1> DEFINE e == worker[w].target
           k == worker[w].key
<1>1. worker[w].pc # "idle" /\ worker[w].pc \in Aiming
  BY DEF AtGoogle, ReadForSync, Create, ReadConflicting, Patch, Refresh, ReadForDelete, Delete,
         Aiming, Asking, Writing
<1>2. e \in Lane /\ RevOf(k) \in 0 .. MaxRevision BY <1>1, AtWork, KeyParts
<1>3. CASE google' = google BY <1>3, SameGoogle
<1>4. CASE google' = Removed(e) BY <1>2, <1>4, RemovedMoves
<1>5. CASE Create(w) /\ ~Exists(e) /\ google' = Written(e, RevOf(k))
  BY <1>2, <1>5, WrittenMoves DEF Exists
<1>6. CASE Patch(w) /\ IfMatch(e, worker[w].etag) /\ google' = Written(e, RevOf(k))
  <2>1. FreshFor(e, worker[w].etag, k) BY <1>6 DEF Patch, Fresh, Patching
  <2>2. google[e].rev <= RevOf(k) BY <1>6, <2>1 DEF FreshFor, IfMatch
  <2>3. QED BY <1>2, <1>6, <2>2, WrittenMoves
<1>7. google' = google \/ google' = Removed(e)
      \/ (Create(w) /\ ~Exists(e) /\ google' = Written(e, RevOf(k)))
      \/ (Patch(w) /\ IfMatch(e, worker[w].etag) /\ google' = Written(e, RevOf(k)))
  BY DEF AtGoogle, ReadForSync, Create, ReadConflicting, Patch, Refresh, ReadForDelete, Delete
<1>8. QED BY <1>3, <1>4, <1>5, <1>6, <1>7

LEMMA LandMoves ==
  ASSUME Typed, Fresh, NEW q \in wire, Land(q) PROVE GoogleMoves /\ NotBack
<1>1. q.event \in Lane /\ RevOf(q.key) \in 0 .. MaxRevision
  BY KeyParts DEF Typed, WireTyped, Request
<1>2. \/ google' = google
      \/ google' = Removed(q.event)
      \/ (~Exists(q.event) /\ google' = Written(q.event, RevOf(q.key)))
      \/ (q.method = "PATCH" /\ IfMatch(q.event, q.etag) /\ google' = Written(q.event, RevOf(q.key)))
  BY DEF Land
<1>3. CASE google' = google BY <1>3, SameGoogle
<1>4. CASE google' = Removed(q.event) BY <1>1, <1>4, RemovedMoves
<1>5. CASE ~Exists(q.event) /\ google' = Written(q.event, RevOf(q.key))
  BY <1>1, <1>5, WrittenMoves DEF Exists
<1>6. CASE q.method = "PATCH" /\ IfMatch(q.event, q.etag) /\ google' = Written(q.event, RevOf(q.key))
  <2>1. google[q.event].rev <= RevOf(q.key) BY <1>6 DEF Fresh, FreshFor, IfMatch
  <2>2. QED BY <1>1, <1>6, <2>1, WrittenMoves
<1>7. QED BY <1>2, <1>3, <1>4, <1>5, <1>6

LEMMA NextMoves ==
  ASSUME Typed, Fresh, [Next]_vars PROVE GoogleMoves /\ NotBack
<1>1. CASE google' = google BY <1>1, SameGoogle
<1>2. CASE \E w \in Worker : AtGoogle(w) BY <1>2, AtGoogleMoves
<1>3. CASE \E q \in wire : Land(q) BY <1>3, LandMoves
<1>4. \/ google' = google \/ (\E w \in Worker : AtGoogle(w)) \/ (\E q \in wire : Land(q))
  <2>1. CASE Edit \/ Cancel \/ Reactivate BY <2>1, ChangeSteps
  <2>2. ASSUME NEW w \in Worker, NEW k \in Jobs, claimIntegrationOutboxJob(w, k) PROVE google' = google
    BY <2>2, ClaimStep
  <2>3. ASSUME NEW w \in Worker, Work(w) PROVE google' = google \/ AtGoogle(w)
    <3>1. CASE PrepareSync(w) BY <3>1 DEF PrepareSync
    <3>2. CASE PrepareDelete(w) BY <3>2 DEF PrepareDelete
    <3>3. CASE LoseLease(w) BY <3>3 DEF LoseLease
    <3>4. CASE withGoogleCalendarDispatchLock(w) BY <3>4 DEF withGoogleCalendarDispatchLock
    <3>5. CASE Finish(w)
      <4>1. FinishStep(w) BY <3>5, FinishSteps
      <4>2. QED BY <4>1 DEF FinishStep
    <3>6. QED BY <2>3, <3>1, <3>2, <3>3, <3>4, <3>5 DEF Work
  <2>4. ASSUME NEW w \in Worker, Fail(w) \/ Crash(w) \/ LoseAnswer(w) PROVE google' = google
    BY <2>4, FaultSteps
  <2>5. ASSUME NEW k \in Jobs, reclaimStaleGoogleCalendarJob(k) PROVE google' = google
    BY <2>5, ReclaimStep
  <2>6. ASSUME NEW q \in wire, Drop(q) PROVE google' = google BY <2>6 DEF Drop
  <2>7. ASSUME NEW e \in Lane, Scan(e) PROVE google' = google BY <2>7 DEF Scan
  <2>8. CASE enqueueGoogleCalendarReconciliationDelete BY <2>8, RepairStep
  <2>9. CASE UNCHANGED vars BY <2>9 DEF vars
  <2>10. QED BY <2>1, <2>2, <2>3, <2>4, <2>5, <2>6, <2>7, <2>8, <2>9 DEF Next
<1>5. QED BY <1>1, <1>2, <1>3, <1>4

LEMMA FreshStays ==
  ASSUME Typed, Typed', GoogleMoves, NEW e \in Lane, NEW n \in Nat, NEW k \in Key,
         FreshFor(e, n, k)
  PROVE  /\ n <= google'[e].etag
         /\ n = google'[e].etag => google'[e].rev <= RevOf(k)
<1>1. google[e].rev \in Nat /\ google[e].etag \in Nat
  BY EventNumbers DEF Typed
<1>2. google'[e].rev \in Nat /\ google'[e].etag \in Nat
  BY Numbers DEF Typed, GoogleTyped, EventAtGoogle
<1>3. RevOf(k) \in Nat BY KeyParts, Numbers
<1>4. /\ google[e].etag <= google'[e].etag
      /\ google'[e].etag = google[e].etag => google'[e].rev <= google[e].rev
  BY DEF GoogleMoves
<1>5. n <= google[e].etag /\ (n = google[e].etag => google[e].rev <= RevOf(k))
  BY DEF FreshFor
<1> HIDE DEF RevOf
<1>6. QED BY <1>1, <1>2, <1>3, <1>4, <1>5

LEMMA FreshQuiet ==
  ASSUME Typed, Typed', Fresh, GoogleMoves, wire' \subseteq wire,
         \A w \in Worker : worker'[w].pc \in Patching => worker'[w] = worker[w]
  PROVE  Fresh'
<1>1. ASSUME NEW w \in Worker, worker'[w].pc \in Patching
      PROVE  /\ worker'[w].etag <= google'[worker'[w].target].etag
             /\ worker'[w].etag = google'[worker'[w].target].etag =>
                  google'[worker'[w].target].rev <= RevOf(worker'[w].key)
  <2>1. worker'[w] = worker[w] /\ worker[w].pc \in Patching BY <1>1
  <2>2. worker[w].pc # "idle" /\ worker[w].pc \in Aiming
    BY <2>1 DEF Patching, Aiming, Asking, Writing
  <2>3. worker[w].target \in Lane /\ worker[w].key \in Key /\ worker[w].etag \in Nat
    BY <2>2, AtWork DEF Process
  <2>4. FreshFor(worker[w].target, worker[w].etag, worker[w].key) BY <2>1 DEF Fresh
  <2>5. QED BY <2>1, <2>3, <2>4, FreshStays
<1>2. ASSUME NEW q \in wire', q.method = "PATCH"
      PROVE  /\ q.etag <= google'[q.event].etag
             /\ q.etag = google'[q.event].etag => google'[q.event].rev <= RevOf(q.key)
  <2>1. q \in wire BY <1>2
  <2>2. q.event \in Lane /\ q.key \in Key /\ q.etag \in Nat
    BY <2>1 DEF Typed, WireTyped, Request
  <2>3. FreshFor(q.event, q.etag, q.key) BY <1>2, <2>1 DEF Fresh
  <2>4. QED BY <2>2, <2>3, FreshStays
<1>3. QED BY <1>1, <1>2 DEF Fresh, FreshFor

\* An invocation that comes to write, or whose write goes astray, read the event
\* just before and found it older.
LEMMA FreshContinue ==
  ASSUME Typed, Fresh, NEW w \in Worker, worker[w].pc \in Asking, NEW pc \in Patching,
         Continue(w, pc), ~AtLeast(worker[w].target, worker[w].key), Exists(worker[w].target),
         google' = google, wire' = wire
  PROVE  Fresh'
<1> DEFINE e == worker[w].target
<1>1. pc \in Asking BY DEF Patching, Asking, Writing
<1>2. PICK p : Moves(w, p) /\ p.pc = pc /\ p.target = e /\ p.etag = google[e].etag
  BY <1>1, ContinueMoves
<1>3. p.key = worker[w].key BY <1>2 DEF Moves, Patching
<1>4. worker[w].pc # "idle" /\ worker[w].pc \in Aiming BY DEF Asking, Writing, Aiming
<1>5. e \in Lane /\ worker[w].key \in Key BY <1>4, AtWork
<1>6. google[e].etag \in Nat /\ google[e].rev \in Nat /\ RevOf(worker[w].key) \in Nat
  <2>1. RevOf(worker[w].key) \in 0 .. MaxRevision BY <1>5, KeyParts
  <2>2. GoogleTyped BY DEF Typed
  <2>3. google[e].etag \in Nat /\ google[e].rev \in Nat BY <1>5, <2>2, EventNumbers
  <2>4. QED BY <2>1, <2>3, Numbers
<1>7. ~(google[e].rev >= RevOf(worker[w].key)) BY DEF AtLeast
<1> HIDE DEF e
<1>8. FreshFor(e, google[e].etag, worker[w].key)
  <2> HIDE DEF RevOf
  <2>1. QED BY <1>6, <1>7 DEF FreshFor
<1>9. worker'[w] = p /\ \A v \in Worker : v # w => worker'[v] = worker[v]
  BY <1>2 DEF Moves, Typed, WorkerTyped
<1>10. ASSUME NEW v \in Worker, worker'[v].pc \in Patching
       PROVE  FreshFor(worker'[v].target, worker'[v].etag, worker'[v].key)
  <2>1. CASE v = w BY <1>2, <1>3, <1>8, <1>9, <2>1
  <2>2. CASE v # w BY <1>9, <1>10, <2>2 DEF Fresh
  <2>3. QED BY <2>1, <2>2
<1>11. QED BY <1>10 DEF Fresh, FreshFor

LEMMA WorkFresh ==
  ASSUME Typed, Typed', Fresh, GoogleMoves, NEW w \in Worker, Work(w)
  PROVE  Fresh'
<1> DEFINE Quiet == wire' = wire /\ \A v \in Worker : v # w => worker'[v] = worker[v]
<1>1. Quiet /\ worker'[w].pc \notin Patching => Fresh'
  BY FreshQuiet
<1>2. CASE PrepareSync(w)
  <2>1. PICK p : Moves(w, p) /\ p.pc \in {"superseded", "disabled", "failed", "ambiguous", "ready"}
    BY <1>2, PrepareSyncStep
  <2>2. wire' = wire BY <1>2 DEF PrepareSync
  <2>3. QED BY <1>1, <2>1, <2>2 DEF Moves, Typed, WorkerTyped, Patching
<1>3. CASE PrepareDelete(w)
  <2>1. PICK p : Moves(w, p) /\ p.pc \in {"superseded", "disabled", "failed", "ambiguous", "ready"}
    BY <1>3, PrepareDeleteStep
  <2>2. wire' = wire BY <1>3 DEF PrepareDelete
  <2>3. QED BY <1>1, <2>1, <2>2 DEF Moves, Typed, WorkerTyped, Patching
<1>4. ASSUME NEW pc, pc \notin Patching, Go(w, pc), wire' = wire PROVE Fresh'
  <2>1. worker'[w].pc = pc /\ \A v \in Worker : v # w => worker'[v] = worker[v]
    BY <1>4 DEF Go, Typed, WorkerTyped, Process
  <2>2. QED BY <1>1, <1>4, <2>1
<1>5. CASE LoseLease(w)
  <2>1. PICK p : Moves(w, p) /\ p.pc \in {"failed", "busy"} BY <1>5, LoseLeaseStep
  <2>2. wire' = wire BY <1>5 DEF LoseLease
  <2>3. QED BY <1>1, <2>1, <2>2 DEF Moves, Typed, WorkerTyped, Patching
<1>6. CASE withGoogleCalendarDispatchLock(w)
  <2>1. wire' = wire /\ \E pc \in {"failed", "superseded", "creating", "reading"} : Go(w, pc)
    BY <1>6 DEF withGoogleCalendarDispatchLock
  <2>2. QED BY <1>4, <2>1 DEF Patching
<1>7. CASE Finish(w)
  <2>1. FinishStep(w) BY <1>7, FinishSteps
  <2>2. Moves(w, Idle) /\ wire' = wire BY <2>1 DEF FinishStep
  <2>3. QED BY <1>1, <2>2, IdleTyped DEF Moves, Typed, WorkerTyped, Patching
<1>8. CASE AtGoogle(w)
  <2>1. worker[w].pc \in Asking /\ wire' = wire
    BY <1>8 DEF AtGoogle, ReadForSync, Create, ReadConflicting, Patch, Refresh, ReadForDelete, Delete,
                Asking, Writing
  <2>2. ASSUME NEW pc \in {"synced", "deleted", "failed"}, Answer(w, pc) PROVE Fresh'
    BY <1>4, <2>1, <2>2 DEF Answer, Patching
  <2>3. ASSUME NEW pc \in {"refreshing", "deleting"}, Continue(w, pc) PROVE Fresh'
    <3>1. pc \in Asking /\ pc \notin Patching BY DEF Asking, Writing, Patching
    <3>2. PICK p : Moves(w, p) /\ p.pc = pc BY <2>1, <2>3, <3>1, ContinueMoves
    <3>3. QED BY <1>1, <2>1, <3>1, <3>2 DEF Moves, Typed, WorkerTyped
  <2>4. ASSUME worker' = [worker EXCEPT ![w].pc = "creating",
                                        ![w].target = outbox[worker[w].key].lane]
        PROVE  Fresh'
    <3>1. PICK p : Moves(w, p) /\ p.pc = "creating" BY <2>1, <2>4, CreatingMoves
    <3>2. QED BY <1>1, <2>1, <3>1 DEF Moves, Typed, WorkerTyped, Patching
  <2>5. CASE ReadForSync(w)
    <3>1. ASSUME Continue(w, "patching"), Exists(worker[w].target),
                 ~AtLeast(worker[w].target, worker[w].key)
          PROVE  Fresh'
      BY <2>1, <2>5, <3>1, FreshContinue DEF ReadForSync, Patching
    <3>2. QED BY <2>2, <2>4, <2>5, <3>1 DEF ReadForSync
  <2>6. CASE ReadConflicting(w)
    <3>1. ASSUME Continue(w, "repatching"), Exists(worker[w].target),
                 ~AtLeast(worker[w].target, worker[w].key)
          PROVE  Fresh'
      BY <2>1, <2>6, <3>1, FreshContinue DEF ReadConflicting, Patching
    <3>2. QED BY <2>2, <2>6, <3>1 DEF ReadConflicting
  <2>7. CASE Create(w)
    <3>1. Go(w, "conflicted") \/ Answer(w, "synced") BY <2>7 DEF Create
    <3>2. "conflicted" \notin Patching BY DEF Patching
    <3>3. QED BY <1>4, <2>1, <2>2, <3>1, <3>2
  <2>8. CASE Patch(w) BY <2>2, <2>3, <2>4, <2>8 DEF Patch
  <2>9. CASE Refresh(w) BY <2>2, <2>9 DEF Refresh
  <2>10. CASE ReadForDelete(w) BY <2>2, <2>3, <2>10 DEF ReadForDelete
  <2>11. CASE Delete(w) BY <2>2, <2>11 DEF Delete
  <2>12. QED BY <1>8, <2>5, <2>6, <2>7, <2>8, <2>9, <2>10, <2>11 DEF AtGoogle
<1>9. QED BY <1>2, <1>3, <1>5, <1>6, <1>7, <1>8 DEF Work

\* A write whose answer is lost is as fresh as its sender was.
LEMMA LostFresh ==
  ASSUME Typed, Fresh, NEW w \in Worker, LoseAnswer(w)
  PROVE  Fresh'
<1> DEFINE q == [method |-> Method(w), key |-> worker[w].key,
                 event |-> worker[w].target, etag |-> worker[w].etag]
<1>1. wire' = wire \cup {q} /\ google' = google /\ worker[w].pc \in Writing
  BY DEF LoseAnswer
<1>2. q.method = "PATCH" => worker[w].pc \in Patching
  BY <1>1 DEF Method, Writing, Patching
<1>3. q.key = worker[w].key /\ q.event = worker[w].target /\ q.etag = worker[w].etag
  OBVIOUS
<1> HIDE DEF q
<1>4. ASSUME NEW r \in wire', r.method = "PATCH" PROVE FreshFor(r.event, r.etag, r.key)
  BY <1>1, <1>2, <1>3, <1>4 DEF Fresh
<1>5. ASSUME NEW v \in Worker, worker'[v].pc \in Patching
      PROVE  FreshFor(worker'[v].target, worker'[v].etag, worker'[v].key)
  <2>1. PICK p : Moves(w, p) /\ p.pc \in {"failed", "busy", "idle"} BY FaultSteps
  <2>2. worker'[w] = p /\ \A u \in Worker : u # w => worker'[u] = worker[u]
    BY <2>1 DEF Moves, Typed, WorkerTyped
  <2>3. v # w BY <1>5, <2>1, <2>2 DEF Patching
  <2>4. QED BY <1>5, <2>2, <2>3 DEF Fresh
<1>6. QED BY <1>1, <1>4, <1>5 DEF Fresh, FreshFor

LEMMA NextFresh ==
  ASSUME Typed, Typed', Fresh, [Next]_vars PROVE Fresh'
<1>1. GoogleMoves BY NextMoves
<1>2. ASSUME wire' \subseteq wire, worker' = worker PROVE Fresh'
  BY <1>1, <1>2, FreshQuiet
<1>3. CASE Edit \/ Cancel \/ Reactivate BY <1>2, <1>3, ChangeSteps
<1>4. ASSUME NEW w \in Worker, NEW k \in Jobs, claimIntegrationOutboxJob(w, k) PROVE Fresh'
  <2>1. /\ worker'[w].pc = "claimed" /\ wire' = wire
        /\ \A v \in Worker : v # w => worker'[v] = worker[v]
    BY <1>4, ClaimStep
  <2>2. QED BY <1>1, <2>1, FreshQuiet DEF Patching
<1>5. ASSUME NEW w \in Worker, Work(w) PROVE Fresh'
  BY <1>1, <1>5, WorkFresh
<1>6. ASSUME NEW w \in Worker, Fail(w) \/ Crash(w) PROVE Fresh'
  <2>1. wire' = wire BY <1>6 DEF Fail, Crash
  <2>2. PICK p : Moves(w, p) /\ p.pc \in {"failed", "busy", "idle"} BY <1>6, FaultSteps
  <2>3. worker'[w] = p /\ \A v \in Worker : v # w => worker'[v] = worker[v]
    BY <2>2 DEF Moves, Typed, WorkerTyped
  <2>4. QED BY <1>1, <2>1, <2>2, <2>3, FreshQuiet DEF Patching
<1>7. ASSUME NEW w \in Worker, LoseAnswer(w) PROVE Fresh'
  BY <1>7, LostFresh
<1>8. CASE \E k \in Jobs : reclaimStaleGoogleCalendarJob(k) BY <1>2, <1>8, ReclaimStep
<1>9. CASE \E q \in wire : Land(q) \/ Drop(q) BY <1>2, <1>9 DEF Land, Drop
<1>10. CASE \E e \in Lane : Scan(e) BY <1>2, <1>10 DEF Scan
<1>11. CASE enqueueGoogleCalendarReconciliationDelete BY <1>2, <1>11, RepairStep
<1>12. CASE UNCHANGED vars BY <1>2, <1>12 DEF vars
<1>13. QED BY <1>3, <1>4, <1>5, <1>6, <1>7, <1>8, <1>9, <1>10, <1>11, <1>12 DEF Next

(***************************************************************************)
(* An event at Google never goes back to an older revision, however late   *)
(* and in whatever order writes land.                                      *)
(***************************************************************************)
THEOREM NeverRegresses == Spec => RemoteNeverRegresses
<1>1. Init => Fresh BY IdleTyped DEF Init, Fresh, Patching
<1>2. Typed /\ Typed' /\ Fresh /\ [Next]_vars => Fresh' BY NextFresh
<1>3. Typed /\ Fresh /\ [Next]_vars =>
        [\A e \in Lane : google'[e].rev = 0 \/ google'[e].rev >= google[e].rev]_vars
  BY NextMoves DEF NotBack
<1>4. QED BY <1>1, <1>2, <1>3, AlwaysTyped, PTL DEF Spec, RemoteNeverRegresses

(***************************************************************************)
(* What the salon is told.  First the rows: what no step undoes.           *)
(***************************************************************************)
Owner(w) == Busy(w) /\ Owns(w)

\* Rows stay, a deletion keeps its event, what is completed stays so, and a new
\* job has not begun.
RowsKept ==
  /\ Jobs \subseteq Jobs'
  /\ \A j \in Jobs :
       /\ ~IsSync(j) => outbox'[j].event = outbox[j].event
       /\ outbox[j].status = "completed" => outbox'[j].status = "completed"
  /\ \A j \in Jobs' \ Jobs : outbox'[j].status = "pending"

\* No attempt begins.
NoneClaimed ==
  \A j \in Jobs :
    /\ outbox'[j].attempts = outbox[j].attempts
    /\ outbox'[j].status = "processing" => outbox[j].status = "processing"

LEMMA SameRows ==
  ASSUME outbox' = outbox PROVE RowsKept /\ NoneClaimed /\ Jobs' = Jobs
<1>1. Jobs' = Jobs BY DEF Jobs
<1>2. QED BY <1>1 DEF RowsKept, NoneClaimed

LEMMA InsertRows ==
  ASSUME NEW k, NEW e, NEW l, NEW t, NEW m, outbox' = Insert(k, NewRow(e, l, t, m))
  PROVE  /\ RowsKept /\ NoneClaimed /\ Jobs' = Jobs \cup {k}
         /\ \A j \in Jobs : outbox'[j] = outbox[j]
<1> DEFINE row == NewRow(e, l, t, m)
<1>1. row.status = "pending" BY DEF NewRow
<1> HIDE DEF row
<1>2. outbox' = [j \in Jobs \cup {k} |-> IF j \in Jobs THEN outbox[j] ELSE row]
  BY DEF Insert, row
<1>3. Jobs' = Jobs \cup {k} BY <1>2 DEF Jobs
<1>4. \A j \in Jobs' : outbox'[j] = IF j \in Jobs THEN outbox[j] ELSE row
  BY <1>2, <1>3
<1>5. QED BY <1>1, <1>3, <1>4 DEF RowsKept, NoneClaimed

LEMMA StampedRows ==
  ASSUME OutboxTyped, NEW k \in Jobs, outbox[k].status = "processing",
         NEW s \in Status \ {"processing"}, NEW b, outbox' = Stamped(k, s, b)
  PROVE  RowsKept /\ NoneClaimed /\ Jobs' = Jobs /\ outbox'[k].status = s
<1>1. outbox' = [j \in Jobs |-> IF j = k THEN [outbox[j] EXCEPT !.status = s, !.busy = b]
                                      ELSE outbox[j]]
  BY DEF OutboxTyped, Stamped
<1>2. Jobs' = Jobs BY <1>1 DEF Jobs
<1>3. \A j \in Jobs : outbox'[j] = IF j = k THEN [outbox[j] EXCEPT !.status = s, !.busy = b]
                                      ELSE outbox[j]
  BY <1>1
<1>4. \A j \in Jobs : outbox'[j].event = outbox[j].event /\ outbox'[j].attempts = outbox[j].attempts
  BY <1>3 DEF OutboxTyped, Row
<1>5. outbox'[k].status = s BY <1>3 DEF OutboxTyped, Row
<1>6. QED BY <1>2, <1>3, <1>4, <1>5 DEF RowsKept, NoneClaimed

LEMMA SettledRows ==
  ASSUME OutboxTyped, NEW k \in Jobs, outbox[k].status = "processing",
         NEW s \in Status \ {"processing"}, outbox' = Settled(k, s)
  PROVE  RowsKept /\ NoneClaimed /\ Jobs' = Jobs /\ outbox'[k].status = s
BY StampedRows DEF Settled

LEMMA CleanupRows ==
  ASSUME OutboxTyped, NEW k \in Jobs, outbox[k].status = "processing",
         NEW s \in Status \ {"processing"}, NEW b, NEW e,
         outbox' = WithCleanup(Stamped(k, s, b), k, e)
  PROVE  /\ RowsKept /\ NoneClaimed /\ outbox'[k].status = s
         /\ Jobs' = Jobs \cup {<<"cleanup", RevOf(k), e>>}
<1> DEFINE c == <<"cleanup", RevOf(k), e>>
<1>1. outbox' = [j \in Jobs \cup {c} |-> IF j \in Jobs THEN Stamped(k, s, b)[j] ELSE NewRow(e, 0, TRUE, FALSE)]
  BY DEF WithCleanup
<1> HIDE DEF c
<1>2. Jobs' = Jobs \cup {c} BY <1>1 DEF Jobs
<1>3. \A j \in Jobs : outbox'[j] = IF j = k THEN [outbox[j] EXCEPT !.status = s, !.busy = b]
                                      ELSE outbox[j]
  BY <1>1 DEF OutboxTyped, Stamped
<1>4. \A j \in Jobs' \ Jobs : outbox'[j] = NewRow(e, 0, TRUE, FALSE)
  BY <1>1, <1>2
<1>5. \A j \in Jobs : outbox'[j].event = outbox[j].event /\ outbox'[j].attempts = outbox[j].attempts
  BY <1>3 DEF OutboxTyped, Row
<1>6. outbox'[k].status = s BY <1>3 DEF OutboxTyped, Row
<1>7. \A j \in Jobs' \ Jobs : outbox'[j].status = "pending" BY <1>4 DEF NewRow
<1>8. RowsKept /\ NoneClaimed BY <1>2, <1>3, <1>5, <1>6, <1>7 DEF RowsKept, NoneClaimed
<1>9. QED BY <1>2, <1>6, <1>8 DEF c

LEMMA PinnedRows ==
  ASSUME OutboxTyped, NEW k \in Jobs, IsSync(k), NEW e, outbox' = Pinned(k, e)
  PROVE  RowsKept /\ NoneClaimed /\ Jobs' = Jobs
<1> DEFINE tgt(j) == outbox[j].targeted \/ j \in Lifecycle(k)
           pin(j) == outbox[j].pinned \/ j \in Lifecycle(k)
           ev(j) == IF j = k THEN e ELSE outbox[j].event
<1>1. \A j \in Jobs : ~IsSync(j) => ev(j) = outbox[j].event OBVIOUS
<1>2. outbox' = [j \in Jobs |-> [outbox[j] EXCEPT !.targeted = tgt(j), !.pinned = pin(j),
                                           !.event = ev(j)]]
  BY DEF Pinned
<1> HIDE DEF tgt, pin, ev
<1>3. Jobs' = Jobs BY <1>2 DEF Jobs
<1>4. \A j \in Jobs : outbox'[j] = [outbox[j] EXCEPT !.targeted = tgt(j), !.pinned = pin(j),
                                           !.event = ev(j)]
  BY <1>2
<1>5. \A j \in Jobs : /\ outbox'[j].status = outbox[j].status /\ outbox'[j].event = ev(j)
                      /\ outbox'[j].attempts = outbox[j].attempts
  BY <1>4 DEF OutboxTyped, Row
<1>6. QED BY <1>1, <1>3, <1>5 DEF RowsKept, NoneClaimed

\* A finish settles its own row, and only a cleanup of the job's revision joins.
LEMMA FinishRows ==
  ASSUME Typed, NEW w \in Worker, Finish(w)
  PROVE  /\ RowsKept /\ NoneClaimed
         /\ \A j \in Jobs' \ Jobs : IsCleanup(j) /\ RevOf(j) = RevOf(worker[w].key)
<1> DEFINE k == worker[w].key
           Goal == /\ RowsKept /\ NoneClaimed
                   /\ \A j \in Jobs' \ Jobs : IsCleanup(j) /\ RevOf(j) = RevOf(k)
<1> USE DEF Typed
<1>1. worker[w].pc # "idle"
  BY DEF Finish, FinishSynced, FinishDeleted, FinishDisabled, finishGoogleJobSuperseded,
         finishGoogleJobFailure, NotOwned, Done, Answered, Refused
<1>2. k \in Jobs BY <1>1, AtWork
<1>3. CASE NotOwned(w) BY <1>3, SameRows DEF NotOwned
<1>4. CASE ~NotOwned(w)
  <2>1. outbox[k].status = "processing"
    BY <1>4 DEF Finish, FinishSynced, FinishDeleted, FinishDisabled, finishGoogleJobSuperseded,
         finishGoogleJobFailure, Done, Owns
  <2>2. \E s \in {"completed", "cancelled", "failed", "retry"} :
          \E b \in BOOLEAN :
            \/ outbox' = Stamped(k, s, b)
            \/ \E e : outbox' = WithCleanup(Stamped(k, s, b), k, e)
    <3>1. CASE finishGoogleJobFailure(w) BY <3>1, FailureRows
    <3>2. CASE ~finishGoogleJobFailure(w)
      BY <1>4, <3>2 DEF Finish, FinishSynced, FinishDeleted, FinishDisabled,
         finishGoogleJobSuperseded, Settled
    <3>3. QED BY <3>1, <3>2
  <2>3. PICK s \in {"completed", "cancelled", "failed", "retry"}, b \in BOOLEAN :
          outbox' = Stamped(k, s, b) \/ \E e : outbox' = WithCleanup(Stamped(k, s, b), k, e)
    BY <2>2
  <2>4. s \in Status \ {"processing"} BY DEF Status
  <2>5. CASE outbox' = Stamped(k, s, b) BY <1>2, <2>1, <2>4, <2>5, StampedRows
  <2>6. CASE \E e : outbox' = WithCleanup(Stamped(k, s, b), k, e)
    <3>1. PICK e : outbox' = WithCleanup(Stamped(k, s, b), k, e) BY <2>6
    <3>2. RowsKept /\ NoneClaimed /\ Jobs' = Jobs \cup {<<"cleanup", RevOf(k), e>>}
      BY <1>2, <2>1, <2>4, <3>1, CleanupRows
    <3>3. IsCleanup(<<"cleanup", RevOf(k), e>>) /\ RevOf(<<"cleanup", RevOf(k), e>>) = RevOf(k)
      BY DEF IsCleanup, RevOf
    <3>4. QED BY <3>2, <3>3
  <2>7. QED BY <2>3, <2>5, <2>6
<1>5. QED BY <1>3, <1>4

Change == Edit \/ Cancel \/ Reactivate

\* Who changes what: the appointment and the mirror are the transactions' and the
\* finishes', the events are Google's.
LEMMA AppointmentSteps ==
  ASSUME Typed, [Next]_vars
  PROVE  \/ Change
         \/ \E w \in Worker : Finish(w)
         \/ UNCHANGED <<appointment, mirror>>
<1>1. CASE Change BY <1>1
<1>2. ASSUME NEW w \in Worker, NEW k \in Jobs, claimIntegrationOutboxJob(w, k)
      PROVE  UNCHANGED <<appointment, mirror>>
  BY <1>2 DEF claimIntegrationOutboxJob
<1>3. ASSUME NEW w \in Worker, Work(w), ~Finish(w) PROVE UNCHANGED <<appointment, mirror>>
  <2>1. CASE AtGoogle(w)
    <3>1. AtGoogleStep(w) BY <2>1, AtGoogleSteps
    <3>2. QED BY <3>1 DEF AtGoogleStep
  <2>2. CASE ~AtGoogle(w)
    BY <1>3, <2>2 DEF Work, PrepareSync, PrepareDelete, LoseLease, withGoogleCalendarDispatchLock
  <2>3. QED BY <2>1, <2>2
<1>4. ASSUME NEW w \in Worker, Fail(w) \/ Crash(w) \/ LoseAnswer(w)
      PROVE  UNCHANGED <<appointment, mirror>>
  BY <1>4 DEF Fail, Crash, LoseAnswer
<1>5. ASSUME NEW k \in Jobs, reclaimStaleGoogleCalendarJob(k) PROVE UNCHANGED <<appointment, mirror>>
  BY <1>5 DEF reclaimStaleGoogleCalendarJob
<1>6. ASSUME NEW q \in wire, Land(q) \/ Drop(q) PROVE UNCHANGED <<appointment, mirror>>
  BY <1>6 DEF Land, Drop
<1>7. ASSUME NEW e \in Lane, Scan(e) PROVE UNCHANGED <<appointment, mirror>>
  BY <1>7 DEF Scan
<1>8. CASE enqueueGoogleCalendarReconciliationDelete
  BY <1>8 DEF enqueueGoogleCalendarReconciliationDelete
<1>9. CASE UNCHANGED vars BY <1>9 DEF vars
<1>10. QED BY <1>1, <1>2, <1>3, <1>4, <1>5, <1>6, <1>7, <1>8, <1>9 DEF Next, Change

LEMMA GoogleSteps ==
  ASSUME Typed, [Next]_vars
  PROVE  google' = google \/ (\E w \in Worker : AtGoogle(w)) \/ (\E q \in wire : Land(q))
<1>1. CASE Change BY <1>1, ChangeSteps DEF Change
<1>2. ASSUME NEW w \in Worker, NEW k \in Jobs, claimIntegrationOutboxJob(w, k) PROVE google' = google
  BY <1>2 DEF claimIntegrationOutboxJob
<1>3. ASSUME NEW w \in Worker, Work(w), ~AtGoogle(w) PROVE google' = google
  <2>1. CASE Finish(w)
    <3>1. FinishStep(w) BY <2>1, FinishSteps
    <3>2. QED BY <3>1 DEF FinishStep
  <2>2. CASE ~Finish(w)
    BY <1>3, <2>2 DEF Work, PrepareSync, PrepareDelete, LoseLease, withGoogleCalendarDispatchLock
  <2>3. QED BY <2>1, <2>2
<1>4. ASSUME NEW w \in Worker, Fail(w) \/ Crash(w) \/ LoseAnswer(w) PROVE google' = google
  BY <1>4 DEF Fail, Crash, LoseAnswer
<1>5. ASSUME NEW k \in Jobs, reclaimStaleGoogleCalendarJob(k) PROVE google' = google
  BY <1>5 DEF reclaimStaleGoogleCalendarJob
<1>6. ASSUME NEW q \in wire, Drop(q) PROVE google' = google
  BY <1>6 DEF Drop
<1>7. ASSUME NEW e \in Lane, Scan(e) PROVE google' = google
  BY <1>7 DEF Scan
<1>8. CASE enqueueGoogleCalendarReconciliationDelete
  BY <1>8 DEF enqueueGoogleCalendarReconciliationDelete
<1>9. CASE UNCHANGED vars BY <1>9 DEF vars
<1>10. QED BY <1>1, <1>2, <1>3, <1>4, <1>5, <1>6, <1>7, <1>8, <1>9 DEF Next, Change

LEMMA ClaimRows ==
  ASSUME Typed, NEW w \in Worker, NEW k \in Jobs, claimIntegrationOutboxJob(w, k)
  PROVE  RowsKept /\ Jobs' = Jobs /\ \A j \in Jobs : outbox[j].status # "processing"
<1>1. /\ Jobs' = Jobs /\ \A j \in Jobs : j # k => outbox'[j] = outbox[j]
  BY ClaimStep
<1>2. /\ outbox[k].status \in {"pending", "retry"}
      /\ \A j \in Jobs : outbox[j].status # "processing"
      /\ outbox' = [outbox EXCEPT ![k].status = "processing", ![k].attempts = @ + 1]
  BY DEF claimIntegrationOutboxJob
<1>3. outbox'[k].event = outbox[k].event
  <2>1. outbox'[k] = [outbox[k] EXCEPT !.status = "processing", !.attempts = @ + 1]
    BY <1>2 DEF Typed, OutboxTyped
  <2>2. outbox[k] \in Row BY DEF Typed, OutboxTyped
  <2>3. QED BY <2>1, <2>2 DEF Row
<1>4. QED BY <1>1, <1>2, <1>3 DEF RowsKept

LEMMA ReclaimRows ==
  ASSUME Typed, NEW k \in Jobs, reclaimStaleGoogleCalendarJob(k)
  PROVE  RowsKept /\ NoneClaimed /\ Jobs' = Jobs
         /\ \A j \in Jobs : j # k => outbox'[j] = outbox[j]
<1>1. outbox[k].status = "processing" /\ outbox' = Settled(k, "retry")
  BY DEF reclaimStaleGoogleCalendarJob, Settled
<1>2. "retry" \in Status \ {"processing"} BY DEF Status
<1>3. QED BY <1>1, <1>2, SettledRows, SettledTyped DEF Typed

\* A new job is a sync of the appointment's new revision, a deletion of it, a
\* cleanup, or a repair of the revision the scan saw.
LEMMA ChangeRows ==
  ASSUME Typed, Change
  PROVE  /\ RowsKept /\ NoneClaimed /\ lock = NoWorker
         /\ appointment.rev + 1 \in Revision /\ appointment'.rev = appointment.rev + 1
         /\ appointment'.active =>
              SyncKey(appointment.rev + 1) \in Jobs' /\ appointment'.sync = "pending"
         /\ \A j \in Jobs' \ Jobs :
              j \in {SyncKey(appointment.rev + 1), TerminalKey(appointment.rev + 1)}
<1> DEFINE r == appointment.rev + 1
<1>1. appointment \in Appointment BY DEF Typed, AppointmentTyped
<1>3. CASE Edit \/ Reactivate
  <2>1. enqueueGoogleCalendarAppointmentMutation BY <1>3 DEF Edit, Reactivate
  <2>2. /\ lock = NoWorker /\ r \in Revision
        /\ appointment' = [appointment EXCEPT !.active = TRUE, !.rev = r, !.sync = "pending"]
        /\ \E t : outbox' = Insert(SyncKey(r), NewRow(KnownEvent, LaneAt(r), t, FALSE))
    BY <2>1 DEF enqueueGoogleCalendarAppointmentMutation
  <2>3. appointment'.rev = r /\ appointment'.sync = "pending" BY <1>1, <2>2 DEF Appointment
  <2>4. RowsKept /\ NoneClaimed /\ Jobs' = Jobs \cup {SyncKey(r)}
    BY <2>2, InsertRows
  <2>5. QED BY <2>2, <2>3, <2>4
<1>4. CASE Cancel
  <2>1. lock = NoWorker /\ r \in Revision BY <1>4 DEF Cancel
  <2>2. appointment' \in {[appointment EXCEPT !.active = FALSE, !.rev = r],
                          [appointment EXCEPT !.active = FALSE, !.rev = r, !.sync = "pending"]}
    BY <1>4 DEF Cancel
  <2>3. appointment'.rev = r /\ ~appointment'.active BY <1>1, <2>2 DEF Appointment
  <2>4. CASE outbox' = outbox BY <2>1, <2>3, <2>4, SameRows
  <2>5. CASE outbox' = Insert(TerminalKey(r), NewRow(KnownEvent, 0, TRUE, FALSE))
    <3>1. RowsKept /\ NoneClaimed /\ Jobs' = Jobs \cup {TerminalKey(r)}
      BY <2>5, InsertRows
    <3>2. QED BY <2>1, <2>3, <3>1
  <2>6. QED BY <1>4, <2>4, <2>5 DEF Cancel
<1>5. QED BY <1>3, <1>4 DEF Change

LEMMA RepairRows ==
  ASSUME Typed, enqueueGoogleCalendarReconciliationDelete
  PROVE  /\ RowsKept /\ NoneClaimed /\ scan # NoScan
         /\ Jobs' = Jobs \cup {<<"reconciliation", scan.rev, scan.event>>}
BY InsertRows DEF enqueueGoogleCalendarReconciliationDelete

LEMMA WorkRows ==
  ASSUME Typed, NEW w \in Worker, Work(w), ~Finish(w)
  PROVE  RowsKept /\ NoneClaimed /\ Jobs' = Jobs
<1>1. CASE PrepareSync(w)
  <2>1. worker[w].key \in Jobs /\ IsSync(worker[w].key) BY <1>1, AtWork DEF PrepareSync
  <2>2. outbox' = outbox \/ \E e : outbox' = Pinned(worker[w].key, e) BY <1>1 DEF PrepareSync
  <2>3. QED BY <2>1, <2>2, PinnedRows, SameRows DEF Typed
<1>2. CASE ~PrepareSync(w)
  <2>1. outbox' = outbox
    <3>1. CASE AtGoogle(w)
      <4>1. AtGoogleStep(w) BY <3>1, AtGoogleSteps
      <4>2. QED BY <4>1 DEF AtGoogleStep
    <3>2. CASE ~AtGoogle(w)
      BY <1>2, <3>2 DEF Work, PrepareDelete, LoseLease, withGoogleCalendarDispatchLock
    <3>3. QED BY <3>1, <3>2
  <2>2. QED BY <2>1, SameRows
<1>3. QED BY <1>1, <1>2

\* Every step but a claim keeps what was not in processing out of it.
LEMMA NextRows ==
  ASSUME Typed, [Next]_vars
  PROVE  /\ RowsKept
         /\ NoneClaimed \/ \E w \in Worker, k \in Jobs : claimIntegrationOutboxJob(w, k)
<1>1. CASE Change BY <1>1, ChangeRows
<1>2. ASSUME NEW w \in Worker, NEW k \in Jobs, claimIntegrationOutboxJob(w, k) PROVE RowsKept
  BY <1>2, ClaimRows
<1>3. ASSUME NEW w \in Worker, Work(w) PROVE RowsKept /\ NoneClaimed
  BY <1>3, WorkRows, FinishRows
<1>4. ASSUME outbox' = outbox PROVE RowsKept /\ NoneClaimed BY <1>4, SameRows
<1>5. ASSUME NEW w \in Worker, Fail(w) \/ Crash(w) \/ LoseAnswer(w) PROVE RowsKept /\ NoneClaimed
  BY <1>4, <1>5 DEF Fail, Crash, LoseAnswer
<1>6. ASSUME NEW k \in Jobs, reclaimStaleGoogleCalendarJob(k) PROVE RowsKept /\ NoneClaimed
  BY <1>6, ReclaimRows
<1>7. ASSUME NEW q \in wire, Land(q) \/ Drop(q) PROVE RowsKept /\ NoneClaimed
  BY <1>4, <1>7 DEF Land, Drop
<1>8. ASSUME NEW e \in Lane, Scan(e) PROVE RowsKept /\ NoneClaimed
  BY <1>4, <1>8 DEF Scan
<1>9. CASE enqueueGoogleCalendarReconciliationDelete BY <1>9, RepairRows
<1>10. CASE UNCHANGED vars BY <1>4, <1>10 DEF vars
<1>11. QED BY <1>1, <1>2, <1>3, <1>5, <1>6, <1>7, <1>8, <1>9, <1>10 DEF Next, Change

(***************************************************************************)
(* One job at a time, so one invocation owns a job.                        *)
(***************************************************************************)
Single ==
  \A j, k \in Jobs :
    outbox[j].status = "processing" /\ outbox[k].status = "processing" => j = k

LEMMA NextSingle ==
  ASSUME Typed, Single, [Next]_vars PROVE Single'
<1>1. RowsKept BY NextRows
<1>2. CASE NoneClaimed
  <2>1. ASSUME NEW j \in Jobs', outbox'[j].status = "processing"
        PROVE  j \in Jobs /\ outbox[j].status = "processing"
    BY <1>1, <1>2, <2>1 DEF RowsKept, NoneClaimed
  <2>2. QED BY <2>1 DEF Single
<1>3. ASSUME NEW w \in Worker, NEW k \in Jobs, claimIntegrationOutboxJob(w, k) PROVE Single'
  <2>1. Jobs' = Jobs /\ \A j \in Jobs : j # k => outbox'[j] = outbox[j] BY <1>3, ClaimStep
  <2>2. \A j \in Jobs : outbox[j].status # "processing" BY <1>3, ClaimRows
  <2>3. QED BY <2>1, <2>2 DEF Single
<1>4. QED BY <1>2, <1>3, NextRows

LEMMA OneOwner ==
  ASSUME Typed, Control, Single, NEW v \in Worker, NEW w \in Worker, Owner(v), Owner(w)
  PROVE  v = w
<1>1. worker[v].key \in Jobs /\ worker[w].key \in Jobs BY AtWork DEF Owner, Busy
<1>2. worker[v].key = worker[w].key BY <1>1 DEF Single, Owner, Owns
<1>3. worker[v].attempt = worker[w].attempt BY <1>2 DEF Owner, Owns
<1>4. QED BY <1>2, <1>3 DEF Control, Lone, Owner

(***************************************************************************)
(* Nothing is ahead of the appointment, and an active appointment has a    *)
(* sync of its revision.                                                   *)
(***************************************************************************)
JobsRevised ==
  /\ \A k \in Jobs : RevOf(k) <= appointment.rev /\ (IsSync(k) => k = SyncKey(RevOf(k)))
  /\ appointment.active => SyncKey(appointment.rev) \in Jobs
  /\ scan # NoScan => scan.rev <= appointment.rev

EventsRevised ==
  /\ \A q \in wire : q.key \in Jobs
  /\ \A e \in Lane : google[e].rev <= appointment.rev

LEMMA RevisionNumbers ==
  ASSUME Typed
  PROVE  /\ appointment.rev \in Nat /\ appointment.rev >= 1 /\ appointment.active \in BOOLEAN
         /\ \A e \in Lane : google[e].rev \in Nat /\ google[e].etag \in Nat
         /\ \A k \in Jobs : RevOf(k) \in Nat /\ RevOf(k) >= 1
<1>1. appointment.rev \in Revision /\ appointment.active \in BOOLEAN
  BY DEF Typed, AppointmentTyped, Appointment
<1>2. \A e \in Lane : google[e].rev \in Nat /\ google[e].etag \in Nat
  BY EventNumbers DEF Typed
<1>3. \A k \in Jobs : RevOf(k) \in Revision BY KeyParts DEF Typed, OutboxTyped
<1>4. QED BY <1>1, <1>2, <1>3 DEF Revision

LEMMA FinishAppointment ==
  ASSUME Typed, NEW w \in Worker, Finish(w)
  PROVE  /\ appointment'.rev = appointment.rev /\ appointment'.active = appointment.active
         /\ UNCHANGED <<lock, google, wire, scan, faults>>
<1>1. appointment \in Appointment BY DEF Typed, AppointmentTyped
<1>2. \/ appointment' = appointment
      \/ \E s : appointment' = [appointment EXCEPT !.sync = s]
      \/ \E e, s : appointment' = [appointment EXCEPT !.event = e, !.sync = s]
  BY DEF Finish, FinishSynced, FinishDeleted, FinishDisabled, finishGoogleJobSuperseded,
         finishGoogleJobFailure, NotOwned
<1>3. FinishStep(w) BY FinishSteps
<1>4. UNCHANGED <<lock, google, wire, scan, faults>> BY <1>3 DEF FinishStep
<1>5. QED BY <1>1, <1>2, <1>4 DEF Appointment

\* The revision and the status change together, while nobody holds the lock.
LEMMA RevisionSteps ==
  ASSUME Typed, [Next]_vars
  PROVE  \/ /\ Change /\ lock = NoWorker /\ appointment'.rev = appointment.rev + 1
            /\ UNCHANGED <<mirror, worker, lock, google, wire, scan, faults>>
         \/ appointment'.rev = appointment.rev /\ appointment'.active = appointment.active
<1>1. CASE Change BY <1>1, ChangeRows, ChangeSteps DEF Change
<1>2. CASE \E w \in Worker : Finish(w) BY <1>2, FinishAppointment
<1>3. CASE UNCHANGED <<appointment, mirror>> BY <1>3
<1>4. QED BY <1>1, <1>2, <1>3, AppointmentSteps

LEMMA NextJobsRevised ==
  ASSUME Typed, Typed', JobsRevised, [Next]_vars PROVE JobsRevised'
<1> DEFINE Ok(j, r) == RevOf(j) <= r /\ (IsSync(j) => j = SyncKey(RevOf(j)))
<1>1. /\ appointment.rev \in Nat
      /\ \A k \in Jobs : RevOf(k) \in Nat
      /\ \A k \in Jobs : Ok(k, appointment.rev)
      /\ appointment.active => SyncKey(appointment.rev) \in Jobs
  BY RevisionNumbers DEF JobsRevised
<1>2. Jobs \subseteq Jobs' BY NextRows DEF RowsKept
<1>3. CASE Change
  <2>1. /\ appointment'.rev = appointment.rev + 1 /\ scan' = scan
        /\ appointment'.active => SyncKey(appointment.rev + 1) \in Jobs'
        /\ \A j \in Jobs' \ Jobs :
              j \in {SyncKey(appointment.rev + 1), TerminalKey(appointment.rev + 1)}
    BY <1>3, ChangeRows, ChangeSteps DEF Change
  <2>2. \A j \in Jobs' \ Jobs : Ok(j, appointment.rev + 1)
    <3>1. ASSUME NEW j \in Jobs' \ Jobs PROVE Ok(j, appointment.rev + 1)
      <4>1. CASE j = SyncKey(appointment.rev + 1)
        BY <1>1, <4>1 DEF SyncKey, RevOf
      <4>2. CASE j = TerminalKey(appointment.rev + 1)
        BY <1>1, <4>2 DEF TerminalKey, RevOf, IsSync
      <4>3. QED BY <2>1, <4>1, <4>2
    <3>2. QED BY <3>1
  <2>3. \A j \in Jobs : Ok(j, appointment.rev + 1) BY <1>1
  <2>4. scan' # NoScan => scan'.rev <= appointment.rev + 1
    <3>1. scan # NoScan => scan.rev \in Nat BY DEF Typed, ScanTyped, Found, Revision
    <3>2. QED BY <1>1, <2>1, <3>1 DEF JobsRevised
  <2>5. \A j \in Jobs' : Ok(j, appointment'.rev) BY <2>1, <2>2, <2>3
  <2> HIDE DEF Ok
  <2>6. QED BY <2>1, <2>4, <2>5 DEF JobsRevised, Ok
<1>4. ASSUME appointment'.rev = appointment.rev, appointment'.active = appointment.active,
             scan' # NoScan => scan'.rev <= appointment.rev,
             \A j \in Jobs' \ Jobs : Ok(j, appointment.rev)
      PROVE  JobsRevised'
  <2>1. \A j \in Jobs' : Ok(j, appointment'.rev) BY <1>1, <1>4
  <2>2. appointment'.active => SyncKey(appointment'.rev) \in Jobs' BY <1>1, <1>2, <1>4
  <2> HIDE DEF Ok
  <2>3. QED BY <1>4, <2>1, <2>2 DEF JobsRevised, Ok
<1>5. ASSUME UNCHANGED <<appointment, scan>>, Jobs' = Jobs PROVE JobsRevised'
  BY <1>4, <1>5 DEF JobsRevised
<1>6. ASSUME NEW w \in Worker, NEW k \in Jobs, claimIntegrationOutboxJob(w, k) PROVE JobsRevised'
  <2>1. Jobs' = Jobs BY <1>6, ClaimRows
  <2>2. QED BY <1>5, <1>6, <2>1 DEF claimIntegrationOutboxJob
<1>7. ASSUME NEW w \in Worker, Finish(w) PROVE JobsRevised'
  <2>1. worker[w].key \in Jobs
    <3>1. FinishStep(w) BY <1>7, FinishSteps
    <3>2. worker[w].pc # "idle" BY <3>1 DEF FinishStep, Answered, Refused
    <3>3. QED BY <3>2, AtWork
  <2>2. \A j \in Jobs' \ Jobs : IsCleanup(j) /\ RevOf(j) = RevOf(worker[w].key)
    BY <1>7, FinishRows
  <2>3. \A j \in Jobs' \ Jobs : Ok(j, appointment.rev)
    BY <1>1, <2>1, <2>2 DEF IsCleanup, IsSync
  <2>4. scan' = scan /\ appointment'.rev = appointment.rev /\ appointment'.active = appointment.active
    BY <1>7, FinishAppointment
  <2>5. QED BY <1>4, <2>3, <2>4 DEF JobsRevised
<1>8. ASSUME NEW w \in Worker, Work(w), ~Finish(w) PROVE JobsRevised'
  <2>1. Jobs' = Jobs BY <1>8, WorkRows
  <2>2. UNCHANGED <<appointment, scan>>
    <3>1. CASE AtGoogle(w)
      <4>1. AtGoogleStep(w) BY <3>1, AtGoogleSteps
      <4>2. QED BY <4>1 DEF AtGoogleStep
    <3>2. CASE ~AtGoogle(w)
      BY <1>8, <3>2 DEF Work, PrepareSync, PrepareDelete, LoseLease, withGoogleCalendarDispatchLock
    <3>3. QED BY <3>1, <3>2
  <2>3. QED BY <1>5, <2>1, <2>2
<1>9. ASSUME UNCHANGED <<appointment, outbox, scan>> PROVE JobsRevised'
  <2>1. Jobs' = Jobs BY <1>9, SameRows
  <2>2. QED BY <1>5, <1>9, <2>1
<1>10. ASSUME NEW w \in Worker, Fail(w) \/ Crash(w) \/ LoseAnswer(w) PROVE JobsRevised'
  BY <1>9, <1>10 DEF Fail, Crash, LoseAnswer
<1>11. ASSUME NEW k \in Jobs, reclaimStaleGoogleCalendarJob(k) PROVE JobsRevised'
  <2>1. Jobs' = Jobs BY <1>11, ReclaimRows
  <2>2. QED BY <1>5, <1>11, <2>1 DEF reclaimStaleGoogleCalendarJob
<1>12. ASSUME NEW q \in wire, Land(q) \/ Drop(q) PROVE JobsRevised'
  BY <1>9, <1>12 DEF Land, Drop
<1>13. ASSUME NEW e \in Lane, Scan(e) PROVE JobsRevised'
  <2>1. UNCHANGED <<appointment, outbox>> /\ scan'.rev = appointment.rev BY <1>13 DEF Scan
  <2>2. Jobs' = Jobs BY <2>1, SameRows
  <2>3. QED BY <1>1, <1>4, <2>1, <2>2
<1>14. CASE enqueueGoogleCalendarReconciliationDelete
  <2> DEFINE k == <<"reconciliation", scan.rev, scan.event>>
  <2>1. scan # NoScan /\ Jobs' = Jobs \cup {k} BY <1>14, RepairRows
  <2>2. appointment' = appointment /\ scan' = NoScan
    BY <1>14 DEF enqueueGoogleCalendarReconciliationDelete
  <2>3. RevOf(k) = scan.rev /\ ~IsSync(k) BY DEF RevOf, IsSync
  <2> HIDE DEF k
  <2>4. Ok(k, appointment.rev) BY <2>1, <2>3 DEF JobsRevised
  <2> HIDE DEF Ok
  <2>5. QED BY <1>4, <2>1, <2>2, <2>4
<1>15. CASE UNCHANGED vars BY <1>9, <1>15 DEF vars
<1>16. QED BY <1>3, <1>6, <1>7, <1>8, <1>10, <1>11, <1>12, <1>13, <1>14, <1>15 DEF Next, Change

LEMMA WireSteps ==
  ASSUME Typed, [Next]_vars
  PROVE  wire' \subseteq wire \/ \E w \in Worker : LoseAnswer(w)
<1>1. CASE \E w \in Worker : Work(w)
  <2>1. PICK w \in Worker : Work(w) BY <1>1
  <2>2. CASE Finish(w) BY <2>2, FinishAppointment
  <2>3. CASE AtGoogle(w)
    <3>1. AtGoogleStep(w) BY <2>3, AtGoogleSteps
    <3>2. QED BY <3>1 DEF AtGoogleStep
  <2>4. CASE ~Finish(w) /\ ~AtGoogle(w)
    BY <2>1, <2>4 DEF Work, PrepareSync, PrepareDelete, LoseLease, withGoogleCalendarDispatchLock
  <2>5. QED BY <2>2, <2>3, <2>4
<1>2. CASE Change BY <1>2, ChangeSteps DEF Change
<1>3. QED
  BY <1>1, <1>2 DEF Next, Change, claimIntegrationOutboxJob, Fail, Crash,
     reclaimStaleGoogleCalendarJob, Land, Drop, Scan,
     enqueueGoogleCalendarReconciliationDelete, vars

\* A write carries the revision of its job.
LEMMA NextEventsRevised ==
  ASSUME Typed, Typed', JobsRevised, EventsRevised, [Next]_vars PROVE EventsRevised'
<1>1. /\ appointment.rev \in Nat /\ appointment'.rev \in {appointment.rev, appointment.rev + 1}
      /\ \A e \in Lane : google[e].rev \in Nat
  BY RevisionNumbers, RevisionSteps
<1>2. Jobs \subseteq Jobs' BY NextRows DEF RowsKept
<1>3. ASSUME NEW q \in wire' PROVE q.key \in Jobs'
  <2>1. CASE q \in wire BY <1>2, <2>1 DEF EventsRevised
  <2>2. CASE q \notin wire
    <3>1. wire' \subseteq wire \/ \E w \in Worker : LoseAnswer(w) BY WireSteps
    <3>2. PICK w \in Worker : LoseAnswer(w) BY <2>2, <3>1
    <3>3. worker[w].pc # "idle" BY <3>2 DEF LoseAnswer, Writing
    <3>4. worker[w].key \in Jobs BY <3>3, AtWork
    <3>5. q = [method |-> Method(w), key |-> worker[w].key,
               event |-> worker[w].target, etag |-> worker[w].etag]
      BY <2>2, <3>2 DEF LoseAnswer
    <3>6. QED BY <1>2, <3>4, <3>5
  <2>3. QED BY <2>1, <2>2
<1>4. ASSUME NEW k \in Jobs, NEW f \in Lane, google' = Written(f, RevOf(k)) \/ google' = Removed(f),
             appointment'.rev = appointment.rev, NEW e \in Lane
      PROVE  google'[e].rev <= appointment'.rev
  <2>1. RevOf(k) <= appointment.rev BY DEF JobsRevised
  <2>2. RevOf(k) \in 0 .. MaxRevision BY KeyParts DEF Typed, OutboxTyped
  <2>3. google'[e].rev \in {RevOf(k), 0, google[e].rev}
    <3>1. CASE google' = Written(f, RevOf(k)) BY <2>2, <3>1, WrittenTyped DEF Typed
    <3>2. CASE google' = Removed(f) BY <3>2, RemovedTyped DEF Typed
    <3>3. QED BY <1>4, <3>1, <3>2
  <2>4. QED BY <1>1, <1>4, <2>1, <2>3 DEF EventsRevised
<1>5. ASSUME NEW e \in Lane PROVE google'[e].rev <= appointment'.rev
  <2>1. CASE google' = google BY <1>1, <2>1 DEF EventsRevised
  <2>2. CASE google' # google /\ \E w \in Worker : AtGoogle(w)
    <3>1. PICK w \in Worker : AtGoogle(w) BY <2>2
    <3>2. AtGoogleStep(w) BY <3>1, AtGoogleSteps
    <3>3. worker[w].pc # "idle" /\ worker[w].pc \in Aiming
      BY <3>1 DEF AtGoogle, ReadForSync, Create, ReadConflicting, Patch, Refresh, ReadForDelete, Delete,
             Aiming, Asking, Writing
    <3>4. worker[w].key \in Jobs /\ worker[w].target \in Lane BY <3>3, AtWork
    <3>5. google' = Written(worker[w].target, RevOf(worker[w].key)) \/ google' = Removed(worker[w].target)
      BY <2>2, <3>1 DEF AtGoogle, ReadForSync, Create, ReadConflicting, Patch, Refresh, ReadForDelete, Delete
    <3>6. appointment'.rev = appointment.rev BY <3>2 DEF AtGoogleStep
    <3>7. QED BY <1>4, <3>4, <3>5, <3>6
  <2>3. CASE google' # google /\ \E q \in wire : Land(q)
    <3>1. PICK q \in wire : Land(q) BY <2>3
    <3>2. q.key \in Jobs /\ q.event \in Lane BY DEF EventsRevised, Typed, WireTyped, Request
    <3>3. google' = Written(q.event, RevOf(q.key)) \/ google' = Removed(q.event)
      BY <2>3, <3>1 DEF Land
    <3>4. appointment'.rev = appointment.rev BY <3>1 DEF Land
    <3>5. QED BY <1>4, <3>2, <3>3, <3>4
  <2>4. QED BY <2>1, <2>2, <2>3, GoogleSteps
<1>6. QED BY <1>3, <1>5 DEF EventsRevised

\* The job of an active appointment that nothing is newer than is its latest sync.
LEMMA Latest ==
  ASSUME Typed, JobsRevised, appointment.active, NEW k \in Jobs, ~IsCleanup(k), ~Newer(k)
  PROVE  RevOf(k) = appointment.rev
<1>1. SyncKey(appointment.rev) \in Jobs /\ RevOf(k) <= appointment.rev BY DEF JobsRevised
<1>2. ~IsCleanup(SyncKey(appointment.rev)) /\ RevOf(SyncKey(appointment.rev)) = appointment.rev
  BY DEF SyncKey, IsCleanup, RevOf
<1>3. ~(appointment.rev > RevOf(k)) BY <1>1, <1>2 DEF Newer
<1>4. appointment.rev \in Nat /\ RevOf(k) \in Nat BY RevisionNumbers
<1>5. QED BY <1>1, <1>3, <1>4

(***************************************************************************)
(* Where an invocation stands, and what its request is about.              *)
(***************************************************************************)
Syncing == {"creating", "patching", "repatching", "conflicted", "refreshing"}
Resting == {"idle", "claimed", "superseded", "failed", "busy", "ambiguous", "disabled"}

LEMMA GoFields ==
  ASSUME Typed, NEW w \in Worker, NEW pc, Go(w, pc)
  PROVE  /\ worker'[w].pc = pc /\ worker'[w].key = worker[w].key
         /\ worker'[w].attempt = worker[w].attempt
         /\ worker'[w].event = worker[w].event /\ worker'[w].target = worker[w].target
         /\ worker'[w].etag = worker[w].etag
         /\ \A v \in Worker : v # w => worker'[v] = worker[v]
<1>1. worker'[w] = [worker[w] EXCEPT !.pc = pc] /\ \A v \in Worker : v # w => worker'[v] = worker[v]
  BY DEF Go, Typed, WorkerTyped
<1>2. worker[w] \in Process BY DEF Typed, WorkerTyped
<1>3. QED BY <1>1, <1>2 DEF Process

LEMMA ContinueFields ==
  ASSUME Typed, NEW w \in Worker, NEW pc, Continue(w, pc)
  PROVE  /\ worker'[w].pc = pc /\ worker'[w].key = worker[w].key
         /\ worker'[w].attempt = worker[w].attempt
         /\ worker'[w].target = worker[w].target
         /\ worker'[w].etag = google[worker[w].target].etag
         /\ \A v \in Worker : v # w => worker'[v] = worker[v]
<1> DEFINE n == google[worker[w].target].etag
<1>1. worker' = [worker EXCEPT ![w].pc = pc, ![w].etag = n] BY DEF Continue
<1> HIDE DEF n
<1>2. /\ worker'[w] = [worker[w] EXCEPT !.pc = pc, !.etag = n]
      /\ \A v \in Worker : v # w => worker'[v] = worker[v]
  BY <1>1 DEF Typed, WorkerTyped
<1>3. worker[w] \in Process BY DEF Typed, WorkerTyped
<1>4. worker'[w].etag = n /\ worker'[w].pc = pc /\ worker'[w].key = worker[w].key
      /\ worker'[w].attempt = worker[w].attempt /\ worker'[w].target = worker[w].target
  BY <1>2, <1>3 DEF Process
<1>5. QED BY <1>2, <1>4 DEF n

LEMMA CreatingFields ==
  ASSUME Typed, NEW w \in Worker, NEW l,
         worker' = [worker EXCEPT ![w].pc = "creating", ![w].target = l]
  PROVE  /\ worker'[w].pc = "creating" /\ worker'[w].key = worker[w].key
         /\ worker'[w].attempt = worker[w].attempt
         /\ \A v \in Worker : v # w => worker'[v] = worker[v]
<1> DEFINE p == [worker[w] EXCEPT !.pc = "creating", !.target = l]
<1>1. worker[w] \in Process BY DEF Typed, WorkerTyped
<1>2. p.pc = "creating" /\ p.key = worker[w].key /\ p.attempt = worker[w].attempt
  BY ONLY <1>1 DEF Process
<1>3. worker'[w] = p /\ \A v \in Worker : v # w => worker'[v] = worker[v]
  BY DEF Typed, WorkerTyped
<1> HIDE DEF p
<1>4. QED BY <1>2, <1>3

\* A turn of a sync: on, given up, or done, with the event no older than the job.
SyncTurn(w) ==
  /\ worker[w].pc \in Syncing \/ (worker[w].pc = "reading" /\ IsSync(worker[w].key))
  /\ \/ worker'[w].pc \in Syncing \cup {"failed"} /\ google' = google
     \/ /\ worker'[w].pc = "synced" /\ worker'[w].target = worker[w].target
        /\ \/ google' = google /\ AtLeast(worker[w].target, worker[w].key)
           \/ google' = Written(worker[w].target, RevOf(worker[w].key))

\* A turn of a deletion: on, under the etag it reads, given up, or done, with the
\* event gone.
DeleteTurn(w) ==
  /\ worker[w].pc = "deleting" \/ (worker[w].pc = "reading" /\ ~IsSync(worker[w].key))
  /\ worker'[w].target = worker[w].target
  /\ \/ worker'[w].pc = "failed" /\ google' = google
     \/ /\ worker'[w].pc = "deleting" /\ google' = google
        /\ worker'[w].etag = google[worker[w].target].etag
     \/ /\ worker'[w].pc = "deleted"
        /\ \/ google' = google /\ ~Exists(worker[w].target)
           \/ google' = Removed(worker[w].target)

Turn(w) ==
  /\ worker'[w].key = worker[w].key /\ worker'[w].attempt = worker[w].attempt
  /\ \A v \in Worker : v # w => worker'[v] = worker[v]
  /\ SyncTurn(w) \/ DeleteTurn(w)

LEMMA Turns ==
  ASSUME Typed, NEW w \in Worker, AtGoogle(w) PROVE Turn(w)
<1> DEFINE e == worker[w].target
           k == worker[w].key
           Kept == /\ worker'[w].key = k /\ worker'[w].attempt = worker[w].attempt
                   /\ \A v \in Worker : v # w => worker'[v] = worker[v]
<1>1. ASSUME NEW pc, Answer(w, pc)
      PROVE  Kept /\ worker'[w].pc = pc /\ worker'[w].target = e
  BY <1>1, GoFields DEF Answer
<1>2. ASSUME NEW pc, Continue(w, pc)
      PROVE  Kept /\ worker'[w].pc = pc /\ worker'[w].target = e /\ worker'[w].etag = google[e].etag
  BY <1>2, ContinueFields
<1>3. ASSUME NEW l, worker' = [worker EXCEPT ![w].pc = "creating", ![w].target = l]
      PROVE  Kept /\ worker'[w].pc = "creating"
  BY <1>3, CreatingFields
<1>4. CASE ReadForSync(w)
  <2>1. worker[w].pc = "reading" /\ IsSync(k) /\ google' = google BY <1>4 DEF ReadForSync
  <2>2. \/ worker' = [worker EXCEPT ![w].pc = "creating", ![w].target = outbox[k].lane]
        \/ AtLeast(e, k) /\ Answer(w, "synced")
        \/ Continue(w, "patching")
    BY <1>4 DEF ReadForSync
  <2>3. QED BY <1>1, <1>2, <1>3, <2>1, <2>2 DEF Turn, SyncTurn, Syncing
<1>5. CASE Create(w)
  <2>1. worker[w].pc \in Syncing BY <1>5 DEF Create, Syncing
  <2>2. \/ Go(w, "conflicted") /\ google' = google
        \/ Answer(w, "synced") /\ google' = Written(e, RevOf(k))
    BY <1>5 DEF Create
  <2>3. Go(w, "conflicted") => Kept /\ worker'[w].pc = "conflicted" BY GoFields
  <2>4. QED BY <1>1, <2>1, <2>2, <2>3 DEF Turn, SyncTurn, Syncing
<1>6. CASE ReadConflicting(w)
  <2>1. worker[w].pc \in Syncing /\ google' = google BY <1>6 DEF ReadConflicting, Syncing
  <2>2. \/ Answer(w, "failed")
        \/ AtLeast(e, k) /\ Answer(w, "synced")
        \/ Continue(w, "repatching")
    BY <1>6 DEF ReadConflicting
  <2>3. QED BY <1>1, <1>2, <2>1, <2>2 DEF Turn, SyncTurn, Syncing
<1>7. CASE Patch(w)
  <2>1. worker[w].pc \in Syncing BY <1>7 DEF Patch, Syncing
  <2>2. \/ Answer(w, "failed") /\ google' = google
        \/ /\ worker' = [worker EXCEPT ![w].pc = "creating", ![w].target = outbox[k].lane]
           /\ google' = google
        \/ Answer(w, "synced") /\ google' = Written(e, RevOf(k))
        \/ Continue(w, "refreshing") /\ google' = google
    BY <1>7 DEF Patch
  <2>3. QED BY <1>1, <1>2, <1>3, <2>1, <2>2 DEF Turn, SyncTurn, Syncing
<1>8. CASE Refresh(w)
  <2>1. worker[w].pc \in Syncing /\ google' = google BY <1>8 DEF Refresh, Syncing
  <2>2. Answer(w, "failed") \/ (AtLeast(e, k) /\ Answer(w, "synced")) BY <1>8 DEF Refresh
  <2>3. QED BY <1>1, <2>1, <2>2 DEF Turn, SyncTurn, Syncing
<1>9. CASE ReadForDelete(w)
  <2>1. worker[w].pc = "reading" /\ ~IsSync(k) /\ google' = google BY <1>9 DEF ReadForDelete
  <2>2. \/ ~Exists(e) /\ Answer(w, "deleted")
        \/ Answer(w, "failed")
        \/ Continue(w, "deleting")
    BY <1>9 DEF ReadForDelete
  <2>3. QED BY <1>1, <1>2, <2>1, <2>2 DEF Turn, DeleteTurn
<1>10. CASE Delete(w)
  <2>1. worker[w].pc = "deleting" BY <1>10 DEF Delete
  <2>2. \/ Answer(w, "failed") /\ google' = google
        \/ Answer(w, "deleted") /\ google' = Removed(e)
    BY <1>10 DEF Delete
  <2>3. QED BY <1>1, <2>1, <2>2 DEF Turn, DeleteTurn
<1>11. QED BY <1>4, <1>5, <1>6, <1>7, <1>8, <1>9, <1>10 DEF AtGoogle

\* The preparation and the dispatch.
Prepared(w) ==
  /\ worker[w].pc = "claimed" /\ worker'[w].pc = "ready"
  /\ worker'[w].key = worker[w].key
  /\ ~IsSync(worker[w].key) => worker'[w].target = outbox[worker[w].key].event

Dispatched(w) ==
  /\ worker[w].pc = "ready" /\ worker'[w].pc \in {"creating", "reading"}
  /\ worker'[w].pc = "creating" => IsSync(worker[w].key)
  /\ worker'[w].key = worker[w].key /\ worker'[w].target = worker[w].target
  /\ lock = NoWorker /\ lock' = w /\ Owns(w) /\ StillCurrent(worker[w].key)
  /\ UNCHANGED <<appointment, outbox, mirror, google, wire, faults>>

LEMMA Preparations ==
  ASSUME Typed, NEW w \in Worker, PrepareSync(w) \/ PrepareDelete(w)
  PROVE  /\ worker'[w].pc \in Resting \/ Prepared(w)
         /\ \A v \in Worker : v # w => worker'[v] = worker[v]
<1>1. CASE PrepareSync(w)
  <2>1. IsSync(worker[w].key) /\ worker[w].pc = "claimed" BY <1>1 DEF PrepareSync
  <2>2. PICK p : Moves(w, p) /\ p.pc \in {"superseded", "disabled", "failed", "ambiguous", "ready"}
    BY <1>1, PrepareSyncStep
  <2>3. worker'[w] = p /\ \A v \in Worker : v # w => worker'[v] = worker[v]
    BY <2>2 DEF Moves, Typed, WorkerTyped
  <2>4. p.pc # "idle" => p.key = worker[w].key BY <2>2 DEF Moves
  <2>5. QED BY <2>1, <2>2, <2>3, <2>4 DEF Prepared, Resting
<1>2. CASE PrepareDelete(w)
  <2> DEFINE k == worker[w].key
             e == outbox[k].event
             moot == ~IsCleanup(k) /\ appointment.event # e /\ mirror[e] # "active"
             pc == IF ~StillCurrent(k) \/ ~PairOwned(k, e) \/ moot THEN "superseded"
                   ELSE IF mirror[e] = "deleted" /\ ~outbox[k].mirrored
                     THEN IF k[1] = "reconciliation" THEN "failed" ELSE "disabled"
                   ELSE "ready"
  <2>1. worker[w].pc = "claimed" /\ ~IsSync(k) BY <1>2 DEF PrepareDelete
  <2>2. worker' = [worker EXCEPT ![w].event = e, ![w].target = e, ![w].pc = pc]
    BY <1>2 DEF PrepareDelete
  <2>3. pc \in {"superseded", "disabled", "failed", "ambiguous", "ready"} OBVIOUS
  <2>4. worker[w] \in Process BY DEF Typed, WorkerTyped
  <2> HIDE DEF pc, e, k
  <2>5. /\ worker'[w] = [worker[w] EXCEPT !.event = e, !.target = e, !.pc = pc]
        /\ \A v \in Worker : v # w => worker'[v] = worker[v]
    BY <2>2 DEF Typed, WorkerTyped
  <2>6. worker'[w].target = e /\ worker'[w].pc = pc /\ worker'[w].key = worker[w].key
    BY <2>4, <2>5 DEF Process
  <2>7. QED BY <2>1, <2>3, <2>5, <2>6 DEF Prepared, Resting, e, k
<1>3. QED BY <1>1, <1>2

LEMMA Dispatches ==
  ASSUME Typed, NEW w \in Worker, withGoogleCalendarDispatchLock(w)
  PROVE  /\ worker'[w].pc \in Resting \/ Dispatched(w)
         /\ \A v \in Worker : v # w => worker'[v] = worker[v]
<1>1. worker[w].pc = "ready" /\ UNCHANGED <<appointment, outbox, mirror, google, wire, faults>>
  BY DEF withGoogleCalendarDispatchLock
<1>2. \/ \E pc \in {"failed", "superseded"} : Go(w, pc)
      \/ \E pc \in {"creating", "reading"} :
           /\ Go(w, pc) /\ (pc = "creating" => IsSync(worker[w].key))
           /\ lock = NoWorker /\ lock' = w /\ Owns(w) /\ StillCurrent(worker[w].key)
  BY DEF withGoogleCalendarDispatchLock
<1>3. CASE \E pc \in {"failed", "superseded"} : Go(w, pc)
  BY <1>3, GoFields DEF Resting
<1>4. CASE \E pc \in {"creating", "reading"} :
             /\ Go(w, pc) /\ (pc = "creating" => IsSync(worker[w].key))
             /\ lock = NoWorker /\ lock' = w /\ Owns(w) /\ StillCurrent(worker[w].key)
  <2>1. PICK pc \in {"creating", "reading"} :
             /\ Go(w, pc) /\ (pc = "creating" => IsSync(worker[w].key))
             /\ lock = NoWorker /\ lock' = w /\ Owns(w) /\ StillCurrent(worker[w].key)
    BY <1>4
  <2>2. QED BY <1>1, <2>1, GoFields DEF Dispatched
<1>5. QED BY <1>2, <1>3, <1>4

\* What can happen to an invocation in a step.
LEMMA WorkerSteps ==
  ASSUME Typed, [Next]_vars, NEW w \in Worker
  PROVE  \/ worker'[w] = worker[w]
         \/ worker'[w].pc \in Resting
         \/ Prepared(w) \/ Dispatched(w)
         \/ AtGoogle(w) /\ Turn(w)
<1>1. CASE Change BY <1>1, ChangeSteps DEF Change
<1>2. ASSUME NEW v \in Worker, NEW k \in Jobs, claimIntegrationOutboxJob(v, k)
      PROVE  worker'[w] = worker[w] \/ worker'[w].pc \in Resting
  BY <1>2, ClaimStep DEF Resting
<1>3. ASSUME NEW v \in Worker, Work(v)
      PROVE  \/ worker'[w] = worker[w]
             \/ worker'[w].pc \in Resting
             \/ Prepared(w) \/ Dispatched(w)
             \/ AtGoogle(w) /\ Turn(w)
  <2>1. CASE PrepareSync(v) \/ PrepareDelete(v) BY <2>1, Preparations
  <2>2. CASE LoseLease(v) BY <2>2, GoFields DEF LoseLease, Resting
  <2>3. CASE withGoogleCalendarDispatchLock(v) BY <2>3, Dispatches
  <2>4. CASE AtGoogle(v) BY <2>4, Turns DEF Turn
  <2>5. CASE Finish(v)
    <3>1. FinishStep(v) BY <2>5, FinishSteps
    <3>2. Moves(v, Idle) BY <3>1 DEF FinishStep
    <3>3. QED BY <3>2, IdleTyped DEF Moves, Typed, WorkerTyped, Resting
  <2>6. QED BY <1>3, <2>1, <2>2, <2>3, <2>4, <2>5 DEF Work
<1>4. ASSUME NEW v \in Worker, Fail(v) \/ Crash(v) \/ LoseAnswer(v)
      PROVE  worker'[w] = worker[w] \/ worker'[w].pc \in Resting
  <2>1. PICK p : Moves(v, p) /\ p.pc \in {"failed", "busy", "idle"} BY <1>4, FaultSteps
  <2>2. QED BY <2>1 DEF Moves, Typed, WorkerTyped, Resting
<1>5. QED
  BY <1>1, <1>2, <1>3, <1>4 DEF Next, Change, reclaimStaleGoogleCalendarJob, Land, Drop, Scan,
     enqueueGoogleCalendarReconciliationDelete, vars

Removing == {"deleting", "deleted"}

\* A sync creates and patches, another job deletes the event it names.
Aimed ==
  \A w \in Worker :
    /\ worker[w].pc \in Syncing \cup {"synced"} => IsSync(worker[w].key)
    /\ worker[w].pc \in Removing => ~IsSync(worker[w].key)
    /\ worker[w].pc \in {"ready", "reading"} \cup Removing /\ ~IsSync(worker[w].key) =>
         worker[w].target = outbox[worker[w].key].event

LEMMA NextAimed ==
  ASSUME Typed, Aimed, [Next]_vars PROVE Aimed'
<1> DEFINE Ok(p, rows) ==
      /\ p.pc \in Syncing \cup {"synced"} => IsSync(p.key)
      /\ p.pc \in Removing => ~IsSync(p.key)
      /\ p.pc \in {"ready", "reading"} \cup Removing /\ ~IsSync(p.key) =>
           p.target = rows[p.key].event
<1>1. ASSUME NEW w \in Worker PROVE Ok(worker'[w], outbox')
  <2>1. Ok(worker[w], outbox) BY DEF Aimed
  <2>2. worker[w].pc # "idle" => worker[w].key \in Jobs BY AtWork
  <2>3. \A j \in Jobs : ~IsSync(j) => outbox'[j].event = outbox[j].event
    BY NextRows DEF RowsKept
  <2>4. worker[w].pc # "idle" => Ok(worker[w], outbox')
    BY <2>1, <2>2, <2>3
  <2>5. CASE worker'[w] = worker[w]
    <3>1. "idle" \notin Syncing \cup {"synced", "ready", "reading"} \cup Removing
      BY DEF Syncing, Removing
    <3>2. QED BY <2>4, <2>5, <3>1
  <2>6. CASE worker'[w].pc \in Resting
    BY <2>6 DEF Resting, Syncing, Removing
  <2>7. CASE Prepared(w)
    BY <2>2, <2>3, <2>7 DEF Prepared, Syncing, Removing
  <2>8. CASE Dispatched(w)
    BY <2>1, <2>2, <2>3, <2>8 DEF Dispatched, Syncing, Removing
  <2>9. CASE Turn(w)
    <3>1. worker'[w].key = worker[w].key BY <2>9 DEF Turn
    <3>2. CASE SyncTurn(w)
      <4>1. IsSync(worker[w].key) BY <2>1, <3>2 DEF SyncTurn
      <4>2. worker'[w].pc \notin Removing BY <3>2 DEF SyncTurn, Syncing, Removing
      <4>3. QED BY <3>1, <4>1, <4>2
    <3>3. CASE DeleteTurn(w)
      <4>1. /\ worker[w].pc \in {"deleting", "reading"} /\ ~IsSync(worker[w].key)
            /\ worker'[w].target = worker[w].target
        BY <2>1, <3>3 DEF DeleteTurn, Removing
      <4>2. worker'[w].target = outbox'[worker[w].key].event
        BY <2>1, <2>2, <2>3, <4>1 DEF Removing
      <4>3. worker'[w].pc \notin Syncing \cup {"synced"} BY <3>3 DEF DeleteTurn, Syncing
      <4>4. QED BY <3>1, <4>1, <4>2, <4>3
    <3>4. QED BY <2>9, <3>2, <3>3 DEF Turn
  <2>10. QED BY <2>5, <2>6, <2>7, <2>8, <2>9, WorkerSteps
<1>2. QED BY <1>1 DEF Aimed

(***************************************************************************)
(* While one invocation owns its job, nobody else records an answer, and   *)
(* nobody else is at Google.                                               *)
(***************************************************************************)
LEMMA AtGoogleOwns ==
  ASSUME Control, NEW w \in Worker, AtGoogle(w)
  PROVE  worker[w].pc \in Asking /\ lock = w /\ Owner(w)
<1>1. worker[w].pc \in Asking
  BY DEF AtGoogle, ReadForSync, Create, ReadConflicting, Patch, Refresh, ReadForDelete, Delete,
         Asking, Writing
<1>2. lock = w BY <1>1 DEF Control, Locked
<1>3. QED BY <1>1, <1>2, HolderBusy DEF Owner

LEMMA FinishOwns ==
  ASSUME NEW w \in Worker, Finish(w)
  PROVE  /\ worker[w].pc \in Answered \cup Refused \cup {"superseded"}
         /\ worker[w].pc \notin Asking
         /\ \/ ~Owner(w) /\ UNCHANGED <<appointment, outbox, mirror>>
            \/ Owner(w) /\ ~NotOwned(w)
<1>1. worker[w].pc \in Answered \cup Refused \cup {"superseded"}
  BY DEF Finish, FinishSynced, FinishDeleted, FinishDisabled, finishGoogleJobSuperseded,
         finishGoogleJobFailure, NotOwned, Done, Answered, Refused
<1>2. Busy(w) /\ worker[w].pc \notin Asking BY <1>1 DEF Busy, Answered, Refused, Asking, Writing
<1>3. CASE NotOwned(w) BY <1>1, <1>2, <1>3 DEF NotOwned, Owner
<1>4. CASE ~NotOwned(w)
  BY <1>1, <1>2, <1>4 DEF Finish, FinishSynced, FinishDeleted, FinishDisabled,
     finishGoogleJobSuperseded, finishGoogleJobFailure, Done, Owner
<1>5. QED BY <1>3, <1>4

LEMMA OwnerRecords ==
  ASSUME Typed, Control, Single, [Next]_vars, NEW w \in Worker, Owner(w)
  PROVE  Change \/ Finish(w) \/ UNCHANGED <<appointment, mirror>>
<1>1. CASE Change BY <1>1
<1>2. ASSUME NEW v \in Worker, Finish(v) PROVE Finish(w) \/ UNCHANGED <<appointment, mirror>>
  <2>1. CASE Owner(v) BY <1>2, <2>1, OneOwner
  <2>2. CASE ~Owner(v) BY <1>2, <2>2, FinishOwns
  <2>3. QED BY <2>1, <2>2
<1>3. QED BY <1>1, <1>2, AppointmentSteps

LEMMA OwnerAsks ==
  ASSUME Typed, Control, Single, [Next]_vars, NEW w \in Worker, Owner(w)
  PROVE  google' = google \/ AtGoogle(w) \/ \E q \in wire : Land(q)
<1>1. ASSUME NEW v \in Worker, AtGoogle(v) PROVE AtGoogle(w)
  BY <1>1, AtGoogleOwns, OneOwner
<1>2. QED BY <1>1, GoogleSteps

LEMMA LockFreezes ==
  ASSUME Typed, Control, Single, [Next]_vars, NEW w \in Worker, lock = w
  PROVE  UNCHANGED <<appointment, mirror>>
<1>1. Owner(w) BY HolderBusy DEF Owner
<1>2. ~Change BY ChangeRows, Numbers
<1>3. worker[w].pc \in Asking BY DEF Control, Locked
<1>4. ~Finish(w) BY <1>3, FinishOwns
<1>5. QED BY <1>1, <1>2, <1>4, OwnerRecords

(***************************************************************************)
(* What was checked under the lock stays so under it.                      *)
(***************************************************************************)
Fenced ==
  \A w \in Worker : lock = w =>
    /\ IsSync(worker[w].key) => appointment.active /\ RevOf(worker[w].key) = appointment.rev
    /\ ~IsSync(worker[w].key) /\ appointment.active =>
         IsCleanup(worker[w].key) /\ ~Adopted(worker[w].target)

LEMMA NextFenced ==
  ASSUME Typed, Control, Control', Single, JobsRevised, Aimed, Fenced, [Next]_vars
  PROVE  Fenced'
<1> SUFFICES ASSUME NEW w \in Worker, lock' = w
             PROVE  /\ IsSync(worker'[w].key) =>
                         appointment'.active /\ RevOf(worker'[w].key) = appointment'.rev
                    /\ ~IsSync(worker'[w].key) /\ appointment'.active =>
                         IsCleanup(worker'[w].key) /\ ~Adopted(worker[w].target)'
  BY DEF Fenced
<1>1. worker'[w].pc \in Asking BY DEF Control, Locked
<1>2. ASSUME lock = w PROVE UNCHANGED <<appointment, mirror>> BY <1>2, LockFreezes
<1>3. CASE worker'[w] = worker[w]
  <2>1. lock = w BY <1>1, <1>3 DEF Control, Locked
  <2>2. UNCHANGED <<appointment, mirror>> BY <1>2, <2>1
  <2>3. Adopted(worker[w].target)' <=> Adopted(worker[w].target)
    <3>1. Linked' = Linked BY <2>2 DEF Linked
    <3>2. QED BY <1>3, <2>2, <3>1 DEF Adopted
  <2>4. QED BY <1>3, <2>1, <2>2, <2>3 DEF Fenced
<1>4. CASE worker'[w].pc \in Resting \/ Prepared(w)
  BY <1>1, <1>4 DEF Prepared, Resting, Asking, Writing
<1>5. CASE Dispatched(w)
  <2> DEFINE k == worker[w].key
             e == worker[w].target
  <2>1. /\ worker'[w].key = k /\ worker'[w].target = e /\ worker[w].pc = "ready"
        /\ StillCurrent(k) /\ UNCHANGED <<appointment, mirror>>
    BY <1>5 DEF Dispatched
  <2>2. k \in Jobs /\ k \in Key BY <2>1, AtWork
  <2>3. IsSync(k) => appointment.active /\ RevOf(k) = appointment.rev
    <3>1. ASSUME IsSync(k) PROVE appointment.active /\ ~Newer(k) /\ ~IsCleanup(k)
      BY <2>1, <3>1 DEF StillCurrent, IsSync, IsCleanup
    <3>2. QED BY <2>2, <3>1, Latest
  <2>4. ~IsSync(k) /\ appointment.active => IsCleanup(k) /\ ~Adopted(e)
    <3>1. ASSUME ~IsSync(k), appointment.active PROVE IsCleanup(k) /\ ~Adopted(e)
      <4>1. k[1] \in Kind BY <2>2 DEF Key
      <4>2. k[1] = "cleanup" BY <2>1, <3>1, <4>1 DEF StillCurrent, IsSync, Kind
      <4>3. e = outbox[k].event BY <2>1, <3>1 DEF Aimed
      <4>4. QED BY <2>1, <4>2, <4>3 DEF StillCurrent, IsCleanup
    <3>2. QED BY <3>1
  <2>5. Adopted(worker[w].target)' <=> Adopted(e)
    <3>1. Linked' = Linked BY <2>1 DEF Linked
    <3>2. QED BY <2>1, <3>1 DEF Adopted
  <2>6. QED BY <2>1, <2>3, <2>4, <2>5
<1>6. CASE AtGoogle(w) /\ Turn(w)
  <2>1. lock = w BY <1>6, AtGoogleOwns
  <2>2. UNCHANGED <<appointment, mirror>> BY <1>2, <2>1
  <2>3. worker'[w].key = worker[w].key BY <1>6 DEF Turn
  <2>4. ~IsSync(worker[w].key) => worker'[w].target = worker[w].target
    BY <1>6 DEF Turn, SyncTurn, DeleteTurn, Aimed
  <2>5. Adopted(worker[w].target)' /\ ~IsSync(worker[w].key) => Adopted(worker[w].target)
    <3>1. Linked' = Linked BY <2>2 DEF Linked
    <3>2. QED BY <2>2, <2>4, <3>1 DEF Adopted
  <2>6. QED BY <2>1, <2>2, <2>3, <2>5 DEF Fenced
<1>7. QED BY <1>3, <1>4, <1>5, <1>6, WorkerSteps

(***************************************************************************)
(* Events between two steps.                                               *)
(***************************************************************************)
LEMMA EventSteps ==
  ASSUME Typed, [Next]_vars, NEW e \in Lane
  PROVE  \/ google'[e] = google[e]
         \/ google'[e].etag = google[e].etag + 1
         \/ google'[e].rev = 0
<1>1. ASSUME NEW f \in Lane, NEW r \in 0 .. MaxRevision, google' = Written(f, r) \/ google' = Removed(f)
      PROVE  \/ google'[e] = google[e]
             \/ google'[e].etag = google[e].etag + 1
             \/ google'[e].rev = 0
  <2>1. CASE google' = Written(f, r) BY <2>1, WrittenTyped DEF Typed
  <2>2. CASE google' = Removed(f) BY <2>2, RemovedTyped DEF Typed
  <2>3. QED BY <1>1, <2>1, <2>2
<1>2. ASSUME NEW w \in Worker, AtGoogle(w), google' # google
      PROVE  \E f \in Lane, r \in 0 .. MaxRevision : google' = Written(f, r) \/ google' = Removed(f)
  <2>1. worker[w].pc # "idle" /\ worker[w].pc \in Aiming
    BY <1>2 DEF AtGoogle, ReadForSync, Create, ReadConflicting, Patch, Refresh, ReadForDelete, Delete,
             Aiming, Asking, Writing
  <2>2. RevOf(worker[w].key) \in 0 .. MaxRevision /\ worker[w].target \in Lane
    BY <2>1, AtWork, KeyParts
  <2>3. google' = Written(worker[w].target, RevOf(worker[w].key)) \/ google' = Removed(worker[w].target)
    BY <1>2 DEF AtGoogle, ReadForSync, Create, ReadConflicting, Patch, Refresh, ReadForDelete, Delete
  <2>4. QED BY <2>2, <2>3
<1>3. ASSUME NEW q \in wire, Land(q), google' # google
      PROVE  \E f \in Lane, r \in 0 .. MaxRevision : google' = Written(f, r) \/ google' = Removed(f)
  <2>1. q.event \in Lane /\ RevOf(q.key) \in 0 .. MaxRevision
    BY KeyParts DEF Typed, WireTyped, Request
  <2>2. google' = Written(q.event, RevOf(q.key)) \/ google' = Removed(q.event)
    BY <1>3 DEF Land
  <2>3. QED BY <2>1, <2>2
<1>4. QED BY <1>1, <1>2, <1>3, GoogleSteps

\* A deletion knows an etag the event had.
EtagKnown ==
  /\ \A w \in Worker : worker[w].pc = "deleting" => worker[w].etag <= google[worker[w].target].etag
  /\ \A q \in wire : q.method = "DELETE" => q.etag <= google[q.event].etag

LEMMA NextEtagKnown ==
  ASSUME Typed, Typed', Fresh, EtagKnown, [Next]_vars PROVE EtagKnown'
<1>1. \A e \in Lane : /\ google[e].etag <= google'[e].etag
                      /\ google[e].etag \in Nat /\ google'[e].etag \in Nat
  <2>1. GoogleMoves BY NextMoves
  <2>2. \A e \in Lane : google[e].etag \in Nat BY RevisionNumbers
  <2>3. \A e \in Lane : google'[e].etag \in Nat BY DEF Typed, GoogleTyped, EventAtGoogle
  <2>4. QED BY <2>1, <2>2, <2>3 DEF GoogleMoves
<1>2. \A w \in Worker : worker[w].pc = "deleting" => worker[w].target \in Lane /\ worker[w].etag \in Nat
  BY AtWork DEF Aiming, Asking, Writing, Process
<1>3. \A q \in wire : q.event \in Lane /\ q.etag \in Nat BY DEF Typed, WireTyped, Request
<1>4. ASSUME NEW w \in Worker, worker'[w].pc = "deleting"
      PROVE  worker'[w].etag <= google'[worker'[w].target].etag
  <2>1. CASE worker'[w] = worker[w]
    BY <1>1, <1>2, <1>4, <2>1 DEF EtagKnown
  <2>2. CASE worker'[w].pc \in Resting \/ Prepared(w) \/ Dispatched(w)
    BY <1>4, <2>2 DEF Resting, Prepared, Dispatched
  <2>3. CASE Turn(w)
    <3>1. DeleteTurn(w) BY <1>4, <2>3 DEF Turn, SyncTurn, Syncing
    <3>2. /\ google' = google /\ worker'[w].target = worker[w].target
          /\ worker'[w].etag = google[worker[w].target].etag
      BY <1>4, <3>1 DEF DeleteTurn
    <3>3. worker[w].target \in Lane
      BY <3>1, AtWork DEF DeleteTurn, Aiming, Asking, Writing
    <3>4. QED BY <1>1, <3>2, <3>3
  <2>4. QED BY <2>1, <2>2, <2>3, WorkerSteps
<1>5. ASSUME NEW q \in wire', q.method = "DELETE" PROVE q.etag <= google'[q.event].etag
  <2>1. CASE q \in wire BY <1>1, <1>3, <1>5, <2>1 DEF EtagKnown
  <2>2. CASE q \notin wire
    <3>1. PICK w \in Worker : LoseAnswer(w) BY <2>2, WireSteps
    <3>2. /\ q = [method |-> Method(w), key |-> worker[w].key,
                  event |-> worker[w].target, etag |-> worker[w].etag]
          /\ google' = google
      BY <2>2, <3>1 DEF LoseAnswer
    <3>3. worker[w].pc = "deleting" BY <1>5, <3>2 DEF Method
    <3>4. QED BY <3>2, <3>3 DEF EtagKnown
  <2>3. QED BY <2>1, <2>2
<1>6. QED BY <1>4, <1>5 DEF EtagKnown

(***************************************************************************)
(* How an answer comes to be, and stays until it is recorded.              *)
(***************************************************************************)
LEMMA OwnerCame ==
  ASSUME Typed, Control, [Next]_vars, NEW w \in Worker,
         worker'[w].pc \in {"synced", "deleted"}, Owns(w)'
  PROVE  \/ worker'[w] = worker[w] /\ Owner(w)
         \/ AtGoogle(w) /\ Turn(w)
<1>1. CASE worker'[w] = worker[w]
  <2>1. Busy(w) BY <1>1 DEF Busy
  <2>2. worker[w].key \in Jobs /\ worker[w].attempt <= outbox[worker[w].key].attempts
    BY <2>1, AtWork DEF Busy, Control, Behind
  <2>3. /\ outbox'[worker[w].key].status = "processing"
        /\ outbox'[worker[w].key].attempts = worker[w].attempt
    BY <1>1 DEF Owns
  <2>4. CASE NoneClaimed BY <1>1, <2>1, <2>2, <2>3, <2>4 DEF NoneClaimed, Owner, Owns
  <2>5. ASSUME NEW v \in Worker, NEW k \in Jobs, claimIntegrationOutboxJob(v, k) PROVE FALSE
    <3>1. /\ outbox'[k].attempts = outbox[k].attempts + 1
          /\ \A j \in Jobs : j # k => outbox'[j] = outbox[j]
      BY <2>5, ClaimStep
    <3>2. \A j \in Jobs : outbox[j].status # "processing" BY <2>5, ClaimRows
    <3>3. worker[w].key = k BY <2>2, <2>3, <3>1, <3>2
    <3>4. worker[w].attempt = outbox[k].attempts + 1 BY <2>3, <3>1, <3>3
    <3>5. worker[w].attempt <= outbox[k].attempts BY <2>2, <3>3
    <3>6. outbox[k].attempts \in Nat BY DEF Typed, OutboxTyped, Row
    <3>7. QED BY <3>4, <3>5, <3>6
  <2>6. QED BY <2>4, <2>5, NextRows
<1>2. CASE worker'[w].pc \in Resting \/ Prepared(w) \/ Dispatched(w)
  BY <1>2 DEF Resting, Prepared, Dispatched
<1>3. QED BY <1>1, <1>2, WorkerSteps

\* Without a fault nothing but the finish takes the answer from its owner.
LEMMA OwnerGoes ==
  ASSUME Typed, Control, Single, [Next]_vars, faults' = faults, NEW w \in Worker,
         Owner(w), worker[w].pc = "synced"
  PROVE  Finish(w) \/ (worker'[w] = worker[w] /\ Owns(w)')
<1> DEFINE k == worker[w].key
<1>1. k \in Jobs /\ outbox[k].status = "processing" /\ outbox[k].attempts = worker[w].attempt
  BY AtWork DEF Owner, Busy, Owns
<1>2. ASSUME worker'[w] = worker[w], outbox'[k].status = outbox[k].status,
             outbox'[k].attempts = outbox[k].attempts
      PROVE  worker'[w] = worker[w] /\ Owns(w)'
  BY <1>1, <1>2 DEF Owns
<1>3. CASE Change BY <1>1, <1>2, <1>3, ChangeSteps DEF Change
<1>4. ASSUME NEW v \in Worker, NEW j \in Jobs, claimIntegrationOutboxJob(v, j) PROVE FALSE
  BY <1>1, <1>4, ClaimRows
<1>5. ASSUME NEW v \in Worker, Work(v) PROVE Finish(w) \/ (worker'[w] = worker[w] /\ Owns(w)')
  <2>1. CASE v = w
    BY <1>5, <2>1 DEF Work, PrepareSync, PrepareDelete, LoseLease, withGoogleCalendarDispatchLock,
       AtGoogle, ReadForSync, Create, ReadConflicting, Patch, Refresh, ReadForDelete, Delete
  <2>2. CASE v # w
    <3>1. CASE PrepareSync(v) \/ PrepareDelete(v)
      <4>1. worker'[w] = worker[w] BY <2>2, <3>1, Preparations
      <4>2. v = w BY <3>1, OneOwner DEF PrepareSync, PrepareDelete, Owner, Busy
      <4>3. QED BY <2>2, <4>2
    <3>2. CASE LoseLease(v)
      <4>1. worker'[w] = worker[w] /\ outbox' = outbox BY <2>2, <3>2, GoFields DEF LoseLease
      <4>2. QED BY <1>2, <4>1
    <3>3. CASE withGoogleCalendarDispatchLock(v)
      <4>1. worker'[w] = worker[w] /\ outbox' = outbox
        BY <2>2, <3>3, Dispatches DEF withGoogleCalendarDispatchLock
      <4>2. QED BY <1>2, <4>1
    <3>4. CASE AtGoogle(v) BY <2>2, <3>4, AtGoogleOwns, OneOwner
    <3>5. CASE Finish(v)
      <4>1. ~Owner(v) BY <2>2, OneOwner
      <4>2. outbox' = outbox BY <3>5, <4>1, FinishOwns
      <4>3. FinishStep(v) BY <3>5, FinishSteps
      <4>4. worker'[w] = worker[w] BY <2>2, <4>3 DEF FinishStep, Moves, Typed, WorkerTyped
      <4>5. QED BY <1>2, <4>2, <4>4
    <3>6. QED BY <1>5, <3>1, <3>2, <3>3, <3>4, <3>5 DEF Work
  <2>3. QED BY <2>1, <2>2
<1>6. ASSUME NEW v \in Worker, Fail(v) \/ Crash(v) \/ LoseAnswer(v) PROVE FALSE
  <2>1. faults' = faults + 1 BY <1>6 DEF Fail, Crash, LoseAnswer, Fault
  <2>2. faults \in Nat BY Numbers DEF Typed, FaultsTyped
  <2>3. QED BY <2>1, <2>2
<1>7. ASSUME NEW j \in Jobs, reclaimStaleGoogleCalendarJob(j) PROVE FALSE
  <2>1. outbox[j].status = "processing" BY <1>7 DEF reclaimStaleGoogleCalendarJob
  <2>2. j = k BY <1>1, <2>1 DEF Single
  <2>3. faults' # faults
    <3>1. faults' = faults + 1
      BY <1>7, <2>2 DEF reclaimStaleGoogleCalendarJob, Owner, Busy
    <3>2. faults \in Nat BY Numbers DEF Typed, FaultsTyped
    <3>3. QED BY <3>1, <3>2
  <2>4. QED BY <2>3
<1>8. CASE \E q \in wire : Land(q) \/ Drop(q) BY <1>2, <1>8 DEF Land, Drop
<1>9. CASE \E e \in Lane : Scan(e) BY <1>2, <1>9 DEF Scan
<1>10. CASE enqueueGoogleCalendarReconciliationDelete
  BY <1>1, <1>2, <1>10, RepairStep
<1>11. CASE UNCHANGED vars BY <1>2, <1>11 DEF vars
<1>12. QED BY <1>3, <1>4, <1>5, <1>6, <1>7, <1>8, <1>9, <1>10, <1>11 DEF Next, Change

LEMMA FaultCounts ==
  ASSUME Typed, [Next]_vars
  PROVE  /\ faults \in Nat
         /\ faults' = faults \/ faults' = faults + 1
         /\ faults' = faults => wire' \subseteq wire
<1>1. faults \in Nat BY Numbers DEF Typed, FaultsTyped
<1>2. faults' = faults \/ faults' = faults + 1
  <2>1. CASE Change BY <2>1, ChangeSteps DEF Change
  <2>2. ASSUME NEW w \in Worker, Work(w) PROVE faults' = faults
    <3>1. CASE Finish(w) BY <3>1, FinishAppointment
    <3>2. CASE AtGoogle(w)
      <4>1. AtGoogleStep(w) BY <3>2, AtGoogleSteps
      <4>2. QED BY <4>1 DEF AtGoogleStep
    <3>3. CASE ~Finish(w) /\ ~AtGoogle(w)
      BY <2>2, <3>3 DEF Work, PrepareSync, PrepareDelete, LoseLease, withGoogleCalendarDispatchLock
    <3>4. QED BY <3>1, <3>2, <3>3
  <2>3. QED
    BY <2>1, <2>2 DEF Next, Change, claimIntegrationOutboxJob, Fail, Crash, LoseAnswer, Fault,
       reclaimStaleGoogleCalendarJob, Land, Drop, Scan,
       enqueueGoogleCalendarReconciliationDelete, vars
<1>3. ASSUME NEW w \in Worker, LoseAnswer(w) PROVE faults' # faults
  <2>1. faults' = faults + 1 BY <1>3 DEF LoseAnswer, Fault
  <2>2. QED BY <1>1, <2>1
<1>4. QED BY <1>1, <1>2, <1>3, WireSteps

(***************************************************************************)
(* The mark, and what could make it a lie.                                 *)
(***************************************************************************)
\* The event shows the latest revision of an active appointment.
Shows(e) == appointment.active /\ google[e].rev = appointment.rev

Marked ==
  appointment.sync = "synced" =>
    /\ appointment.event \in Lane
    /\ Shows(appointment.event)
    /\ mirror[appointment.event] = "active"

\* Whoever reports success found or left the latest revision.
Told ==
  \A w \in Worker :
    /\ Owner(w) /\ worker[w].pc = "synced"
    /\ appointment.active /\ RevOf(worker[w].key) = appointment.rev
    => google[worker[w].target].rev = appointment.rev

\* Whoever reports a deletion did not delete the marked event.
Gone ==
  \A w \in Worker :
    Owner(w) /\ worker[w].pc = "deleted" /\ appointment.sync = "synced" =>
      appointment.event # worker[w].target

\* A late deletion that Google would still carry out spares the latest revision.
LateDelete ==
  \A q \in wire : q.method = "DELETE" /\ IfMatch(q.event, q.etag) => ~Shows(q.event)

\* While nothing has gone wrong no request is late, what was deleted is away, and
\* the latest revision at Google is recorded or about to be.
Away ==
  \A w \in Worker : Owner(w) /\ worker[w].pc = "deleted" => ~Exists(worker[w].target)

Recorded(e) ==
  /\ outbox[SyncKey(appointment.rev)].status = "completed"
  /\ appointment.event = e /\ mirror[e] = "active"

Reporting(e) ==
  \E w \in Worker :
    /\ Owner(w) /\ worker[w].pc = "synced"
    /\ worker[w].key = SyncKey(appointment.rev) /\ worker[w].target = e

Shown == \A e \in Lane : Shows(e) => Recorded(e) \/ Reporting(e)

Sound ==
  /\ Typed /\ Control /\ Fresh /\ Single
  /\ JobsRevised /\ EventsRevised /\ Aimed /\ Fenced /\ EtagKnown

Flawless == faults = 0 => wire = {} /\ Away /\ Shown
Truthful == faults <= 1 => Marked /\ Told /\ Gone /\ LateDelete

LEMMA RecordedAdopted ==
  ASSUME appointment.active, NEW e, appointment.event = e, mirror[e] = "active"
  PROVE  Adopted(e)
BY DEF Adopted

\* A late request does not touch the latest revision.
LEMMA LandShows ==
  ASSUME Sound, LateDelete, NEW q \in wire, Land(q), NEW e \in Lane, Shows(e)
  PROVE  google'[e].rev = google[e].rev
<1>1. q.event \in Lane /\ q.key \in Jobs /\ RevOf(q.key) <= appointment.rev
  BY DEF Sound, Typed, WireTyped, Request, EventsRevised, JobsRevised
<1>2. /\ google[e].rev = appointment.rev /\ appointment.rev \in Nat /\ appointment.rev >= 1
      /\ RevOf(q.key) \in Nat /\ RevOf(q.key) \in 0 .. MaxRevision
  BY <1>1, RevisionNumbers, KeyParts DEF Sound, Shows, Typed, OutboxTyped
<1>3. \/ google' = google
      \/ ~Exists(q.event) /\ google' = Written(q.event, RevOf(q.key))
      \/ /\ q.method = "PATCH" /\ IfMatch(q.event, q.etag)
         /\ google' = Written(q.event, RevOf(q.key))
      \/ q.method = "DELETE" /\ IfMatch(q.event, q.etag) /\ google' = Removed(q.event)
  BY DEF Land
<1>4. CASE q.event # e
  <2>1. Written(q.event, RevOf(q.key))[e] = google[e] /\ Removed(q.event)[e] = google[e]
    BY <1>1, <1>2, <1>4, WrittenTyped, RemovedTyped DEF Sound, Typed
  <2>2. QED BY <1>3, <2>1
<1>5. CASE q.event = e
  <2>1. Exists(e) BY <1>2 DEF Exists
  <2>2. ~(q.method = "DELETE" /\ IfMatch(q.event, q.etag)) BY <1>5 DEF LateDelete
  <2>3. CASE q.method = "PATCH" /\ IfMatch(e, q.etag) /\ google' = Written(e, RevOf(q.key))
    <3>1. google[e].rev <= RevOf(q.key)
      BY <1>5, <2>3 DEF Sound, Fresh, FreshFor, IfMatch
    <3>2. google'[e].rev = RevOf(q.key)
      BY <1>2, <2>3, WrittenTyped DEF Sound, Typed
    <3> HIDE DEF RevOf
    <3>3. QED BY <1>1, <1>2, <3>1, <3>2
  <2>4. QED BY <1>3, <1>5, <2>1, <2>2, <2>3
<1>6. QED BY <1>4, <1>5

LEMMA NextTold ==
  ASSUME Sound, Sound', Told, LateDelete, [Next]_vars PROVE Told'
<1> SUFFICES ASSUME NEW w \in Worker, Owner(w)', worker'[w].pc = "synced",
                    appointment'.active, RevOf(worker'[w].key) = appointment'.rev
             PROVE  google'[worker'[w].target].rev = appointment'.rev
  BY DEF Told
<1> USE DEF Sound
<1>1. appointment.rev \in Nat /\ \A k \in Jobs : RevOf(k) \in Nat /\ RevOf(k) <= appointment.rev
  BY RevisionNumbers DEF JobsRevised
<1>2. CASE worker'[w] = worker[w] /\ Owner(w)
  <2>1. worker[w].pc # "idle" /\ worker[w].pc \in Aiming BY <1>2 DEF Aiming
  <2>2. worker[w].key \in Jobs /\ worker[w].target \in Lane BY <2>1, AtWork
  <2>3. appointment'.rev = appointment.rev /\ appointment'.active = appointment.active
    <3>1. RevOf(worker[w].key) = appointment'.rev BY <1>2
    <3>2. appointment'.rev \in Nat /\ appointment'.rev <= appointment.rev
      BY <1>1, <2>2, <3>1
    <3>3. appointment'.rev # appointment.rev + 1 BY <1>1, <3>2
    <3>4. QED BY <3>3, RevisionSteps
  <2>4. google[worker[w].target].rev = appointment.rev BY <1>2, <2>3 DEF Told
  <2>5. ~AtGoogle(w) BY <1>2, AtGoogleOwns DEF Asking, Writing
  <2>6. google' = google \/ \E q \in wire : Land(q) BY <1>2, <2>5, OwnerAsks
  <2>7. google'[worker[w].target].rev = google[worker[w].target].rev
    <3>1. Shows(worker[w].target) BY <2>3, <2>4 DEF Shows
    <3>2. QED BY <2>2, <2>6, <3>1, LandShows
  <2>8. QED BY <1>2, <2>3, <2>4, <2>7
<1>3. CASE AtGoogle(w) /\ Turn(w)
  <2> DEFINE e == worker[w].target
             k == worker[w].key
  <2>1. AtGoogleStep(w) BY <1>3, AtGoogleSteps
  <2>2. appointment' = appointment BY <2>1 DEF AtGoogleStep
  <2>3. SyncTurn(w) BY <1>3 DEF Turn, DeleteTurn
  <2>4. /\ worker'[w].target = e /\ worker'[w].key = k
        /\ \/ google' = google /\ AtLeast(e, k)
           \/ google' = Written(e, RevOf(k))
    BY <1>3, <2>3 DEF Turn, SyncTurn, Syncing
  <2>5. worker[w].pc # "idle" /\ worker[w].pc \in Aiming
    BY <1>3, AtGoogleOwns DEF Asking, Writing, Aiming
  <2>6. e \in Lane /\ k \in Jobs /\ RevOf(k) \in 0 .. MaxRevision BY <2>5, AtWork, KeyParts
  <2>7. RevOf(k) = appointment.rev BY <2>2, <2>4
  <2>8. CASE google' = google /\ AtLeast(e, k)
    <3>1. google[e].rev >= appointment.rev BY <2>7, <2>8 DEF AtLeast
    <3>2. google[e].rev <= appointment.rev /\ google[e].rev \in Nat
      BY <2>6, RevisionNumbers DEF EventsRevised
    <3>3. QED BY <1>1, <2>2, <2>4, <2>8, <3>1, <3>2
  <2>9. CASE google' = Written(e, RevOf(k))
    BY <2>2, <2>4, <2>6, <2>7, <2>9, WrittenTyped DEF Typed
  <2>10. QED BY <2>4, <2>8, <2>9
<1>4. Owns(w)' BY DEF Owner
<1>5. QED BY <1>2, <1>3, <1>4, OwnerCame

\* A transaction that changes the appointment leaves no mark.
LEMMA ChangeMark ==
  ASSUME Typed, Marked, Change PROVE appointment'.sync # "synced"
<1>1. appointment \in Appointment BY DEF Typed, AppointmentTyped
<1>2. CASE Edit \/ Reactivate
  BY <1>1, <1>2 DEF Edit, Reactivate, enqueueGoogleCalendarAppointmentMutation, Appointment
<1>3. CASE Cancel
  <2>1. CASE KnownEvent # NoEvent BY <1>1, <1>3, <2>1 DEF Cancel, Appointment
  <2>2. CASE KnownEvent = NoEvent
    <3>1. Linked = {}
      <4>1. Linked # {} => KnownEvent \in Linked BY DEF KnownEvent
      <4>2. QED BY <2>2, <4>1, Numbers DEF Linked
    <3>2. appointment.sync # "synced" BY <3>1 DEF Marked, Linked
    <3>3. appointment'.sync = appointment.sync
      BY <1>1, <1>3, <2>2 DEF Cancel, Appointment
    <3>4. QED BY <3>2, <3>3
  <2>3. QED BY <2>1, <2>2
<1>4. QED BY <1>2, <1>3 DEF Change

LEMMA DeleteSpares ==
  ASSUME Sound, Marked, NEW w \in Worker, AtGoogle(w), DeleteTurn(w), appointment.sync = "synced"
  PROVE  appointment.event # worker[w].target
<1>1. lock = w BY AtGoogleOwns DEF Sound
<1>2. ~IsSync(worker[w].key) BY DEF DeleteTurn, Sound, Aimed, Removing
<1>3. appointment.active /\ mirror[appointment.event] = "active" BY DEF Marked, Shows
<1>4. ~Adopted(worker[w].target) BY <1>1, <1>2, <1>3 DEF Sound, Fenced
<1>5. QED BY <1>3, <1>4, RecordedAdopted

LEMMA NextGone ==
  ASSUME Sound, Sound', Marked, Gone, [Next]_vars PROVE Gone'
<1> SUFFICES ASSUME NEW w \in Worker, Owner(w)', worker'[w].pc = "deleted",
                    appointment'.sync = "synced"
             PROVE  appointment'.event # worker'[w].target
  BY DEF Gone
<1> USE DEF Sound
<1>1. CASE worker'[w] = worker[w] /\ Owner(w)
  <2>1. ~Change BY ChangeMark
  <2>2. ~Finish(w)
    <3>1. ASSUME Finish(w) PROVE FALSE
      <4>1. FinishStep(w) BY <3>1, FinishSteps
      <4>2. worker'[w] = Idle BY <4>1 DEF FinishStep, Moves, Typed, WorkerTyped
      <4>3. QED BY <4>2, IdleTyped
    <3>2. QED BY <3>1
  <2>3. UNCHANGED <<appointment, mirror>> BY <1>1, <2>1, <2>2, OwnerRecords
  <2>4. QED BY <1>1, <2>3 DEF Gone
<1>2. CASE AtGoogle(w) /\ Turn(w)
  <2>1. AtGoogleStep(w) BY <1>2, AtGoogleSteps
  <2>2. appointment' = appointment BY <2>1 DEF AtGoogleStep
  <2>3. DeleteTurn(w) BY <1>2 DEF Turn, SyncTurn, Syncing
  <2>4. worker'[w].target = worker[w].target BY <2>3 DEF DeleteTurn
  <2>5. QED BY <1>2, <2>2, <2>3, <2>4, DeleteSpares
<1>3. Owns(w)' BY DEF Owner
<1>4. QED BY <1>1, <1>2, <1>3, OwnerCame

LEMMA NextMarked ==
  ASSUME Sound, Sound', Marked, Told, Gone, LateDelete, [Next]_vars PROVE Marked'
<1> SUFFICES ASSUME appointment'.sync = "synced"
             PROVE  /\ appointment'.event \in Lane
                    /\ appointment'.active /\ google'[appointment'.event].rev = appointment'.rev
                    /\ mirror'[appointment'.event] = "active"
  BY DEF Marked, Shows
<1> USE DEF Sound
<1> DEFINE a == appointment.event
<1>1. CASE Change BY <1>1, ChangeMark
<1>2. ASSUME appointment.sync = "synced", UNCHANGED <<appointment, google>>,
             mirror'[a] = mirror[a]
      PROVE  Marked'
  BY <1>2 DEF Marked, Shows
<1>3. ASSUME NEW w \in Worker, Finish(w) PROVE Marked'
  <2> DEFINE k == worker[w].key
             e == worker[w].target
  <2>1. /\ worker[w].pc \in Answered \cup Refused \cup {"superseded"}
        /\ google' = google
        /\ appointment'.rev = appointment.rev /\ appointment'.active = appointment.active
    BY <1>3, FinishOwns, FinishAppointment
  <2>2. worker[w].pc # "idle" BY <2>1 DEF Answered, Refused
  <2>3. k \in Jobs BY <2>2, AtWork
  <2>4. CASE ~Owner(w)
    <3>1. UNCHANGED <<appointment, mirror>> BY <1>3, <2>4, FinishOwns
    <3>2. QED BY <1>2, <2>1, <3>1
  <2>5. CASE Owner(w)
    <3>1. ~NotOwned(w) BY <1>3, <2>5, FinishOwns
    <3>2. CASE finishGoogleJobFailure(w)
      <4>1. mirror' = mirror BY <3>2 DEF finishGoogleJobFailure
      <4>2. appointment' = appointment \/ appointment' = [appointment EXCEPT !.sync = "failed"]
        BY <3>2 DEF finishGoogleJobFailure
      <4>3. appointment' = appointment
        BY <4>2 DEF Typed, AppointmentTyped, Appointment
      <4>4. QED BY <1>2, <2>1, <4>1, <4>3
    <3>3. CASE finishGoogleJobSuperseded(w)
      BY <1>2, <2>1, <3>3 DEF finishGoogleJobSuperseded
    <3>4. CASE FinishDisabled(w)
      <4>1. mirror' = mirror BY <3>4 DEF FinishDisabled
      <4>2. appointment' = appointment \/ appointment' = [appointment EXCEPT !.sync = "not_synced"]
        BY <3>4 DEF FinishDisabled
      <4>3. appointment' = appointment
        BY <4>2 DEF Typed, AppointmentTyped, Appointment
      <4>4. QED BY <1>2, <2>1, <4>1, <4>3
    <3>5. CASE FinishDeleted(w)
      <4>1. worker[w].pc = "deleted" BY <3>5 DEF FinishDeleted, Done
      <4>2. \/ appointment' = appointment
            \/ appointment' = [appointment EXCEPT !.event = NoEvent, !.sync = "deleted"]
        BY <3>5 DEF FinishDeleted
      <4>3. appointment' = appointment
        BY <4>2 DEF Typed, AppointmentTyped, Appointment
      <4>4. a # e BY <2>5, <4>1, <4>3 DEF Gone
      <4>5. mirror'[a] = mirror[a]
        <5>1. \E m : mirror' = [mirror EXCEPT ![e] = m] BY <3>5 DEF FinishDeleted
        <5>2. mirror \in [Lane -> MirrorState] /\ a \in Lane
          BY <4>3 DEF Typed, MirrorTyped, Marked
        <5>3. QED BY <4>4, <5>1, <5>2
      <4>6. QED BY <1>2, <2>1, <4>3, <4>5
    <3>6. CASE FinishSynced(w)
      <4>1. worker[w].pc = "synced" BY <3>6 DEF FinishSynced, Done
      <4>2. worker[w].pc \in Aiming BY <4>1 DEF Aiming
      <4>3. e \in Lane BY <2>2, <4>2, AtWork
      <4>4. CASE UNCHANGED <<appointment, mirror>> BY <1>2, <2>1, <4>4
      <4>5. CASE /\ ~Newer(k) /\ appointment.active
                 /\ mirror' = MirrorOf(e)
                 /\ appointment' = [appointment EXCEPT !.event = e, !.sync = "synced"]
        <5>1. IsSync(k) BY <4>1 DEF Aimed
        <5>2. ~IsCleanup(k) BY <5>1 DEF IsSync, IsCleanup
        <5>3. RevOf(k) = appointment.rev BY <2>3, <4>5, <5>2, Latest
        <5>4. google[e].rev = appointment.rev BY <2>5, <4>1, <4>5, <5>3 DEF Told
        <5>5. appointment'.event = e BY <4>5 DEF Typed, AppointmentTyped, Appointment
        <5>6. mirror'[e] = "active" BY <4>3, <4>5 DEF MirrorOf
        <5>7. QED BY <2>1, <4>3, <4>5, <5>4, <5>5, <5>6 DEF Marked, Shows
      <4>6. QED BY <3>6, <4>4, <4>5 DEF FinishSynced
    <3>7. QED BY <1>3, <3>1, <3>2, <3>3, <3>4, <3>5, <3>6 DEF Finish
  <2>6. QED BY <2>4, <2>5
<1>4. CASE UNCHANGED <<appointment, mirror>>
  <2>1. /\ a \in Lane /\ appointment.active /\ google[a].rev = appointment.rev
        /\ mirror[a] = "active" /\ Shows(a)
    BY <1>4 DEF Marked, Shows
  <2>2. google'[a].rev = google[a].rev
    <3>1. CASE google' = google BY <3>1
    <3>2. ASSUME NEW w \in Worker, AtGoogle(w) PROVE google'[a].rev = google[a].rev
      <4> DEFINE e == worker[w].target
                 k == worker[w].key
      <4>1. Turn(w) BY <3>2, Turns
      <4>2. worker[w].pc # "idle" /\ worker[w].pc \in Aiming /\ lock = w
        BY <3>2, AtGoogleOwns DEF Asking, Writing, Aiming
      <4>3. e \in Lane /\ RevOf(k) \in 0 .. MaxRevision BY <4>2, AtWork, KeyParts
      <4>4. CASE google' = google BY <4>4
      <4>5. CASE SyncTurn(w) /\ google' = Written(e, RevOf(k))
        <5>1. IsSync(k) BY <4>5 DEF SyncTurn, Aimed
        <5>2. RevOf(k) = appointment.rev BY <4>2, <5>1 DEF Fenced
        <5>3. QED BY <2>1, <4>3, <4>5, <5>2, WrittenTyped DEF Typed
      <4>6. CASE DeleteTurn(w) /\ google' = Removed(e)
        <5>1. a # e BY <1>4, <3>2, <4>6, DeleteSpares
        <5>2. QED BY <2>1, <4>3, <4>6, <5>1, RemovedTyped DEF Typed
      <4>7. QED BY <4>1, <4>4, <4>5, <4>6 DEF Turn, SyncTurn, DeleteTurn
    <3>3. ASSUME NEW q \in wire, Land(q) PROVE google'[a].rev = google[a].rev
      BY <2>1, <3>3, LandShows
    <3>4. QED BY <3>1, <3>2, <3>3, GoogleSteps
  <2>3. QED BY <1>4, <2>1, <2>2
<1>5. QED BY <1>1, <1>3, <1>4, AppointmentSteps DEF Marked, Shows

LEMMA NextAway ==
  ASSUME Sound, wire = {}, Away, [Next]_vars PROVE Away'
<1> SUFFICES ASSUME NEW w \in Worker, Owner(w)', worker'[w].pc = "deleted"
             PROVE  google'[worker'[w].target].rev = 0
  BY DEF Away, Exists
<1> USE DEF Sound
<1>1. CASE worker'[w] = worker[w] /\ Owner(w)
  <2>1. ~AtGoogle(w) BY <1>1, AtGoogleOwns DEF Asking, Writing
  <2>2. google' = google BY <1>1, <2>1, OwnerAsks
  <2>3. QED BY <1>1, <2>2 DEF Away, Exists
<1>2. CASE AtGoogle(w) /\ Turn(w)
  <2> DEFINE e == worker[w].target
  <2>1. DeleteTurn(w) BY <1>2 DEF Turn, SyncTurn, Syncing
  <2>2. worker'[w].target = e /\ ((google' = google /\ ~Exists(e)) \/ google' = Removed(e))
    BY <2>1 DEF DeleteTurn
  <2>3. worker[w].pc # "idle" /\ worker[w].pc \in Aiming
    BY <1>2, AtGoogleOwns DEF Asking, Writing, Aiming
  <2>4. e \in Lane BY <2>3, AtWork
  <2>5. CASE google' = google /\ ~Exists(e) BY <2>2, <2>5 DEF Exists
  <2>6. CASE google' = Removed(e) BY <2>2, <2>4, <2>6, RemovedTyped DEF Typed
  <2>7. QED BY <2>2, <2>5, <2>6
<1>3. Owns(w)' BY DEF Owner
<1>4. QED BY <1>1, <1>2, <1>3, OwnerCame

\* The one request that goes astray was sent after the fence and found the event
\* in no job's care.
LEMMA NextLateDelete ==
  ASSUME Sound, Sound', Flawless, LateDelete, [Next]_vars, faults' <= 1 PROVE LateDelete'
<1> SUFFICES ASSUME NEW q \in wire', q.method = "DELETE", google'[q.event].rev # 0,
                    google'[q.event].etag = q.etag, appointment'.active,
                    google'[q.event].rev = appointment'.rev
             PROVE  FALSE
  BY DEF LateDelete, IfMatch, Exists, Shows
<1> USE DEF Sound
<1> DEFINE e == q.event
<1>1. CASE q \in wire
  <2>1. e \in Lane /\ q.etag \in Nat BY <1>1 DEF Typed, WireTyped, Request
  <2>2. q.etag <= google[e].etag BY <1>1 DEF EtagKnown
  <2>3. /\ google[e].etag \in Nat /\ google[e].rev \in Nat /\ google[e].rev <= appointment.rev
        /\ appointment.rev \in Nat
    BY <2>1, RevisionNumbers DEF EventsRevised
  <2>4. google'[e] = google[e] BY <2>1, <2>2, <2>3, EventSteps
  <2>5. appointment'.rev = appointment.rev /\ appointment'.active = appointment.active
    <3>1. appointment'.rev # appointment.rev + 1 BY <2>3, <2>4
    <3>2. QED BY <3>1, RevisionSteps
  <2>6. QED BY <1>1, <2>4, <2>5 DEF LateDelete, IfMatch, Exists, Shows
<1>2. CASE q \notin wire
  <2>1. PICK w \in Worker : LoseAnswer(w) BY <1>2, WireSteps
  <2>2. /\ q = [method |-> Method(w), key |-> worker[w].key,
                event |-> worker[w].target, etag |-> worker[w].etag]
        /\ UNCHANGED <<google, appointment>> /\ faults' = faults + 1
    BY <1>2, <2>1 DEF LoseAnswer, Fault
  <2>3. worker[w].pc = "deleting" /\ e = worker[w].target BY <2>2 DEF Method
  <2>4. Flawless /\ faults = 0 BY <2>2, FaultCounts
  <2>5. lock = w BY <2>3 DEF Control, Locked, Asking, Writing
  <2>6. Owner(w) BY <2>5, HolderBusy DEF Owner
  <2>7. ~IsSync(worker[w].key) BY <2>3 DEF Aimed, Removing
  <2>8. Shows(e) BY <2>2 DEF Shows
  <2>9. ~Adopted(e) BY <2>2, <2>3, <2>5, <2>7 DEF Fenced
  <2>10. e \in Lane
    <3>1. worker[w].pc # "idle" /\ worker[w].pc \in Aiming BY <2>3 DEF Aiming, Asking, Writing
    <3>2. QED BY <2>3, <3>1, AtWork
  <2>11. Recorded(e) \/ Reporting(e) BY <2>4, <2>8, <2>10 DEF Flawless, Shown
  <2>12. ~Recorded(e) BY <2>8, <2>9, RecordedAdopted DEF Recorded, Shows
  <2>13. ~Reporting(e)
    <3>1. \A v \in Worker : Owner(v) => v = w BY <2>6, OneOwner
    <3>2. QED BY <2>3, <3>1 DEF Reporting
  <2>14. QED BY <2>11, <2>12, <2>13
<1>3. QED BY <1>1, <1>2

LEMMA NextShown ==
  ASSUME Sound, Sound', wire = {}, Away, Shown, [Next]_vars, faults' = faults PROVE Shown'
<1> SUFFICES ASSUME NEW e \in Lane, appointment'.active, google'[e].rev = appointment'.rev
             PROVE  (Recorded(e) \/ Reporting(e))'
  BY DEF Shown, Shows
<1> USE DEF Sound
<1> DEFINE r == appointment.rev
<1>1. r \in Nat /\ r >= 1 /\ google[e].rev \in Nat /\ google[e].rev <= r
  BY RevisionNumbers DEF EventsRevised
<1>2. google' = google \/ \E w \in Worker : AtGoogle(w) BY GoogleSteps
<1>3. appointment'.rev = r /\ appointment'.active = appointment.active
  <2>1. CASE Change
    <3>1. google' = google /\ appointment'.rev = r + 1
      BY <2>1, ChangeRows, ChangeSteps DEF Change
    <3>2. QED BY <1>1, <3>1
  <2>2. CASE ~Change BY <2>2, RevisionSteps
  <2>3. QED BY <2>1, <2>2
<1>4. ~Change BY <1>1, <1>3, ChangeRows
<1>5. SyncKey(r) \in Jobs /\ IsSync(SyncKey(r)) BY <1>3 DEF JobsRevised, SyncKey, IsSync
<1>6. ASSUME NEW w \in Worker, Owner(w), worker[w].pc = "synced", ~Newer(worker[w].key)
      PROVE  worker[w].key = SyncKey(r)
  <2>1. worker[w].key \in Jobs BY <1>6, AtWork
  <2>2. IsSync(worker[w].key) BY <1>6 DEF Aimed
  <2>3. ~IsCleanup(worker[w].key) BY <2>2 DEF IsSync, IsCleanup
  <2>4. RevOf(worker[w].key) = r BY <1>3, <1>6, <2>1, <2>3, Latest
  <2>5. QED BY <2>1, <2>2, <2>4 DEF JobsRevised
<1>7. CASE google[e].rev = r /\ Recorded(e)
  <2>1. outbox[SyncKey(r)].status = "completed" /\ appointment.event = e /\ mirror[e] = "active"
    BY <1>7 DEF Recorded
  <2>2. outbox'[SyncKey(r)].status = "completed" BY <1>5, <2>1, NextRows DEF RowsKept
  <2>3. appointment'.event = e /\ mirror'[e] = "active"
    <3>1. CASE UNCHANGED <<appointment, mirror>> BY <2>1, <3>1
    <3>2. ASSUME NEW w \in Worker, Finish(w) PROVE appointment'.event = e /\ mirror'[e] = "active"
      <4> DEFINE t == worker[w].target
      <4>1. CASE ~Owner(w) BY <2>1, <3>2, <4>1, FinishOwns
      <4>2. CASE Owner(w)
        <5>1. ~NotOwned(w) BY <3>2, <4>2, FinishOwns
        <5>2. ASSUME NEW s, mirror' = mirror,
                     appointment' = appointment \/ appointment' = [appointment EXCEPT !.sync = s]
              PROVE  appointment'.event = e /\ mirror'[e] = "active"
          <6>1. appointment'.event = appointment.event
            BY <5>2 DEF Typed, AppointmentTyped, Appointment
          <6>2. QED BY <2>1, <5>2, <6>1
        <5>3. CASE finishGoogleJobFailure(w) BY <5>2, <5>3 DEF finishGoogleJobFailure
        <5>4. CASE finishGoogleJobSuperseded(w) BY <2>1, <5>4 DEF finishGoogleJobSuperseded
        <5>5. CASE FinishDisabled(w) BY <5>2, <5>5 DEF FinishDisabled
        <5>6. CASE FinishDeleted(w)
          <6>1. worker[w].pc = "deleted" BY <5>6 DEF FinishDeleted, Done
          <6>2. google[t].rev = 0 BY <4>2, <6>1 DEF Away, Exists
          <6>3. t # e BY <1>1, <1>7, <6>2
          <6>4. appointment' = appointment BY <1>3, <5>6 DEF FinishDeleted
          <6>5. \E m : mirror' = [mirror EXCEPT ![t] = m] BY <5>6 DEF FinishDeleted
          <6>6. mirror'[e] = mirror[e] BY <6>3, <6>5 DEF Typed, MirrorTyped
          <6>7. QED BY <2>1, <6>4, <6>6
        <5>7. CASE FinishSynced(w)
          <6>1. worker[w].pc = "synced" BY <5>7 DEF FinishSynced, Done
          <6>2. ~Newer(worker[w].key) => worker[w].key = SyncKey(r) BY <1>6, <4>2, <6>1
          <6>3. outbox[worker[w].key].status = "processing" BY <4>2 DEF Owner, Owns
          <6>4. UNCHANGED <<appointment, mirror>>
            BY <1>3, <2>1, <5>7, <6>2, <6>3 DEF FinishSynced
          <6>5. QED BY <2>1, <6>4
        <5>8. QED BY <3>2, <5>1, <5>3, <5>4, <5>5, <5>6, <5>7 DEF Finish
      <4>3. QED BY <4>1, <4>2
    <3>3. QED BY <1>4, <3>1, <3>2, AppointmentSteps
  <2>4. QED BY <1>3, <2>2, <2>3 DEF Recorded
<1>8. ASSUME NEW w \in Worker, Owner(w), worker[w].pc = "synced", worker[w].key = SyncKey(r),
             worker[w].target = e
      PROVE  (Recorded(e) \/ Reporting(e))'
  <2>1. CASE worker'[w] = worker[w] /\ Owns(w)'
    <3>1. Owner(w)' BY <1>8, <2>1 DEF Owner, Busy
    <3>2. QED BY <1>3, <1>8, <2>1, <3>1 DEF Reporting
  <2>2. CASE Finish(w)
    <3>1. FinishSynced(w)
      <4>1. ~NotOwned(w) BY <1>8, <2>2, FinishOwns
      <4>2. QED
        BY <1>8, <2>2, <4>1 DEF Finish, FinishDeleted, FinishDisabled, finishGoogleJobSuperseded,
           finishGoogleJobFailure, Done, Refused
    <3>2. ~Newer(worker[w].key)
      <4>1. RevOf(SyncKey(r)) = r BY DEF SyncKey, RevOf
      <4>2. \A j \in Jobs : RevOf(j) \in Nat /\ RevOf(j) <= r BY RevisionNumbers DEF JobsRevised
      <4>3. \A j \in Jobs : ~(RevOf(j) > r) BY <1>1, <4>2
      <4>4. QED BY <1>8, <4>1, <4>3 DEF Newer
    <3>3. /\ mirror' = MirrorOf(e)
          /\ appointment' = [appointment EXCEPT !.event = e, !.sync = "synced"]
          /\ outbox' = Settled(SyncKey(r), "completed")
      BY <1>3, <1>8, <3>1, <3>2 DEF FinishSynced
    <3>4. mirror'[e] = "active" BY <3>3 DEF MirrorOf
    <3>5. appointment'.event = e BY <3>3 DEF Typed, AppointmentTyped, Appointment
    <3>6. outbox[SyncKey(r)].status = "processing" BY <1>8 DEF Owner, Owns
    <3>7. outbox'[SyncKey(r)].status = "completed"
      BY <1>5, <3>3, <3>6, SettledRows DEF Typed, Status
    <3>8. QED BY <1>3, <3>4, <3>5, <3>7 DEF Recorded
  <2>3. QED BY <1>8, <2>1, <2>2, OwnerGoes
<1>9. CASE google[e].rev = r
  <2>1. Recorded(e) \/ Reporting(e) BY <1>3, <1>9 DEF Shown, Shows
  <2>2. QED BY <1>7, <1>8, <1>9, <2>1 DEF Reporting
<1>10. CASE google[e].rev # r
  <2>1. google' # google BY <1>3, <1>10
  <2>2. PICK w \in Worker : AtGoogle(w) BY <1>2, <2>1
  <2> DEFINE t == worker[w].target
             k == worker[w].key
  <2>3. Turn(w) BY <2>2, Turns
  <2>4. worker[w].pc # "idle" /\ worker[w].pc \in Aiming /\ lock = w /\ Owner(w)
    BY <2>2, AtGoogleOwns DEF Asking, Writing, Aiming
  <2>5. t \in Lane /\ k \in Jobs /\ RevOf(k) \in 0 .. MaxRevision BY <2>4, AtWork, KeyParts
  <2>6. google' # Removed(t)
    <3>1. ASSUME google' = Removed(t) PROVE google'[e].rev \in {0, google[e].rev}
      BY <2>5, <3>1, RemovedTyped DEF Typed
    <3>2. QED BY <1>1, <1>3, <1>10, <3>1
  <2>7. SyncTurn(w) /\ google' = Written(t, RevOf(k)) /\ worker'[w].pc = "synced"
        /\ worker'[w].target = t
    BY <2>1, <2>3, <2>6 DEF Turn, SyncTurn, DeleteTurn
  <2>8. t = e BY <1>3, <1>10, <2>5, <2>7, WrittenTyped DEF Typed
  <2>9. IsSync(k) BY <2>7 DEF SyncTurn, Aimed
  <2>10. RevOf(k) = r BY <2>4, <2>9 DEF Fenced
  <2>11. k = SyncKey(r) BY <2>5, <2>9, <2>10 DEF JobsRevised
  <2>12. AtGoogleStep(w) BY <2>2, AtGoogleSteps
  <2>13. outbox' = outbox BY <2>12 DEF AtGoogleStep
  <2>14. worker'[w].key = k /\ worker'[w].attempt = worker[w].attempt BY <2>3 DEF Turn
  <2>15. Owner(w)' BY <2>4, <2>7, <2>13, <2>14 DEF Owner, Owns, Busy
  <2>16. Reporting(e)' BY <1>3, <2>7, <2>8, <2>11, <2>14, <2>15 DEF Reporting
  <2>17. QED BY <2>16
<1>11. QED BY <1>9, <1>10

Inv == Sound /\ Flawless /\ Truthful

LEMMA NextSound == Sound /\ [Next]_vars => Sound'
<1> SUFFICES ASSUME Sound, [Next]_vars PROVE Sound' OBVIOUS
<1> USE DEF Sound
<1>1. Typed' BY NextTyped
<1>2. Control' BY NextControl
<1>3. Fresh' BY <1>1, NextFresh
<1>4. Single' BY NextSingle
<1>5. JobsRevised' BY <1>1, NextJobsRevised
<1>6. EventsRevised' BY <1>1, NextEventsRevised
<1>7. Aimed' BY NextAimed
<1>8. Fenced' BY <1>2, NextFenced
<1>9. EtagKnown' BY <1>1, NextEtagKnown
<1>10. QED BY <1>1, <1>2, <1>3, <1>4, <1>5, <1>6, <1>7, <1>8, <1>9

LEMMA NextInv == Inv /\ [Next]_vars => Inv'
<1> SUFFICES ASSUME Inv, [Next]_vars PROVE Inv' OBVIOUS
<1>1. Sound /\ Sound' BY NextSound DEF Inv
<1>2. Flawless /\ Truthful BY DEF Inv
<1>3. faults \in Nat /\ (faults' = faults \/ faults' = faults + 1)
      /\ (faults' = faults => wire' \subseteq wire)
  BY <1>1, FaultCounts DEF Sound
<1>4. Flawless'
  <2>1. ASSUME faults' = 0 PROVE wire' = {} /\ Away' /\ Shown'
    <3>1. faults = 0 /\ faults' = faults BY <1>3, <2>1
    <3>2. wire = {} /\ Away /\ Shown BY <1>2, <3>1 DEF Flawless
    <3>3. QED BY <1>1, <1>3, <3>1, <3>2, NextAway, NextShown
  <2>2. QED BY <2>1 DEF Flawless
<1>5. Truthful'
  <2>1. ASSUME faults' <= 1 PROVE Marked' /\ Told' /\ Gone' /\ LateDelete'
    <3>1. faults <= 1 BY <1>3, <2>1
    <3>2. Marked /\ Told /\ Gone /\ LateDelete BY <1>2, <3>1 DEF Truthful
    <3>3. QED BY <1>1, <1>2, <2>1, <3>2, NextMarked, NextTold, NextGone, NextLateDelete
  <2>2. QED BY <2>1 DEF Truthful
<1>6. QED BY <1>1, <1>4, <1>5 DEF Inv

LEMMA InitInv == Init => Inv
<1> SUFFICES ASSUME Init PROVE Inv OBVIOUS
<1>1. Typed /\ Control BY InitTyped, InitControl
<1>2. /\ \A w \in Worker : worker[w].pc = "idle"
      /\ lock = NoWorker /\ wire = {} /\ scan = NoScan
      /\ appointment.rev = 1 /\ appointment.active /\ appointment.sync = "pending"
      /\ Jobs = {SyncKey(1)}
      /\ \A e \in Lane : google[e].rev = 0
  BY IdleTyped DEF Init, Jobs
<1>3. RevOf(SyncKey(1)) = 1 BY DEF SyncKey, RevOf
<1>4. Fresh /\ Single /\ EtagKnown BY <1>2 DEF Fresh, Patching, Single, EtagKnown
<1>5. JobsRevised /\ EventsRevised BY <1>2, <1>3 DEF JobsRevised, EventsRevised
<1>6. Aimed BY <1>2 DEF Aimed, Syncing, Removing
<1>7. Fenced BY <1>2, Numbers DEF Fenced
<1>8. Flawless BY <1>2 DEF Flawless, Away, Shown, Shows, Owner, Busy
<1>9. Truthful BY <1>2 DEF Truthful, Marked, Told, Gone, LateDelete, Owner, Busy
<1>10. QED BY <1>1, <1>4, <1>5, <1>6, <1>7, <1>8, <1>9 DEF Inv, Sound

(***************************************************************************)
(* What the salon is told: until two things have gone wrong, whatever they *)
(* are, an appointment marked synced is active and the event it names      *)
(* shows its latest revision at Google.  The hypothesis is in the          *)
(* statement because two faults do break it: an invocation falls silent    *)
(* between writing the event and recording it, so that a cleanup does not  *)
(* see the event as the appointment's, and the answer of that cleanup's    *)
(* deletion is lost and the request lands late.                            *)
(***************************************************************************)
THEOREM MarkIsTrue == Spec => [](faults <= 1 => SyncedIsTrue)
<1>1. Init => Inv BY InitInv
<1>2. Inv /\ [Next]_vars => Inv' BY NextInv
<1>3. Inv => (faults <= 1 => SyncedIsTrue)
  BY DEF Inv, Truthful, Marked, Shows, SyncedIsTrue
<1>4. QED BY <1>1, <1>2, <1>3, PTL DEF Spec
=============================================================================
