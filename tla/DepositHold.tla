---------------------------- MODULE DepositHold ----------------------------
(***************************************************************************)
(* A deposit hold, from the booking that opens it to whatever ends it.     *)
(*                                                                         *)
(* The appointment row in status awaiting_payment IS the hold: it blocks   *)
(* the slot while a Stripe Checkout Session waits for the client's card.   *)
(* Six writers end it or undo its end, none of which may hold a row lock   *)
(* across a Stripe call:                                                   *)
(*   - the booking request, when Stripe definitely refuses the session;    *)
(*   - payment evidence (webhook, poll or sweep), which books it;          *)
(*   - the reaper, once the hold has lapsed;                               *)
(*   - the owner, who waives the deposit or releases the slot;             *)
(*   - the owner again, who reactivates a released booking;                *)
(*   - late recovery, which restores one or refunds (DepositRefund).       *)
(*                                                                         *)
(* One appointment with its one deposit row, and one other booking, the    *)
(* rival, that wants the same slot.  Time is what the code compares it     *)
(* with: the hold is running, lapsed, or past the hard local backstop.     *)
(***************************************************************************)
EXTENDS Naturals

CONSTANT MaxFaults   \* bound on crashes, lost answers and refusals

ASSUME MaxFaultsAssumption == MaxFaults \in Nat

VARIABLES
    appt,           \* the appointment row's status
    rival,          \* another booking (or the client's other booking) is in the way
    clock,          \* where the clock stands against the hold's deadlines
    session,        \* the Checkout Session, at Stripe
    checkout,       \* the booking request that opens the session
    reaper,         \* the invocation of the hold reaper
    desk,           \* the owner's request to waive or release
    status,         \* appointment_deposit.status
    sessionStored,  \* stripeCheckoutSessionId is not null
    intentStored,   \* stripePaymentIntentId is not null
    faults          \* faults so far

bookingVars == <<appt, rival>>
moneyVars   == <<status, sessionStored, intentStored>>
actorVars   == <<checkout, reaper, desk>>

\* "booked" stands for pending, confirmed, in_progress and completed;
\* "released" for cancelled with the reason deposit_not_paid.
Appointment == {"awaiting_payment", "booked", "released", "cancelled"}

DepositStatus == {"checkout_created", "paid", "expired", "canceled",
                  "refunded", "waived"}

\* "submitted" is an open session whose form the client has sent; "settling"
\* is one that expired in that moment and may still turn out paid.
Session == {"none", "open", "submitted", "expired", "settling", "paid"}

\* A start before the backstop is not distinguished from one after it.
Instant == {"holding", "lapsed", "backstop", "started"}

NoReaper == [at |-> "idle", past |-> FALSE]

HoldTypeOK ==
    /\ appt \in Appointment
    /\ rival \in BOOLEAN
    /\ clock \in Instant
    /\ session \in Session
    /\ checkout \in {"creating", "created", "refused", "done"}
    /\ reaper \in [at : {"idle", "probe", "expire", "get", "finalize"},
                   past : BOOLEAN]
    /\ desk \in {"idle", "waive", "release"}
    /\ status \in DepositStatus
    /\ sessionStored \in BOOLEAN /\ intentStored \in BOOLEAN
    /\ faults \in 0..MaxFaults

HoldInit ==
    /\ appt = "awaiting_payment" /\ rival = FALSE
    /\ clock = "holding" /\ session = "none"
    /\ checkout = "creating" /\ reaper = NoReaper /\ desk = "idle"
    /\ status = "checkout_created"
    /\ sessionStored = FALSE /\ intentStored = FALSE
    /\ faults = 0

Fault == faults < MaxFaults /\ faults' = faults + 1

\* A hold past its deadline blocks the slot until something ends it.
Blocks == appt \in {"awaiting_payment", "booked"}

\* Once the money is recorded nothing below reads the booking or the clock:
\* they are followed no further.
Followed == status \notin {"paid", "refunded"}
HoldLive == appt = "awaiting_payment" /\ status = "checkout_created"

-----------------------------------------------------------------------------
(* Time, the client at Stripe's page, and the rest of the salon's book.    *)

Tick ==
    /\ Followed /\ clock # "started"
    /\ clock' = CASE clock = "holding" -> "lapsed"
                  [] clock = "lapsed" -> "backstop"
                  [] OTHER -> "started"
    /\ UNCHANGED <<bookingVars, session, actorVars, moneyVars, faults>>

\* The client reaches the page through the URL the booking answered with.
ClientSubmits ==
    /\ session = "open" /\ sessionStored /\ clock = "holding"
    /\ session' = "submitted"
    /\ UNCHANGED <<bookingVars, clock, actorVars, moneyVars, faults>>

PaymentSettles ==
    /\ session \in {"submitted", "settling"}
    /\ session' = "paid"
    /\ UNCHANGED <<bookingVars, clock, actorVars, moneyVars, faults>>

PaymentDeclined ==
    /\ session \in {"submitted", "settling"}
    /\ session' = IF session = "submitted" THEN "open" ELSE "expired"
    /\ UNCHANGED <<bookingVars, clock, actorVars, moneyVars, faults>>

Expired(s) == CASE s = "open" -> "expired"
                [] s = "submitted" -> "settling"
                [] OTHER -> s

\* Stripe expires the session itself at the hold's deadline.
SessionLapses ==
    /\ clock # "holding" /\ session \in {"open", "submitted"}
    /\ session' = Expired(session)
    /\ UNCHANGED <<bookingVars, clock, actorVars, moneyVars, faults>>

RivalBooks ==
    /\ Followed /\ ~Blocks /\ ~rival
    /\ rival' = TRUE
    /\ UNCHANGED <<appt, clock, session, actorVars, moneyVars, faults>>

RivalLeaves ==
    /\ Followed /\ rival /\ rival' = FALSE
    /\ UNCHANGED <<appt, clock, session, actorVars, moneyVars, faults>>

\* Cancelling a booking does not look at its deposit.
BookingCancelled ==
    /\ Followed /\ appt = "booked" /\ appt' = "cancelled"
    /\ UNCHANGED <<rival, clock, session, actorVars, moneyVars, faults>>

\* Nor does the owner's reactivation, which only needs the slot.
BookingReactivated ==
    /\ Followed /\ appt \in {"released", "cancelled"} /\ ~rival
    /\ appt' = "booked"
    /\ UNCHANGED <<rival, clock, session, actorVars, moneyVars, faults>>

-----------------------------------------------------------------------------
(* The booking request: create the session after the hold has committed,   *)
(* then store its id.                                                      *)

CreateSession ==
    /\ checkout = "creating" /\ clock = "holding"
    /\ \/ session' = "open" /\ checkout' = "created" /\ UNCHANGED faults
       \* The answer is lost, or the request dies: the hold is left standing.
       \/ Fault /\ session' = "open" /\ checkout' = "done"
       \/ Fault /\ session' = "none" /\ checkout' = "done"
       \* Stripe decoded the request and refused it.
       \/ Fault /\ session' = "none" /\ checkout' = "refused"
    /\ UNCHANGED <<bookingVars, clock, reaper, desk, moneyVars>>

StoreSession ==
    /\ checkout = "created" /\ clock = "holding"
    /\ checkout' = "done"
    /\ \/ sessionStored' = TRUE /\ UNCHANGED faults
       \/ Fault /\ UNCHANGED sessionStored
    /\ UNCHANGED <<bookingVars, clock, session, reaper, desk, status, intentStored>>

\* Defect: the two updates are not one transaction.
EndHoldInTwoSteps(outcome) ==
    IF appt = "awaiting_payment"
    THEN appt' = "released" /\ status' \in {status, outcome}
    ELSE UNCHANGED <<appt, status>>

\* finalizeExpiredHold and cancelHoldAfterDefiniteCheckoutFailure: the
\* appointment first, and nothing at all if it is no longer a hold.
EndHold(outcome) ==
    IF appt = "awaiting_payment"
    THEN /\ appt' = "released"
         /\ status' = IF status = "checkout_created" THEN outcome ELSE status
    ELSE UNCHANGED <<appt, status>>

CancelRefusedHold ==
    /\ checkout = "refused" /\ clock = "holding" /\ checkout' = "done"
    /\ EndHold("canceled")
    /\ UNCHANGED <<rival, clock, session, reaper, desk,
                   sessionStored, intentStored, faults>>

-----------------------------------------------------------------------------
(* The reaper.  A hold it cannot resolve is left standing for the next     *)
(* run until the backstop, where it is finalised.                          *)

ReaperPicks ==
    /\ reaper.at = "idle"
    /\ HoldLive /\ clock # "holding"
    /\ reaper' = [at |-> IF sessionStored THEN "expire" ELSE "probe",
                  past |-> clock \in {"backstop", "started"}]
    /\ UNCHANGED <<bookingVars, clock, session, checkout, desk, moneyVars, faults>>

LeftStanding == reaper' = NoReaper

\* Defect: a hold no answer resolves is left standing for ever.
UnresolvedForEver == LeftStanding

Unresolved == IF reaper.past THEN reaper' = [reaper EXCEPT !.at = "finalize"]
              ELSE LeftStanding

\* The same idempotency key answers with the session it already made; if
\* there is none, the deadline is in the past and Stripe rejects the probe.
ReaperProbes ==
    /\ reaper.at = "probe"
    /\ \/ /\ session # "none"
          /\ sessionStored' = TRUE
          /\ reaper' = [reaper EXCEPT !.at = "expire"]
          /\ UNCHANGED faults
       \/ /\ session = "none"
          /\ Unresolved /\ UNCHANGED <<sessionStored, faults>>
       \/ Fault /\ Unresolved /\ UNCHANGED sessionStored
    /\ UNCHANGED <<bookingVars, clock, session, checkout, desk, status, intentStored>>

\* A permanent error (a deauthorized account) finalises at once.
ReaperExpires ==
    /\ reaper.at = "expire"
    /\ \/ /\ session' = Expired(session)
          /\ reaper' = [reaper EXCEPT !.at = "get"] /\ UNCHANGED faults
       \/ /\ Fault /\ UNCHANGED session
          /\ reaper' = [reaper EXCEPT !.at = "finalize"]
       \/ Fault /\ UNCHANGED session /\ Unresolved
    /\ UNCHANGED <<bookingVars, clock, checkout, desk, moneyVars>>

\* The mandatory second look: an expire that succeeded proves nothing.
ReaperLooks ==
    /\ reaper.at = "get"
    /\ \/ session = "paid" /\ LeftStanding /\ UNCHANGED faults
       \/ /\ session \in {"expired", "settling"}
          /\ reaper' = [reaper EXCEPT !.at = "finalize"] /\ UNCHANGED faults
       \/ /\ Fault
          /\ \/ reaper' = [reaper EXCEPT !.at = "finalize"]
             \/ Unresolved
    /\ UNCHANGED <<bookingVars, clock, session, checkout, desk, moneyVars>>

ReaperFinalizes ==
    /\ reaper.at = "finalize" /\ LeftStanding
    /\ EndHold("expired")
    /\ UNCHANGED <<rival, clock, session, checkout, desk,
                   sessionStored, intentStored, faults>>

-----------------------------------------------------------------------------
(* The owner's desk: expire the session first, write afterwards.           *)

\* prepareHoldSessionForTerminalWrite: a paid session, or one whose id is
\* not known, refuses, and an error that is not cleared up refuses too.
\* Asked of anything but a live hold it comes to nothing, and is left out.
DeskPrepares ==
    /\ desk = "idle" /\ HoldLive /\ sessionStored /\ session # "paid"
    /\ session' = Expired(session)
    /\ desk' \in {"waive", "release"}
    /\ UNCHANGED <<bookingVars, clock, checkout, reaper, moneyVars, faults>>

DeskGivesUp ==
    /\ desk # "idle" /\ Fault /\ desk' = "idle"
    /\ UNCHANGED <<bookingVars, clock, session, checkout, reaper, moneyVars>>

DeskWrites(op, bookingStatus, depositStatus) ==
    /\ desk = op /\ desk' = "idle"
    /\ IF HoldLive
       THEN appt' = bookingStatus /\ status' = depositStatus
       ELSE UNCHANGED <<appt, status>>
    /\ UNCHANGED <<rival, clock, session, checkout, reaper,
                   sessionStored, intentStored, faults>>

waiveDeposit == DeskWrites("waive", "booked", "waived")
releaseHold  == DeskWrites("release", "released", "canceled")

-----------------------------------------------------------------------------
(* Payment evidence: the webhook, the client's poll and the sweep hand the *)
(* same fact to one transaction, as often as they like.  The deposit is    *)
(* found by the session id, so a session nobody stored confirms nothing.   *)

Evidence == session = "paid" /\ sessionStored

\* holdArm: both rows or neither.
ConfirmHold ==
    /\ Evidence /\ HoldLive
    /\ appt' = "booked" /\ status' = "paid" /\ intentStored' = TRUE
    /\ UNCHANGED <<rival, clock, session, actorVars, sessionStored, faults>>

\* settledArm: a booking the owner reactivated keeps the late payment.
ConfirmSettled ==
    /\ Evidence /\ appt = "booked"
    /\ status \in {"checkout_created", "expired", "canceled"}
    /\ status' = "paid" /\ intentStored' = TRUE
    /\ UNCHANGED <<appt, rival, clock, session, actorVars,
                   sessionStored, faults>>

HoldNext ==
    \/ Tick \/ ClientSubmits \/ PaymentSettles \/ PaymentDeclined \/ SessionLapses
    \/ RivalBooks \/ RivalLeaves \/ BookingCancelled \/ BookingReactivated
    \/ CreateSession \/ StoreSession \/ CancelRefusedHold
    \/ ReaperPicks \/ ReaperProbes \/ ReaperExpires \/ ReaperLooks \/ ReaperFinalizes
    \/ DeskPrepares \/ DeskGivesUp \/ waiveDeposit \/ releaseHold
    \/ ConfirmHold \/ ConfirmSettled
=============================================================================
