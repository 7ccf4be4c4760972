------------------------ MODULE SubscriptionCheckout ------------------------
(***************************************************************************)
(* A salon's owner starts a subscription.  The route reserves an attempt   *)
(* and, for the founding promotion, a claim on one of its few places, asks *)
(* Stripe for a session under the attempt's idempotency key, and records   *)
(* what it got.  Owners click twice, answers are lost, invocations die,    *)
(* sessions lapse, and Stripe's events arrive when they arrive.            *)
(***************************************************************************)
EXTENDS Naturals, FiniteSets, Sequences

CONSTANTS
  Salon,         \* the salons
  BusinessOf,    \* whose business a salon is
  Cap,           \* how often the promotion may be redeemed
  AttemptTTL,    \* how long an attempt blocks its salon
  ClaimTTL,      \* how long a claim may stay reserved
  SessionTTL,    \* how long a session can be paid, from its request on
  Request,       \* bound: the requests that arrive
  MaxAttempts,   \* bound: attempts made
  MaxClaims,     \* bound: claims made
  MaxTime        \* bound: the clock

\* A session ends before a claim reserved by the same request.
ASSUME CheckoutAssumption ==
  /\ {Cap, AttemptTTL, ClaimTTL, SessionTTL, MaxAttempts, MaxClaims, MaxTime} \subseteq Nat
  /\ SessionTTL < ClaimTTL
  /\ IsFiniteSet(Salon)

Attempt == 1..MaxAttempts
Claim == 1..MaxClaims
Row == 0..MaxAttempts
None == 0
Instant == 0..MaxTime
Later == 0..(MaxTime + AttemptTTL + ClaimTTL + SessionTTL)

VARIABLES
  now,       \* the clock
  attempt,   \* billing_checkout_attempt
  claim,     \* billing_promotion_claim
  sub,       \* billing_subscription, oldest first
  request,   \* the invocations of the checkout route
  session    \* external: Stripe's Checkout Sessions, by the attempt whose key made them

vars == <<now, attempt, claim, sub, request, session>>

AttemptStatus == {"none", "creating", "checkout_created", "completed", "expired", "failed"}
ClaimStatus == {"none", "reserved", "redeemed", "released", "expired"}
\* "settled": completed unpaid, and paid since.
SessionStatus == {"none", "open", "paid", "unpaid", "settled", "lapsed"}
Place == {"new", "done", "reserving", "counted", "asking", "recording", "failing"}
Verdict == {"open", "reuse", "refused"}

Types ==
  /\ now \in Instant
  /\ attempt \in [Attempt -> [salon : Salon \cup {None}, status : AttemptStatus,
                              stored : BOOLEAN, expiresAt : Later]]
  /\ claim \in [Claim -> [salon : Salon \cup {None}, status : ClaimStatus,
                          session : Row, expiresAt : Later]]
  /\ sub \in Seq([session : Attempt, status : {"live", "prepaid", "over"}, protected : BOOLEAN])
  /\ request \in [Request -> [at : Place, salon : Salon \cup {None}, promo : BOOLEAN,
                              began : Instant, attempt : Row, made : BOOLEAN,
                              verdict : Verdict, claim : 0..MaxClaims]]
  /\ session \in [Attempt -> [status : SessionStatus, promo : BOOLEAN, began : Instant,
                              told : BOOLEAN]]

LiveClaims == {c \in Claim : claim[c].status \in {"reserved", "redeemed"}}
Active == {"creating", "checkout_created"}

\* The schema's unique indexes, which abort the transaction that runs into them.
OneActiveAttempt ==
  \A a, b \in Attempt :
    /\ attempt[a].status \in Active /\ attempt[b].status \in Active
    /\ attempt[a].salon = attempt[b].salon
    => a = b
OneLiveClaim ==
  \A c, d \in LiveClaims : BusinessOf[claim[c].salon] = BusinessOf[claim[d].salon] => c = d

\* A session recorded is a session Stripe has.
SessionsExist ==
  /\ \A a \in Attempt : attempt[a].stored => session[a].status # "none"
  /\ \A c \in Claim : claim[c].session # None => session[claim[c].session].status # "none"

\* Rows are of their kind, sessions recorded exist, and the code's own checks
\* keep every insert clear of the unique indexes.
TypeOK == Types /\ OneActiveAttempt /\ OneLiveClaim /\ SessionsExist

NewRequest == [at |-> "new", salon |-> None, promo |-> FALSE, began |-> 0,
               attempt |-> None, made |-> FALSE, verdict |-> "open", claim |-> None]

Answered == [NewRequest EXCEPT !.at = "done"]

CheckoutInit ==
  /\ now = 0
  /\ attempt = [a \in Attempt |-> [salon |-> None, status |-> "none",
                                   stored |-> FALSE, expiresAt |-> 0]]
  /\ claim = [c \in Claim |-> [salon |-> None, status |-> "none",
                               session |-> None, expiresAt |-> 0]]
  /\ sub = <<>>
  /\ request = [q \in Request |-> NewRequest]
  /\ session = [a \in Attempt |-> [status |-> "none", promo |-> FALSE, began |-> 0,
                                   told |-> FALSE]]

Tick ==
  /\ now < MaxTime
  /\ now' = now + 1
  /\ UNCHANGED <<attempt, claim, sub, request, session>>

-----------------------------------------------------------------------------
(* The first transaction: eligibility, the attempt, the claim.              *)

\* Defect: an attempt whose session is still being made does not count.
ActiveOfRecorded(s) == {a \in Attempt : attempt[a].salon = s /\ attempt[a].status = "checkout_created"}

ActiveOf(s) == {a \in Attempt : attempt[a].salon = s /\ attempt[a].status \in Active}
Lapsed(a) == attempt[a].status \in Active /\ attempt[a].expiresAt < now
RowsOf(s) == {i \in DOMAIN sub : attempt[sub[i].session].salon = s}

\* No subscription is live, and the oldest one leaves no prepaid time.
Eligible(s) ==
  /\ \A i \in RowsOf(s) : sub[i].status # "live"
  /\ \A i \in RowsOf(s) :
       (\A j \in RowsOf(s) : i <= j) => sub[i].status # "prepaid"

\* The least id without a row.
Unused(row, ids) == {n \in ids : row[n].status = "none" /\ \A m \in ids : m < n => row[m].status # "none"}

Superseded(s) ==
  [a \in Attempt |->
     IF a \in ActiveOf(s) /\ Lapsed(a) THEN [attempt[a] EXCEPT !.status = "expired"]
     ELSE attempt[a]]

\* A request past its first transaction: an attempt that has a session
\* answers with it; the others ask Stripe.
Proceeds(req, stored) ==
  IF stored THEN Answered ELSE [req EXCEPT !.at = "asking", !.made = FALSE]

\* A transaction of the salon that made an attempt, and is still under way, keeps
\* the others waiting on the unique index; one that reuses an attempt wrote nothing.
Making(s) ==
  \E r \in Request : /\ request[r].salon = s /\ request[r].made
                     /\ request[r].at \in {"reserving", "counted"}

\* The attempt is reused or made; a promoted request goes on to the counter.
BeginCheckout(q, s, promo) ==
  /\ request[q].at = "new"
  /\ ~Making(s)
  /\ Eligible(s)
  /\ \E a \in Attempt :
       /\ LET kept == {b \in ActiveOf(s) : ~Lapsed(b)} IN
          \/ a \in kept /\ attempt' = Superseded(s)
          \/ /\ kept = {}
             /\ a \in Unused(attempt, Attempt)
             /\ attempt' = [Superseded(s) EXCEPT
                  ![a] = [salon |-> s, status |-> "creating", stored |-> FALSE,
                          expiresAt |-> now + AttemptTTL]]
       /\ LET req == [NewRequest EXCEPT !.at = "reserving", !.salon = s, !.promo = promo,
                                  !.began = now, !.attempt = a,
                                  !.made = a \notin ActiveOf(s)]
          IN request' = [request EXCEPT
                           ![q] = IF promo THEN req ELSE Proceeds(req, attempt[a].stored)]
  /\ UNCHANGED <<now, claim, sub, session>>

\* Defect: places are counted without the lock.
CounterUnlocked == TRUE

\* The counter row is locked from the count to the commit.
CounterFree == \A r \in Request : request[r].at # "counted"

Same(s, c) == BusinessOf[claim[c].salon] = BusinessOf[s]

\* Under the counter's lock, what the business holds and how many places are left.
CountClaims(q) ==
  /\ request[q].at = "reserving"
  /\ CounterFree
  /\ LET s == request[q].salon
         held == {c \in LiveClaims : Same(s, c)}
     IN \/ \E c \in held :
             IF claim[c].status = "reserved" /\ claim[c].salon = s
             THEN request' = [request EXCEPT ![q].at = "counted", ![q].verdict = "reuse",
                                             ![q].claim = c]
             ELSE request' = [request EXCEPT ![q].at = "counted", ![q].verdict = "refused"]
        \/ /\ held = {}
           /\ request' = [request EXCEPT
                ![q].at = "counted",
                ![q].verdict = IF Cardinality(LiveClaims) >= Cap THEN "refused" ELSE "open"]
  /\ UNCHANGED <<now, attempt, claim, sub, session>>

failAttempt(a) ==
  [attempt EXCEPT ![a].status = IF @ \in Active THEN "failed" ELSE @]

\* The transaction inserts its claim and commits, or fails the attempt it
\* began or reused.
ReserveClaim(q) ==
  LET req == request[q]
      a == req.attempt
      stored == attempt[a].stored
  IN /\ req.at = "counted"
     /\ \/ /\ req.verdict = "refused"
           /\ attempt' = failAttempt(a)
           /\ request' = [request EXCEPT ![q] = Answered]
           /\ UNCHANGED claim
        \/ /\ req.verdict = "reuse"
           /\ request' = [request EXCEPT ![q] = Proceeds(req, stored)]
           /\ UNCHANGED <<attempt, claim>>
        \/ /\ req.verdict = "open"
           /\ \E c \in Unused(claim, Claim) :
                /\ claim' = [claim EXCEPT
                     ![c] = [salon |-> req.salon, status |-> "reserved", session |-> None,
                             expiresAt |-> req.began + ClaimTTL]]
                /\ request' = [request EXCEPT ![q] = Proceeds([req EXCEPT !.claim = c], stored)]
           /\ UNCHANGED attempt
     /\ UNCHANGED <<now, sub, session>>

-----------------------------------------------------------------------------
(* The call to Stripe and the second transaction.                           *)

\* The parameters of a request carry its instant (expires_at) and its promotion.
SameParameters(q, a) ==
  session[a].began = request[q].began /\ session[a].promo = request[q].promo

\* Stripe makes one session under a key, replays it to a request with the same
\* parameters, and refuses a request with others.
CreateSession(q) ==
  LET a == request[q].attempt IN
  /\ request[q].at = "asking"
  /\ \/ /\ session[a].status = "none"
        /\ session' = [session EXCEPT ![a] = [status |-> "open", promo |-> request[q].promo,
                                              began |-> request[q].began, told |-> FALSE]]
        /\ \E answer \in {"recording", "failing"} :
             request' = [request EXCEPT ![q].at = answer]
     \/ /\ session[a].status # "none"
        /\ request' = [request EXCEPT
             ![q].at = IF SameParameters(q, a) THEN "recording" ELSE "failing"]
        /\ UNCHANGED session
  /\ UNCHANGED <<now, attempt, claim, sub>>

\* Stripe never saw the request, or refused it.
CreateRefused(q) ==
  /\ request[q].at = "asking"
  /\ request' = [request EXCEPT ![q].at = "failing"]
  /\ UNCHANGED <<now, attempt, claim, sub, session>>

\* The attempt takes the session while it is being created, the claim always.
RecordSession(q) ==
  LET a == request[q].attempt
      c == request[q].claim
  IN /\ request[q].at = "recording"
     /\ attempt' = IF attempt[a].status = "creating"
                   THEN [attempt EXCEPT ![a].status = "checkout_created", ![a].stored = TRUE]
                   ELSE attempt
     /\ claim' = IF c = None THEN claim ELSE [claim EXCEPT ![c].session = a]
     /\ request' = [request EXCEPT ![q] = Answered]
     /\ UNCHANGED <<now, sub, session>>

\* Claims in S that are still reserved end as st.
EndReserved(S, st) ==
  [c \in Claim |-> IF c \in S /\ claim[c].status = "reserved"
                   THEN [claim[c] EXCEPT !.status = st] ELSE claim[c]]

\* An error of the call fails the attempt and lets the claim go.
CheckoutFails(q) ==
  /\ request[q].at = "failing"
  /\ attempt' = failAttempt(request[q].attempt)
  /\ claim' = EndReserved({request[q].claim}, "released")
  /\ request' = [request EXCEPT ![q] = Answered]
  /\ UNCHANGED <<now, sub, session>>

\* The invocation ends early; a transaction under way is rolled back, which is
\* a request that never began.
Crash(q) ==
  /\ request[q].at \in {"asking", "recording", "failing"}
  /\ request' = [request EXCEPT ![q] = Answered]
  /\ UNCHANGED <<now, attempt, claim, sub, session>>

-----------------------------------------------------------------------------
(* Stripe, and the handlers of its events.                                  *)

Payable(a) == session[a].status = "open" /\ now <= session[a].began + SessionTTL

\* The client completes the session: paid at once, or payment pending.
ClientCompletes(a) ==
  /\ Payable(a)
  /\ \E st \in {"paid", "unpaid"} : session' = [session EXCEPT ![a].status = st]
  /\ UNCHANGED <<now, attempt, claim, sub, request>>

PaymentSettles(a) ==
  /\ session[a].status = "unpaid"
  /\ session' = [session EXCEPT ![a].status = "settled"]
  /\ UNCHANGED <<now, attempt, claim, sub, request>>

SessionLapses(a) ==
  /\ session[a].status = "open" /\ ~Payable(a)
  /\ session' = [session EXCEPT ![a].status = "lapsed"]
  /\ UNCHANGED <<now, attempt, claim, sub, request>>

ClaimsOf(a) == {c \in Claim : claim[c].session = a}

EndAttempt(a, st) ==
  [attempt EXCEPT ![a].status = IF @ \in Active /\ attempt[a].stored THEN st ELSE @]

Told(a) == session' = [session EXCEPT ![a].told = TRUE]

\* Defect: a completed session is taken for a paid one.
CompletedRedeems(a) ==
  /\ session[a].status \in {"paid", "unpaid", "settled"}
  /\ ~session[a].told
  /\ Told(a)
  /\ attempt' = EndAttempt(a, "completed")
  /\ claim' = EndReserved(ClaimsOf(a), "redeemed")
  /\ UNCHANGED <<now, sub, request>>

\* checkout.session.completed says whether the session was paid then.
applyCheckoutSessionCompleted(a) ==
  /\ session[a].status \in {"paid", "unpaid", "settled"}
  /\ ~session[a].told
  /\ Told(a)
  /\ attempt' = EndAttempt(a, "completed")
  /\ claim' = IF session[a].status = "paid" THEN EndReserved(ClaimsOf(a), "redeemed") ELSE claim
  /\ UNCHANGED <<now, sub, request>>

applyCheckoutSessionExpired(a) ==
  /\ session[a].status = "lapsed"
  /\ ~session[a].told
  /\ Told(a)
  /\ attempt' = EndAttempt(a, "expired")
  /\ claim' = EndReserved(ClaimsOf(a), "released")
  /\ UNCHANGED <<now, sub, request>>

\* The first event of a subscription inserts its row.
projectSubscriptionSnapshot(a) ==
  /\ session[a].status \in {"paid", "unpaid", "settled"}
  /\ \A i \in DOMAIN sub : sub[i].session # a
  /\ sub' = Append(sub, [session |-> a, status |-> "live", protected |-> FALSE])
  /\ UNCHANGED <<now, attempt, claim, request, session>>

\* A paid invoice, the first or a renewal's: of a founder that is not yet
\* protected it redeems what the salon has reserved.
applyInvoicePaymentSucceeded(i) ==
  LET a == sub[i].session
      s == attempt[a].salon
      mine == {c \in LiveClaims : claim[c].salon = s}
  IN /\ session[a].status \in {"paid", "settled"}
     /\ IF session[a].promo /\ ~sub[i].protected
        THEN /\ claim' = EndReserved(mine, "redeemed")
             /\ sub' = [sub EXCEPT ![i] = [@ EXCEPT !.status = "live", !.protected = mine # {}]]
        ELSE /\ sub' = [sub EXCEPT ![i].status = "live"]
             /\ UNCHANGED claim
     /\ UNCHANGED <<now, attempt, request, session>>

\* A canceled subscription may have time left that was paid for.
SubscriptionCanceled(i) ==
  /\ sub[i].status = "live"
  /\ sub' = [sub EXCEPT ![i].status = "prepaid"]
  /\ UNCHANGED <<now, attempt, claim, request, session>>

PrepaidTimeEnds(i) ==
  /\ sub[i].status = "prepaid"
  /\ sub' = [sub EXCEPT ![i].status = "over"]
  /\ UNCHANGED <<now, attempt, claim, request, session>>

Stale == {c \in Claim : claim[c].status = "reserved" /\ claim[c].expiresAt < now}

expireStaleClaims ==
  /\ Stale # {}
  /\ claim' = EndReserved(Stale, "expired")
  /\ UNCHANGED <<now, attempt, sub, request, session>>

-----------------------------------------------------------------------------

Next ==
  \/ Tick
  \/ expireStaleClaims
  \/ \E q \in Request :
       \/ \E s \in Salon, promo \in BOOLEAN : BeginCheckout(q, s, promo)
       \/ CountClaims(q)
       \/ ReserveClaim(q)
       \/ CreateSession(q)
       \/ CreateRefused(q)
       \/ RecordSession(q)
       \/ CheckoutFails(q)
       \/ Crash(q)
  \/ \E a \in Attempt :
       \/ ClientCompletes(a)
       \/ PaymentSettles(a)
       \/ SessionLapses(a)
       \/ applyCheckoutSessionCompleted(a)
       \/ applyCheckoutSessionExpired(a)
       \/ projectSubscriptionSnapshot(a)
  \/ \E i \in DOMAIN sub :
       \/ applyInvoicePaymentSucceeded(i)
       \/ SubscriptionCanceled(i)
       \/ PrepaidTimeEnds(i)

Spec == CheckoutInit /\ [][Next]_vars

-----------------------------------------------------------------------------

\* No more places are reserved or redeemed than the promotion has: places are
\* counted under the counter's lock, and one given up is never taken back
\* (promotionClaims.ts).
LiveWithinCap == Cardinality(LiveClaims) <= Cap

\* A redeemed claim has a founder's session of its salon behind it that was
\* paid: an unpaid completion, and money for a plan without the promotion,
\* redeem nothing, whichever handler comes first.
RedeemedIsPaid ==
  \A c \in Claim : claim[c].status = "redeemed" =>
    \E a \in Attempt : /\ attempt[a].salon = claim[c].salon
                       /\ session[a].promo
                       /\ session[a].status \in {"paid", "settled"}

Ended == {"redeemed", "released", "expired"}

\* A claim ends once: a late expiry or a failed request does not take back what
\* an invoice redeemed, and a late payment does not revive what was given up.
ClaimEnds ==
  \A c \in Claim : claim[c].status \in Ended => claim'[c].status = claim[c].status
ClaimEndsOnce == [][ClaimEnds]_vars

\* A subscription paid for and not known to be canceled.
Running(a) ==
  /\ session[a].status \in {"paid", "settled"}
  /\ \A i \in DOMAIN sub : sub[i].session = a => sub[i].status = "live"

\* A salon never pays for two subscriptions at once ("never an overlapping
\* second subscription", billingSubscriptionProjection.ts:354).  It does not
\* hold of the code: when the answer of a create is lost, or a second click's
\* expires_at differs, the attempt fails beside a session that can be paid.
OneSubscription ==
  \A a, b \in Attempt :
    Running(a) /\ Running(b) /\ attempt[a].salon = attempt[b].salon => a = b

\* Nobody pays the founding price beyond the cap (checkout/route.ts:31-34).  It
\* does not hold of the code either: such a failure releases the claim.
FoundersWithinCap ==
  Cardinality({a \in Attempt : session[a].promo /\ session[a].status \in {"paid", "settled"}})
    <= Cap
=============================================================================
