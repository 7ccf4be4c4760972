--------------------- MODULE SubscriptionCheckoutProofs ---------------------
(***************************************************************************)
(* Theorems about the checkout of a subscription, for every number of      *)
(* salons, requests, attempts and claims, every cap and every lifetime.    *)
(***************************************************************************)
EXTENDS SubscriptionCheckout, SequenceTheorems, FiniteSetTheorems, TLAPS

(***************************************************************************)
(* The invariant.                                                          *)
(***************************************************************************)
Salons == Salon \cup {None}
AttemptRow == [salon : Salons, status : AttemptStatus, stored : BOOLEAN, expiresAt : Later]
ClaimRow == [salon : Salons, status : ClaimStatus, session : Row, expiresAt : Later]
SubRow == [session : Attempt, status : {"live", "prepaid", "over"}, protected : BOOLEAN]
RequestRow == [at : Place, salon : Salons, promo : BOOLEAN, began : Instant, attempt : Row,
               made : BOOLEAN, verdict : Verdict, claim : 0..MaxClaims]
SessionRow == [status : SessionStatus, promo : BOOLEAN, began : Instant, told : BOOLEAN]

Paid(a) == session[a].status \in {"paid", "settled"}
Made(a) == attempt[a].status # "none"
Known(a) == session[a].status # "none"

\* One request at a time stands between its count and its commit.
OneCounts ==
  \A q, r \in Request : request[q].at = "counted" /\ request[r].at = "counted" => q = r

\* What such a request counted still holds.
RoomLeft ==
  \A q \in Request :
    request[q].at = "counted" /\ request[q].verdict = "open" =>
      /\ Cardinality(LiveClaims) < Cap
      /\ \A c \in LiveClaims : ~Same(request[q].salon, c)

\* A request under way has an attempt of its salon, its claim is its salon's,
\* and a session it is to record is Stripe's answer to its parameters.
UnderWay(q) == request[q].at \notin {"new", "done"}
RequestFits(q) ==
  LET r == request[q] IN
  /\ r.attempt \in Attempt
  /\ Made(r.attempt)
  /\ attempt[r.attempt].salon = r.salon
  /\ r.at \in {"reserving", "counted"} => r.promo
  /\ r.claim # None => r.promo /\ claim[r.claim].status # "none" /\ claim[r.claim].salon = r.salon
  /\ r.at = "recording" => Known(r.attempt) /\ session[r.attempt].promo = r.promo
RequestsFit == \A q \in Request : UnderWay(q) => RequestFits(q)

\* The session of a claim is a founder's, of the same salon.
ClaimsFit ==
  \A c \in Claim : claim[c].session # None =>
    /\ Known(claim[c].session)
    /\ session[claim[c].session].promo
    /\ attempt[claim[c].session].salon = claim[c].salon

\* Stripe has sessions of attempts only, and what an attempt stores is one.
AttemptsFit == \A a \in Attempt : (Known(a) => Made(a)) /\ (attempt[a].stored => Known(a))

IInv ==
  /\ Types
  /\ OneActiveAttempt /\ OneLiveClaim /\ LiveWithinCap
  /\ OneCounts /\ RoomLeft
  /\ RequestsFit /\ ClaimsFit /\ AttemptsFit
  /\ RedeemedIsPaid

(***************************************************************************)
(* What every step leaves alone.                                           *)
(***************************************************************************)
\* An attempt keeps its salon, and a session its promotion and its payment.
AttemptsStand ==
  \A a \in Attempt : Made(a) => attempt'[a].status # "none" /\ attempt'[a].salon = attempt[a].salon
SessionsStand ==
  \A a \in Attempt : Known(a) =>
    /\ session'[a].status # "none"
    /\ session'[a].promo = session[a].promo
    /\ Paid(a) => session'[a].status \in {"paid", "settled"}
\* A claim keeps its salon, and only an insert makes one live.
ClaimsStand ==
  \A c \in Claim :
    /\ claim[c].status # "none" => claim'[c].status # "none" /\ claim'[c].salon = claim[c].salon
    /\ claim[c].status \in Ended => claim'[c].status = claim[c].status
NoneInserted ==
  \A c \in Claim :
    /\ claim'[c].salon = claim[c].salon
    /\ claim'[c].status \in {"reserved", "redeemed"} => claim[c].status \in {"reserved", "redeemed"}

LEMMA RowsTyped ==
  ASSUME Types
  PROVE  /\ now \in Instant
         /\ attempt \in [Attempt -> AttemptRow]
         /\ claim \in [Claim -> ClaimRow]
         /\ sub \in Seq(SubRow)
         /\ request \in [Request -> RequestRow]
         /\ session \in [Attempt -> SessionRow]
BY DEF Types, AttemptRow, ClaimRow, SubRow, RequestRow, SessionRow, Salons

LEMMA Numbers ==
  /\ Cap \in Nat /\ AttemptTTL \in Nat /\ ClaimTTL \in Nat /\ SessionTTL \in Nat
  /\ MaxAttempts \in Nat /\ MaxClaims \in Nat /\ MaxTime \in Nat
BY CheckoutAssumption DEF CheckoutAssumption

LEMMA AnsweredRow == Answered \in RequestRow /\ NewRequest \in RequestRow /\ Answered.at = "done"
<1>1. 0 \in Instant /\ 0 \in Row /\ 0 \in 0..MaxClaims /\ None \in Row /\ None \in 0..MaxClaims
  BY Numbers DEF Instant, Row, None
<1>2. "new" \in Place /\ "done" \in Place /\ "open" \in Verdict /\ None \in Salons
  BY DEF Place, Verdict, Salons
<1>3. NewRequest \in RequestRow BY <1>1, <1>2 DEF NewRequest, RequestRow
<1>4. Answered \in RequestRow /\ Answered.at = "done"
  BY <1>2, <1>3 DEF Answered, RequestRow
<1>5. QED BY <1>3, <1>4

LEMMA ProceedsRow ==
  ASSUME NEW req \in RequestRow, NEW stored \in BOOLEAN
  PROVE  /\ Proceeds(req, stored) \in RequestRow
         /\ \/ Proceeds(req, stored).at = "done"
            \/ /\ Proceeds(req, stored).at = "asking"
               /\ Proceeds(req, stored).attempt = req.attempt
               /\ Proceeds(req, stored).salon = req.salon
               /\ Proceeds(req, stored).promo = req.promo
               /\ Proceeds(req, stored).claim = req.claim
<1>1. [req EXCEPT !.at = "asking"] \in RequestRow
  BY DEF RequestRow, Place
<1>2. QED BY <1>1, AnsweredRow DEF Proceeds, RequestRow

LEMMA EndReservedFacts ==
  ASSUME Types, NEW S, NEW st \in {"redeemed", "released", "expired"}, claim' = EndReserved(S, st)
  PROVE  /\ claim' \in [Claim -> ClaimRow]
         /\ NoneInserted /\ ClaimsStand
         /\ \A c \in Claim :
              /\ claim'[c].session = claim[c].session
              /\ claim'[c].status \in {claim[c].status, st}
              /\ claim'[c].status # claim[c].status => c \in S /\ claim[c].status = "reserved"
<1>1. claim \in [Claim -> ClaimRow] BY RowsTyped
<1>2. ASSUME NEW c \in Claim
      PROVE  /\ claim'[c] \in ClaimRow
             /\ claim'[c].salon = claim[c].salon
             /\ claim'[c].session = claim[c].session
             /\ \/ claim'[c].status = claim[c].status
                \/ claim'[c].status = st /\ c \in S /\ claim[c].status = "reserved"
  BY <1>1 DEF EndReserved, ClaimRow, ClaimStatus
<1>3. claim' \in [Claim -> ClaimRow] BY <1>2 DEF EndReserved
<1>4. NoneInserted BY <1>2 DEF NoneInserted
<1>5. ClaimsStand BY <1>2 DEF ClaimsStand, Ended
<1>6. QED BY <1>2, <1>3, <1>4, <1>5

LEMMA FailFacts ==
  ASSUME Types, NEW a \in Attempt, attempt' = failAttempt(a)
  PROVE  /\ attempt' \in [Attempt -> AttemptRow]
         /\ \A b \in Attempt : /\ attempt'[b].salon = attempt[b].salon
                               /\ attempt'[b].stored = attempt[b].stored
                               /\ attempt'[b].status \in Active => attempt[b].status \in Active
                               /\ Made(b) => attempt'[b].status # "none"
<1>1. attempt \in [Attempt -> AttemptRow] BY RowsTyped
<1>2. QED BY <1>1 DEF failAttempt, AttemptRow, AttemptStatus, Active, Made

LEMMA EndAttemptFacts ==
  ASSUME Types, NEW a \in Attempt, NEW st \in {"completed", "expired"}, attempt' = EndAttempt(a, st)
  PROVE  /\ attempt' \in [Attempt -> AttemptRow]
         /\ \A b \in Attempt : /\ attempt'[b].salon = attempt[b].salon
                               /\ attempt'[b].stored = attempt[b].stored
                               /\ attempt'[b].status \in Active => attempt[b].status \in Active
                               /\ Made(b) => attempt'[b].status # "none"
<1>1. attempt \in [Attempt -> AttemptRow] BY RowsTyped
<1>2. QED BY <1>1 DEF EndAttempt, AttemptRow, AttemptStatus, Active, Made

(***************************************************************************)
(* How the parts of the invariant survive a step that keeps to the rules   *)
(* above.                                                                  *)
(***************************************************************************)
LEMMA LiveIsFinite ==
  IsFiniteSet(Claim) /\ IsFiniteSet(LiveClaims) /\ Cardinality(LiveClaims) \in Nat
<1>1. IsFiniteSet(Claim) BY Numbers, FS_Interval DEF Claim
<1>2. LiveClaims \subseteq Claim BY DEF LiveClaims
<1>3. IsFiniteSet(LiveClaims) BY <1>1, <1>2, FS_Subset
<1>4. QED BY <1>1, <1>3, FS_CardinalityType

\* Requests that counted, and had room, before the step.
CountedStay ==
  \A q \in Request :
    request'[q].at = "counted" /\ request'[q].verdict = "open" =>
      /\ request[q].at = "counted" /\ request[q].verdict = "open"
      /\ request'[q].salon = request[q].salon

LEMMA ClaimsShrink ==
  ASSUME LiveWithinCap, OneLiveClaim, NoneInserted
  PROVE  LiveWithinCap' /\ OneLiveClaim' /\ (RoomLeft /\ CountedStay => RoomLeft')
<1>1. LiveClaims' \subseteq LiveClaims BY DEF LiveClaims, NoneInserted
<1>2. Cardinality(LiveClaims') <= Cardinality(LiveClaims) /\ Cardinality(LiveClaims') \in Nat
  <2>1. IsFiniteSet(LiveClaims) BY LiveIsFinite
  <2>2. IsFiniteSet(LiveClaims') /\ Cardinality(LiveClaims') <= Cardinality(LiveClaims)
    BY <1>1, <2>1, FS_Subset
  <2>3. QED BY <2>2, FS_CardinalityType
<1>3. LiveWithinCap'
  BY <1>2, LiveIsFinite, Numbers DEF LiveWithinCap
<1>4. OneLiveClaim'
  BY <1>1 DEF OneLiveClaim, NoneInserted, LiveClaims
<1>5. ASSUME RoomLeft, CountedStay, NEW q \in Request,
             request'[q].at = "counted", request'[q].verdict = "open"
      PROVE  /\ Cardinality(LiveClaims') < Cap
             /\ \A c \in LiveClaims' : ~Same(request[q].salon, c)' 
             /\ request'[q].salon = request[q].salon
  <2>1. /\ Cardinality(LiveClaims) < Cap
        /\ \A c \in LiveClaims : ~Same(request[q].salon, c)
        /\ request'[q].salon = request[q].salon
    BY <1>5 DEF RoomLeft, CountedStay
  <2>2. \A c \in LiveClaims' : claim'[c].salon = claim[c].salon
    BY DEF NoneInserted, LiveClaims
  <2>3. QED BY <1>1, <1>2, <2>1, <2>2, LiveIsFinite, Numbers DEF Same
<1>6. RoomLeft /\ CountedStay => RoomLeft'
  BY <1>5 DEF RoomLeft, Same
<1>7. QED BY <1>3, <1>4, <1>6

\* A request under way, of which only the place changed, still fits.
GoesOn(q) ==
  /\ UnderWay(q)
  /\ request'[q].attempt = request[q].attempt
  /\ request'[q].salon = request[q].salon
  /\ request'[q].promo = request[q].promo
  /\ request'[q].claim = request[q].claim
  /\ request'[q].at \in {"reserving", "counted"} => request[q].at \in {"reserving", "counted"}
  /\ request'[q].at = "recording" =>
       \/ request[q].at = "recording"
       \/ /\ session'[request[q].attempt].status # "none"
          /\ session'[request[q].attempt].promo = request[q].promo

LEMMA GoesOnFits ==
  ASSUME Types, RequestsFit, AttemptsStand, SessionsStand, ClaimsStand,
         NEW q \in Request, GoesOn(q)
  PROVE  RequestFits(q)'
<1> DEFINE r == request[q]
<1>1. RequestFits(q) BY DEF RequestsFit, GoesOn
<1>2. r \in RequestRow BY RowsTyped
<1>3. /\ request'[q].attempt = r.attempt /\ request'[q].salon = r.salon
      /\ request'[q].promo = r.promo /\ request'[q].claim = r.claim
  BY DEF GoesOn
<1>4. r.attempt \in Attempt /\ attempt'[r.attempt].status # "none"
      /\ attempt'[r.attempt].salon = r.salon
  BY <1>1 DEF RequestFits, AttemptsStand, Made
<1>5. r.claim # None => r.promo /\ claim'[r.claim].status # "none" /\ claim'[r.claim].salon = r.salon
  BY <1>1, <1>2 DEF RequestFits, ClaimsStand, RequestRow, Claim, None
<1>6. request'[q].at \in {"reserving", "counted"} => r.promo
  BY <1>1 DEF RequestFits, GoesOn
<1>7. request'[q].at = "recording" =>
        session'[r.attempt].status # "none" /\ session'[r.attempt].promo = r.promo
  BY <1>1, <1>4 DEF RequestFits, GoesOn, SessionsStand, Known
<1>8. QED BY <1>3, <1>4, <1>5, <1>6, <1>7 DEF RequestFits, Made, Known

\* Every request answers, goes on where it is, or was not under way.
Quiet(q) == request'[q] = request[q] \/ request'[q] = Answered

LEMMA QuietRequests ==
  ASSUME Types, RequestsFit, OneCounts, AttemptsStand, SessionsStand, ClaimsStand,
         \A q \in Request : Quiet(q)
  PROVE  RequestsFit' /\ OneCounts' /\ CountedStay
<1>1. ASSUME NEW q \in Request, UnderWay(q)'
      PROVE  RequestFits(q)'
  <2>1. request'[q] = request[q] BY <1>1, AnsweredRow DEF Quiet, UnderWay
  <2>2. GoesOn(q) BY <1>1, <2>1 DEF GoesOn, UnderWay
  <2>3. QED BY <2>2, GoesOnFits
<1>2. \A q \in Request : request'[q].at = "counted" => request'[q] = request[q]
  BY AnsweredRow DEF Quiet
<1>3. OneCounts' BY <1>2 DEF OneCounts
<1>4. CountedStay BY <1>2 DEF CountedStay
<1>5. QED BY <1>1, <1>3, <1>4 DEF RequestsFit

LEMMA ClaimsStillFit ==
  ASSUME Types, ClaimsFit, AttemptsFit, AttemptsStand, SessionsStand,
         \A c \in Claim : /\ claim'[c].session = claim[c].session
                          /\ claim'[c].salon = claim[c].salon
  PROVE  ClaimsFit'
<1>1. ASSUME NEW c \in Claim, claim[c].session # None
      PROVE  LET a == claim[c].session IN
             /\ session'[a].status # "none" /\ session'[a].promo
             /\ attempt'[a].salon = claim[c].salon
  <2>1. claim[c].session \in Attempt
    BY <1>1, RowsTyped, Numbers DEF ClaimRow, Row, Attempt, None
  <2>2. QED BY <1>1, <2>1 DEF ClaimsFit, AttemptsFit, AttemptsStand, SessionsStand, Made, Known
<1>2. QED BY <1>1 DEF ClaimsFit, Known

\* What redeems a claim now, or did before, is a paid session of its salon.
LEMMA PaymentsStand ==
  ASSUME Types, RedeemedIsPaid, AttemptsFit, AttemptsStand, SessionsStand, ClaimsStand,
         \A c \in Claim : claim'[c].status = "redeemed" /\ claim[c].status # "redeemed" =>
            \E a \in Attempt : /\ attempt[a].salon = claim'[c].salon
                               /\ session[a].promo /\ Paid(a)
  PROVE  RedeemedIsPaid'
<1>1. ASSUME NEW c \in Claim, claim'[c].status = "redeemed"
      PROVE  \E a \in Attempt : /\ attempt[a].salon = claim'[c].salon
                                /\ session[a].promo /\ Paid(a)
  <2>1. CASE claim[c].status = "redeemed"
    <3>1. claim'[c].salon = claim[c].salon BY <2>1 DEF ClaimsStand
    <3>2. QED BY <2>1, <3>1 DEF RedeemedIsPaid, Paid
  <2>2. QED BY <1>1, <2>1
<1>2. ASSUME NEW a \in Attempt, Paid(a), session[a].promo
      PROVE  /\ attempt'[a].salon = attempt[a].salon
             /\ session'[a].promo /\ session'[a].status \in {"paid", "settled"}
  BY <1>2 DEF Paid, Known, Made, AttemptsFit, AttemptsStand, SessionsStand
<1>3. QED BY <1>1, <1>2 DEF RedeemedIsPaid

LEMMA AttemptsStillFit ==
  ASSUME Types, OneActiveAttempt, AttemptsFit, SessionsStand,
         \A a \in Attempt :
           /\ attempt'[a].salon = attempt[a].salon
           /\ attempt'[a].status \in Active => attempt[a].status \in Active
           /\ Made(a) => attempt'[a].status # "none"
           /\ attempt'[a].stored => attempt[a].stored \/ Known(a)
           /\ session'[a].status # "none" => Known(a) \/ Made(a)
  PROVE  OneActiveAttempt' /\ AttemptsFit' /\ AttemptsStand
<1>1. OneActiveAttempt' BY DEF OneActiveAttempt
<1>2. AttemptsFit' BY DEF AttemptsFit, SessionsStand, Made, Known
<1>3. AttemptsStand BY DEF AttemptsStand
<1>4. QED BY <1>1, <1>2, <1>3

(***************************************************************************)
(* Steps of Stripe and of its events: requests and the rest stand still.   *)
(***************************************************************************)
\* A step that moves no request, makes no attempt and inserts no claim.
LEMMA EventKeeps ==
  ASSUME IInv, Types', SessionsStand, ClaimsStand, NoneInserted,
         \A q \in Request : Quiet(q),
         \A c \in Claim : claim'[c].session = claim[c].session,
         \A c \in Claim : claim'[c].status = "redeemed" /\ claim[c].status # "redeemed" =>
            \E a \in Attempt : /\ attempt[a].salon = claim'[c].salon
                               /\ session[a].promo /\ Paid(a),
         \A a \in Attempt :
           /\ attempt'[a].salon = attempt[a].salon
           /\ attempt'[a].status \in Active => attempt[a].status \in Active
           /\ Made(a) => attempt'[a].status # "none"
           /\ attempt'[a].stored => attempt[a].stored \/ Known(a)
           /\ session'[a].status # "none" => Known(a) \/ Made(a)
  PROVE  IInv'
<1> USE DEF IInv
<1>1. OneActiveAttempt' /\ AttemptsFit' /\ AttemptsStand BY AttemptsStillFit
<1>2. RequestsFit' /\ OneCounts' /\ CountedStay BY <1>1, QuietRequests
<1>3. LiveWithinCap' /\ OneLiveClaim' /\ RoomLeft' BY <1>2, ClaimsShrink
<1>4. \A c \in Claim : claim'[c].salon = claim[c].salon BY DEF NoneInserted
<1>5. ClaimsFit' BY <1>1, <1>4, ClaimsStillFit
<1>6. RedeemedIsPaid' BY <1>1, PaymentsStand
<1>7. QED BY <1>1, <1>2, <1>3, <1>5, <1>6

\* The same, when attempts stand still too.
LEMMA QuietKeeps ==
  ASSUME IInv, Types', SessionsStand, ClaimsStand, NoneInserted,
         UNCHANGED <<attempt, request>>,
         \A c \in Claim : claim'[c].session = claim[c].session,
         \A c \in Claim : claim'[c].status = "redeemed" /\ claim[c].status # "redeemed" =>
            \E a \in Attempt : /\ attempt[a].salon = claim'[c].salon
                               /\ session[a].promo /\ Paid(a),
         \A a \in Attempt : session'[a].status # "none" => Known(a)
  PROVE  IInv'
<1>1. \A q \in Request : Quiet(q) BY DEF Quiet
<1>2. \A a \in Attempt :
        /\ attempt'[a].salon = attempt[a].salon
        /\ attempt'[a].status \in Active => attempt[a].status \in Active
        /\ Made(a) => attempt'[a].status # "none"
        /\ attempt'[a].stored => attempt[a].stored \/ Known(a)
        /\ session'[a].status # "none" => Known(a) \/ Made(a)
  BY DEF Made
<1>3. QED BY <1>1, <1>2, EventKeeps

LEMMA ClaimsUnchanged ==
  ASSUME Types, UNCHANGED claim
  PROVE  ClaimsStand /\ NoneInserted
BY DEF ClaimsStand, NoneInserted

LEMMA SessionsUnchanged ==
  ASSUME UNCHANGED session
  PROVE  SessionsStand
BY DEF SessionsStand, Paid, Known

LEMMA TickKeeps ==
  ASSUME IInv, Tick
  PROVE  IInv' /\ ClaimsStand
<1>1. Types' BY Numbers DEF IInv, Types, Tick, Instant
<1>2. ClaimsStand /\ NoneInserted /\ SessionsStand
  BY ClaimsUnchanged, SessionsUnchanged DEF IInv, Tick
<1>3. /\ UNCHANGED <<attempt, claim, request, session>>
      /\ \A a \in Attempt : session'[a].status # "none" => Known(a)
  BY DEF Tick, Known
<1>4. IInv' BY <1>1, <1>2, <1>3, QuietKeeps
<1>5. QED BY <1>2, <1>4

LEMMA SweepKeeps ==
  ASSUME IInv, expireStaleClaims
  PROVE  IInv' /\ ClaimsStand
<1>1. Types BY DEF IInv
<1>2. /\ claim' \in [Claim -> ClaimRow] /\ NoneInserted /\ ClaimsStand
      /\ \A c \in Claim : /\ claim'[c].session = claim[c].session
                          /\ claim'[c].status \in {claim[c].status, "expired"}
  BY <1>1, EndReservedFacts DEF expireStaleClaims
<1>3. Types' BY <1>1, <1>2 DEF Types, expireStaleClaims, ClaimRow, Salons
<1>4. SessionsStand BY SessionsUnchanged DEF expireStaleClaims
<1>5. IInv'
  <2>1. /\ UNCHANGED <<attempt, request, session>>
        /\ \A a \in Attempt : session'[a].status # "none" => Known(a)
    BY DEF expireStaleClaims, Known
  <2>2. \A c \in Claim : claim'[c].status = "redeemed" => claim[c].status = "redeemed"
    BY <1>2
  <2>3. QED BY <1>2, <1>3, <1>4, <2>1, <2>2, QuietKeeps
<1>6. QED BY <1>2, <1>5

\* What the client and Stripe do to a session that exists.
LEMMA SessionMoves ==
  ASSUME IInv, NEW a \in Attempt, NEW st \in SessionStatus \ {"none"}, Known(a), Paid(a) => FALSE,
         session' = [session EXCEPT ![a].status = st],
         UNCHANGED <<now, attempt, claim, sub, request>>
  PROVE  IInv' /\ ClaimsStand
<1>1. Types BY DEF IInv
<1>2. session \in [Attempt -> SessionRow] BY <1>1, RowsTyped
<1>3. session' \in [Attempt -> SessionRow] BY <1>2 DEF SessionRow
<1>4. SessionsStand BY <1>2 DEF SessionsStand, SessionRow, Paid, Known
<1>5. Types' BY <1>1, <1>3 DEF Types, SessionRow
<1>6. ClaimsStand /\ NoneInserted BY <1>1, ClaimsUnchanged
<1>7. \A b \in Attempt : session'[b].status # "none" => Known(b)
  BY <1>2 DEF SessionRow, Known
<1>8. IInv' BY <1>4, <1>5, <1>6, <1>7, QuietKeeps
<1>9. QED BY <1>6, <1>8

LEMMA StripeKeeps ==
  ASSUME IInv, NEW a \in Attempt, ClientCompletes(a) \/ PaymentSettles(a) \/ SessionLapses(a)
  PROVE  IInv' /\ ClaimsStand
<1>1. CASE ClientCompletes(a)
  <2>1. PICK st \in {"paid", "unpaid"} : session' = [session EXCEPT ![a].status = st]
    BY <1>1 DEF ClientCompletes
  <2>2. Known(a) /\ ~Paid(a) BY <1>1 DEF ClientCompletes, Payable, Known, Paid
  <2>3. st \in SessionStatus \ {"none"} BY DEF SessionStatus
  <2>4. QED BY <1>1, <2>1, <2>2, <2>3, SessionMoves DEF ClientCompletes
<1>2. CASE PaymentSettles(a)
  <2>1. Known(a) /\ ~Paid(a) BY <1>2 DEF PaymentSettles, Known, Paid
  <2>2. "settled" \in SessionStatus \ {"none"} BY DEF SessionStatus
  <2>3. QED BY <1>2, <2>1, <2>2, SessionMoves DEF PaymentSettles
<1>3. CASE SessionLapses(a)
  <2>1. Known(a) /\ ~Paid(a) BY <1>3 DEF SessionLapses, Known, Paid
  <2>2. "lapsed" \in SessionStatus \ {"none"} BY DEF SessionStatus
  <2>3. QED BY <1>3, <2>1, <2>2, SessionMoves DEF SessionLapses
<1>4. QED BY <1>1, <1>2, <1>3

LEMMA ToldStands ==
  ASSUME Types, NEW a \in Attempt, Told(a)
  PROVE  /\ session' \in [Attempt -> SessionRow] /\ SessionsStand
         /\ \A b \in Attempt : session'[b].status = session[b].status
<1>1. session \in [Attempt -> SessionRow] BY RowsTyped
<1>2. /\ session' \in [Attempt -> SessionRow]
      /\ \A b \in Attempt : /\ session'[b].status = session[b].status
                            /\ session'[b].promo = session[b].promo
  BY <1>1 DEF Told, SessionRow
<1>3. SessionsStand BY <1>2 DEF SessionsStand, Paid, Known
<1>4. QED BY <1>2, <1>3

\* A completed or expired session ends its attempt and the claims S.
LEMMA SessionEventKeeps ==
  ASSUME IInv, NEW a \in Attempt, Told(a), UNCHANGED <<now, sub, request>>,
         NEW st \in {"completed", "expired"}, attempt' = EndAttempt(a, st),
         NEW end \in {"redeemed", "released"}, NEW S,
         claim' = EndReserved(S, end),
         end = "redeemed" => Paid(a) /\ S \subseteq ClaimsOf(a)
  PROVE  IInv' /\ ClaimsStand
<1>1. Types BY DEF IInv
<1>2. /\ session' \in [Attempt -> SessionRow] /\ SessionsStand
      /\ \A b \in Attempt : session'[b].status = session[b].status
  BY <1>1, ToldStands
<1>3. /\ claim' \in [Claim -> ClaimRow] /\ NoneInserted /\ ClaimsStand
      /\ \A c \in Claim :
           /\ claim'[c].session = claim[c].session
           /\ claim'[c].status \in {claim[c].status, end}
           /\ claim'[c].status # claim[c].status => c \in S /\ claim[c].status = "reserved"
  BY <1>1, EndReservedFacts
<1>4. /\ attempt' \in [Attempt -> AttemptRow]
      /\ \A b \in Attempt : /\ attempt'[b].salon = attempt[b].salon
                            /\ attempt'[b].stored = attempt[b].stored
                            /\ attempt'[b].status \in Active => attempt[b].status \in Active
                            /\ Made(b) => attempt'[b].status # "none"
  BY <1>1, EndAttemptFacts
<1>5. Types'
  BY <1>1, <1>2, <1>3, <1>4 DEF Types, SessionRow, ClaimRow, AttemptRow, Salons
<1>6. ASSUME NEW c \in Claim, claim'[c].status = "redeemed", claim[c].status # "redeemed"
      PROVE  \E b \in Attempt : /\ attempt[b].salon = claim'[c].salon
                                /\ session[b].promo /\ Paid(b)
  <2>1. end = "redeemed" /\ c \in S BY <1>3, <1>6
  <2>2. claim[c].session = a /\ Paid(a) BY <2>1 DEF ClaimsOf
  <2>3. a # None BY Numbers DEF Attempt, None
  <2>4. session[a].promo /\ attempt[a].salon = claim[c].salon
    BY <2>2, <2>3 DEF IInv, ClaimsFit
  <2>5. claim'[c].salon = claim[c].salon BY <1>3 DEF NoneInserted
  <2>6. QED BY <2>2, <2>4, <2>5
<1>7. \A b \in Attempt : session'[b].status # "none" => Known(b) BY <1>2 DEF Known
<1>8. \A q \in Request : Quiet(q) BY DEF Quiet
<1>9. IInv' BY <1>2, <1>3, <1>4, <1>5, <1>6, <1>7, <1>8, EventKeeps
<1>10. QED BY <1>3, <1>9

LEMMA NothingEnds ==
  ASSUME Types, UNCHANGED claim
  PROVE  claim' = EndReserved({}, "released")
BY RowsTyped DEF EndReserved

LEMMA CompletedKeeps ==
  ASSUME IInv, NEW a \in Attempt, applyCheckoutSessionCompleted(a)
  PROVE  IInv' /\ ClaimsStand
<1>1. CASE session[a].status = "paid"
  <2>1. Paid(a) BY <1>1 DEF Paid
  <2>2. QED BY <1>1, <2>1, SessionEventKeeps DEF applyCheckoutSessionCompleted
<1>2. CASE session[a].status # "paid"
  <2>1. claim' = EndReserved({}, "released")
    BY <1>2, NothingEnds DEF applyCheckoutSessionCompleted, IInv
  <2>2. QED BY <2>1, SessionEventKeeps DEF applyCheckoutSessionCompleted
<1>3. QED BY <1>1, <1>2

LEMMA ExpiredKeeps ==
  ASSUME IInv, NEW a \in Attempt, applyCheckoutSessionExpired(a)
  PROVE  IInv' /\ ClaimsStand
BY SessionEventKeeps DEF applyCheckoutSessionExpired

\* A step that changes the subscriptions, and may redeem claims of a paid founder.
LEMMA SubscriptionKeeps ==
  ASSUME IInv, sub' \in Seq(SubRow), UNCHANGED <<now, attempt, request, session>>,
         NEW S, claim' = EndReserved(S, "redeemed"), NEW a \in Attempt,
         \A c \in S : /\ claim[c].salon = attempt[a].salon
                      /\ session[a].promo /\ Paid(a)
  PROVE  IInv' /\ ClaimsStand
<1>1. Types BY DEF IInv
<1>2. /\ claim' \in [Claim -> ClaimRow] /\ NoneInserted /\ ClaimsStand
      /\ \A c \in Claim :
           /\ claim'[c].session = claim[c].session
           /\ claim'[c].status # claim[c].status => c \in S
  BY <1>1, EndReservedFacts
<1>3. Types' BY <1>1, <1>2 DEF Types, ClaimRow, SubRow, Salons
<1>4. SessionsStand BY SessionsUnchanged
<1>5. ASSUME NEW c \in Claim, claim'[c].status = "redeemed", claim[c].status # "redeemed"
      PROVE  \E b \in Attempt : /\ attempt[b].salon = claim'[c].salon
                                /\ session[b].promo /\ Paid(b)
  BY <1>2, <1>5 DEF NoneInserted
<1>6. \A b \in Attempt : session'[b].status # "none" => Known(b) BY DEF Known
<1>7. IInv' BY <1>2, <1>3, <1>4, <1>5, <1>6, QuietKeeps
<1>8. QED BY <1>2, <1>7

LEMMA SubAloneKeeps ==
  ASSUME IInv, sub' \in Seq(SubRow), UNCHANGED <<now, attempt, claim, request, session>>
  PROVE  IInv' /\ ClaimsStand
<1>1. Types BY DEF IInv
<1>2. Types' BY <1>1 DEF Types, SubRow
<1>3. ClaimsStand /\ NoneInserted /\ SessionsStand BY <1>1, ClaimsUnchanged, SessionsUnchanged
<1>4. \A b \in Attempt : session'[b].status # "none" => Known(b) BY DEF Known
<1>5. IInv' BY <1>2, <1>3, <1>4, QuietKeeps
<1>6. QED BY <1>3, <1>5

LEMMA ProjectKeeps ==
  ASSUME IInv, NEW a \in Attempt, projectSubscriptionSnapshot(a)
  PROVE  IInv' /\ ClaimsStand
<1>1. sub \in Seq(SubRow) BY RowsTyped DEF IInv
<1>2. [session |-> a, status |-> "live", protected |-> FALSE] \in SubRow BY DEF SubRow
<1>3. sub' \in Seq(SubRow)
  BY <1>1, <1>2, AppendProperties DEF projectSubscriptionSnapshot
<1>4. QED BY <1>3, SubAloneKeeps DEF projectSubscriptionSnapshot

LEMMA SubRowChanges ==
  ASSUME NEW s \in Seq(SubRow), NEW i \in DOMAIN s, NEW row \in SubRow
  PROVE  [s EXCEPT ![i] = row] \in Seq(SubRow)
BY ExceptSeq DEF SubRow

LEMMA InvoiceKeeps ==
  ASSUME IInv, NEW i \in DOMAIN sub, applyInvoicePaymentSucceeded(i)
  PROVE  IInv' /\ ClaimsStand
<1> DEFINE a == sub[i].session
           s == attempt[a].salon
           mine == {c \in LiveClaims : claim[c].salon = s}
<1>1. Types /\ sub \in Seq(SubRow) BY RowsTyped DEF IInv
<1>2. sub[i] \in SubRow BY <1>1, ElementOfSeq
<1>3. a \in Attempt BY <1>2 DEF SubRow
<1>4. CASE session[a].promo /\ ~sub[i].protected
  <2> DEFINE row == [sub[i] EXCEPT !.status = "live", !.protected = mine # {}]
  <2>0. (mine # {}) \in BOOLEAN BY Zenon
  <2>1. row \in SubRow BY <1>2, <2>0 DEF SubRow
  <2>2. sub' = [sub EXCEPT ![i] = row]
    BY <1>4 DEF applyInvoicePaymentSucceeded
  <2>3. sub' \in Seq(SubRow)
    <3> HIDE DEF row
    <3> QED BY <1>1, <2>1, <2>2, SubRowChanges
  <2>4. claim' = EndReserved(mine, "redeemed") /\ Paid(a)
        /\ UNCHANGED <<now, attempt, request, session>>
    BY <1>4 DEF applyInvoicePaymentSucceeded, Paid
  <2>5. \A c \in mine : claim[c].salon = attempt[a].salon OBVIOUS
  <2>6. session[a].promo BY <1>4
  <2> HIDE DEF mine, a
  <2>7. QED BY <1>3, <2>3, <2>4, <2>5, <2>6, SubscriptionKeeps
<1>5. CASE ~(session[a].promo /\ ~sub[i].protected)
  <2> DEFINE row == [sub[i] EXCEPT !.status = "live"]
  <2>1. row \in SubRow BY <1>2 DEF SubRow
  <2>2. sub' = [sub EXCEPT ![i] = row] /\ UNCHANGED <<now, attempt, claim, request, session>>
    BY <1>5 DEF applyInvoicePaymentSucceeded
  <2>3. sub' \in Seq(SubRow)
    <3> HIDE DEF row
    <3> QED BY <1>1, <2>1, <2>2, SubRowChanges
  <2>4. QED BY <2>2, <2>3, SubAloneKeeps
<1>6. QED BY <1>4, <1>5

LEMMA EndsKeep ==
  ASSUME IInv, NEW i \in DOMAIN sub, SubscriptionCanceled(i) \/ PrepaidTimeEnds(i)
  PROVE  IInv' /\ ClaimsStand
<1>1. sub \in Seq(SubRow) BY RowsTyped DEF IInv
<1>2. sub[i] \in SubRow BY <1>1, ElementOfSeq
<1>3. PICK st \in {"prepaid", "over"} : sub' = [sub EXCEPT ![i].status = st]
  BY DEF SubscriptionCanceled, PrepaidTimeEnds
<1>4. UNCHANGED <<now, attempt, claim, request, session>>
  BY DEF SubscriptionCanceled, PrepaidTimeEnds
<1> DEFINE row == [sub[i] EXCEPT !.status = st]
<1>5. row \in SubRow BY <1>2 DEF SubRow
<1>6. sub' = [sub EXCEPT ![i] = row] BY <1>3
<1>7. sub' \in Seq(SubRow)
  <2> HIDE DEF row
  <2> QED BY <1>1, <1>5, <1>6, SubRowChanges
<1>8. QED BY <1>4, <1>7, SubAloneKeeps

(***************************************************************************)
(* Steps of a request.                                                     *)
(***************************************************************************)
OthersStand(q) == \A r \in Request \ {q} : request'[r] = request[r]

LEMMA OneMoves ==
  ASSUME Types, RequestsFit, AttemptsStand, SessionsStand, ClaimsStand,
         NEW q \in Request, OthersStand(q), UnderWay(q)' => RequestFits(q)'
  PROVE  RequestsFit'
<1>1. ASSUME NEW r \in Request, UnderWay(r)'
      PROVE  RequestFits(r)'
  <2>1. CASE r = q BY <1>1, <2>1
  <2>2. CASE r # q
    <3>1. request'[r] = request[r] BY <2>2 DEF OthersStand
    <3>2. GoesOn(r) BY <1>1, <3>1 DEF GoesOn, UnderWay
    <3>3. QED BY <3>2, GoesOnFits
  <2>3. QED BY <2>1, <2>2
<1>2. QED BY <1>1 DEF RequestsFit

\* A request that moves, but not to its count, and inserts no claim.
LEMMA RequestKeeps ==
  ASSUME IInv, Types', NEW q \in Request, OthersStand(q), request'[q].at # "counted",
         AttemptsStand, SessionsStand, ClaimsStand, NoneInserted,
         OneActiveAttempt', AttemptsFit', ClaimsFit',
         UnderWay(q)' => RequestFits(q)',
         \A c \in Claim : claim'[c].status = "redeemed" => claim[c].status = "redeemed"
  PROVE  IInv'
<1>1. RequestsFit' BY OneMoves DEF IInv
<1>2. \A r \in Request : request'[r].at = "counted" => request'[r] = request[r]
  BY DEF OthersStand
<1>3. OneCounts' BY <1>2 DEF OneCounts, IInv
<1>4. CountedStay BY <1>2 DEF CountedStay
<1>5. LiveWithinCap' /\ OneLiveClaim' /\ RoomLeft' BY <1>4, ClaimsShrink DEF IInv
<1>6. RedeemedIsPaid' BY PaymentsStand DEF IInv
<1>7. QED BY <1>1, <1>3, <1>5, <1>6 DEF IInv

\* The parts that stand when attempts and sessions do.
LEMMA AttemptsQuiet ==
  ASSUME IInv, UNCHANGED <<attempt, session>>
  PROVE  /\ AttemptsStand /\ SessionsStand
         /\ OneActiveAttempt' /\ AttemptsFit'
<1>1. SessionsStand BY SessionsUnchanged
<1>2. AttemptsStand BY DEF AttemptsStand, Made
<1>3. OneActiveAttempt' BY DEF OneActiveAttempt, IInv
<1>4. AttemptsFit' BY DEF AttemptsFit, Made, Known, IInv
<1>5. QED BY <1>1, <1>2, <1>3, <1>4

LEMMA MoverTyped ==
  ASSUME Types, NEW q \in Request, NEW at \in Place,
         request' = [request EXCEPT ![q].at = at]
  PROVE  /\ request' \in [Request -> RequestRow] /\ OthersStand(q)
         /\ request'[q].at = at
         /\ request'[q].attempt = request[q].attempt
         /\ request'[q].salon = request[q].salon
         /\ request'[q].promo = request[q].promo
         /\ request'[q].claim = request[q].claim
<1>1. request \in [Request -> RequestRow] BY RowsTyped
<1>2. QED BY <1>1 DEF RequestRow, OthersStand

LEMMA AnswerTyped ==
  ASSUME Types, NEW q \in Request, request' = [request EXCEPT ![q] = Answered]
  PROVE  /\ request' \in [Request -> RequestRow] /\ OthersStand(q)
         /\ request'[q].at # "counted" /\ ~UnderWay(q)'
<1>1. request \in [Request -> RequestRow] BY RowsTyped
<1>2. QED BY <1>1, AnsweredRow DEF OthersStand, UnderWay

LEMMA MoverFits ==
  ASSUME IInv, NEW q \in Request, UnderWay(q)
  PROVE  /\ RequestFits(q) /\ request[q] \in RequestRow
         /\ request[q].attempt \in Attempt
BY RowsTyped DEF IInv, RequestsFit, RequestFits

\* Stripe does not make the session, or makes it or replays it, or refuses.
LEMMA CreateRefusedKeeps ==
  ASSUME IInv, NEW q \in Request, CreateRefused(q)
  PROVE  IInv' /\ ClaimsStand
<1>1. Types /\ UnderWay(q) /\ "failing" \in Place
  BY DEF IInv, CreateRefused, UnderWay, Place
<1>2. /\ request' \in [Request -> RequestRow] /\ OthersStand(q)
      /\ request'[q].at = "failing"
      /\ request'[q].attempt = request[q].attempt
      /\ request'[q].salon = request[q].salon
      /\ request'[q].promo = request[q].promo
      /\ request'[q].claim = request[q].claim
  BY <1>1, MoverTyped DEF CreateRefused
<1>3. UNCHANGED <<now, attempt, claim, sub, session>> BY DEF CreateRefused
<1>4. Types' BY <1>1, <1>2, <1>3 DEF Types, RequestRow, Salons
<1>5. AttemptsStand /\ SessionsStand /\ OneActiveAttempt' /\ AttemptsFit'
  BY <1>3, AttemptsQuiet
<1>6. ClaimsStand /\ NoneInserted BY <1>1, <1>3, ClaimsUnchanged
<1>7. ClaimsFit' BY <1>1, <1>3, <1>5, ClaimsStillFit DEF IInv
<1>8. GoesOn(q) BY <1>1, <1>2 DEF GoesOn
<1>9. RequestFits(q)' BY <1>5, <1>6, <1>8, GoesOnFits DEF IInv
<1>10. IInv' BY <1>2, <1>3, <1>4, <1>5, <1>6, <1>7, <1>9, RequestKeeps
<1>11. QED BY <1>6, <1>10

LEMMA CreateSessionKeeps ==
  ASSUME IInv, NEW q \in Request, CreateSession(q)
  PROVE  IInv' /\ ClaimsStand
<1> DEFINE a == request[q].attempt
           row == [status |-> "open", promo |-> request[q].promo,
                   began |-> request[q].began, told |-> FALSE]
<1>1. Types /\ UnderWay(q) BY DEF IInv, CreateSession, UnderWay
<1>2. RequestFits(q) /\ request[q] \in RequestRow /\ a \in Attempt BY <1>1, MoverFits
<1>3. session \in [Attempt -> SessionRow] BY <1>1, RowsTyped
<1>4. row \in SessionRow BY <1>2 DEF SessionRow, SessionStatus, RequestRow
<1>5. PICK at \in {"recording", "failing"} : request' = [request EXCEPT ![q].at = at]
  BY DEF CreateSession
<1>6. at \in Place BY DEF Place
<1>7. /\ request' \in [Request -> RequestRow] /\ OthersStand(q)
      /\ request'[q].at = at
      /\ request'[q].attempt = request[q].attempt
      /\ request'[q].salon = request[q].salon
      /\ request'[q].promo = request[q].promo
      /\ request'[q].claim = request[q].claim
  BY <1>1, <1>5, <1>6, MoverTyped
<1>8. \/ session[a].status = "none" /\ session' = [session EXCEPT ![a] = row]
      \/ /\ session[a].status # "none" /\ UNCHANGED session
         /\ at = "recording" => SameParameters(q, a)
  <2>1. CASE session[a].status = "none" BY <2>1 DEF CreateSession
  <2>2. CASE session[a].status # "none"
    <3>1. UNCHANGED session BY <2>2 DEF CreateSession
    <3>2. request' = [request EXCEPT
             ![q].at = IF SameParameters(q, a) THEN "recording" ELSE "failing"]
      BY <2>2 DEF CreateSession
    <3>3. request'[q].at = IF SameParameters(q, a) THEN "recording" ELSE "failing"
      BY <1>1, <1>2, <3>2, RowsTyped DEF RequestRow
    <3>4. QED BY <2>2, <1>7, <3>1, <3>3
  <2>3. QED BY <2>1, <2>2
<1>9. UNCHANGED <<now, attempt, claim, sub>> BY DEF CreateSession
<1>10. /\ session' \in [Attempt -> SessionRow]
       /\ \A b \in Attempt : Known(b) => session'[b] = session[b]
       /\ \A b \in Attempt : session'[b].status # "none" => Known(b) \/ b = a
       /\ at = "recording" => session'[a].status # "none" /\ session'[a].promo = request[q].promo
  <2>1. CASE session[a].status = "none" /\ session' = [session EXCEPT ![a] = row]
    <3>1. session'[a] = row BY <1>2, <1>3, <2>1
    <3>2. \A b \in Attempt : b # a => session'[b] = session[b] BY <1>3, <2>1
    <3>3. session' \in [Attempt -> SessionRow] BY <1>3, <1>4, <2>1
    <3>4. row.status = "open" /\ row.promo = request[q].promo OBVIOUS
    <3> HIDE DEF row, a
    <3>5. QED BY <2>1, <3>1, <3>2, <3>3, <3>4 DEF Known
  <2>2. CASE /\ session[a].status # "none" /\ UNCHANGED session
             /\ at = "recording" => SameParameters(q, a)
    BY <1>3, <2>2 DEF Known, SameParameters
  <2>3. QED BY <1>8, <2>1, <2>2
<1> HIDE DEF row
<1>11. SessionsStand BY <1>10 DEF SessionsStand, Paid, Known
<1>12. Types' BY <1>1, <1>7, <1>9, <1>10 DEF Types, RequestRow, SessionRow, Salons
<1>13. Made(a) BY <1>2 DEF RequestFits
<1>14. OneActiveAttempt' /\ AttemptsFit' /\ AttemptsStand
  <2>1. \A b \in Attempt :
          /\ attempt'[b].salon = attempt[b].salon
          /\ attempt'[b].status \in Active => attempt[b].status \in Active
          /\ Made(b) => attempt'[b].status # "none"
          /\ attempt'[b].stored => attempt[b].stored \/ Known(b)
          /\ session'[b].status # "none" => Known(b) \/ Made(b)
    BY <1>9, <1>10, <1>13 DEF Made
  <2>2. QED BY <1>11, <2>1, AttemptsStillFit DEF IInv
<1>15. ClaimsStand /\ NoneInserted BY <1>1, <1>9, ClaimsUnchanged
<1>16. ClaimsFit' BY <1>1, <1>9, <1>11, <1>14, ClaimsStillFit DEF IInv
<1>17. GoesOn(q) BY <1>1, <1>7, <1>10 DEF GoesOn
<1>18. RequestFits(q)' BY <1>11, <1>14, <1>15, <1>17, GoesOnFits DEF IInv
<1>19. IInv'
  BY <1>7, <1>9, <1>11, <1>12, <1>14, <1>15, <1>16, <1>18, RequestKeeps
<1>20. QED BY <1>15, <1>19

LEMMA RecordSessionKeeps ==
  ASSUME IInv, NEW q \in Request, RecordSession(q)
  PROVE  IInv' /\ ClaimsStand
<1> DEFINE a == request[q].attempt
           d == request[q].claim
<1>1. Types /\ UnderWay(q) BY DEF IInv, RecordSession, UnderWay
<1>2. RequestFits(q) /\ request[q] \in RequestRow /\ a \in Attempt BY <1>1, MoverFits
<1>3. attempt \in [Attempt -> AttemptRow] /\ claim \in [Claim -> ClaimRow] BY <1>1, RowsTyped
<1>4. Known(a) /\ session[a].promo = request[q].promo /\ attempt[a].salon = request[q].salon
  BY <1>2 DEF RequestFits, RecordSession
<1>5. d # None => /\ d \in Claim /\ request[q].promo
                  /\ claim[d].status # "none" /\ claim[d].salon = request[q].salon
  BY <1>2, Numbers DEF RequestFits, RequestRow, Claim, None
<1>6. /\ request' \in [Request -> RequestRow] /\ OthersStand(q)
      /\ request'[q].at # "counted" /\ ~UnderWay(q)'
  BY <1>1, AnswerTyped DEF RecordSession
<1>7. UNCHANGED <<now, sub, session>> BY DEF RecordSession
<1>8. /\ attempt' \in [Attempt -> AttemptRow]
      /\ \A b \in Attempt :
           /\ attempt'[b].salon = attempt[b].salon
           /\ attempt'[b].status \in Active => attempt[b].status \in Active
           /\ Made(b) => attempt'[b].status # "none"
           /\ attempt'[b].stored => attempt[b].stored \/ b = a
  BY <1>2, <1>3 DEF RecordSession, AttemptRow, AttemptStatus, Active, Made
<1>9. a \in Row BY <1>2, Numbers DEF Attempt, Row
<1>10. /\ claim' \in [Claim -> ClaimRow]
       /\ \A c \in Claim : /\ claim'[c].salon = claim[c].salon
                           /\ claim'[c].status = claim[c].status
                           /\ claim'[c].session = claim[c].session \/ (c = d /\ d # None /\ claim'[c].session = a)
  <2>1. CASE d = None BY <1>3, <2>1 DEF RecordSession
  <2>2. CASE d # None
    <3>1. claim' = [claim EXCEPT ![d].session = a] BY <2>2 DEF RecordSession
    <3> HIDE DEF a, d
    <3>2. QED BY <1>3, <1>5, <1>9, <2>2, <3>1 DEF ClaimRow
  <2>3. QED BY <2>1, <2>2
<1>11. Types' BY <1>1, <1>6, <1>7, <1>8, <1>10 DEF Types, RequestRow, AttemptRow, ClaimRow, Salons
<1>12. SessionsStand BY <1>7, SessionsUnchanged
<1>13. OneActiveAttempt' /\ AttemptsFit' /\ AttemptsStand
  <2>1. \A b \in Attempt :
          /\ attempt'[b].stored => attempt[b].stored \/ Known(b)
          /\ session'[b].status # "none" => Known(b) \/ Made(b)
    BY <1>4, <1>7, <1>8 DEF Known
  <2>2. QED BY <1>1, <1>8, <1>12, <2>1, AttemptsStillFit DEF IInv
<1>14. ClaimsStand /\ NoneInserted
  <2>1. ClaimsStand BY <1>10 DEF ClaimsStand
  <2>2. NoneInserted BY <1>10 DEF NoneInserted
  <2>3. QED BY <2>1, <2>2
<1>15. ASSUME NEW c \in Claim, claim'[c].session # None
       PROVE  LET b == claim'[c].session IN
              /\ session'[b].status # "none" /\ session'[b].promo
              /\ attempt'[b].salon = claim'[c].salon
  <2>1. CASE c = d /\ d # None /\ claim'[c].session = a
    BY <1>2, <1>4, <1>5, <1>7, <1>8, <1>10, <2>1 DEF Known
  <2>2. CASE claim'[c].session = claim[c].session
    <3>1. claim[c].session \in Attempt
      BY <1>3, <1>15, <2>2, Numbers DEF ClaimRow, Row, Attempt, None
    <3>2. QED BY <1>7, <1>8, <1>10, <1>15, <2>2, <3>1 DEF ClaimsFit, IInv, Known
  <2>3. QED BY <1>10, <2>1, <2>2
<1>16. ClaimsFit' BY <1>15 DEF ClaimsFit, Known
<1>17. IInv'
  BY <1>6, <1>10, <1>11, <1>12, <1>13, <1>14, <1>16, RequestKeeps
<1>18. QED BY <1>14, <1>17

LEMMA CheckoutFailsKeeps ==
  ASSUME IInv, NEW q \in Request, CheckoutFails(q)
  PROVE  IInv' /\ ClaimsStand
<1> DEFINE a == request[q].attempt
<1>1. Types /\ UnderWay(q) BY DEF IInv, CheckoutFails, UnderWay
<1>2. a \in Attempt BY <1>1, MoverFits
<1>3. /\ request' \in [Request -> RequestRow] /\ OthersStand(q)
      /\ request'[q].at # "counted" /\ ~UnderWay(q)'
  BY <1>1, AnswerTyped DEF CheckoutFails
<1>4. UNCHANGED <<now, sub, session>> BY DEF CheckoutFails
<1>5. /\ attempt' \in [Attempt -> AttemptRow]
      /\ \A b \in Attempt : /\ attempt'[b].salon = attempt[b].salon
                            /\ attempt'[b].stored = attempt[b].stored
                            /\ attempt'[b].status \in Active => attempt[b].status \in Active
                            /\ Made(b) => attempt'[b].status # "none"
  BY <1>1, <1>2, FailFacts DEF CheckoutFails
<1>6. /\ claim' \in [Claim -> ClaimRow]
      /\ NoneInserted /\ ClaimsStand
      /\ \A c \in Claim : /\ claim'[c].session = claim[c].session
                          /\ claim'[c].status \in {claim[c].status, "released"}
  BY <1>1, EndReservedFacts DEF CheckoutFails
<1>7. Types' BY <1>1, <1>3, <1>4, <1>5, <1>6 DEF Types, RequestRow, AttemptRow, ClaimRow, Salons
<1>8. SessionsStand BY <1>4, SessionsUnchanged
<1>9. OneActiveAttempt' /\ AttemptsFit' /\ AttemptsStand
  <2>1. \A b \in Attempt : session'[b].status # "none" => Known(b) BY <1>4 DEF Known
  <2>2. QED BY <1>1, <1>5, <1>8, <2>1, AttemptsStillFit DEF IInv
<1>10. ClaimsFit' BY <1>1, <1>6, <1>8, <1>9, ClaimsStillFit DEF IInv, NoneInserted
<1>11. \A c \in Claim : claim'[c].status = "redeemed" => claim[c].status = "redeemed" BY <1>6
<1>12. IInv'
  BY <1>3, <1>6, <1>7, <1>8, <1>9, <1>10, <1>11, RequestKeeps
<1>13. QED BY <1>6, <1>12

\* A request answers, and nothing else changes.
LEMMA AnswerKeeps ==
  ASSUME IInv, NEW q \in Request, request' = [request EXCEPT ![q] = Answered],
         UNCHANGED <<now, attempt, claim, sub, session>>
  PROVE  IInv' /\ ClaimsStand
<1>1. Types BY DEF IInv
<1>2. /\ request' \in [Request -> RequestRow] /\ OthersStand(q)
      /\ request'[q].at # "counted" /\ ~UnderWay(q)'
  BY <1>1, AnswerTyped
<1>3. Types' BY <1>1, <1>2 DEF Types, RequestRow, Salons
<1>4. AttemptsStand /\ SessionsStand /\ OneActiveAttempt' /\ AttemptsFit' BY AttemptsQuiet
<1>5. ClaimsStand /\ NoneInserted BY <1>1, ClaimsUnchanged
<1>6. ClaimsFit' BY <1>1, <1>4, ClaimsStillFit DEF IInv
<1>7. IInv' BY <1>2, <1>3, <1>4, <1>5, <1>6, RequestKeeps
<1>8. QED BY <1>5, <1>7

LEMMA CrashKeeps ==
  ASSUME IInv, NEW q \in Request, Crash(q)
  PROVE  IInv' /\ ClaimsStand
BY AnswerKeeps DEF Crash

(***************************************************************************)
(* The steps of the first transaction.                                     *)
(***************************************************************************)
\* The count: nobody else stands between a count and a commit, and what was
\* counted is what there is.
LEMMA CountClaimsKeeps ==
  ASSUME IInv, NEW q \in Request, CountClaims(q)
  PROVE  IInv' /\ ClaimsStand
<1> DEFINE s == request[q].salon
           held == {c \in LiveClaims : Same(s, c)}
<1>1. Types /\ UnderWay(q) BY DEF IInv, CountClaims, UnderWay
<1>2. RequestFits(q) /\ request[q] \in RequestRow BY <1>1, MoverFits
<1>3. request \in [Request -> RequestRow] BY <1>1, RowsTyped
<1>4. request[q].promo BY <1>2 DEF RequestFits, CountClaims
<1>5. UNCHANGED <<now, attempt, claim, sub, session>> BY DEF CountClaims
<1>6. PICK v \in Verdict, d \in 0..MaxClaims :
        /\ request' = [request EXCEPT ![q].at = "counted", ![q].verdict = v, ![q].claim = d]
        /\ v = "open" => held = {} /\ Cardinality(LiveClaims) < Cap
        /\ \/ d = request[q].claim
           \/ d \in held /\ claim[d].salon = s
  <2>1. CASE \E c \in held : claim[c].status = "reserved" /\ claim[c].salon = s /\
               request' = [request EXCEPT ![q].at = "counted", ![q].verdict = "reuse",
                                          ![q].claim = c]
    <3>1. PICK c \in held : claim[c].salon = s /\
               request' = [request EXCEPT ![q].at = "counted", ![q].verdict = "reuse",
                                          ![q].claim = c]
      BY <2>1
    <3>2. c \in 0..MaxClaims BY Numbers DEF LiveClaims, Claim
    <3>3. "reuse" \in Verdict BY DEF Verdict
    <3> HIDE DEF s, held
    <3>4. QED BY <3>1, <3>2, <3>3
  <2>2. CASE \E v \in Verdict :
               /\ request' = [request EXCEPT ![q].at = "counted", ![q].verdict = v]
               /\ v = "open" => held = {} /\ Cardinality(LiveClaims) < Cap
    <3>1. PICK v \in Verdict :
            /\ request' = [request EXCEPT ![q].at = "counted", ![q].verdict = v]
            /\ v = "open" => held = {} /\ Cardinality(LiveClaims) < Cap
      BY <2>2
    <3> HIDE DEF s, held
    <3>2. request' = [request EXCEPT ![q].at = "counted", ![q].verdict = v,
                                     ![q].claim = request[q].claim]
      BY <1>2, <1>3, <3>1 DEF RequestRow
    <3>3. request[q].claim \in 0..MaxClaims BY <1>2 DEF RequestRow
    <3>4. QED BY <3>1, <3>2, <3>3
  <2>3. "refused" \in Verdict /\ "open" \in Verdict BY DEF Verdict
  <2>4. Cardinality(LiveClaims) \in Nat BY LiveIsFinite
  <2>5. CASE \E c \in held :
               IF claim[c].status = "reserved" /\ claim[c].salon = s
               THEN request' = [request EXCEPT ![q].at = "counted", ![q].verdict = "reuse",
                                               ![q].claim = c]
               ELSE request' = [request EXCEPT ![q].at = "counted", ![q].verdict = "refused"]
    <3> HIDE DEF s, held
    <3>1. QED BY <2>1, <2>2, <2>3, <2>5
  <2>6. CASE /\ held = {}
             /\ request' = [request EXCEPT
                  ![q].at = "counted",
                  ![q].verdict = IF Cardinality(LiveClaims) >= Cap THEN "refused" ELSE "open"]
    <3> HIDE DEF s, held
    <3>1. CASE Cardinality(LiveClaims) >= Cap BY <2>2, <2>3, <2>6, <3>1
    <3>2. CASE ~(Cardinality(LiveClaims) >= Cap)
      <4>1. Cardinality(LiveClaims) < Cap BY <2>4, <3>2, Numbers
      <4>2. request' = [request EXCEPT ![q].at = "counted", ![q].verdict = "open"]
        BY <2>6, <3>2
      <4>3. QED BY <2>2, <2>3, <2>6, <4>1, <4>2
    <3>3. QED BY <3>1, <3>2
  <2>7. QED BY <2>5, <2>6 DEF CountClaims
<1>7. "counted" \in Place BY DEF Place
<1>8. /\ request' \in [Request -> RequestRow] /\ OthersStand(q)
      /\ request'[q].at = "counted" /\ request'[q].verdict = v
      /\ request'[q].attempt = request[q].attempt
      /\ request'[q].salon = s /\ request'[q].promo /\ request'[q].claim = d
  BY <1>2, <1>3, <1>4, <1>6, <1>7 DEF RequestRow, OthersStand
<1>9. Types' BY <1>1, <1>5, <1>8 DEF Types, RequestRow, Salons
<1>10. AttemptsStand /\ SessionsStand /\ OneActiveAttempt' /\ AttemptsFit'
  BY <1>5, AttemptsQuiet
<1>11. ClaimsStand /\ NoneInserted BY <1>1, <1>5, ClaimsUnchanged
<1>12. ClaimsFit' BY <1>1, <1>5, <1>10, ClaimsStillFit DEF IInv
<1>13. RequestFits(q)'
  <2>1. d # None => claim[d].status # "none" /\ claim[d].salon = s
    BY <1>2, <1>6 DEF RequestFits, LiveClaims
  <2>2. QED BY <1>2, <1>5, <1>8, <2>1 DEF RequestFits, Made
<1>14. RequestsFit' BY <1>8, <1>10, <1>11, <1>13, OneMoves DEF IInv
<1>15. \A r \in Request : request'[r].at = "counted" => r = q
  BY <1>8 DEF OthersStand, CountClaims, CounterFree
<1>16. OneCounts' BY <1>15 DEF OneCounts
<1>17. RoomLeft'
  BY <1>5, <1>6, <1>8, <1>15 DEF RoomLeft, LiveClaims, Same
<1>18. LiveWithinCap' /\ OneLiveClaim' BY <1>11, ClaimsShrink DEF IInv
<1>19. RedeemedIsPaid'
  <2>1. \A c \in Claim : claim'[c].status = "redeemed" => claim[c].status = "redeemed"
    BY <1>5
  <2>2. QED BY <1>10, <1>11, <2>1, PaymentsStand DEF IInv
<1>20. QED
  BY <1>9, <1>10, <1>11, <1>12, <1>14, <1>16, <1>17, <1>18, <1>19 DEF IInv

\* A request that Stripe's answer is not needed for is answered; the others
\* go on to ask.
LEMMA ProceedsFits ==
  ASSUME IInv, NEW q \in Request, NEW d \in 0..MaxClaims,
         request[q].at = "counted", NEW stored \in BOOLEAN,
         request' = [request EXCEPT ![q] = Proceeds([request[q] EXCEPT !.claim = d], stored)],
         UNCHANGED session, AttemptsStand,
         d # None => claim'[d].status # "none" /\ claim'[d].salon = request[q].salon
  PROVE  /\ request' \in [Request -> RequestRow] /\ OthersStand(q)
         /\ request'[q].at # "counted"
         /\ UnderWay(q)' => RequestFits(q)'
<1> DEFINE req == [request[q] EXCEPT !.claim = d]
<1>1. UnderWay(q) BY DEF UnderWay
<1>2. RequestFits(q) /\ request[q] \in RequestRow BY <1>1, MoverFits
<1>3. request \in [Request -> RequestRow] BY RowsTyped DEF IInv
<1>4. /\ req \in RequestRow /\ req.attempt = request[q].attempt
      /\ req.salon = request[q].salon /\ req.promo = request[q].promo /\ req.claim = d
  BY <1>2 DEF RequestRow
<1>5. request' = [request EXCEPT ![q] = Proceeds(req, stored)] OBVIOUS
<1> HIDE DEF req
<1>6. /\ request'[q] = Proceeds(req, stored) /\ OthersStand(q)
      /\ request' \in [Request -> RequestRow]
  BY <1>3, <1>4, <1>5, ProceedsRow DEF OthersStand
<1>7. /\ request'[q] \in RequestRow
      /\ \/ request'[q].at = "done"
         \/ /\ request'[q].at = "asking"
            /\ request'[q].attempt = request[q].attempt
            /\ request'[q].salon = request[q].salon
            /\ request'[q].promo = request[q].promo
            /\ request'[q].claim = d
  BY <1>4, <1>6, ProceedsRow
<1>8. request[q].promo /\ request[q].attempt \in Attempt /\ Made(request[q].attempt)
      /\ attempt[request[q].attempt].salon = request[q].salon
  BY <1>2 DEF RequestFits
<1>9. attempt'[request[q].attempt].status # "none"
      /\ attempt'[request[q].attempt].salon = request[q].salon
  BY <1>8 DEF AttemptsStand
<1>10. UnderWay(q)' => RequestFits(q)'
  BY <1>7, <1>8, <1>9 DEF UnderWay, RequestFits, Made
<1>11. QED BY <1>6, <1>7, <1>10

LEMMA RefusedKeeps ==
  ASSUME IInv, NEW q \in Request, request[q].at = "counted",
         attempt' = failAttempt(request[q].attempt),
         request' = [request EXCEPT ![q] = Answered],
         UNCHANGED <<now, claim, sub, session>>
  PROVE  IInv' /\ ClaimsStand
<1> DEFINE a == request[q].attempt
<1>1. Types /\ UnderWay(q) BY DEF IInv, UnderWay
<1>2. a \in Attempt BY <1>1, MoverFits
<1>3. /\ request' \in [Request -> RequestRow] /\ OthersStand(q)
      /\ request'[q].at # "counted" /\ ~UnderWay(q)'
  BY <1>1, AnswerTyped
<1>4. /\ attempt' \in [Attempt -> AttemptRow]
      /\ \A b \in Attempt : /\ attempt'[b].salon = attempt[b].salon
                            /\ attempt'[b].stored = attempt[b].stored
                            /\ attempt'[b].status \in Active => attempt[b].status \in Active
                            /\ Made(b) => attempt'[b].status # "none"
  BY <1>1, <1>2, FailFacts
<1>5. ClaimsStand /\ NoneInserted /\ SessionsStand
  BY <1>1, ClaimsUnchanged, SessionsUnchanged
<1>6. Types' BY <1>1, <1>3, <1>4 DEF Types, RequestRow, AttemptRow, Salons
<1>7. OneActiveAttempt' /\ AttemptsFit' /\ AttemptsStand
  <2>1. \A b \in Attempt : session'[b].status # "none" => Known(b) BY DEF Known
  <2>2. QED BY <1>1, <1>4, <1>5, <2>1, AttemptsStillFit DEF IInv
<1>8. ClaimsFit' BY <1>1, <1>5, <1>7, ClaimsStillFit DEF IInv
<1>9. IInv' BY <1>3, <1>5, <1>6, <1>7, <1>8, RequestKeeps
<1>10. QED BY <1>5, <1>9

LEMMA ReuseKeeps ==
  ASSUME IInv, NEW q \in Request, request[q].at = "counted",
         request' = [request EXCEPT
           ![q] = Proceeds(request[q], attempt[request[q].attempt].stored)],
         UNCHANGED <<now, attempt, claim, sub, session>>
  PROVE  IInv' /\ ClaimsStand
<1> DEFINE d == request[q].claim
           stored == attempt[request[q].attempt].stored
<1>1. Types /\ UnderWay(q) BY DEF IInv, UnderWay
<1>2. RequestFits(q) /\ request[q] \in RequestRow /\ request[q].attempt \in Attempt
  BY <1>1, MoverFits
<1>3. d \in 0..MaxClaims BY <1>2 DEF RequestRow
<1>4. stored \in BOOLEAN BY <1>1, <1>2, RowsTyped DEF AttemptRow
<1>5. [request[q] EXCEPT !.claim = d] = request[q] BY <1>2 DEF RequestRow
<1>6. AttemptsStand /\ SessionsStand /\ OneActiveAttempt' /\ AttemptsFit' BY AttemptsQuiet
<1>7. d # None => claim'[d].status # "none" /\ claim'[d].salon = request[q].salon
  BY <1>2 DEF RequestFits
<1>8. request' = [request EXCEPT ![q] = Proceeds([request[q] EXCEPT !.claim = d], stored)]
  BY <1>5
<1> HIDE DEF d, stored
<1>9. /\ request' \in [Request -> RequestRow] /\ OthersStand(q)
      /\ request'[q].at # "counted"
      /\ UnderWay(q)' => RequestFits(q)'
  BY <1>3, <1>4, <1>6, <1>7, <1>8, ProceedsFits
<1>10. Types' BY <1>1, <1>9 DEF Types, RequestRow, Salons
<1>11. ClaimsStand /\ NoneInserted BY <1>1, ClaimsUnchanged
<1>12. ClaimsFit' BY <1>1, <1>6, <1>11, ClaimsStillFit DEF IInv
<1>13. IInv' BY <1>6, <1>9, <1>10, <1>11, <1>12, RequestKeeps
<1>14. QED BY <1>11, <1>13

\* The insert takes one of the places that were counted free.
LEMMA OpenKeeps ==
  ASSUME IInv, NEW q \in Request, request[q].at = "counted", request[q].verdict = "open",
         NEW c \in Claim, claim[c].status = "none",
         claim' = [claim EXCEPT
           ![c] = [salon |-> request[q].salon, status |-> "reserved", session |-> None,
                   expiresAt |-> request[q].began + ClaimTTL]],
         request' = [request EXCEPT
           ![q] = Proceeds([request[q] EXCEPT !.claim = c],
                           attempt[request[q].attempt].stored)],
         UNCHANGED <<now, attempt, sub, session>>
  PROVE  IInv' /\ ClaimsStand
<1> DEFINE s == request[q].salon
           row == [salon |-> s, status |-> "reserved", session |-> None,
                   expiresAt |-> request[q].began + ClaimTTL]
           stored == attempt[request[q].attempt].stored
<1>1. Types /\ UnderWay(q) BY DEF IInv, UnderWay
<1>2. RequestFits(q) /\ request[q] \in RequestRow /\ request[q].attempt \in Attempt
  BY <1>1, MoverFits
<1>3. c \in 0..MaxClaims BY Numbers DEF Claim
<1>4. stored \in BOOLEAN BY <1>1, <1>2, RowsTyped DEF AttemptRow
<1>5. claim \in [Claim -> ClaimRow] BY <1>1, RowsTyped
<1>6. row \in ClaimRow
  <2>1. request[q].began + ClaimTTL \in Later
    BY <1>2, Numbers DEF RequestRow, Instant, Later
  <2>2. s \in Salons /\ None \in Row /\ "reserved" \in ClaimStatus
    BY <1>2, Numbers DEF RequestRow, None, Row, ClaimStatus
  <2>3. QED BY <2>1, <2>2 DEF ClaimRow
<1>7. row.salon = s /\ row.status = "reserved" /\ row.session = None OBVIOUS
<1>8. claim' = [claim EXCEPT ![c] = row] OBVIOUS
<1>9. request' = [request EXCEPT ![q] = Proceeds([request[q] EXCEPT !.claim = c], stored)]
  OBVIOUS
<1>10. /\ Cardinality(LiveClaims) < Cap
       /\ \A d \in LiveClaims : ~Same(s, d)
  BY DEF IInv, RoomLeft
<1> HIDE DEF row, stored, s
<1>11. /\ claim' \in [Claim -> ClaimRow] /\ claim'[c] = row
       /\ \A d \in Claim : d # c => claim'[d] = claim[d]
  BY <1>5, <1>6, <1>8
<1>12. AttemptsStand /\ SessionsStand /\ OneActiveAttempt' /\ AttemptsFit' BY AttemptsQuiet
<1>13. ClaimsStand
  <2>1. ~(claim[c].status \in Ended) BY DEF Ended
  <2>2. QED BY <1>11, <2>1 DEF ClaimsStand
<1>14. /\ request' \in [Request -> RequestRow] /\ OthersStand(q)
       /\ request'[q].at # "counted"
       /\ UnderWay(q)' => RequestFits(q)'
  <2>1. claim'[c].status # "none" /\ claim'[c].salon = request[q].salon
    BY <1>7, <1>11 DEF s
  <2>2. QED BY <1>3, <1>4, <1>9, <1>12, <2>1, ProceedsFits
<1>15. Types' BY <1>1, <1>11, <1>14 DEF Types, RequestRow, ClaimRow, Salons
<1>16. RequestsFit' BY <1>12, <1>13, <1>14, OneMoves DEF IInv
<1>17. \A r \in Request : request'[r].at # "counted"
  BY <1>14 DEF OthersStand, OneCounts, IInv
<1>18. OneCounts' /\ RoomLeft' BY <1>17 DEF OneCounts, RoomLeft
<1>19. LiveClaims' = LiveClaims \cup {c} /\ c \notin LiveClaims
  BY <1>7, <1>11 DEF LiveClaims
<1>20. LiveWithinCap'
  <2>1. Cardinality(LiveClaims') = Cardinality(LiveClaims) + 1
    BY <1>19, LiveIsFinite, FS_AddElement
  <2>2. QED BY <1>10, <2>1, LiveIsFinite, Numbers DEF LiveWithinCap
<1>21. OneLiveClaim'
  <2>1. ASSUME NEW d \in LiveClaims', NEW e \in LiveClaims',
               BusinessOf[claim'[d].salon] = BusinessOf[claim'[e].salon]
        PROVE  d = e
    <3>1. CASE d = c /\ e = c BY <3>1
    <3>2. CASE d = c /\ e # c
      BY <1>7, <1>10, <1>11, <1>19, <2>1, <3>2 DEF Same, LiveClaims
    <3>3. CASE d # c /\ e = c
      BY <1>7, <1>10, <1>11, <1>19, <2>1, <3>3 DEF Same, LiveClaims
    <3>4. CASE d # c /\ e # c
      BY <1>11, <1>19, <2>1, <3>4 DEF IInv, OneLiveClaim, LiveClaims
    <3>5. QED BY <3>1, <3>2, <3>3, <3>4
  <2>2. QED BY <2>1 DEF OneLiveClaim
<1>22. ClaimsFit'
  <2>1. ASSUME NEW d \in Claim, claim'[d].session # None
        PROVE  LET b == claim'[d].session IN
               /\ session'[b].status # "none" /\ session'[b].promo
               /\ attempt'[b].salon = claim'[d].salon
    <3>1. d # c BY <1>7, <1>11, <2>1
    <3>2. QED BY <1>11, <2>1, <3>1 DEF ClaimsFit, IInv, Known
  <2>2. QED BY <2>1 DEF ClaimsFit, Known
<1>23. RedeemedIsPaid'
  <2>1. \A d \in Claim : claim'[d].status = "redeemed" => claim[d].status = "redeemed"
    BY <1>7, <1>11
  <2>2. QED BY <1>12, <1>13, <2>1, PaymentsStand DEF IInv
<1>24. QED
  BY <1>12, <1>13, <1>15, <1>16, <1>18, <1>20, <1>21, <1>22, <1>23 DEF IInv

LEMMA ReserveClaimKeeps ==
  ASSUME IInv, NEW q \in Request, ReserveClaim(q)
  PROVE  IInv' /\ ClaimsStand
<1>1. CASE request[q].verdict = "refused" BY <1>1, RefusedKeeps DEF ReserveClaim
<1>2. CASE request[q].verdict = "reuse" BY <1>2, ReuseKeeps DEF ReserveClaim
<1>3. CASE request[q].verdict = "open"
  <2>1. PICK c \in Unused(claim, Claim) :
          /\ claim' = [claim EXCEPT
               ![c] = [salon |-> request[q].salon, status |-> "reserved", session |-> None,
                       expiresAt |-> request[q].began + ClaimTTL]]
          /\ request' = [request EXCEPT
               ![q] = Proceeds([request[q] EXCEPT !.claim = c],
                               attempt[request[q].attempt].stored)]
    BY <1>3 DEF ReserveClaim
  <2>2. c \in Claim /\ claim[c].status = "none" BY DEF Unused
  <2>3. UNCHANGED <<now, attempt, sub, session>> /\ request[q].at = "counted"
    BY <1>3 DEF ReserveClaim
  <2>4. QED BY <1>3, <2>1, <2>2, <2>3, OpenKeeps
<1>4. QED BY <1>1, <1>2, <1>3 DEF ReserveClaim

\* The attempts after the transaction: what lapsed is expired, and the request
\* has one that was kept or one of its own.
LEMMA SupersededFacts ==
  ASSUME Types, NEW s \in Salon
  PROVE  /\ Superseded(s) \in [Attempt -> AttemptRow]
         /\ \A b \in Attempt :
              /\ Superseded(s)[b].salon = attempt[b].salon
              /\ Superseded(s)[b].stored = attempt[b].stored
              /\ Superseded(s)[b].status \in Active =>
                   attempt[b].status \in Active /\ ~(b \in ActiveOf(s) /\ Lapsed(b))
              /\ Made(b) => Superseded(s)[b].status # "none"
<1>1. attempt \in [Attempt -> AttemptRow] BY RowsTyped
<1>2. ASSUME NEW b \in Attempt
      PROVE  /\ Superseded(s)[b] \in AttemptRow
             /\ Superseded(s)[b].salon = attempt[b].salon
             /\ Superseded(s)[b].stored = attempt[b].stored
             /\ Superseded(s)[b].status \in Active =>
                  attempt[b].status \in Active /\ ~(b \in ActiveOf(s) /\ Lapsed(b))
             /\ Made(b) => Superseded(s)[b].status # "none"
  <2>1. CASE b \in ActiveOf(s) /\ Lapsed(b)
    BY <1>1, <2>1 DEF Superseded, AttemptRow, AttemptStatus, Active
  <2>2. CASE ~(b \in ActiveOf(s) /\ Lapsed(b))
    <3>1. Superseded(s)[b] = attempt[b] BY <2>2 DEF Superseded
    <3>2. QED BY <1>1, <2>2, <3>1 DEF Made
  <2>3. QED BY <2>1, <2>2
<1>3. Superseded(s) \in [Attempt -> AttemptRow] BY <1>2 DEF Superseded
<1>4. QED BY <1>2, <1>3

LEMMA AttemptBegins ==
  ASSUME IInv, NEW s \in Salon, NEW a \in Attempt, UNCHANGED session,
         LET kept == {b \in ActiveOf(s) : ~Lapsed(b)} IN
         \/ a \in kept /\ attempt' = Superseded(s)
         \/ /\ kept = {}
            /\ a \in Unused(attempt, Attempt)
            /\ attempt' = [Superseded(s) EXCEPT
                 ![a] = [salon |-> s, status |-> "creating", stored |-> FALSE,
                         expiresAt |-> now + AttemptTTL]]
  PROVE  /\ attempt' \in [Attempt -> AttemptRow]
         /\ AttemptsStand /\ OneActiveAttempt' /\ AttemptsFit'
         /\ attempt'[a].status # "none" /\ attempt'[a].salon = s
<1> DEFINE kept == {b \in ActiveOf(s) : ~Lapsed(b)}
           row == [salon |-> s, status |-> "creating", stored |-> FALSE,
                   expiresAt |-> now + AttemptTTL]
<1>1. Types BY DEF IInv
<1>2. /\ Superseded(s) \in [Attempt -> AttemptRow]
      /\ \A b \in Attempt :
           /\ Superseded(s)[b].salon = attempt[b].salon
           /\ Superseded(s)[b].stored = attempt[b].stored
           /\ Superseded(s)[b].status \in Active =>
                attempt[b].status \in Active /\ ~(b \in ActiveOf(s) /\ Lapsed(b))
           /\ Made(b) => Superseded(s)[b].status # "none"
  BY <1>1, SupersededFacts
<1>3. SessionsStand BY SessionsUnchanged
<1>4. CASE a \in kept /\ attempt' = Superseded(s)
  <2>1. \A b \in Attempt : session'[b].status # "none" => Known(b) BY DEF Known
  <2>2. AttemptsStand /\ OneActiveAttempt' /\ AttemptsFit'
    BY <1>1, <1>2, <1>3, <1>4, <2>1, AttemptsStillFit DEF IInv
  <2>3. attempt[a].salon = s /\ Made(a) BY <1>4 DEF ActiveOf, Made, Active
  <2>4. QED BY <1>2, <1>4, <2>2, <2>3
<1>5. CASE /\ kept = {}
           /\ a \in Unused(attempt, Attempt)
           /\ attempt' = [Superseded(s) EXCEPT ![a] = row]
  <2>1. row \in AttemptRow
    <3>1. now + AttemptTTL \in Later
      BY <1>1, RowsTyped, Numbers DEF Instant, Later
    <3>2. QED BY <3>1 DEF AttemptRow, AttemptStatus, Salons
  <2>2. row.salon = s /\ row.status = "creating" /\ row.stored = FALSE OBVIOUS
  <2>3. ~Made(a) BY <1>5 DEF Unused, Made
  <2> HIDE DEF row
  <2>4. /\ attempt' \in [Attempt -> AttemptRow] /\ attempt'[a] = row
        /\ \A b \in Attempt : b # a => attempt'[b] = Superseded(s)[b]
    BY <1>2, <1>5, <2>1
  <2>5. AttemptsStand BY <1>2, <2>3, <2>4 DEF AttemptsStand
  <2>6. AttemptsFit'
    <3>1. ~Known(a) BY <2>3 DEF IInv, AttemptsFit
    <3>2. ASSUME NEW b \in Attempt
          PROVE  /\ session'[b].status # "none" => attempt'[b].status # "none"
                 /\ attempt'[b].stored => session'[b].status # "none"
      <4>1. CASE b = a BY <2>2, <2>4, <3>1, <4>1 DEF Known
      <4>2. CASE b # a BY <1>2, <2>4, <4>2 DEF IInv, AttemptsFit, Known
      <4>3. QED BY <4>1, <4>2
    <3>3. QED BY <3>2 DEF AttemptsFit, Known, Made
  <2>7. \A b \in Attempt : b # a /\ attempt'[b].status \in Active =>
          attempt'[b].salon # s /\ attempt[b].status \in Active
                                /\ attempt'[b].salon = attempt[b].salon
    BY <1>2, <1>5, <2>4 DEF ActiveOf
  <2>8. OneActiveAttempt'
    BY <2>2, <2>4, <2>7 DEF OneActiveAttempt, IInv
  <2>9. QED BY <2>2, <2>4, <2>5, <2>6, <2>8
<1>6. QED BY <1>4, <1>5

LEMMA BeginCheckoutKeeps ==
  ASSUME IInv, NEW q \in Request, NEW s \in Salon, NEW promo \in BOOLEAN,
         BeginCheckout(q, s, promo)
  PROVE  IInv' /\ ClaimsStand
<1>1. Types BY DEF IInv
<1>2. UNCHANGED <<now, claim, sub, session>> BY DEF BeginCheckout
<1>3. PICK a \in Attempt :
        /\ LET kept == {b \in ActiveOf(s) : ~Lapsed(b)} IN
           \/ a \in kept /\ attempt' = Superseded(s)
           \/ /\ kept = {}
              /\ a \in Unused(attempt, Attempt)
              /\ attempt' = [Superseded(s) EXCEPT
                   ![a] = [salon |-> s, status |-> "creating", stored |-> FALSE,
                           expiresAt |-> now + AttemptTTL]]
        /\ LET req == [NewRequest EXCEPT !.at = "reserving", !.salon = s, !.promo = promo,
                                   !.began = now, !.attempt = a,
                                   !.made = a \notin ActiveOf(s)]
           IN request' = [request EXCEPT
                            ![q] = IF promo THEN req ELSE Proceeds(req, attempt[a].stored)]
  BY DEF BeginCheckout
<1>4. /\ attempt' \in [Attempt -> AttemptRow]
      /\ AttemptsStand /\ OneActiveAttempt' /\ AttemptsFit'
      /\ attempt'[a].status # "none" /\ attempt'[a].salon = s
  BY <1>2, <1>3, AttemptBegins
<1> DEFINE made == a \notin ActiveOf(s)
           req == [NewRequest EXCEPT !.at = "reserving", !.salon = s, !.promo = promo,
                             !.began = now, !.attempt = a, !.made = made]
           next == IF promo THEN req ELSE Proceeds(req, attempt[a].stored)
<1>5. /\ req \in RequestRow /\ req.at = "reserving" /\ req.salon = s
      /\ req.promo = promo /\ req.attempt = a /\ req.claim = None
  <2>1. "reserving" \in Place /\ s \in Salons /\ a \in Row /\ now \in Instant
    BY <1>1, RowsTyped, Numbers DEF Place, Salons, Attempt, Row
  <2>2. NewRequest \in RequestRow /\ NewRequest.claim = None
    BY AnsweredRow DEF NewRequest
  <2>3. made \in BOOLEAN OBVIOUS
  <2> HIDE DEF made
  <2>4. QED BY <2>1, <2>2, <2>3 DEF RequestRow
<1>6. attempt[a].stored \in BOOLEAN BY <1>1, RowsTyped DEF AttemptRow
<1> HIDE DEF req
<1>7. /\ next \in RequestRow
      /\ \/ next.at = "done"
         \/ /\ next.at \in {"reserving", "asking"}
            /\ next.at = "reserving" => next.promo
            /\ next.salon = s /\ next.attempt = a /\ next.claim = None
  <2>1. CASE promo BY <1>5, <2>1
  <2>2. CASE ~promo
    <3>1. next = Proceeds(req, attempt[a].stored) BY <2>2
    <3> HIDE DEF next
    <3>2. QED BY <1>5, <1>6, <3>1, ProceedsRow
  <2>3. QED BY <2>1, <2>2
<1>8. request' = [request EXCEPT ![q] = next] BY <1>3, Zenon DEF req, next, made
<1> HIDE DEF next
<1>9. /\ request' \in [Request -> RequestRow] /\ OthersStand(q) /\ request'[q] = next
  BY <1>1, <1>7, <1>8, RowsTyped DEF OthersStand
<1>10. request'[q].at # "counted" BY <1>7, <1>9
<1>11. UnderWay(q)' => RequestFits(q)'
  BY <1>4, <1>7, <1>9 DEF UnderWay, RequestFits, Made
<1>12. Types' BY <1>1, <1>2, <1>4, <1>9 DEF Types, RequestRow, AttemptRow, Salons
<1>13. ClaimsStand /\ NoneInserted /\ SessionsStand
  BY <1>1, <1>2, ClaimsUnchanged, SessionsUnchanged
<1>14. ClaimsFit' BY <1>1, <1>2, <1>4, <1>13, ClaimsStillFit DEF IInv
<1>15. IInv'
  BY <1>2, <1>4, <1>9, <1>10, <1>11, <1>12, <1>13, <1>14, RequestKeeps
<1>16. QED BY <1>13, <1>15

(***************************************************************************)
(* The whole.                                                              *)
(***************************************************************************)
LEMMA InitKeeps ==
  ASSUME CheckoutInit
  PROVE  IInv
<1>1. \A a \in Attempt : attempt[a].status = "none" /\ attempt[a].stored = FALSE
  BY DEF CheckoutInit
<1>2. \A c \in Claim : claim[c].status = "none" /\ claim[c].session = None
  BY DEF CheckoutInit
<1>3. \A q \in Request : request[q].at = "new" BY DEF CheckoutInit, NewRequest
<1>4. \A a \in Attempt : session[a].status = "none" BY DEF CheckoutInit
<1>5. Types
  <2>1. 0 \in Instant /\ 0 \in Row /\ None \in Row /\ 0 \in Later /\ None \in Salons
    BY Numbers DEF Instant, Row, Later, None, Salons
  <2>2. attempt \in [Attempt -> AttemptRow]
    BY <2>1 DEF CheckoutInit, AttemptRow, AttemptStatus
  <2>3. claim \in [Claim -> ClaimRow] BY <2>1 DEF CheckoutInit, ClaimRow, ClaimStatus
  <2>4. sub \in Seq(SubRow) BY EmptySeq DEF CheckoutInit
  <2>5. request \in [Request -> RequestRow] BY AnsweredRow DEF CheckoutInit
  <2>6. session \in [Attempt -> SessionRow] BY <2>1 DEF CheckoutInit, SessionRow, SessionStatus
  <2>7. now \in Instant BY <2>1 DEF CheckoutInit
  <2>8. QED
    BY <2>2, <2>3, <2>4, <2>5, <2>6, <2>7
    DEF Types, AttemptRow, ClaimRow, SubRow, RequestRow, SessionRow, Salons
<1>6. LiveClaims = {} BY <1>2 DEF LiveClaims
<1>7. LiveWithinCap BY <1>6, FS_EmptySet, Numbers DEF LiveWithinCap
<1>8. OneLiveClaim /\ RedeemedIsPaid /\ ClaimsFit
  BY <1>2, <1>6 DEF OneLiveClaim, RedeemedIsPaid, ClaimsFit
<1>9. OneActiveAttempt /\ AttemptsFit
  BY <1>1, <1>4 DEF OneActiveAttempt, AttemptsFit, Active, Known
<1>10. OneCounts /\ RoomLeft /\ RequestsFit
  BY <1>3 DEF OneCounts, RoomLeft, RequestsFit, UnderWay
<1>11. QED BY <1>5, <1>7, <1>8, <1>9, <1>10 DEF IInv

LEMMA NextKeeps ==
  ASSUME IInv, [Next]_vars
  PROVE  IInv' /\ ClaimsStand
<1>1. CASE Tick BY <1>1, TickKeeps
<1>2. CASE expireStaleClaims BY <1>2, SweepKeeps
<1>3. ASSUME NEW q \in Request,
             \/ \E s \in Salon, promo \in BOOLEAN : BeginCheckout(q, s, promo)
             \/ CountClaims(q) \/ ReserveClaim(q)
             \/ CreateSession(q) \/ CreateRefused(q) \/ RecordSession(q)
             \/ CheckoutFails(q) \/ Crash(q)
      PROVE  IInv' /\ ClaimsStand
  BY <1>3, BeginCheckoutKeeps, CountClaimsKeeps, ReserveClaimKeeps, CreateSessionKeeps,
     CreateRefusedKeeps, RecordSessionKeeps, CheckoutFailsKeeps, CrashKeeps
<1>4. ASSUME NEW a \in Attempt,
             \/ ClientCompletes(a) \/ PaymentSettles(a) \/ SessionLapses(a)
             \/ applyCheckoutSessionCompleted(a) \/ applyCheckoutSessionExpired(a)
             \/ projectSubscriptionSnapshot(a)
      PROVE  IInv' /\ ClaimsStand
  BY <1>4, StripeKeeps, CompletedKeeps, ExpiredKeeps, ProjectKeeps
<1>5. ASSUME NEW i \in DOMAIN sub,
             \/ applyInvoicePaymentSucceeded(i)
             \/ SubscriptionCanceled(i) \/ PrepaidTimeEnds(i)
      PROVE  IInv' /\ ClaimsStand
  BY <1>5, InvoiceKeeps, EndsKeep
<1>6. CASE UNCHANGED vars
  <2>1. UNCHANGED <<now, attempt, claim, sub, request, session>> BY <1>6 DEF vars
  <2>2. sub' \in Seq(SubRow) BY <2>1, RowsTyped DEF IInv
  <2>3. QED BY <2>1, <2>2, SubAloneKeeps
<1>7. QED BY <1>1, <1>2, <1>3, <1>4, <1>5, <1>6 DEF Next

\* The invariant is kept by every step from every state that has it.
THEOREM Inductive == Spec => []IInv
<1>1. CheckoutInit => IInv BY InitKeeps
<1>2. IInv /\ [Next]_vars => IInv' BY NextKeeps
<1>3. QED BY <1>1, <1>2, PTL DEF Spec

LEMMA FitIsTypeOK == IInv => TypeOK
<1>1. SUFFICES ASSUME IInv PROVE SessionsExist BY DEF IInv, TypeOK
<1>2. \A a \in Attempt : attempt[a].stored => session[a].status # "none"
  BY <1>1 DEF IInv, AttemptsFit, Known
<1>3. \A c \in Claim : claim[c].session # None => session[claim[c].session].status # "none"
  BY <1>1 DEF IInv, ClaimsFit, Known
<1>4. QED BY <1>2, <1>3 DEF SessionsExist

\* Rows stay of their kind; no salon has two attempts under way and no business
\* two live claims, so that no insert of the route ever runs into one of the
\* unique indexes (checkoutAttempts.ts, promotionClaims.ts).
THEOREM RowsWellFormed == Spec => []TypeOK
BY Inductive, FitIsTypeOK, PTL

\* However many requests count at once, whatever fails between count and
\* commit, and whenever claims end, a promotion of Cap places has at most that
\* many reserved or redeemed.
THEOREM PlacesWithinCap == Spec => []LiveWithinCap
<1>1. IInv => LiveWithinCap BY DEF IInv
<1>2. QED BY Inductive, <1>1, PTL

\* Behind every redeemed claim stands a founder's session of its salon that was
\* paid, in whatever order the events of session, subscription and invoice came.
THEOREM RedeemedWasPaid == Spec => []RedeemedIsPaid
<1>1. IInv => RedeemedIsPaid BY DEF IInv
<1>2. QED BY Inductive, <1>1, PTL

\* No step takes a claim out of redeemed, released or expired.
THEOREM ClaimsEndOnce == Spec => ClaimEndsOnce
<1>1. IInv /\ [Next]_vars => [ClaimEnds]_vars
  <2>1. ClaimsStand => ClaimEnds BY DEF ClaimsStand, ClaimEnds
  <2>2. QED BY <2>1, NextKeeps
<1>2. QED BY Inductive, <1>1, PTL DEF Spec, ClaimEndsOnce
=============================================================================
