---------------------------- MODULE CreditLedger ----------------------------
(***************************************************************************)
(* The SMS credit account of one salon: an append-only ledger of lots      *)
(* (positive rows) and of entries that consume a named lot (negative       *)
(* rows), the reservations that hold, debit and give back segments of      *)
(* those lots, and the top-up purchases that grant and reverse them.       *)
(*                                                                         *)
(* Every transaction of the code takes the row lock of the salon's account *)
(* before it touches the ledger (lockCreditAccount), so each transaction   *)
(* is one action here.  Its clock is read BEFORE the lock is granted, so   *)
(* an action runs at an instant t that may lag behind `now'.               *)
(***************************************************************************)
EXTENDS Integers, Sequences, FiniteSets, Functions

CONSTANTS
  Reservation,      \* rows of sms_credit_reservation
  DedupeKey,        \* the dedupe keys callers reserve under
  Purchase,         \* rows of sms_topup_purchase
  Grant,            \* grants of the other components, [name, bucket, amount, expiresAt]
  TopupCredits,     \* credits of one top-up: G in reverseTopup
  TopupCents,       \* price of one top-up: A in reverseTopup
  ReservationTTL,   \* RESERVATION_TTL_MS
  RecoveryTTL,      \* DELIVERY_RECOVERY_TTL_MS
  ClockLag,         \* how far a transaction's clock may lag
  MaxSegments,      \* bound: segments of one message
  MaxLots,          \* bound: positive rows
  MaxTime           \* bound: the clock

ASSUME ReservationAssumption == IsFiniteSet(Reservation)

ASSUME NumbersAssumption ==
  /\ TopupCredits \in Nat \ {0}
  /\ TopupCents \in Nat \ {0}
  /\ ReservationTTL \in Nat
  /\ RecoveryTTL \in Nat
  /\ ClockLag \in Nat
  /\ MaxSegments \in Nat
  /\ MaxLots \in Nat
  /\ MaxTime \in Nat

NoExpiry == MaxTime + RecoveryTTL + 1     \* expires_at IS NULL: after every instant
Instant == 0..NoExpiry
Lot == 1..MaxLots

\* SPEND_ORDER_RANK: lower spends first.
SPEND_ORDER_RANK ==
  [monthly |-> 1, promotional |-> 2, delivery_recovery |-> 3,
   administrative |-> 4, starter |-> 5, purchased |-> 6]
Bucket == DOMAIN SPEND_ORDER_RANK

ASSUME GrantAssumption ==
  Grant \subseteq [name : STRING, bucket : Bucket, amount : Nat \ {0}, expiresAt : Instant]

VARIABLES
  now,           \* wall clock
  lots,          \* positive ledger rows in creation order: [key, bucket, amount, expiresAt]
  entries,       \* negative ledger rows: [key, type, lot, units]
  reservation,   \* sms_credit_reservation
  held,          \* sms_credit_reservation_lot: [segments, refundedSegments, refundedAt]
  purchase,      \* sms_topup_purchase: [status, lot]
  stripe,        \* external: refunds and disputes Stripe has announced, per purchase
  account        \* sms_credit_account: the cached balance

ledgerVars == <<lots, entries>>
vars == <<now, lots, entries, reservation, held, purchase, stripe, account>>

NoRow == [segments |-> 0, refundedSegments |-> 0, refundedAt |-> FALSE]
NotReconciled == -1                       \* provider_segments IS NULL
NoReservation ==
  [status |-> "none", key |-> "none", segments |-> 0, expiresAt |-> 0,
   providerSegments |-> NotReconciled, refunded |-> FALSE]

(***************************************************************************)
(* Lot arithmetic.  A sum of units is the number of unit tokens.           *)
(***************************************************************************)
Total(units, S) == Cardinality(UNION {{x} \X (1..units[x]) : x \in S})

Lesser(a, b) == IF a <= b THEN a ELSE b
Monus(a, b) == IF a >= b THEN a - b ELSE 0

LotIds == DOMAIN lots
LotKeys == {lots[l].key : l \in LotIds}
EntryKeys == {e.key : e \in entries}
WithStatus(S) == {r \in Reservation : reservation[r].status \in S}

EntriesOn(l, types) == {e \in entries : e.lot = l /\ e.type \in types}
Units(E) == Total([e \in E |-> e.units], E)
EntryType == {"debit", "expiry", "purchase_reversal"}

Consumed(l) == Units(EntriesOn(l, EntryType))
Held(l) == Total([r \in Reservation |-> held[r][l].segments], WithStatus({"held"}))
LotRemaining(l) == lots[l].amount - Consumed(l)
Free(l) == LotRemaining(l) - Held(l)

Expired(l, t) == lots[l].expiresAt <= t
OpenLots(t) == {l \in LotIds : ~Expired(l, t) /\ Free(l) > 0}
FreeUnits == [l \in LotIds |-> Free(l)]
Overhang == Total([l \in LotIds |-> Monus(Consumed(l), lots[l].amount)], LotIds)

\* Defect: overdrawn lots forgotten.
AvailableIgnoringOverhang(t) == Total(FreeUnits, OpenLots(t))
Available(t) == Total(FreeUnits, OpenLots(t)) - Overhang
Reserved == Total([r \in Reservation |-> reservation[r].segments], WithStatus({"held"}))

\* ORDER BY of selectOpenLots; creation order is the lot's number.
SpendsBefore(a, b) ==
  LET rankA == SPEND_ORDER_RANK[lots[a].bucket]
      rankB == SPEND_ORDER_RANK[lots[b].bucket]
  IN \/ rankA < rankB
     \/ rankA = rankB /\ lots[a].expiresAt < lots[b].expiresAt
     \/ rankA = rankB /\ lots[a].expiresAt = lots[b].expiresAt /\ a < b

\* What each lot contributes to a message of n segments.
SpendPlan(n, t) ==
  [l \in Lot |->
    IF l \in OpenLots(t)
    THEN Lesser(Free(l),
                Monus(n, Total(FreeUnits, {m \in OpenLots(t) : SpendsBefore(m, l)})))
    ELSE 0]

(***************************************************************************)
(* Shared steps.                                                           *)
(***************************************************************************)
Clock == {t \in 0..now : now - t <= ClockLag}

Balance(t) == [available |-> Available(t), reserved |-> Reserved, at |-> t]
RecomputeCachedBalance(t) == account' = Balance(t)'

\* ON CONFLICT (idempotency_key) DO NOTHING for one lot.
AppendLotGrant(key, bucket, amount, expiresAt) ==
  IF key \in LotKeys
  THEN UNCHANGED lots
  ELSE /\ Len(lots) < MaxLots
       /\ lots' = Append(lots, [key |-> key, bucket |-> bucket,
                                amount |-> amount, expiresAt |-> expiresAt])

AppendNegativeEntries(E) ==
  entries' = entries \cup {e \in E : e.key \notin EntryKeys}

(***************************************************************************)
(* Grants.  The window engine, the starter grant and the upgrade diff call *)
(* appendLotGrant with a key of their own and may be replayed.             *)
(***************************************************************************)
GrantLot(g, t) ==
  /\ AppendLotGrant(<<"grant", g.name, 0>>, g.bucket, g.amount, g.expiresAt)
  /\ UNCHANGED <<now, entries, reservation, held, purchase, stripe>>
  /\ RecomputeCachedBalance(t)

\* checkout.session.completed (paid): checkout_created -> paid -> fulfilled in
\* one transaction; any later replay finds another status and grants nothing.
TopupSessionCompleted(p, t) ==
  /\ purchase[p].status = "checkout_created"
  /\ AppendLotGrant(<<"topup-grant", p, 0>>, "purchased", TopupCredits, NoExpiry)
  /\ purchase' = [purchase EXCEPT ![p] = [status |-> "fulfilled", lot |-> Len(lots')]]
  /\ UNCHANGED <<now, entries, reservation, held, stripe>>
  /\ RecomputeCachedBalance(t)

\* checkout.session.expired: an unfulfilled purchase parks.
TopupSessionExpired(p) ==
  /\ purchase[p].status = "checkout_created"
  /\ purchase' = [purchase EXCEPT ![p].status = "expired"]
  /\ UNCHANGED <<now, lots, entries, reservation, held, stripe, account>>

(***************************************************************************)
(* Reservations.                                                           *)
(***************************************************************************)
LiveUnder(k) == {r \in WithStatus({"held", "settled"}) : reservation[r].key = k}

\* A live claim under the same key is returned unchanged (no action); the last
\* conjunct is the code's "could not be fully allocated" abort.
ReserveSmsCredits(r, k, n, t) ==
  /\ reservation[r].status = "none"
  /\ LiveUnder(k) = {}
  /\ Available(t) >= n
  /\ LET plan == SpendPlan(n, t) IN
       /\ held' = [held EXCEPT ![r] = [l \in Lot |-> [NoRow EXCEPT !.segments = plan[l]]]]
       /\ Total(plan, Lot) = n
  /\ reservation' = [reservation EXCEPT ![r] =
       [status |-> "held", key |-> k, segments |-> n, expiresAt |-> t + ReservationTTL,
        providerSegments |-> NotReconciled, refunded |-> FALSE]]
  /\ UNCHANGED <<now, lots, entries, purchase, stripe>>
  /\ RecomputeCachedBalance(t)

Debits(r) ==
  {[key |-> <<"sms-settle", r, l>>, type |-> "debit", lot |-> l,
    units |-> held[r][l].segments] : l \in {m \in Lot : held[r][m].segments > 0}}

\* Defect: a reservation that was given up settles all the same.
SettleWithoutStatusCheck(r, t) ==
  /\ reservation[r].status \in {"held", "released"}
  /\ AppendNegativeEntries(Debits(r))
  /\ reservation' = [reservation EXCEPT ![r].status = "settled"]
  /\ UNCHANGED <<now, lots, held, purchase, stripe>>
  /\ RecomputeCachedBalance(t)

SettleReservationOnAccept(r, t) ==
  /\ reservation[r].status = "held"
  /\ AppendNegativeEntries(Debits(r))
  /\ reservation' = [reservation EXCEPT ![r].status = "settled"]
  /\ UNCHANGED <<now, lots, held, purchase, stripe>>
  /\ RecomputeCachedBalance(t)

\* Defect: the cache is left behind.
ReleaseWithoutRecompute(r, t) ==
  /\ reservation[r].status = "held"
  /\ reservation' = [reservation EXCEPT ![r].status = "released"]
  /\ UNCHANGED <<now, lots, entries, held, purchase, stripe, account>>

ReleaseReservation(r, t) ==
  /\ reservation[r].status = "held"
  /\ reservation' = [reservation EXCEPT ![r].status = "released"]
  /\ UNCHANGED <<now, lots, entries, held, purchase, stripe>>
  /\ RecomputeCachedBalance(t)

\* The sweep releases holds past their deadline.  Its NOT EXISTS clause on the
\* delivery rows belongs to CommunicationDispatch: here any subset may be
\* spared, which a sweep that does not fire covers.
ReapExpiredReservation(r, t) ==
  /\ reservation[r].status = "held"
  /\ reservation[r].expiresAt < t
  /\ ReleaseReservation(r, t)

(***************************************************************************)
(* Refunds of a settled reservation.  Where the value returns depends on   *)
(* the source lot: purchased stays purchased, an expired lot recovers into *)
(* delivery_recovery, a valid lot keeps its bucket and expiry.             *)
(***************************************************************************)
RefundLot(kind, r, l, units, t) ==
  LET source  == lots[l]
      recover == source.bucket # "purchased" /\ Expired(l, t)
  IN [key |-> <<IF recover THEN kind.recovery ELSE kind.plain, r, l>>,
      bucket |-> IF recover THEN "delivery_recovery" ELSE source.bucket,
      amount |-> units,
      expiresAt |-> IF source.bucket = "purchased" THEN NoExpiry
                    ELSE IF recover THEN t + RecoveryTTL ELSE source.expiresAt]

TerminalKind == [plain |-> "sms-refund", recovery |-> "sms-refund-recovery"]
OverpredictKind == [plain |-> "segment-overpredict-refund",
                    recovery |-> "segment-overpredict-refund"]

\* Rows of a reservation come back from the database in no particular order.
AppendRefunds(kind, r, L, units, t) ==
  LET fresh == {l \in L : RefundLot(kind, r, l, units[l], t).key \notin LotKeys}
      k == Cardinality(fresh)
  IN /\ Len(lots) + k <= MaxLots
     /\ \E order \in Bijection(1..k, fresh) :
          lots' = lots \o [i \in 1..k |-> RefundLot(kind, r, order[i], units[order[i]], t)]

RowsOf(r) == {l \in Lot : held[r][l].segments > 0}
Refundable(r) == [l \in Lot |-> held[r][l].segments - held[r][l].refundedSegments]

RefundTerminalFailure(r, t) ==
  LET unfenced == {l \in RowsOf(r) : ~held[r][l].refundedAt}
      owed == {l \in unfenced : Refundable(r)[l] > 0}
  IN /\ reservation[r].status = "settled"
     /\ AppendRefunds(TerminalKind, r, owed, Refundable(r), t)
     /\ held' = [held EXCEPT ![r] = [l \in Lot |->
                   [held[r][l] EXCEPT !.refundedAt = @ \/ l \in unfenced]]]
     /\ reservation' = [reservation EXCEPT ![r].refunded = @ \/ owed # {}]
     /\ UNCHANGED <<now, entries, purchase, stripe>>
     /\ RecomputeCachedBalance(t)

\* One row after another gets back what is still owed, the lots that spend
\* last first; rows of one rank come in any order, so at most one is cut short.
GiveBack(r, over, give) ==
  LET open == {l \in RowsOf(r) : ~held[r][l].refundedAt}
      cap == Refundable(r)
      rank == [l \in open |-> SPEND_ORDER_RANK[lots[l].bucket]]
  IN /\ \A l \in RowsOf(r) : give[l] > 0 => l \in open /\ give[l] <= cap[l]
     /\ Total(give, RowsOf(r)) = Lesser(over, Total(cap, open))
     /\ \A a, b \in open :
          a # b /\ give[b] > 0 /\ rank[a] >= rank[b] =>
            \/ give[a] = cap[a]
            \/ rank[a] = rank[b] /\ (give[b] = cap[b] \/ give[a] = 0)

RefundOverpredictedSegments(r, actual, t) ==
  /\ reservation[r].status = "settled"
  /\ reservation[r].providerSegments = NotReconciled
  /\ UNCHANGED <<now, entries, purchase, stripe>>
  /\ IF reservation[r].refunded
     THEN /\ reservation' = [reservation EXCEPT ![r].providerSegments = actual]
          /\ UNCHANGED <<lots, held, account>>
     ELSE /\ reservation[r].segments > actual
          /\ reservation' = [reservation EXCEPT ![r].providerSegments = actual]
          /\ \E give \in [RowsOf(r) -> 0..MaxSegments] :
               LET L == {l \in RowsOf(r) : give[l] > 0} IN
               /\ GiveBack(r, reservation[r].segments - actual, give)
               /\ AppendRefunds(OverpredictKind, r, L, give, t)
               /\ held' = [held EXCEPT ![r] = [l \in Lot |->
                    IF l \in L THEN [held[r][l] EXCEPT !.refundedSegments = @ + give[l]] ELSE held[r][l]]]
          /\ RecomputeCachedBalance(t)

(***************************************************************************)
(* Reversals of a top-up.  stripe[p] is what Stripe announced: the refund  *)
(* events, each with the charge's cumulative amount at its creation, and   *)
(* whether the charge is disputed.  Deliveries repeat and arrive in any    *)
(* order.                                                                  *)
(***************************************************************************)
StripeRefunds(p, cents) ==
  /\ purchase[p].lot # 0
  /\ cents \in 1..TopupCents
  /\ \A c \in stripe[p].refunds : c < cents
  /\ stripe' = [stripe EXCEPT ![p].refunds = @ \cup {cents}]
  /\ UNCHANGED <<now, lots, entries, reservation, held, purchase, account>>

StripeDisputes(p) ==
  /\ purchase[p].lot # 0
  /\ ~stripe[p].disputed
  /\ stripe' = [stripe EXCEPT ![p].disputed = TRUE]
  /\ UNCHANGED <<now, lots, entries, reservation, held, purchase, account>>

Reversed(p) == Units(EntriesOn(purchase[p].lot, {"purchase_reversal"}))

\* Defect: the early return on nothing to reverse is missing.
AppendReversalOfNothing(p, key, units, status, t) ==
  /\ AppendNegativeEntries({[key |-> key, type |-> "purchase_reversal",
                             lot |-> purchase[p].lot, units |-> units]})
  /\ purchase' = [purchase EXCEPT ![p].status = status]
  /\ UNCHANGED <<now, lots, reservation, held, stripe>>
  /\ RecomputeCachedBalance(t)

AppendReversal(p, key, units, status, t) ==
  /\ units > 0
  /\ AppendNegativeEntries({[key |-> key, type |-> "purchase_reversal",
                             lot |-> purchase[p].lot, units |-> units]})
  /\ purchase' = [purchase EXCEPT ![p].status = status]
  /\ UNCHANGED <<now, lots, reservation, held, stripe>>
  /\ RecomputeCachedBalance(t)

RefundTarget(cents) == (TopupCredits * cents) \div TopupCents

\* Defect: the cumulative figure is taken for this event's own refund.
ReversalDuePerEvent(p, cents) == RefundTarget(cents)
ReversalDue(p, cents) == Monus(RefundTarget(cents), Reversed(p))

\* charge.refunded with the cumulative amount `cents': reverse up to
\* floor(G * R / A), never more than the lot still holds.  A smaller figure
\* than what was reversed already (REFUND_TOTAL_REGRESSED) writes nothing.
ReverseTopupRefund(p, cents, t) ==
  LET units == IF LotRemaining(purchase[p].lot) <= 0 THEN 0
               ELSE Lesser(ReversalDue(p, cents), LotRemaining(purchase[p].lot))
  IN /\ purchase[p].lot # 0
     /\ cents \in stripe[p].refunds
     /\ AppendReversal(p, <<"topup-reversal", p, cents>>, units,
          IF cents >= TopupCents THEN "refunded" ELSE "partially_reversed", t)

\* charge.dispute.created: the full residual, with no cap.
ReverseTopupDispute(p, t) ==
  /\ purchase[p].lot # 0
  /\ stripe[p].disputed
  /\ AppendReversal(p, <<"dispute-reversal", p, 0>>,
       Monus(TopupCredits, Reversed(p)), "disputed", t)

(***************************************************************************)
(* The bookkeeping sweep: every lapsed lot, in one transaction, gets an    *)
(* entry for what is neither consumed nor under an active hold.            *)
(***************************************************************************)
\* Defect: segments under an active hold expire too.
ExpirableIgnoringHolds(l) == Monus(LotRemaining(l), 0)
Expirable(l) == Monus(LotRemaining(l), Held(l))

ExpireLapsedLots(t) ==
  /\ AppendNegativeEntries(
       {[key |-> <<"expiry", "sweep", l>>, type |-> "expiry", lot |-> l, units |-> Expirable(l)] :
          l \in {m \in LotIds : Expired(m, t) /\ LotRemaining(m) > 0 /\ Expirable(m) > 0}})
  /\ UNCHANGED <<now, lots, reservation, held, purchase, stripe>>
  /\ RecomputeCachedBalance(t)

Tick ==
  /\ now < MaxTime
  /\ now' = now + 1
  /\ UNCHANGED <<lots, entries, reservation, held, purchase, stripe, account>>

Init ==
  /\ now = 0
  /\ lots = << >>
  /\ entries = {}
  /\ reservation = [r \in Reservation |-> NoReservation]
  /\ held = [r \in Reservation |-> [l \in Lot |-> NoRow]]
  /\ purchase = [p \in Purchase |-> [status |-> "checkout_created", lot |-> 0]]
  /\ stripe = [p \in Purchase |-> [refunds |-> {}, disputed |-> FALSE]]
  /\ account = [available |-> 0, reserved |-> 0, at |-> 0]

Message ==
  \E t \in Clock, r \in Reservation :
    \/ \E k \in DedupeKey, n \in 1..MaxSegments : ReserveSmsCredits(r, k, n, t)
    \/ SettleReservationOnAccept(r, t)
    \/ ReleaseReservation(r, t)
    \/ ReapExpiredReservation(r, t)
    \/ RefundTerminalFailure(r, t)
    \/ \E actual \in 0..MaxSegments : RefundOverpredictedSegments(r, actual, t)

Topup ==
  \E p \in Purchase :
    \/ \E t \in Clock : TopupSessionCompleted(p, t)
    \/ TopupSessionExpired(p)
    \/ \E cents \in 1..TopupCents : StripeRefunds(p, cents)
    \/ StripeDisputes(p)
    \/ \E t \in Clock, cents \in 1..TopupCents : ReverseTopupRefund(p, cents, t)
    \/ \E t \in Clock : ReverseTopupDispute(p, t)

Bookkeeping ==
  \/ \E t \in Clock, g \in Grant : GrantLot(g, t)
  \/ \E t \in Clock : ExpireLapsedLots(t)
  \/ Tick

Next == Message \/ Topup \/ Bookkeeping

Spec == Init /\ [][Next]_vars

KeyOwner == Reservation \cup Purchase \cup {g.name : g \in Grant}
LotKey ==
  {"grant", "topup-grant", "sms-refund", "sms-refund-recovery", "segment-overpredict-refund"}
    \X KeyOwner \X (0..MaxLots)
EntryKey ==
  {"sms-settle", "topup-reversal", "dispute-reversal", "expiry"}
    \X (KeyOwner \cup {"sweep"}) \X Nat
LotRow == [key : LotKey, bucket : Bucket, amount : Nat \ {0}, expiresAt : Instant]
EntryRow == [key : EntryKey, type : EntryType, lot : Lot, units : Nat \ {0}]
ReservationRow ==
  [status : {"none", "held", "settled", "released"}, key : DedupeKey \cup {"none"},
   segments : Nat, expiresAt : Nat,
   providerSegments : Nat \cup {NotReconciled}, refunded : BOOLEAN]
HeldRow == [segments : Nat, refundedSegments : Nat, refundedAt : BOOLEAN]
PurchaseStatus ==
  {"checkout_created", "expired", "fulfilled", "partially_reversed", "refunded", "disputed"}

\* The rows of the six tables have their types, and the ledger stays within
\* the bound the grants respect.
TypeOK ==
  /\ now \in 0..MaxTime
  /\ lots \in Seq(LotRow)
  /\ Len(lots) <= MaxLots
  /\ entries \subseteq EntryRow
  /\ reservation \in [Reservation -> ReservationRow]
  /\ held \in [Reservation -> [Lot -> HeldRow]]
  /\ purchase \in [Purchase -> [status : PurchaseStatus, lot : 0..MaxLots]]
  /\ stripe \in [Purchase -> [refunds : SUBSET (1..TopupCents), disputed : BOOLEAN]]

(***************************************************************************)
(* A lot that no top-up reversal can touch always covers the holds on it:  *)
(* whatever the interleaving of reserves, refunds, the expiry sweep and    *)
(* clocks that lag, no in-flight message settles below zero                *)
(* (expireLapsedLots must spare segments under an active hold).            *)
(***************************************************************************)
ReversibleLots == {purchase[p].lot : p \in Purchase}

HoldsBacked == \A l \in LotIds \ ReversibleLots : Held(l) <= LotRemaining(l)

(***************************************************************************)
(* The two refund arms meet in either order and never return more than the *)
(* original debit of a lot; a lot returns at most once per arm; and value  *)
(* comes back only for segments that were in fact debited.                 *)
(***************************************************************************)
RefundsOf(r, l, kinds) ==
  {i \in LotIds : lots[i].key \in {<<kind, r, l>> : kind \in kinds}}
TerminalKinds == {"sms-refund", "sms-refund-recovery"}
OverpredictKinds == {"segment-overpredict-refund"}

RefundNeverExceedsDebit ==
  \A r \in Reservation, l \in Lot :
    /\ \A i, j \in RefundsOf(r, l, TerminalKinds) : i = j
    /\ \A i, j \in RefundsOf(r, l, OverpredictKinds) : i = j
    /\ \A i \in RefundsOf(r, l, TerminalKinds \cup OverpredictKinds) :
         \E e \in entries :
           /\ e.key = <<"sms-settle", r, l>> /\ e.lot = l
           /\ lots[i].amount <= e.units
           /\ \A j \in RefundsOf(r, l, OverpredictKinds) :
                i \in RefundsOf(r, l, TerminalKinds) =>
                  lots[i].amount + lots[j].amount <= e.units

(***************************************************************************)
(* A send is never authorized below zero (contract 7.8): the transaction   *)
(* that creates a hold leaves enough free value on the open lots to cover  *)
(* what disputes have driven below zero on the others.                     *)
(***************************************************************************)
NeverAuthorizedBelowZero ==
  [][\A r \in Reservation :
       reservation[r].status = "none" /\ reservation'[r].status = "held"
         => (Total(FreeUnits, OpenLots(account.at)) >= Overhang)']_vars

\* The cached balance is the ledger's balance at the instant it was computed:
\* no transaction moves a row and leaves the cache behind.
CacheIsLedger == account = Balance(account.at)

(***************************************************************************)
(* Reversals converge on Stripe's cumulative evidence: replayed, reordered *)
(* or overlapping refund events never reverse more credits than the money  *)
(* refunded covers, and a dispute never more than was granted.             *)
(***************************************************************************)
ReversalWithinEvidence ==
  \A p \in Purchase :
    purchase[p].lot # 0 =>
      LET byRefund == Units({e \in EntriesOn(purchase[p].lot, {"purchase_reversal"}) :
                               e.key[1] = "topup-reversal"})
      IN /\ Reversed(p) <= TopupCredits
         /\ \A R \in 0..TopupCents :
              (\A c \in stripe[p].refunds : c <= R)
                => byRefund <= (TopupCredits * R) \div TopupCents

(***************************************************************************)
(* The account implements the promise of MessageCharge: read through its   *)
(* ledger rows, every reservation is charged its price exactly once or not *)
(* at all, and is never given back more than it paid.                      *)
(***************************************************************************)
PhaseOf ==
  [none |-> "none", held |-> "held", settled |-> "charged", released |-> "free"]
PaidBy(r) == Units({e \in entries : e.key[1] = "sms-settle" /\ e.key[2] = r})
ReturnedTo(r) ==
  LET refunds == {i \in LotIds : \E l \in Lot : i \in RefundsOf(r, l, TerminalKinds \cup OverpredictKinds)}
  IN Total([i \in LotIds |-> lots[i].amount], refunds)

Charge == INSTANCE MessageCharge WITH
  phase <- [r \in Reservation |-> PhaseOf[reservation[r].status]],
  price <- [r \in Reservation |-> reservation[r].segments],
  paid <- [r \in Reservation |-> PaidBy(r)],
  returned <- [r \in Reservation |-> ReturnedTo(r)]

ImplementsMessageCharge == Charge!Init /\ [][Charge!Next]_(Charge!chargeVars)

\* Contract 7.8: a refund reversal is "capped at remaining"; only a dispute may
\* drive a lot negative.
RefundReversalNeverOverdraws ==
  \A p \in Purchase :
    purchase[p].lot # 0 /\ ~stripe[p].disputed => LotRemaining(purchase[p].lot) >= 0
=============================================================================
