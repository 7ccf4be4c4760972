------------------------- MODULE CreditLedgerProofs -------------------------
(***************************************************************************)
(* Theorems about the credit ledger, for every number of reservations,     *)
(* purchases, grants and lots.                                             *)
(***************************************************************************)
EXTENDS CreditLedger, FiniteSetTheorems, SequenceTheorems, TLAPS

(***************************************************************************)
(* Sums.                                                                   *)
(***************************************************************************)

\* The image of a finite set is finite.
LEMMA FiniteImage ==
  ASSUME NEW S, IsFiniteSet(S), NEW T, NEW f \in [S -> T]
  PROVE  IsFiniteSet({f[x] : x \in S})
<1> DEFINE U == {f[x] : x \in S}
<1>1. f \in Surjection(S, U)
  BY DEF Surjection
<1> QED BY <1>1, FS_Surjection

\* The unit tokens of a finite set of rows, which Total counts, are finitely many.
Tokens(units, S) == UNION {{x} \X (1..units[x]) : x \in S}

LEMMA TokensFinite ==
  ASSUME NEW S, IsFiniteSet(S), NEW units, \A x \in S : units[x] \in Nat
  PROVE  IsFiniteSet(Tokens(units, S))
<1> DEFINE f == [x \in S |-> {x} \X (1..units[x])]
<1> DEFINE T == {f[x] : x \in S}
<1>1. IsFiniteSet(T)
  <2>1. f \in [S -> SUBSET (S \X Nat)]
    OBVIOUS
  <2> HIDE DEF f
  <2> QED BY <2>1, FiniteImage
<1>2. \A X \in T : IsFiniteSet(X)
  <2> SUFFICES ASSUME NEW x \in S PROVE IsFiniteSet({x} \X (1..units[x]))
    OBVIOUS
  <2>1. IsFiniteSet({x})
    BY FS_Singleton
  <2>2. IsFiniteSet(1..units[x])
    BY FS_Interval
  <2> QED BY <2>1, <2>2, FS_Product
<1>3. IsFiniteSet(UNION T)
  <2> HIDE DEF T
  <2> QED BY <1>1, <1>2, FS_UNION
<1>4. UNION T = Tokens(units, S)
  BY DEF Tokens
<1> QED BY <1>3, <1>4

\* A finite set of rows with natural units has a natural total.
LEMMA TotalNat ==
  ASSUME NEW S, IsFiniteSet(S), NEW units, \A x \in S : units[x] \in Nat
  PROVE  Total(units, S) \in Nat
BY TokensFinite, FS_CardinalityType DEF Total, Tokens

\* A subset of the reservations is finite, and so is a subset of the lots.
LEMMA FiniteRows ==
  ASSUME TypeOK
  PROVE  /\ \A S : IsFiniteSet(WithStatus(S))
         /\ \A S \in SUBSET LotIds : IsFiniteSet(S)
         /\ LotIds = 1..Len(lots)
         /\ LotIds \subseteq Lot
<1>1. \A S : WithStatus(S) \in SUBSET Reservation
  BY DEF WithStatus
<1>2. \A S : IsFiniteSet(WithStatus(S))
  BY <1>1, ReservationAssumption, FS_Subset
<1>3. LotIds = 1..Len(lots) /\ Len(lots) \in Nat
  BY LenProperties DEF TypeOK, LotIds
<1>4. IsFiniteSet(LotIds)
  BY <1>3, FS_Interval
<1>5. \A S \in SUBSET LotIds : IsFiniteSet(S)
  BY <1>4, FS_Subset
<1> QED BY <1>2, <1>3, <1>5, NumbersAssumption DEF TypeOK, Lot

(***************************************************************************)
(* Type correctness.  It needs three facts the types do not say: the       *)
(* ledger is finite, a hold stands on a lot that exists, and so does a     *)
(* fulfilled purchase.                                                     *)
(***************************************************************************)
RowsOnLots == \A r \in Reservation, l \in Lot : held[r][l].segments > 0 => l \in LotIds
PurchasesOnLots == \A p \in Purchase : purchase[p].lot <= Len(lots)
LedgerInv == TypeOK /\ IsFiniteSet(entries) /\ RowsOnLots /\ PurchasesOnLots

\* What a lot has left, and what is free on it, are integers.
LEMMA LotArithmetic ==
  ASSUME LedgerInv
  PROVE  \A l \in LotIds :
           /\ lots[l] \in LotRow
           /\ Consumed(l) \in Nat
           /\ Held(l) \in Nat
           /\ LotRemaining(l) \in Int
           /\ Free(l) \in Int
<1> SUFFICES ASSUME NEW l \in LotIds
             PROVE  /\ lots[l] \in LotRow
                    /\ Consumed(l) \in Nat
                    /\ Held(l) \in Nat
                    /\ LotRemaining(l) \in Int
                    /\ Free(l) \in Int
  OBVIOUS
<1>1. lots[l] \in LotRow
  BY FiniteRows, ElementOfSeq DEF LedgerInv, TypeOK
<1>2. Consumed(l) \in Nat
  <2> DEFINE E == EntriesOn(l, EntryType)
  <2>1. E \in SUBSET entries
    BY DEF EntriesOn
  <2>2. IsFiniteSet(E)
    BY <2>1, FS_Subset DEF LedgerInv
  <2>3. \A e \in E : [x \in E |-> x.units][e] \in Nat
    BY <2>1 DEF LedgerInv, TypeOK, EntryRow
  <2> HIDE DEF E
  <2>4. Total([x \in E |-> x.units], E) \in Nat
    BY <2>2, <2>3, TotalNat
  <2> QED BY <2>4 DEF Consumed, Units, E
<1>3. Held(l) \in Nat
  <2> DEFINE S == WithStatus({"held"})
  <2> DEFINE u == [r \in Reservation |-> held[r][l].segments]
  <2>1. IsFiniteSet(S)
    BY FiniteRows DEF LedgerInv
  <2>2. \A r \in S : u[r] \in Nat
    BY FiniteRows DEF LedgerInv, TypeOK, HeldRow, WithStatus
  <2> HIDE DEF S, u
  <2>3. Total(u, S) \in Nat
    BY <2>1, <2>2, TotalNat
  <2> QED BY <2>3 DEF Held, S, u
<1> QED BY <1>1, <1>2, <1>3 DEF LotRemaining, Free, LotRow

\* A spend plan takes a natural number of segments, and only from open lots.
LEMMA PlanNat ==
  ASSUME LedgerInv, NEW n \in Nat, NEW t
  PROVE  \A l \in Lot : /\ SpendPlan(n, t)[l] \in Nat
                        /\ SpendPlan(n, t)[l] > 0 => l \in LotIds
<1> DEFINE Ahead(l) == {m \in OpenLots(t) : SpendsBefore(m, l)}
<1>1. \A l : Total(FreeUnits, Ahead(l)) \in Nat
  <2> SUFFICES ASSUME NEW l PROVE Total(FreeUnits, Ahead(l)) \in Nat
    OBVIOUS
  <2>1. Ahead(l) \in SUBSET LotIds
    BY DEF OpenLots
  <2>2. IsFiniteSet(Ahead(l))
    BY <2>1, FiniteRows DEF LedgerInv
  <2>3. \A m \in Ahead(l) : FreeUnits[m] \in Nat
    BY LotArithmetic DEF OpenLots, FreeUnits
  <2> HIDE DEF Ahead
  <2> QED BY <2>2, <2>3, TotalNat
<1>2. \A l \in OpenLots(t) : Free(l) \in Nat /\ l \in LotIds
  BY LotArithmetic DEF OpenLots
<1> HIDE DEF Ahead
<1>3. \A l : Monus(n, Total(FreeUnits, Ahead(l))) \in Nat
  BY <1>1 DEF Monus
<1>4. \A l \in OpenLots(t) : Lesser(Free(l), Monus(n, Total(FreeUnits, Ahead(l)))) \in Nat
  BY <1>2, <1>3 DEF Lesser
<1> QED BY <1>2, <1>4 DEF SpendPlan, Ahead
(***************************************************************************)
(* The steps that write lots.                                              *)
(***************************************************************************)
Extended(n, lots0, lots1) ==
  /\ lots1 \in Seq(LotRow)
  /\ Len(lots1) <= MaxLots
  /\ Len(lots1) >= n
  /\ \A i \in 1..n : lots1[i] = lots0[i]

LEMMA GrantExtends ==
  ASSUME LedgerInv,
         NEW key \in LotKey, NEW bucket \in Bucket, NEW amount \in Nat \ {0},
         NEW expiresAt \in Instant,
         AppendLotGrant(key, bucket, amount, expiresAt)
  PROVE  /\ Extended(Len(lots), lots, lots')
         /\ key \notin LotKeys =>
              /\ Len(lots') = Len(lots) + 1
              /\ lots'[Len(lots')] = [key |-> key, bucket |-> bucket,
                                      amount |-> amount, expiresAt |-> expiresAt]
         /\ key \in LotKeys => lots' = lots
<1> DEFINE row == [key |-> key, bucket |-> bucket, amount |-> amount, expiresAt |-> expiresAt]
<1>1. lots \in Seq(LotRow) /\ Len(lots) \in Nat /\ Len(lots) <= MaxLots
  BY LenProperties DEF LedgerInv, TypeOK
<1>2. row \in LotRow
  BY DEF LotRow
<1>3. CASE key \in LotKeys
  BY <1>1, <1>3 DEF AppendLotGrant, Extended
<1>4. CASE key \notin LotKeys
  <2>1. lots' = Append(lots, row) /\ Len(lots) < MaxLots
    BY <1>4 DEF AppendLotGrant
  <2> HIDE DEF row
  <2>2. /\ lots' \in Seq(LotRow)
        /\ Len(lots') = Len(lots) + 1
        /\ \A i \in 1..Len(lots) : lots'[i] = lots[i]
        /\ lots'[Len(lots) + 1] = row
    BY <1>1, <1>2, <2>1, AppendProperties
  <2> QED BY <1>1, <1>4, <2>1, <2>2, NumbersAssumption DEF Extended, row
<1> QED BY <1>3, <1>4

RefundKind == {TerminalKind, OverpredictKind}

\* A refund row of an existing lot is a row of the ledger.
LEMMA RefundLotType ==
  ASSUME LedgerInv, NEW kind \in RefundKind, NEW r \in Reservation, NEW l \in LotIds,
         NEW units \in Nat \ {0}, NEW t \in Clock
  PROVE  RefundLot(kind, r, l, units, t) \in LotRow
<1>1. lots[l] \in LotRow /\ l \in 0..MaxLots
  BY LotArithmetic, FiniteRows, NumbersAssumption DEF Lot, LedgerInv
<1>2. t \in Nat /\ t <= MaxTime
  BY NumbersAssumption DEF Clock, LedgerInv, TypeOK
<1>3. \A s \in {kind.plain, kind.recovery} : <<s, r, l>> \in LotKey
  BY <1>1 DEF RefundKind, TerminalKind, OverpredictKind, LotKey, KeyOwner
<1>4. "delivery_recovery" \in Bucket
  BY DEF Bucket, SPEND_ORDER_RANK
<1>5. t + RecoveryTTL \in Instant /\ NoExpiry \in Instant
  BY <1>2, NumbersAssumption DEF Instant, NoExpiry
<1> QED BY <1>1, <1>3, <1>4, <1>5 DEF RefundLot, LotRow

\* The lots in `new' are refunds of distinct rows under fresh keys.
RefundsRows(kind, r, L, units, t, new) ==
  \E source \in [new -> L] :
    /\ \A i, j \in new : source[i] = source[j] => i = j
    /\ \A i \in new : /\ lots'[i] = RefundLot(kind, r, source[i], units[source[i]], t)
                     /\ lots'[i].key \notin LotKeys

LEMMA RefundsExtend ==
  ASSUME LedgerInv, NEW kind \in RefundKind, NEW r \in Reservation, NEW L \in SUBSET LotIds,
         NEW units, \A l \in L : units[l] \in Nat \ {0}, NEW t \in Clock,
         AppendRefunds(kind, r, L, units, t)
  PROVE  /\ Extended(Len(lots), lots, lots')
         /\ RefundsRows(kind, r, L, units, t, (Len(lots) + 1)..Len(lots'))
<1> DEFINE row(l) == RefundLot(kind, r, l, units[l], t)
           fresh == {l \in L : row(l).key \notin LotKeys}
           k == Cardinality(fresh)
           n == Len(lots)
<1>1. k \in Nat
  <2>1. fresh \in SUBSET LotIds
    OBVIOUS
  <2> QED BY <2>1, FiniteRows, FS_CardinalityType DEF LedgerInv
<1>2. lots \in Seq(LotRow) /\ n \in Nat
  BY LenProperties DEF LedgerInv, TypeOK
<1>3. \A l \in L : row(l) \in LotRow
  BY RefundLotType
<1>4. PICK order \in Bijection(1..k, fresh) : lots' = lots \o [i \in 1..k |-> row(order[i])]
  BY DEF AppendRefunds
<1>5. n + k <= MaxLots
  BY DEF AppendRefunds
<1>6. order \in [1..k -> fresh] /\ \A i, j \in 1..k : order[i] = order[j] => i = j
  BY <1>4 DEF Bijection, Injection, IsInjective
<1> DEFINE added == [i \in 1..k |-> row(order[i])]
<1>7. added \in [1..k -> LotRow]
  BY <1>3, <1>6
<1> HIDE DEF k, fresh, row
<1>8. added \in Seq(LotRow) /\ Len(added) = k
  BY <1>1, <1>7, IsASeq DEF added
<1> DEFINE src == [i \in (n + 1)..(n + k) |-> order[i - n]]
<1>9. /\ lots' \in Seq(LotRow)
      /\ Len(lots') = n + k
      /\ \A i \in 1..n : lots'[i] = lots[i]
      /\ \A i \in (n + 1)..(n + k) : lots'[i] = added[i - n]
  <2> HIDE DEF added, n
  <2>1. lots' = lots \o added
    BY <1>4 DEF added
  <2>2. Len(lots') = n + k /\ lots' \in Seq(LotRow)
    BY <1>2, <1>8, <2>1, ConcatProperties DEF n
  <2>3. \A i \in 1..(n + k) : lots'[i] = IF i <= n THEN lots[i] ELSE added[i - n]
    BY <1>2, <1>8, <2>1, ConcatProperties DEF n
  <2> QED BY <1>1, <1>2, <2>2, <2>3
<1>10. \A i \in (n + 1)..(n + k) : i - n \in 1..k
  BY <1>1, <1>2
<1>11. src \in [(n + 1)..(n + k) -> L]
  BY <1>6, <1>10 DEF fresh
<1>12. \A i, j \in (n + 1)..(n + k) : src[i] = src[j] => i = j
  <2> SUFFICES ASSUME NEW i \in (n + 1)..(n + k), NEW j \in (n + 1)..(n + k), src[i] = src[j]
               PROVE  i = j
    OBVIOUS
  <2>1. order[i - n] = order[j - n]
    OBVIOUS
  <2>2. i - n = j - n
    BY <1>6, <1>10, <2>1
  <2> QED BY <1>1, <1>2, <2>2
<1>13. \A i \in (n + 1)..(n + k) : lots'[i] = row(src[i]) /\ lots'[i].key \notin LotKeys
  <2> SUFFICES ASSUME NEW i \in (n + 1)..(n + k)
               PROVE  lots'[i] = row(src[i]) /\ lots'[i].key \notin LotKeys
    OBVIOUS
  <2>1. lots'[i] = row(order[i - n])
    BY <1>9, <1>10
  <2>2. order[i - n] \in fresh
    BY <1>6, <1>10
  <2> QED BY <2>1, <2>2 DEF fresh
<1>14. Extended(n, lots, lots')
  BY <1>1, <1>2, <1>5, <1>9 DEF Extended
<1>15. Len(lots') = n + k
  BY <1>9
<1> HIDE DEF src
<1>16. RefundsRows(kind, r, L, units, t, (n + 1)..(n + k))
  BY <1>11, <1>12, <1>13 DEF RefundsRows, row
<1> QED BY <1>14, <1>15, <1>16
(***************************************************************************)
(* LedgerInv is inductive.                                                 *)
(***************************************************************************)
LEMMA NewEntries ==
  ASSUME LedgerInv, NEW E \in SUBSET EntryRow, IsFiniteSet(E), AppendNegativeEntries(E)
  PROVE  entries' \in SUBSET EntryRow /\ IsFiniteSet(entries')
<1>1. entries' = entries \cup {e \in E : e.key \notin EntryKeys}
  BY DEF AppendNegativeEntries
<1>2. IsFiniteSet({e \in E : e.key \notin EntryKeys})
  BY FS_Subset
<1> QED BY <1>1, <1>2, FS_Union DEF LedgerInv, TypeOK

LEMMA ClockType ==
  ASSUME TypeOK
  PROVE  Clock \subseteq Nat
BY NumbersAssumption DEF TypeOK, Clock

\* A step that only adds lots keeps everything that refers to a lot.
LEMMA ExtendKeeps ==
  ASSUME LedgerInv, Extended(Len(lots), lots, lots')
  PROVE  /\ lots' \in Seq(LotRow)
         /\ Len(lots') <= MaxLots
         /\ LotIds \subseteq LotIds'
         /\ \A p \in Purchase : purchase[p].lot <= Len(lots')
         /\ Len(lots') \in Nat
<1>1. lots' \in Seq(LotRow) /\ Len(lots') <= MaxLots /\ Len(lots') >= Len(lots)
  BY DEF Extended
<1>2. Len(lots) \in Nat /\ Len(lots') \in Nat /\ DOMAIN lots = 1..Len(lots) /\ DOMAIN lots' = 1..Len(lots')
  BY <1>1, LenProperties DEF LedgerInv, TypeOK
<1>3. \A p \in Purchase : purchase[p].lot \in Nat
  BY NumbersAssumption DEF LedgerInv, TypeOK
<1> QED BY <1>1, <1>2, <1>3 DEF LedgerInv, PurchasesOnLots, LotIds

LEMMA LedgerInit == Init => LedgerInv
<1> SUFFICES ASSUME Init PROVE LedgerInv
  OBVIOUS
<1>1. lots = << >> /\ << >> \in Seq(LotRow) /\ Len(<< >>) = 0
  BY EmptySeq DEF Init
<1>2. IsFiniteSet(entries)
  BY FS_EmptySet DEF Init
<1>3. TypeOK
  BY <1>1, NumbersAssumption
  DEF Init, TypeOK, NoReservation, NotReconciled, NoRow, ReservationRow, HeldRow, PurchaseStatus
<1>4. RowsOnLots /\ PurchasesOnLots
  BY <1>1 DEF Init, RowsOnLots, PurchasesOnLots, NoRow
<1> QED BY <1>2, <1>3, <1>4 DEF LedgerInv

LEMMA LedgerGrant ==
  ASSUME LedgerInv, NEW g \in Grant, NEW t \in Clock, GrantLot(g, t)
  PROVE  LedgerInv'
<1>1. <<"grant", g.name, 0>> \in LotKey
  BY NumbersAssumption, GrantAssumption DEF LotKey, KeyOwner
<1>2. /\ g.bucket \in Bucket
      /\ g.amount \in Nat \ {0}
      /\ g.expiresAt \in Instant
  BY GrantAssumption
<1>3. Extended(Len(lots), lots, lots')
  BY <1>1, <1>2, GrantExtends DEF GrantLot
<1>4. UNCHANGED <<now, entries, reservation, held, purchase, stripe>>
  BY DEF GrantLot
<1> QED BY <1>3, <1>4, ExtendKeeps DEF LedgerInv, TypeOK, RowsOnLots, PurchasesOnLots

LEMMA LedgerTopup ==
  ASSUME LedgerInv, NEW p \in Purchase, NEW t \in Clock, TopupSessionCompleted(p, t)
  PROVE  LedgerInv'
<1>1. <<"topup-grant", p, 0>> \in LotKey
  BY NumbersAssumption DEF LotKey, KeyOwner
<1>2. "purchased" \in Bucket /\ NoExpiry \in Instant
  BY NumbersAssumption DEF Bucket, SPEND_ORDER_RANK, NoExpiry, Instant
<1>3. Extended(Len(lots), lots, lots')
  BY <1>1, <1>2, NumbersAssumption, GrantExtends DEF TopupSessionCompleted
<1>4. /\ UNCHANGED <<now, entries, reservation, held, stripe>>
      /\ purchase' = [purchase EXCEPT ![p] = [status |-> "fulfilled", lot |-> Len(lots')]]
  BY DEF TopupSessionCompleted
<1>5. purchase' \in [Purchase -> [status : PurchaseStatus, lot : 0..MaxLots]]
  BY <1>3, <1>4, ExtendKeeps, NumbersAssumption DEF LedgerInv, TypeOK, PurchaseStatus
<1>6. \A q \in Purchase : purchase'[q].lot <= Len(lots')
  BY <1>3, <1>4, ExtendKeeps DEF LedgerInv, TypeOK
<1> QED BY <1>3, <1>4, <1>5, <1>6, ExtendKeeps DEF LedgerInv, TypeOK, RowsOnLots, PurchasesOnLots

\* Writing one column of a row keeps it a row.
LEMMA ReservationUpdate ==
  ASSUME NEW row \in ReservationRow
  PROVE  /\ \A x \in {"none", "held", "settled", "released"} :
              [row EXCEPT !.status = x] \in ReservationRow
         /\ \A n \in Nat : [row EXCEPT !.providerSegments = n] \in ReservationRow
         /\ \A b \in BOOLEAN : [row EXCEPT !.refunded = b] \in ReservationRow
BY DEF ReservationRow

LEMMA HeldUpdate ==
  ASSUME NEW row \in HeldRow
  PROVE  /\ row.segments \in Nat /\ row.refundedSegments \in Nat /\ row.refundedAt \in BOOLEAN
         /\ \A n \in Nat : [row EXCEPT !.refundedSegments = n] \in HeldRow
         /\ \A b \in BOOLEAN : [row EXCEPT !.refundedAt = b] \in HeldRow
         /\ \A b : /\ [row EXCEPT !.refundedAt = b].refundedAt = b
                   /\ [row EXCEPT !.refundedAt = b].segments = row.segments
                   /\ [row EXCEPT !.refundedAt = b].refundedSegments = row.refundedSegments
BY DEF HeldRow

LEMMA LedgerReserve ==
  ASSUME LedgerInv, NEW r \in Reservation, NEW k \in DedupeKey, NEW n \in 1..MaxSegments,
         NEW t \in Clock, ReserveSmsCredits(r, k, n, t)
  PROVE  LedgerInv'
<1>1. n \in Nat /\ t \in Nat
  BY NumbersAssumption, ClockType DEF LedgerInv
<1> DEFINE plan == SpendPlan(n, t)
<1>2. \A l \in Lot : plan[l] \in Nat /\ (plan[l] > 0 => l \in LotIds)
  BY <1>1, PlanNat
<1>3. held' = [held EXCEPT ![r] = [l \in Lot |-> [NoRow EXCEPT !.segments = plan[l]]]]
  BY DEF ReserveSmsCredits
<1> HIDE DEF plan
<1>4. held' \in [Reservation -> [Lot -> HeldRow]]
  BY <1>2, <1>3 DEF LedgerInv, TypeOK, HeldRow, NoRow
<1>5. \A x \in Reservation, l \in Lot : held'[x][l].segments > 0 => l \in LotIds
  BY <1>2, <1>3 DEF LedgerInv, TypeOK, RowsOnLots, NoRow
<1>6. reservation' \in [Reservation -> ReservationRow]
  <2> DEFINE row == [status |-> "held", key |-> k, segments |-> n,
                     expiresAt |-> t + ReservationTTL,
                     providerSegments |-> NotReconciled, refunded |-> FALSE]
  <2>2. t + ReservationTTL \in Nat
    BY <1>1, NumbersAssumption
  <2>3. row \in ReservationRow
    BY <1>1, <2>2 DEF ReservationRow
  <2>4. reservation' = [reservation EXCEPT ![r] = row]
    BY DEF ReserveSmsCredits
  <2> QED BY <2>3, <2>4 DEF LedgerInv, TypeOK
<1>7. UNCHANGED <<now, lots, entries, purchase, stripe>>
  BY DEF ReserveSmsCredits
<1> QED BY <1>4, <1>5, <1>6, <1>7 DEF LedgerInv, TypeOK, RowsOnLots, PurchasesOnLots, LotIds

\* The rows a settlement writes are entry rows, finitely many.
LEMMA DebitsType ==
  ASSUME LedgerInv, NEW r \in Reservation
  PROVE  Debits(r) \in SUBSET EntryRow /\ IsFiniteSet(Debits(r))
<1> DEFINE R == {m \in Lot : held[r][m].segments > 0}
           f == [l \in R |-> [key |-> <<"sms-settle", r, l>>, type |-> "debit", lot |-> l,
                              units |-> held[r][l].segments]]
<1>1. R \in SUBSET LotIds
  BY DEF LedgerInv, RowsOnLots
<1>2. IsFiniteSet(R)
  <2> HIDE DEF R
  <2> QED BY <1>1, FiniteRows DEF LedgerInv
<1>3. f \in [R -> EntryRow]
  BY NumbersAssumption
  DEF LedgerInv, TypeOK, HeldRow, EntryRow, EntryKey, EntryType, KeyOwner, Lot
<1>4. Debits(r) = {f[l] : l \in R}
  BY DEF Debits
<1> HIDE DEF f, R
<1>5. IsFiniteSet({f[l] : l \in R})
  BY <1>2, <1>3, FiniteImage
<1> QED BY <1>3, <1>4, <1>5

LEMMA LedgerSettle ==
  ASSUME LedgerInv, NEW r \in Reservation, NEW t \in Clock, SettleReservationOnAccept(r, t)
  PROVE  LedgerInv'
<1>1. entries' \in SUBSET EntryRow /\ IsFiniteSet(entries')
  BY DebitsType, NewEntries DEF SettleReservationOnAccept
<1>2. reservation' \in [Reservation -> ReservationRow]
  BY ReservationUpdate DEF SettleReservationOnAccept, LedgerInv, TypeOK
<1> QED BY <1>1, <1>2
        DEF SettleReservationOnAccept, LedgerInv, TypeOK, RowsOnLots, PurchasesOnLots, LotIds

LEMMA LedgerRelease ==
  ASSUME LedgerInv, NEW r \in Reservation, NEW t \in Clock, ReleaseReservation(r, t)
  PROVE  LedgerInv'
BY DEF ReleaseReservation, LedgerInv, TypeOK, ReservationRow, RowsOnLots, PurchasesOnLots, LotIds

LEMMA LedgerTerminalRefund ==
  ASSUME LedgerInv, NEW r \in Reservation, NEW t \in Clock, RefundTerminalFailure(r, t)
  PROVE  LedgerInv'
<1> DEFINE unfenced == {l \in RowsOf(r) : ~held[r][l].refundedAt}
           owed == {l \in unfenced : Refundable(r)[l] > 0}
<1>1. owed \in SUBSET LotIds
  BY DEF RowsOf, LedgerInv, RowsOnLots
<1>2. \A l \in owed : Refundable(r)[l] \in Nat \ {0}
  BY DEF RowsOf, Refundable, LedgerInv, TypeOK, HeldRow
<1>3. TerminalKind \in RefundKind
  BY DEF RefundKind
<1>4. Extended(Len(lots), lots, lots')
  BY <1>1, <1>2, <1>3, RefundsExtend DEF RefundTerminalFailure
<1>5. held' = [held EXCEPT ![r] = [l \in Lot |->
                [held[r][l] EXCEPT !.refundedAt = @ \/ l \in unfenced]]]
  BY DEF RefundTerminalFailure
<1>6. reservation' = [reservation EXCEPT ![r].refunded = @ \/ owed # {}]
  BY DEF RefundTerminalFailure
<1>7. UNCHANGED <<now, entries, purchase, stripe>>
  BY DEF RefundTerminalFailure
<1> HIDE DEF unfenced, owed
<1>8. held' \in [Reservation -> [Lot -> HeldRow]]
  <2>1. \A l \in Lot : [held[r][l] EXCEPT !.refundedAt = @ \/ l \in unfenced] \in HeldRow
    <3> SUFFICES ASSUME NEW l \in Lot
                 PROVE  [held[r][l] EXCEPT !.refundedAt = @ \/ l \in unfenced] \in HeldRow
      OBVIOUS
    <3>1. held[r][l] \in HeldRow
      BY DEF LedgerInv, TypeOK
    <3>2. (held[r][l].refundedAt \/ l \in unfenced) \in BOOLEAN
      OBVIOUS
    <3> QED BY <3>1, <3>2, HeldUpdate
  <2> QED BY <1>5, <2>1 DEF LedgerInv, TypeOK
<1>9. \A x \in Reservation, l \in Lot : held'[x][l].segments = held[x][l].segments
  BY <1>5 DEF LedgerInv, TypeOK, HeldRow
<1>10. reservation' \in [Reservation -> ReservationRow]
  <2>1. (reservation[r].refunded \/ owed # {}) \in BOOLEAN
    OBVIOUS
  <2>2. [reservation[r] EXCEPT !.refunded = @ \/ owed # {}] \in ReservationRow
    BY <2>1, ReservationUpdate DEF LedgerInv, TypeOK
  <2> QED BY <1>6, <2>2 DEF LedgerInv, TypeOK
<1> QED BY <1>4, <1>7, <1>8, <1>9, <1>10, ExtendKeeps
        DEF LedgerInv, TypeOK, RowsOnLots, PurchasesOnLots

LEMMA LedgerOverpredict ==
  ASSUME LedgerInv, NEW r \in Reservation, NEW actual \in 0..MaxSegments, NEW t \in Clock,
         RefundOverpredictedSegments(r, actual, t)
  PROVE  LedgerInv'
<1>1. actual \in Nat
  BY NumbersAssumption
<1>2. reservation' \in [Reservation -> ReservationRow]
  <2>1. reservation' = [reservation EXCEPT ![r].providerSegments = actual]
    BY DEF RefundOverpredictedSegments
  <2>2. [reservation[r] EXCEPT !.providerSegments = actual] \in ReservationRow
    BY <1>1, ReservationUpdate DEF LedgerInv, TypeOK
  <2> QED BY <2>1, <2>2 DEF LedgerInv, TypeOK
<1>3. UNCHANGED <<now, entries, purchase, stripe>>
  BY DEF RefundOverpredictedSegments
<1>4. CASE reservation[r].refunded
  BY <1>2, <1>3, <1>4
  DEF RefundOverpredictedSegments, LedgerInv, TypeOK, RowsOnLots, PurchasesOnLots, LotIds
<1>5. CASE ~reservation[r].refunded
  <2>1. PICK give \in [RowsOf(r) -> 0..MaxSegments] :
          LET L == {l \in RowsOf(r) : give[l] > 0} IN
            /\ AppendRefunds(OverpredictKind, r, L, give, t)
            /\ held' = [held EXCEPT ![r] = [l \in Lot |->
                 IF l \in L THEN [held[r][l] EXCEPT !.refundedSegments = @ + give[l]]
                 ELSE held[r][l]]]
    BY <1>5 DEF RefundOverpredictedSegments
  <2> DEFINE L == {l \in RowsOf(r) : give[l] > 0}
  <2>2. L \in SUBSET LotIds
    BY DEF RowsOf, LedgerInv, RowsOnLots
  <2>3. \A l \in L : give[l] \in Nat \ {0}
    BY NumbersAssumption
  <2>4. OverpredictKind \in RefundKind
    BY DEF RefundKind
  <2>5. Extended(Len(lots), lots, lots')
    BY <2>1, <2>2, <2>3, <2>4, RefundsExtend
  <2> HIDE DEF L
  <2>6. held' = [held EXCEPT ![r] = [l \in Lot |->
                 IF l \in L THEN [held[r][l] EXCEPT !.refundedSegments = @ + give[l]]
                 ELSE held[r][l]]]
    BY <2>1 DEF L
  <2>7. held' \in [Reservation -> [Lot -> HeldRow]]
    <3>1. \A l \in L : held[r][l].refundedSegments + give[l] \in Nat /\ held[r][l] \in HeldRow
      BY <2>2, <2>3, FiniteRows, HeldUpdate DEF LedgerInv, TypeOK
    <3>2. \A l \in L : [held[r][l] EXCEPT !.refundedSegments = @ + give[l]] \in HeldRow
      BY <3>1, HeldUpdate
    <3> QED BY <2>6, <3>2 DEF LedgerInv, TypeOK
  <2>8. \A x \in Reservation, l \in Lot : held'[x][l].segments = held[x][l].segments
    BY <2>6 DEF LedgerInv, TypeOK, HeldRow
  <2> QED BY <1>2, <1>3, <2>5, <2>7, <2>8, ExtendKeeps
          DEF LedgerInv, TypeOK, RowsOnLots, PurchasesOnLots
<1> QED BY <1>4, <1>5
LEMMA LedgerReversal ==
  ASSUME LedgerInv, NEW p \in Purchase, NEW kind \in {"topup-reversal", "dispute-reversal"},
         NEW n \in Nat, NEW units \in Int,
         NEW status \in PurchaseStatus, NEW t \in Clock, purchase[p].lot # 0,
         AppendReversal(p, <<kind, p, n>>, units, status, t)
  PROVE  LedgerInv'
<1> DEFINE row == [key |-> <<kind, p, n>>, type |-> "purchase_reversal",
                   lot |-> purchase[p].lot, units |-> units]
<1>1. units \in Nat \ {0}
  BY DEF AppendReversal
<1>2. purchase[p].lot \in Lot
  BY NumbersAssumption DEF LedgerInv, TypeOK, Lot
<1>3. <<kind, p, n>> \in EntryKey
  BY DEF EntryKey, KeyOwner
<1>4. row \in EntryRow
  BY <1>1, <1>2, <1>3 DEF EntryRow, EntryType
<1> HIDE DEF row
<1>5. entries' \in SUBSET EntryRow /\ IsFiniteSet(entries')
  <2>1. IsFiniteSet({row}) /\ {row} \in SUBSET EntryRow
    BY <1>4, FS_Singleton
  <2>2. AppendNegativeEntries({row})
    BY DEF AppendReversal, row
  <2> QED BY <2>1, <2>2, NewEntries
<1>6. purchase' = [purchase EXCEPT ![p].status = status]
  BY DEF AppendReversal
<1>7. purchase' \in [Purchase -> [status : PurchaseStatus, lot : 0..MaxLots]]
  BY <1>6 DEF LedgerInv, TypeOK
<1>8. \A q \in Purchase : purchase'[q].lot = purchase[q].lot
  BY <1>6 DEF LedgerInv, TypeOK
<1> QED BY <1>5, <1>7, <1>8
        DEF AppendReversal, LedgerInv, TypeOK, RowsOnLots, PurchasesOnLots, LotIds

\* Reversed credits are a natural number.
LEMMA ReversedNat ==
  ASSUME LedgerInv, NEW p \in Purchase
  PROVE  Reversed(p) \in Nat
<1> DEFINE E == EntriesOn(purchase[p].lot, {"purchase_reversal"})
<1>1. E \in SUBSET entries
  BY DEF EntriesOn
<1>2. IsFiniteSet(E)
  BY <1>1, FS_Subset DEF LedgerInv
<1>3. \A e \in E : [x \in E |-> x.units][e] \in Nat
  BY <1>1 DEF LedgerInv, TypeOK, EntryRow
<1> HIDE DEF E
<1>4. Total([x \in E |-> x.units], E) \in Nat
  BY <1>2, <1>3, TotalNat
<1> QED BY <1>4 DEF Reversed, Units, E

LEMMA FulfilledLot ==
  ASSUME LedgerInv, NEW p \in Purchase, purchase[p].lot # 0
  PROVE  purchase[p].lot \in LotIds
BY FiniteRows, NumbersAssumption DEF LedgerInv, TypeOK, PurchasesOnLots

LEMMA LedgerRefundReversal ==
  ASSUME LedgerInv, NEW p \in Purchase, NEW t \in Clock, NEW cents \in 1..TopupCents,
         ReverseTopupRefund(p, cents, t)
  PROVE  LedgerInv'
<1> DEFINE units == IF LotRemaining(purchase[p].lot) <= 0 THEN 0
                    ELSE Lesser(ReversalDue(p, cents), LotRemaining(purchase[p].lot))
           status == IF cents >= TopupCents THEN "refunded" ELSE "partially_reversed"
<1>1. purchase[p].lot # 0 /\ AppendReversal(p, <<"topup-reversal", p, cents>>, units, status, t)
  BY DEF ReverseTopupRefund
<1>2. LotRemaining(purchase[p].lot) \in Int
  BY <1>1, FulfilledLot, LotArithmetic
<1>3. RefundTarget(cents) \in Int
  BY NumbersAssumption DEF RefundTarget
<1>4. ReversalDue(p, cents) \in Int
  BY <1>3, ReversedNat DEF ReversalDue, Monus
<1>5. units \in Int
  BY <1>2, <1>4 DEF Lesser
<1>6. status \in PurchaseStatus
  BY DEF PurchaseStatus
<1>7. cents \in Nat
  BY NumbersAssumption
<1> HIDE DEF units, status
<1> QED BY <1>1, <1>5, <1>6, <1>7, LedgerReversal

LEMMA LedgerDisputeReversal ==
  ASSUME LedgerInv, NEW p \in Purchase, NEW t \in Clock, ReverseTopupDispute(p, t)
  PROVE  LedgerInv'
<1>1. /\ purchase[p].lot # 0
      /\ AppendReversal(p, <<"dispute-reversal", p, 0>>,
                        Monus(TopupCredits, Reversed(p)), "disputed", t)
  BY DEF ReverseTopupDispute
<1>2. Monus(TopupCredits, Reversed(p)) \in Int
  BY ReversedNat, NumbersAssumption DEF Monus
<1>3. "disputed" \in PurchaseStatus
  BY DEF PurchaseStatus
<1> QED BY <1>1, <1>2, <1>3, LedgerReversal

LEMMA LedgerStripe ==
  ASSUME LedgerInv, NEW p \in Purchase,
         \/ TopupSessionExpired(p)
         \/ \E cents \in 1..TopupCents : StripeRefunds(p, cents)
         \/ StripeDisputes(p)
  PROVE  LedgerInv'
<1>1. CASE TopupSessionExpired(p)
  BY <1>1 DEF TopupSessionExpired, LedgerInv, TypeOK, PurchaseStatus, RowsOnLots, PurchasesOnLots, LotIds
<1>2. ASSUME NEW cents \in 1..TopupCents, StripeRefunds(p, cents)
      PROVE  LedgerInv'
  <2>1. stripe[p].refunds \cup {cents} \in SUBSET (1..TopupCents)
    BY DEF LedgerInv, TypeOK
  <2>2. stripe' = [stripe EXCEPT ![p].refunds = @ \cup {cents}]
    BY <1>2 DEF StripeRefunds
  <2>3. stripe' \in [Purchase -> [refunds : SUBSET (1..TopupCents), disputed : BOOLEAN]]
    BY <2>1, <2>2 DEF LedgerInv, TypeOK
  <2> QED BY <1>2, <2>3 DEF StripeRefunds, LedgerInv, TypeOK, RowsOnLots, PurchasesOnLots, LotIds
<1>3. CASE StripeDisputes(p)
  BY <1>3 DEF StripeDisputes, LedgerInv, TypeOK, RowsOnLots, PurchasesOnLots, LotIds
<1> QED BY <1>1, <1>2, <1>3

LEMMA LedgerExpire ==
  ASSUME LedgerInv, NEW t \in Clock, ExpireLapsedLots(t)
  PROVE  LedgerInv'
<1> DEFINE S == {m \in LotIds : Expired(m, t) /\ LotRemaining(m) > 0 /\ Expirable(m) > 0}
           f == [l \in S |-> [key |-> <<"expiry", "sweep", l>>, type |-> "expiry", lot |-> l,
                              units |-> Expirable(l)]]
<1>1. IsFiniteSet(S)
  <2>1. S \in SUBSET LotIds
    OBVIOUS
  <2> HIDE DEF S
  <2> QED BY <2>1, FiniteRows DEF LedgerInv
<1>2. f \in [S -> EntryRow]
  <2> SUFFICES ASSUME NEW l \in S
               PROVE  [key |-> <<"expiry", "sweep", l>>, type |-> "expiry", lot |-> l,
                       units |-> Expirable(l)] \in EntryRow
    OBVIOUS
  <2>1. Expirable(l) \in Nat \ {0}
    BY LotArithmetic DEF Expirable, Monus
  <2>2. l \in Lot /\ l \in Nat
    BY FiniteRows, NumbersAssumption DEF LedgerInv, Lot
  <2>3. <<"expiry", "sweep", l>> \in EntryKey
    BY <2>2 DEF EntryKey
  <2> QED BY <2>1, <2>2, <2>3 DEF EntryRow, EntryType
<1>3. AppendNegativeEntries({f[l] : l \in S})
  BY DEF ExpireLapsedLots
<1> HIDE DEF S, f
<1>4. IsFiniteSet({f[l] : l \in S}) /\ {f[l] : l \in S} \in SUBSET EntryRow
  BY <1>1, <1>2, FiniteImage
<1>5. entries' \in SUBSET EntryRow /\ IsFiniteSet(entries')
  BY <1>3, <1>4, NewEntries
<1> QED BY <1>5
        DEF ExpireLapsedLots, LedgerInv, TypeOK, RowsOnLots, PurchasesOnLots, LotIds

LEMMA LedgerStep == LedgerInv /\ [Next]_vars => LedgerInv'
<1> SUFFICES ASSUME LedgerInv, [Next]_vars PROVE LedgerInv'
  OBVIOUS
<1>1. ASSUME NEW t \in Clock, NEW r \in Reservation, NEW k \in DedupeKey,
             NEW n \in 1..MaxSegments, ReserveSmsCredits(r, k, n, t)
      PROVE  LedgerInv'
  BY <1>1, LedgerReserve
<1>2. ASSUME NEW t \in Clock, NEW r \in Reservation, SettleReservationOnAccept(r, t)
      PROVE  LedgerInv'
  BY <1>2, LedgerSettle
<1>3. ASSUME NEW t \in Clock, NEW r \in Reservation,
             ReleaseReservation(r, t) \/ ReapExpiredReservation(r, t)
      PROVE  LedgerInv'
  BY <1>3, LedgerRelease DEF ReapExpiredReservation
<1>4. ASSUME NEW t \in Clock, NEW r \in Reservation, RefundTerminalFailure(r, t)
      PROVE  LedgerInv'
  BY <1>4, LedgerTerminalRefund
<1>5. ASSUME NEW t \in Clock, NEW r \in Reservation, NEW actual \in 0..MaxSegments,
             RefundOverpredictedSegments(r, actual, t)
      PROVE  LedgerInv'
  BY <1>5, LedgerOverpredict
<1>6. CASE Message
  BY <1>1, <1>2, <1>3, <1>4, <1>5, <1>6 DEF Message
<1>7. CASE Topup
  BY <1>7, LedgerTopup, LedgerStripe, LedgerRefundReversal, LedgerDisputeReversal DEF Topup
<1>8. CASE Bookkeeping
  <2>1. CASE Tick
    BY <2>1, NumbersAssumption DEF Tick, LedgerInv, TypeOK, RowsOnLots, PurchasesOnLots, LotIds
  <2> QED BY <1>8, <2>1, LedgerGrant, LedgerExpire DEF Bookkeeping
<1>9. CASE UNCHANGED vars
  BY <1>9 DEF vars, LedgerInv, TypeOK, RowsOnLots, PurchasesOnLots, LotIds
<1> QED BY <1>6, <1>7, <1>8, <1>9 DEF Next

\* Every reachable ledger is well typed and within its bound, and every hold and
\* every fulfilled purchase stands on a lot that exists.
THEOREM LedgerInvariant == Spec => []LedgerInv
BY LedgerInit, LedgerStep, PTL DEF Spec

\* The rows of the six tables keep their types under every transaction.
THEOREM TypeCorrect == Spec => []TypeOK
<1>1. LedgerInv => TypeOK
  BY DEF LedgerInv
<1> QED BY <1>1, LedgerInvariant, PTL
(***************************************************************************)
(* Refunds.  RefundNeverExceedsDebit is not inductive: it holds because    *)
(* refundedAt fences the terminal arm, because refundedSegments records    *)
(* what the overprediction arm gave back before that arm runs, because     *)
(* ledger keys are unique, and because only a settlement writes a debit.   *)
(***************************************************************************)
AllRefundKinds == TerminalKinds \cup OverpredictKinds

UniqueLotKeys == \A i, j \in LotIds : lots[i].key = lots[j].key => i = j

DebitedFor(r, l, n) ==
  \E e \in entries : e.key = <<"sms-settle", r, l>> /\ e.lot = l /\ e.units = n
SettledIsDebited ==
  \A r \in Reservation, l \in Lot :
    reservation[r].status = "settled" /\ held[r][l].segments > 0 =>
      DebitedFor(r, l, held[r][l].segments)
DebitIsSettled ==
  \A r \in Reservation, l \in Lot :
    <<"sms-settle", r, l>> \in EntryKeys => reservation[r].status = "settled"

GivenBackWithin ==
  \A r \in Reservation, l \in Lot : held[r][l].refundedSegments <= held[r][l].segments

TerminalFenced ==
  \A r \in Reservation, l \in Lot :
    /\ \A i \in RefundsOf(r, l, TerminalKinds) :
         /\ reservation[r].status = "settled"
         /\ held[r][l].refundedAt
         /\ lots[i].amount <= held[r][l].segments - held[r][l].refundedSegments
    /\ \A i, j \in RefundsOf(r, l, TerminalKinds) : i = j

OverpredictRecorded ==
  \A r \in Reservation, l \in Lot :
    \A i \in RefundsOf(r, l, OverpredictKinds) :
      /\ reservation[r].status = "settled"
      /\ lots[i].amount <= held[r][l].refundedSegments

RefundInv ==
  /\ UniqueLotKeys
  /\ SettledIsDebited
  /\ DebitIsSettled
  /\ GivenBackWithin
  /\ TerminalFenced
  /\ OverpredictRecorded
LEMMA RefundInit == Init => RefundInv
<1> SUFFICES ASSUME Init PROVE RefundInv
  OBVIOUS
<1>1. LotIds = {}
  BY DEF Init, LotIds
<1>2. UniqueLotKeys /\ TerminalFenced /\ OverpredictRecorded
  BY <1>1 DEF UniqueLotKeys, TerminalFenced, OverpredictRecorded, RefundsOf
<1>3. SettledIsDebited /\ DebitIsSettled
  BY DEF Init, SettledIsDebited, DebitIsSettled, EntryKeys, NoReservation
<1>4. GivenBackWithin
  BY DEF Init, GivenBackWithin, NoRow
<1> QED BY <1>2, <1>3, <1>4 DEF RefundInv

\* New lots under fresh and distinct keys keep the keys unique.
LEMMA FreshKeysStayUnique ==
  ASSUME LedgerInv, UniqueLotKeys, Extended(Len(lots), lots, lots'),
         \A i \in (Len(lots) + 1)..Len(lots') : lots'[i].key \notin LotKeys,
         \A i, j \in (Len(lots) + 1)..Len(lots') : lots'[i].key = lots'[j].key => i = j
  PROVE  UniqueLotKeys'
<1>1. Len(lots) \in Nat /\ Len(lots') \in Nat /\ Len(lots) <= Len(lots')
  BY ExtendKeeps, LenProperties DEF LedgerInv, TypeOK, Extended
<1>2. LotIds = 1..Len(lots) /\ LotIds' = 1..Len(lots')
  BY ExtendKeeps, LenProperties DEF LedgerInv, TypeOK, LotIds
<1>3. \A i \in LotIds : lots'[i] = lots[i] /\ lots'[i].key \in LotKeys
  BY <1>2 DEF Extended, LotKeys
<1> SUFFICES ASSUME NEW i \in LotIds', NEW j \in LotIds', lots'[i].key = lots'[j].key
             PROVE  i = j
  BY DEF UniqueLotKeys
<1>4. CASE i \in LotIds /\ j \in LotIds
  BY <1>3, <1>4 DEF UniqueLotKeys
<1>5. CASE i \notin LotIds /\ j \notin LotIds
  BY <1>1, <1>2, <1>5
<1>6. CASE i \in LotIds /\ j \notin LotIds
  BY <1>1, <1>2, <1>3, <1>6
<1>7. CASE i \notin LotIds /\ j \in LotIds
  BY <1>1, <1>2, <1>3, <1>7
<1> QED BY <1>4, <1>5, <1>6, <1>7

\* A lot whose key is of another kind refunds nothing.
LEMMA PlainLotsRefundNothing ==
  ASSUME LedgerInv, Extended(Len(lots), lots, lots'),
         \A i \in (Len(lots) + 1)..Len(lots') : lots'[i].key[1] \notin AllRefundKinds
  PROVE  \A r \in Reservation, l \in Lot :
           /\ RefundsOf(r, l, TerminalKinds)' = RefundsOf(r, l, TerminalKinds)
           /\ RefundsOf(r, l, OverpredictKinds)' = RefundsOf(r, l, OverpredictKinds)
           /\ \A i \in LotIds : lots'[i] = lots[i]
<1>1. Len(lots) \in Nat /\ Len(lots') \in Nat /\ Len(lots) <= Len(lots')
  BY ExtendKeeps, LenProperties DEF LedgerInv, TypeOK, Extended
<1>2. LotIds = 1..Len(lots) /\ LotIds' = 1..Len(lots')
  BY ExtendKeeps, LenProperties DEF LedgerInv, TypeOK, LotIds
<1>3. \A i \in LotIds : lots'[i] = lots[i]
  BY <1>2 DEF Extended
<1>4. ASSUME NEW r \in Reservation, NEW l \in Lot, NEW kinds \in SUBSET AllRefundKinds
      PROVE  RefundsOf(r, l, kinds)' = RefundsOf(r, l, kinds)
  <2>1. ASSUME NEW i \in LotIds' \ LotIds, NEW kind \in kinds
        PROVE  lots'[i].key # <<kind, r, l>>
    BY <1>1, <1>2
  <2> QED BY <1>1, <1>2, <1>3, <2>1 DEF RefundsOf
<1> QED BY <1>3, <1>4 DEF AllRefundKinds

\* Rows that keep their refunds, segments and fences keep the refund facts.
LEMMA RefundsKept ==
  ASSUME TerminalFenced, OverpredictRecorded, GivenBackWithin,
         \A r \in Reservation, l \in Lot :
           /\ RefundsOf(r, l, TerminalKinds)' = RefundsOf(r, l, TerminalKinds)
           /\ RefundsOf(r, l, OverpredictKinds)' = RefundsOf(r, l, OverpredictKinds)
           /\ \A i \in LotIds : lots'[i] = lots[i],
         \A r \in Reservation :
           /\ reservation[r].status = "settled" => reservation'[r].status = "settled"
           /\ \A l \in Lot : held'[r][l] = held[r][l]
  PROVE  TerminalFenced' /\ OverpredictRecorded' /\ GivenBackWithin'
<1>1. \A r, l, kinds : RefundsOf(r, l, kinds) \subseteq LotIds
  BY DEF RefundsOf
<1>2. TerminalFenced'
  BY <1>1 DEF TerminalFenced
<1>3. OverpredictRecorded'
  BY <1>1 DEF OverpredictRecorded
<1>4. GivenBackWithin'
  BY DEF GivenBackWithin
<1> QED BY <1>2, <1>3, <1>4

\* A step that appends no debit, keeps who is settled and keeps the segments
\* of every row keeps the debits.
LEMMA DebitsKept ==
  ASSUME SettledIsDebited, DebitIsSettled, entries \subseteq entries',
         \A e \in entries' \ entries : e.key[1] # "sms-settle",
         \A r \in Reservation :
            /\ reservation'[r].status = "settled" <=> reservation[r].status = "settled"
            /\ \A l \in Lot : held'[r][l].segments = held[r][l].segments
  PROVE  SettledIsDebited' /\ DebitIsSettled'
<1>1. \A r, l, n : DebitedFor(r, l, n) => DebitedFor(r, l, n)'
  BY DEF DebitedFor
<1>2. SettledIsDebited'
  BY <1>1 DEF SettledIsDebited
<1>3. \A r, l : <<"sms-settle", r, l>> \in EntryKeys' => <<"sms-settle", r, l>> \in EntryKeys
  BY DEF EntryKeys
<1>4. DebitIsSettled'
  BY <1>3 DEF DebitIsSettled
<1> QED BY <1>2, <1>4

\* Same lots, same refunds.
LEMMA SameLots ==
  ASSUME lots' = lots
  PROVE  /\ \A r \in Reservation, l \in Lot :
              /\ RefundsOf(r, l, TerminalKinds)' = RefundsOf(r, l, TerminalKinds)
              /\ RefundsOf(r, l, OverpredictKinds)' = RefundsOf(r, l, OverpredictKinds)
              /\ \A i \in LotIds : lots'[i] = lots[i]
         /\ UniqueLotKeys => UniqueLotKeys'
BY DEF RefundsOf, LotIds, UniqueLotKeys

\* Grants of either kind.
LEMMA RefundGrant ==
  ASSUME LedgerInv, RefundInv,
         NEW key \in LotKey, key[1] \notin AllRefundKinds,
         NEW bucket \in Bucket, NEW amount \in Nat \ {0}, NEW expiresAt \in Instant,
         AppendLotGrant(key, bucket, amount, expiresAt),
         UNCHANGED <<entries, reservation, held>>
  PROVE  RefundInv'
<1>1. CASE key \in LotKeys
  <2>1. lots' = lots
    BY <1>1, GrantExtends
  <2> QED BY <2>1, SameLots, RefundsKept, DebitsKept DEF RefundInv
<1>2. CASE key \notin LotKeys
  <2>1. /\ Extended(Len(lots), lots, lots')
        /\ Len(lots') = Len(lots) + 1
        /\ lots'[Len(lots')].key = key
    <3>1. lots'[Len(lots')] = [key |-> key, bucket |-> bucket,
                               amount |-> amount, expiresAt |-> expiresAt]
      BY <1>2, GrantExtends
    <3> QED BY <1>2, <3>1, GrantExtends
  <2>2. Len(lots) \in Nat
    BY LenProperties DEF LedgerInv, TypeOK
  <2>3. \A i \in (Len(lots) + 1)..Len(lots') : i = Len(lots')
    BY <2>1, <2>2
  <2>4. UniqueLotKeys'
    BY <1>2, <2>1, <2>3, FreshKeysStayUnique DEF RefundInv
  <2>5. \A r \in Reservation, l \in Lot :
           /\ RefundsOf(r, l, TerminalKinds)' = RefundsOf(r, l, TerminalKinds)
           /\ RefundsOf(r, l, OverpredictKinds)' = RefundsOf(r, l, OverpredictKinds)
           /\ \A i \in LotIds : lots'[i] = lots[i]
    BY <2>1, <2>3, PlainLotsRefundNothing
  <2> QED BY <2>4, <2>5, RefundsKept, DebitsKept DEF RefundInv
<1> QED BY <1>1, <1>2

\* Steps that move no lot, reservation or row, and append no debit.
LEMMA RefundAside ==
  ASSUME RefundInv, UNCHANGED <<lots, reservation, held>>, entries \subseteq entries',
         \A e \in entries' \ entries : e.key[1] # "sms-settle"
  PROVE  RefundInv'
BY SameLots, RefundsKept, DebitsKept DEF RefundInv

LEMMA RefundReserve ==
  ASSUME LedgerInv, RefundInv, NEW r \in Reservation, NEW k \in DedupeKey,
         NEW n \in 1..MaxSegments, NEW t \in Clock, ReserveSmsCredits(r, k, n, t)
  PROVE  RefundInv'
<1>1. n \in Nat
  BY NumbersAssumption
<1> DEFINE plan == SpendPlan(n, t)
<1>2. \A l \in Lot : plan[l] \in Nat
  BY <1>1, PlanNat
<1>3. /\ held' = [held EXCEPT ![r] = [l \in Lot |-> [NoRow EXCEPT !.segments = plan[l]]]]
      /\ reservation[r].status = "none"
      /\ UNCHANGED <<lots, entries>>
  BY DEF ReserveSmsCredits
<1>4. /\ reservation'[r].status = "held"
      /\ \A x \in Reservation \ {r} : reservation'[x] = reservation[x]
  BY DEF ReserveSmsCredits, LedgerInv, TypeOK
<1> HIDE DEF plan
<1>5. /\ \A x \in Reservation \ {r} : held'[x] = held[x]
      /\ \A l \in Lot : held'[r][l].segments = plan[l] /\ held'[r][l].refundedSegments = 0
  BY <1>3 DEF LedgerInv, TypeOK, NoRow
<1>6. \A l \in Lot : /\ RefundsOf(r, l, TerminalKinds) = {}
                     /\ RefundsOf(r, l, OverpredictKinds) = {}
  BY <1>3 DEF RefundInv, TerminalFenced, OverpredictRecorded
<1>7. GivenBackWithin'
  <2> SUFFICES ASSUME NEW x \in Reservation, NEW l \in Lot
               PROVE  held'[x][l].refundedSegments <= held'[x][l].segments
    BY DEF GivenBackWithin
  <2>1. held'[r][l].refundedSegments <= held'[r][l].segments
    BY <1>2, <1>5
  <2>2. CASE x # r
    BY <1>5, <2>2 DEF RefundInv, GivenBackWithin
  <2> QED BY <2>1, <2>2
<1>8. SettledIsDebited' /\ DebitIsSettled'
  <2>1. \A x, l, m : DebitedFor(x, l, m)' <=> DebitedFor(x, l, m)
    BY <1>3 DEF DebitedFor
  <2>2. \A l \in Lot : <<"sms-settle", r, l>> \notin EntryKeys
    BY <1>3 DEF RefundInv, DebitIsSettled
  <2>3. EntryKeys' = EntryKeys
    BY <1>3 DEF EntryKeys
  <2>4. SettledIsDebited'
    BY <1>4, <1>5, <2>1 DEF RefundInv, SettledIsDebited
  <2>5. DebitIsSettled'
    BY <1>4, <2>2, <2>3 DEF RefundInv, DebitIsSettled
  <2> QED BY <2>4, <2>5
<1>9. UniqueLotKeys'
  BY <1>3, SameLots DEF RefundInv
<1>10. TerminalFenced'
  <2> SUFFICES ASSUME NEW x \in Reservation, NEW l \in Lot
               PROVE  /\ \A i \in RefundsOf(x, l, TerminalKinds)' :
                           /\ reservation'[x].status = "settled"
                           /\ held'[x][l].refundedAt
                           /\ lots'[i].amount <= held'[x][l].segments - held'[x][l].refundedSegments
                      /\ \A i, j \in RefundsOf(x, l, TerminalKinds)' : i = j
    BY DEF TerminalFenced
  <2>1. RefundsOf(x, l, TerminalKinds)' = RefundsOf(x, l, TerminalKinds)
    BY <1>3, SameLots
  <2>2. CASE x = r
    BY <1>6, <2>1, <2>2
  <2>3. CASE x # r
    BY <1>3, <1>4, <1>5, <2>1, <2>3 DEF RefundInv, TerminalFenced
  <2> QED BY <2>2, <2>3
<1>11. OverpredictRecorded'
  <2> SUFFICES ASSUME NEW x \in Reservation, NEW l \in Lot, NEW i \in RefundsOf(x, l, OverpredictKinds)'
               PROVE  /\ reservation'[x].status = "settled"
                      /\ lots'[i].amount <= held'[x][l].refundedSegments
    BY DEF OverpredictRecorded
  <2>1. i \in RefundsOf(x, l, OverpredictKinds)
    BY <1>3, SameLots
  <2>2. x # r
    BY <1>6, <2>1
  <2> QED BY <1>3, <1>4, <1>5, <2>1, <2>2 DEF RefundInv, OverpredictRecorded
<1> QED BY <1>7, <1>8, <1>9, <1>10, <1>11 DEF RefundInv

LEMMA RefundSettle ==
  ASSUME LedgerInv, RefundInv, NEW r \in Reservation, NEW t \in Clock,
         SettleReservationOnAccept(r, t)
  PROVE  RefundInv'
<1>1. /\ reservation[r].status = "held"
      /\ entries' = entries \cup {e \in Debits(r) : e.key \notin EntryKeys}
      /\ UNCHANGED <<lots, held>>
  BY DEF SettleReservationOnAccept, AppendNegativeEntries
<1>2. /\ reservation'[r].status = "settled"
      /\ \A x \in Reservation \ {r} : reservation'[x] = reservation[x]
  BY DEF SettleReservationOnAccept, LedgerInv, TypeOK
<1>3. \A l \in Lot : <<"sms-settle", r, l>> \notin EntryKeys
  BY <1>1 DEF RefundInv, DebitIsSettled
<1>4. \A l \in Lot : held[r][l].segments > 0 => DebitedFor(r, l, held[r][l].segments)'
  <2> SUFFICES ASSUME NEW l \in Lot, held[r][l].segments > 0
               PROVE  DebitedFor(r, l, held[r][l].segments)'
    OBVIOUS
  <2> DEFINE row == [key |-> <<"sms-settle", r, l>>, type |-> "debit", lot |-> l,
                     units |-> held[r][l].segments]
  <2>1. row \in Debits(r)
    BY DEF Debits
  <2>2. row \in entries'
    BY <1>1, <1>3, <2>1
  <2>3. row.key = <<"sms-settle", r, l>> /\ row.lot = l /\ row.units = held[r][l].segments
    OBVIOUS
  <2> HIDE DEF row
  <2> QED BY <1>1, <2>2, <2>3 DEF DebitedFor
<1>5. \A x, l, n : DebitedFor(x, l, n) => DebitedFor(x, l, n)'
  BY <1>1 DEF DebitedFor
<1>6. SettledIsDebited'
  BY <1>1, <1>2, <1>4, <1>5 DEF RefundInv, SettledIsDebited
<1>7. ASSUME NEW x \in Reservation \ {r}, NEW l \in Lot, <<"sms-settle", x, l>> \in EntryKeys'
      PROVE  <<"sms-settle", x, l>> \in EntryKeys
  <2>1. PICK e \in entries' : e.key = <<"sms-settle", x, l>>
    BY <1>7 DEF EntryKeys
  <2>2. \A d \in Debits(r) : d.key # <<"sms-settle", x, l>>
    BY DEF Debits
  <2> QED BY <1>1, <2>1, <2>2 DEF EntryKeys
<1>8. DebitIsSettled'
  BY <1>2, <1>7 DEF RefundInv, DebitIsSettled
<1> QED BY <1>1, <1>2, <1>6, <1>8, SameLots, RefundsKept DEF RefundInv

LEMMA RefundRelease ==
  ASSUME LedgerInv, RefundInv, NEW r \in Reservation, NEW t \in Clock, ReleaseReservation(r, t)
  PROVE  RefundInv'
<1>1. /\ reservation[r].status = "held"
      /\ UNCHANGED <<lots, entries, held>>
  BY DEF ReleaseReservation
<1>2. /\ reservation'[r].status = "released"
      /\ \A x \in Reservation \ {r} : reservation'[x] = reservation[x]
  BY DEF ReleaseReservation, LedgerInv, TypeOK
<1> QED BY <1>1, <1>2, SameLots, RefundsKept, DebitsKept DEF RefundInv
KindsOf(kind) == IF kind = TerminalKind THEN TerminalKinds ELSE OverpredictKinds

LEMMA RefundLotShape ==
  ASSUME NEW kind \in RefundKind, NEW r, NEW l, NEW units, NEW t
  PROVE  /\ RefundLot(kind, r, l, units, t).amount = units
         /\ \E name \in KindsOf(kind) : RefundLot(kind, r, l, units, t).key = <<name, r, l>>
<1>1. RefundLot(kind, r, l, units, t).amount = units
  BY DEF RefundLot
<1>2. \/ RefundLot(kind, r, l, units, t).key = <<kind.plain, r, l>>
      \/ RefundLot(kind, r, l, units, t).key = <<kind.recovery, r, l>>
  BY DEF RefundLot
<1>3. CASE kind = TerminalKind
  <2>1. kind.plain \in KindsOf(kind) /\ kind.recovery \in KindsOf(kind)
    BY <1>3 DEF TerminalKind, TerminalKinds, KindsOf
  <2> QED BY <1>1, <1>2, <2>1
<1>4. CASE kind = OverpredictKind
  <2>1. kind # TerminalKind
    BY <1>4 DEF TerminalKind, OverpredictKind
  <2>2. kind.plain \in KindsOf(kind) /\ kind.recovery \in KindsOf(kind)
    BY <1>4, <2>1 DEF OverpredictKind, OverpredictKinds, KindsOf
  <2> QED BY <1>1, <1>2, <2>2
<1> QED BY <1>3, <1>4 DEF RefundKind

OnlyRefunds(added, r, L, units) ==
  /\ \A i \in LotIds : lots'[i] = lots[i]
  /\ \A x \in Reservation, l \in Lot, kinds \in {TerminalKinds, OverpredictKinds} :
       \A i \in RefundsOf(x, l, kinds)' :
         \/ i \in RefundsOf(x, l, kinds)
         \/ /\ x = r /\ l \in L /\ kinds = added
            /\ i \notin LotIds
            /\ lots'[i].amount = units[l]
  /\ \A l \in Lot, kinds \in {TerminalKinds, OverpredictKinds} :
       \A i, j \in RefundsOf(r, l, kinds)' : i \notin LotIds /\ j \notin LotIds => i = j

\* What either arm adds: at most one lot per row it was asked to refund, for
\* the units it was asked to, and nothing for another reservation or kind.
LEMMA RefundsAdded ==
  ASSUME LedgerInv, UniqueLotKeys, NEW kind \in RefundKind, NEW r \in Reservation,
         NEW L \in SUBSET LotIds, NEW units, \A l \in L : units[l] \in Nat \ {0}, NEW t \in Clock,
         AppendRefunds(kind, r, L, units, t)
  PROVE  UniqueLotKeys' /\ OnlyRefunds(KindsOf(kind), r, L, units)
<1> DEFINE new == (Len(lots) + 1)..Len(lots')
<1>1. PICK source \in [new -> L] :
         /\ \A i, j \in new : source[i] = source[j] => i = j
         /\ \A i \in new :
              /\ lots'[i] = RefundLot(kind, r, source[i], units[source[i]], t)
              /\ lots'[i].key \notin LotKeys
  <2>1. RefundsRows(kind, r, L, units, t, new)
    BY RefundsExtend
  <2> HIDE DEF new
  <2> QED BY <2>1 DEF RefundsRows
<1>2. Extended(Len(lots), lots, lots')
  BY RefundsExtend
<1>3. Len(lots) \in Nat /\ Len(lots') \in Nat /\ Len(lots) <= Len(lots')
  BY <1>2, ExtendKeeps, LenProperties DEF LedgerInv, TypeOK, Extended
<1>4. LotIds = 1..Len(lots) /\ LotIds' = 1..Len(lots')
  BY <1>2, ExtendKeeps, LenProperties DEF LedgerInv, TypeOK, LotIds
<1>5. new = LotIds' \ LotIds
  BY <1>3, <1>4
<1> HIDE DEF new
<1>6. \A i \in new : /\ lots'[i].amount = units[source[i]]
                     /\ \E name \in KindsOf(kind) : lots'[i].key = <<name, r, source[i]>>
  BY <1>1, RefundLotShape
<1>7. \A i, j \in new : lots'[i].key = lots'[j].key => i = j
  BY <1>1, <1>6
<1>8. UniqueLotKeys'
  BY <1>1, <1>2, <1>7, FreshKeysStayUnique DEF new
<1>9. \A i \in LotIds : lots'[i] = lots[i]
  BY <1>2, <1>4 DEF Extended
<1>10. ASSUME NEW x \in Reservation, NEW l \in Lot,
              NEW kinds \in {TerminalKinds, OverpredictKinds},
              NEW i \in RefundsOf(x, l, kinds)', i \in new
       PROVE  x = r /\ l = source[i] /\ kinds = KindsOf(kind)
  <2>1. PICK name \in kinds : lots'[i].key = <<name, x, l>>
    BY DEF RefundsOf
  <2>2. PICK other \in KindsOf(kind) : lots'[i].key = <<other, r, source[i]>>
    BY <1>6, <1>10
  <2>3. name = other /\ x = r /\ l = source[i]
    BY <2>1, <2>2
  <2>4. KindsOf(kind) \in {TerminalKinds, OverpredictKinds}
    BY DEF KindsOf
  <2>5. TerminalKinds \cap OverpredictKinds = {}
    BY DEF TerminalKinds, OverpredictKinds
  <2> QED BY <2>3, <2>4, <2>5
<1>11. ASSUME NEW x \in Reservation, NEW l \in Lot,
              NEW kinds \in {TerminalKinds, OverpredictKinds},
              NEW i \in RefundsOf(x, l, kinds)', i \notin new
       PROVE  i \in RefundsOf(x, l, kinds)
  BY <1>5, <1>9, <1>11 DEF RefundsOf
<1>12. ASSUME NEW x \in Reservation, NEW l \in Lot,
              NEW kinds \in {TerminalKinds, OverpredictKinds},
              NEW i \in RefundsOf(x, l, kinds)'
       PROVE  \/ i \in RefundsOf(x, l, kinds)
              \/ /\ x = r /\ l \in L /\ kinds = KindsOf(kind)
                 /\ i \notin LotIds
                 /\ lots'[i].amount = units[l]
  <2>1. CASE i \notin new
    BY <1>11, <2>1
  <2>2. CASE i \in new
    BY <1>1, <1>5, <1>6, <1>10, <2>2
  <2> QED BY <2>1, <2>2
<1>13. ASSUME NEW l \in Lot, NEW kinds \in {TerminalKinds, OverpredictKinds},
              NEW i \in RefundsOf(r, l, kinds)', NEW j \in RefundsOf(r, l, kinds)',
              i \notin LotIds, j \notin LotIds
       PROVE  i = j
  <2>1. i \in new /\ j \in new
    BY <1>5, <1>13 DEF RefundsOf
  <2> QED BY <1>1, <1>10, <2>1
<1> QED BY <1>8, <1>9, <1>12, <1>13 DEF OnlyRefunds

LEMMA RefundTerminal ==
  ASSUME LedgerInv, RefundInv, NEW r \in Reservation, NEW t \in Clock,
         RefundTerminalFailure(r, t)
  PROVE  RefundInv'
<1> DEFINE unfenced == {l \in RowsOf(r) : ~held[r][l].refundedAt}
           owed == {l \in unfenced : Refundable(r)[l] > 0}
<1>1. owed \in SUBSET LotIds /\ unfenced \in SUBSET Lot
  BY DEF RowsOf, LedgerInv, RowsOnLots
<1>2. \A l \in owed : /\ Refundable(r)[l] \in Nat \ {0}
                      /\ Refundable(r)[l] = held[r][l].segments - held[r][l].refundedSegments
  BY DEF RowsOf, Refundable, LedgerInv, TypeOK, HeldRow
<1>3. AppendRefunds(TerminalKind, r, owed, Refundable(r), t)
  BY DEF RefundTerminalFailure
<1>4. /\ reservation[r].status = "settled"
      /\ UNCHANGED entries
      /\ \A x \in Reservation : reservation'[x].status = reservation[x].status
  BY DEF RefundTerminalFailure, LedgerInv, TypeOK, ReservationRow
<1>5. /\ \A x \in Reservation, l \in Lot :
           /\ held'[x][l].segments = held[x][l].segments
           /\ held'[x][l].refundedSegments = held[x][l].refundedSegments
           /\ held[x][l].refundedAt => held'[x][l].refundedAt
      /\ \A l \in unfenced : held'[r][l].refundedAt
  <2>1. held' = [held EXCEPT ![r] = [l \in Lot |->
                  [held[r][l] EXCEPT !.refundedAt = @ \/ l \in unfenced]]]
    BY DEF RefundTerminalFailure
  <2>2. \A x \in Reservation, l \in Lot : held[x][l] \in HeldRow
    BY DEF LedgerInv, TypeOK
  <2> HIDE DEF unfenced
  <2>3. \A l \in Lot : held'[r][l] = [held[r][l] EXCEPT !.refundedAt = @ \/ l \in unfenced]
    BY <2>1 DEF LedgerInv, TypeOK
  <2>4. \A x \in Reservation \ {r} : held'[x] = held[x]
    BY <2>1 DEF LedgerInv, TypeOK
  <2>5. \A l \in Lot : /\ held'[r][l].segments = held[r][l].segments
                       /\ held'[r][l].refundedSegments = held[r][l].refundedSegments
                       /\ held'[r][l].refundedAt = (held[r][l].refundedAt \/ l \in unfenced)
    <3> SUFFICES ASSUME NEW l \in Lot
                 PROVE  /\ held'[r][l].segments = held[r][l].segments
                        /\ held'[r][l].refundedSegments = held[r][l].refundedSegments
                        /\ held'[r][l].refundedAt = (held[r][l].refundedAt \/ l \in unfenced)
      OBVIOUS
    <3> DEFINE fence == held[r][l].refundedAt \/ l \in unfenced
    <3>1. held'[r][l] = [held[r][l] EXCEPT !.refundedAt = fence]
      BY <2>3
    <3>2. held[r][l] \in HeldRow
      BY <2>2
    <3> HIDE DEF fence
    <3>3. /\ held'[r][l].segments = held[r][l].segments
          /\ held'[r][l].refundedSegments = held[r][l].refundedSegments
          /\ held'[r][l].refundedAt = fence
      BY <3>1, <3>2, HeldUpdate
    <3> QED BY <3>3 DEF fence
  <2>6. \A x \in Reservation, l \in Lot :
           /\ held'[x][l].segments = held[x][l].segments
           /\ held'[x][l].refundedSegments = held[x][l].refundedSegments
           /\ held[x][l].refundedAt => held'[x][l].refundedAt
    BY <2>4, <2>5
  <2> QED BY <1>1, <2>5, <2>6
<1>6. \A l \in owed : l \in unfenced /\ ~held[r][l].refundedAt
  OBVIOUS
<1> HIDE DEF unfenced, owed
<1>7. TerminalKind \in RefundKind /\ KindsOf(TerminalKind) = TerminalKinds
  BY DEF RefundKind, KindsOf
<1>8. /\ UniqueLotKeys'
      /\ \A i \in LotIds : lots'[i] = lots[i]
      /\ \A x \in Reservation, l \in Lot, kinds \in {TerminalKinds, OverpredictKinds} :
           \A i \in RefundsOf(x, l, kinds)' :
             \/ i \in RefundsOf(x, l, kinds)
             \/ /\ x = r /\ l \in owed /\ kinds = TerminalKinds
                /\ i \notin LotIds
                /\ lots'[i].amount = Refundable(r)[l]
      /\ \A l \in Lot, kinds \in {TerminalKinds, OverpredictKinds} :
           \A i, j \in RefundsOf(r, l, kinds)' : i \notin LotIds /\ j \notin LotIds => i = j
  <2> DEFINE units == Refundable(r)
  <2>1. \A l \in owed : units[l] \in Nat \ {0}
    BY <1>2
  <2>2. AppendRefunds(TerminalKind, r, owed, units, t) /\ UniqueLotKeys
    BY <1>3 DEF RefundInv
  <2> HIDE DEF units
  <2>3. UniqueLotKeys' /\ OnlyRefunds(KindsOf(TerminalKind), r, owed, units)
    BY <1>1, <1>7, <2>1, <2>2, RefundsAdded
  <2> QED BY <1>7, <2>3 DEF OnlyRefunds, units
<1>9. \A x, l, kinds : RefundsOf(x, l, kinds) \subseteq LotIds
  BY DEF RefundsOf
<1>10. \A l \in owed : l \in Lot => RefundsOf(r, l, TerminalKinds) = {}
  BY <1>6 DEF RefundInv, TerminalFenced
<1>11. TerminalKinds # OverpredictKinds
  BY DEF TerminalKinds, OverpredictKinds
<1>12. TerminalFenced'
  <2>1. ASSUME NEW x \in Reservation, NEW l \in Lot, NEW i \in RefundsOf(x, l, TerminalKinds)'
        PROVE  /\ reservation'[x].status = "settled"
               /\ held'[x][l].refundedAt
               /\ lots'[i].amount <= held'[x][l].segments - held'[x][l].refundedSegments
    <3>1. CASE i \in RefundsOf(x, l, TerminalKinds)
      BY <1>4, <1>5, <1>8, <1>9, <3>1 DEF RefundInv, TerminalFenced
    <3>2. CASE i \notin RefundsOf(x, l, TerminalKinds)
      <4>1. x = r /\ l \in owed /\ lots'[i].amount = Refundable(r)[l]
        BY <1>8, <3>2
      <4>2. Refundable(r)[l] \in Nat
        BY <1>2, <4>1
      <4> QED BY <1>2, <1>4, <1>5, <1>6, <4>1, <4>2
    <3> QED BY <3>1, <3>2
  <2>2. ASSUME NEW x \in Reservation, NEW l \in Lot,
               NEW i \in RefundsOf(x, l, TerminalKinds)',
               NEW j \in RefundsOf(x, l, TerminalKinds)'
        PROVE  i = j
    <3>1. CASE i \in RefundsOf(x, l, TerminalKinds) /\ j \in RefundsOf(x, l, TerminalKinds)
      BY <3>1 DEF RefundInv, TerminalFenced
    <3>2. CASE i \notin RefundsOf(x, l, TerminalKinds)
      <4>1. x = r /\ l \in owed /\ i \notin LotIds
        BY <1>8, <3>2
      <4>2. j \notin LotIds
        BY <1>8, <1>10, <4>1
      <4> QED BY <1>8, <4>1, <4>2
    <3>3. CASE j \notin RefundsOf(x, l, TerminalKinds)
      <4>1. x = r /\ l \in owed /\ j \notin LotIds
        BY <1>8, <3>3
      <4>2. i \notin LotIds
        BY <1>8, <1>10, <4>1
      <4> QED BY <1>8, <4>1, <4>2
    <3> QED BY <3>1, <3>2, <3>3
  <2> QED BY <2>1, <2>2 DEF TerminalFenced
<1>13. OverpredictRecorded'
  BY <1>4, <1>5, <1>8, <1>9, <1>11 DEF RefundInv, OverpredictRecorded
<1>14. GivenBackWithin'
  BY <1>5 DEF RefundInv, GivenBackWithin
<1>15. SettledIsDebited' /\ DebitIsSettled'
  BY <1>4, <1>5, DebitsKept DEF RefundInv
<1> QED BY <1>8, <1>12, <1>13, <1>14, <1>15 DEF RefundInv
LEMMA RefundOverpredict ==
  ASSUME LedgerInv, RefundInv, NEW r \in Reservation, NEW actual \in 0..MaxSegments,
         NEW t \in Clock, RefundOverpredictedSegments(r, actual, t)
  PROVE  RefundInv'
<1>1. /\ reservation[r].status = "settled"
      /\ UNCHANGED entries
      /\ \A x \in Reservation : reservation'[x].status = reservation[x].status
  <2>1. /\ reservation' = [reservation EXCEPT ![r].providerSegments = actual]
        /\ reservation[r].status = "settled"
        /\ UNCHANGED entries
    BY DEF RefundOverpredictedSegments
  <2> QED BY <2>1 DEF LedgerInv, TypeOK, ReservationRow
<1>2. CASE reservation[r].refunded
  <2>1. UNCHANGED <<lots, held>>
    BY <1>2 DEF RefundOverpredictedSegments
  <2> QED BY <1>1, <2>1, SameLots, RefundsKept, DebitsKept DEF RefundInv
<1>3. CASE ~reservation[r].refunded
  <2>1. PICK give \in [RowsOf(r) -> 0..MaxSegments] :
          LET L == {l \in RowsOf(r) : give[l] > 0} IN
            /\ GiveBack(r, reservation[r].segments - actual, give)
            /\ AppendRefunds(OverpredictKind, r, L, give, t)
            /\ held' = [held EXCEPT ![r] = [l \in Lot |->
                 IF l \in L THEN [held[r][l] EXCEPT !.refundedSegments = @ + give[l]]
                 ELSE held[r][l]]]
    BY <1>3 DEF RefundOverpredictedSegments
  <2> DEFINE L == {l \in RowsOf(r) : give[l] > 0}
  <2>2. L \in SUBSET LotIds /\ L \in SUBSET Lot
    BY DEF RowsOf, LedgerInv, RowsOnLots
  <2>3. \A l \in L : give[l] \in Nat \ {0}
    BY NumbersAssumption
  <2>4. \A l \in L : /\ ~held[r][l].refundedAt
                     /\ give[l] <= held[r][l].segments - held[r][l].refundedSegments
    BY <2>1, <2>2 DEF GiveBack, Refundable, RowsOf
  <2>5. AppendRefunds(OverpredictKind, r, L, give, t)
    BY <2>1
  <2> HIDE DEF L
  <2>6. held' = [held EXCEPT ![r] = [l \in Lot |->
                 IF l \in L THEN [held[r][l] EXCEPT !.refundedSegments = @ + give[l]]
                 ELSE held[r][l]]]
    BY <2>1 DEF L
  <2>7. \A x \in Reservation, l \in Lot : held[x][l].segments \in Nat /\ held[x][l].refundedSegments \in Nat
    BY DEF LedgerInv, TypeOK, HeldRow
  <2>8. \A l \in L : /\ held'[r][l].segments = held[r][l].segments
                     /\ held'[r][l].refundedAt = held[r][l].refundedAt
                     /\ held'[r][l].refundedSegments = held[r][l].refundedSegments + give[l]
    BY <2>2, <2>6 DEF LedgerInv, TypeOK, HeldRow
  <2>9. \A x \in Reservation, l \in Lot : x # r \/ l \notin L => held'[x][l] = held[x][l]
    BY <2>6 DEF LedgerInv, TypeOK
  <2>10. OverpredictKind \in RefundKind /\ KindsOf(OverpredictKind) = OverpredictKinds
    BY DEF RefundKind, KindsOf, OverpredictKind, TerminalKind
  <2>11. UniqueLotKeys' /\ OnlyRefunds(OverpredictKinds, r, L, give)
    <3>1. UniqueLotKeys' /\ OnlyRefunds(KindsOf(OverpredictKind), r, L, give)
      BY <2>2, <2>3, <2>5, <2>10, RefundsAdded DEF RefundInv
    <3> QED BY <2>10, <3>1
  <2>12. \A x, l, kinds : RefundsOf(x, l, kinds) \subseteq LotIds
    BY DEF RefundsOf
  <2>13. TerminalKinds # OverpredictKinds
    BY DEF TerminalKinds, OverpredictKinds
  <2>14. \A x \in Reservation, l \in Lot : RefundsOf(x, l, TerminalKinds)' \subseteq RefundsOf(x, l, TerminalKinds)
    BY <2>11, <2>13 DEF OnlyRefunds
  <2>15. TerminalFenced'
    <3>1. ASSUME NEW x \in Reservation, NEW l \in Lot, NEW i \in RefundsOf(x, l, TerminalKinds)'
          PROVE  /\ reservation'[x].status = "settled"
                 /\ held'[x][l].refundedAt
                 /\ lots'[i].amount <= held'[x][l].segments - held'[x][l].refundedSegments
      <4>1. i \in RefundsOf(x, l, TerminalKinds) /\ i \in LotIds
        BY <2>12, <2>14
      <4>2. /\ reservation[x].status = "settled"
            /\ held[x][l].refundedAt
            /\ lots[i].amount <= held[x][l].segments - held[x][l].refundedSegments
        BY <4>1 DEF RefundInv, TerminalFenced
      <4>3. held'[x][l] = held[x][l]
        BY <2>4, <2>9, <4>2
      <4>4. lots'[i] = lots[i]
        BY <2>11, <4>1 DEF OnlyRefunds
      <4> QED BY <1>1, <4>2, <4>3, <4>4
    <3>2. ASSUME NEW x \in Reservation, NEW l \in Lot,
                 NEW i \in RefundsOf(x, l, TerminalKinds)',
                 NEW j \in RefundsOf(x, l, TerminalKinds)'
          PROVE  i = j
      BY <2>14 DEF RefundInv, TerminalFenced
    <3> QED BY <3>1, <3>2 DEF TerminalFenced
  <2>16. OverpredictRecorded'
    <3> SUFFICES ASSUME NEW x \in Reservation, NEW l \in Lot,
                        NEW i \in RefundsOf(x, l, OverpredictKinds)'
                 PROVE  /\ reservation'[x].status = "settled"
                        /\ lots'[i].amount <= held'[x][l].refundedSegments
      BY DEF OverpredictRecorded
    <3>1. CASE i \in RefundsOf(x, l, OverpredictKinds)
      <4>1. reservation[x].status = "settled" /\ lots[i].amount <= held[x][l].refundedSegments
        BY <3>1 DEF RefundInv, OverpredictRecorded
      <4>2. lots'[i] = lots[i] /\ lots[i].amount \in Nat
        BY <2>11, <2>12, <3>1, LotArithmetic DEF OnlyRefunds, LotRow
      <4>3. CASE x = r /\ l \in L
        <5>1. held'[x][l].refundedSegments = held[x][l].refundedSegments + give[l]
          BY <2>8, <4>3
        <5>2. give[l] \in Nat /\ held[x][l].refundedSegments \in Nat
          BY <2>3, <2>7, <4>3
        <5> QED BY <1>1, <4>1, <4>2, <5>1, <5>2
      <4>4. CASE x # r \/ l \notin L
        BY <1>1, <2>9, <4>1, <4>2, <4>4
      <4> QED BY <4>3, <4>4
    <3>2. CASE i \notin RefundsOf(x, l, OverpredictKinds)
      <4>1. x = r /\ l \in L /\ lots'[i].amount = give[l]
        BY <2>11, <3>2 DEF OnlyRefunds
      <4>2. held'[x][l].refundedSegments = held[x][l].refundedSegments + give[l]
        BY <2>8, <4>1
      <4>3. give[l] \in Nat /\ held[x][l].refundedSegments \in Nat
        BY <2>3, <2>7, <4>1
      <4>4. reservation'[x].status = "settled"
        BY <1>1, <4>1
      <4> QED BY <4>1, <4>2, <4>3, <4>4
    <3> QED BY <3>1, <3>2
  <2>17. GivenBackWithin'
    <3> SUFFICES ASSUME NEW x \in Reservation, NEW l \in Lot
                 PROVE  held'[x][l].refundedSegments <= held'[x][l].segments
      BY DEF GivenBackWithin
    <3>1. CASE x = r /\ l \in L
      <4>1. /\ held'[x][l].segments = held[x][l].segments
            /\ held'[x][l].refundedSegments = held[x][l].refundedSegments + give[l]
            /\ give[l] <= held[x][l].segments - held[x][l].refundedSegments
        BY <2>4, <2>8, <3>1
      <4>2. give[l] \in Nat
        BY <2>3, <3>1
      <4> QED BY <2>7, <4>1, <4>2
    <3>2. CASE x # r \/ l \notin L
      BY <2>9, <3>2 DEF RefundInv, GivenBackWithin
    <3> QED BY <3>1, <3>2
  <2>18. SettledIsDebited' /\ DebitIsSettled'
    <3>1. \A x \in Reservation, l \in Lot : held'[x][l].segments = held[x][l].segments
      BY <2>8, <2>9
    <3> QED BY <1>1, <3>1, DebitsKept DEF RefundInv
  <2> QED BY <2>11, <2>15, <2>16, <2>17, <2>18 DEF RefundInv
<1> QED BY <1>2, <1>3

LEMMA RefundStep == LedgerInv /\ RefundInv /\ [Next]_vars => RefundInv'
<1> SUFFICES ASSUME LedgerInv, RefundInv, [Next]_vars PROVE RefundInv'
  OBVIOUS
<1>1. CASE Message
  BY <1>1, RefundReserve, RefundSettle, RefundRelease, RefundTerminal, RefundOverpredict
  DEF Message, ReapExpiredReservation
<1>2. CASE Topup
  <2>1. ASSUME NEW p \in Purchase, NEW t \in Clock, TopupSessionCompleted(p, t)
        PROVE  RefundInv'
    <3> DEFINE key == <<"topup-grant", p, 0>>
    <3>1. key \in LotKey /\ key[1] \notin AllRefundKinds
      BY NumbersAssumption
      DEF LotKey, KeyOwner, AllRefundKinds, TerminalKinds, OverpredictKinds
    <3>2. "purchased" \in Bucket /\ NoExpiry \in Instant
      BY NumbersAssumption DEF Bucket, SPEND_ORDER_RANK, NoExpiry, Instant
    <3>3. /\ AppendLotGrant(key, "purchased", TopupCredits, NoExpiry)
          /\ UNCHANGED <<entries, reservation, held>>
      BY <2>1 DEF TopupSessionCompleted
    <3> HIDE DEF key
    <3> QED BY <3>1, <3>2, <3>3, RefundGrant, NumbersAssumption
  <2>2. ASSUME NEW p \in Purchase,
               \/ TopupSessionExpired(p)
               \/ \E cents \in 1..TopupCents : StripeRefunds(p, cents)
               \/ StripeDisputes(p)
        PROVE  RefundInv'
    <3>1. UNCHANGED <<lots, entries, reservation, held>>
      BY <2>2 DEF TopupSessionExpired, StripeRefunds, StripeDisputes
    <3> QED BY <3>1, RefundAside
  <2>3. ASSUME NEW p, NEW kind \in {"topup-reversal", "dispute-reversal"}, NEW n, NEW units,
               NEW status, NEW t, AppendReversal(p, <<kind, p, n>>, units, status, t)
        PROVE  RefundInv'
    <3>1. UNCHANGED <<lots, reservation, held>> /\ entries \subseteq entries'
      BY <2>3 DEF AppendReversal, AppendNegativeEntries
    <3>2. \A e \in entries' \ entries : e.key = <<kind, p, n>>
      BY <2>3 DEF AppendReversal, AppendNegativeEntries
    <3>3. \A e \in entries' \ entries : e.key[1] # "sms-settle"
      BY <3>2
    <3> QED BY <3>1, <3>3, RefundAside
  <2>4. ASSUME NEW p \in Purchase, NEW t \in Clock, NEW cents \in 1..TopupCents,
               ReverseTopupRefund(p, cents, t)
        PROVE  RefundInv'
    BY <2>3, <2>4 DEF ReverseTopupRefund
  <2>5. ASSUME NEW p \in Purchase, NEW t \in Clock, ReverseTopupDispute(p, t)
        PROVE  RefundInv'
    BY <2>3, <2>5 DEF ReverseTopupDispute
  <2> QED BY <1>2, <2>1, <2>2, <2>4, <2>5 DEF Topup
<1>3. CASE Bookkeeping
  <2>1. ASSUME NEW t \in Clock, NEW g \in Grant, GrantLot(g, t)
        PROVE  RefundInv'
    <3> DEFINE key == <<"grant", g.name, 0>>
    <3>1. key \in LotKey /\ key[1] \notin AllRefundKinds
      BY NumbersAssumption
      DEF LotKey, KeyOwner, AllRefundKinds, TerminalKinds, OverpredictKinds
    <3>2. g.bucket \in Bucket /\ g.amount \in Nat \ {0} /\ g.expiresAt \in Instant
      BY GrantAssumption
    <3>3. /\ AppendLotGrant(key, g.bucket, g.amount, g.expiresAt)
          /\ UNCHANGED <<entries, reservation, held>>
      BY <2>1 DEF GrantLot
    <3> HIDE DEF key
    <3> QED BY <3>1, <3>2, <3>3, RefundGrant
  <2>2. ASSUME NEW t \in Clock, ExpireLapsedLots(t)
        PROVE  RefundInv'
    <3>1. UNCHANGED <<lots, reservation, held>> /\ entries \subseteq entries'
      BY <2>2 DEF ExpireLapsedLots, AppendNegativeEntries
    <3>2. \A e \in entries' \ entries : e.key[1] # "sms-settle"
      <4>1. \A e \in entries' \ entries : \E l : e.key = <<"expiry", "sweep", l>>
        BY <2>2 DEF ExpireLapsedLots, AppendNegativeEntries
      <4> QED BY <4>1
    <3> QED BY <3>1, <3>2, RefundAside
  <2>3. CASE Tick
    <3>1. UNCHANGED <<lots, entries, reservation, held>>
      BY <2>3 DEF Tick
    <3> QED BY <3>1, RefundAside
  <2> QED BY <1>3, <2>1, <2>2, <2>3 DEF Bookkeeping
<1>4. CASE UNCHANGED vars
  <2>1. UNCHANGED <<lots, entries, reservation, held>>
    BY <1>4 DEF vars
  <2> QED BY <2>1, RefundAside
<1> QED BY <1>1, <1>2, <1>3, <1>4 DEF Next

LEMMA RefundInvImplies == LedgerInv /\ RefundInv => RefundNeverExceedsDebit
<1> SUFFICES ASSUME LedgerInv, RefundInv, NEW r \in Reservation, NEW l \in Lot
             PROVE
    /\ \A i, j \in RefundsOf(r, l, TerminalKinds) : i = j
    /\ \A i, j \in RefundsOf(r, l, OverpredictKinds) : i = j
    /\ \A i \in RefundsOf(r, l, TerminalKinds \cup OverpredictKinds) :
         \E e \in entries :
           /\ e.key = <<"sms-settle", r, l>> /\ e.lot = l
           /\ lots[i].amount <= e.units
           /\ \A j \in RefundsOf(r, l, OverpredictKinds) :
                i \in RefundsOf(r, l, TerminalKinds) =>
                  lots[i].amount + lots[j].amount <= e.units
  BY DEF RefundNeverExceedsDebit
<1> DEFINE n == held[r][l].segments
           back == held[r][l].refundedSegments
<1>1. n \in Nat /\ back \in Nat /\ back <= n
  BY DEF RefundInv, GivenBackWithin, LedgerInv, TypeOK, HeldRow
<1>2. \A kinds : \A i \in RefundsOf(r, l, kinds) : i \in LotIds /\ lots[i].amount \in Nat \ {0}
  BY LotArithmetic DEF RefundsOf, LotRow
<1>3. \A i \in RefundsOf(r, l, TerminalKinds) :
        reservation[r].status = "settled" /\ lots[i].amount <= n - back
  BY DEF RefundInv, TerminalFenced
<1>4. \A i \in RefundsOf(r, l, OverpredictKinds) :
        reservation[r].status = "settled" /\ lots[i].amount <= back
  BY DEF RefundInv, OverpredictRecorded
<1>5. \A i, j \in RefundsOf(r, l, TerminalKinds) : i = j
  BY DEF RefundInv, TerminalFenced
<1>6. \A i, j \in RefundsOf(r, l, OverpredictKinds) : i = j
  BY DEF RefundInv, UniqueLotKeys, RefundsOf, OverpredictKinds
<1>7. reservation[r].status = "settled" /\ n > 0 => DebitedFor(r, l, n)
  BY DEF RefundInv, SettledIsDebited
<1> HIDE DEF n, back
<1>8. ASSUME NEW i \in RefundsOf(r, l, TerminalKinds \cup OverpredictKinds)
      PROVE  \E e \in entries :
               /\ e.key = <<"sms-settle", r, l>> /\ e.lot = l
               /\ lots[i].amount <= e.units
               /\ \A j \in RefundsOf(r, l, OverpredictKinds) :
                    i \in RefundsOf(r, l, TerminalKinds) =>
                      lots[i].amount + lots[j].amount <= e.units
  <2>1. i \in RefundsOf(r, l, TerminalKinds) \/ i \in RefundsOf(r, l, OverpredictKinds)
    BY DEF RefundsOf
  <2>2. reservation[r].status = "settled" /\ lots[i].amount <= n /\ lots[i].amount \in Nat \ {0}
    BY <1>1, <1>2, <1>3, <1>4, <2>1
  <2>3. PICK e \in entries : e.key = <<"sms-settle", r, l>> /\ e.lot = l /\ e.units = n
    BY <1>1, <1>7, <2>2 DEF DebitedFor
  <2>4. \A j \in RefundsOf(r, l, OverpredictKinds) :
          i \in RefundsOf(r, l, TerminalKinds) => lots[i].amount + lots[j].amount <= n
    BY <1>1, <1>2, <1>3, <1>4
  <2> QED BY <2>2, <2>3, <2>4
<1> QED BY <1>5, <1>6, <1>8

\* The two refund arms, in whatever order they run and however often they are
\* replayed, never return more than the debit of a lot, and only value that a
\* settlement took (refundTerminalFailure and refundOverpredictedSegments).
THEOREM RefundsWithinDebits == Spec => []RefundNeverExceedsDebit
<1>1. Init => RefundInv
  BY RefundInit
<1>2. LedgerInv /\ RefundInv /\ [Next]_vars => RefundInv'
  BY RefundStep
<1>3. LedgerInv /\ RefundInv => RefundNeverExceedsDebit
  BY RefundInvImplies
<1> QED BY <1>1, <1>2, <1>3, LedgerInvariant, PTL DEF Spec

=============================================================================
