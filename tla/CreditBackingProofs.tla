------------------------ MODULE CreditBackingProofs ------------------------
(***************************************************************************)
(* Theorems about the money in the credit account, for every number of     *)
(* messages, purchases, grants and lots: holds stay backed, no send is     *)
(* authorized below zero, reversals stay within Stripe's evidence, the     *)
(* cache is the ledger, and the account implements MessageCharge.          *)
(***************************************************************************)
EXTENDS CreditLedgerProofs, FunctionTheorems

(***************************************************************************)
(* Totals.  Total counts unit tokens, so facts about sums are facts about  *)
(* finite sets: no induction is needed.                                    *)
(***************************************************************************)
LEMMA TokensAre ==
  ASSUME NEW S, NEW units
  PROVE  \A z : z \in Tokens(units, S) <=> \E x \in S : \E k \in 1..units[x] : z = <<x, k>>
BY DEF Tokens

LEMMA TotalIs ==
  ASSUME NEW S, NEW units
  PROVE  Total(units, S) = Cardinality(Tokens(units, S))
BY DEF Total, Tokens

LEMMA TotalSame ==
  ASSUME NEW S, NEW u, NEW v, \A x \in S : u[x] = v[x]
  PROVE  Total(u, S) = Total(v, S)
<1>1. ASSUME NEW x \in S PROVE {x} \X (1..u[x]) = {x} \X (1..v[x])
  BY <1>1
<1>2. Tokens(u, S) = Tokens(v, S)
  BY <1>1 DEF Tokens
<1> QED BY <1>2, TotalIs

\* More rows, each of at least as many units.
LEMMA TotalGrows ==
  ASSUME NEW T, IsFiniteSet(T), NEW S \in SUBSET T, NEW u, NEW v,
         \A x \in T : v[x] \in Nat, \A x \in S : u[x] \in Nat /\ u[x] <= v[x]
  PROVE  Total(u, S) <= Total(v, T)
<1>1. Tokens(u, S) \in SUBSET Tokens(v, T)
  BY TokensAre
<1>2. IsFiniteSet(Tokens(v, T))
  BY TokensFinite
<1> QED BY <1>1, <1>2, FS_Subset, TotalIs

\* Rows of no units add nothing.
LEMMA TotalWithout ==
  ASSUME NEW T, NEW S \in SUBSET T, NEW u, \A x \in T \ S : u[x] = 0
  PROVE  Total(u, S) = Total(u, T)
<1>1. \A x \in T \ S : {x} \X (1..u[x]) = {}
  OBVIOUS
<1>2. Tokens(u, S) = Tokens(u, T)
  BY <1>1 DEF Tokens
<1> QED BY <1>2, TotalIs

LEMMA TotalEmpty ==
  ASSUME NEW u
  PROVE  Total(u, {}) = 0
<1>1. Tokens(u, {}) = {}
  BY TokensAre
<1> QED BY <1>1, TotalIs, FS_EmptySet

LEMMA TotalUnion ==
  ASSUME NEW S, IsFiniteSet(S), NEW T, IsFiniteSet(T), S \cap T = {}, NEW u,
         \A x \in S \cup T : u[x] \in Nat
  PROVE  Total(u, S \cup T) = Total(u, S) + Total(u, T)
<1>1. IsFiniteSet(Tokens(u, S)) /\ IsFiniteSet(Tokens(u, T))
  BY TokensFinite
<1>2. Tokens(u, S \cup T) = Tokens(u, S) \cup Tokens(u, T)
  BY TokensAre
<1>3. Tokens(u, S) \cap Tokens(u, T) = {}
  BY TokensAre
<1>4. Cardinality(Tokens(u, S)) \in Nat /\ Cardinality(Tokens(u, T)) \in Nat
  BY <1>1, FS_CardinalityType
<1>5. Cardinality(Tokens(u, S) \cup Tokens(u, T))
        = Cardinality(Tokens(u, S)) + Cardinality(Tokens(u, T))
          - Cardinality(Tokens(u, S) \cap Tokens(u, T))
  BY <1>1, FS_Union
<1>6. Cardinality(Tokens(u, S) \cap Tokens(u, T)) = 0
  BY <1>3, FS_EmptySet
<1>7. /\ Total(u, S \cup T) = Cardinality(Tokens(u, S) \cup Tokens(u, T))
      /\ Total(u, S) = Cardinality(Tokens(u, S))
      /\ Total(u, T) = Cardinality(Tokens(u, T))
  BY <1>2, TotalIs
<1> QED BY <1>4, <1>5, <1>6, <1>7

LEMMA TotalOne ==
  ASSUME NEW x, NEW u, u[x] \in Nat
  PROVE  Total(u, {x}) = u[x]
<1> DEFINE f == [k \in 1..u[x] |-> <<x, k>>]
<1>1. f \in Bijection(1..u[x], Tokens(u, {x}))
  <2>1. \A z : z \in Tokens(u, {x}) <=> \E k \in 1..u[x] : z = <<x, k>>
    BY TokensAre
  <2>2. f \in [1..u[x] -> Tokens(u, {x})]
    BY <2>1
  <2> QED BY <2>1, <2>2, Fun_IsBij
<1>2. ExistsBijection(1..u[x], Tokens(u, {x}))
  BY <1>1 DEF ExistsBijection
<1> QED BY <1>2, FS_CountingElements, TotalIs

LEMMA TotalAdd ==
  ASSUME NEW S, IsFiniteSet(S), NEW x, x \notin S, NEW T, T = S \cup {x},
         NEW u, \A y \in T : u[y] \in Nat
  PROVE  Total(u, T) = Total(u, S) + u[x]
<1>1. IsFiniteSet({x}) /\ S \cap {x} = {}
  BY FS_Singleton
<1>2. Total(u, S \cup {x}) = Total(u, S) + Total(u, {x})
  BY <1>1, TotalUnion
<1> QED BY <1>2, TotalOne

\* A row worth the sum of two others.
LEMMA TotalSum ==
  ASSUME NEW S, IsFiniteSet(S), NEW u, NEW v, NEW w,
         \A x \in S : u[x] \in Nat /\ v[x] \in Nat /\ w[x] = u[x] + v[x]
  PROVE  Total(w, S) = Total(u, S) + Total(v, S)
<1> DEFINE A == Tokens(u, S)
           B == Tokens(v, S)
           f == [z \in B |-> <<z[1], u[z[1]] + z[2]>>]
           C == {f[z] : z \in B}
<1>1. IsFiniteSet(A) /\ IsFiniteSet(B)
  BY TokensFinite
<1>2. \A z \in B : z = <<z[1], z[2]>> /\ z[1] \in S /\ z[2] \in 1..v[z[1]]
  BY TokensAre
<1>3. \A y, z \in B : f[y] = f[z] => y = z
  <2> SUFFICES ASSUME NEW y \in B, NEW z \in B, f[y] = f[z] PROVE y = z
    OBVIOUS
  <2>1. y[1] = z[1] /\ u[y[1]] + y[2] = u[z[1]] + z[2]
    OBVIOUS
  <2>2. y[2] = z[2]
    BY <1>2, <2>1
  <2> QED BY <1>2, <2>1, <2>2
<1>4. f \in Bijection(B, C)
  <2>1. f \in [B -> C]
    OBVIOUS
  <2>2. \A z \in C : \E y \in B : f[y] = z
    OBVIOUS
  <2> QED BY <1>3, <2>1, <2>2, Fun_IsBij
<1>5. IsFiniteSet(C) /\ Cardinality(C) = Cardinality(B)
  <2>1. ExistsBijection(B, C)
    BY <1>4 DEF ExistsBijection
  <2> QED BY <1>1, <2>1, FS_Bijection
<1>6. A \cap C = {}
  <2> SUFFICES ASSUME NEW y \in A, NEW z \in B, y = f[z] PROVE FALSE
    OBVIOUS
  <2>1. PICK x \in S : \E k \in 1..u[x] : y = <<x, k>>
    BY TokensAre
  <2>2. y[1] = x /\ y[2] \in 1..u[x]
    BY <2>1
  <2>3. y[1] = z[1] /\ y[2] = u[z[1]] + z[2]
    OBVIOUS
  <2> QED BY <1>2, <2>2, <2>3
<1>7. Tokens(w, S) = A \cup C
  <2>1. ASSUME NEW x \in S, NEW k \in 1..w[x] PROVE <<x, k>> \in A \cup C
    <3>1. CASE k \in 1..u[x]
      BY <3>1, TokensAre
    <3>2. CASE k \notin 1..u[x]
      <4>1. k - u[x] \in 1..v[x]
        BY <3>2
      <4>2. <<x, k - u[x]>> \in B
        BY <4>1, TokensAre
      <4>3. f[<<x, k - u[x]>>] = <<x, k>>
        BY <4>2
      <4> QED BY <4>2, <4>3
    <3> QED BY <3>1, <3>2
  <2>2. ASSUME NEW y \in A PROVE y \in Tokens(w, S)
    <3>1. PICK x \in S : \E k \in 1..u[x] : y = <<x, k>>
      BY TokensAre
    <3>2. \A k \in 1..u[x] : k \in 1..w[x]
      OBVIOUS
    <3> QED BY <3>1, <3>2, TokensAre
  <2>3. ASSUME NEW z \in B PROVE f[z] \in Tokens(w, S)
    <3>1. u[z[1]] + z[2] \in 1..w[z[1]] /\ z[1] \in S /\ f[z] = <<z[1], u[z[1]] + z[2]>>
      BY <1>2
    <3> QED BY <3>1, TokensAre
  <2>4. Tokens(w, S) \subseteq A \cup C
    BY <2>1, TokensAre
  <2> QED BY <2>2, <2>3, <2>4
<1> HIDE DEF A, B, C
<1>8. Cardinality(A) \in Nat /\ Cardinality(B) \in Nat
  BY <1>1, FS_CardinalityType
<1>9. Cardinality(A \cup C) = Cardinality(A) + Cardinality(C) - Cardinality(A \cap C)
  BY <1>1, <1>5, FS_Union
<1>10. Cardinality(A \cap C) = 0
  BY <1>6, FS_EmptySet
<1>11. /\ Total(w, S) = Cardinality(A \cup C)
       /\ Total(u, S) = Cardinality(A)
       /\ Total(v, S) = Cardinality(B)
  BY <1>7, TotalIs DEF A, B
<1> QED BY <1>5, <1>8, <1>9, <1>10, <1>11

\* The same rows under other names.
LEMMA TotalRenamed ==
  ASSUME NEW S, IsFiniteSet(S), NEW T, NEW f \in Bijection(S, T), NEW u, NEW v,
         \A x \in S : u[x] \in Nat /\ v[f[x]] = u[x]
  PROVE  Total(v, T) = Total(u, S)
<1> DEFINE A == Tokens(u, S)
           B == Tokens(v, T)
           g == [z \in A |-> <<f[z[1]], z[2]>>]
<1>1. \A z \in A : z = <<z[1], z[2]>> /\ z[1] \in S /\ z[2] \in 1..u[z[1]]
  BY TokensAre
<1>2. f \in [S -> T] /\ (\A x, y \in S : f[x] = f[y] => x = y) /\ \A y \in T : \E x \in S : f[x] = y
  BY DEF Bijection, Injection, Surjection, IsInjective
<1>3. \A z \in A : g[z] \in B
  <2> SUFFICES ASSUME NEW z \in A PROVE <<f[z[1]], z[2]>> \in B
    OBVIOUS
  <2>1. f[z[1]] \in T /\ z[2] \in 1..v[f[z[1]]]
    BY <1>1, <1>2
  <2> QED BY <2>1, TokensAre
<1>4. \A y, z \in A : g[y] = g[z] => y = z
  <2> SUFFICES ASSUME NEW y \in A, NEW z \in A, g[y] = g[z] PROVE y = z
    OBVIOUS
  <2>1. f[y[1]] = f[z[1]] /\ y[2] = z[2]
    OBVIOUS
  <2> QED BY <1>1, <1>2, <2>1
<1>5. \A y \in B : \E z \in A : g[z] = y
  <2> SUFFICES ASSUME NEW y \in B PROVE \E z \in A : g[z] = y
    OBVIOUS
  <2>1. PICK t \in T : \E k \in 1..v[t] : y = <<t, k>>
    BY TokensAre
  <2>2. PICK k \in 1..v[t] : y = <<t, k>>
    BY <2>1
  <2>3. PICK x \in S : f[x] = t
    BY <1>2
  <2>4. <<x, k>> \in A
    BY <2>3, TokensAre
  <2>5. g[<<x, k>>] = y
    BY <2>2, <2>3, <2>4
  <2> QED BY <2>4, <2>5
<1>6. g \in Bijection(A, B)
  <2>1. g \in [A -> B]
    BY <1>3
  <2> HIDE DEF A, B, g
  <2> QED BY <1>4, <1>5, <2>1, Fun_IsBij
<1>7. IsFiniteSet(A) /\ ExistsBijection(A, B)
  BY <1>6, TokensFinite DEF ExistsBijection
<1> QED BY <1>7, FS_Bijection, TotalIs

(***************************************************************************)
(* Units of entries, and what an append adds to them.                      *)
(***************************************************************************)
LEMMA UnitsTotal ==
  ASSUME NEW F, NEW E \in SUBSET F
  PROVE  Units(E) = Total([e \in F |-> e.units], E)
BY TotalSame DEF Units

LEMMA UnitsNat ==
  ASSUME NEW E \in SUBSET EntryRow, IsFiniteSet(E)
  PROVE  Units(E) \in Nat
BY TotalNat DEF Units, EntryRow

LEMMA UnitsGrow ==
  ASSUME NEW F \in SUBSET EntryRow, IsFiniteSet(F), NEW E \in SUBSET F
  PROVE  Units(E) <= Units(F)
<1> DEFINE u == [e \in F |-> e.units]
<1>1. \A e \in F : u[e] \in Nat
  BY DEF EntryRow
<1>2. Units(E) = Total(u, E) /\ Units(F) = Total(u, F)
  BY UnitsTotal
<1> HIDE DEF u
<1> QED BY <1>1, <1>2, TotalGrows

LEMMA UnitsAdd ==
  ASSUME NEW E \in SUBSET EntryRow, IsFiniteSet(E), NEW e \in EntryRow, e \notin E
  PROVE  Units(E \cup {e}) = Units(E) + e.units
<1> DEFINE F == E \cup {e}
           u == [x \in F |-> x.units]
<1>1. \A x \in F : u[x] \in Nat
  BY DEF EntryRow
<1>2. Units(E) = Total(u, E) /\ Units(F) = Total(u, F) /\ u[e] = e.units
  BY UnitsTotal
<1>3. F = E \cup {e}
  OBVIOUS
<1> HIDE DEF u, F
<1>4. Total(u, F) = Total(u, E) + u[e]
  BY <1>1, <1>3, TotalAdd
<1> QED BY <1>2, <1>4 DEF F

\* At most one more row, of at most n units.
LEMMA UnitsGain ==
  ASSUME NEW A \in SUBSET EntryRow, IsFiniteSet(A), NEW B \in SUBSET EntryRow, NEW n \in Nat,
         \A a, b \in B : a = b, \A b \in B : b.units <= n
  PROVE  /\ Units(A) \in Nat /\ Units(A \cup B) \in Nat
         /\ Units(A) <= Units(A \cup B) /\ Units(A \cup B) <= Units(A) + n
<1>1. Units(A) \in Nat
  BY UnitsNat
<1>2. CASE B \subseteq A
  <2>1. Units(A \cup B) = Units(A)
    <3>1. A \cup B = A
      BY <1>2
    <3> QED BY <3>1
  <2> QED BY <1>1, <2>1
<1>3. ASSUME NEW b \in B, b \notin A
      PROVE  /\ Units(A \cup B) \in Nat
             /\ Units(A) <= Units(A \cup B) /\ Units(A \cup B) <= Units(A) + n
  <2>1. A \cup B = A \cup {b}
    BY <1>3
  <2>2. Units(A \cup B) = Units(A) + b.units
    BY <1>3, <2>1, UnitsAdd
  <2>3. b.units \in Nat /\ b.units <= n
    BY DEF EntryRow
  <2> QED BY <1>1, <2>2, <2>3
<1> QED BY <1>1, <1>2, <1>3

LEMMA EntriesFinite ==
  ASSUME LedgerInv
  PROVE  /\ \A E \in SUBSET entries : E \in SUBSET EntryRow /\ IsFiniteSet(E) /\ Units(E) \in Nat
         /\ \A l, types : EntriesOn(l, types) \in SUBSET entries
<1>1. \A E \in SUBSET entries : E \in SUBSET EntryRow /\ IsFiniteSet(E)
  BY FS_Subset DEF LedgerInv, TypeOK
<1> QED BY <1>1, UnitsNat DEF EntriesOn

\* An append of at most one row for the lot, of at most n units.
LEMMA AppendGain ==
  ASSUME LedgerInv, NEW E \in SUBSET EntryRow, AppendNegativeEntries(E), NEW l, NEW types,
         NEW n \in Nat, \A d, e \in E : d.lot = l /\ e.lot = l => d = e,
         \A e \in E : e.lot = l => e.units <= n
  PROVE  /\ Units(EntriesOn(l, types)) \in Nat /\ Units(EntriesOn(l, types))' \in Nat
         /\ Units(EntriesOn(l, types)) <= Units(EntriesOn(l, types))'
         /\ Units(EntriesOn(l, types))' <= Units(EntriesOn(l, types)) + n
<1> DEFINE A == EntriesOn(l, types)
           B == {e \in E : e.key \notin EntryKeys /\ e.lot = l /\ e.type \in types}
<1>1. EntriesOn(l, types)' = A \cup B
  BY DEF AppendNegativeEntries, EntriesOn
<1>2. A \in SUBSET EntryRow /\ IsFiniteSet(A)
  BY EntriesFinite
<1>3. B \in SUBSET EntryRow /\ (\A a, b \in B : a = b) /\ \A b \in B : b.units <= n
  OBVIOUS
<1>4. Units(EntriesOn(l, types))' = Units(A \cup B)
  BY <1>1 DEF Units
<1> HIDE DEF B
<1> QED BY <1>2, <1>3, <1>4, UnitsGain

LEMMA AppendElsewhere ==
  ASSUME LedgerInv, NEW E, AppendNegativeEntries(E), NEW l, NEW types, \A e \in E : e.lot # l
  PROVE  Units(EntriesOn(l, types))' = Units(EntriesOn(l, types))
<1>1. EntriesOn(l, types)' = EntriesOn(l, types)
  BY DEF AppendNegativeEntries, EntriesOn
<1> QED BY <1>1 DEF Units

(***************************************************************************)
(* Segments under hold.                                                    *)
(***************************************************************************)
Segments(l) == [r \in Reservation |-> held[r][l].segments]

HeldIsTotal ==
  /\ IsFiniteSet(WithStatus({"held"})) /\ WithStatus({"held"}) \subseteq Reservation
  /\ \A l \in Lot :
       /\ Held(l) = Total(Segments(l), WithStatus({"held"})) /\ Held(l) \in Nat
       /\ \A r \in Reservation : Segments(l)[r] = held[r][l].segments /\ Segments(l)[r] \in Nat

LEMMA HeldTotal == LedgerInv => HeldIsTotal
<1> SUFFICES ASSUME LedgerInv PROVE HeldIsTotal
  OBVIOUS
<1>1. IsFiniteSet(WithStatus({"held"})) /\ WithStatus({"held"}) \subseteq Reservation
  BY FiniteRows DEF LedgerInv, WithStatus
<1>2. ASSUME NEW l \in Lot
      PROVE  /\ Held(l) = Total(Segments(l), WithStatus({"held"})) /\ Held(l) \in Nat
             /\ \A r \in Reservation :
                  Segments(l)[r] = held[r][l].segments /\ Segments(l)[r] \in Nat
  <2>1. \A r \in Reservation : Segments(l)[r] = held[r][l].segments /\ Segments(l)[r] \in Nat
    BY DEF Segments, LedgerInv, TypeOK, HeldRow
  <2>2. Held(l) = Total(Segments(l), WithStatus({"held"}))
    BY DEF Held, Segments
  <2> QED BY <1>1, <2>1, <2>2, TotalNat
<1> QED BY <1>1, <1>2 DEF HeldIsTotal

LEMMA HeldTotalNext == LedgerInv' => HeldIsTotal'
BY HeldTotal, PTL

\* Nobody is held or let go, and the segments stay.
LEMMA HeldStays ==
  ASSUME LedgerInv, LedgerInv', NEW l \in Lot,
         \A r \in Reservation :
           /\ reservation'[r].status = "held" <=> reservation[r].status = "held"
           /\ held'[r][l].segments = held[r][l].segments
  PROVE  Held(l)' = Held(l)
<1>1. HeldIsTotal /\ HeldIsTotal'
  BY HeldTotal, HeldTotalNext
<1>2. WithStatus({"held"})' = WithStatus({"held"})
  BY DEF WithStatus
<1>3. \A r \in WithStatus({"held"}) : Segments(l)'[r] = Segments(l)[r]
  BY <1>1 DEF HeldIsTotal
<1> QED BY <1>1, <1>2, <1>3, TotalSame DEF HeldIsTotal

\* A hold ends.
LEMMA HeldEnds ==
  ASSUME LedgerInv, LedgerInv', NEW r \in Reservation, reservation[r].status = "held",
         reservation'[r].status # "held", UNCHANGED held,
         \A x \in Reservation \ {r} : reservation'[x].status = reservation[x].status,
         NEW l \in Lot
  PROVE  Held(l) = Held(l)' + held[r][l].segments
<1> DEFINE before == WithStatus({"held"})
           after == WithStatus({"held"})'
<1>1. HeldIsTotal /\ HeldIsTotal'
  BY HeldTotal, HeldTotalNext
<1>2. before = after \cup {r} /\ r \notin after
  BY DEF WithStatus
<1>3. Segments(l)' = Segments(l)
  BY DEF Segments
<1>4. /\ Held(l) = Total(Segments(l), before) /\ Held(l)' = Total(Segments(l), after)
      /\ IsFiniteSet(after) /\ Segments(l)[r] = held[r][l].segments
      /\ \A x \in before : Segments(l)[x] \in Nat
  BY <1>1, <1>3 DEF HeldIsTotal
<1> HIDE DEF before, after
<1> QED BY <1>2, <1>4, TotalAdd

\* A hold begins.
LEMMA HeldBegins ==
  ASSUME LedgerInv, LedgerInv', NEW r \in Reservation, reservation[r].status # "held",
         reservation'[r].status = "held",
         \A x \in Reservation \ {r} :
           reservation'[x].status = reservation[x].status /\ held'[x] = held[x],
         NEW l \in Lot
  PROVE  Held(l)' = Held(l) + held'[r][l].segments
<1> DEFINE before == WithStatus({"held"})
           after == WithStatus({"held"})'
           old == Segments(l)
           new == Segments(l)'
<1>1. HeldIsTotal /\ HeldIsTotal'
  BY HeldTotal, HeldTotalNext
<1>2. after = before \cup {r} /\ r \notin before /\ before \subseteq Reservation
  BY DEF WithStatus
<1>3. /\ Held(l) = Total(old, before) /\ Held(l)' = Total(new, after)
      /\ IsFiniteSet(before) /\ new[r] = held'[r][l].segments
      /\ \A x \in after : new[x] \in Nat
  BY <1>1 DEF HeldIsTotal
<1>4. \A x \in before : old[x] = new[x]
  BY <1>1, <1>2 DEF HeldIsTotal
<1> HIDE DEF before, after, old, new
<1>5. Total(new, after) = Total(new, before) + new[r]
  BY <1>2, <1>3, TotalAdd
<1>6. Total(old, before) = Total(new, before)
  BY <1>4, TotalSame
<1> QED BY <1>3, <1>5, <1>6

(***************************************************************************)
(* The cache.  A transaction recomputes it, or leaves alone every row the  *)
(* balance is made of.                                                     *)
(***************************************************************************)
LEMMA CacheRecomputed ==
  ASSUME NEW t, RecomputeCachedBalance(t)
  PROVE  CacheIsLedger'
<1>1. account' = Balance(t)'
  BY DEF RecomputeCachedBalance
<1>2. account'.at = t
  BY <1>1 DEF Balance
<1>3. Balance(account.at)' = Balance(t)'
  BY <1>2 DEF Balance, Available, OpenLots, Expired
<1> QED BY <1>1, <1>3 DEF CacheIsLedger

LEMMA CacheKept ==
  ASSUME CacheIsLedger, UNCHANGED <<lots, entries, held, account>>,
         \A r \in Reservation : /\ reservation'[r].status = reservation[r].status
                                /\ reservation'[r].segments = reservation[r].segments
  PROVE  CacheIsLedger'
<1>1. \A S : WithStatus(S)' = WithStatus(S)
  BY DEF WithStatus
<1>2. [r \in Reservation |-> reservation[r].segments]' = [r \in Reservation |-> reservation[r].segments]
  OBVIOUS
<1>3. Reserved' = Reserved
  BY <1>1, <1>2 DEF Reserved
<1>4. \A l : Held(l)' = Held(l)
  BY <1>1 DEF Held
<1>5. \A l : Consumed(l)' = Consumed(l)
  BY DEF Consumed, Units, EntriesOn
<1>6. \A l : Free(l)' = Free(l)
  BY <1>4, <1>5 DEF Free, LotRemaining
<1>7. \A t : OpenLots(t)' = OpenLots(t)
  BY <1>6 DEF OpenLots, LotIds, Expired
<1>8. FreeUnits' = FreeUnits
  BY <1>6 DEF FreeUnits, LotIds
<1>9. Overhang' = Overhang
  BY <1>5 DEF Overhang, LotIds
<1>10. \A t : Available(t)' = Available(t)
  BY <1>7, <1>8, <1>9 DEF Available
<1>11. \A t : Balance(t)' = Balance(t)
  BY <1>3, <1>10 DEF Balance
<1>12. account' = account
  OBVIOUS
<1> QED BY <1>11, <1>12 DEF CacheIsLedger

LEMMA CacheInit == Init => CacheIsLedger
<1> SUFFICES ASSUME Init PROVE CacheIsLedger
  OBVIOUS
<1>1. LotIds = {}
  BY DEF Init, LotIds
<1>2. OpenLots(account.at) = {} /\ WithStatus({"held"}) = {}
  BY <1>1 DEF Init, OpenLots, WithStatus, NoReservation
<1>3. Available(account.at) = 0 - 0
  BY <1>1, <1>2, TotalEmpty DEF Available, Overhang
<1>4. Reserved = 0
  BY <1>2, TotalEmpty DEF Reserved
<1> QED BY <1>3, <1>4 DEF Init, CacheIsLedger, Balance

LEMMA CacheStep == LedgerInv /\ CacheIsLedger /\ [Next]_vars => CacheIsLedger'
<1> SUFFICES ASSUME LedgerInv, CacheIsLedger, [Next]_vars PROVE CacheIsLedger'
  OBVIOUS
<1>1. ASSUME NEW t \in Clock, NEW r \in Reservation, NEW actual \in 0..MaxSegments,
             RefundOverpredictedSegments(r, actual, t)
      PROVE  CacheIsLedger'
  <2>1. CASE reservation[r].refunded
    <3>1. /\ reservation' = [reservation EXCEPT ![r].providerSegments = actual]
          /\ UNCHANGED <<lots, entries, held, account>>
      BY <1>1, <2>1 DEF RefundOverpredictedSegments
    <3>2. \A x \in Reservation : /\ reservation'[x].status = reservation[x].status
                                 /\ reservation'[x].segments = reservation[x].segments
      BY <3>1 DEF LedgerInv, TypeOK, ReservationRow
    <3> QED BY <3>1, <3>2, CacheKept
  <2>2. CASE ~reservation[r].refunded
    BY <1>1, <2>2, CacheRecomputed DEF RefundOverpredictedSegments
  <2> QED BY <2>1, <2>2
<1>2. CASE Message
  BY <1>1, <1>2, CacheRecomputed
  DEF Message, ReserveSmsCredits, SettleReservationOnAccept, ReleaseReservation,
      ReapExpiredReservation, RefundTerminalFailure
<1>3. ASSUME NEW p \in Purchase,
             TopupSessionExpired(p) \/ StripeDisputes(p) \/ \E cents \in 1..TopupCents : StripeRefunds(p, cents)
      PROVE  CacheIsLedger'
  BY <1>3, CacheKept DEF TopupSessionExpired, StripeDisputes, StripeRefunds
<1>4. CASE Topup
  BY <1>3, <1>4, CacheRecomputed
  DEF Topup, TopupSessionCompleted, ReverseTopupRefund, ReverseTopupDispute, AppendReversal
<1>5. CASE Bookkeeping
  BY <1>5, CacheRecomputed, CacheKept DEF Bookkeeping, GrantLot, ExpireLapsedLots, Tick
<1>6. CASE UNCHANGED vars
  BY <1>6, CacheKept DEF vars
<1> QED BY <1>2, <1>4, <1>5, <1>6 DEF Next

\* The cached balance is the ledger's at the instant it was computed.
THEOREM CacheTellsLedger == Spec => []CacheIsLedger
BY LedgerInvariant, CacheInit, CacheStep, PTL DEF Spec

(***************************************************************************)
(* A reserve takes from each lot what the plan says, and the plan takes    *)
(* only free units of open lots.                                           *)
(***************************************************************************)
LEMMA PlanWithinFree ==
  ASSUME LedgerInv, NEW n \in Nat, NEW t
  PROVE  /\ OpenLots(t) \subseteq LotIds
         /\ \A l \in OpenLots(t) : Free(l) \in Nat /\ SpendPlan(n, t)[l] <= Free(l)
         /\ \A l \in Lot \ OpenLots(t) : SpendPlan(n, t)[l] = 0
         /\ \A l \in Lot : SpendPlan(n, t)[l] \in Nat
<1>1. OpenLots(t) \subseteq LotIds
  BY DEF OpenLots
<1>2. ASSUME NEW l \in OpenLots(t) PROVE Free(l) \in Nat /\ SpendPlan(n, t)[l] <= Free(l)
  <2>1. Free(l) \in Nat /\ l \in Lot
    BY LotArithmetic, FiniteRows DEF OpenLots, LedgerInv
  <2>2. PICK m : SpendPlan(n, t)[l] = Lesser(Free(l), m)
    BY <2>1 DEF SpendPlan
  <2>3. SpendPlan(n, t)[l] \in Nat
    BY <2>1, PlanNat
  <2> QED BY <2>1, <2>2, <2>3 DEF Lesser
<1>3. \A l \in Lot \ OpenLots(t) : SpendPlan(n, t)[l] = 0
  BY DEF SpendPlan
<1> QED BY <1>1, <1>2, <1>3, PlanNat

LEMMA ReserveTakesPlan ==
  ASSUME LedgerInv, LedgerInv', NEW r \in Reservation, NEW k \in DedupeKey,
         NEW n \in 1..MaxSegments, NEW t \in Clock, ReserveSmsCredits(r, k, n, t)
  PROVE  /\ LotIds' = LotIds
         /\ \A l \in Lot : /\ held'[r][l].segments = SpendPlan(n, t)[l]
                           /\ Held(l)' = Held(l) + SpendPlan(n, t)[l]
         /\ \A l : Consumed(l)' = Consumed(l) /\ LotRemaining(l)' = LotRemaining(l)
<1> DEFINE plan == SpendPlan(n, t)
<1>1. /\ held' = [held EXCEPT ![r] = [l \in Lot |-> [NoRow EXCEPT !.segments = plan[l]]]]
      /\ reservation[r].status = "none"
      /\ UNCHANGED <<lots, entries>>
  BY DEF ReserveSmsCredits
<1>2. /\ reservation'[r].status = "held"
      /\ \A x \in Reservation \ {r} : reservation'[x] = reservation[x]
  BY DEF ReserveSmsCredits, LedgerInv, TypeOK
<1> HIDE DEF plan
<1>3. /\ \A x \in Reservation \ {r} : held'[x] = held[x]
      /\ \A l \in Lot : held'[r][l].segments = plan[l]
  BY <1>1 DEF LedgerInv, TypeOK, NoRow
<1>4. \A l \in Lot : Held(l)' = Held(l) + plan[l]
  BY <1>1, <1>2, <1>3, HeldBegins
<1>5. \A l : Consumed(l)' = Consumed(l) /\ LotRemaining(l)' = LotRemaining(l)
  BY <1>1 DEF Consumed, LotRemaining, Units, EntriesOn
<1> QED BY <1>1, <1>3, <1>4, <1>5 DEF plan, LotIds

LEMMA OverhangNat == ASSUME LedgerInv PROVE Overhang \in Nat
<1> DEFINE u == [l \in LotIds |-> Monus(Consumed(l), lots[l].amount)]
<1>1. \A l \in LotIds : u[l] \in Nat
  BY LotArithmetic DEF Monus, LotRow
<1>2. IsFiniteSet(LotIds)
  BY FiniteRows DEF LedgerInv
<1>3. Overhang = Total(u, LotIds)
  BY DEF Overhang
<1> HIDE DEF u
<1> QED BY <1>1, <1>2, <1>3, TotalNat

LEMMA ReserveCoversOverhang ==
  ASSUME LedgerInv, LedgerInv', NEW r \in Reservation, NEW k \in DedupeKey,
         NEW n \in 1..MaxSegments, NEW t \in Clock, ReserveSmsCredits(r, k, n, t)
  PROVE  (Total(FreeUnits, OpenLots(account.at)) >= Overhang)'
<1> DEFINE plan == SpendPlan(n, t)
           old == FreeUnits
           new == FreeUnits'
           O == OpenLots(t)
           P == OpenLots(t)'
<1>1. n \in Nat
  BY NumbersAssumption
<1>2. /\ O \subseteq LotIds /\ LotIds \subseteq Lot /\ IsFiniteSet(O) /\ IsFiniteSet(Lot)
      /\ \A l \in O : Free(l) \in Nat /\ plan[l] \in Nat /\ plan[l] <= Free(l)
      /\ \A l \in Lot \ O : plan[l] = 0
  <2>1. IsFiniteSet(Lot)
    BY NumbersAssumption, FS_Interval DEF Lot
  <2> QED BY <1>1, <2>1, PlanWithinFree, FiniteRows DEF LedgerInv
<1>3. LotIds' = LotIds /\ \A l \in LotIds : Free(l) \in Int /\ Free(l)' = Free(l) - plan[l]
  BY <1>2, ReserveTakesPlan, LotArithmetic, HeldTotal DEF Free, HeldIsTotal
<1>4. P = {l \in O : Free(l)' > 0}
  <2>1. lots' = lots
    BY DEF ReserveSmsCredits
  <2>2. \A l \in LotIds : Free(l)' > 0 => Free(l) > 0
    <3> SUFFICES ASSUME NEW l \in LotIds, Free(l)' > 0 PROVE Free(l) > 0
      OBVIOUS
    <3>1. plan[l] \in Nat
      BY <1>1, <1>2, PlanWithinFree
    <3> QED BY <1>3, <3>1
  <2> QED BY <1>3, <2>1, <2>2 DEF OpenLots, Expired
<1>5. \A l \in O : old[l] = Free(l) /\ new[l] = Free(l) - plan[l]
  BY <1>2, <1>3 DEF FreeUnits
<1>6. Total(plan, Lot) = n /\ Available(t) >= n
  BY DEF ReserveSmsCredits
<1>7. Overhang' = Overhang
  <2>1. lots' = lots
    BY DEF ReserveSmsCredits
  <2> QED BY <2>1, ReserveTakesPlan DEF Overhang, LotIds
<1>8. Available(t) = Total(old, O) - Overhang /\ Overhang \in Nat
  BY OverhangNat DEF Available
<1>9. account'.at = t
  BY DEF ReserveSmsCredits, RecomputeCachedBalance, Balance
<1>10. \A l \in O \ P : new[l] = 0
  BY <1>2, <1>3, <1>4, <1>5
<1>11. P \subseteq O
  BY <1>4
<1>12. \A l \in O : old[l] \in Nat /\ new[l] \in Nat /\ plan[l] \in Nat /\ old[l] = new[l] + plan[l]
  BY <1>2, <1>5
<1>13. Total(FreeUnits, OpenLots(account.at))' = Total(new, P)
  BY <1>9 DEF OpenLots, Expired
<1> HIDE DEF plan, old, new, O, P
<1>14. Total(plan, O) = n
  <2>1. O \subseteq Lot
    BY <1>2
  <2> QED BY <1>2, <1>6, <2>1, TotalWithout
<1>15. Total(new, P) = Total(new, O)
  BY <1>10, <1>11, TotalWithout
<1>16. Total(old, O) = Total(new, O) + Total(plan, O)
  BY <1>2, <1>12, TotalSum
<1>17. Total(new, O) \in Nat
  BY <1>2, <1>12, TotalNat
<1>18. Total(new, P) >= Overhang
  BY <1>1, <1>6, <1>8, <1>14, <1>15, <1>16, <1>17
<1> QED BY <1>7, <1>13, <1>18

\* Only a reserve creates a hold.

LEMMA HoldsByReserve ==
  ASSUME LedgerInv, [Next]_vars, NEW r \in Reservation,
         reservation[r].status = "none", reservation'[r].status = "held"
  PROVE  \E t \in Clock, x \in Reservation, k \in DedupeKey, n \in 1..MaxSegments :
           ReserveSmsCredits(x, k, n, t)
<1>1. reservation' # reservation
  OBVIOUS
<1>2. ASSUME NEW t \in Clock, NEW x \in Reservation,
             \/ SettleReservationOnAccept(x, t)
             \/ ReleaseReservation(x, t)
             \/ ReapExpiredReservation(x, t)
             \/ RefundTerminalFailure(x, t)
             \/ \E actual \in 0..MaxSegments : RefundOverpredictedSegments(x, actual, t)
      PROVE  FALSE
  BY <1>2 DEF SettleReservationOnAccept, ReleaseReservation, ReapExpiredReservation,
              RefundTerminalFailure, RefundOverpredictedSegments, LedgerInv, TypeOK, ReservationRow
<1>3. CASE Message
  BY <1>2, <1>3 DEF Message
<1>4. CASE Topup \/ Bookkeeping
  BY <1>1, <1>4 DEF Topup, Bookkeeping, TopupSessionCompleted, TopupSessionExpired, StripeRefunds,
     StripeDisputes, ReverseTopupRefund, ReverseTopupDispute, AppendReversal, GrantLot,
     ExpireLapsedLots, Tick
<1>5. CASE UNCHANGED vars
  BY <1>1, <1>5 DEF vars
<1> QED BY <1>3, <1>4, <1>5 DEF Next

\* No send is authorized below zero: the hold it takes leaves enough free value
\* on the open lots to cover what disputes drove below zero on the others.
THEOREM AuthorizedAboveZero == Spec => NeverAuthorizedBelowZero
<1>1. LedgerInv /\ LedgerInv' /\ [Next]_vars =>
        [\A r \in Reservation :
           reservation[r].status = "none" /\ reservation'[r].status = "held"
             => (Total(FreeUnits, OpenLots(account.at)) >= Overhang)']_vars
  BY HoldsByReserve, ReserveCoversOverhang
<1> QED BY <1>1, LedgerInvariant, PTL DEF Spec, NeverAuthorizedBelowZero

(***************************************************************************)
(* Holds stay backed.  The strengthening says which lots a reversal can    *)
(* touch: entries stand on lots, and a purchase names the lot that carries *)
(* its key, which only its own fulfilment creates.                         *)
(***************************************************************************)
EntriesOnLots == \A e \in entries : e.lot \in LotIds

TopupLots ==
  \A p \in Purchase :
    /\ purchase[p].status = "checkout_created" => purchase[p].lot = 0
    /\ \A l \in LotIds : lots[l].key = <<"topup-grant", p, 0>> <=> purchase[p].lot = l

PlacesInv == EntriesOnLots /\ TopupLots

\* The lots a step adds, and the keys it may give them.
Added == (Len(lots) + 1)..Len(lots')

LEMMA AddedLots ==
  ASSUME LedgerInv, Extended(Len(lots), lots, lots')
  PROVE  /\ LotIds' = LotIds \cup Added /\ LotIds \cap Added = {}
         /\ \A i \in LotIds : lots'[i] = lots[i]
         /\ LotIds' \subseteq Lot /\ IsFiniteSet(LotIds) /\ IsFiniteSet(Added)
         /\ \A i \in LotIds' : lots'[i] \in LotRow
<1>1. Len(lots) \in Nat /\ Len(lots') \in Nat /\ Len(lots) <= Len(lots')
  BY ExtendKeeps, LenProperties DEF LedgerInv, TypeOK, Extended
<1>2. LotIds = 1..Len(lots) /\ LotIds' = 1..Len(lots')
  BY ExtendKeeps, LenProperties DEF LedgerInv, TypeOK, LotIds
<1>3. lots' \in Seq(LotRow) /\ Len(lots') <= MaxLots
  BY DEF Extended
<1>4. \A i \in LotIds' : lots'[i] \in LotRow
  BY <1>2, <1>3, ElementOfSeq
<1>5. IsFiniteSet(LotIds) /\ IsFiniteSet(Added)
  BY <1>1, <1>2, FS_Interval DEF Added
<1>6. LotIds' \subseteq Lot
  BY <1>1, <1>2, <1>3, NumbersAssumption DEF Lot
<1> QED BY <1>1, <1>2, <1>4, <1>5, <1>6 DEF Extended, Added

LEMMA ExtendedBySelf == LedgerInv /\ lots' = lots => Extended(Len(lots), lots, lots') /\ Added = {}
<1> SUFFICES ASSUME LedgerInv, lots' = lots PROVE Extended(Len(lots), lots, lots') /\ Added = {}
  OBVIOUS
<1>1. Len(lots) \in Nat
  BY LenProperties DEF LedgerInv, TypeOK
<1> QED BY <1>1 DEF LedgerInv, TypeOK, Extended, Added

\* A refund arm writes lots under its own keys and nothing else of the money.
LEMMA RefundArm ==
  ASSUME LedgerInv, NEW r \in Reservation, NEW t \in Clock,
         \/ RefundTerminalFailure(r, t)
         \/ \E actual \in 0..MaxSegments : RefundOverpredictedSegments(r, actual, t)
  PROVE  /\ UNCHANGED <<now, entries, purchase, stripe>> /\ reservation[r].status = "settled"
         /\ \A x \in Reservation :
              /\ reservation'[x].status = reservation[x].status
              /\ reservation'[x].segments = reservation[x].segments
              /\ \A l \in Lot : held'[x][l].segments = held[x][l].segments
         /\ Extended(Len(lots), lots, lots')
         /\ \A i \in Added : \E name \in AllRefundKinds, l \in Lot : lots'[i].key = <<name, r, l>>
<1> DEFINE Only == \A i \in Added :
                     \E name \in AllRefundKinds, l \in Lot : lots'[i].key = <<name, r, l>>
<1>1. ASSUME NEW kind \in RefundKind, NEW L \in SUBSET LotIds, NEW units,
             \A l \in L : units[l] \in Nat \ {0}, AppendRefunds(kind, r, L, units, t)
      PROVE  Extended(Len(lots), lots, lots') /\ Only
  <2>1. /\ Extended(Len(lots), lots, lots')
        /\ RefundsRows(kind, r, L, units, t, Added)
    BY <1>1, RefundsExtend DEF Added
  <2>2. PICK source \in [Added -> L] :
          \A i \in Added : lots'[i] = RefundLot(kind, r, source[i], units[source[i]], t)
    BY <2>1 DEF RefundsRows
  <2>3. ASSUME NEW i \in Added
        PROVE  \E name \in AllRefundKinds, l \in Lot : lots'[i].key = <<name, r, l>>
    <3>1. source[i] \in Lot
      BY FiniteRows DEF LedgerInv
    <3>2. \E name \in KindsOf(kind) : lots'[i].key = <<name, r, source[i]>>
      BY <2>2, RefundLotShape
    <3> QED BY <3>1, <3>2 DEF KindsOf, AllRefundKinds
  <2> QED BY <2>1, <2>3
<1>2. CASE RefundTerminalFailure(r, t)
  <2> DEFINE unfenced == {l \in RowsOf(r) : ~held[r][l].refundedAt}
             owed == {l \in unfenced : Refundable(r)[l] > 0}
  <2>1. owed \in SUBSET LotIds /\ \A l \in owed : Refundable(r)[l] \in Nat \ {0}
    BY DEF RowsOf, Refundable, LedgerInv, RowsOnLots, TypeOK, HeldRow
  <2>2. /\ AppendRefunds(TerminalKind, r, owed, Refundable(r), t) /\ TerminalKind \in RefundKind
        /\ held' = [held EXCEPT ![r] = [l \in Lot |->
                      [held[r][l] EXCEPT !.refundedAt = @ \/ l \in unfenced]]]
        /\ reservation' = [reservation EXCEPT ![r].refunded = @ \/ owed # {}]
        /\ reservation[r].status = "settled"
        /\ UNCHANGED <<now, entries, purchase, stripe>>
    BY <1>2 DEF RefundTerminalFailure, RefundKind
  <2> HIDE DEF unfenced, owed
  <2>3. /\ \A x \in Reservation, l \in Lot : held'[x][l].segments = held[x][l].segments
        /\ \A x \in Reservation : /\ reservation'[x].status = reservation[x].status
                                  /\ reservation'[x].segments = reservation[x].segments
    BY <2>2 DEF LedgerInv, TypeOK, HeldRow, ReservationRow
  <2> QED BY <1>1, <2>1, <2>2, <2>3
<1>3. ASSUME NEW actual \in 0..MaxSegments, RefundOverpredictedSegments(r, actual, t)
      PROVE  /\ UNCHANGED <<now, entries, purchase, stripe>> /\ reservation[r].status = "settled"
             /\ \A x \in Reservation :
                  /\ reservation'[x].status = reservation[x].status
                  /\ reservation'[x].segments = reservation[x].segments
                  /\ \A l \in Lot : held'[x][l].segments = held[x][l].segments
             /\ Extended(Len(lots), lots, lots')
             /\ Only
  <2>1. /\ reservation' = [reservation EXCEPT ![r].providerSegments = actual]
        /\ reservation[r].status = "settled"
        /\ UNCHANGED <<now, entries, purchase, stripe>>
    BY <1>3 DEF RefundOverpredictedSegments
  <2>2. \A x \in Reservation : /\ reservation'[x].status = reservation[x].status
                               /\ reservation'[x].segments = reservation[x].segments
    BY <2>1 DEF LedgerInv, TypeOK, ReservationRow
  <2>3. CASE reservation[r].refunded
    <3>1. UNCHANGED <<lots, held>>
      BY <1>3, <2>3 DEF RefundOverpredictedSegments
    <3> QED BY <2>1, <2>2, <3>1, ExtendedBySelf
  <2>4. CASE ~reservation[r].refunded
    <3>1. PICK give \in [RowsOf(r) -> 0..MaxSegments] :
            LET L == {l \in RowsOf(r) : give[l] > 0} IN
              /\ AppendRefunds(OverpredictKind, r, L, give, t)
              /\ held' = [held EXCEPT ![r] = [l \in Lot |->
                   IF l \in L THEN [held[r][l] EXCEPT !.refundedSegments = @ + give[l]]
                   ELSE held[r][l]]]
      BY <1>3, <2>4 DEF RefundOverpredictedSegments
    <3> DEFINE L == {l \in RowsOf(r) : give[l] > 0}
    <3>2. L \in SUBSET LotIds /\ \A l \in L : give[l] \in Nat \ {0}
      BY NumbersAssumption DEF RowsOf, LedgerInv, RowsOnLots
    <3>3. /\ AppendRefunds(OverpredictKind, r, L, give, t) /\ OverpredictKind \in RefundKind
          /\ held' = [held EXCEPT ![r] = [l \in Lot |->
               IF l \in L THEN [held[r][l] EXCEPT !.refundedSegments = @ + give[l]]
               ELSE held[r][l]]]
      BY <3>1 DEF RefundKind
    <3> HIDE DEF L
    <3>4. \A x \in Reservation, l \in Lot : held'[x][l].segments = held[x][l].segments
      BY <3>3 DEF LedgerInv, TypeOK, HeldRow
    <3> QED BY <1>1, <2>1, <2>2, <3>2, <3>3, <3>4
  <2> QED BY <2>3, <2>4
<1> QED BY <1>2, <1>3

LEMMA PlacesInit == Init => PlacesInv
<1> SUFFICES ASSUME Init PROVE PlacesInv
  OBVIOUS
<1>1. LotIds = {} /\ entries = {}
  BY DEF Init, LotIds
<1> QED BY <1>1 DEF Init, PlacesInv, EntriesOnLots, TopupLots

\* Every step but a fulfilment.
LEMMA PlacesAside ==
  ASSUME LedgerInv, PlacesInv, Extended(Len(lots), lots, lots'),
         \A i \in Added : lots'[i].key[1] # "topup-grant",
         \A e \in entries' : e \in entries \/ e.lot \in LotIds,
         \A p \in Purchase : /\ purchase'[p].lot = purchase[p].lot
                             /\ purchase'[p].status = "checkout_created" =>
                                  purchase[p].status = "checkout_created"
  PROVE  PlacesInv'
<1>1. EntriesOnLots'
  BY AddedLots DEF PlacesInv, EntriesOnLots
<1>2. ASSUME NEW p \in Purchase, NEW i \in LotIds'
      PROVE  lots'[i].key = <<"topup-grant", p, 0>> <=> purchase'[p].lot = i
  <2>1. CASE i \in LotIds
    BY <2>1, AddedLots DEF PlacesInv, TopupLots
  <2>2. CASE i \in Added
    <3>1. purchase'[p].lot # i
      <4>1. purchase[p].lot \in Nat /\ purchase[p].lot <= Len(lots) /\ Len(lots) \in Nat
        BY LenProperties, NumbersAssumption DEF LedgerInv, TypeOK, PurchasesOnLots
      <4> QED BY <2>2, <4>1 DEF Added
    <3>2. lots'[i].key # <<"topup-grant", p, 0>>
      BY <2>2
    <3> QED BY <3>1, <3>2
  <2> QED BY <2>1, <2>2, AddedLots
<1>3. TopupLots'
  BY <1>2 DEF PlacesInv, TopupLots
<1> QED BY <1>1, <1>3 DEF PlacesInv

\* What a grant adds.
LEMMA GrantAdds ==
  ASSUME LedgerInv, NEW key \in LotKey, NEW bucket \in Bucket, NEW amount \in Nat \ {0},
         NEW expiresAt \in Instant, AppendLotGrant(key, bucket, amount, expiresAt)
  PROVE  /\ Extended(Len(lots), lots, lots')
         /\ \A i \in Added : lots'[i].key = key
         /\ key \notin LotKeys => Added = {Len(lots')} /\ Len(lots') = Len(lots) + 1
<1>1. Len(lots) \in Nat
  BY LenProperties DEF LedgerInv, TypeOK
<1>2. /\ Extended(Len(lots), lots, lots')
      /\ key \notin LotKeys => Len(lots') = Len(lots) + 1 /\ lots'[Len(lots')].key = key
      /\ key \in LotKeys => lots' = lots
  <2>1. [key |-> key, bucket |-> bucket, amount |-> amount, expiresAt |-> expiresAt].key = key
    OBVIOUS
  <2> QED BY <2>1, GrantExtends
<1>3. key \notin LotKeys => Added = {Len(lots')}
  BY <1>1, <1>2 DEF Added
<1> QED BY <1>1, <1>2, <1>3, ExtendedBySelf

LEMMA GrantLotAdds ==
  ASSUME LedgerInv, NEW g \in Grant, NEW t \in Clock, GrantLot(g, t)
  PROVE  /\ Extended(Len(lots), lots, lots')
         /\ \A i \in Added : lots'[i].key[1] = "grant"
         /\ UNCHANGED <<now, entries, reservation, held, purchase, stripe>>
<1>1. <<"grant", g.name, 0>> \in LotKey /\ g.bucket \in Bucket /\ g.amount \in Nat \ {0} /\ g.expiresAt \in Instant
  BY NumbersAssumption, GrantAssumption DEF LotKey, KeyOwner
<1> QED BY <1>1, GrantAdds DEF GrantLot

\* A fulfilment creates the lot that its purchase then names.
LEMMA FulfilmentAdds ==
  ASSUME LedgerInv, PlacesInv, NEW p \in Purchase, NEW t \in Clock, TopupSessionCompleted(p, t)
  PROVE  /\ Extended(Len(lots), lots, lots') /\ Added = {Len(lots')} /\ Len(lots') = Len(lots) + 1
         /\ lots'[Len(lots')].key = <<"topup-grant", p, 0>>
         /\ UNCHANGED <<now, entries, reservation, held, stripe>>
         /\ purchase' = [purchase EXCEPT ![p] = [status |-> "fulfilled", lot |-> Len(lots')]]
         /\ purchase[p].lot = 0
<1>1. /\ UNCHANGED <<now, entries, reservation, held, stripe>>
      /\ purchase' = [purchase EXCEPT ![p] = [status |-> "fulfilled", lot |-> Len(lots')]]
      /\ purchase[p].status = "checkout_created"
      /\ AppendLotGrant(<<"topup-grant", p, 0>>, "purchased", TopupCredits, NoExpiry)
  BY DEF TopupSessionCompleted
<1>2. purchase[p].lot = 0
  BY <1>1 DEF PlacesInv, TopupLots
<1>3. <<"topup-grant", p, 0>> \notin LotKeys
  <2>1. \A l \in LotIds : l # 0
    BY FiniteRows, NumbersAssumption DEF LedgerInv, Lot
  <2> QED BY <1>2, <2>1 DEF LotKeys, PlacesInv, TopupLots
<1>4. <<"topup-grant", p, 0>> \in LotKey /\ "purchased" \in Bucket /\ NoExpiry \in Instant
  BY NumbersAssumption DEF LotKey, KeyOwner, Bucket, SPEND_ORDER_RANK, NoExpiry, Instant
<1>5. /\ Extended(Len(lots), lots, lots') /\ Added = {Len(lots')} /\ Len(lots') = Len(lots) + 1
      /\ \A i \in Added : lots'[i].key = <<"topup-grant", p, 0>>
  BY <1>1, <1>3, <1>4, NumbersAssumption, GrantAdds
<1> QED BY <1>1, <1>2, <1>5

LEMMA PlacesTopup ==
  ASSUME LedgerInv, PlacesInv, NEW p \in Purchase, NEW t \in Clock, TopupSessionCompleted(p, t)
  PROVE  PlacesInv'
<1>1. Len(lots) \in Nat
  BY LenProperties DEF LedgerInv, TypeOK
<1>2. EntriesOnLots'
  BY FulfilmentAdds, AddedLots DEF PlacesInv, EntriesOnLots
<1>3. /\ purchase'[p].lot = Len(lots') /\ purchase'[p].status = "fulfilled"
      /\ \A q \in Purchase \ {p} : purchase'[q] = purchase[q]
  BY FulfilmentAdds DEF LedgerInv, TypeOK
<1>4. ASSUME NEW q \in Purchase, NEW i \in LotIds'
      PROVE  lots'[i].key = <<"topup-grant", q, 0>> <=> purchase'[q].lot = i
  <2>1. CASE i \in LotIds /\ q # p
    BY <1>3, <2>1, FulfilmentAdds, AddedLots DEF PlacesInv, TopupLots
  <2>2. CASE i \in LotIds /\ q = p
    <3>1. i # Len(lots') /\ i # 0
      BY <1>1, <2>2, FulfilmentAdds, FiniteRows, NumbersAssumption DEF LedgerInv, Lot
    <3>2. lots[i].key # <<"topup-grant", p, 0>>
      BY <2>2, <3>1, FulfilmentAdds DEF PlacesInv, TopupLots
    <3> QED BY <1>3, <2>2, <3>1, <3>2, FulfilmentAdds, AddedLots
  <2>3. CASE i = Len(lots') /\ q = p
    BY <1>3, <2>3, FulfilmentAdds
  <2>4. CASE i = Len(lots') /\ q # p
    <3>1. purchase[q].lot <= Len(lots) /\ purchase[q].lot \in Nat
      BY NumbersAssumption DEF LedgerInv, TypeOK, PurchasesOnLots
    <3> QED BY <1>1, <1>3, <2>4, <3>1, FulfilmentAdds
  <2> QED BY <2>1, <2>2, <2>3, <2>4, FulfilmentAdds, AddedLots
<1>5. TopupLots'
  BY <1>3, <1>4 DEF PlacesInv, TopupLots
<1> QED BY <1>2, <1>5 DEF PlacesInv

\* A reversal appends one row to the lot of its purchase.
Reversal(p, row) ==
  /\ row \in EntryRow /\ row.lot = purchase[p].lot /\ row.lot \in LotIds
  /\ AppendNegativeEntries({row})
  /\ UNCHANGED <<now, lots, reservation, held, stripe>>
  /\ \A q \in Purchase : /\ purchase'[q].lot = purchase[q].lot
                         /\ purchase'[q].status = "checkout_created" =>
                              purchase[q].status = "checkout_created"

LEMMA AppendReversalAdds ==
  ASSUME LedgerInv, NEW p \in Purchase, NEW kind \in {"topup-reversal", "dispute-reversal"},
         NEW n \in Nat, NEW units \in Int, NEW status \in PurchaseStatus \ {"checkout_created"},
         NEW t \in Clock, purchase[p].lot # 0,
         AppendReversal(p, <<kind, p, n>>, units, status, t)
  PROVE  \E row : Reversal(p, row) /\ row.key = <<kind, p, n>> /\ row.units = units
<1> DEFINE row == [key |-> <<kind, p, n>>, type |-> "purchase_reversal",
                   lot |-> purchase[p].lot, units |-> units]
<1>1. units \in Nat \ {0}
  BY DEF AppendReversal
<1>2. purchase[p].lot \in LotIds /\ purchase[p].lot \in Lot
  BY FulfilledLot, FiniteRows DEF LedgerInv
<1>3. <<kind, p, n>> \in EntryKey
  BY DEF EntryKey, KeyOwner
<1>4. row \in EntryRow
  BY <1>1, <1>2, <1>3 DEF EntryRow, EntryType
<1>5. /\ AppendNegativeEntries({row})
      /\ UNCHANGED <<now, lots, reservation, held, stripe>>
      /\ purchase' = [purchase EXCEPT ![p].status = status]
  BY DEF AppendReversal
<1>6. \A q \in Purchase : /\ purchase'[q].lot = purchase[q].lot
                          /\ purchase'[q].status = "checkout_created" =>
                               purchase[q].status = "checkout_created"
  BY <1>5 DEF LedgerInv, TypeOK
<1>7. row.lot = purchase[p].lot /\ row.key = <<kind, p, n>> /\ row.units = units
  OBVIOUS
<1> HIDE DEF row
<1> QED BY <1>2, <1>4, <1>5, <1>6, <1>7 DEF Reversal

LEMMA RefundReversalAdds ==
  ASSUME LedgerInv, NEW p \in Purchase, NEW t \in Clock, NEW cents \in 1..TopupCents,
         ReverseTopupRefund(p, cents, t)
  PROVE  \E row : /\ Reversal(p, row) /\ row.key = <<"topup-reversal", p, cents>>
                  /\ Reversed(p) + row.units <= RefundTarget(cents)
<1> DEFINE units == IF LotRemaining(purchase[p].lot) <= 0 THEN 0
                    ELSE Lesser(ReversalDue(p, cents), LotRemaining(purchase[p].lot))
           status == IF cents >= TopupCents THEN "refunded" ELSE "partially_reversed"
<1>1. purchase[p].lot # 0 /\ AppendReversal(p, <<"topup-reversal", p, cents>>, units, status, t)
  BY DEF ReverseTopupRefund
<1>2. LotRemaining(purchase[p].lot) \in Int
  BY <1>1, FulfilledLot, LotArithmetic
<1>3. RefundTarget(cents) \in Int /\ Reversed(p) \in Nat
  BY ReversedNat, NumbersAssumption DEF RefundTarget
<1>4. units \in Int /\ (units > 0 => units <= ReversalDue(p, cents))
  BY <1>2, <1>3 DEF ReversalDue, Monus, Lesser
<1>5. units > 0
  BY <1>1 DEF AppendReversal
<1>6. Reversed(p) + units <= RefundTarget(cents)
  BY <1>3, <1>4, <1>5 DEF ReversalDue, Monus
<1>7. status \in PurchaseStatus \ {"checkout_created"} /\ cents \in Nat
  BY NumbersAssumption DEF PurchaseStatus
<1> HIDE DEF units, status
<1>8. \E row : Reversal(p, row) /\ row.key = <<"topup-reversal", p, cents>> /\ row.units = units
  BY <1>1, <1>4, <1>7, AppendReversalAdds
<1> QED BY <1>6, <1>8

LEMMA DisputeReversalAdds ==
  ASSUME LedgerInv, NEW p \in Purchase, NEW t \in Clock, ReverseTopupDispute(p, t)
  PROVE  \E row : /\ Reversal(p, row) /\ row.key = <<"dispute-reversal", p, 0>>
                  /\ Reversed(p) + row.units <= TopupCredits
<1> DEFINE units == Monus(TopupCredits, Reversed(p))
<1>1. purchase[p].lot # 0 /\ AppendReversal(p, <<"dispute-reversal", p, 0>>, units, "disputed", t)
  BY DEF ReverseTopupDispute
<1>2. Reversed(p) \in Nat /\ units \in Int
  BY ReversedNat, NumbersAssumption DEF Monus
<1>3. units > 0
  BY <1>1 DEF AppendReversal
<1>4. Reversed(p) + units <= TopupCredits
  BY <1>2, <1>3, NumbersAssumption DEF Monus
<1>5. "disputed" \in PurchaseStatus \ {"checkout_created"}
  BY DEF PurchaseStatus
<1> HIDE DEF units
<1>6. \E row : Reversal(p, row) /\ row.key = <<"dispute-reversal", p, 0>> /\ row.units = units
  BY <1>1, <1>2, <1>5, AppendReversalAdds
<1> QED BY <1>4, <1>6

LEMMA PlacesReversal ==
  ASSUME LedgerInv, PlacesInv, NEW p \in Purchase, NEW row, Reversal(p, row)
  PROVE  PlacesInv'
<1>1. lots' = lots /\ \A e \in entries' : e \in entries \/ e.lot \in LotIds
  BY DEF Reversal, AppendNegativeEntries
<1> QED BY <1>1, PlacesAside, ExtendedBySelf DEF Reversal

LEMMA ExpiryRows ==
  ASSUME LedgerInv, NEW t \in Clock, ExpireLapsedLots(t)
  PROVE  \E E \in SUBSET EntryRow :
           /\ AppendNegativeEntries(E)
           /\ \A d, e \in E : d.lot = e.lot => d = e
           /\ \A e \in E : e.lot \in LotIds /\ e.units = Expirable(e.lot) /\ e.type = "expiry"
           /\ \A e \in E : e.key = <<"expiry", "sweep", e.lot>>
<1> DEFINE S == {m \in LotIds : Expired(m, t) /\ LotRemaining(m) > 0 /\ Expirable(m) > 0}
           row(l) == [key |-> <<"expiry", "sweep", l>>, type |-> "expiry", lot |-> l,
                      units |-> Expirable(l)]
           E == {row(l) : l \in S}
<1>1. ASSUME NEW l \in S PROVE row(l) \in EntryRow
  <2>1. Expirable(l) \in Nat \ {0}
    BY LotArithmetic DEF Expirable, Monus
  <2>2. l \in Lot /\ l \in Nat
    BY FiniteRows, NumbersAssumption DEF LedgerInv, Lot
  <2> QED BY <2>1, <2>2 DEF EntryRow, EntryKey, EntryType, KeyOwner
<1>2. \A l : /\ row(l).lot = l /\ row(l).units = Expirable(l) /\ row(l).type = "expiry"
             /\ row(l).key = <<"expiry", "sweep", l>>
  OBVIOUS
<1>3. AppendNegativeEntries(E)
  BY DEF ExpireLapsedLots
<1>4. S \subseteq LotIds
  OBVIOUS
<1> HIDE DEF row, S
<1>5. E \in SUBSET EntryRow
  BY <1>1
<1>6. /\ \A d, e \in E : d.lot = e.lot => d = e
      /\ \A e \in E : e.lot \in LotIds /\ e.units = Expirable(e.lot) /\ e.type = "expiry"
      /\ \A e \in E : e.key = <<"expiry", "sweep", e.lot>>
  BY <1>2, <1>4
<1> QED BY <1>3, <1>5, <1>6

LEMMA DebitRows ==
  ASSUME LedgerInv, NEW r \in Reservation
  PROVE  /\ Debits(r) \in SUBSET EntryRow /\ IsFiniteSet(Debits(r))
         /\ \A d, e \in Debits(r) : d.lot = e.lot => d = e
         /\ \A e \in Debits(r) : /\ e.lot \in LotIds /\ e.lot \in Lot
                                 /\ e.units = held[r][e.lot].segments
                                 /\ e.key = <<"sms-settle", r, e.lot>>
BY DebitsType DEF Debits, LedgerInv, RowsOnLots

LEMMA PlacesStep == LedgerInv /\ PlacesInv /\ [Next]_vars => PlacesInv'
<1> SUFFICES ASSUME LedgerInv, PlacesInv, [Next]_vars PROVE PlacesInv'
  OBVIOUS
<1>1. ASSUME NEW t \in Clock, NEW r \in Reservation, SettleReservationOnAccept(r, t)
      PROVE  PlacesInv'
  <2>1. lots' = lots /\ purchase' = purchase /\ AppendNegativeEntries(Debits(r))
    BY <1>1 DEF SettleReservationOnAccept
  <2>2. \A e \in entries' : e \in entries \/ e.lot \in LotIds
    BY <2>1, DebitRows DEF AppendNegativeEntries
  <2> QED BY <2>1, <2>2, PlacesAside, ExtendedBySelf
<1>2. ASSUME UNCHANGED <<lots, entries, purchase>>
      PROVE  PlacesInv'
  BY <1>2, PlacesAside, ExtendedBySelf
<1>3. ASSUME NEW t \in Clock, NEW r \in Reservation,
             \/ RefundTerminalFailure(r, t)
             \/ \E actual \in 0..MaxSegments : RefundOverpredictedSegments(r, actual, t)
      PROVE  PlacesInv'
  <2>1. /\ UNCHANGED <<entries, purchase>> /\ Extended(Len(lots), lots, lots')
        /\ \A i \in Added : \E name \in AllRefundKinds, l \in Lot : lots'[i].key = <<name, r, l>>
    BY <1>3, RefundArm
  <2>2. \A i \in Added : lots'[i].key[1] # "topup-grant"
    BY <2>1 DEF AllRefundKinds, TerminalKinds, OverpredictKinds
  <2> QED BY <2>1, <2>2, PlacesAside
<1>4. CASE Message
  BY <1>1, <1>2, <1>3, <1>4
  DEF Message, ReserveSmsCredits, ReleaseReservation, ReapExpiredReservation
<1>5. ASSUME NEW p \in Purchase, TopupSessionExpired(p)
      PROVE  PlacesInv'
  <2>1. /\ lots' = lots /\ entries' = entries
        /\ purchase' = [purchase EXCEPT ![p].status = "expired"]
    BY <1>5 DEF TopupSessionExpired
  <2>2. \A q \in Purchase : /\ purchase'[q].lot = purchase[q].lot
                            /\ purchase'[q].status = "checkout_created" =>
                                 purchase[q].status = "checkout_created"
    BY <2>1 DEF LedgerInv, TypeOK
  <2> QED BY <2>1, <2>2, PlacesAside, ExtendedBySelf
<1>6. CASE Topup
  BY <1>2, <1>5, <1>6, PlacesTopup, RefundReversalAdds, DisputeReversalAdds, PlacesReversal
  DEF Topup, StripeRefunds, StripeDisputes
<1>7. ASSUME NEW t \in Clock, NEW g \in Grant, GrantLot(g, t) PROVE PlacesInv'
  BY <1>7, GrantLotAdds, PlacesAside
<1>8. ASSUME NEW t \in Clock, ExpireLapsedLots(t) PROVE PlacesInv'
  <2>1. lots' = lots /\ purchase' = purchase
    BY <1>8 DEF ExpireLapsedLots
  <2>2. \A e \in entries' : e \in entries \/ e.lot \in LotIds
    BY <1>8, ExpiryRows DEF AppendNegativeEntries
  <2> QED BY <2>1, <2>2, PlacesAside, ExtendedBySelf
<1>9. CASE Bookkeeping
  BY <1>2, <1>7, <1>8, <1>9 DEF Bookkeeping, Tick
<1>10. CASE UNCHANGED vars
  BY <1>2, <1>10 DEF vars
<1> QED BY <1>4, <1>6, <1>9, <1>10 DEF Next

BackingInv == LedgerInv /\ PlacesInv /\ HoldsBacked

\* Lots may be added, as long as the rows that stand on the old ones stay.
LEMMA BackedAside ==
  ASSUME BackingInv, LedgerInv', Extended(Len(lots), lots, lots'), entries' = entries,
         ReversibleLots \cap LotIds \subseteq ReversibleLots',
         \A r \in Reservation : /\ reservation'[r].status = "held" <=> reservation[r].status = "held"
                                /\ \A l \in Lot : held'[r][l].segments = held[r][l].segments
  PROVE  HoldsBacked'
<1>1. ASSUME NEW l \in LotIds, l \notin ReversibleLots'
      PROVE  Held(l)' <= LotRemaining(l)'
  <2>1. l \in Lot /\ l \notin ReversibleLots /\ lots'[l] = lots[l]
    BY <1>1, AddedLots DEF BackingInv
  <2>2. Held(l)' = Held(l)
    BY <2>1, HeldStays DEF BackingInv
  <2>3. LotRemaining(l)' = LotRemaining(l)
    BY <2>1 DEF LotRemaining, Consumed, Units, EntriesOn
  <2> QED BY <2>1, <2>2, <2>3 DEF BackingInv, HoldsBacked
<1>2. ASSUME NEW l \in Added PROVE Held(l)' <= LotRemaining(l)'
  <2>1. l \in LotIds' /\ l \in Lot /\ l \notin LotIds /\ lots'[l] \in LotRow
    BY AddedLots DEF BackingInv
  <2>2. EntriesOn(l, EntryType)' = {}
    BY <2>1 DEF EntriesOn, BackingInv, PlacesInv, EntriesOnLots
  <2>3. Consumed(l)' = 0
    BY <2>2, TotalEmpty DEF Consumed, Units
  <2>4. Held(l)' = 0
    <3> DEFINE u == Segments(l)'
               W == WithStatus({"held"})'
    <3>1. \A r \in Reservation : held[r][l].segments \in Nat /\ ~(held[r][l].segments > 0)
      BY <2>1 DEF BackingInv, LedgerInv, RowsOnLots, TypeOK, HeldRow
    <3>2. Held(l)' = Total(u, W) /\ \A r \in W : u[r] = held'[r][l].segments /\ r \in Reservation
      BY <2>1, HeldTotalNext DEF HeldIsTotal
    <3>3. \A r \in W \ {} : u[r] = 0
      BY <2>1, <3>1, <3>2
    <3> HIDE DEF u, W
    <3>4. Total(u, {}) = Total(u, W)
      BY <3>3, TotalWithout
    <3> QED BY <3>2, <3>4, TotalEmpty
  <2>5. LotRemaining(l)' \in Nat
    BY <2>1, <2>3 DEF LotRemaining, LotRow
  <2> QED BY <2>4, <2>5
<1> QED BY <1>1, <1>2, AddedLots DEF HoldsBacked, BackingInv

LEMMA BackedReserve ==
  ASSUME BackingInv, LedgerInv', NEW r \in Reservation, NEW k \in DedupeKey,
         NEW n \in 1..MaxSegments, NEW t \in Clock, ReserveSmsCredits(r, k, n, t)
  PROVE  HoldsBacked'
<1>1. ReversibleLots' = ReversibleLots /\ n \in Nat
  BY NumbersAssumption DEF ReserveSmsCredits, ReversibleLots
<1>2. ASSUME NEW l \in LotIds, l \notin ReversibleLots
      PROVE  Held(l)' <= LotRemaining(l)'
  <2>1. l \in Lot /\ LotRemaining(l) \in Int /\ Held(l) \in Nat
    BY LotArithmetic, FiniteRows DEF BackingInv, LedgerInv
  <2>2. Held(l)' = Held(l) + SpendPlan(n, t)[l] /\ LotRemaining(l)' = LotRemaining(l)
    BY <2>1, ReserveTakesPlan DEF BackingInv
  <2>3. CASE l \in OpenLots(t)
    BY <1>1, <2>1, <2>2, <2>3, PlanWithinFree DEF Free, BackingInv
  <2>4. CASE l \notin OpenLots(t)
    BY <1>1, <1>2, <2>1, <2>2, <2>4, PlanWithinFree DEF BackingInv, HoldsBacked
  <2> QED BY <2>3, <2>4
<1> QED BY <1>1, <1>2, ReserveTakesPlan DEF HoldsBacked, BackingInv

LEMMA BackedSettle ==
  ASSUME BackingInv, LedgerInv', NEW r \in Reservation, NEW t \in Clock,
         SettleReservationOnAccept(r, t)
  PROVE  HoldsBacked'
<1>1. /\ UNCHANGED <<lots, held, purchase>> /\ AppendNegativeEntries(Debits(r))
      /\ reservation[r].status = "held" /\ reservation'[r].status # "held"
      /\ \A x \in Reservation \ {r} : reservation'[x].status = reservation[x].status
  BY DEF SettleReservationOnAccept, BackingInv, LedgerInv, TypeOK
<1>2. ReversibleLots' = ReversibleLots /\ LotIds' = LotIds
  BY <1>1 DEF ReversibleLots, LotIds
<1>3. ASSUME NEW l \in LotIds, l \notin ReversibleLots
      PROVE  Held(l)' <= LotRemaining(l)'
  <2> DEFINE n == held[r][l].segments
  <2>1. l \in Lot /\ lots[l].amount \in Nat
    BY LotArithmetic, FiniteRows DEF BackingInv, LedgerInv, LotRow
  <2>2. n \in Nat
    BY <2>1 DEF BackingInv, LedgerInv, TypeOK, HeldRow
  <2>3. Held(l) = Held(l)' + n
    BY <1>1, <2>1, HeldEnds DEF BackingInv
  <2>4. Held(l) \in Nat /\ Held(l)' \in Nat
    BY <2>1, HeldTotal, HeldTotalNext DEF HeldIsTotal, BackingInv
  <2>5. /\ Units(EntriesOn(l, EntryType)) \in Nat /\ Units(EntriesOn(l, EntryType))' \in Nat
        /\ Units(EntriesOn(l, EntryType))' <= Units(EntriesOn(l, EntryType)) + n
    <3>1. Debits(r) \in SUBSET EntryRow
      BY DebitRows DEF BackingInv
    <3>2. /\ \A d, e \in Debits(r) : d.lot = l /\ e.lot = l => d = e
          /\ \A e \in Debits(r) : e.lot = l => e.units <= n
      BY <2>2, DebitRows DEF BackingInv
    <3> HIDE DEF n
    <3> QED BY <1>1, <2>2, <3>1, <3>2, AppendGain DEF BackingInv
  <2>6. Held(l) <= LotRemaining(l)
    BY <1>3 DEF BackingInv, HoldsBacked
  <2>7. /\ LotRemaining(l) = lots[l].amount - Units(EntriesOn(l, EntryType))
        /\ LotRemaining(l)' = lots[l].amount - Units(EntriesOn(l, EntryType))'
    BY <1>1 DEF LotRemaining, Consumed
  <2> HIDE DEF n
  <2> QED BY <2>1, <2>2, <2>3, <2>4, <2>5, <2>6, <2>7
<1> QED BY <1>2, <1>3 DEF HoldsBacked

LEMMA BackedRelease ==
  ASSUME BackingInv, LedgerInv', NEW r \in Reservation, NEW t \in Clock, ReleaseReservation(r, t)
  PROVE  HoldsBacked'
<1>1. /\ UNCHANGED <<lots, entries, held, purchase>>
      /\ reservation[r].status = "held" /\ reservation'[r].status # "held"
      /\ \A x \in Reservation \ {r} : reservation'[x].status = reservation[x].status
  BY DEF ReleaseReservation, BackingInv, LedgerInv, TypeOK
<1>2. ReversibleLots' = ReversibleLots /\ LotIds' = LotIds
  BY <1>1 DEF ReversibleLots, LotIds
<1>3. ASSUME NEW l \in LotIds, l \notin ReversibleLots
      PROVE  Held(l)' <= LotRemaining(l)'
  <2>1. l \in Lot /\ LotRemaining(l) \in Int
    BY LotArithmetic, FiniteRows DEF BackingInv, LedgerInv
  <2>2. held[r][l].segments \in Nat
    BY <2>1 DEF BackingInv, LedgerInv, TypeOK, HeldRow
  <2>3. Held(l) = Held(l)' + held[r][l].segments
    BY <1>1, <2>1, HeldEnds DEF BackingInv
  <2>4. Held(l) \in Nat /\ Held(l)' \in Nat
    BY <2>1, HeldTotal, HeldTotalNext DEF HeldIsTotal, BackingInv
  <2>5. LotRemaining(l)' = LotRemaining(l)
    BY <1>1 DEF LotRemaining, Consumed, Units, EntriesOn
  <2>6. Held(l) <= LotRemaining(l)
    BY <1>3 DEF BackingInv, HoldsBacked
  <2> QED BY <2>1, <2>2, <2>3, <2>4, <2>5, <2>6
<1> QED BY <1>2, <1>3 DEF HoldsBacked

\* The sweep expires what no hold covers.
LEMMA BackedExpire ==
  ASSUME BackingInv, LedgerInv', NEW t \in Clock, ExpireLapsedLots(t)
  PROVE  HoldsBacked'
<1>1. UNCHANGED <<lots, held, purchase, reservation>>
  BY DEF ExpireLapsedLots
<1>2. ReversibleLots' = ReversibleLots /\ LotIds' = LotIds
  BY <1>1 DEF ReversibleLots, LotIds
<1>3. PICK E \in SUBSET EntryRow :
        /\ AppendNegativeEntries(E)
        /\ \A d, e \in E : d.lot = e.lot => d = e
        /\ \A e \in E : e.lot \in LotIds /\ e.units = Expirable(e.lot)
  BY ExpiryRows DEF BackingInv
<1>4. ASSUME NEW l \in LotIds, l \notin ReversibleLots
      PROVE  Held(l)' <= LotRemaining(l)'
  <2> DEFINE n == Expirable(l)
  <2>1. l \in Lot /\ lots[l].amount \in Nat /\ LotRemaining(l) \in Int
    BY LotArithmetic, FiniteRows DEF BackingInv, LedgerInv, LotRow
  <2>2. Held(l) <= LotRemaining(l)
    BY <1>4 DEF BackingInv, HoldsBacked
  <2>3. Held(l) \in Nat
    BY <2>1, HeldTotal DEF HeldIsTotal, BackingInv
  <2>4. n \in Nat /\ n = LotRemaining(l) - Held(l)
    BY <2>1, <2>2, <2>3 DEF Expirable, Monus
  <2>5. Held(l)' = Held(l)
    BY <1>1, <2>1, HeldStays DEF BackingInv
  <2>6. /\ Units(EntriesOn(l, EntryType)) \in Nat /\ Units(EntriesOn(l, EntryType))' \in Nat
        /\ Units(EntriesOn(l, EntryType))' <= Units(EntriesOn(l, EntryType)) + n
    <3>1. /\ \A d, e \in E : d.lot = l /\ e.lot = l => d = e
          /\ \A e \in E : e.lot = l => e.units <= n
      BY <1>3, <2>4
    <3> HIDE DEF n
    <3> QED BY <1>3, <2>4, <3>1, AppendGain DEF BackingInv
  <2>7. /\ LotRemaining(l) = lots[l].amount - Units(EntriesOn(l, EntryType))
        /\ LotRemaining(l)' = lots[l].amount - Units(EntriesOn(l, EntryType))'
    BY <1>1 DEF LotRemaining, Consumed
  <2> HIDE DEF n
  <2> QED BY <2>1, <2>2, <2>3, <2>4, <2>5, <2>6, <2>7
<1> QED BY <1>2, <1>4 DEF HoldsBacked

\* A reversal touches no lot but its purchase's.
LEMMA BackedReversal ==
  ASSUME BackingInv, LedgerInv', NEW p \in Purchase, NEW row, Reversal(p, row)
  PROVE  HoldsBacked'
<1>1. /\ UNCHANGED <<lots, held, reservation>> /\ AppendNegativeEntries({row})
      /\ row.lot \in ReversibleLots
  BY DEF Reversal, ReversibleLots
<1>2. ReversibleLots' = ReversibleLots /\ LotIds' = LotIds
  BY <1>1 DEF Reversal, ReversibleLots, LotIds
<1>3. ASSUME NEW l \in LotIds, l \notin ReversibleLots
      PROVE  Held(l)' <= LotRemaining(l)'
  <2>1. l \in Lot
    BY FiniteRows DEF BackingInv, LedgerInv
  <2>2. Held(l)' = Held(l)
    BY <1>1, <2>1, HeldStays DEF BackingInv
  <2>3. Units(EntriesOn(l, EntryType))' = Units(EntriesOn(l, EntryType))
    <3>1. \A e \in {row} : e.lot # l
      BY <1>1, <1>3
    <3> QED BY <1>1, <3>1, AppendElsewhere DEF BackingInv
  <2>4. LotRemaining(l)' = LotRemaining(l)
    BY <1>1, <2>3 DEF LotRemaining, Consumed
  <2> QED BY <1>3, <2>2, <2>4 DEF BackingInv, HoldsBacked
<1> QED BY <1>2, <1>3 DEF HoldsBacked

LEMMA BackedStep == BackingInv /\ LedgerInv' /\ [Next]_vars => HoldsBacked'
<1> SUFFICES ASSUME BackingInv, LedgerInv', [Next]_vars PROVE HoldsBacked'
  OBVIOUS
<1>1. ASSUME UNCHANGED <<lots, entries, held, reservation>>,
             ReversibleLots \cap LotIds \subseteq ReversibleLots'
      PROVE  HoldsBacked'
  BY <1>1, BackedAside, ExtendedBySelf DEF BackingInv
<1>2. ASSUME NEW t \in Clock, NEW r \in Reservation,
             \/ RefundTerminalFailure(r, t)
             \/ \E actual \in 0..MaxSegments : RefundOverpredictedSegments(r, actual, t)
      PROVE  HoldsBacked'
  <2>1. /\ UNCHANGED <<entries, purchase>> /\ Extended(Len(lots), lots, lots')
        /\ \A x \in Reservation :
             /\ reservation'[x].status = reservation[x].status
             /\ \A l \in Lot : held'[x][l].segments = held[x][l].segments
    BY <1>2, RefundArm DEF BackingInv
  <2>2. ReversibleLots' = ReversibleLots
    BY <2>1 DEF ReversibleLots
  <2> QED BY <2>1, <2>2, BackedAside
<1>3. CASE Message
  BY <1>2, <1>3, BackedReserve, BackedSettle, BackedRelease
  DEF Message, ReapExpiredReservation
<1>4. ASSUME NEW p \in Purchase, NEW t \in Clock, TopupSessionCompleted(p, t)
      PROVE  HoldsBacked'
  <2>1. /\ UNCHANGED <<entries, reservation, held>> /\ Extended(Len(lots), lots, lots')
        /\ purchase' = [purchase EXCEPT ![p] = [status |-> "fulfilled", lot |-> Len(lots')]]
        /\ purchase[p].lot = 0
    BY <1>4, FulfilmentAdds DEF BackingInv
  <2>2. \A l \in LotIds : l # 0
    BY FiniteRows, NumbersAssumption DEF BackingInv, LedgerInv, Lot
  <2>3. ReversibleLots \cap LotIds \subseteq ReversibleLots'
    BY <2>1, <2>2 DEF ReversibleLots, BackingInv, LedgerInv, TypeOK
  <2> QED BY <2>1, <2>3, BackedAside
<1>5. ASSUME NEW p \in Purchase, TopupSessionExpired(p)
      PROVE  HoldsBacked'
  <2>1. /\ UNCHANGED <<lots, entries, held, reservation>>
        /\ \A q \in Purchase : purchase'[q].lot = purchase[q].lot
    BY <1>5 DEF TopupSessionExpired, BackingInv, LedgerInv, TypeOK
  <2>2. ReversibleLots' = ReversibleLots
    BY <2>1 DEF ReversibleLots
  <2> QED BY <1>1, <2>1, <2>2
<1>6. ASSUME NEW p \in Purchase,
             \/ \E cents \in 1..TopupCents : StripeRefunds(p, cents)
             \/ StripeDisputes(p)
      PROVE  HoldsBacked'
  <2>1. UNCHANGED <<lots, entries, held, reservation, purchase>>
    BY <1>6 DEF StripeRefunds, StripeDisputes
  <2> QED BY <1>1, <2>1 DEF ReversibleLots
<1>7. CASE Topup
  BY <1>4, <1>5, <1>6, <1>7, RefundReversalAdds, DisputeReversalAdds, BackedReversal
  DEF Topup, BackingInv
<1>8. ASSUME NEW t \in Clock, NEW g \in Grant, GrantLot(g, t) PROVE HoldsBacked'
  BY <1>8, GrantLotAdds, BackedAside DEF ReversibleLots, BackingInv
<1>9. CASE Bookkeeping
  BY <1>1, <1>8, <1>9, BackedExpire DEF Bookkeeping, Tick, ReversibleLots
<1>10. CASE UNCHANGED vars
  BY <1>1, <1>10 DEF vars, ReversibleLots
<1> QED BY <1>3, <1>7, <1>9, <1>10 DEF Next

LEMMA BackingInit == Init => BackingInv
<1> SUFFICES ASSUME Init PROVE BackingInv
  OBVIOUS
<1>1. LotIds = {}
  BY DEF Init, LotIds
<1> QED BY <1>1, LedgerInit, PlacesInit DEF BackingInv, HoldsBacked

LEMMA BackingInvariant == Spec => []BackingInv
<1>1. BackingInv /\ [Next]_vars => BackingInv'
  BY LedgerStep, PlacesStep, BackedStep DEF BackingInv
<1> QED BY <1>1, BackingInit, PTL DEF Spec

\* A lot that no top-up reversal can touch covers the holds on it.
THEOREM HoldsStayBacked == Spec => []HoldsBacked
<1>1. BackingInv => HoldsBacked
  BY DEF BackingInv
<1> QED BY <1>1, BackingInvariant, PTL

(***************************************************************************)
(* Reversals stay within Stripe's evidence.  Each event reverses up to the *)
(* target of the cumulative figure it carries, the figure of one of the    *)
(* refunds Stripe announced, and no two purchases share a lot.             *)
(***************************************************************************)
LEMMA DivMonotone ==
  ASSUME NEW a \in Nat, NEW b \in Nat, a <= b, NEW d \in Nat \ {0}
  PROVE  a \div d <= b \div d /\ a \div d \in Nat
OBVIOUS

LEMMA ProductMonotone ==
  ASSUME NEW g \in Nat, NEW a \in Nat, NEW b \in Nat, a <= b
  PROVE  g * a <= g * b /\ g * a \in Nat
OBVIOUS

LEMMA QuotientOfProduct ==
  ASSUME NEW g \in Nat, NEW d \in Nat \ {0}
  PROVE  (g * d) \div d = g
OBVIOUS

LEMMA Targets ==
  ASSUME NEW a \in 0..TopupCents, NEW b \in 0..TopupCents, a <= b
  PROVE  /\ RefundTarget(a) <= RefundTarget(b) /\ RefundTarget(b) <= TopupCredits
         /\ RefundTarget(a) \in Nat /\ RefundTarget(b) \in Nat
<1>1. a \in Nat /\ b \in Nat /\ b <= TopupCents /\ TopupCents \in Nat \ {0} /\ TopupCredits \in Nat
  BY NumbersAssumption
<1> DEFINE x == TopupCredits * a
           y == TopupCredits * b
           z == TopupCredits * TopupCents
<1>2. x <= y /\ y <= z /\ x \in Nat /\ y \in Nat /\ z \in Nat
  BY <1>1, ProductMonotone
<1>3. z \div TopupCents = TopupCredits
  BY <1>1, QuotientOfProduct
<1> HIDE DEF x, y, z
<1>4. /\ x \div TopupCents <= y \div TopupCents /\ y \div TopupCents <= z \div TopupCents
      /\ x \div TopupCents \in Nat /\ y \div TopupCents \in Nat
  BY <1>1, <1>2, DivMonotone
<1> QED BY <1>3, <1>4 DEF RefundTarget, x, y

Reversals(p) == EntriesOn(purchase[p].lot, {"purchase_reversal"})
RefundReversals(p) == {e \in Reversals(p) : e.key[1] = "topup-reversal"}

WithinEvidence(p) ==
  /\ Reversed(p) <= TopupCredits
  /\ \A R \in 0..TopupCents :
       (\A c \in stripe[p].refunds : c <= R) => Units(RefundReversals(p)) <= RefundTarget(R)

LEMMA EvidenceByPurchase ==
  ReversalWithinEvidence <=> \A p \in Purchase : purchase[p].lot # 0 => WithinEvidence(p)
BY DEF ReversalWithinEvidence, WithinEvidence, RefundReversals, Reversals, RefundTarget

LEMMA ReversalsType ==
  ASSUME LedgerInv, NEW p \in Purchase
  PROVE  /\ Reversals(p) \in SUBSET entries /\ RefundReversals(p) \in SUBSET Reversals(p)
         /\ Reversals(p) \in SUBSET EntryRow /\ IsFiniteSet(Reversals(p))
         /\ Reversed(p) = Units(Reversals(p)) /\ Reversed(p) \in Nat
         /\ Units(RefundReversals(p)) \in Nat /\ Units(RefundReversals(p)) <= Reversed(p)
<1>1. /\ Reversals(p) \in SUBSET entries /\ RefundReversals(p) \in SUBSET Reversals(p)
      /\ Reversed(p) = Units(Reversals(p))
  BY DEF Reversals, RefundReversals, EntriesOn, Reversed
<1>2. Reversals(p) \in SUBSET EntryRow /\ IsFiniteSet(Reversals(p)) /\ Reversed(p) \in Nat
  BY <1>1, EntriesFinite
<1>3. Units(RefundReversals(p)) \in Nat
  BY <1>1, EntriesFinite
<1> QED BY <1>1, <1>2, <1>3, UnitsGrow

ReversalTypes ==
  \A p \in Purchase :
    /\ Reversals(p) \in SUBSET EntryRow /\ IsFiniteSet(Reversals(p))
    /\ RefundReversals(p) \in SUBSET Reversals(p) /\ Reversed(p) = Units(Reversals(p))
    /\ Reversed(p) \in Nat /\ Units(RefundReversals(p)) \in Nat
    /\ Units(RefundReversals(p)) <= Reversed(p)

LEMMA ReversalsTypeNext == LedgerInv' => ReversalTypes'
<1>1. LedgerInv => ReversalTypes
  BY ReversalsType DEF ReversalTypes
<1> QED BY <1>1, PTL

\* A purchase whose reversals and lot stay, under evidence that only grows.
LEMMA EvidenceAside ==
  ASSUME NEW p \in Purchase, WithinEvidence(p), Reversals(p)' = Reversals(p),
         stripe[p].refunds \subseteq stripe'[p].refunds
  PROVE  WithinEvidence(p)'
<1>1. RefundReversals(p)' = RefundReversals(p)
  BY DEF RefundReversals
<1>2. Reversed(p)' = Reversed(p)
  BY DEF Reversed, Reversals, Units
<1>3. Units(RefundReversals(p))' = Units(RefundReversals(p))
  BY <1>1 DEF Units
<1> QED BY <1>2, <1>3 DEF WithinEvidence

\* Rows of other types or on other lots are no reversals of p.
LEMMA OtherRows ==
  ASSUME NEW p \in Purchase, NEW E, AppendNegativeEntries(E), purchase'[p].lot = purchase[p].lot,
         \A e \in E : e.lot # purchase[p].lot \/ e.type # "purchase_reversal"
  PROVE  Reversals(p)' = Reversals(p)
BY DEF Reversals, EntriesOn, AppendNegativeEntries

LEMMA OneLotEach ==
  ASSUME LedgerInv, PlacesInv, NEW p \in Purchase, NEW q \in Purchase, p # q, purchase[p].lot # 0
  PROVE  purchase[q].lot # purchase[p].lot
<1>1. purchase[p].lot \in LotIds
  BY FulfilledLot
<1> QED BY <1>1 DEF PlacesInv, TopupLots

LEMMA EvidenceOfOthers ==
  ASSUME LedgerInv, PlacesInv, NEW p \in Purchase, NEW row, Reversal(p, row),
         NEW q \in Purchase, q # p, purchase[q].lot # 0, WithinEvidence(q)
  PROVE  WithinEvidence(q)'
<1>1. row.lot # purchase[q].lot /\ AppendNegativeEntries({row}) /\ stripe' = stripe
      /\ purchase'[q].lot = purchase[q].lot
  BY OneLotEach DEF Reversal
<1> QED BY <1>1, OtherRows, EvidenceAside

\* What a reversal adds to its own purchase.
LEMMA ReversalGain ==
  ASSUME LedgerInv, NEW p \in Purchase, NEW row, Reversal(p, row)
  PROVE  /\ Reversed(p)' \in Nat /\ Reversed(p)' <= Reversed(p) + row.units
         /\ Reversals(p)' \subseteq Reversals(p) \cup {row}
         /\ Reversals(p) \subseteq Reversals(p)'
<1> DEFINE types == {"purchase_reversal"}
<1>1. /\ row \in EntryRow /\ AppendNegativeEntries({row}) /\ purchase'[p].lot = purchase[p].lot
  BY DEF Reversal
<1>2. row.units \in Nat
  BY <1>1 DEF EntryRow
<1>4. PICK m : m = purchase[p].lot
  OBVIOUS
<1>5. Reversed(p) = Units(EntriesOn(m, types)) /\ Reversed(p)' = Units(EntriesOn(m, types))'
  BY <1>1, <1>4 DEF Reversed, Units, EntriesOn
<1>6. /\ Units(EntriesOn(m, types))' \in Nat
      /\ Units(EntriesOn(m, types))' <= Units(EntriesOn(m, types)) + row.units
  <2>1. {row} \in SUBSET EntryRow
    BY <1>1
  <2>2. /\ \A d, e \in {row} : d.lot = m /\ e.lot = m => d = e
        /\ \A e \in {row} : e.lot = m => e.units <= row.units
    BY <1>2
  <2> HIDE DEF types
  <2> QED BY <1>1, <1>2, <2>1, <2>2, AppendGain
<1>7. Reversals(p)' \subseteq Reversals(p) \cup {row} /\ Reversals(p) \subseteq Reversals(p)'
  BY <1>1 DEF Reversals, EntriesOn, AppendNegativeEntries
<1> QED BY <1>5, <1>6, <1>7

LEMMA RefundKeepsEvidence ==
  ASSUME LedgerInv, LedgerInv', NEW p \in Purchase, NEW cents \in 1..TopupCents, NEW t \in Clock,
         ReverseTopupRefund(p, cents, t)
  PROVE  WithinEvidence(p)'
<1>1. PICK row : Reversal(p, row) /\ Reversed(p) + row.units <= RefundTarget(cents)
  BY RefundReversalAdds
<1>2. row.units \in Nat /\ Reversed(p) \in Nat
  BY <1>1, ReversedNat DEF Reversal, EntryRow
<1>3. /\ Units(RefundReversals(p))' \in Nat /\ Reversed(p)' \in Nat
      /\ Units(RefundReversals(p))' <= Reversed(p)'
  BY ReversalsTypeNext DEF ReversalTypes
<1>4. Reversed(p)' <= Reversed(p) + row.units
  BY <1>1, ReversalGain
<1>5. /\ cents \in stripe[p].refunds /\ stripe' = stripe /\ cents \in 0..TopupCents /\ cents \in Nat
      /\ TopupCents \in 0..TopupCents /\ cents <= TopupCents
  BY <1>1, NumbersAssumption DEF ReverseTopupRefund, Reversal
<1>6. RefundTarget(cents) <= TopupCredits /\ RefundTarget(cents) \in Nat
  BY <1>5, Targets
<1>7. Reversed(p)' <= TopupCredits
  BY <1>1, <1>2, <1>3, <1>4, <1>6, NumbersAssumption
<1>8. ASSUME NEW R \in 0..TopupCents, \A c \in stripe'[p].refunds : c <= R
      PROVE  Units(RefundReversals(p))' <= RefundTarget(R)
  <2>1. cents <= R
    BY <1>5, <1>8
  <2>2. RefundTarget(cents) <= RefundTarget(R) /\ RefundTarget(R) \in Nat
    BY <1>5, <2>1, Targets
  <2> QED BY <1>1, <1>2, <1>3, <1>4, <1>6, <2>2
<1>9. \A R : RefundTarget(R)' = RefundTarget(R)
  BY DEF RefundTarget
<1> QED BY <1>7, <1>8, <1>9 DEF WithinEvidence

LEMMA DisputeKeepsEvidence ==
  ASSUME LedgerInv, LedgerInv', NEW p \in Purchase, NEW t \in Clock,
         ReverseTopupDispute(p, t), WithinEvidence(p)
  PROVE  WithinEvidence(p)'
<1>1. PICK row : /\ Reversal(p, row) /\ row.key = <<"dispute-reversal", p, 0>>
                 /\ Reversed(p) + row.units <= TopupCredits
  BY DisputeReversalAdds
<1>2. row.units \in Nat /\ Reversed(p) \in Nat /\ stripe' = stripe
  BY <1>1, ReversedNat DEF Reversal, EntryRow
<1>3. /\ Reversed(p)' \in Nat /\ Reversed(p)' <= Reversed(p) + row.units
      /\ Reversals(p)' \subseteq Reversals(p) \cup {row} /\ Reversals(p) \subseteq Reversals(p)'
  BY <1>1, ReversalGain
<1>4. Reversed(p)' <= TopupCredits
  BY <1>1, <1>2, <1>3, NumbersAssumption
<1>5. RefundReversals(p)' = RefundReversals(p)
  <2>1. row.key[1] # "topup-reversal"
    BY <1>1
  <2> QED BY <1>3, <2>1 DEF RefundReversals
<1>6. Units(RefundReversals(p))' = Units(RefundReversals(p))
  BY <1>5 DEF Units
<1> QED BY <1>2, <1>4, <1>6 DEF WithinEvidence

EvidenceInv == \A p \in Purchase : purchase[p].lot # 0 => WithinEvidence(p)

\* Steps that write no reversal.
LEMMA EvidenceStays ==
  ASSUME EvidenceInv, \A p \in Purchase : /\ purchase'[p].lot = purchase[p].lot
                                          /\ stripe[p].refunds \subseteq stripe'[p].refunds,
         NEW E, AppendNegativeEntries(E), \A e \in E : e.type # "purchase_reversal"
  PROVE  EvidenceInv'
<1> SUFFICES ASSUME NEW p \in Purchase, purchase'[p].lot # 0 PROVE WithinEvidence(p)'
  BY DEF EvidenceInv
<1>1. WithinEvidence(p) /\ Reversals(p)' = Reversals(p)
  BY OtherRows DEF EvidenceInv
<1> QED BY <1>1, EvidenceAside

LEMMA NoEntries == ASSUME entries' = entries PROVE AppendNegativeEntries({})
BY DEF AppendNegativeEntries

LEMMA EvidenceFulfilled ==
  ASSUME LedgerInv, PlacesInv, EvidenceInv, NEW p \in Purchase, NEW t \in Clock,
         TopupSessionCompleted(p, t)
  PROVE  EvidenceInv'
<1>1. /\ entries' = entries /\ stripe' = stripe /\ purchase'[p].lot = Len(lots')
      /\ Len(lots') \in Added
      /\ \A q \in Purchase \ {p} : purchase'[q] = purchase[q]
  BY FulfilmentAdds DEF LedgerInv, TypeOK
<1>2. ASSUME NEW q \in Purchase, q # p, purchase'[q].lot # 0 PROVE WithinEvidence(q)'
  <2>1. Reversals(q)' = Reversals(q) /\ WithinEvidence(q)
    BY <1>1, <1>2 DEF Reversals, EntriesOn, EvidenceInv
  <2> QED BY <1>1, <2>1, EvidenceAside
<1>3. WithinEvidence(p)'
  <2>1. Len(lots') \notin LotIds
    BY <1>1, FulfilmentAdds, AddedLots
  <2>2. Reversals(p)' = {} /\ RefundReversals(p)' = {}
    BY <1>1, <2>1 DEF Reversals, RefundReversals, EntriesOn, PlacesInv, EntriesOnLots
  <2>3. Reversed(p)' = 0 /\ Units(RefundReversals(p))' = 0
    BY <2>2, TotalEmpty DEF Reversed, Reversals, Units
  <2>4. \A R \in 0..TopupCents : RefundTarget(R) \in Nat /\ RefundTarget(R) >= 0
    <3> SUFFICES ASSUME NEW R \in 0..TopupCents PROVE RefundTarget(R) \in Nat
      OBVIOUS
    <3>1. R <= R
      BY NumbersAssumption
    <3> QED BY <3>1, Targets
  <2>5. \A R : RefundTarget(R)' = RefundTarget(R)
    BY DEF RefundTarget
  <2> QED BY <2>3, <2>4, <2>5, NumbersAssumption DEF WithinEvidence
<1> QED BY <1>2, <1>3 DEF EvidenceInv

LEMMA EvidenceReversed ==
  ASSUME LedgerInv, PlacesInv, LedgerInv', EvidenceInv, NEW p \in Purchase, NEW t \in Clock,
         \/ \E cents \in 1..TopupCents : ReverseTopupRefund(p, cents, t)
         \/ ReverseTopupDispute(p, t)
  PROVE  EvidenceInv'
<1>1. PICK row : Reversal(p, row)
  BY RefundReversalAdds, DisputeReversalAdds
<1>2. \A q \in Purchase : purchase'[q].lot = purchase[q].lot
  BY <1>1 DEF Reversal
<1>3. purchase[p].lot # 0
  BY DEF ReverseTopupRefund, ReverseTopupDispute
<1>4. WithinEvidence(p)'
  BY <1>3, RefundKeepsEvidence, DisputeKeepsEvidence DEF EvidenceInv
<1>5. ASSUME NEW q \in Purchase, q # p, purchase'[q].lot # 0 PROVE WithinEvidence(q)'
  BY <1>1, <1>2, <1>5, EvidenceOfOthers DEF EvidenceInv
<1> QED BY <1>4, <1>5 DEF EvidenceInv

LEMMA EvidenceStep == LedgerInv /\ PlacesInv /\ LedgerInv' /\ EvidenceInv /\ [Next]_vars => EvidenceInv'
<1> SUFFICES ASSUME LedgerInv, PlacesInv, LedgerInv', EvidenceInv, [Next]_vars PROVE EvidenceInv'
  OBVIOUS
<1>1. ASSUME UNCHANGED <<entries, purchase, stripe>> PROVE EvidenceInv'
  BY <1>1, NoEntries, EvidenceStays
<1>2. ASSUME NEW t \in Clock, NEW r \in Reservation, SettleReservationOnAccept(r, t)
      PROVE  EvidenceInv'
  <2>1. UNCHANGED <<purchase, stripe>> /\ AppendNegativeEntries(Debits(r))
    BY <1>2 DEF SettleReservationOnAccept
  <2>2. \A e \in Debits(r) : e.type # "purchase_reversal"
    BY DEF Debits
  <2> QED BY <2>1, <2>2, EvidenceStays
<1>3. ASSUME NEW t \in Clock, NEW r \in Reservation,
             \/ RefundTerminalFailure(r, t)
             \/ \E actual \in 0..MaxSegments : RefundOverpredictedSegments(r, actual, t)
      PROVE  EvidenceInv'
  BY <1>1, <1>3, RefundArm
<1>4. CASE Message
  BY <1>1, <1>2, <1>3, <1>4
  DEF Message, ReserveSmsCredits, ReleaseReservation, ReapExpiredReservation
<1>5. ASSUME NEW p \in Purchase, TopupSessionExpired(p) PROVE EvidenceInv'
  <2>1. entries' = entries /\ stripe' = stripe /\ \A q \in Purchase : purchase'[q].lot = purchase[q].lot
    BY <1>5 DEF TopupSessionExpired, LedgerInv, TypeOK
  <2> QED BY <2>1, NoEntries, EvidenceStays
<1>6. ASSUME NEW p \in Purchase, NEW cents \in 1..TopupCents, StripeRefunds(p, cents) PROVE EvidenceInv'
  <2>1. /\ entries' = entries /\ purchase' = purchase
        /\ stripe' = [stripe EXCEPT ![p].refunds = @ \cup {cents}]
    BY <1>6 DEF StripeRefunds
  <2>2. \A q \in Purchase : stripe[q].refunds \subseteq stripe'[q].refunds
    BY <2>1 DEF LedgerInv, TypeOK
  <2> QED BY <2>1, <2>2, NoEntries, EvidenceStays
<1>7. ASSUME NEW p \in Purchase, StripeDisputes(p) PROVE EvidenceInv'
  <2>1. /\ entries' = entries /\ purchase' = purchase
        /\ stripe' = [stripe EXCEPT ![p].disputed = TRUE]
    BY <1>7 DEF StripeDisputes
  <2>2. \A q \in Purchase : stripe[q].refunds \subseteq stripe'[q].refunds
    BY <2>1 DEF LedgerInv, TypeOK
  <2> QED BY <2>1, <2>2, NoEntries, EvidenceStays
<1>8. CASE Topup
  BY <1>5, <1>6, <1>7, <1>8, EvidenceFulfilled, EvidenceReversed DEF Topup
<1>9. ASSUME NEW t \in Clock, ExpireLapsedLots(t) PROVE EvidenceInv'
  <2>1. UNCHANGED <<purchase, stripe>>
    BY <1>9 DEF ExpireLapsedLots
  <2>2. PICK E \in SUBSET EntryRow : AppendNegativeEntries(E) /\ \A e \in E : e.type = "expiry"
    BY <1>9, ExpiryRows
  <2> QED BY <2>1, <2>2, EvidenceStays
<1>10. CASE Bookkeeping
  BY <1>1, <1>9, <1>10 DEF Bookkeeping, GrantLot, Tick
<1>11. CASE UNCHANGED vars
  BY <1>1, <1>11 DEF vars
<1> QED BY <1>4, <1>8, <1>10, <1>11 DEF Next

\* No reversal exceeds what the money refunded covers, nor what was granted.
THEOREM ReversalsWithinEvidence == Spec => []ReversalWithinEvidence
<1>1. Init => EvidenceInv
  BY DEF Init, EvidenceInv
<1>2. BackingInv /\ BackingInv' => LedgerInv /\ PlacesInv /\ LedgerInv'
  BY DEF BackingInv
<1>3. EvidenceInv => ReversalWithinEvidence
  BY EvidenceByPurchase DEF EvidenceInv
<1> QED BY <1>1, <1>2, <1>3, BackingInvariant, EvidenceStep, PTL DEF Spec

(***************************************************************************)
(* The account implements MessageCharge.  Two facts tie the ledger to the  *)
(* promise: the settle rows of a reservation are the debits of its rows,   *)
(* all of them and only once it settled; and its rows add up to its price. *)
(* A refund lot is then an injection of its units into the debited ones.   *)
(***************************************************************************)
SettleRows(r) == {e \in entries : e.key[1] = "sms-settle" /\ e.key[2] = r}
RowUnits(r) == [l \in Lot |-> held[r][l].segments]

DebitsOnSettle ==
  \A r \in Reservation :
    SettleRows(r) = IF reservation[r].status = "settled" THEN Debits(r) ELSE {}

RowsMakePrice ==
  \A r \in Reservation :
    reservation[r].status # "none" => Total(RowUnits(r), Lot) = reservation[r].segments

PaidInv == DebitsOnSettle /\ RowsMakePrice

LEMMA PaidInit == Init => PaidInv
BY DEF Init, PaidInv, DebitsOnSettle, RowsMakePrice, SettleRows, NoReservation

LEMMA SameRows ==
  ASSUME NEW r, \A l \in Lot : held'[r][l].segments = held[r][l].segments
  PROVE  RowUnits(r)' = RowUnits(r) /\ Debits(r)' = Debits(r)
<1>1. RowUnits(r)' = RowUnits(r)
  BY DEF RowUnits
<1> DEFINE R == {m \in Lot : held[r][m].segments > 0}
           row(l) == [key |-> <<"sms-settle", r, l>>, type |-> "debit", lot |-> l,
                      units |-> held[r][l].segments]
           next(l) == [key |-> <<"sms-settle", r, l>>, type |-> "debit", lot |-> l,
                       units |-> held'[r][l].segments]
<1>2. {m \in Lot : held'[r][m].segments > 0} = R
  OBVIOUS
<1>3. \A l \in R : next(l) = row(l)
  OBVIOUS
<1>4. Debits(r) = {row(l) : l \in R} /\ Debits(r)' = {next(l) : l \in R}
  BY <1>2 DEF Debits
<1> HIDE DEF R, row, next
<1>5. Debits(r)' = Debits(r)
  BY <1>3, <1>4
<1> QED BY <1>1, <1>5

\* Steps that charge nobody.
LEMMA PaidAside ==
  ASSUME PaidInv, entries \subseteq entries',
         \A e \in entries' : e \in entries \/ e.key[1] # "sms-settle",
         \A r \in Reservation :
           /\ reservation'[r].status = "settled" <=> reservation[r].status = "settled"
           /\ reservation'[r].status # "none" => reservation[r].status # "none"
           /\ reservation'[r].segments = reservation[r].segments
           /\ \A l \in Lot : held'[r][l].segments = held[r][l].segments
  PROVE  PaidInv' /\ \A r \in Reservation : PaidBy(r)' = PaidBy(r)
<1>1. \A r : SettleRows(r)' = SettleRows(r)
  BY DEF SettleRows
<1>2. DebitsOnSettle'
  BY <1>1, SameRows DEF PaidInv, DebitsOnSettle
<1>3. RowsMakePrice'
  BY SameRows DEF PaidInv, RowsMakePrice
<1>4. \A r : PaidBy(r)' = PaidBy(r)
  BY <1>1 DEF PaidBy, SettleRows, Units
<1> QED BY <1>2, <1>3, <1>4 DEF PaidInv

LEMMA PaidReserve ==
  ASSUME LedgerInv, PaidInv, NEW r \in Reservation, NEW k \in DedupeKey,
         NEW n \in 1..MaxSegments, NEW t \in Clock, ReserveSmsCredits(r, k, n, t)
  PROVE  PaidInv' /\ \A x \in Reservation : PaidBy(x)' = PaidBy(x)
<1> DEFINE plan == SpendPlan(n, t)
<1>1. /\ held' = [held EXCEPT ![r] = [l \in Lot |-> [NoRow EXCEPT !.segments = plan[l]]]]
      /\ reservation[r].status = "none" /\ entries' = entries
      /\ Total(plan, Lot) = n
  BY DEF ReserveSmsCredits
<1>2. /\ reservation'[r].status = "held" /\ reservation'[r].segments = n
      /\ \A x \in Reservation \ {r} : reservation'[x] = reservation[x]
  BY DEF ReserveSmsCredits, LedgerInv, TypeOK
<1> HIDE DEF plan
<1>3. /\ \A x \in Reservation \ {r} : held'[x] = held[x]
      /\ \A l \in Lot : held'[r][l].segments = plan[l]
  BY <1>1 DEF LedgerInv, TypeOK, NoRow
<1>4. \A x : SettleRows(x)' = SettleRows(x) /\ PaidBy(x)' = PaidBy(x)
  BY <1>1 DEF SettleRows, PaidBy, Units
<1>5. DebitsOnSettle'
  BY <1>1, <1>2, <1>3, <1>4, SameRows DEF PaidInv, DebitsOnSettle
<1>6. Total(RowUnits(r)', Lot) = n
  <2>1. \A l \in Lot : RowUnits(r)'[l] = plan[l]
    BY <1>3 DEF RowUnits
  <2>2. Total(RowUnits(r)', Lot) = Total(plan, Lot)
    BY <2>1, TotalSame
  <2> QED BY <1>1, <2>2
<1>7. RowsMakePrice'
  <2> SUFFICES ASSUME NEW x \in Reservation, reservation'[x].status # "none"
               PROVE  Total(RowUnits(x), Lot)' = reservation'[x].segments
    BY DEF RowsMakePrice
  <2>1. CASE x = r
    BY <1>2, <1>6, <2>1 DEF Total, Lot
  <2>2. CASE x # r
    <3>1. RowUnits(x)' = RowUnits(x)
      BY <1>3, <2>2, SameRows
    <3>2. Total(RowUnits(x), Lot)' = Total(RowUnits(x), Lot)
      BY <3>1 DEF Total, Lot
    <3> QED BY <1>2, <2>2, <3>2 DEF PaidInv, RowsMakePrice
  <2> QED BY <2>1, <2>2
<1> QED BY <1>4, <1>5, <1>7 DEF PaidInv

LEMMA DebitsMakePrice ==
  ASSUME LedgerInv, RowsMakePrice, NEW r \in Reservation, reservation[r].status # "none"
  PROVE  Units(Debits(r)) = reservation[r].segments
<1> DEFINE u == RowUnits(r)
           R == RowsOf(r)
           D == Debits(r)
           v == [e \in D |-> e.units]
           f == [l \in R |-> [key |-> <<"sms-settle", r, l>>, type |-> "debit", lot |-> l,
                              units |-> held[r][l].segments]]
<1>1. Total(u, Lot) = reservation[r].segments
  BY DEF RowsMakePrice
<1>2. /\ R \subseteq Lot /\ IsFiniteSet(R) /\ \A l \in Lot \ R : u[l] = 0
      /\ \A l \in R : u[l] \in Nat /\ u[l] = held[r][l].segments
  <2>1. \A l \in Lot : held[r][l].segments \in Nat
    BY DEF LedgerInv, TypeOK, HeldRow
  <2>2. IsFiniteSet(Lot)
    BY NumbersAssumption, FS_Interval DEF Lot
  <2> QED BY <2>1, <2>2, FS_Subset DEF RowsOf, RowUnits
<1>3. D = {f[l] : l \in R}
  BY DEF Debits, RowsOf
<1>4. /\ \A l \in R : f[l].units = held[r][l].segments /\ f[l].lot = l
  OBVIOUS
<1>5. f \in [R -> D]
  <2>1. f = [l \in R |-> f[l]]
    OBVIOUS
  <2> HIDE DEF f, D, R
  <2> QED BY <1>3, <2>1
<1>6. \A l \in R : v[f[l]] = u[l]
  BY <1>2, <1>3, <1>4
<1>7. Units(D) = Total(v, D)
  BY DEF Units
<1> HIDE DEF u, R, D, v, f
<1>8. f \in Bijection(R, D)
  <2>1. \A a, b \in R : f[a] = f[b] => a = b
    BY <1>4
  <2>2. \A e \in D : \E l \in R : f[l] = e
    BY <1>3
  <2> QED BY <1>5, <2>1, <2>2, Fun_IsBij
<1>9. Total(v, D) = Total(u, R)
  BY <1>2, <1>6, <1>8, TotalRenamed
<1>10. Total(u, R) = Total(u, Lot)
  BY <1>2, TotalWithout
<1>11. Units(D) = reservation[r].segments
  BY <1>1, <1>7, <1>9, <1>10
<1> QED BY <1>11 DEF D

LEMMA PaidSettle ==
  ASSUME LedgerInv, PaidInv, NEW r \in Reservation, NEW t \in Clock, SettleReservationOnAccept(r, t)
  PROVE  /\ PaidInv' /\ PaidBy(r)' = reservation[r].segments
         /\ \A x \in Reservation \ {r} : PaidBy(x)' = PaidBy(x)
<1>1. /\ reservation[r].status = "held" /\ held' = held
      /\ entries' = entries \cup {e \in Debits(r) : e.key \notin EntryKeys}
  BY DEF SettleReservationOnAccept, AppendNegativeEntries
<1>2. /\ reservation'[r].status = "settled" /\ reservation'[r].segments = reservation[r].segments
      /\ \A x \in Reservation \ {r} : reservation'[x] = reservation[x]
  BY DEF SettleReservationOnAccept, LedgerInv, TypeOK, ReservationRow
<1>3. \A e \in Debits(r) : e.key[1] = "sms-settle" /\ e.key[2] = r
  BY DebitRows
<1>4. SettleRows(r) = {}
  BY <1>1 DEF PaidInv, DebitsOnSettle
<1>5. \A e \in Debits(r) : e.key \notin EntryKeys
  BY <1>3, <1>4 DEF SettleRows, EntryKeys
<1>6. SettleRows(r)' = Debits(r) /\ \A x \in Reservation \ {r} : SettleRows(x)' = SettleRows(x)
  <2>1. entries' = entries \cup Debits(r)
    BY <1>1, <1>5
  <2>2. SettleRows(r)' = Debits(r)
    BY <1>3, <1>4, <2>1 DEF SettleRows
  <2>3. \A x \in Reservation \ {r} : SettleRows(x)' = SettleRows(x)
    BY <1>3, <2>1 DEF SettleRows
  <2> QED BY <2>2, <2>3
<1>7. \A x : Debits(x)' = Debits(x) /\ RowUnits(x)' = RowUnits(x)
  BY <1>1, SameRows
<1>8. DebitsOnSettle'
  BY <1>2, <1>6, <1>7 DEF PaidInv, DebitsOnSettle
<1>9. RowsMakePrice'
  BY <1>1, <1>2, <1>7 DEF PaidInv, RowsMakePrice
<1>10. PaidBy(r)' = Units(Debits(r))
  BY <1>6 DEF PaidBy, SettleRows, Units
<1>11. \A x \in Reservation \ {r} : PaidBy(x)' = PaidBy(x)
  BY <1>6 DEF PaidBy, SettleRows, Units
<1> QED BY <1>1, <1>8, <1>9, <1>10, <1>11, DebitsMakePrice DEF PaidInv

(***************************************************************************)
(* Refund lots.                                                            *)
(***************************************************************************)
Refunds(r) == {i \in LotIds : \E l \in Lot : i \in RefundsOf(r, l, AllRefundKinds)}
Amounts == [i \in LotIds |-> lots[i].amount]

LEMMA ReturnedIs == \A r : ReturnedTo(r) = Total(Amounts, Refunds(r))
BY DEF ReturnedTo, Refunds, Amounts, AllRefundKinds

LEMMA RefundKey ==
  ASSUME NEW r, NEW i \in Refunds(r)
  PROVE  /\ i \in LotIds
         /\ \E l \in Lot : \/ /\ i \in RefundsOf(r, l, TerminalKinds)
                              /\ lots[i].key[1] \in TerminalKinds /\ lots[i].key[3] = l
                           \/ /\ i \in RefundsOf(r, l, OverpredictKinds)
                              /\ lots[i].key[1] \in OverpredictKinds /\ lots[i].key[3] = l
BY DEF Refunds, RefundsOf, AllRefundKinds

\* Units given back are units taken: the overprediction arm maps to the first
\* of a row's units, the terminal arm to those after them.
LEMMA ReturnedWithinPrice ==
  ASSUME LedgerInv, RefundInv, RowsMakePrice, NEW r \in Reservation, reservation[r].status # "none"
  PROVE  ReturnedTo(r) <= reservation[r].segments
<1> DEFINE u == Amounts
           v == RowUnits(r)
           A == Tokens(u, Refunds(r))
           B == Tokens(v, Lot)
           back(l) == held[r][l].refundedSegments
           lot(i) == lots[i].key[3]
           place(i, k) == IF lots[i].key[1] \in OverpredictKinds THEN k ELSE back(lot(i)) + k
           f == [z \in A |-> <<lot(z[1]), place(z[1], z[2])>>]
<1>1. TerminalKinds \cap OverpredictKinds = {}
  BY DEF TerminalKinds, OverpredictKinds
<1>2. \A l \in Lot : back(l) \in Nat /\ v[l] \in Nat /\ back(l) <= v[l] /\ v[l] = held[r][l].segments
  BY DEF RowUnits, LedgerInv, TypeOK, HeldRow, RefundInv, GivenBackWithin
<1>3. ASSUME NEW i \in Refunds(r)
      PROVE  /\ u[i] \in Nat /\ lot(i) \in Lot
             /\ lots[i].key[1] \in OverpredictKinds =>
                  i \in RefundsOf(r, lot(i), OverpredictKinds) /\ u[i] <= back(lot(i))
             /\ lots[i].key[1] \notin OverpredictKinds =>
                  i \in RefundsOf(r, lot(i), TerminalKinds) /\ u[i] <= v[lot(i)] - back(lot(i))
  <2>1. u[i] = lots[i].amount /\ u[i] \in Nat
    BY RefundKey, LotArithmetic DEF Amounts, LotRow
  <2>2. PICK l \in Lot : \/ /\ i \in RefundsOf(r, l, TerminalKinds)
                            /\ lots[i].key[1] \in TerminalKinds /\ lots[i].key[3] = l
                         \/ /\ i \in RefundsOf(r, l, OverpredictKinds)
                            /\ lots[i].key[1] \in OverpredictKinds /\ lots[i].key[3] = l
    BY RefundKey
  <2> QED BY <1>1, <1>2, <2>1, <2>2 DEF RefundInv, TerminalFenced, OverpredictRecorded
<1>4. /\ \A l \in Lot : \A i, j \in RefundsOf(r, l, TerminalKinds) : i = j
      /\ \A l \in Lot : \A i, j \in RefundsOf(r, l, OverpredictKinds) : i = j
  BY DEF RefundInv, TerminalFenced, UniqueLotKeys, RefundsOf, OverpredictKinds
<1>5. \A z \in A : z = <<z[1], z[2]>> /\ z[1] \in Refunds(r) /\ z[2] \in 1..u[z[1]]
  BY TokensAre
<1> HIDE DEF u, v, back, lot
<1>6. ASSUME NEW z \in A PROVE f[z] \in B
  <2>1. lot(z[1]) \in Lot /\ place(z[1], z[2]) \in 1..v[lot(z[1])]
    BY <1>2, <1>3, <1>5
  <2> QED BY <2>1, TokensAre
<1>7. ASSUME NEW y \in A, NEW z \in A, f[y] = f[z] PROVE y = z
  <2>1. lot(y[1]) = lot(z[1]) /\ place(y[1], y[2]) = place(z[1], z[2])
    BY <1>7
  <2>2. CASE lots[y[1]].key[1] \in OverpredictKinds /\ lots[z[1]].key[1] \in OverpredictKinds
    <3>1. y[1] = z[1]
      BY <1>3, <1>4, <1>5, <2>1, <2>2
    <3> QED BY <1>5, <2>1, <2>2, <3>1
  <2>3. CASE lots[y[1]].key[1] \notin OverpredictKinds /\ lots[z[1]].key[1] \notin OverpredictKinds
    <3>1. y[1] = z[1]
      BY <1>3, <1>4, <1>5, <2>1, <2>3
    <3>2. back(lot(y[1])) \in Nat /\ y[2] \in Int /\ z[2] \in Int
      BY <1>2, <1>3, <1>5
    <3>3. y[2] = z[2]
      BY <2>1, <2>3, <3>1, <3>2
    <3> QED BY <1>5, <3>1, <3>3
  <2>4. ASSUME NEW a \in A, NEW b \in A, lot(a[1]) = lot(b[1]), place(a[1], a[2]) = place(b[1], b[2]),
               lots[a[1]].key[1] \in OverpredictKinds, lots[b[1]].key[1] \notin OverpredictKinds
        PROVE  FALSE
    <3>1. /\ place(a[1], a[2]) = a[2] /\ place(b[1], b[2]) = back(lot(b[1])) + b[2]
      BY <2>4
    <3>2. a[2] \in 1..u[a[1]] /\ u[a[1]] \in Nat /\ u[a[1]] <= back(lot(a[1])) /\ b[2] \in 1..u[b[1]] /\ u[b[1]] \in Nat
      BY <1>3, <1>5, <2>4
    <3>3. back(lot(b[1])) \in Nat
      BY <1>2, <1>3, <1>5
    <3>4. a[2] = back(lot(b[1])) + b[2]
      BY <2>4, <3>1
    <3>5. u[a[1]] <= back(lot(b[1]))
      BY <2>4, <3>2
    <3> QED BY <3>2, <3>3, <3>4, <3>5
  <2> QED BY <2>1, <2>2, <2>3, <2>4
<1>8. IsFiniteSet(B)
  <2>1. IsFiniteSet(Lot)
    BY NumbersAssumption, FS_Interval DEF Lot
  <2>2. \A l \in Lot : v[l] \in Nat
    BY <1>2
  <2>3. IsFiniteSet(Tokens(v, Lot))
    BY ONLY <2>1, <2>2, TokensFinite
  <2> QED BY <2>3
<1>9. f \in Injection(A, B)
  <2>1. f \in [A -> B]
    BY <1>6
  <2> HIDE DEF A, B, f
  <2> QED BY <1>7, <2>1, Fun_IsInj
<1>10. Cardinality(A) <= Cardinality(B)
  BY <1>8, <1>9, FS_Injection
<1>11. ReturnedTo(r) = Cardinality(A) /\ Total(v, Lot) = Cardinality(B)
  BY ReturnedIs, TotalIs DEF u
<1> QED BY <1>10, <1>11 DEF RowsMakePrice, v

ReturnsWithinPrices ==
  \A r \in Reservation : reservation[r].status # "none" => ReturnedTo(r) <= reservation[r].segments

LEMMA ReturnsBound == LedgerInv /\ RefundInv /\ RowsMakePrice => ReturnsWithinPrices
BY ReturnedWithinPrice DEF ReturnsWithinPrices

LEMMA ReturnsBoundNext == LedgerInv' /\ RefundInv' /\ RowsMakePrice' => ReturnsWithinPrices'
BY ReturnsBound, PTL

IsRefundOf(i, r) == \E name \in AllRefundKinds, l \in Lot : lots[i].key = <<name, r, l>>

LEMMA RefundsNext ==
  ASSUME LedgerInv, Extended(Len(lots), lots, lots'), NEW r \in Reservation
  PROVE  /\ Refunds(r)' = Refunds(r) \cup {i \in Added : IsRefundOf(i, r)'}
         /\ Refunds(r) \subseteq LotIds
         /\ \A i \in Refunds(r) : Amounts'[i] = Amounts[i]
<1>1. Refunds(r) = {i \in LotIds : IsRefundOf(i, r)}
  BY DEF Refunds, RefundsOf, IsRefundOf
<1>2. Refunds(r)' = {i \in LotIds' : IsRefundOf(i, r)'}
  BY DEF Refunds, RefundsOf, IsRefundOf
<1>3. \A i \in LotIds : IsRefundOf(i, r)' <=> IsRefundOf(i, r)
  BY AddedLots DEF IsRefundOf
<1>4. \A i \in LotIds : Amounts'[i] = Amounts[i]
  BY AddedLots DEF Amounts
<1> QED BY <1>1, <1>2, <1>3, <1>4, AddedLots

LEMMA ReturnsKept ==
  ASSUME LedgerInv, Extended(Len(lots), lots, lots'), NEW r \in Reservation,
         \A i \in Added : ~IsRefundOf(i, r)'
  PROVE  ReturnedTo(r)' = ReturnedTo(r)
<1> DEFINE old == Amounts
           new == Amounts'
           R == Refunds(r)
<1>1. Refunds(r)' = R /\ \A i \in R : new[i] = old[i]
  BY RefundsNext
<1>2. ReturnedTo(r) = Total(old, R) /\ ReturnedTo(r)' = Total(new, R)
  BY <1>1, ReturnedIs DEF ReturnedTo, Amounts, Refunds, AllRefundKinds
<1> HIDE DEF old, new, R
<1> QED BY <1>1, <1>2, TotalSame

LEMMA ReturnsGrow ==
  ASSUME LedgerInv, Extended(Len(lots), lots, lots'), NEW r \in Reservation,
         NEW i \in Added, IsRefundOf(i, r)'
  PROVE  /\ ReturnedTo(r) \in Nat /\ ReturnedTo(r)' \in Nat
         /\ ReturnedTo(r)' >= ReturnedTo(r) + 1
<1> DEFINE old == Amounts
           new == Amounts'
           R == Refunds(r)
           A == {j \in Added : IsRefundOf(j, r)'}
           S == R \cup A
<1>1. Refunds(r)' = S /\ R \subseteq LotIds /\ \A j \in R : new[j] = old[j]
  BY RefundsNext
<1>2. ReturnedTo(r) = Total(old, R) /\ ReturnedTo(r)' = Total(new, S)
  BY <1>1, ReturnedIs DEF ReturnedTo, Amounts, Refunds, AllRefundKinds
<1>3. /\ IsFiniteSet(R) /\ IsFiniteSet(A) /\ R \cap A = {} /\ i \in A
      /\ \A j \in S : new[j] \in Nat /\ new[j] >= 1
  <2>1. \A j \in LotIds' : new[j] \in Nat /\ new[j] >= 1
    BY AddedLots DEF Amounts, LotRow
  <2> QED BY <1>1, <2>1, AddedLots, FS_Subset
<1> HIDE DEF old, new, R, A
<1>4. Total(new, S) = Total(new, R) + Total(new, A)
  BY <1>3, TotalUnion
<1>5. Total(old, R) = Total(new, R)
  BY <1>1, TotalSame
<1>6. Total(new, R) \in Nat /\ Total(new, A) \in Nat
  BY <1>3, TotalNat
<1>7. Total(new, {i}) <= Total(new, A) /\ Total(new, {i}) = new[i]
  <2>1. {i} \in SUBSET A /\ \A j \in A : new[j] \in Nat /\ new[j] <= new[j]
    BY <1>3
  <2> QED BY <1>3, <2>1, TotalGrows, TotalOne
<1>8. new[i] \in Nat /\ new[i] >= 1
  BY <1>3
<1> QED BY <1>2, <1>4, <1>5, <1>6, <1>7, <1>8

(***************************************************************************)
(* Each transaction is a step of MessageCharge or leaves it alone.         *)
(***************************************************************************)
ChargeInv == LedgerInv /\ RefundInv /\ PaidInv

Phases == [r \in Reservation |-> PhaseOf[reservation[r].status]]
Prices == [r \in Reservation |-> reservation[r].segments]
Payments == [r \in Reservation |-> PaidBy(r)]
Returns == [r \in Reservation |-> ReturnedTo(r)]

LEMMA PhaseMoves ==
  ASSUME NEW r \in Reservation, NEW v, PhaseOf[reservation'[r].status] = v,
         \A x \in Reservation \ {r} : reservation'[x] = reservation[x]
  PROVE  Phases' = [Phases EXCEPT ![r] = v]
<1>1. Phases' = [x \in Reservation |-> PhaseOf[reservation'[x].status]]
  BY DEF Phases, PhaseOf
<1>2. \A x \in Reservation \ {r} : PhaseOf[reservation'[x].status] = PhaseOf[reservation[x].status]
  OBVIOUS
<1>3. DOMAIN Phases = Reservation /\ \A x \in Reservation : Phases[x] = PhaseOf[reservation[x].status]
  BY DEF Phases
<1> QED BY <1>1, <1>2, <1>3

LEMMA FunctionsKept ==
  /\ (\A r \in Reservation : reservation'[r].status = reservation[r].status) => UNCHANGED Phases
  /\ (\A r \in Reservation : reservation'[r].segments = reservation[r].segments) => UNCHANGED Prices
  /\ (\A r \in Reservation : PaidBy(r)' = PaidBy(r)) => UNCHANGED Payments
  /\ (\A r \in Reservation : ReturnedTo(r)' = ReturnedTo(r)) => UNCHANGED Returns
<1>1. ASSUME \A r \in Reservation : reservation'[r].status = reservation[r].status
      PROVE  UNCHANGED Phases
  <2>1. \A r \in Reservation : PhaseOf[reservation'[r].status] = PhaseOf[reservation[r].status]
    BY <1>1
  <2> QED BY <2>1 DEF Phases, PhaseOf
<1>2. (\A r \in Reservation : reservation'[r].segments = reservation[r].segments) => UNCHANGED Prices
  BY DEF Prices
<1>3. (\A r \in Reservation : PaidBy(r)' = PaidBy(r)) => UNCHANGED Payments
  BY DEF Payments
<1>4. (\A r \in Reservation : ReturnedTo(r)' = ReturnedTo(r)) => UNCHANGED Returns
  BY DEF Returns
<1> QED BY <1>1, <1>2, <1>3, <1>4

LEMMA ChargeStutters ==
  ASSUME \A r \in Reservation : /\ reservation'[r].status = reservation[r].status
                                /\ reservation'[r].segments = reservation[r].segments
                                /\ PaidBy(r)' = PaidBy(r) /\ ReturnedTo(r)' = ReturnedTo(r)
  PROVE  UNCHANGED Charge!chargeVars
BY FunctionsKept DEF Charge!chargeVars, Phases, Prices, Payments, Returns

LEMMA ChargeHold ==
  ASSUME ChargeInv, NEW r \in Reservation, NEW k \in DedupeKey, NEW n \in 1..MaxSegments,
         NEW t \in Clock, ReserveSmsCredits(r, k, n, t)
  PROVE  Charge!Hold(r)
<1>1. /\ reservation[r].status = "none" /\ reservation'[r].status = "held"
      /\ reservation'[r].segments = n /\ n \in Nat \ {0}
      /\ \A x \in Reservation \ {r} : reservation'[x] = reservation[x]
      /\ lots' = lots
  BY NumbersAssumption DEF ReserveSmsCredits, ChargeInv, LedgerInv, TypeOK
<1>2. \A x \in Reservation : PaidBy(x)' = PaidBy(x)
  BY PaidReserve DEF ChargeInv
<1>3. \A x \in Reservation : ReturnedTo(x)' = ReturnedTo(x)
  BY <1>1, ExtendedBySelf, ReturnsKept DEF ChargeInv
<1>4. Phases[r] = "none" /\ Phases' = [Phases EXCEPT ![r] = "held"]
  <2>1. PhaseOf[reservation'[r].status] = "held" /\ Phases[r] = "none"
    BY <1>1 DEF PhaseOf, Phases
  <2> QED BY <1>1, <2>1, PhaseMoves
<1>5. Prices'[r] \in Nat \ {0} /\ Prices' = [Prices EXCEPT ![r] = Prices'[r]]
  BY <1>1 DEF Prices
<1>6. UNCHANGED <<Payments, Returns>>
  BY <1>2, <1>3, FunctionsKept
<1> QED BY <1>4, <1>5, <1>6 DEF Charge!Hold, Phases, Prices, Payments, Returns

LEMMA ChargeSettle ==
  ASSUME ChargeInv, NEW r \in Reservation, NEW t \in Clock, SettleReservationOnAccept(r, t)
  PROVE  Charge!Charge(r)
<1>1. /\ reservation[r].status = "held" /\ reservation'[r].status = "settled"
      /\ reservation'[r].segments = reservation[r].segments
      /\ \A x \in Reservation \ {r} : reservation'[x] = reservation[x]
      /\ lots' = lots
  BY DEF SettleReservationOnAccept, ChargeInv, LedgerInv, TypeOK, ReservationRow
<1>2. PaidBy(r)' = reservation[r].segments /\ \A x \in Reservation \ {r} : PaidBy(x)' = PaidBy(x)
  BY PaidSettle DEF ChargeInv
<1>3. \A x \in Reservation : ReturnedTo(x)' = ReturnedTo(x)
  BY <1>1, ExtendedBySelf, ReturnsKept DEF ChargeInv
<1>4. Phases[r] = "held" /\ Phases' = [Phases EXCEPT ![r] = "charged"]
  <2>1. PhaseOf[reservation'[r].status] = "charged" /\ Phases[r] = "held"
    BY <1>1 DEF PhaseOf, Phases
  <2> QED BY <1>1, <2>1, PhaseMoves
<1>5. Payments' = [Payments EXCEPT ![r] = Prices[r]]
  BY <1>2 DEF Payments, Prices
<1>6. UNCHANGED <<Prices, Returns>>
  BY <1>1, <1>3, FunctionsKept
<1> QED BY <1>4, <1>5, <1>6 DEF Charge!Charge, Phases, Prices, Payments, Returns

LEMMA ChargeRelease ==
  ASSUME ChargeInv, NEW r \in Reservation, NEW t \in Clock, ReleaseReservation(r, t)
  PROVE  Charge!LetGo(r) /\ PaidInv'
<1>1. /\ reservation[r].status = "held" /\ reservation'[r].status = "released"
      /\ reservation'[r].segments = reservation[r].segments
      /\ \A x \in Reservation \ {r} : reservation'[x] = reservation[x]
      /\ UNCHANGED <<lots, entries, held>>
  BY DEF ReleaseReservation, ChargeInv, LedgerInv, TypeOK, ReservationRow
<1>2. PaidInv' /\ \A x \in Reservation : PaidBy(x)' = PaidBy(x)
  BY <1>1, PaidAside DEF ChargeInv
<1>3. \A x \in Reservation : ReturnedTo(x)' = ReturnedTo(x)
  BY <1>1, ExtendedBySelf, ReturnsKept DEF ChargeInv
<1>4. Phases[r] = "held" /\ Phases' = [Phases EXCEPT ![r] = "free"]
  <2>1. PhaseOf[reservation'[r].status] = "free" /\ Phases[r] = "held"
    BY <1>1 DEF PhaseOf, Phases
  <2> QED BY <1>1, <2>1, PhaseMoves
<1>5. UNCHANGED <<Prices, Payments, Returns>>
  BY <1>1, <1>2, <1>3, FunctionsKept
<1> QED BY <1>2, <1>4, <1>5 DEF Charge!LetGo, Phases, Prices, Payments, Returns

LEMMA ChargeRefund ==
  ASSUME ChargeInv, LedgerInv', RefundInv', NEW r \in Reservation, NEW t \in Clock,
         \/ RefundTerminalFailure(r, t)
         \/ \E actual \in 0..MaxSegments : RefundOverpredictedSegments(r, actual, t)
  PROVE  (Charge!GiveBack(r) \/ UNCHANGED Charge!chargeVars) /\ PaidInv'
<1>1. /\ entries' = entries /\ reservation[r].status = "settled"
      /\ \A x \in Reservation :
           /\ reservation'[x].status = reservation[x].status
           /\ reservation'[x].segments = reservation[x].segments
           /\ \A l \in Lot : held'[x][l].segments = held[x][l].segments
      /\ Extended(Len(lots), lots, lots')
      /\ \A i \in Added : \E name \in AllRefundKinds, l \in Lot : lots'[i].key = <<name, r, l>>
  BY RefundArm DEF ChargeInv
<1>2. PaidInv' /\ \A x \in Reservation : PaidBy(x)' = PaidBy(x)
  BY <1>1, PaidAside DEF ChargeInv
<1>3. \A i \in Added : IsRefundOf(i, r)' /\ \A x \in Reservation \ {r} : ~IsRefundOf(i, x)'
  BY <1>1 DEF IsRefundOf
<1>4. \A x \in Reservation \ {r} : ReturnedTo(x)' = ReturnedTo(x)
  BY <1>1, <1>3, ReturnsKept DEF ChargeInv
<1>5. CASE Added = {}
  <2>1. ReturnedTo(r)' = ReturnedTo(r)
    BY <1>1, <1>5, ReturnsKept DEF ChargeInv
  <2> QED BY <1>1, <1>2, <1>4, <2>1, ChargeStutters
<1>6. ASSUME NEW i \in Added PROVE Charge!GiveBack(r)
  <2>1. /\ ReturnedTo(r) \in Nat /\ ReturnedTo(r)' \in Nat
        /\ ReturnedTo(r)' >= ReturnedTo(r) + 1
    BY <1>1, <1>3, ReturnsGrow DEF ChargeInv
  <2>2. PaidBy(r) = reservation[r].segments /\ reservation[r].segments \in Nat
    <3>1. PaidBy(r) = Units(Debits(r))
      BY <1>1 DEF PaidBy, SettleRows, ChargeInv, PaidInv, DebitsOnSettle
    <3> QED BY <1>1, <3>1, DebitsMakePrice DEF ChargeInv, PaidInv, LedgerInv, TypeOK, ReservationRow
  <2>3. ReturnedTo(r)' <= reservation'[r].segments
    <3>1. ReturnsWithinPrices'
      BY <1>2, ReturnsBoundNext DEF PaidInv
    <3> QED BY <1>1, <3>1 DEF ReturnsWithinPrices
  <2>4. ReturnedTo(r)' \in (ReturnedTo(r) + 1)..PaidBy(r)
    BY <1>1, <2>1, <2>2, <2>3
  <2>5. Phases[r] = "charged" /\ UNCHANGED <<Phases, Prices, Payments>>
    <3>1. Phases[r] = "charged"
      BY <1>1 DEF PhaseOf, Phases
    <3> QED BY <1>1, <1>2, <3>1, FunctionsKept
  <2>6. \E n \in (Returns[r] + 1)..Payments[r] : Returns' = [Returns EXCEPT ![r] = n]
    <3>1. Returns[r] = ReturnedTo(r) /\ Payments[r] = PaidBy(r)
      BY DEF Returns, Payments
    <3>2. Returns' = [Returns EXCEPT ![r] = ReturnedTo(r)']
      BY <1>4 DEF Returns
    <3> QED BY <2>4, <3>1, <3>2
  <2> QED BY <2>5, <2>6 DEF Charge!GiveBack, Phases, Prices, Payments, Returns
<1> QED BY <1>2, <1>5, <1>6

\* Steps of the other components, and the late overprediction callback, which
\* writes down the provider's figure and no more, leave the promise alone.
LEMMA ChargeAside ==
  ASSUME ChargeInv, UNCHANGED <<reservation, held>>, Extended(Len(lots), lots, lots'),
         \A i \in Added : lots'[i].key[1] \notin AllRefundKinds,
         entries \subseteq entries', \A e \in entries' : e \in entries \/ e.key[1] # "sms-settle"
  PROVE  UNCHANGED Charge!chargeVars /\ PaidInv'
<1>1. PaidInv' /\ \A r \in Reservation : PaidBy(r)' = PaidBy(r)
  BY PaidAside DEF ChargeInv
<1>2. \A i \in Added, r \in Reservation : ~IsRefundOf(i, r)'
  BY DEF IsRefundOf
<1>3. \A r \in Reservation : ReturnedTo(r)' = ReturnedTo(r)
  BY <1>2, ReturnsKept DEF ChargeInv
<1> QED BY <1>1, <1>3, ChargeStutters

LEMMA ChargeStep ==
  ChargeInv /\ PlacesInv /\ LedgerInv' /\ RefundInv' /\ [Next]_vars =>
    [Charge!Next]_(Charge!chargeVars) /\ PaidInv'
<1> DEFINE Maps == [Charge!Next]_(Charge!chargeVars) /\ PaidInv'
<1> SUFFICES ASSUME ChargeInv, PlacesInv, LedgerInv', RefundInv', [Next]_vars PROVE Maps
  OBVIOUS
<1>1. ASSUME NEW t \in Clock, NEW r \in Reservation, NEW k \in DedupeKey,
             NEW n \in 1..MaxSegments, ReserveSmsCredits(r, k, n, t)
      PROVE  Maps
  <2>1. PaidInv' /\ Charge!Hold(r)
    BY <1>1, PaidReserve, ChargeHold DEF ChargeInv
  <2> QED BY <2>1 DEF Charge!Next
<1>2. ASSUME NEW t \in Clock, NEW r \in Reservation, SettleReservationOnAccept(r, t)
      PROVE  Maps
  <2>1. PaidInv' /\ Charge!Charge(r)
    BY <1>2, PaidSettle, ChargeSettle DEF ChargeInv
  <2> QED BY <2>1 DEF Charge!Next
<1>3. ASSUME NEW t \in Clock, NEW r \in Reservation, ReleaseReservation(r, t)
      PROVE  Maps
  <2>1. PaidInv' /\ Charge!LetGo(r)
    BY <1>3, ChargeRelease
  <2> QED BY <2>1 DEF Charge!Next
<1>4. ASSUME NEW t \in Clock, NEW r \in Reservation,
             \/ RefundTerminalFailure(r, t)
             \/ \E actual \in 0..MaxSegments : RefundOverpredictedSegments(r, actual, t)
      PROVE  Maps
  <2>1. (Charge!GiveBack(r) \/ UNCHANGED Charge!chargeVars) /\ PaidInv'
    BY <1>4, ChargeRefund
  <2> QED BY <2>1 DEF Charge!Next
<1>5. ASSUME UNCHANGED <<reservation, held, entries, lots>> PROVE Maps
  BY <1>5, ChargeAside, ExtendedBySelf DEF ChargeInv
<1>6. ASSUME NEW p \in Purchase, NEW t \in Clock, TopupSessionCompleted(p, t) PROVE Maps
  <2>1. "topup-grant" \notin AllRefundKinds
    BY DEF AllRefundKinds, TerminalKinds, OverpredictKinds
  <2>2. \A i \in Added : lots'[i].key[1] = "topup-grant"
    BY <1>6, FulfilmentAdds DEF ChargeInv
  <2> QED BY <1>6, <2>1, <2>2, FulfilmentAdds, ChargeAside DEF ChargeInv
<1>7. ASSUME NEW p \in Purchase, NEW row, Reversal(p, row), row.key[1] # "sms-settle" PROVE Maps
  <2>1. /\ UNCHANGED <<reservation, held, lots>> /\ entries \subseteq entries'
        /\ \A e \in entries' : e \in entries \/ e.key[1] # "sms-settle"
    BY <1>7 DEF Reversal, AppendNegativeEntries
  <2> QED BY <2>1, ChargeAside, ExtendedBySelf DEF ChargeInv
<1>8. ASSUME NEW p \in Purchase, NEW t \in Clock,
             \/ \E cents \in 1..TopupCents : ReverseTopupRefund(p, cents, t)
             \/ ReverseTopupDispute(p, t)
      PROVE  Maps
  <2>1. \E row : Reversal(p, row) /\ row.key[1] # "sms-settle"
    <3>1. ASSUME NEW cents \in 1..TopupCents, ReverseTopupRefund(p, cents, t)
          PROVE  \E row : Reversal(p, row) /\ row.key[1] = "topup-reversal"
      <4>1. PICK row : Reversal(p, row) /\ row.key = <<"topup-reversal", p, cents>>
        BY <3>1, RefundReversalAdds DEF ChargeInv
      <4> QED BY <4>1
    <3>2. ASSUME ReverseTopupDispute(p, t)
          PROVE  \E row : Reversal(p, row) /\ row.key[1] = "dispute-reversal"
      <4>1. PICK row : Reversal(p, row) /\ row.key = <<"dispute-reversal", p, 0>>
        BY <3>2, DisputeReversalAdds DEF ChargeInv
      <4> QED BY <4>1
    <3>3. \A row : row.key[1] \in {"topup-reversal", "dispute-reversal"} => row.key[1] # "sms-settle"
      OBVIOUS
    <3> QED BY <1>8, <3>1, <3>2, <3>3
  <2> QED BY <1>7, <2>1
<1>9. ASSUME NEW t \in Clock, NEW g \in Grant, GrantLot(g, t) PROVE Maps
  <2>1. "grant" \notin AllRefundKinds
    BY DEF AllRefundKinds, TerminalKinds, OverpredictKinds
  <2> QED BY <1>9, <2>1, GrantLotAdds, ChargeAside DEF ChargeInv
<1>10. ASSUME NEW t \in Clock, ExpireLapsedLots(t) PROVE Maps
  <2>1. UNCHANGED <<reservation, held, lots>>
    BY <1>10 DEF ExpireLapsedLots
  <2>2. PICK E \in SUBSET EntryRow :
          AppendNegativeEntries(E) /\ \A e \in E : e.key = <<"expiry", "sweep", e.lot>>
    BY <1>10, ExpiryRows DEF ChargeInv
  <2>3. /\ entries \subseteq entries'
        /\ \A e \in entries' : e \in entries \/ e.key[1] # "sms-settle"
    BY <2>2 DEF AppendNegativeEntries
  <2> QED BY <2>1, <2>3, ChargeAside, ExtendedBySelf DEF ChargeInv
<1> HIDE DEF Maps
<1>11. CASE Message
  BY <1>1, <1>2, <1>3, <1>4, <1>11 DEF Message, ReapExpiredReservation
<1>12. CASE Topup
  BY <1>5, <1>6, <1>8, <1>12 DEF Topup, TopupSessionExpired, StripeRefunds, StripeDisputes
<1>13. CASE Bookkeeping
  BY <1>5, <1>9, <1>10, <1>13 DEF Bookkeeping, Tick
<1>14. CASE UNCHANGED vars
  BY <1>5, <1>14 DEF vars
<1> QED BY <1>11, <1>12, <1>13, <1>14 DEF Next

LEMMA ChargeInit == Init => Charge!Init
<1> SUFFICES ASSUME Init PROVE Charge!Init
  OBVIOUS
<1>1. ASSUME NEW r \in Reservation
      PROVE  /\ PhaseOf[reservation[r].status] = "none" /\ reservation[r].segments = 0
             /\ PaidBy(r) = 0 /\ ReturnedTo(r) = 0
  <2>1. reservation[r].status = "none" /\ reservation[r].segments = 0
    BY DEF Init, NoReservation
  <2>2. SettleRows(r) = {} /\ Refunds(r) = {}
    BY DEF Init, SettleRows, Refunds, LotIds
  <2>3. PaidBy(r) = 0
    BY <2>2, TotalEmpty DEF PaidBy, SettleRows, Units
  <2>4. ReturnedTo(r) = 0
    BY <2>2, TotalEmpty, ReturnedIs
  <2> QED BY <2>1, <2>3, <2>4 DEF PhaseOf
<1> QED BY <1>1 DEF Charge!Init

\* Read through its ledger rows, every reservation is charged its price once
\* or not at all, and is never given back more than it paid.
THEOREM LedgerChargesOnce == Spec => ImplementsMessageCharge
<1>1. Init => Charge!Init /\ PaidInv
  BY ChargeInit, PaidInit
<1>2. BackingInv /\ BackingInv' => LedgerInv /\ PlacesInv /\ LedgerInv'
  BY DEF BackingInv
<1>3. LedgerInv /\ RefundInv /\ [Next]_vars => RefundInv'
  BY RefundStep
<1>4. LedgerInv /\ RefundInv /\ PaidInv => ChargeInv
  BY DEF ChargeInv
<1> QED BY <1>1, <1>2, <1>3, <1>4, RefundInit, BackingInvariant, ChargeStep, PTL
        DEF Spec, ImplementsMessageCharge
=============================================================================
