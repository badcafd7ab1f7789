-------------------------- MODULE BidChoiceProofs --------------------------
(***************************************************************************)
(* What queryMarket's choice among bids returns, for any number of bids.   *)
(* It rests on a set of numbers having a least one.                        *)
(***************************************************************************)
EXTENDS BidChoice, FiniteSetTheorems, WellFoundedInduction, TLAPS

LEMMA LeastNatural ==
    ASSUME NEW S \in SUBSET Nat, S # {}
    PROVE  \E x \in S : \A y \in S : x <= y
<1> DEFINE R == OpToRel(<, Nat)
<1>1. IsWellFoundedOn(R, Nat)
  BY NatLessThanWellFounded
<1>2. \A x, y \in Nat : <<y, x>> \in R <=> y < x
  BY DEF OpToRel
<1> HIDE DEF R
<1>3. PICK x \in S : \A y \in S : <<y, x>> \notin R
  BY <1>1, WFMin
<1>4. \A y \in S : y \in Nat /\ ~(y < x)
  BY <1>2, <1>3
<1>5. \A y \in S : x <= y
  BY <1>4
<1> QED
  BY <1>5

\* Bids have prices that are numbers.
Priced(B) == \A bid \in B : bid.price \in Nat

LEMMA BidsTyped ==
    ASSUME NEW B, Priced(B), NEW b \in Seq(B)
    PROVE  /\ Len(b) \in Nat /\ DOMAIN b = 1 .. Len(b)
           /\ \A i \in DOMAIN b : b[i] \in B /\ b[i].price \in Nat
<1>1. Len(b) \in Nat /\ DOMAIN b = 1 .. Len(b)
  OBVIOUS
<1>2. \A i \in 1 .. Len(b) : b[i] \in B
  OBVIOUS
<1> QED
  BY <1>1, <1>2 DEF Priced

LEMMA CountTyped ==
    ASSUME NEW B, Priced(B), NEW b \in Seq(B), NEW h
    PROVE  /\ IsFiniteSet(DOMAIN b) /\ Cardinality(DOMAIN b) = Len(b)
           /\ IsFiniteSet({i \in DOMAIN b : b[i].hash = h})
           /\ Count(b, h) \in 0 .. Len(b)
<1>1. DOMAIN b = 1 .. Len(b) /\ Len(b) \in Nat
  BY BidsTyped
<1>2. IsFiniteSet(DOMAIN b) /\ Cardinality(DOMAIN b) = Len(b)
  BY <1>1, FS_Interval
<1>3. {i \in DOMAIN b : b[i].hash = h} \in SUBSET DOMAIN b
  OBVIOUS
<1> QED
  BY <1>1, <1>2, <1>3, FS_Subset, FS_CardinalityType DEF Count

LEMMA CheapestIsCheap ==
    ASSUME NEW B, Priced(B), NEW b \in Seq(B), Eligible(b) # {}
    PROVE  \E i \in Eligible(b) :
               /\ Cheapest(b) = b[i]
               /\ \A j \in Eligible(b) : b[i].price <= b[j].price
<1> DEFINE E == Eligible(b)
           P == {b[i].price : i \in E}
<1>1. E \subseteq DOMAIN b /\ \A i \in E : i \in Nat /\ b[i].price \in Nat
  BY BidsTyped DEF Eligible
<1>2. Cheapest(b) = b[CHOOSE i \in E : \A j \in E :
          b[i].price < b[j].price \/ (b[i].price = b[j].price /\ i <= j)]
  BY DEF Cheapest
<1> HIDE DEF E
<1>3. P \in SUBSET Nat /\ P # {}
  BY <1>1 DEF E
<1>4. PICK p \in P : \A q \in P : p <= q
  BY <1>3, LeastNatural
<1> DEFINE I == {i \in E : b[i].price = p}
<1>5. I \in SUBSET Nat /\ I # {}
  BY <1>1, <1>4
<1>6. PICK k \in I : \A i \in I : k <= i
  BY <1>5, LeastNatural
<1>7. k \in E /\ \A j \in E :
          b[k].price < b[j].price \/ (b[k].price = b[j].price /\ k <= j)
  <2> SUFFICES ASSUME NEW j \in E
               PROVE  b[k].price < b[j].price \/ (b[k].price = b[j].price /\ k <= j)
    BY <1>6
  <2>1. b[k].price = p /\ p <= b[j].price /\ p \in Nat /\ b[j].price \in Nat
    BY <1>1, <1>3, <1>4, <1>6
  <2>2. b[j].price = p => k <= j
    BY <1>6
  <2> QED
    BY <2>1, <2>2
<1> DEFINE c == CHOOSE i \in E : \A j \in E :
                b[i].price < b[j].price \/ (b[i].price = b[j].price /\ i <= j)
<1>8. c \in E /\ \A j \in E :
          b[c].price < b[j].price \/ (b[c].price = b[j].price /\ c <= j)
  BY <1>7
<1>9. Cheapest(b) = b[c]
  BY <1>2
<1> HIDE DEF c
<1>10. \A j \in E : b[c].price <= b[j].price
  BY <1>1, <1>8
<1> QED
  BY <1>8, <1>9, <1>10 DEF E

LEMMA ModalIsMostFrequent ==
    ASSUME NEW B, Priced(B), NEW b \in Seq(B), b # <<>>
    PROVE  \E i \in DOMAIN b :
               /\ Modal(b) = b[i].hash
               /\ \A j \in DOMAIN b : Count(b, b[j].hash) <= Count(b, b[i].hash)
<1> DEFINE N(i) == Count(b, b[i].hash)
           Rest == {Len(b) - N(i) : i \in DOMAIN b}
<1>1. /\ Len(b) \in Nat /\ DOMAIN b = 1 .. Len(b) /\ DOMAIN b # {}
      /\ \A i \in DOMAIN b : N(i) \in 0 .. Len(b)
  <2>1. Len(b) \in Nat /\ DOMAIN b = 1 .. Len(b)
    BY BidsTyped
  <2>2. Len(b) # 0
    OBVIOUS
  <2>3. \A i \in DOMAIN b : N(i) \in 0 .. Len(b)
    BY CountTyped
  <2> QED
    BY <2>1, <2>2, <2>3
<1>2. Modal(b) = b[CHOOSE i \in DOMAIN b : \A j \in DOMAIN b :
          \/ N(i) > N(j)
          \/ N(i) = N(j) /\ i <= j].hash
  BY DEF Modal
<1> HIDE DEF N
<1>3. Rest \in SUBSET Nat /\ Rest # {}
  BY <1>1
<1>4. PICK r \in Rest : \A q \in Rest : r <= q
  BY <1>3, LeastNatural
<1> DEFINE I == {i \in DOMAIN b : Len(b) - N(i) = r}
<1>5. I \in SUBSET Nat /\ I # {}
  BY <1>1, <1>4
<1>6. PICK k \in I : \A i \in I : k <= i
  BY <1>5, LeastNatural
<1>7. k \in DOMAIN b /\ \A j \in DOMAIN b : N(k) > N(j) \/ (N(k) = N(j) /\ k <= j)
  <2> SUFFICES ASSUME NEW j \in DOMAIN b
               PROVE  N(k) > N(j) \/ (N(k) = N(j) /\ k <= j)
    BY <1>6
  <2>1. Len(b) - N(k) <= Len(b) - N(j)
    BY <1>4, <1>6
  <2>2. N(k) \in 0 .. Len(b) /\ N(j) \in 0 .. Len(b)
    BY <1>1, <1>6
  <2>3. N(k) >= N(j)
    BY <1>1, <2>1, <2>2
  <2>4. N(k) = N(j) => k <= j
    BY <1>6
  <2> QED
    BY <2>2, <2>3, <2>4
<1> DEFINE c == CHOOSE i \in DOMAIN b : \A j \in DOMAIN b :
                N(i) > N(j) \/ (N(i) = N(j) /\ i <= j)
<1>8. c \in DOMAIN b /\ \A j \in DOMAIN b : N(c) > N(j) \/ (N(c) = N(j) /\ c <= j)
  BY <1>7
<1>9. Modal(b) = b[c].hash
  BY <1>2
<1> HIDE DEF c
<1>10. \A j \in DOMAIN b : N(j) <= N(c)
  BY <1>1, <1>8
<1> QED
  BY <1>8, <1>9, <1>10 DEF N

LEMMA MajorityIsModal ==
    ASSUME NEW B, Priced(B), NEW b \in Seq(B), NEW h, 2 * Count(b, h) > Len(b)
    PROVE  Modal(b) = h
<1> DEFINE With(g) == {i \in DOMAIN b : b[i].hash = g}
<1>1. /\ Len(b) \in Nat
      /\ IsFiniteSet(DOMAIN b) /\ Cardinality(DOMAIN b) = Len(b)
      /\ \A g : Count(b, g) \in 0 .. Len(b) /\ Count(b, g) = Cardinality(With(g))
  BY BidsTyped, CountTyped DEF Count
<1>2. With(h) # {}
  <2>1. Cardinality(With(h)) # 0
    BY <1>1
  <2> QED
    BY <2>1, FS_EmptySet
<1>3. b # <<>>
  BY <1>2
<1>4. PICK i \in DOMAIN b :
          /\ Modal(b) = b[i].hash
          /\ \A j \in DOMAIN b : Count(b, b[j].hash) <= Count(b, b[i].hash)
  BY <1>3, ModalIsMostFrequent
<1>5. Count(b, h) <= Count(b, Modal(b))
  BY <1>2, <1>4
<1>6. Cardinality(With(h)) + Cardinality(With(Modal(b))) > Cardinality(DOMAIN b)
  BY <1>1, <1>5
<1>7. With(h) \cap With(Modal(b)) # {}
  BY <1>1, <1>6, FS_MajoritiesIntersect
<1> QED
  BY <1>7

LEMMA CountsAgreeing ==
    ASSUME NEW B, Priced(B), NEW b \in Seq(B), NEW bid \in B, NEW h
    PROVE  Count(Append(b, bid), h) =
               IF bid.hash = h THEN Count(b, h) + 1 ELSE Count(b, h)
<1> DEFINE c == Append(b, bid)
           With == {i \in DOMAIN b : b[i].hash = h}
           n == Len(b) + 1
<1>1. /\ Len(b) \in Nat /\ DOMAIN b = 1 .. Len(b)
      /\ DOMAIN c = 1 .. n /\ c[n] = bid
      /\ \A i \in 1 .. Len(b) : c[i] = b[i]
  OBVIOUS
<1>2. {i \in DOMAIN c : c[i].hash = h} =
          IF bid.hash = h THEN With \cup {n} ELSE With
  BY <1>1
<1>3. IsFiniteSet(With)
  BY CountTyped
<1>4. n \notin With
  BY <1>1
<1> QED
  BY <1>2, <1>3, <1>4, FS_AddElement DEF Count

\* One more bid for the agreed hash keeps it the agreed hash.
LEMMA ModalStays ==
    ASSUME NEW B, Priced(B), NEW b \in Seq(B), b # <<>>,
           NEW bid \in B, bid.hash = Modal(b)
    PROVE  Modal(Append(b, bid)) = Modal(b)
<1> DEFINE c == Append(b, bid)
           n == Len(b) + 1
<1>1. /\ Len(b) \in Nat /\ DOMAIN b = 1 .. Len(b)
      /\ c \in Seq(B) /\ c # <<>> /\ DOMAIN c = 1 .. n /\ c[n] = bid
      /\ \A i \in 1 .. Len(b) : c[i] = b[i]
  OBVIOUS
<1>2. PICK i \in DOMAIN b :
          /\ Modal(b) = b[i].hash
          /\ \A j \in DOMAIN b : Count(b, b[j].hash) <= Count(b, b[i].hash)
  BY ModalIsMostFrequent
<1>3. PICK k \in DOMAIN c :
          /\ Modal(c) = c[k].hash
          /\ \A j \in DOMAIN c : Count(c, c[j].hash) <= Count(c, c[k].hash)
  BY <1>1, ModalIsMostFrequent
<1>4. \A h : Count(b, h) \in Nat
  <2>1. \A h : Count(b, h) \in 0 .. Len(b)
    BY CountTyped
  <2> QED
    BY <1>1, <2>1
<1>5. /\ Count(c, Modal(b)) = Count(b, Modal(b)) + 1
      /\ \A h : h # Modal(b) => Count(c, h) = Count(b, h)
  BY CountsAgreeing
<1>6. Count(c, Modal(b)) <= Count(c, Modal(c))
  <2>1. n \in DOMAIN c /\ c[n].hash = Modal(b)
    BY <1>1
  <2> QED
    BY <1>3, <2>1
<1>7. CASE k \in DOMAIN b
  <2>1. Modal(c) = b[k].hash
    BY <1>1, <1>3, <1>7
  <2>2. Count(b, Modal(c)) <= Count(b, Modal(b))
    BY <1>2, <1>7, <2>1
  <2> QED
    BY <1>4, <1>5, <1>6, <2>2
<1>8. CASE k \notin DOMAIN b
  BY <1>1, <1>3, <1>8
<1> QED
  BY <1>7, <1>8

-----------------------------------------------------------------------------
(* The order in which the bids arrived.                                    *)

\* Bids in another order count the same.
LEMMA ReorderedCounts ==
    ASSUME NEW B, Priced(B), NEW b \in Seq(B),
           NEW p \in Bijection(DOMAIN b, DOMAIN b),
           NEW c, c = Reordered(b, p), NEW h
    PROVE  Count(c, h) = Count(b, h)
<1> DEFINE W == {i \in DOMAIN c : c[i].hash = h}
           V == {i \in DOMAIN b : b[i].hash = h}
           f == [i \in W |-> p[i]]
<1>1. /\ DOMAIN c = DOMAIN b
      /\ \A i \in DOMAIN b : p[i] \in DOMAIN b /\ c[i] = b[p[i]]
      /\ \A i, j \in DOMAIN b : p[i] = p[j] => i = j
      /\ \A j \in DOMAIN b : \E i \in DOMAIN b : p[i] = j
  BY DEF Reordered, Bijection, Injection, Surjection, IsInjective
<1>2. f \in [W -> V]
  BY <1>1
<1>3. \A i, j \in W : f[i] = f[j] => i = j
  BY <1>1
<1>4. ASSUME NEW j \in V PROVE \E i \in W : f[i] = j
  <2>1. PICK i \in DOMAIN b : p[i] = j
    BY <1>1
  <2> QED
    BY <1>1, <2>1
<1> HIDE DEF f
<1>5. f \in Bijection(W, V)
  BY <1>2, <1>3, <1>4 DEF Bijection, Injection, Surjection, IsInjective
<1>6. IsFiniteSet(W)
  <2>1. W \in SUBSET DOMAIN b
    BY <1>1
  <2> QED
    BY <2>1, CountTyped, FS_Subset
<1>7. ExistsBijection(W, V)
  BY <1>5 DEF ExistsBijection
<1> QED
  BY <1>6, <1>7, FS_Bijection DEF Count

LEMMA ReorderedBids ==
    ASSUME NEW B, Priced(B), NEW b \in Seq(B),
           NEW p \in Bijection(DOMAIN b, DOMAIN b),
           NEW c, c = Reordered(b, p)
    PROVE  /\ c \in Seq(B) /\ DOMAIN c = DOMAIN b
           /\ \A i \in DOMAIN b : p[i] \in DOMAIN b /\ c[i] = b[p[i]]
           /\ \A j \in DOMAIN b : \E i \in DOMAIN b : p[i] = j
<1>1. /\ DOMAIN c = DOMAIN b
      /\ \A i \in DOMAIN b : p[i] \in DOMAIN b /\ c[i] = b[p[i]]
      /\ \A j \in DOMAIN b : \E i \in DOMAIN b : p[i] = j
  BY DEF Reordered, Bijection, Injection, Surjection
<1>2. DOMAIN b = 1 .. Len(b) /\ Len(b) \in Nat /\ \A i \in DOMAIN b : b[i] \in B
  BY BidsTyped
<1>3. c = [i \in 1 .. Len(b) |-> b[p[i]]]
  BY <1>2 DEF Reordered
<1>4. c \in [1 .. Len(b) -> B]
  BY <1>1, <1>2, <1>3
<1>5. c \in Seq(B)
  BY <1>2, <1>4
<1> QED
  BY <1>1, <1>5

LEMMA ReorderedChoice ==
    ASSUME NEW B, Priced(B), NEW b \in Seq(B), b # <<>>, ~Tied(b),
           NEW p \in Bijection(DOMAIN b, DOMAIN b),
           NEW c, c = Reordered(b, p)
    PROVE  /\ Modal(c) = Modal(b)
           /\ Eligible(b) # {} <=> Eligible(c) # {}
           /\ Eligible(b) # {} => Cheapest(c).price = Cheapest(b).price
<1>1. /\ c \in Seq(B) /\ DOMAIN c = DOMAIN b
      /\ \A i \in DOMAIN b : p[i] \in DOMAIN b /\ c[i] = b[p[i]]
      /\ \A j \in DOMAIN b : \E i \in DOMAIN b : p[i] = j
  BY ReorderedBids
<1>2. \A h : Count(c, h) = Count(b, h) /\ Count(b, h) \in Nat
  <2>1. \A h : Count(b, h) \in 0 .. Len(b) /\ Len(b) \in Nat
    BY BidsTyped, CountTyped
  <2> QED
    BY <2>1, ReorderedCounts
<1>3. c # <<>>
  BY <1>1
<1>4. PICK i \in DOMAIN b :
          /\ Modal(b) = b[i].hash
          /\ \A j \in DOMAIN b : Count(b, b[j].hash) <= Count(b, b[i].hash)
  BY ModalIsMostFrequent
<1>5. PICK k \in DOMAIN c :
          /\ Modal(c) = c[k].hash
          /\ \A j \in DOMAIN c : Count(c, c[j].hash) <= Count(c, c[k].hash)
  BY <1>1, <1>3, ModalIsMostFrequent
<1>6. Modal(c) = Modal(b)
  <2>1. PICK l \in DOMAIN c : p[l] = i
    BY <1>1
  <2>2. c[l].hash = Modal(b)
    BY <1>1, <1>4, <2>1
  <2>3. Count(b, Modal(b)) <= Count(b, Modal(c))
    BY <1>2, <1>5, <2>2
  <2>4. p[k] \in DOMAIN b /\ b[p[k]].hash = Modal(c)
    BY <1>1, <1>5
  <2>5. Count(b, Modal(c)) <= Count(b, Modal(b))
    BY <1>4, <2>4
  <2>6. Count(b, Modal(c)) = Count(b, Modal(b))
    BY <1>2, <2>3, <2>5
  <2> QED
    BY <2>4, <2>6 DEF Tied
<1>7. /\ \A j \in Eligible(c) : p[j] \in Eligible(b) /\ c[j] = b[p[j]]
      /\ \A j \in Eligible(b) : \E l \in Eligible(c) : p[l] = j
  <2>1. /\ Eligible(b) = {i1 \in DOMAIN b : b[i1].hash = Modal(b) /\ b[i1].price <= Budget}
        /\ Eligible(c) = {i1 \in DOMAIN b : c[i1].hash = Modal(b) /\ c[i1].price <= Budget}
    BY <1>1, <1>6 DEF Eligible
  <2>2. \A j \in Eligible(c) : p[j] \in Eligible(b) /\ c[j] = b[p[j]]
    BY <1>1, <2>1
  <2>3. ASSUME NEW j \in Eligible(b) PROVE \E l \in Eligible(c) : p[l] = j
    <3>1. PICK l \in DOMAIN b : p[l] = j
      BY <1>1, <2>1
    <3> QED
      BY <1>1, <2>1, <3>1
  <2> QED
    BY <2>2, <2>3
<1>8. ASSUME Eligible(b) # {} PROVE Cheapest(c).price = Cheapest(b).price
  <2>1. PICK m \in Eligible(b) :
            /\ Cheapest(b) = b[m]
            /\ \A j \in Eligible(b) : b[m].price <= b[j].price
    BY <1>8, CheapestIsCheap
  <2>2. PICK n \in Eligible(c) :
            /\ Cheapest(c) = c[n]
            /\ \A j \in Eligible(c) : c[n].price <= c[j].price
    BY <1>1, <1>7, <1>8, CheapestIsCheap
  <2>3. PICK l \in Eligible(c) : p[l] = m
    BY <1>7
  <2>4. c[n].price <= b[m].price
    BY <1>7, <2>2, <2>3
  <2>5. b[m].price <= c[n].price
    BY <1>7, <2>1
  <2>6. b[m].price \in Nat /\ c[n].price \in Nat
    BY <1>1, BidsTyped DEF Eligible
  <2> QED
    BY <2>1, <2>2, <2>4, <2>5, <2>6
<1> QED
  BY <1>6, <1>7, <1>8
=============================================================================
