---------------------------- MODULE EscrowProofs ----------------------------
(***************************************************************************)
(* Proofs about Escrow: the inductive invariant IInv, the money and        *)
(* attestation properties it gives, and the refinement of EscrowLedger.    *)
(* Owed counts ether by naming every unit, so that sums of deposits are    *)
(* cardinalities and the library's facts about finite sets apply.          *)
(***************************************************************************)
EXTENDS Escrow, FiniteSetTheorems, SequenceTheorems, TLAPS

Units(id, k, n) == {id} \X {k} \X (1 .. n)

-----------------------------------------------------------------------------
(* Counting units of ether.                                                *)

\* The cardinality of a disjoint union and of the rest of a set.
LEMMA DisjointUnion ==
    ASSUME NEW S, NEW T, IsFiniteSet(S), IsFiniteSet(T), S \cap T = {}
    PROVE  /\ IsFiniteSet(S \cup T)
           /\ Cardinality(S \cup T) = Cardinality(S) + Cardinality(T)
<1>1. Cardinality(S \cap T) = 0
    BY FS_EmptySet
<1>2. /\ IsFiniteSet(S \cup T)
      /\ Cardinality(S \cup T) =
            Cardinality(S) + Cardinality(T) - Cardinality(S \cap T)
    BY FS_Union
<1>3. Cardinality(S) \in Nat /\ Cardinality(T) \in Nat
    BY FS_CardinalityType
<1> QED BY <1>1, <1>2, <1>3

\* The rest of a set has the elements the part does not.
LEMMA RestOfSet ==
    ASSUME NEW S, NEW T, IsFiniteSet(S), T \subseteq S
    PROVE  Cardinality(S \ T) = Cardinality(S) - Cardinality(T)
<1>1. S \cap T = T
    OBVIOUS
<1>2. Cardinality(S \ T) = Cardinality(S) - Cardinality(S \cap T)
    BY FS_Difference
<1> QED BY <1>1, <1>2

\* There are as many units of a tier as its amount.
LEMMA UnitsCount ==
    ASSUME NEW id, NEW k, NEW n \in Nat
    PROVE  IsFiniteSet(Units(id, k, n)) /\ Cardinality(Units(id, k, n)) = n
<1> DEFINE f == [i \in 1 .. n |-> <<id, k, i>>]
<1>1. f \in Bijection(1 .. n, Units(id, k, n))
  <2>1. f \in [1 .. n -> Units(id, k, n)]
      BY DEF Units
  <2>2. ASSUME NEW i \in 1 .. n, NEW j \in 1 .. n, f[i] = f[j]
        PROVE  i = j
      BY <2>2
  <2>3. ASSUME NEW u \in Units(id, k, n)
        PROVE  \E i \in 1 .. n : f[i] = u
    <3>1. u = <<id, k, u[3]>> /\ u[3] \in 1 .. n
        BY DEF Units
    <3> QED BY <3>1
  <2> QED BY <2>1, <2>2, <2>3 DEF Bijection, Injection, Surjection, IsInjective
<1>2. ExistsBijection(1 .. n, Units(id, k, n))
    BY <1>1 DEF ExistsBijection
<1>3. IsFiniteSet(1 .. n) /\ Cardinality(1 .. n) = n
    BY FS_Interval
<1> QED BY <1>2, <1>3, FS_Bijection

\* What the escrow owes is a finite number of units.
LEMMA OwedFinite ==
    ASSUME NEW b
    PROVE  /\ IsFiniteSet(Ledger!Owed(b))
           /\ Cardinality(Ledger!Owed(b)) \in Nat
<1> DEFINE P == (TradeIds \X {1, 2}) \X (1 .. MaxUint)
           Q == TradeIds \X {1, 2} \X (1 .. MaxUint)
           f == [p \in P |-> <<p[1][1], p[1][2], p[2]>>]
<1>1. IsFiniteSet(P)
  <2>1. IsFiniteSet({1, 2})
    <3>1. {1, 2} = 1 .. 2
        OBVIOUS
    <3>2. \A n \in Nat : IsFiniteSet(1 .. n)
        BY FS_Interval
    <3>3. IsFiniteSet(1 .. 2)
        BY <3>2
    <3> QED BY <3>1, <3>3
  <2>2. IsFiniteSet(1 .. MaxUint)
      BY FS_Interval, ValueAssumption
  <2> QED BY <2>1, <2>2, TradeIdAssumption, FS_Product
<1>2. f \in Surjection(P, Q)
  <2>1. f \in [P -> Q]
      OBVIOUS
  <2>2. ASSUME NEW q \in Q PROVE \E p \in P : f[p] = q
    <3>1. <<<<q[1], q[2]>>, q[3]>> \in P
        OBVIOUS
    <3>2. f[<<<<q[1], q[2]>>, q[3]>>] = q
        BY <3>1
    <3> QED BY <3>1, <3>2
  <2> QED BY <2>1, <2>2 DEF Surjection
<1>3. IsFiniteSet(Q)
    BY <1>1, <1>2, FS_Surjection
<1>4. Ledger!Owed(b) \in SUBSET Q
    BY DEF Ledger!Owed
<1>5. IsFiniteSet(Ledger!Owed(b))
    BY <1>3, <1>4, FS_Subset
<1> QED BY <1>5, FS_CardinalityType

Book == [TradeIds -> Trade \cup {NoTrade}]

\* An open trade has the type of one.
LEMMA OpenIsTrade ==
    ASSUME NEW b \in Book, NEW id \in TradeIds, b[id].buyer # ZeroAddress
    PROVE  b[id] \in Trade
BY DEF Book, NoTrade

\* Opening a trade owes its two amounts more.
LEMMA OwedAfterOpen ==
    ASSUME NEW b \in Book, NEW id \in TradeIds, NEW t \in Trade,
           b[id].buyer = ZeroAddress,
           t.settled = [k \in Tiers |-> FALSE]
    PROVE  Cardinality(Ledger!Owed([b EXCEPT ![id] = t]))
             = Cardinality(Ledger!Owed(b)) + t.amount[1] + t.amount[2]
<1> DEFINE c == [b EXCEPT ![id] = t]
           O == Ledger!Owed(b)
           U1 == Units(id, 1, t.amount[1])
           U2 == Units(id, 2, t.amount[2])
<1>1. /\ t.amount[1] \in 0 .. MaxUint /\ t.amount[2] \in 0 .. MaxUint
      /\ t.buyer # ZeroAddress
      /\ t.settled[1] = FALSE /\ t.settled[2] = FALSE
    BY AddressAssumption DEF Trade, Uint, Tiers
<1>2. Ledger!Owed(c) = O \cup (U1 \cup U2)
  <2>1. ASSUME NEW u \in Ledger!Owed(c) PROVE u \in O \cup (U1 \cup U2)
    <3>1. /\ u \in TradeIds \X {1, 2} \X (1 .. MaxUint)
          /\ c[u[1]].buyer # ZeroAddress
          /\ ~c[u[1]].settled[u[2]]
          /\ u[3] <= c[u[1]].amount[u[2]]
        BY <2>1 DEF Ledger!Owed, Ledger!IsOpen
    <3>2. CASE u[1] = id
      <4>1. c[u[1]] = t
          BY <3>2 DEF Book
      <4>2. u[3] \in 1 .. t.amount[u[2]]
          BY <1>1, <3>1, <4>1, ValueAssumption
      <4> QED BY <3>1, <3>2, <4>2 DEF Units
    <3>3. CASE u[1] # id
        BY <3>1, <3>3 DEF Ledger!Owed, Ledger!IsOpen, Book
    <3> QED BY <3>2, <3>3
  <2>2. ASSUME NEW u \in O PROVE u \in Ledger!Owed(c)
      BY <2>2 DEF Ledger!Owed, Ledger!IsOpen, Book
  <2>3. ASSUME NEW u \in U1 \cup U2 PROVE u \in Ledger!Owed(c)
    <3>1. /\ u \in TradeIds \X {1, 2} \X (1 .. MaxUint)
          /\ u[1] = id /\ u[3] <= t.amount[u[2]]
        BY <1>1, ValueAssumption DEF Units
    <3>2. c[u[1]] = t
        BY <3>1 DEF Book
    <3> QED BY <1>1, <3>1, <3>2 DEF Ledger!Owed, Ledger!IsOpen
  <2> QED BY <2>1, <2>2, <2>3
<1>3. U1 \cap U2 = {} /\ O \cap (U1 \cup U2) = {}
    BY DEF Units, Ledger!Owed, Ledger!IsOpen
<1>4. /\ IsFiniteSet(U1) /\ Cardinality(U1) = t.amount[1]
      /\ IsFiniteSet(U2) /\ Cardinality(U2) = t.amount[2]
    BY <1>1, UnitsCount, ValueAssumption
<1>5. /\ IsFiniteSet(U1 \cup U2)
      /\ Cardinality(U1 \cup U2) = t.amount[1] + t.amount[2]
  <2> HIDE DEF U1, U2
  <2> QED BY <1>3, <1>4, DisjointUnion
<1>6. Cardinality(O \cup (U1 \cup U2)) = Cardinality(O) + t.amount[1] + t.amount[2]
  <2>1. IsFiniteSet(O) /\ Cardinality(O) \in Nat
      BY OwedFinite
  <2> HIDE DEF O, U1, U2
  <2>2. Cardinality(O \cup (U1 \cup U2)) = Cardinality(O) + Cardinality(U1 \cup U2)
      BY <2>1, <1>3, <1>5, DisjointUnion
  <2> QED BY <2>1, <2>2, <1>1, <1>5
<1> QED BY <1>2, <1>6

\* Settling a tier owes its amount less.
LEMMA OwedAfterSettle ==
    ASSUME NEW b \in Book, NEW id \in TradeIds, NEW k \in Tiers,
           b[id].buyer # ZeroAddress,
           ~b[id].settled[k]
    PROVE  Cardinality(Ledger!Owed([b EXCEPT ![id].settled[k] = TRUE]))
             = Cardinality(Ledger!Owed(b)) - b[id].amount[k]
<1> DEFINE c == [b EXCEPT ![id].settled[k] = TRUE]
           O == Ledger!Owed(b)
           U == Units(id, k, b[id].amount[k])
<1>1. /\ b[id] \in Trade
      /\ b[id].amount[k] \in 0 .. MaxUint
      /\ b[id].settled \in [Tiers -> BOOLEAN]
    BY OpenIsTrade DEF Trade, Uint
<1>2. /\ c[id].buyer = b[id].buyer
      /\ c[id].amount = b[id].amount
      /\ c[id].settled = [b[id].settled EXCEPT ![k] = TRUE]
      /\ \A j \in TradeIds : j # id => c[j] = b[j]
    BY <1>1 DEF Book, Trade
<1>3. Ledger!Owed(c) = O \ U
  <2>1. ASSUME NEW u \in TradeIds \X {1, 2} \X (1 .. MaxUint)
        PROVE  u \in Ledger!Owed(c) <=> u \in O \ U
    <3>1. CASE u[1] # id
      <4>1. u \notin U
          BY <3>1 DEF Units
      <4>2. c[u[1]] = b[u[1]]
          BY <1>2, <3>1
      <4> QED BY <4>1, <4>2 DEF Ledger!Owed, Ledger!IsOpen
    <3>2. CASE u[1] = id /\ u[2] # k
      <4>1. u \notin U
          BY <3>2 DEF Units
      <4>2. c[u[1]].settled[u[2]] = b[u[1]].settled[u[2]]
          BY <1>1, <1>2, <3>2 DEF Tiers
      <4> QED BY <1>2, <3>2, <4>1, <4>2 DEF Ledger!Owed, Ledger!IsOpen
    <3>3. CASE u[1] = id /\ u[2] = k
      <4>1. u \notin Ledger!Owed(c)
          BY <1>1, <1>2, <3>3 DEF Ledger!Owed, Tiers
      <4>2. u \in O => u \in U
          BY <1>1, <3>3, ValueAssumption DEF Ledger!Owed, Units
      <4> QED BY <4>1, <4>2
    <3> QED BY <3>1, <3>2, <3>3
  <2> QED BY <2>1 DEF Ledger!Owed
<1>4. U \subseteq O
  <2>1. ASSUME NEW u \in U PROVE u \in O
    <3>1. /\ u \in TradeIds \X {1, 2} \X (1 .. MaxUint)
          /\ u[1] = id /\ u[2] = k /\ u[3] <= b[id].amount[k]
        BY <1>1, ValueAssumption DEF Units, Tiers
    <3> QED BY <3>1 DEF Ledger!Owed, Ledger!IsOpen
  <2> QED BY <2>1
<1>5. IsFiniteSet(U) /\ Cardinality(U) = b[id].amount[k]
    BY <1>1, UnitsCount, ValueAssumption
<1>6. Cardinality(O \ U) = Cardinality(O) - b[id].amount[k]
  <2>1. IsFiniteSet(O)
      BY OwedFinite
  <2> HIDE DEF O, U
  <2> QED BY <2>1, <1>4, <1>5, RestOfSet
<1> QED BY <1>3, <1>6

-----------------------------------------------------------------------------
(* The inductive invariant, one lemma per action.                          *)

\* While a settlement is in progress it is the only frame, and popping it
\* leaves none.
LEMMA OneFrame ==
    ASSUME TypeOK, GuardHeld, stack # <<>>
    PROVE  /\ Len(stack) = 1
           /\ Top = stack[1]
           /\ Top \in SavedFrame
           /\ Pop = <<>>
           /\ DOMAIN stack = {1}
<1>1. stack \in Seq(SavedFrame)
    BY DEF TypeOK
<1>2. Len(stack) = 1
  <2> DEFINE n == Len(stack)
  <2>1. n \in Nat \ {0}
      BY <1>1, EmptySeq
  <2>2. n <= 1
      BY DEF GuardHeld
  <2>3. n = 1
    <3> HIDE DEF n
    <3> QED BY <2>1, <2>2
  <2> QED BY <2>3
<1>3. Pop = <<>>
    BY <1>1, <1>2 DEF Pop
<1> QED BY <1>1, <1>2, <1>3 DEF Top

\* The frames have their type.
LEMMA FrameType ==
    ASSUME TypeOK
    PROVE  \A i \in DOMAIN stack : stack[i] \in SavedFrame
<1>1. stack \in [1 .. Len(stack) -> SavedFrame]
    BY DEF TypeOK
<1> QED BY <1>1

\* A transfer within the sender's means leaves every balance a natural.
LEMMA Transfer ==
    ASSUME NEW b \in [Holders -> Nat], NEW x \in Holders, NEW y \in Holders,
           x # y, NEW n \in Nat, n <= b[x]
    PROVE  [b EXCEPT ![x] = @ - n, ![y] = @ + n] \in [Holders -> Nat]
OBVIOUS

\* The initial state satisfies the invariant.
LEMMA InitInv == Init => IInv
<1> SUFFICES ASSUME Init PROVE IInv
    OBVIOUS
<1>1. TypeOK
  <2>1. balance \in [Holders -> Nat]
      BY ValueAssumption DEF Init
  <2>2. stack \in Seq(SavedFrame)
      BY EmptySeq DEF Init
  <2> QED BY <2>1, <2>2 DEF Init, TypeOK
<1>2. NoDust
  <2>1. Ledger!Owed(trades) = {}
      BY DEF Init, Ledger!Owed, Ledger!IsOpen, NoTrade
  <2>2. balance[EscrowAddr] = 0 /\ donated = 0
      BY DEF Init, Holders
  <2> QED BY <2>1, <2>2, FS_EmptySet DEF NoDust
<1>3. CallbackConfined /\ ReentrancySound
  <2>1. stack = <<>> /\ DOMAIN stack = {} /\ Len(stack) = 0 /\ entered = FALSE
      BY DEF Init
  <2> QED BY <2>1 DEF CallbackConfined, ReentrancySound, GuardHeld, SavedSound
<1> QED BY <1>1, <1>2, <1>3 DEF IInv

\* Publishing an attestation keeps it.
LEMMA AttestInv ==
    ASSUME IInv, NEW sig \in Attestation, Attest(sig)
    PROVE  IInv'
<1> USE DEF IInv, Attest, chain
<1>1. TypeOK'
    BY DEF TypeOK
<1>2. NoDust'
    BY DEF NoDust
<1>3. CallbackConfined' /\ ReentrancySound'
    BY DEF CallbackConfined, ReentrancySound, GuardHeld, SavedSound
<1> QED BY <1>1, <1>2, <1>3

\* Registering, rotating or removing a verifier keeps it.
LEMMA RegisterInv ==
    ASSUME IInv, NEW s \in Accounts, NEW f \in Formats,
           NEW v \in Verifiers \cup {ZeroAddress}, Register(s, f, v)
    PROVE  IInv'
<1> USE DEF IInv, Register
<1>1. TypeOK'
    BY DEF TypeOK
<1>2. NoDust'
    BY DEF NoDust
<1>3. CallbackConfined' /\ ReentrancySound'
    BY DEF CallbackConfined, ReentrancySound, GuardHeld, SavedSound
<1> QED BY <1>1, <1>2, <1>3

\* Ether forced on the escrow keeps it: it is counted apart.
LEMMA ForceEtherInv ==
    ASSUME IInv, NEW s \in Accounts, NEW v \in Uint \ {0}, ForceEther(s, v)
    PROVE  IInv'
<1> USE DEF IInv, ForceEther
<1>1. /\ v \in Nat /\ v <= balance[s] /\ donated' = donated + v
      /\ balance' = [balance EXCEPT ![s] = @ - v, ![EscrowAddr] = @ + v]
      /\ s # EscrowAddr /\ s \in Holders /\ EscrowAddr \in Holders
    BY ValueAssumption, AddressAssumption DEF Uint, Holders
<1>2. TypeOK'
  <2>1. balance \in [Holders -> Nat] /\ donated \in Nat
      BY DEF TypeOK
  <2>2. balance' \in [Holders -> Nat] /\ donated' \in Nat
      BY <1>1, <2>1
  <2> QED BY <2>2 DEF TypeOK
<1>3. NoDust'
  <2>1. balance'[EscrowAddr] = balance[EscrowAddr] + v
      BY <1>1 DEF TypeOK
  <2> QED BY <1>1, <2>1, OwedFinite DEF NoDust, TypeOK
<1>4. CallbackConfined'
    BY DEF CallbackConfined
<1>5. ReentrancySound'
  <2>1. donated <= donated' /\ donated \in Nat /\ donated' \in Nat
      BY <1>1 DEF TypeOK
  <2>2. \A i \in DOMAIN stack : stack[i].donated \in Nat
      BY FrameType DEF SavedFrame
  <2> QED BY <2>1, <2>2 DEF ReentrancySound, GuardHeld, SavedSound
<1> QED BY <1>2, <1>3, <1>4, <1>5

\* Opening a trade, from outside or inside a callback, keeps it.
LEMMA OpenTradeInv ==
    ASSUME IInv, NEW s \in Accounts, NEW id \in TradeIds,
           NEW to \in Accounts \cup {ZeroAddress},
           NEW t1 \in Uint, NEW t2 \in Uint, NEW v \in Uint,
           NEW r \in Receipts, NEW f \in Formats,
           OpenTrade(s, id, to, t1, t2, v, r, f)
    PROVE  IInv'
<1> DEFINE t == [buyer |-> s, seller |-> to,
                 amount |-> [k \in Tiers |-> IF k = 1 THEN t1 ELSE t2],
                 receipt |-> r, format |-> f,
                 settled |-> [k \in Tiers |-> FALSE]]
<1>1. /\ trades[id].buyer = ZeroAddress
      /\ trades' = [trades EXCEPT ![id] = t]
      /\ balance' = [balance EXCEPT ![s] = @ - v, ![EscrowAddr] = @ + v]
      /\ v = t1 + t2 /\ v <= balance[s] /\ v \in Nat
      /\ s # EscrowAddr /\ s \in Holders /\ EscrowAddr \in Holders
      /\ UNCHANGED <<verifiers, donated, signed, entered, stack>>
    BY AddressAssumption, ValueAssumption DEF OpenTrade, Fresh, Exists, ExactValue, Holders, Uint
<1>2. t \in Trade /\ t.amount[1] = t1 /\ t.amount[2] = t2
    BY DEF OpenTrade, SellerGiven, Trade, Tiers
<1>3. /\ trades \in Book
      /\ balance \in [Holders -> Nat] /\ balance[EscrowAddr] \in Nat
      /\ donated \in Nat
    BY <1>1 DEF IInv, TypeOK, Book
<1> HIDE DEF t
<1>4. TypeOK'
  <2>1. trades' \in Book
      BY <1>1, <1>2, <1>3 DEF Book
  <2>2. balance' \in [Holders -> Nat]
      BY <1>1, <1>3
  <2> QED BY <1>1, <2>1, <2>2 DEF IInv, TypeOK, Book
<1>5. NoDust'
  <2>1. Cardinality(Ledger!Owed(trades')) = Cardinality(Ledger!Owed(trades)) + t1 + t2
    <3>1. t.settled = [k \in Tiers |-> FALSE]
        BY DEF t
    <3> QED BY <1>1, <1>2, <1>3, <3>1, OwedAfterOpen
  <2>2. balance'[EscrowAddr] = balance[EscrowAddr] + v
      BY <1>1, <1>3
  <2>3. Cardinality(Ledger!Owed(trades)) \in Nat
      BY OwedFinite
  <2> QED BY <1>1, <1>3, <2>1, <2>2, <2>3, ValueAssumption DEF IInv, NoDust, Uint
<1>6. CallbackConfined'
  <2>1. ASSUME NEW i \in DOMAIN stack, NEW j \in TradeIds,
               stack[i].trades[j].buyer # ZeroAddress
        PROVE  trades'[j] = trades[j]
    <3>1. trades[j].buyer # ZeroAddress
      <4>1. stack[i].trades[j] \in Trade
        <5>1. stack[i].trades \in Book
            BY FrameType DEF SavedFrame, Book, IInv
        <5> QED BY <2>1, <5>1, OpenIsTrade
      <4>2. trades[j] = IF j = stack[i].id
                        THEN [stack[i].trades[j] EXCEPT !.settled[stack[i].tier] = TRUE]
                        ELSE stack[i].trades[j]
          BY <2>1 DEF IInv, CallbackConfined
      <4>3. trades[j].buyer = stack[i].trades[j].buyer
          BY <4>1, <4>2 DEF Trade
      <4> QED BY <2>1, <4>3
    <3> QED BY <1>1, <1>3, <3>1 DEF Book
  <2> QED BY <1>1, <2>1 DEF IInv, CallbackConfined
<1>7. ReentrancySound'
  <2>1. ASSUME NEW j \in TradeIds, NEW k \in Tiers, ~trades[j].settled[k]
        PROVE  ~trades'[j].settled[k]
    <3>1. ~t.settled[k]
        BY DEF t
    <3> QED BY <1>1, <1>3, <2>1, <3>1 DEF Book
  <2> QED BY <1>1, <2>1 DEF IInv, ReentrancySound, GuardHeld, SavedSound
<1> QED BY <1>4, <1>5, <1>6, <1>7 DEF IInv

\* What a settlement's checks establish about the attestation it was given.
LEMMA SettleChecks ==
    ASSUME TypeOK, NEW id \in TradeIds, NEW k \in Tiers, NEW p,
           NEW sig \in signed,
           Settle(id, k, Digest(ThisDomain, trades[id].receipt, k, p), sig)
    PROVE  /\ sig.digest = Digest(ThisDomain, trades[id].receipt, k, p)
           /\ sig.signer = verifiers[trades[id].format]
           /\ sig.signer # ZeroAddress
           /\ trades[id] \in Trade
<1> DEFINE d == Digest(ThisDomain, trades[id].receipt, k, p)
<1>1. /\ Recover(d, sig) = verifiers[trades[id].format]
      /\ trades[id].buyer # ZeroAddress
      /\ verifiers[trades[id].format] # ZeroAddress
    BY DEF Settle, Exists
<1>2. trades[id] \in Trade
    BY <1>1, OpenIsTrade DEF TypeOK, Book
<1>3. verifiers[trades[id].format] \in Verifiers
    BY <1>1, <1>2 DEF TypeOK, Trade
<1>4. sig.digest = d
    BY <1>1, <1>3, AddressAssumption DEF Recover
<1> QED BY <1>1, <1>2, <1>4 DEF Recover

\* Starting a settlement keeps it: the flag and the payment move together.
LEMMA SettleInv ==
    ASSUME IInv, NEW id \in TradeIds, NEW k \in Tiers, NEW p,
           k = 1 => p = NoPubkey, k = 2 => p \in Pubkeys,
           NEW sig \in signed,
           Settle(id, k, Digest(ThisDomain, trades[id].receipt, k, p), sig)
    PROVE  IInv'
<1> DEFINE t == trades[id]
           a == t.amount[k]
           frame == [id |-> id, tier |-> k, seller |-> t.seller,
                     trades |-> trades, verifiers |-> verifiers,
                     balance |-> balance, donated |-> donated]
<1>1. TypeOK /\ NoDust /\ GuardHeld
    BY DEF IInv, ReentrancySound
<1>2. /\ sig.digest = Digest(ThisDomain, t.receipt, k, p)
      /\ sig.signer = verifiers[t.format]
      /\ t \in Trade
      /\ t.buyer # ZeroAddress
    BY <1>1, SettleChecks, OpenIsTrade, AddressAssumption DEF Trade
<1>3. /\ ~entered /\ ~t.settled[k]
      /\ a <= balance[EscrowAddr]
      /\ trades' = [trades EXCEPT ![id].settled[k] = TRUE]
      /\ balance' = [balance EXCEPT ![EscrowAddr] = @ - a, ![t.seller] = @ + a]
      /\ entered' = TRUE
      /\ stack' = Append(stack, frame)
      /\ UNCHANGED <<verifiers, donated, signed>>
    BY DEF Settle, NonReentrant, Unsettled
<1>4. stack = <<>>
    BY <1>1, <1>3 DEF GuardHeld
<1>5. a \in Nat /\ t.seller \in Holders /\ t.seller # EscrowAddr /\ EscrowAddr \in Holders
    BY <1>2, ValueAssumption, AddressAssumption DEF Trade, Uint, Holders
<1>6. trades \in Book /\ balance \in [Holders -> Nat] /\ donated \in Nat
    BY <1>1 DEF TypeOK, Book
<1>7. frame \in SavedFrame
    BY <1>1, <1>2 DEF TypeOK, SavedFrame, Trade
<1>8. stack' = <<frame>> /\ stack' \in Seq(SavedFrame) /\ Len(stack') = 1
      /\ DOMAIN stack' = {1} /\ stack'[1] = frame
    BY <1>3, <1>4, <1>7
<1>9. TypeOK'
  <2>1. balance' \in [Holders -> Nat]
    <3> HIDE DEF a, t
    <3> QED BY <1>3, <1>5, <1>6, Transfer
  <2>2. trades' \in Book
    <3>1. [t EXCEPT !.settled[k] = TRUE] \in Trade
        BY <1>2 DEF Trade
    <3>2. trades' = [trades EXCEPT ![id] = [t EXCEPT !.settled[k] = TRUE]]
        BY <1>3
    <3> QED BY <1>6, <3>1, <3>2 DEF Book
  <2> QED BY <1>1, <1>3, <1>8, <2>1, <2>2 DEF TypeOK, Book
<1>10. NoDust'
  <2>1. Cardinality(Ledger!Owed(trades')) = Cardinality(Ledger!Owed(trades)) - a
      BY <1>2, <1>3, <1>6, OwedAfterSettle
  <2>2. balance'[EscrowAddr] = balance[EscrowAddr] - a
      BY <1>3, <1>5, <1>6
  <2>3. Cardinality(Ledger!Owed(trades)) \in Nat
      BY OwedFinite
  <2> QED BY <1>1, <1>3, <1>5, <1>6, <2>1, <2>2, <2>3 DEF NoDust
<1>11. CallbackConfined'
  <2>1. \A j \in TradeIds :
           trades'[j] = IF j = id THEN [trades[j] EXCEPT !.settled[k] = TRUE]
                        ELSE trades[j]
      BY <1>3, <1>6 DEF Book
  <2> QED BY <1>8, <2>1 DEF CallbackConfined
<1>12. ReentrancySound'
  <2>1. GuardHeld'
      BY <1>3, <1>8 DEF GuardHeld
  <2>2. \A j \in TradeIds, m \in Tiers :
            trades[j].buyer = ZeroAddress => ~trades'[j].settled[m]
    <3>1. ASSUME NEW j \in TradeIds, NEW m \in Tiers, trades[j].buyer = ZeroAddress
          PROVE  ~trades'[j].settled[m]
      <4>1. trades[j] = NoTrade
          BY <1>6, <3>1, AddressAssumption DEF Book, Trade
      <4>2. trades'[j] = trades[j]
          BY <1>2, <1>3, <1>6, <3>1 DEF Book
      <4> QED BY <4>1, <4>2 DEF NoTrade
    <3> QED BY <3>1
  <2>3. /\ sig \in signed'
        /\ sig.digest.domain = ThisDomain
        /\ sig.digest.receipt = t.receipt
        /\ sig.digest.tier = k
        /\ sig.digest.pubkey = p
      BY <1>2, <1>3 DEF Digest
  <2>4. SavedSound'
    <3> SUFFICES ASSUME NEW i \in DOMAIN stack'
                 PROVE  /\ stack'[i] = frame
                        /\ frame.trades[frame.id].buyer # ZeroAddress
                        /\ ~frame.trades[frame.id].settled[frame.tier]
                        /\ frame.balance[EscrowAddr]
                             = Cardinality(Ledger!Owed(frame.trades)) + frame.donated
                        /\ frame.donated <= donated'
                        /\ \A j \in TradeIds, m \in Tiers :
                              frame.trades[j].buyer = ZeroAddress
                                 => ~trades'[j].settled[m]
                        /\ \E s \in signed' :
                             /\ s.digest.domain = ThisDomain
                             /\ s.digest.receipt = frame.trades[frame.id].receipt
                             /\ s.digest.tier = frame.tier
                             /\ frame.tier = 1 => s.digest.pubkey = NoPubkey
                             /\ frame.tier = 2 => s.digest.pubkey \in Pubkeys
                             /\ s.signer = frame.verifiers[frame.trades[frame.id].format]
        BY DEF SavedSound
    <3>1. stack'[i] = frame
        BY <1>8
    <3>2. frame.donated <= donated'
        BY <1>3, <1>6
    <3>3. frame.balance[EscrowAddr] = Cardinality(Ledger!Owed(frame.trades)) + frame.donated
        BY <1>1 DEF NoDust
    <3> QED BY <1>2, <1>3, <2>2, <2>3, <3>1, <3>2, <3>3
  <2> QED BY <2>1, <2>4 DEF ReentrancySound
<1> QED BY <1>9, <1>10, <1>11, <1>12 DEF IInv

\* A settlement that returns keeps it.
LEMMA SettleReturnsInv ==
    ASSUME IInv, SettleReturns
    PROVE  IInv'
<1>1. /\ TypeOK /\ stack' = <<>> /\ entered' = FALSE
      /\ UNCHANGED <<trades, verifiers, balance, donated, signed>>
    BY OneFrame DEF IInv, ReentrancySound, SettleReturns, chain
<1>2. stack' \in Seq(SavedFrame) /\ DOMAIN stack' = {} /\ Len(stack') = 0
    BY <1>1, EmptySeq
<1>3. TypeOK'
    BY <1>1, <1>2 DEF TypeOK
<1>4. NoDust'
    BY <1>1 DEF IInv, NoDust
<1>5. CallbackConfined' /\ ReentrancySound'
    BY <1>1, <1>2 DEF CallbackConfined, ReentrancySound, GuardHeld, SavedSound
<1> QED BY <1>3, <1>4, <1>5 DEF IInv

\* A settlement that reverts keeps it: it goes back to a sound state.
LEMMA SettleRevertsInv ==
    ASSUME IInv, SettleReverts
    PROVE  IInv'
<1>1. /\ TypeOK /\ SavedSound
      /\ Top = stack[1] /\ Top \in SavedFrame /\ 1 \in DOMAIN stack
      /\ stack' = <<>> /\ entered' = FALSE /\ signed' = signed
      /\ trades' = Top.trades /\ verifiers' = Top.verifiers
      /\ balance' = Top.balance /\ donated' = Top.donated
    BY OneFrame DEF IInv, ReentrancySound, SettleReverts
<1>2. stack' \in Seq(SavedFrame) /\ DOMAIN stack' = {} /\ Len(stack') = 0
    BY <1>1, EmptySeq
<1>3. TypeOK'
    BY <1>1, <1>2 DEF TypeOK, SavedFrame
<1>4. NoDust'
    BY <1>1 DEF SavedSound, NoDust
<1>5. CallbackConfined' /\ ReentrancySound'
    BY <1>1, <1>2 DEF CallbackConfined, ReentrancySound, GuardHeld, SavedSound
<1> QED BY <1>3, <1>4, <1>5 DEF IInv

\* The invariant is inductive.
LEMMA NextInv == IInv /\ [Next]_vars => IInv'
<1> SUFFICES ASSUME IInv, [Next]_vars PROVE IInv'
    OBVIOUS
<1>1. ASSUME NEW sig \in Attestation, Attest(sig) PROVE IInv'
    BY <1>1, AttestInv
<1>2. ASSUME NEW s \in Accounts, NEW f \in Formats,
             NEW v \in Verifiers \cup {ZeroAddress}, Register(s, f, v)
      PROVE  IInv'
    BY <1>2, RegisterInv
<1>3. ASSUME NEW s \in Accounts, NEW id \in TradeIds,
             NEW to \in Accounts \cup {ZeroAddress},
             NEW t1 \in Uint, NEW t2 \in Uint, NEW v \in Uint,
             NEW r \in Receipts, NEW f \in Formats,
             OpenTrade(s, id, to, t1, t2, v, r, f)
      PROVE  IInv'
    BY <1>3, OpenTradeInv
<1>4. ASSUME NEW id \in TradeIds, NEW sig \in signed, SettleTier1(id, sig)
      PROVE  IInv'
    BY <1>4, SettleInv DEF SettleTier1, Tiers
<1>5. ASSUME NEW id \in TradeIds, NEW p \in Pubkeys, NEW sig \in signed,
             SettleTier2(id, p, sig)
      PROVE  IInv'
    BY <1>5, SettleInv DEF SettleTier2, Tiers
<1>6. CASE SettleReturns
    BY <1>6, SettleReturnsInv
<1>7. CASE SettleReverts
    BY <1>7, SettleRevertsInv
<1>8. ASSUME NEW s \in Accounts, NEW v \in Uint \ {0}, ForceEther(s, v)
      PROVE  IInv'
    BY <1>8, ForceEtherInv
<1>9. CASE UNCHANGED vars
    BY <1>9 DEF vars, IInv, TypeOK, NoDust, CallbackConfined, ReentrancySound,
                GuardHeld, SavedSound
<1> QED BY <1>1, <1>2, <1>3, <1>4, <1>5, <1>6, <1>7, <1>8, <1>9 DEF Next

\* The invariant holds in every reachable state.
LEMMA Inductive == Spec => []IInv
BY InitInv, NextInv, PTL DEF Spec

-----------------------------------------------------------------------------
\* Every variable keeps its type.
THEOREM TypeCorrect == Spec => []TypeOK
<1>1. IInv => TypeOK
    BY DEF IInv
<1> QED BY <1>1, Inductive, PTL

\* The escrow holds exactly what it owes and what was forced on it, for any
\* set of trades, sellers and amounts, also inside a seller's call.
THEOREM ExactBacking == Spec => []NoDust
<1>1. IInv => NoDust
    BY DEF IInv
<1> QED BY <1>1, Inductive, PTL

\* Whatever a seller calls while it is being paid, no other trade changes.
THEOREM CallbacksConfined == Spec => []CallbackConfined
<1>1. IInv => CallbackConfined
    BY DEF IInv
<1> QED BY <1>1, Inductive, PTL

\* At most one settlement is in progress, and the state it would be undone to is
\* that of the moment it was called (Escrow.sol's nonReentrant and its revert).
THEOREM OneCanBeUndone == Spec => []ReentrancySound
<1>1. IInv => ReentrancySound
    BY DEF IInv
<1> QED BY <1>1, Inductive, PTL

-----------------------------------------------------------------------------
(* Settlement rests on a current attestation.                              *)

\* A step sets no settled flag but that of the tier it settles.
LEMMA SettleSetsOneFlag ==
    ASSUME TypeOK, NEW id \in TradeIds, NEW k \in Tiers, NEW digest, NEW sig,
           Settle(id, k, digest, sig),
           NEW j \in TradeIds, NEW m \in Tiers,
           ~trades[j].settled[m], trades'[j].settled[m]
    PROVE  j = id /\ m = k
<1>1. /\ trades' = [trades EXCEPT ![id].settled[k] = TRUE]
      /\ trades[id].buyer # ZeroAddress
      /\ trades \in Book
    BY DEF Settle, Exists, TypeOK, Book
<1>2. trades[id] \in Trade
    BY <1>1, OpenIsTrade
<1>3. j = id
    BY <1>1 DEF Book
<1>4. trades'[id].settled = [trades[id].settled EXCEPT ![k] = TRUE]
    BY <1>1, <1>2 DEF Book, Trade
<1> QED BY <1>2, <1>3, <1>4 DEF Trade

\* A settlement sets its flag on an attestation it has checked.
LEMMA SettleIsAttested ==
    ASSUME TypeOK, NEW id \in TradeIds, NEW k \in Tiers, NEW p,
           NEW sig \in signed,
           Settle(id, k, Digest(ThisDomain, trades[id].receipt, k, p), sig)
    PROVE  SettledOnAttestation
<1>1. /\ sig.digest = Digest(ThisDomain, trades[id].receipt, k, p)
      /\ sig.signer = verifiers[trades[id].format]
    BY SettleChecks
<1>2. /\ sig.digest.domain = ThisDomain
      /\ sig.digest.receipt = trades[id].receipt
      /\ sig.digest.tier = k
    BY <1>1 DEF Digest
<1> QED BY <1>1, <1>2, SettleSetsOneFlag DEF SettledOnAttestation

\* So does every step that sets a flag.
LEMMA StepAttested == IInv /\ [Next]_vars => [SettledOnAttestation]_vars
<1> SUFFICES ASSUME IInv, Next PROVE SettledOnAttestation
    OBVIOUS
<1> USE DEF IInv
<1>1. CASE UNCHANGED trades
    BY <1>1 DEF SettledOnAttestation
<1>2. ASSUME NEW s \in Accounts, NEW id \in TradeIds,
             NEW to \in Accounts \cup {ZeroAddress},
             NEW t1 \in Uint, NEW t2 \in Uint, NEW v \in Uint,
             NEW r \in Receipts, NEW f \in Formats,
             OpenTrade(s, id, to, t1, t2, v, r, f)
      PROVE  SettledOnAttestation
  <2>1. ASSUME NEW j \in TradeIds, NEW k \in Tiers, ~trades[j].settled[k]
        PROVE  ~trades'[j].settled[k]
      BY <1>2, <2>1 DEF OpenTrade, TypeOK
  <2> QED BY <2>1 DEF SettledOnAttestation
<1>3. ASSUME NEW id \in TradeIds, NEW sig \in signed, SettleTier1(id, sig)
      PROVE  SettledOnAttestation
    BY <1>3, SettleIsAttested DEF SettleTier1, Tiers
<1>4. ASSUME NEW id \in TradeIds, NEW p \in Pubkeys, NEW sig \in signed,
             SettleTier2(id, p, sig)
      PROVE  SettledOnAttestation
    BY <1>4, SettleIsAttested DEF SettleTier2, Tiers
<1>5. CASE SettleReverts
  <2>1. /\ Top = stack[1] /\ 1 \in DOMAIN stack /\ trades' = stack[1].trades
        /\ stack[1].trades \in Book
      BY <1>5, OneFrame DEF ReentrancySound, SettleReverts, SavedFrame, Book
  <2>2. ASSUME NEW j \in TradeIds, NEW k \in Tiers, stack[1].trades[j].settled[k]
        PROVE  trades[j].settled[k]
    <3>1. stack[1].trades[j].buyer # ZeroAddress /\ stack[1].trades[j] \in Trade
        BY <2>1, <2>2, AddressAssumption DEF Book, NoTrade, Trade
    <3>2. trades[j] = IF j = stack[1].id
                      THEN [stack[1].trades[j] EXCEPT !.settled[stack[1].tier] = TRUE]
                      ELSE stack[1].trades[j]
        BY <2>1, <3>1 DEF CallbackConfined
    <3> QED BY <2>2, <3>1, <3>2 DEF Trade
  <2> QED BY <2>1, <2>2 DEF SettledOnAttestation
<1>6. ASSUME NEW sig \in Attestation, Attest(sig) PROVE SettledOnAttestation
    BY <1>1, <1>6 DEF Attest, chain
<1>7. ASSUME NEW s \in Accounts, NEW f \in Formats,
             NEW v \in Verifiers \cup {ZeroAddress}, Register(s, f, v)
      PROVE  SettledOnAttestation
    BY <1>1, <1>7 DEF Register
<1>8. CASE SettleReturns
    BY <1>1, <1>8 DEF SettleReturns, chain
<1>9. ASSUME NEW s \in Accounts, NEW v \in Uint \ {0}, ForceEther(s, v)
      PROVE  SettledOnAttestation
    BY <1>1, <1>9 DEF ForceEther
<1> QED BY <1>2, <1>3, <1>4, <1>5, <1>6, <1>7, <1>8, <1>9 DEF Next

\* For any number of trades, verifiers and rotations: a settled flag is set
\* only on an attestation of that receipt and tier, under this domain, by
\* the verifier registered at that moment.
THEOREM SettlementAuthorised == Spec => SettledOnlyOnAttestation
BY Inductive, StepAttested, PTL DEF Spec, SettledOnlyOnAttestation

-----------------------------------------------------------------------------
(* The refinement of EscrowLedger.                                         *)

\* The instance of EscrowLedger counts as this module does.
LEMMA SameCount ==
    ASSUME NEW S
    PROVE  Ledger!Cardinality(S) = Cardinality(S)
BY DEF Ledger!Cardinality, Cardinality

\* A step outside any settlement that keeps the open trades and sets no flag
\* is a ledger transaction.
LEMMA IdleTransaction ==
    ASSUME IInv, IInv', stack = <<>>, stack' = <<>>,
           signed \subseteq signed', donated <= donated',
           \A id \in TradeIds : trades[id].buyer # ZeroAddress => trades'[id] = trades[id],
           \A id \in TradeIds, k \in Tiers :
               ~trades[id].settled[k] => ~trades'[id].settled[k]
    PROVE  Ledger!Transaction
<1>1. /\ CommittedTrades = trades /\ CommittedTrades' = trades'
      /\ CommittedVault' = balance'[EscrowAddr]
      /\ CommittedGifts = donated /\ CommittedGifts' = donated'
    BY DEF CommittedTrades, CommittedVault, CommittedGifts
<1>2. Ledger!Paid = {}
    BY <1>1 DEF Ledger!Paid, Tiers
<1>3. CommittedVault' = Ledger!Cardinality(Ledger!Owed(CommittedTrades')) + CommittedGifts'
    BY <1>1, SameCount DEF IInv, NoDust
<1>4. \A id \in TradeIds : Ledger!IsOpen(CommittedTrades, id) =>
            /\ Ledger!SameTerms(CommittedTrades[id], CommittedTrades'[id])
            /\ \A k \in {1, 2} : CommittedTrades[id].settled[k]
                                    => CommittedTrades'[id].settled[k]
    BY <1>1 DEF Ledger!IsOpen, Ledger!SameTerms
<1>5. CommittedGifts <= CommittedGifts'
    BY <1>1
<1> QED BY <1>2, <1>3, <1>4, <1>5 DEF Ledger!Transaction

\* A settlement that returns commits everything its call did, as one
\* transaction.
LEMMA ReturnTransaction ==
    ASSUME IInv, IInv', SettleReturns
    PROVE  Ledger!Transaction
<1> DEFINE f == stack[1]
<1>1. /\ stack # <<>> /\ stack' = <<>> /\ 1 \in DOMAIN stack
      /\ f \in SavedFrame
      /\ UNCHANGED <<trades, verifiers, balance, donated, signed>>
    BY OneFrame DEF IInv, ReentrancySound, SettleReturns, chain
<1>2. /\ CommittedTrades = f.trades /\ CommittedTrades' = trades
      /\ CommittedVerifiers = f.verifiers
      /\ CommittedVault' = balance[EscrowAddr]
      /\ CommittedGifts = f.donated /\ CommittedGifts' = donated
    BY <1>1 DEF CommittedTrades, CommittedVerifiers, CommittedVault, CommittedGifts
<1>3. f.trades \in Book /\ f.id \in TradeIds /\ f.tier \in Tiers
    BY <1>1 DEF SavedFrame, Book
<1>4. \A id \in TradeIds : f.trades[id].buyer # ZeroAddress =>
            /\ f.trades[id] \in Trade
            /\ trades[id] = IF id = f.id
                            THEN [f.trades[id] EXCEPT !.settled[f.tier] = TRUE]
                            ELSE f.trades[id]
    BY <1>1, <1>3, OpenIsTrade DEF IInv, CallbackConfined
<1>5. /\ f.trades[f.id].buyer # ZeroAddress
      /\ f.donated <= donated
      /\ \A id \in TradeIds, k \in Tiers :
             f.trades[id].buyer = ZeroAddress => ~trades[id].settled[k]
      /\ \E sig \in signed :
             /\ sig.digest.domain = ThisDomain
             /\ sig.digest.receipt = f.trades[f.id].receipt
             /\ sig.digest.tier = f.tier
             /\ f.tier = 1 => sig.digest.pubkey = NoPubkey
             /\ f.tier = 2 => sig.digest.pubkey \in Pubkeys
             /\ sig.signer = f.verifiers[f.trades[f.id].format]
    BY <1>1 DEF IInv, ReentrancySound, SavedSound
<1> HIDE DEF f
<1>6. \A id \in TradeIds : f.trades[id].buyer # ZeroAddress =>
            /\ Ledger!SameTerms(f.trades[id], trades[id])
            /\ \A k \in Tiers : f.trades[id].settled[k] => trades[id].settled[k]
            /\ \A k \in Tiers : ~f.trades[id].settled[k] /\ trades[id].settled[k]
                                   => id = f.id /\ k = f.tier
  <2> SUFFICES ASSUME NEW id \in TradeIds, f.trades[id].buyer # ZeroAddress
               PROVE  /\ Ledger!SameTerms(f.trades[id], trades[id])
                      /\ \A k \in Tiers : f.trades[id].settled[k] => trades[id].settled[k]
                      /\ \A k \in Tiers : ~f.trades[id].settled[k] /\ trades[id].settled[k]
                                             => id = f.id /\ k = f.tier
      OBVIOUS
  <2>1. f.trades[id] \in Trade
      BY <1>4
  <2>2. CASE id = f.id
    <3>1. trades[id] = [f.trades[id] EXCEPT !.settled[f.tier] = TRUE]
        BY <1>4, <2>2
    <3>2. Ledger!SameTerms(f.trades[id], trades[id])
        BY <2>1, <3>1 DEF Trade, Ledger!SameTerms
    <3>3. trades[id].settled = [f.trades[id].settled EXCEPT ![f.tier] = TRUE]
        BY <2>1, <3>1 DEF Trade
    <3>4. f.trades[id].settled \in [Tiers -> BOOLEAN]
        BY <2>1 DEF Trade
    <3> QED BY <1>3, <2>2, <3>2, <3>3, <3>4
  <2>3. CASE id # f.id
    <3>1. trades[id] = f.trades[id]
        BY <1>4, <2>3
    <3> QED BY <3>1 DEF Ledger!SameTerms
  <2> QED BY <2>2, <2>3
<1>7. \A p \in Ledger!Paid : p = <<f.id, f.tier>>
    BY <1>2, <1>3, <1>5, <1>6 DEF Ledger!Paid, Tiers
<1>8. \E att \in signed : Ledger!Justifies(att, f.trades[f.id], f.tier)
  <2>1. PICK sig \in signed :
             /\ sig.digest.domain = ThisDomain
             /\ sig.digest.receipt = f.trades[f.id].receipt
             /\ sig.digest.tier = f.tier
             /\ f.tier = 1 => sig.digest.pubkey = NoPubkey
             /\ f.tier = 2 => sig.digest.pubkey \in Pubkeys
             /\ sig.signer = f.verifiers[f.trades[f.id].format]
      BY <1>5
  <2>2. sig.signer \in Verifiers
      BY DEF IInv, TypeOK, Attestation
  <2>3. sig.signer # ZeroAddress
      BY <2>2, AddressAssumption
  <2> QED BY <2>1, <2>3, <1>2 DEF Ledger!Justifies
<1>9. CommittedVault' = Ledger!Cardinality(Ledger!Owed(CommittedTrades')) + CommittedGifts'
  <2>1. CommittedTrades' = trades' /\ CommittedGifts' = donated'
        /\ CommittedVault' = balance'[EscrowAddr]
      BY <1>1, <1>2
  <2> QED BY <2>1, SameCount DEF IInv, NoDust
<1>10. \A id \in TradeIds : Ledger!IsOpen(CommittedTrades, id) =>
            /\ Ledger!SameTerms(CommittedTrades[id], CommittedTrades'[id])
            /\ \A k \in {1, 2} : CommittedTrades[id].settled[k]
                                    => CommittedTrades'[id].settled[k]
    BY <1>2, <1>6 DEF Ledger!IsOpen, Tiers
<1>11. \A p, q \in Ledger!Paid : p = q
    BY <1>7
<1>12. \A p \in Ledger!Paid :
            /\ Ledger!IsOpen(CommittedTrades, p[1])
            /\ \E att \in signed : Ledger!Justifies(att, CommittedTrades[p[1]], p[2])
    BY <1>2, <1>5, <1>7, <1>8 DEF Ledger!IsOpen
<1> QED BY <1>1, <1>2, <1>5, <1>9, <1>10, <1>11, <1>12 DEF Ledger!Transaction

\* Inside a transaction nothing is committed.
LEMMA MidTransaction ==
    ASSUME TypeOK, GuardHeld, stack # <<>>, UNCHANGED stack, UNCHANGED signed
    PROVE  UNCHANGED Ledger!ledgerVars
BY DEF Ledger!ledgerVars, CommittedTrades, CommittedVerifiers, CommittedVault,
       CommittedGifts

\* Every step is a ledger transaction or commits nothing.
LEMMA StepRefines ==
    IInv /\ IInv' /\ [Next]_vars => [Ledger!Transaction]_Ledger!ledgerVars
<1> SUFFICES ASSUME IInv, IInv', [Next]_vars
             PROVE  Ledger!Transaction \/ UNCHANGED Ledger!ledgerVars
    OBVIOUS
<1>0. TypeOK /\ GuardHeld
    BY DEF IInv, ReentrancySound
<1>1. ASSUME NEW sig \in Attestation, Attest(sig) PROVE Ledger!Transaction
    BY <1>1, <1>0, IdleTransaction DEF Attest, chain, TypeOK
<1>2. ASSUME NEW s \in Accounts, NEW f \in Formats,
             NEW v \in Verifiers \cup {ZeroAddress}, Register(s, f, v)
      PROVE  Ledger!Transaction \/ UNCHANGED Ledger!ledgerVars
    BY <1>2, <1>0, IdleTransaction, MidTransaction DEF Register, TypeOK
<1>3. ASSUME NEW s \in Accounts, NEW id \in TradeIds,
             NEW to \in Accounts \cup {ZeroAddress},
             NEW t1 \in Uint, NEW t2 \in Uint, NEW v \in Uint,
             NEW r \in Receipts, NEW f \in Formats,
             OpenTrade(s, id, to, t1, t2, v, r, f)
      PROVE  Ledger!Transaction \/ UNCHANGED Ledger!ledgerVars
  <2>1. /\ UNCHANGED <<donated, signed, stack>>
        /\ \A j \in TradeIds : trades[j].buyer # ZeroAddress => trades'[j] = trades[j]
        /\ \A j \in TradeIds, k \in Tiers :
               ~trades[j].settled[k] => ~trades'[j].settled[k]
      BY <1>3, <1>0 DEF OpenTrade, Fresh, Exists, TypeOK
  <2> QED BY <2>1, <1>0, IdleTransaction, MidTransaction DEF TypeOK
<1>4. ASSUME NEW id \in TradeIds, NEW k \in Tiers, NEW digest, NEW sig,
             Settle(id, k, digest, sig)
      PROVE  UNCHANGED Ledger!ledgerVars
  <2>1. /\ stack = <<>> /\ stack' # <<>> /\ UNCHANGED signed
        /\ stack'[1].trades = trades /\ stack'[1].verifiers = verifiers
        /\ stack'[1].balance = balance /\ stack'[1].donated = donated
      BY <1>4, <1>0 DEF Settle, NonReentrant, GuardHeld
  <2> QED BY <2>1 DEF Ledger!ledgerVars, CommittedTrades, CommittedVerifiers,
                      CommittedVault, CommittedGifts
<1>5. CASE SettleReturns
    BY <1>5, ReturnTransaction
<1>6. CASE SettleReverts
  <2>1. /\ stack # <<>> /\ stack' = <<>> /\ UNCHANGED signed
        /\ trades' = stack[1].trades /\ verifiers' = stack[1].verifiers
        /\ balance' = stack[1].balance /\ donated' = stack[1].donated
      BY <1>6, <1>0, OneFrame DEF SettleReverts
  <2> QED BY <2>1 DEF Ledger!ledgerVars, CommittedTrades, CommittedVerifiers,
                      CommittedVault, CommittedGifts
<1>7. ASSUME NEW s \in Accounts, NEW v \in Uint \ {0}, ForceEther(s, v)
      PROVE  Ledger!Transaction \/ UNCHANGED Ledger!ledgerVars
  <2>1. UNCHANGED <<trades, signed, stack>> /\ donated <= donated'
      BY <1>7, <1>0, ValueAssumption DEF ForceEther, Uint, TypeOK
  <2> QED BY <2>1, <1>0, IdleTransaction, MidTransaction DEF TypeOK
<1>8. CASE UNCHANGED vars
    BY <1>8 DEF vars, Ledger!ledgerVars, CommittedTrades, CommittedVerifiers,
                CommittedVault, CommittedGifts
<1> QED BY <1>1, <1>2, <1>3, <1>4, <1>5, <1>6, <1>7, <1>8
        DEF Next, SettleTier1, SettleTier2, Tiers

\* The initial state is an empty ledger.
LEMMA InitRefines == Init => Ledger!LedgerInit
<1> SUFFICES ASSUME Init PROVE Ledger!LedgerInit
    OBVIOUS
<1>1. /\ CommittedTrades = trades /\ CommittedVerifiers = verifiers
      /\ CommittedVault = balance[EscrowAddr] /\ CommittedGifts = donated
    BY DEF Init, CommittedTrades, CommittedVerifiers, CommittedVault, CommittedGifts
<1>2. balance[EscrowAddr] = 0
    BY DEF Init, Holders
<1> QED BY <1>1, <1>2 DEF Init, Ledger!LedgerInit, Ledger!IsOpen, NoTrade

\* For any number of trades, accounts and verifiers, and whatever sellers do
\* while they are paid, the contract implements EscrowLedger.
THEOREM Refinement == Spec => ImplementsLedger
BY Inductive, InitRefines, StepRefines, PTL
   DEF Spec, ImplementsLedger, Ledger!LedgerSpec
=============================================================================
