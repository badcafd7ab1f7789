--------------------------- MODULE ReceiptsProofs ---------------------------
(***************************************************************************)
(* Proofs about Receipts, for any prompts, lengths, keys and verifiers:    *)
(* what a supplier holds is what its prover makes of the query             *)
(* (HonestBids), and every later artefact, attestations, trade and file,   *)
(* is a function of the receipt delivered (SameReceipt).                   *)
(***************************************************************************)
EXTENDS Receipts, TLAPS

Stages == {"idle", "asked", "delivered", "refused", "open", "rejected", "saved"}

Queries ==
    [in : Prompts, max : 0 .. MaxAsked, format : Formats]

Types ==
    /\ stage \in Stages
    /\ stage # "idle" => query \in Queries
    /\ registry \in [Formats -> Verifiers]
    /\ DOMAIN bids = {"cache", "fresh"}
    /\ paid \in {{}, {1}, {1, 2}}
    /\ stage \in {"idle", "asked", "delivered", "refused"} => paid = {}

\* The cache has the fixture of the input, a fresh supplier its prover's answer.
HonestBids ==
    /\ bids["cache"] # None =>
           /\ stage # "idle" /\ query.format = "stub"
           /\ bids["cache"] = Fixture(query.in)
    /\ bids["fresh"] # None =>
           /\ stage # "idle"
           /\ bids["fresh"] = WithInput(Prove(query), query)
           /\ query.format = "pd19" => query.in \in Known

TwoAttestations == <<Attest(receipt, 1, None), Attest(receipt, 2, BuyerKey)>>

FileOf ==
    [verifier |-> atts[2].signer, key |-> atts[2].key, att |-> atts[2],
     in |-> atts[1].in, out |-> atts[1].out]

\* All that follows the delivery is made from the receipt delivered.
SameReceipt ==
    /\ stage \in {"delivered", "open", "rejected", "saved"} =>
           receipt.format = query.format /\ atts = TwoAttestations
    /\ stage \in {"open", "rejected", "saved"} => trade = TradeOf(atts[1])
    /\ stage = "saved" => paid = {1, 2} /\ file = FileOf

\* Tier 2 was paid to whoever was in charge then.
PaidInCharge == 2 \in paid => inCharge = SignerOf[query.format]

\* The CLI's answer is about the buyer's key and this deployment.
VerdictRight ==
    verdict # None =>
        /\ stage = "saved"
        /\ verdict.valid <=> verdict.key = BuyerKey /\ verdict.addr = Here

IInv ==
    /\ Types /\ HonestBids /\ SameReceipt /\ PaidInCharge /\ VerdictRight
    /\ OnlyPd19LengthRefused

-----------------------------------------------------------------------------
LEMMA AttsOf ==
    ASSUME atts = TwoAttestations
    PROVE  /\ atts[1] = Attest(receipt, 1, None)
           /\ atts[2] = Attest(receipt, 2, BuyerKey)
BY DEF TwoAttestations

\* What the stub's prover makes, and what is in the cache, is confirmed; PD19 is
\* asked about its default length.
LEMMA HonestAnswers ==
    ASSUME IInv, stage = "asked", NEW kind \in {"cache", "fresh"},
           bids[kind] # None
    PROVE  /\ bids[kind].format = query.format
           /\ ~VerifyAnswers(bids[kind]) =>
                  query.format = "pd19" /\ query.max # Cap
<1>1. CASE kind = "cache"
  BY <1>1 DEF IInv, HonestBids, Fixture, WithInput, StubProve, VerifyAnswers
<1>2. CASE kind = "fresh"
  <2> DEFINE r == bids["fresh"]
  <2>1. r = WithInput(Prove(query), query) /\ query \in Queries
    BY <1>2 DEF IInv, HonestBids, Types
  <2>2. CASE query.format = "stub"
    BY <1>2, <2>1, <2>2 DEF Prove, StubProve, WithInput, VerifyAnswers
  <2>3. CASE query.format = "pd19"
    <3>1. r.format = "pd19" /\ r.in = query.in /\ r.hash = Pd19Hash(query.in, query.max)
      BY <2>1, <2>3 DEF Prove, Pd19Prove, WithInput
    <3>2. query.in \in Known
      BY <1>2, <2>3 DEF IInv, HonestBids
    <3> QED BY <1>2, <2>3, <3>1, <3>2 DEF VerifyAnswers
  <2> QED BY <2>1, <2>2, <2>3, ReceiptAssumption DEF Queries
<1> QED BY <1>1, <1>2

\* The contract's digest of the trade is the one that was signed.
LEMMA ContractAgrees ==
    ASSUME IInv, stage = "open", NEW tier \in {1, 2}
    PROVE  LET digest == Digest(Here, trade.in, trade.out, tier,
                                IF tier = 1 THEN None ELSE BuyerKey)
           IN  /\ Recovered(atts[tier], digest) = SignerOf[query.format]
               /\ trade.format = query.format
               /\ atts[1].signer = SignerOf[query.format]
<1>1. /\ atts[1] = Attest(receipt, 1, None)
      /\ atts[2] = Attest(receipt, 2, BuyerKey)
      /\ receipt.format = query.format
      /\ trade = TradeOf(atts[1])
  BY AttsOf DEF IInv, SameReceipt
<1>2. /\ trade.in = receipt.in /\ trade.out = receipt.out
      /\ trade.format = query.format
  BY <1>1 DEF TradeOf, Attest
<1>3. atts[tier].digest = Digest(Here, trade.in, trade.out, tier,
                                IF tier = 1 THEN None ELSE BuyerKey)
  BY <1>1, <1>2 DEF Attest
<1>4. atts[1].signer = SignerOf[query.format] /\ atts[2].signer = SignerOf[query.format]
  BY <1>1 DEF Attest
<1> QED BY <1>2, <1>3, <1>4 DEF Recovered

\* The CLI's digest is the one that was signed exactly for the buyer's key on
\* this deployment.
LEMMA CliAgrees ==
    ASSUME IInv, stage = "saved", NEW key, NEW addr
    PROVE  (Recovered(file.att, Digest(addr, file.in, file.out, 2, Presented(key)))
              = file.verifier)
           <=> key = BuyerKey /\ addr = Here
<1>1. /\ atts[1] = Attest(receipt, 1, None)
      /\ atts[2] = Attest(receipt, 2, BuyerKey)
      /\ receipt.format = query.format
      /\ file = FileOf
  BY AttsOf DEF IInv, SameReceipt
<1>2. /\ file.att = Attest(receipt, 2, BuyerKey)
      /\ file.in = receipt.in /\ file.out = receipt.out
      /\ file.verifier = SignerOf[query.format]
  BY <1>1 DEF FileOf, Attest
<1>3. file.verifier # None
  <2>1. query \in Queries
    BY DEF IInv, Types
  <2>2. SignerOf[query.format] \in Verifiers
    BY <2>1, ReceiptAssumption DEF Queries
  <2> QED BY <1>2, <2>2, ReceiptAssumption
<1>4. file.att.signer = file.verifier
      /\ file.att.digest = Digest(Here, file.in, file.out, 2, BuyerKey)
  BY <1>1, <1>2 DEF Attest
<1>5. file.att.digest = Digest(addr, file.in, file.out, 2, Presented(key))
        <=> key = BuyerKey /\ addr = Here
  BY <1>4 DEF Digest, Presented
<1> QED BY <1>3, <1>4, <1>5 DEF Recovered
-----------------------------------------------------------------------------
LEMMA InitInv == Init => IInv
BY ReceiptAssumption DEF Init, IInv, Types, Stages, HonestBids, SameReceipt,
   PaidInCharge, VerdictRight, OnlyPd19LengthRefused

LEMMA AskInv ==
    ASSUME IInv, NEW in \in Prompts, NEW max \in 0 .. MaxAsked, NEW f \in Formats,
           Ask(in, max, f)
    PROVE  IInv'
BY DEF Ask, IInv, Types, Stages, Queries, HonestBids, SameReceipt, PaidInCharge,
   VerdictRight, OnlyPd19LengthRefused

LEMMA BidsInv ==
    ASSUME IInv, CacheBids \/ FreshBids
    PROVE  IInv'
<1>1. /\ stage = "asked" /\ Types /\ HonestBids
      /\ UNCHANGED <<stage, query, receipt, atts, trade, paid, registry,
                     inCharge, file, verdict>>
  BY DEF IInv, CacheBids, FreshBids
<1>2. Types'
  BY <1>1 DEF Types, Queries, CacheBids, FreshBids
<1>3. HonestBids'
  <2>1. CASE CacheBids
    BY <1>1, <2>1 DEF CacheBids, HonestBids, Types
  <2>2. CASE FreshBids
    BY <1>1, <2>2 DEF FreshBids, HonestBids, Types
  <2> QED BY <2>1, <2>2
<1>4. (SameReceipt /\ PaidInCharge /\ VerdictRight /\ OnlyPd19LengthRefused)'
  BY <1>1 DEF IInv, SameReceipt, PaidInCharge, VerdictRight, OnlyPd19LengthRefused,
     Types
<1> QED BY <1>2, <1>3, <1>4 DEF IInv

LEMMA DeliverInv ==
    ASSUME IInv, NEW kind \in {"cache", "fresh"}, Deliver(kind)
    PROVE  IInv'
<1>1. /\ stage = "asked" /\ bids[kind] # None /\ receipt' = bids[kind]
      /\ UNCHANGED <<query, bids, trade, paid, registry, inCharge, file, verdict>>
  BY DEF Deliver
<1>2. \/ /\ stage' = "delivered"
         /\ atts' = <<Attest(bids[kind], 1, None), Attest(bids[kind], 2, BuyerKey)>>
      \/ stage' = "refused" /\ ~VerifyAnswers(bids[kind])
  BY DEF Deliver
<1>3. (Types /\ HonestBids /\ PaidInCharge /\ VerdictRight)'
  BY <1>1, <1>2 DEF IInv, Types, Stages, Queries, HonestBids, PaidInCharge, VerdictRight
<1>4. SameReceipt'
  BY <1>1, <1>2, HonestAnswers DEF SameReceipt, TwoAttestations
<1>5. OnlyPd19LengthRefused'
  BY <1>1, <1>2, HonestAnswers DEF OnlyPd19LengthRefused
<1> QED BY <1>3, <1>4, <1>5 DEF IInv

LEMMA OpenTradeInv ==
    ASSUME IInv, OpenTrade
    PROVE  IInv'
BY DEF OpenTrade, IInv, Types, Stages, Queries, HonestBids, SameReceipt,
   TwoAttestations, TradeOf, PaidInCharge, VerdictRight, OnlyPd19LengthRefused

LEMMA SettleInv ==
    ASSUME IInv, NEW tier \in {1, 2}, Settle(tier)
    PROVE  IInv'
<1>1. /\ stage = "open" /\ paid = 1 .. tier - 1
      /\ inCharge' = IF tier = 2 THEN registry[trade.format] ELSE inCharge
      /\ UNCHANGED <<query, bids, receipt, atts, trade, registry, file, verdict>>
  BY DEF Settle
<1>2. \/ /\ paid' = paid \cup {tier} /\ stage' = "open"
         /\ registry[trade.format] = SignerOf[query.format]
      \/ stage' = "rejected" /\ paid' = paid
  BY <1>1, ContractAgrees DEF Settle, Accepts
<1>3. paid = (IF tier = 1 THEN {} ELSE {1}) /\ 2 \notin paid
  <2>1. CASE tier = 1
    BY <1>1, <2>1
  <2>2. CASE tier = 2
    <3>1. paid = {1}
      BY <1>1, <2>2
    <3> QED BY <2>2, <3>1
  <2> QED BY <2>1, <2>2
<1>4. Types'
  BY <1>1, <1>2, <1>3 DEF IInv, Types, Stages, Queries
<1>5. PaidInCharge'
  BY <1>1, <1>2, <1>3 DEF PaidInCharge
<1>6. SameReceipt'
  BY <1>1, <1>2 DEF IInv, SameReceipt, TwoAttestations, TradeOf
<1>7. (HonestBids /\ VerdictRight /\ OnlyPd19LengthRefused)'
  BY <1>1, <1>2 DEF IInv, HonestBids, VerdictRight, OnlyPd19LengthRefused
<1> QED BY <1>4, <1>5, <1>6, <1>7 DEF IInv

LEMMA SaveInv ==
    ASSUME IInv, Save
    PROVE  IInv'
BY DEF Save, IInv, Types, Stages, Queries, HonestBids, SameReceipt, FileOf,
   TwoAttestations, TradeOf, PaidInCharge, VerdictRight, OnlyPd19LengthRefused

LEMMA RotateInv ==
    ASSUME IInv, NEW v \in Verifiers, Rotate(v)
    PROVE  IInv'
BY DEF Rotate, IInv, Types, Stages, Queries, HonestBids, SameReceipt, FileOf,
   TwoAttestations, TradeOf, PaidInCharge, VerdictRight, OnlyPd19LengthRefused

LEMMA CheckInv ==
    ASSUME IInv, NEW key \in Keys, NEW addr \in {Here, DefaultAddr},
           Check(key, addr)
    PROVE  IInv'
<1>1. /\ stage = "saved"
      /\ verdict' = [key |-> key, addr |-> addr,
                     valid |-> Recovered(file.att, Digest(addr, file.in, file.out, 2,
                                             Presented(key))) = file.verifier]
      /\ UNCHANGED <<stage, query, bids, receipt, atts, trade, paid, registry,
                     inCharge, file>>
  BY DEF Check
<1>2. VerdictRight'
  BY <1>1, CliAgrees DEF VerdictRight
<1>3. (Types /\ HonestBids /\ SameReceipt /\ PaidInCharge /\ OnlyPd19LengthRefused)'
  BY <1>1 DEF IInv, Types, Queries, HonestBids, SameReceipt, FileOf, TwoAttestations,
     TradeOf, PaidInCharge, OnlyPd19LengthRefused
<1> QED BY <1>2, <1>3 DEF IInv

LEMMA StutterInv ==
    ASSUME IInv, UNCHANGED vars
    PROVE  IInv'
BY DEF vars, IInv, Types, Queries, HonestBids, SameReceipt, FileOf,
   TwoAttestations, TradeOf, PaidInCharge, VerdictRight, OnlyPd19LengthRefused

LEMMA NextInv == IInv /\ [Next]_vars => IInv'
BY AskInv, BidsInv, DeliverInv, OpenTradeInv, SettleInv, SaveInv, RotateInv,
   CheckInv, StutterInv DEF Next

LEMMA Invariance == Spec => []IInv
BY InitInv, NextInv, PTL DEF Spec
-----------------------------------------------------------------------------
\* defacts-verify.mjs:198-226: VALID exactly for the buyer's key on the right
\* deployment.
THEOREM BuyerAloneVerifies == Spec => []OnlyTheBuyerVerifies
<1>1. IInv => OnlyTheBuyerVerifies
  BY DEF IInv, VerdictRight, OnlyTheBuyerVerifies
<1> QED BY <1>1, Invariance, PTL

\* defacts-verify.mjs:10: a signer found VALID was the registered one when Tier 2
\* settled, however often the registry rotated.
THEOREM ValidWasInCharge == Spec => []ValidMeansWasInCharge
<1>1. IInv => ValidMeansWasInCharge
  <2> SUFFICES ASSUME IInv, verdict # None
               PROVE  file.att.signer = inCharge
    BY DEF ValidMeansWasInCharge
  <2>1. stage = "saved" /\ paid = {1, 2} /\ file = FileOf /\ receipt.format = query.format
        /\ atts = TwoAttestations
    BY DEF IInv, VerdictRight, SameReceipt
  <2>2. file.att.signer = SignerOf[query.format]
    BY <2>1, AttsOf DEF FileOf, Attest
  <2> QED BY <2>1, <2>2 DEF IInv, PaidInCharge
<1> QED BY <1>1, Invariance, PTL

\* verifier-stub/server.mjs:137: an honest receipt is refused only for being a
\* PD19 receipt of another length than the default.
THEOREM HonestRefusals == Spec => []OnlyPd19LengthRefused
<1>1. IInv => OnlyPd19LengthRefused
  BY DEF IInv
<1> QED BY <1>1, Invariance, PTL

\* agents/user/src/runtime.mjs:174: cached and fresh receipts have one hash.
THEOREM HashesAgree == Spec => []SuppliersAgree
<1>1. IInv => SuppliersAgree
  <2> SUFFICES ASSUME IInv, bids["cache"] # None, bids["fresh"] # None,
                      query.max \notin 1 .. Cap - 1
               PROVE  bids["cache"].hash = bids["fresh"].hash
    BY DEF SuppliersAgree
  <2>1. /\ query.format = "stub" /\ query \in Queries
        /\ bids["cache"] = Fixture(query.in)
        /\ bids["fresh"] = WithInput(StubProve(query), query)
    BY DEF IInv, HonestBids, Types, Prove
  <2>2. Clamp(query.max) = Cap /\ Clamp(Cap) = Cap
    BY <2>1, ReceiptAssumption DEF Queries, Clamp
  <2>3. bids["fresh"].hash =
          StubHash(query.in, FirstTokens(Continue[query.in], Cap))
    BY <2>1, <2>2 DEF WithInput, StubProve
  <2>4. bids["cache"].hash =
          StubHash(query.in, FirstTokens(Continue[query.in], Cap))
    BY <2>1, <2>2 DEF Fixture, WithInput, StubProve
  <2> QED BY <2>3, <2>4
<1> QED BY <1>1, Invariance, PTL

\* Escrow.sol:155-228: a settle of an attested receipt reverts only if the registry
\* has moved on.
THEOREM AttestationsSettle == Spec => AttestedSettles
<1> DEFINE Fails == stage # "rejected" /\ stage' = "rejected"
<1>1. IInv /\ [Next]_vars => (Fails => registry[query.format] # atts[1].signer)
  <2> SUFFICES ASSUME IInv, [Next]_vars, Fails
               PROVE  registry[query.format] # atts[1].signer
    OBVIOUS
  <2>1. PICK tier \in {1, 2} : Settle(tier)
    BY DEF Next, vars, Ask, CacheBids, FreshBids, Deliver, OpenTrade, Save, Rotate,
       Check
  <2>2. stage = "open" /\ ~Accepts(Recovered(atts[tier],
               Digest(Here, trade.in, trade.out, tier,
                      IF tier = 1 THEN None ELSE BuyerKey)), trade.format)
    BY <2>1 DEF Settle
  <2> QED BY <2>2, ContractAgrees DEF Accepts
<1> QED BY <1>1, Invariance, PTL DEF Spec, AttestedSettles
=============================================================================
