------------------------------ MODULE Receipts ------------------------------
(***************************************************************************)
(* One receipt from the query to its last check: a prover makes it or a    *)
(* cache serves it, the verifier service signs it for both tiers, the      *)
(* buyer opens and settles a trade with it, saves it, and anybody checks   *)
(* the file with defacts-verify.  Prover, verifier, contract and CLI each  *)
(* compute the hashes they sign or compare from what they were handed, and *)
(* the properties are about these computations agreeing.                   *)
(*                                                                         *)
(* A hash is the value it hashes: hashes of different values differ, and   *)
(* hashes of concatenations forget where the parts met.  psec_version and  *)
(* model_commitment are the same everywhere and are left out.              *)
(***************************************************************************)
EXTENDS Integers, Sequences, FiniteSets

CONSTANTS
    Prompts,      \* inputs, sequences of token ids
    Known,        \* those the PD19 adapter has a prompt string for
    Continue,     \* the greedy continuation of each input, as long as it gets
    Formats,      \* proof formats: "stub" and "pd19"
    Cap,          \* the most tokens a prover generates, and the default: 20
    MaxAsked,     \* bound: the largest max_output_tokens asked for
    Verifiers,    \* addresses of verifier services
    SignerOf,     \* the verifier service of a format
    Keys,         \* public keys
    BuyerKey,
    Here,         \* the address of the escrow trades are opened on
    DefaultAddr,  \* the address written into defacts-verify
    None

ASSUME ReceiptAssumption ==
    /\ Known \subseteq Prompts
    /\ Formats \subseteq {"stub", "pd19"}
    /\ Cap \in Nat \ {0} /\ MaxAsked \in Nat
    /\ SignerOf \in [Formats -> Verifiers] /\ None \notin Verifiers
    /\ BuyerKey \in Keys
    /\ \A p \in Prompts : Len(Continue[p]) >= Cap

VARIABLES
    stage,      \* how far the purchase is
    query,      \* input_token_ids, max_output_tokens and proof_format asked
    bids,       \* the receipts suppliers hold for it, by kind of supplier
    receipt,    \* the receipt delivered
    atts,       \* its attestations, Tier 1 and Tier 2
    trade,      \* what openTrade recorded
    paid,       \* settled tiers
    registry,   \* VerifierRegistry
    inCharge,   \* history: the verifier registered when Tier 2 settled
    file,       \* the saved receipt
    verdict     \* the last answer of defacts-verify

vars == <<stage, query, bids, receipt, atts, trade, paid, registry, inCharge, file,
          verdict>>

-----------------------------------------------------------------------------
(* Provers.                                                                *)

FirstTokens(s, n) == SubSeq(s, 1, IF n < Len(s) THEN n ELSE Len(s))

\* An operator named after a slip (here ZeroIsOne) is not part of the
\* specification: it is the definition that follows it with a plausible
\* mistake, which a property must catch.

ZeroIsOne(max) == IF max < 1 THEN 1 ELSE IF max > Cap THEN Cap ELSE max
\* prover-stub: parseInt(max) || 20, between 1 and 20.  (0 is falsy.)
Clamp(max) ==
    IF max = 0 \/ max > Cap THEN Cap ELSE IF max < 1 THEN 1 ELSE max

StubHash(in, out) == <<"stub", in \o out>>

\* PD19 decodes for itself; the hash is of its run, zero-padded.
Pd19Hash(in, max) == <<"pd19", FirstTokens(Continue[in], max)>>

StubProve(q) ==
    LET out == FirstTokens(Continue[q.in], Clamp(q.max)) IN
    [out |-> out, hash |-> StubHash(q.in, out), format |-> "stub"]

Pd19Prove(q) ==
    [out |-> <<>>, hash |-> Pd19Hash(q.in, q.max), format |-> "pd19"]

Prove(q) == IF q.format = "stub" THEN StubProve(q) ELSE Pd19Prove(q)

\* The fresh agent adds the input tokens, which the stub does not echo.
WithEcho(made, q) ==
    [in |-> made.out, out |-> made.out, hash |-> made.hash, format |-> made.format]
WithInput(made, q) ==
    [in |-> q.in, out |-> made.out, hash |-> made.hash, format |-> made.format]

\* A fixture was captured from the stub with max_output_tokens 20.
Fixture(in) ==
    LET q == [in |-> in, max |-> Cap, format |-> "stub"] IN WithInput(StubProve(q), q)

\* POST /verify, as the verifier service calls it: without the number of
\* tokens, for which the adapter takes 20.
VerifyAnswers(r) ==
    IF r.format = "stub" THEN StubHash(r.in, r.out) = r.hash
    ELSE r.in \in Known /\ Pd19Hash(r.in, Cap) = r.hash

(* Attestations.                                                           *)

Digest(addr, inHash, outHash, tier, key) ==
    [addr |-> addr, in |-> inHash, out |-> outHash, tier |-> tier, key |-> key]

\* POST /attest: the signature, with the hashes it was made over.
Attest(r, tier, key) ==
    [signer |-> SignerOf[r.format], in |-> r.in, out |-> r.out, key |-> key,
     digest |-> Digest(Here, r.in, r.out, tier, key)]

\* ecrecover: the signer on the digest that was signed, no one on another.
Recovered(att, digest) == IF att.digest = digest THEN att.signer ELSE None

-----------------------------------------------------------------------------
Init ==
    /\ stage = "idle" /\ query = None /\ bids = [k \in {"cache", "fresh"} |-> None]
    /\ receipt = None /\ atts = None /\ trade = None /\ paid = {}
    /\ registry = SignerOf /\ inCharge = None
    /\ file = None /\ verdict = None

\* queryMarket's arguments.  What PD19 makes of length 0 is not known.
Ask(in, max, format) ==
    /\ stage = "idle"
    /\ format = "pd19" => max > 0
    /\ stage' = "asked"
    /\ query' = [in |-> in, max |-> max, format |-> format]
    /\ UNCHANGED <<bids, receipt, atts, trade, paid, registry, inCharge, file,
                   verdict>>

\* The cache agent serves the format stub-v1 only, whatever length is asked.
CacheBids ==
    /\ stage = "asked"
    /\ query.format = "stub"
    /\ bids["cache"] = None
    /\ bids' = [bids EXCEPT !["cache"] = Fixture(query.in)]
    /\ UNCHANGED <<stage, query, receipt, atts, trade, paid, registry,
                   inCharge, file, verdict>>

\* The fresh agent runs its prover, which may not know the prompt.
FreshBids ==
    /\ stage = "asked"
    /\ bids["fresh"] = None
    /\ query.format = "pd19" => query.in \in Known
    /\ bids' = [bids EXCEPT !["fresh"] = WithInput(Prove(query), query)]
    /\ UNCHANGED <<stage, query, receipt, atts, trade, paid, registry,
                   inCharge, file, verdict>>

\* The accepted supplier gets its receipt attested for both tiers.
Deliver(kind) ==
    /\ stage = "asked"
    /\ bids[kind] # None
    /\ receipt' = bids[kind]
    /\ IF VerifyAnswers(bids[kind])
       THEN /\ atts' = <<Attest(bids[kind], 1, None), Attest(bids[kind], 2, BuyerKey)>>
            /\ stage' = "delivered"
       ELSE atts' = None /\ stage' = "refused"
    /\ UNCHANGED <<query, bids, trade, paid, registry, inCharge, file, verdict>>

\* The hashes the buyer opens the trade with are the attestation's.
HashesSwapped(att) == [in |-> att.out, out |-> att.in, format |-> receipt.format]
TradeOf(att) == [in |-> att.in, out |-> att.out, format |-> receipt.format]

OpenTrade ==
    /\ stage = "delivered"
    /\ trade' = TradeOf(atts[1])
    /\ stage' = "open"
    /\ UNCHANGED <<query, bids, receipt, atts, paid, registry, inCharge, file,
                   verdict>>

\* Slip: a signature that recovers is enough.
SignedByAnyone(signer, format) == signer # None
\* The signer must be the registry's verifier for the trade's format.
Accepts(signer, format) == signer = registry[format]

\* The escrow rebuilds the digest from the trade and asks the registry.
Settle(tier) ==
    LET digest == Digest(Here, trade.in, trade.out, tier,
                         IF tier = 1 THEN None ELSE BuyerKey)
    IN
    /\ stage = "open"
    /\ paid = 1 .. tier - 1
    /\ inCharge' = IF tier = 2 THEN registry[trade.format] ELSE inCharge
    /\ IF Accepts(Recovered(atts[tier], digest), trade.format)
       THEN paid' = paid \cup {tier} /\ UNCHANGED stage
       ELSE stage' = "rejected" /\ UNCHANGED paid
    /\ UNCHANGED <<query, bids, receipt, atts, trade, registry, file, verdict>>

Save ==
    /\ stage = "open"
    /\ paid = {1, 2}
    /\ stage' = "saved"
    /\ file' = [verifier |-> atts[2].signer, key |-> atts[2].key, att |-> atts[2],
                in |-> atts[1].in, out |-> atts[1].out]
    /\ UNCHANGED <<query, bids, receipt, atts, trade, paid, registry,
                   inCharge, verdict>>

\* The registry's owner puts another verifier in charge of the format.
Rotate(v) ==
    /\ stage # "idle"
    /\ registry' = [registry EXCEPT ![query.format] = v]
    /\ UNCHANGED <<stage, query, bids, receipt, atts, trade, paid, inCharge,
                   file, verdict>>

\* The key a check is made for.
FileKey(key) == file.key
Presented(key) == key

\* defacts-verify, with a key and the escrow address from ESCROW_ADDR or the
\* built-in one: queryMarket saves no metadata.escrow_addr.
Check(key, addr) ==
    LET digest == Digest(addr, file.in, file.out, 2, Presented(key)) IN
    /\ stage = "saved"
    /\ verdict' = [key |-> key, addr |-> addr,
                   valid |-> Recovered(file.att, digest) = file.verifier]
    /\ UNCHANGED <<stage, query, bids, receipt, atts, trade, paid, registry,
                   inCharge, file>>

Next ==
    \/ \E in \in Prompts, max \in 0 .. MaxAsked, f \in Formats : Ask(in, max, f)
    \/ CacheBids
    \/ FreshBids
    \/ \E kind \in {"cache", "fresh"} : Deliver(kind)
    \/ OpenTrade
    \/ \E tier \in {1, 2} : Settle(tier)
    \/ Save
    \/ \E v \in Verifiers : Rotate(v)
    \/ \E key \in Keys, addr \in {Here, DefaultAddr} : Check(key, addr)

Spec == Init /\ [][Next]_vars

-----------------------------------------------------------------------------
\* A receipt an honest supplier made for a query is attested: the verifier
\* "asks the prover (or recomputes) to confirm the hash is correct for the
\* given inputs" (verifier-stub/server.mjs:137).
HonestReceiptAttested == stage # "refused"

\* The one exception: a PD19 receipt of a length other than the default.
OnlyPd19LengthRefused ==
    stage = "refused" => query.format = "pd19" /\ query.max # Cap

\* What the verifier signed, what the buyer opened the trade with and what
\* the contract recomputes are the same message: a settle of an attested
\* receipt reverts only if the registry has moved on by then.
AttestedSettles ==
    [][stage # "rejected" /\ stage' = "rejected"
         => registry[query.format] # atts[1].signer]_vars

\* defacts-verify says VALID for the buyer's key and no other, on the
\* deployment the attestation was made for and no other: "Carol cannot
\* verify it under her own identity" (defacts-verify.mjs:221).
OnlyTheBuyerVerifies ==
    verdict # None =>
        (verdict.valid <=> verdict.key = BuyerKey /\ verdict.addr = Here)

\* VALID means that the signer was the registered verifier of the format when
\* the trade's Tier 2 settled, rotations before and after notwithstanding: "the
\* signature recovers to the verifier address registered on chain"
\* (defacts-verify.mjs:10), although the CLI compares with the file only.
ValidMeansWasInCharge ==
    verdict # None /\ verdict.valid => file.att.signer = inCharge

\* "Independent suppliers, given the same prompt, produce the same det_hash"
\* (agents/user/src/runtime.mjs:174): also when one answer is from the cache,
\* provided the query did not ask for fewer tokens than the cache holds.
SuppliersAgree ==
    bids["cache"] # None /\ bids["fresh"] # None /\ query.max \notin 1 .. Cap - 1
        => bids["cache"].hash = bids["fresh"].hash
=============================================================================
