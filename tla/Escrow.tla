------------------------------- MODULE Escrow -------------------------------
(***************************************************************************)
(* The Escrow contract (src/Escrow.sol) with the VerifierRegistry it       *)
(* consults (src/VerifierRegistry.sol), on a chain that runs one           *)
(* transaction at a time.                                                  *)
(*                                                                         *)
(* The one place where a transaction is not a single step is the value     *)
(* transfer of a settlement: `t.seller.call{value: amount}("")` hands      *)
(* control to the seller, who may be a contract and may call anything,     *)
(* this contract included, before it returns or reverts.  A settlement is  *)
(* therefore a frame on `stack`: SettleTier1/2 pushes it, with the state   *)
(* to go back to, and SettleReturns or SettleReverts pops it.              *)
(*                                                                         *)
(* A receipt stands for the four hashes psec_version, model_commitment,    *)
(* input_hash and output_hash.  An EIP-712 digest is the tuple it hashes;  *)
(* a signature recovers to its signer on the digest it was made for, and   *)
(* to an address nobody knows on any other.  A call that reverts changes   *)
(* nothing, so it is not a step.                                           *)
(***************************************************************************)
EXTENDS Integers, Sequences, FiniteSets

CONSTANTS
    TradeIds,        \* values of trade_id
    Accounts,        \* addresses that can hold ether, the escrow aside
    Contracts,       \* the accounts with code: these run when they are paid
    Owner,           \* the account that deployed the registry
    EscrowAddr,      \* the address of the escrow
    ZeroAddress,     \* address(0)
    Formats,         \* values of proof_format
    Verifiers,       \* addresses of attestation signers
    Stranger,        \* what ECDSA.recover gives for a digest not signed
    Receipts,        \* the four hashes of a receipt
    Pubkeys,         \* values of buyer_pubkey
    NoPubkey,        \* the buyer_pubkey of a Tier 1 attestation: none
    ThisDomain,      \* the DOMAIN_SEPARATOR of this deployment
    OtherDomain,     \* that of any other chain or deployment
    MaxUint,         \* the largest uint256
    Funds,           \* the ether each account starts with
    MaxSigned        \* bound: attestations published in a behaviour

ASSUME AddressAssumption ==
    /\ Contracts \subseteq Accounts
    /\ Owner \in Accounts
    /\ EscrowAddr \notin Accounts
    /\ ZeroAddress \notin Accounts \cup Verifiers \cup {EscrowAddr}
    /\ Stranger \notin Verifiers \cup {ZeroAddress}

ASSUME ValueAssumption ==
    /\ MaxUint \in Nat
    /\ Funds \in Nat
    /\ MaxSigned \in Nat

ASSUME TradeIdAssumption == IsFiniteSet(TradeIds)

VARIABLES
    trades,      \* the mapping of trades
    verifiers,   \* VerifierRegistry._verifiers
    balance,     \* the ether of every account and of the escrow
    donated,     \* ether forced on the escrow outside openTrade
    signed,      \* attestations verifiers have published
    entered,     \* ReentrancyGuard's status
    stack        \* settlements waiting for their seller's call to return

chain == <<trades, verifiers, balance, donated>>
vars == <<trades, verifiers, balance, donated, signed, entered, stack>>

-----------------------------------------------------------------------------
Uint == 0 .. MaxUint
Tiers == {1, 2}
Holders == Accounts \cup {EscrowAddr}

\* The zero value of a mapping entry: trades[id].buyer == address(0).
NoTrade == [buyer |-> ZeroAddress, seller |-> ZeroAddress,
            amount |-> [k \in Tiers |-> 0], receipt |-> {},
            format |-> {}, settled |-> [k \in Tiers |-> FALSE]]

Trade == [buyer : Accounts, seller : Accounts,
          amount : [Tiers -> Uint], receipt : Receipts,
          format : Formats, settled : [Tiers -> BOOLEAN]]

\* What an attestation signs: the fields of Tier1Attestation, and with the
\* buyer's key those of Tier2Attestation, under a domain.
Digest(domain, receipt, tier, pubkey) ==
    [domain |-> domain, receipt |-> receipt, tier |-> tier, pubkey |-> pubkey]

Digests ==
    {Digest(d, r, 1, NoPubkey) : d \in {ThisDomain, OtherDomain}, r \in Receipts}
    \cup
    {Digest(d, r, 2, p) : d \in {ThisDomain, OtherDomain}, r \in Receipts,
                          p \in Pubkeys}

Attestation == [signer : Verifiers, digest : Digests]

\* In this file an operator named after a slip (here RecoverAnyDigest) is not
\* part of the specification: it is the definition that follows it with a
\* plausible mistake, which a property below must catch.
RecoverAnyDigest(digest, sig) == sig.signer
Recover(digest, sig) == IF sig.digest = digest THEN sig.signer ELSE Stranger

Exists(id) == trades[id].buyer # ZeroAddress

\* Code runs for an externally owned account only at the top of a
\* transaction; inside a seller's call it is contracts that call.
Callers == IF stack = <<>> THEN Accounts ELSE Contracts

\* The checks of openTrade and of the settle functions.
FreshIgnored(id) == TRUE
Fresh(id) == ~Exists(id)

\* t1 + t2 is checked arithmetic: an overflow reverts.
ExactValueWrapping(value, t1, t2) == value = (t1 + t2) % (MaxUint + 1)
ExactValue(value, t1, t2) == t1 + t2 <= MaxUint /\ value = t1 + t2

ZeroSellerAllowed(seller) == TRUE
SellerGiven(seller) == seller # ZeroAddress

GuardDropped == TRUE
NonReentrant == ~entered

FlagIgnored(t, tier) == TRUE
Unsettled(t, tier) == ~t.settled[tier]

-----------------------------------------------------------------------------
Init ==
    /\ trades = [id \in TradeIds |-> NoTrade]
    /\ verifiers = [f \in Formats |-> ZeroAddress]
    /\ balance = [a \in Holders |-> IF a = EscrowAddr THEN 0 ELSE Funds]
    /\ donated = 0
    /\ signed = {}
    /\ entered = FALSE
    /\ stack = <<>>

\* A verifier signs an attestation and publishes it; any value a transaction
\* carries exists before the transaction starts.
Attest(sig) ==
    /\ stack = <<>>
    /\ Cardinality(signed) < MaxSigned
    /\ signed' = signed \cup {sig}
    /\ UNCHANGED <<chain, entered, stack>>

Register(sender, format, verifier) ==
    /\ sender \in Callers
    /\ sender = Owner
    /\ verifiers' = [verifiers EXCEPT ![format] = verifier]
    /\ UNCHANGED <<trades, balance, donated, signed, entered, stack>>

OpenTrade(sender, id, seller, t1, t2, value, receipt, format) ==
    /\ sender \in Callers
    /\ Fresh(id)
    /\ ExactValue(value, t1, t2)
    /\ SellerGiven(seller)
    /\ value <= balance[sender]
    /\ trades' = [trades EXCEPT ![id] =
                    [buyer |-> sender, seller |-> seller,
                     amount |-> [k \in Tiers |-> IF k = 1 THEN t1 ELSE t2],
                     receipt |-> receipt, format |-> format,
                     settled |-> [k \in Tiers |-> FALSE]]]
    /\ balance' = [balance EXCEPT ![sender] = @ - value, ![EscrowAddr] = @ + value]
    /\ UNCHANGED <<verifiers, donated, signed, entered, stack>>

\* The body the two settle functions share, from the existence check to the
\* start of the seller's call.
Settle(id, tier, digest, sig) ==
    LET t == trades[id] IN
    /\ NonReentrant
    /\ Exists(id)
    /\ Unsettled(t, tier)
    /\ verifiers[t.format] # ZeroAddress
    /\ Recover(digest, sig) = verifiers[t.format]
    /\ t.amount[tier] <= balance[EscrowAddr]
    /\ trades' = [trades EXCEPT ![id].settled[tier] = TRUE]
    /\ balance' = [balance EXCEPT ![EscrowAddr] = @ - t.amount[tier],
                                  ![t.seller] = @ + t.amount[tier]]
    /\ entered' = TRUE
    /\ stack' = Append(stack, [id |-> id, tier |-> tier, seller |-> t.seller,
                               trades |-> trades, verifiers |-> verifiers,
                               balance |-> balance, donated |-> donated])
    /\ UNCHANGED <<verifiers, donated, signed>>

SettleTier1(id, sig) ==
    Settle(id, 1, Digest(ThisDomain, trades[id].receipt, 1, NoPubkey), sig)

SettleTier2(id, pubkey, sig) ==
    Settle(id, 2, Digest(ThisDomain, trades[id].receipt, 2, pubkey), sig)

Top == stack[Len(stack)]
Pop == SubSeq(stack, 1, Len(stack) - 1)

\* The seller's call returned: the guard is released.
SettleReturns ==
    /\ stack # <<>>
    /\ entered' = FALSE
    /\ stack' = Pop
    /\ UNCHANGED <<chain, signed>>

\* The seller's call reverted, so the settlement reverts with TransferFailed:
\* everything since its first line is undone.  Only code can revert.
SettleReverts ==
    /\ stack # <<>>
    /\ Top.seller \in Contracts
    /\ trades' = Top.trades
    /\ verifiers' = Top.verifiers
    /\ balance' = Top.balance
    /\ donated' = Top.donated
    /\ entered' = FALSE
    /\ stack' = Pop
    /\ UNCHANGED signed

\* Ether reaches a contract without a call to it (a block reward, another
\* contract's destruction).
ForceEther(sender, value) ==
    /\ sender \in Callers
    /\ value <= balance[sender]
    /\ balance' = [balance EXCEPT ![sender] = @ - value, ![EscrowAddr] = @ + value]
    /\ donated' = donated + value
    /\ UNCHANGED <<trades, verifiers, signed, entered, stack>>

Next ==
    \/ \E sig \in Attestation : Attest(sig)
    \/ \E s \in Accounts, f \in Formats, v \in Verifiers \cup {ZeroAddress} :
            Register(s, f, v)
    \/ \E s \in Accounts, id \in TradeIds, to \in Accounts \cup {ZeroAddress},
          t1, t2, v \in Uint, r \in Receipts, f \in Formats :
            OpenTrade(s, id, to, t1, t2, v, r, f)
    \/ \E id \in TradeIds, sig \in signed : SettleTier1(id, sig)
    \/ \E id \in TradeIds, p \in Pubkeys, sig \in signed : SettleTier2(id, p, sig)
    \/ SettleReturns
    \/ SettleReverts
    \/ \E s \in Accounts, v \in Uint \ {0} : ForceEther(s, v)

Spec == Init /\ [][Next]_vars

-----------------------------------------------------------------------------
SavedFrame ==
    [id : TradeIds, tier : Tiers, seller : Accounts,
     trades : [TradeIds -> Trade \cup {NoTrade}],
     verifiers : [Formats -> Verifiers \cup {ZeroAddress}],
     balance : [Holders -> Nat], donated : Nat]

\* Every variable has its type.
TypeOK ==
    /\ trades \in [TradeIds -> Trade \cup {NoTrade}]
    /\ verifiers \in [Formats -> Verifiers \cup {ZeroAddress}]
    /\ balance \in [Holders -> Nat]
    /\ donated \in Nat
    /\ signed \subseteq Attestation
    /\ entered \in BOOLEAN
    /\ stack \in Seq(SavedFrame)

\* The state the chain has committed to: inside a transaction, the state it
\* started from.
CommittedTrades == IF stack = <<>> THEN trades ELSE stack[1].trades
CommittedVerifiers == IF stack = <<>> THEN verifiers ELSE stack[1].verifiers
CommittedVault ==
    IF stack = <<>> THEN balance[EscrowAddr] ELSE stack[1].balance[EscrowAddr]
CommittedGifts == IF stack = <<>> THEN donated ELSE stack[1].donated

Ledger == INSTANCE EscrowLedger WITH
    book <- CommittedTrades, registry <- CommittedVerifiers,
    published <- signed, vault <- CommittedVault, gifts <- CommittedGifts

\* The contract implements the ledger of EscrowLedger: seen between
\* transactions, whatever sellers do when they are called, terms never
\* change, each tier is paid at most once and on a current attestation, and
\* one transaction pays one tier only (Escrow.sol:36-41).
ImplementsLedger == Ledger!LedgerSpec

\* Also in the middle of a seller's call, the escrow holds exactly what it
\* still owes and what was forced on it: "no leftover dust" (Escrow.sol:39),
\* and no settlement is ever paid from another trade's deposit.
NoDust == balance[EscrowAddr] = Cardinality(Ledger!Owed(trades)) + donated

\* While a seller's call runs, the trades that existed when the settlement
\* started are as they were but for the tier being settled, and a settled
\* flag is set for that tier: nothing the callee does reaches another trade.
CallbackConfined ==
    \A i \in DOMAIN stack : \A id \in TradeIds :
        stack[i].trades[id].buyer # ZeroAddress =>
            trades[id] = IF id = stack[i].id
                         THEN [stack[i].trades[id] EXCEPT !.settled[stack[i].tier] = TRUE]
                         ELSE stack[i].trades[id]

GuardHeld == (entered <=> stack # <<>>) /\ Len(stack) <= 1

\* What makes a rollback safe: the state a settlement would go back to has
\* the tier unpaid, is fully backed, and is the state the attestation was
\* checked in.
SavedSound ==
    \A i \in DOMAIN stack :
        LET f == stack[i] IN
        /\ f.trades[f.id].buyer # ZeroAddress
        /\ ~f.trades[f.id].settled[f.tier]
        /\ f.balance[EscrowAddr] = Cardinality(Ledger!Owed(f.trades)) + f.donated
        /\ f.donated <= donated
        /\ \A id \in TradeIds, k \in Tiers :
                f.trades[id].buyer = ZeroAddress => ~trades[id].settled[k]
        /\ \E sig \in signed :
                /\ sig.digest.domain = ThisDomain
                /\ sig.digest.receipt = f.trades[f.id].receipt
                /\ sig.digest.tier = f.tier
                /\ f.tier = 1 => sig.digest.pubkey = NoPubkey
                /\ f.tier = 2 => sig.digest.pubkey \in Pubkeys
                /\ sig.signer = f.verifiers[f.trades[f.id].format]

\* One settlement is in progress at most, the guard says which, and it can
\* be undone safely: with TypeOK, NoDust and CallbackConfined this is the
\* inductive invariant the theorems of EscrowProofs rest on.
ReentrancySound == GuardHeld /\ SavedSound

IInv == TypeOK /\ NoDust /\ CallbackConfined /\ ReentrancySound

\* A settled flag is set only by a step that has, at that moment, an
\* attestation of this very receipt and tier under this deployment's domain
\* by the verifier registered at that moment: an attestation of a verifier
\* that was rotated out or removed settles nothing (Escrow.sol:172-175).
SettledOnAttestation ==
    \A id \in TradeIds, k \in Tiers :
        ~trades[id].settled[k] /\ trades'[id].settled[k] =>
            \E sig \in signed :
                /\ sig.digest.domain = ThisDomain
                /\ sig.digest.receipt = trades[id].receipt
                /\ sig.digest.tier = k
                /\ sig.signer = verifiers[trades[id].format]

SettledOnlyOnAttestation == [][SettledOnAttestation]_vars
=============================================================================
