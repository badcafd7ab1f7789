---------------------------- MODULE EscrowLedger ----------------------------
(***************************************************************************)
(* What the escrow promises, as it is seen between transactions.  A book   *)
(* of trades only grows; a transaction opens any number of trades and pays *)
(* at most one tier of one trade; a tier is paid once, on an attestation   *)
(* by the verifier registered when the transaction started; and the vault  *)
(* holds one unit of ether for each unit still owed, and the gifts.        *)
(***************************************************************************)
EXTENDS Integers, FiniteSets

CONSTANTS TradeIds, MaxUint, ZeroAddress, ThisDomain, NoPubkey, Pubkeys

VARIABLES
    book,       \* the trades
    registry,   \* the verifier of each proof format
    published,  \* the attestations verifiers have published
    vault,      \* the ether the escrow holds
    gifts       \* the part of it nobody deposited

ledgerVars == <<book, registry, published, vault, gifts>>

IsOpen(b, id) == b[id].buyer # ZeroAddress

\* The units of ether the escrow owes: <<id, k, n>> is the n-th unit of tier
\* k of trade id, a tier not yet paid.
Owed(b) ==
    {u \in TradeIds \X {1, 2} \X (1 .. MaxUint) :
        /\ IsOpen(b, u[1])
        /\ ~b[u[1]].settled[u[2]]
        /\ u[3] <= b[u[1]].amount[u[2]]}

\* An attestation that a tier of a trade may be paid on.
Justifies(att, t, k) ==
    /\ att.digest.domain = ThisDomain
    /\ att.digest.receipt = t.receipt
    /\ att.digest.tier = k
    /\ k = 1 => att.digest.pubkey = NoPubkey
    /\ k = 2 => att.digest.pubkey \in Pubkeys
    /\ att.signer = registry[t.format]
    /\ att.signer # ZeroAddress

\* The tiers the step pays.
Paid == {p \in TradeIds \X {1, 2} :
            /\ ~book[p[1]].settled[p[2]]
            /\ book'[p[1]].settled[p[2]]}

SameTerms(t, u) ==
    /\ t.buyer = u.buyer
    /\ t.seller = u.seller
    /\ t.amount = u.amount
    /\ t.receipt = u.receipt
    /\ t.format = u.format

LedgerInit ==
    /\ \A id \in TradeIds : ~IsOpen(book, id)
    /\ \A f \in DOMAIN registry : registry[f] = ZeroAddress
    /\ published = {}
    /\ vault = 0
    /\ gifts = 0

Transaction ==
    /\ \A id \in TradeIds : IsOpen(book, id) =>
            /\ SameTerms(book[id], book'[id])
            /\ \A k \in {1, 2} : book[id].settled[k] => book'[id].settled[k]
    /\ \A p, q \in Paid : p = q
    /\ \A p \in Paid : IsOpen(book, p[1])
                       /\ \E att \in published : Justifies(att, book[p[1]], p[2])
    /\ published \subseteq published'
    /\ gifts <= gifts'
    /\ vault' = Cardinality(Owed(book')) + gifts'

LedgerSpec == LedgerInit /\ [][Transaction]_ledgerVars
=============================================================================
