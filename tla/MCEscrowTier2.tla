---------------------------- MODULE MCEscrowTier2 ----------------------------
(***************************************************************************)
(* Two buyers, each with a key of its own, to ask whom a Tier 2            *)
(* attestation binds.                                                      *)
(***************************************************************************)
EXTENDS Escrow

CONSTANTS alice, bob, aliceKey, bobKey

KeyOf == [a \in {alice, bob} |-> IF a = alice THEN aliceKey ELSE bobKey]

\* README.md:29 says that Tier 2 is "cryptographically bound to the buyer":
\* a Tier 2 settlement of a trade would need an attestation with the key of
\* the buyer of that trade.  settleTier2 compares buyer_pubkey with the
\* attestation only, never with the trade's buyer (Escrow.sol:199-215).
Tier2BoundToBuyer ==
    [][\A id \in TradeIds :
         ~trades[id].settled[2] /\ trades'[id].settled[2]
            /\ trades[id].buyer \in DOMAIN KeyOf =>
            \E sig \in signed :
                /\ sig.digest.tier = 2
                /\ sig.digest.receipt = trades[id].receipt
                /\ sig.digest.pubkey = KeyOf[trades[id].buyer]]_vars
=============================================================================
