\* One trade, two verifiers, receipts and keys, and a registry owner with
\* code that may rotate the verifier while it is being paid.
SPECIFICATION Spec
CONSTANTS
    TradeIds = {t1}
    Accounts = {alice, shop}
    Contracts = {shop}
    Owner = shop
    EscrowAddr = escrow
    ZeroAddress = zero
    Formats = {stub, pd19}
    Verifiers = {v1, v2}
    Stranger = stranger
    Receipts = {r1, r2}
    Pubkeys = {k1, k2}
    NoPubkey = nokey
    ThisDomain = here
    OtherDomain = elsewhere
    MaxUint = 1
    Funds = 1
    MaxSigned = 2
SYMMETRY AuthoritySymmetry
PROPERTIES SettledOnlyOnAttestation
