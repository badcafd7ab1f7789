\* Two trades, a buyer and a seller with code, and a registry whose only
\* verifier can be removed and put back.
SPECIFICATION Spec
CONSTANTS
    TradeIds = {t1, t2}
    Accounts = {alice, shop}
    Contracts = {shop}
    Owner = alice
    EscrowAddr = escrow
    ZeroAddress = zero
    Formats = {stub}
    Verifiers = {v1}
    Stranger = stranger
    Receipts = {r1}
    Pubkeys = {k1}
    NoPubkey = nokey
    ThisDomain = here
    OtherDomain = elsewhere
    MaxUint = 2
    Funds = 2
    MaxSigned = 2
SYMMETRY TradeSymmetry
INVARIANTS TypeOK NoDust CallbackConfined ReentrancySound
PROPERTIES ImplementsLedger
