\* One trade, two buyers, one attestation.
SPECIFICATION Spec
CONSTANTS
    alice = alice
    bob = bob
    aliceKey = aliceKey
    bobKey = bobKey
    TradeIds = {t1}
    Accounts = {alice, bob, shop}
    Contracts = {}
    Owner = shop
    EscrowAddr = escrow
    ZeroAddress = zero
    Formats = {stub}
    Verifiers = {v1}
    Stranger = stranger
    Receipts = {r1}
    Pubkeys = {aliceKey, bobKey}
    NoPubkey = nokey
    ThisDomain = here
    OtherDomain = elsewhere
    MaxUint = 1
    Funds = 1
    MaxSigned = 1
PROPERTIES Tier2BoundToBuyer
