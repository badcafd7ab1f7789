\* Up to three bids over two calls, one of them perhaps filed by the last tick of
\* the first; two hashes and three prices, the dearest over budget.
SPECIFICATION Spec
CONSTANTS
    nodeB = nodeB
    nodeC = nodeC
    cache = cache
    fresh = fresh
    Nodes = {nodeB, nodeC}
    Agents = {cache, fresh}
    Digits <- Hex
    F = 15
    Width = 5
    MinPrefix = 2
    KeyOf <- Keys
    Senders <- ThreeSenders
    HashSet = {hash1, hash2}
    MaxPrice = 3
    MaxBids = 3
    MaxCalls = 2
    Budget = 2
SYMMETRY HashSymmetry
INVARIANTS MajorityWins OrderMattersOnlyInTies AddressLeadsHome KnownSendersResolve AcceptGoesToBidder
PROPERTIES AgreeingBidNeverHurts
CHECK_DEADLOCK FALSE
