\* Agents on nodes of their own, listed once: two calls, one fault.
SPECIFICATION Spec
CONSTANTS
    cache = cache
    fresh = fresh
    nodeB = nodeB
    nodeC = nodeC
    prompt1 = prompt1
    prompt2 = prompt2
    hash1 = hash1
    hash2 = hash2
    None = None
    Agents = {cache, fresh}
    Caches = {cache}
    Prompts = {prompt1, prompt2}
    Wants <- FirstInFull
    HashSet = {hash1, hash2}
    Offers <- FirstCached
    Nodes = {nodeB, nodeC}
    BuyerNode = nodeA
    NodeOf <- OwnNodes
    Links <- OneLink
    Price <- CacheCheaper
    Budget = 2
    MaxQueries = 2
    MaxFaults = 1
    Patient = FALSE
INVARIANTS TypeOK DeliveryHonoursBid BothOrNothing ReturnMeansSettled
PROPERTIES AcceptReachesAddressee AcceptFindsContext
CHECK_DEADLOCK FALSE
