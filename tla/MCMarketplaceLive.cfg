\* No request fails and timers outlast messages: a call ends in a settled trade
\* unless ticks of closed windows took its deliver or every bid.
SPECIFICATION FairSpec
CONSTANTS
    cache = cache
    fresh = fresh
    nodeB = nodeB
    nodeC = nodeC
    prompt1 = prompt1
    prompt2 = prompt2
    hash1 = hash1
    hash2 = hash2
    None = None
    Agents = {cache, fresh}
    Caches = {cache}
    Prompts = {prompt1, prompt2}
    Wants <- FirstInFull
    HashSet = {hash1, hash2}
    Offers <- FirstCached
    Nodes = {nodeB, nodeC}
    BuyerNode = nodeA
    NodeOf <- OwnNodes
    Links <- OneLink
    Price <- CacheCheaper
    Budget = 2
    MaxQueries = 3
    MaxFaults = 0
    Patient = TRUE
PROPERTIES PurchaseSucceeds
CHECK_DEADLOCK FALSE
