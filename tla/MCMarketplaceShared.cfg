\* Both agents on one node, which the topology lists twice: calls still conclude, with two faults.
SPECIFICATION FairSpec
CONSTANTS
    cache = cache
    fresh = fresh
    nodeB = nodeB
    nodeC = nodeC
    prompt1 = prompt1
    prompt2 = prompt2
    hash1 = hash1
    hash2 = hash2
    None = None
    Agents = {cache, fresh}
    Caches = {cache}
    Prompts = {prompt1, prompt2}
    Wants <- FirstInFull
    HashSet = {hash1, hash2}
    Offers <- FirstCached
    Nodes = {nodeB}
    BuyerNode = nodeA
    NodeOf <- OneNode
    Links <- TwoLinks
    Price <- CacheCheaper
    Budget = 2
    MaxQueries = 1
    MaxFaults = 2
    Patient = FALSE
PROPERTIES QueryConcludes
CHECK_DEADLOCK FALSE
