\* Two trades, the first with Tier 2, one subname, two faults on Sepolia.
SPECIFICATION FairSpec
CONSTANTS
    Jobs <- SixWrites
    MaxFaults = 2
    Updates = 2
    Labels = {l4}
    NoLabel = none
    Parent = defacts
    ParentKeys <- ParentRecords
    AgentKeys <- AgentRecords
    Registered = {}
    Moves <- FiveMoves
INVARIANTS TypeOK PrefixRecorded OkMeansRecorded FailsOnlyAfterTrouble RecordsOnlySettled
PROPERTIES RecordsNeverGoBack UpdatesEnd EnsNeverBlocks
CHECK_DEADLOCK FALSE
