\* Two purchases, the first with Tier 2; any two requests fail.
SPECIFICATION FairSpec
CONSTANTS
    Jobs <- FiveCalls
    MaxFaults = 2
    Purchases = 2
    WithTier2 = {1}
    MaxAttempts = 3
INVARIANTS TypeOK ReturnMeansMined AtMostOnce RefusedOnlyAfterTrouble
PROPERTIES ImplementsLog PurchasesEnd
CHECK_DEADLOCK FALSE
