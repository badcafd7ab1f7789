\* The PD19 format, with lengths other than the default.
SPECIFICATION Spec
CONSTANTS
    v1 = v1
    v2 = v2
    Prompts <- TwoPrompts
    Known <- OnlyFrance
    Continue <- Greedy
    Formats = {"pd19"}
    Cap = 2
    MaxAsked = 3
    Verifiers = {v1, v2}
    SignerOf <- Services
    Keys = {alice, carol}
    BuyerKey = alice
    Here = here
    DefaultAddr = default
    None = None
INVARIANTS HonestReceiptAttested
CHECK_DEADLOCK FALSE
