\* Both formats, any prompt and length, rotation at any moment.
SPECIFICATION Spec
CONSTANTS
    v1 = v1
    v2 = v2
    Prompts <- TwoPrompts
    Known <- OnlyFrance
    Continue <- Greedy
    Formats = {"stub", "pd19"}
    Cap = 2
    MaxAsked = 3
    Verifiers = {v1, v2}
    SignerOf <- Services
    Keys = {alice, carol}
    BuyerKey = alice
    Here = here
    DefaultAddr = default
    None = None
INVARIANTS OnlyTheBuyerVerifies ValidMeansWasInCharge OnlyPd19LengthRefused SuppliersAgree
PROPERTIES AttestedSettles
CHECK_DEADLOCK FALSE
