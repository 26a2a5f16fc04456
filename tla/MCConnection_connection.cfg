SPECIFICATION FairSpec
CONSTANTS
    Attempts = {a1, a2}
    MaxPolls = 2
    MaxActivations = 2
    MaxFailures = 2
    MaxTaps = 3
INVARIANT
    BusyIsReal
PROPERTIES
    TrustIsEarned
    AttemptEnds
    FalseConnectionIsCorrected
CHECK_DEADLOCK FALSE
