SPECIFICATION FairSpec
CONSTANTS
    c1 = c1
    c2 = c2
    None = None
    Callers <- MCCallers
INVARIANTS
    StopIsFinal
    KillingIsNotLost
PROPERTY CallsReturn
