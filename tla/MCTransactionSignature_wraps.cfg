\* The sender of what sign returns in a release build.
CONSTANTS
    Keys = {k1, k2}
    Stranger = stranger
    Transactions = {t1, t2}
    Chains <- MCChains
    MaxV = 63
    OverflowChecks = FALSE
    MaxSigned = 2
SPECIFICATION SigSpec
CHECK_DEADLOCK FALSE
INVARIANT SignedAsSender
