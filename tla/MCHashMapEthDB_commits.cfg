\* Commits only, on a chain of up to four blocks over genesis.
CONSTANTS
    s1 = s1
    s2 = s2
    SignedTxs <- MCReceived
    Callers <- MCCallers
    Receivers <- MCReceivers
    Effects <- MCEffects
    Codes = {"runtime"}
    Values = {0}
    Times = {0, 1}
    MaxHeight = 4
    MaxNonce = 0
SPECIFICATION DBSpec
CHECK_DEADLOCK FALSE
INVARIANT ChainLinked
INVARIANT HashesFresh
INVARIANT HashIndexExact
INVARIANT ReceiptsSound
INVARIANT LastCommitHasReceipt
