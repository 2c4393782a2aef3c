\* The transaction count against the nonce.
CONSTANTS
    s1 = s1
    s2 = s2
    SignedTxs <- MCTxs
    Callers <- MCCallers
    Receivers <- MCReceivers
    Effects <- MCEffects
    Codes = {"runtime"}
    Values = {0}
    Times = {0}
    MaxHeight = 1
    MaxNonce = 1
SPECIFICATION DBSpec
CHECK_DEADLOCK FALSE
INVARIANT NonceIsTxCount
