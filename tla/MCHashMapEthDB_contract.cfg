\* Receipt contract addresses against the accounts of the block.
CONSTANTS
    s1 = s1
    s2 = s2
    SignedTxs <- MCDeployments
    Callers <- MCCallers
    Receivers <- MCReceivers
    Effects <- MCSetAndLog
    Codes = {"runtime"}
    Values = {0}
    Times = {0}
    MaxHeight = 2
    MaxNonce = 0
SPECIFICATION DBSpec
CHECK_DEADLOCK FALSE
INVARIANT ReceiptContractExists
