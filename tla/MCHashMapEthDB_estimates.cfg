\* Commits mixed with estimates at every height.
CONSTANTS
    s1 = s1
    s2 = s2
    SignedTxs <- MCTxs
    Callers <- MCCallers
    Receivers <- MCReceivers
    Effects <- MCEffects
    Codes = {"runtime"}
    Values = {0, 1}
    Times = {0}
    MaxHeight = 2
    MaxNonce = 1
SPECIFICATION DBSpec
CHECK_DEADLOCK FALSE
INVARIANT DBTypeOK
INVARIANT SnapshotPerBlock
INVARIANT SnapshotsReplay
INVARIANT UntouchedNonceIsTxCount
INVARIANT DeployedAtReceiptAddress
INVARIANT NoEtherExists
PROPERTY HistoryKept
PROPERTY IsLedger
