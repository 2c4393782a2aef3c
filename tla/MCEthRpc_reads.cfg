\* Commits, estimates and reads by two workers.
CONSTANTS
    s1 = s1
    s2 = s2
    SignedTxs <- MCTxs
    Callers <- MCCallers
    Receivers <- MCReceivers
    Effects <- MCEffects
    Codes = {"runtime"}
    Values = {0}
    Times = {0}
    MaxHeight = 0
    MaxNonce = 0
    Workers = {w1, w2}
    Requests <- MCReadsAndWrites
    MaxRequests = 4
SPECIFICATION RpcSpec
CHECK_DEADLOCK FALSE
INVARIANT LatestIsRecent
INVARIANT ResolvedNumberStaysValid
INVARIANT CountStaysTrue
INVARIANT AcceptedIsCommitted
INVARIANT ShownBlockStays
INVARIANT ShownReceiptStays
PROPERTY IsAtomicService
