\* The highest block number after a panic.
CONSTANTS
    s1 = s1
    s2 = s2
    SignedTxs <- MCTxs
    Callers <- MCCallers
    Receivers <- MCReceivers
    Effects <- MCEffects
    Codes = {"runtime"}
    Values = {0}
    Times = {0}
    MaxHeight = 0
    MaxNonce = 0
    Workers = {w1, w2}
    Requests <- MCPanic
    MaxRequests = 2
SPECIFICATION RpcSpec
CHECK_DEADLOCK FALSE
INVARIANT BlockNumberNeverFails
