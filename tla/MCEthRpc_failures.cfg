\* Requests that fail, the poisoned lock, and that every request ends.
CONSTANTS
    s1 = s1
    s2 = s2
    SignedTxs <- MCTxs
    Callers <- MCCallers
    Receivers <- MCReceivers
    Effects <- MCEffects
    Codes = {"runtime"}
    Values = {0}
    Times = {0}
    MaxHeight = 0
    MaxNonce = 0
    Workers = {w1, w2}
    Requests <- MCFailures
    MaxRequests = 3
SPECIFICATION RpcFairSpec
CHECK_DEADLOCK FALSE
INVARIANT RpcTypeOK
INVARIANT GuardsMatchScopes
INVARIANT WaitersHaveHolders
INVARIANT OnlyGuardsBlock
INVARIANT PanicsAreMadeUp
PROPERTY NoChangeOncePoisoned
PROPERTY HandlersAdvance
PROPERTY EveryRequestEnds
PROPERTY IsAtomicService
