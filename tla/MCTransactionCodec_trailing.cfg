\* One change to one of four transactions: bytes after the list are enough.
CONSTANTS
    Txs <- MCTxs
    ChainIds <- MCChainIds
    Items <- MCItems
    Base = 2
    U64Bytes = 2
    U256Bytes = 3
    AddressBytes = 2
    MaxChanges = 1
SPECIFICATION CodecSpec
INVARIANT HashOfFields
