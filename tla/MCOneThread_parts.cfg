\* Block numbers: every scalar and every object of up to three entries, with a
\* u64 of two bits.
\* Transactions: up to two changes, with bytes of one bit, a u64 and an address of
\* two bytes and numbers of three.
\* Signatures: five chain ids in a release build, with every v.
\* Accounts: every order of up to two items and two slots.
CONSTANTS
    Scalars <- MCScalars
    MaxU64 = 3
    MaxEntries = 3
    Txs <- MCTxs
    ChainIds <- MCChainIds
    Items <- MCItems
    Base = 2
    U64Bytes = 2
    U256Bytes = 3
    AddressBytes = 2
    MaxChanges = 2
    Keys = {k1, k2}
    Stranger = stranger
    Transactions = {t1, t2}
    Chains <- MCChains
    MaxV = 63
    OverflowChecks = FALSE
    MaxSigned = 2
    alice = alice
    contract = contract
    Addresses <- MCAddresses
    Snapshots <- MCSnapshots
    Modifications <- MCModifications
SPECIFICATION OneThreadSpec
INVARIANT ObjectMeaning
INVARIANT NumberAsWritten
INVARIANT RoundTrip
INVARIANT HashOfPlainList
INVARIANT MessagesDiffer
INVARIANT SenderSigned
INVARIANT CanonicalV
INVARIANT SignerRecovered
INVARIANT LoopComputesApply
