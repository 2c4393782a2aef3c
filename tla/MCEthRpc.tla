------------------------------ MODULE MCEthRpc ------------------------------
(***************************************************************************)
(* Values for the constants of EthRpc.                                     *)
(***************************************************************************)
EXTENDS EthRpc

CONSTANTS s1, s2  \* accounts that clients hold the keys of

Tx(sender, nonce, action, value) ==
    [sender |-> sender, nonce |-> nonce, action |-> action,
     value |-> value, chain_id |-> <<CHAIN_ID>>]

Deploy   == Tx(s1, 0, Create, 0)
Message  == Tx(s2, 0, s1, 0)
Transfer == Tx(s2, 0, s1, 1)

MCTxs       == {Deploy, Message, Transfer}
MCCallers   == {s1, s2}
MCReceivers == {None, s2}

Contract == CreateAddress(s1, 0)

MCEffects == {[ storage |-> EmptyMap, logs |-> <<"log">>, calls |-> EmptyMap, payee |-> None,
                paid |-> 0, creates |-> 0, child |-> None, destroys |-> FALSE ]}

\* With one clock reading the hashes of the first two blocks are known.
GenesisHash == HeaderHash(DefaultHeader)

FirstHash(tx) ==
    HeaderHash([DefaultHeader EXCEPT !.parent_hash = GenesisHash,
                                     !.number = 1,
                                     !.state_root = FromLowU64(1),
                                     !.receipts_root = FromLowU64(1),
                                     !.transactions_root = transaction_root(<<tx>>)])

Absent == [tag |-> "Absent"]

Number             == [method |-> "blockNumber"]
Block(num)         == [method |-> "getBlockByNumber", num |-> num]
Receipt(tx)        == [method |-> "getTransactionReceipt", hash |-> TxHash(tx)]
BalanceAt(a, num)  == [method |-> "getBalance", address |-> a, num |-> num]
CountAt(a, num)    == [method |-> "getTransactionCount", address |-> a, num |-> num]
CallAt(to, num)    == [method |-> "call", to |-> to, num |-> num]
Send(tx)           == [method |-> "sendRawTransaction", tx |-> <<tx>>]
Garbage            == [method |-> "sendRawTransaction", tx |-> <<>>]
Gas(from, to, num) ==
    [method |-> "estimateGas", from |-> from, to |-> to, value |-> 0, num |-> num]

\* Commits, and reads whose two locks a commit or an estimate can come between.
MCReadsAndWrites ==
    { Send(Deploy), Send(Message), Send(Transfer),
      CountAt(s1, LatestBlock), CountAt(s1, EarliestBlock),
      CountAt(s1, BlockNum(1)), CountAt(s1, BlockHash(FirstHash(Deploy))),
      BalanceAt(s1, LatestBlock), Block(LatestBlock), CallAt(Contract, LatestBlock),
      Receipt(Deploy), Gas(s1, s2, LatestBlock) }

\* Requests that fail in every way a handler can fail, among some that do not.
MCFailures ==
    { Number, Block(LatestBlock), Receipt(Deploy), Send(Deploy), Garbage,
      CallAt(None, LatestBlock), CallAt(s2, BlockNum(9)),
      CallAt(s2, BlockHash(FirstHash(Message))),
      BalanceAt(s1, BlockNum(9)), CountAt(s1, Absent),
      Gas(s1, None, BlockNum(9)), Gas(s1, None, EarliestBlock) }

MCPanic     == {Number, CallAt(s2, BlockNum(9))}
MCCallBlock == {Send(Message), CallAt(s1, LatestBlock)}
MCNumbered  == {Send(Message), Block(BlockNum(0))}
=============================================================================
