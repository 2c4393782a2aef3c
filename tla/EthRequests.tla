----------------------------- MODULE EthRequests -----------------------------
(***************************************************************************)
(* What clients send to the eth_* methods that need the store, and what    *)
(* they get back (rpc.rs).  A request is a record with a method; its num   *)
(* is a block number argument.                                             *)
(***************************************************************************)
EXTENDS HashMapEthDB

LatestBlock   == [tag |-> "Latest"]
EarliestBlock == [tag |-> "Earliest"]
BlockNum(n)   == [tag |-> "Num", n |-> n]
BlockHash(h)  == [tag |-> "Hash", hash |-> h]

NoRequest == [method |-> "none"]

\* Methods with a block number argument that is looked at.
NumberMethods == {"call", "estimateGas", "getBalance", "getTransactionCount"}

\* The methods that need the store.
Methods == NumberMethods \cup {"blockNumber", "getBlockByNumber",
                               "getTransactionReceipt", "sendRawTransaction"}

\* Refused before any lock: a transaction that does not decode or whose sender
\* cannot be recovered, and a call without a receiver.
Malformed(r) ==
    \/ r.method = "sendRawTransaction" /\ r.tx = <<>>
    \/ r.method = "call" /\ r.to = None

\* A hash that no block has is an error of parse_number.
Resolves(num) == num.tag = "Hash" => num.hash \in DOMAIN hash_index

-----------------------------------------------------------------------------
(* Answers                                                                 *)

\* A block as clients see it: what its header says, and never its transactions.
RpcBlock(header) ==
    [ hash              |-> HeaderHash(header),
      parent_hash       |-> header.parent_hash,
      state_root        |-> header.state_root,
      transactions_root |-> header.transactions_root,
      receipts_root     |-> header.receipts_root,
      number            |-> header.number,
      timestamp         |-> header.timestamp,
      transactions      |-> <<>> ]

NoReply == [status |-> "none", req |-> NoRequest]
Ok(r, value) == [status |-> "ok", req |-> r, value |-> value]
Error(r, message) == [status |-> "error", req |-> r, message |-> message]
Dropped(r) == [status |-> "dropped", req |-> r]
=============================================================================
