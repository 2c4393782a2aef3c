------------------------------- MODULE EthCore -------------------------------
(***************************************************************************)
(* Blocks, headers and transactions as values: ethcore.rs and the parts of *)
(* transaction.rs that the store reads.                                    *)
(*                                                                         *)
(* A 256-bit hash is a tagged tuple, so that Keccak is injective (no       *)
(* collisions) and its images differ from the constants the code uses.     *)
(* Header fields that no operation of the node ever sets (author, uncles,  *)
(* bloom, gas, difficulty, extra data) are left out.                       *)
(***************************************************************************)
EXTENDS Naturals, Sequences

Keccak(preimage) == <<"keccak", preimage>>
FromLowU64(n)    == <<"low_u64", n>>
ZeroHash         == FromLowU64(0)
KeccakNullRlp    == <<"keccak_null_rlp">>

\* Option<T>::None, for a receiver, a contract address or a memoized hash.
None == <<>>

CHAIN_ID == 127

-----------------------------------------------------------------------------
(* HashMap: a function whose domain is the set of keys.                    *)

EmptyMap == <<>>

\* HashMap::insert, which replaces the value of a key already there.
Put(map, key, value) ==
    [k \in DOMAIN map \cup {key} |-> IF k = key THEN value ELSE map[k]]

IsMap(map) == map = [k \in DOMAIN map |-> map[k]]

-----------------------------------------------------------------------------
(* Transactions.  A signed transaction is a record                         *)
(*   [sender, nonce, action, value, chain_id]                              *)
(* whose action is Create or the receiver's address, and whose chain_id is *)
(* None for a signature valid on every chain and <<id>> otherwise.  Other  *)
(* fields may stand for the rest of the bytes that it came as: the same    *)
(* transaction received as other bytes has another hash.                   *)

Create == <<"Create">>

\* The hash covers all that was received, and the signature fixes the sender.
TxHash(tx) == Keccak(<<"transaction", tx>>)

receiver(tx) == IF tx.action = Create THEN None ELSE tx.action

\* keccak(rlp([sender, nonce])) cut to 20 bytes, by transactions and the EVM.
CreateAddress(sender, nonce) == <<"contract", sender, nonce>>

\* Mutant of contract_address: the nonce after the transaction is used.
contract_address_NextNonce(tx) ==
    IF tx.action = Create THEN CreateAddress(tx.sender, tx.nonce + 1) ELSE None

contract_address(tx) ==
    IF tx.action = Create THEN CreateAddress(tx.sender, tx.nonce) ELSE None

transaction_root(txs) == Keccak([i \in DOMAIN txs |-> TxHash(txs[i])])

-----------------------------------------------------------------------------
(* Headers and their memoized hash.                                        *)

DefaultHeader ==
    [ parent_hash |-> ZeroHash, number |-> 0, timestamp |-> 0,
      state_root |-> KeccakNullRlp, transactions_root |-> KeccakNullRlp,
      receipts_root |-> KeccakNullRlp, hash |-> None ]

Rlp(h) == << h.parent_hash, h.state_root, h.transactions_root,
             h.receipts_root, h.number, h.timestamp >>

\* The memo when there is one, the hash of the fields otherwise.
HeaderHash(h) == IF h.hash # None THEN h.hash ELSE Keccak(Rlp(h))

ComputeHash(h) == [h EXCEPT !.hash = HeaderHash(h)]
=============================================================================
