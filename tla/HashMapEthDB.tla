----------------------------- MODULE HashMapEthDB -----------------------------
(***************************************************************************)
(* The node's store (db.rs, HashMapEthDB): a chain of one-transaction      *)
(* blocks, one account snapshot per block, the hash index and the records  *)
(* of committed transactions.  Each operation runs under the write lock of *)
(* the runtime, so here each is one step; EthRpc adds the lock and the     *)
(* threads.                                                                *)
(*                                                                         *)
(* Vec index i of the code is position i + 1 of a sequence here.           *)
(***************************************************************************)
EXTENDS Evm, FiniteSets

CONSTANTS
    SignedTxs,   \* transactions clients may submit
    Callers,     \* `from' addresses of eth_estimateGas
    Receivers,   \* `to' addresses of eth_estimateGas (None creates)
    Values,      \* values sent along with a call
    Times,       \* what the system clock may read
    MaxHeight,   \* bound: no commit above this height
    MaxNonce     \* bound: no estimate by a caller whose nonce reached this

StoreAssumption ==
    /\ \A tx \in SignedTxs : tx.nonce \in Nat /\ tx.value \in Nat
    /\ Values \subseteq Nat
    /\ Times \subseteq Nat
    /\ MaxHeight \in Nat
    /\ MaxNonce \in Nat

ASSUME StoreAssumption

VARIABLES
    blocks,      \* blocks[n + 1] is the block of height n
    accounts,    \* accounts[n + 1] is the snapshot after block n
    hash_index,  \* block hash -> height
    infos,       \* transaction hash -> record of its last commit
    estimated    \* history: the heights whose snapshot an estimate rewrote

dbVars == <<blocks, accounts, hash_index, infos, estimated>>

best_number == Len(blocks) - 1
BestBlock   == blocks[Len(blocks)]
Latest      == accounts[Len(accounts)]

-----------------------------------------------------------------------------
(* Running a transaction against a snapshot                                *)

\* EthDBBackend::execute, up to the executor's answer.
Execute(accts, sender, value, to) ==
    IF to = None THEN TransactCreate(accts, sender, value)
                 ELSE TransactCall(accts, sender, value, to)

\* EthDBBackend::execute, from the executor's answer on: only a success is
\* written back, with delete_empty off.
Applied(accts, out) ==
    IF out.ok THEN Apply(accts, out.modifies, out.deletes, FALSE) ELSE accts

-----------------------------------------------------------------------------
(* Building and saving a block                                             *)

\* Mutants of NewBlock: the number is not advanced; the hash is memoized
\* before the transactions root is set.
NewBlock_SameNumber(txs, now) ==
    LET best == BestBlock
    IN  [ header |-> ComputeHash([DefaultHeader EXCEPT
              !.parent_hash = HeaderHash(best.header),
              !.number = best.header.number,
              !.timestamp = now,
              !.transactions_root = transaction_root(txs)]),
          transactions |-> txs ]

NewBlock_EarlyHash(txs, now) ==
    LET best == BestBlock
        h == ComputeHash([DefaultHeader EXCEPT
              !.parent_hash = HeaderHash(best.header),
              !.number = best.header.number + 1,
              !.timestamp = now])
    IN  [ header |-> [h EXCEPT !.transactions_root = transaction_root(txs)],
          transactions |-> txs ]

\* The roots are placeholders made from the number.
NewBlock(txs, now) ==
    LET best   == BestBlock
        number == best.header.number + 1
        h == [DefaultHeader EXCEPT
                 !.parent_hash = HeaderHash(best.header),
                 !.number = number,
                 !.state_root = FromLowU64(number),
                 !.receipts_root = FromLowU64(number),
                 !.timestamp = now]
    IN  [ header |-> ComputeHash([h EXCEPT
                         !.transactions_root = transaction_root(txs)]),
          transactions |-> txs ]

\* Mutant of SaveBlock: the index takes the length before the push as height
\* of the parent instead of the block's own number.
SaveBlock_StaleNumber(block) ==
    /\ blocks' = Append(blocks, block)
    /\ hash_index' = Put(hash_index, HeaderHash(block.header), best_number)

SaveBlock(block) ==
    /\ blocks' = Append(blocks, block)
    /\ hash_index' = Put(hash_index, HeaderHash(block.header), block.header.number)

\* Mutant of TransactionInfo: the record names the parent block.
TransactionInfo_OfParent(tx, block, last, logs) ==
    [ transaction |-> tx,
      post_state  |-> last.header.state_root,
      parent_hash |-> HeaderHash(last.header),
      block_hash  |-> HeaderHash(last.header),
      index       |-> 0,
      logs        |-> logs ]

TransactionInfo(tx, block, last, logs) ==
    [ transaction |-> tx,
      post_state  |-> last.header.state_root,
      parent_hash |-> HeaderHash(last.header),
      block_hash  |-> HeaderHash(block.header),
      index       |-> 0,
      logs        |-> logs ]

-----------------------------------------------------------------------------
(* Operations that change the store                                        *)

CommitTx(tx, now, out) ==
    LET block == NewBlock(<<tx>>, now)
    IN  /\ accounts' = Append(accounts, Applied(Latest, out))
        /\ SaveBlock(block)
        /\ infos' = Put(infos, TxHash(tx),
                        TransactionInfo(tx, block, BestBlock, out.logs))
        /\ UNCHANGED estimated

\* Mutants of SubmitTx: it runs on the genesis snapshot; it runs on the last
\* snapshot itself instead of a clone; it pushes the snapshot before it looks
\* at the exit reason; it keeps the first record of a transaction.
SubmitTx_OnGenesis(tx, now, out) ==
    LET block == NewBlock(<<tx>>, now)
    IN  /\ out \in Execute(accounts[1], tx.sender, tx.value, receiver(tx))
        /\ out.ok
        /\ accounts' = Append(accounts, Applied(accounts[1], out))
        /\ SaveBlock(block)
        /\ infos' = Put(infos, TxHash(tx),
                        TransactionInfo(tx, block, BestBlock, out.logs))
        /\ UNCHANGED estimated

SubmitTx_InPlace(tx, now, out) ==
    /\ out \in Execute(Latest, tx.sender, tx.value, receiver(tx))
    /\ out.ok
    /\ LET block == NewBlock(<<tx>>, now)
           run   == Applied(Latest, out)
       IN  /\ accounts' = Append([accounts EXCEPT ![Len(accounts)] = run], run)
           /\ SaveBlock(block)
           /\ infos' = Put(infos, TxHash(tx),
                           TransactionInfo(tx, block, BestBlock, out.logs))
           /\ UNCHANGED estimated

SubmitTx_PushesRefused(tx, now, out) ==
    /\ out \in Execute(Latest, tx.sender, tx.value, receiver(tx))
    /\ \/ /\ out.ok
          /\ CommitTx(tx, now, out)
       \/ /\ ~out.ok
          /\ accounts' = Append(accounts, Latest)
          /\ UNCHANGED <<blocks, hash_index, infos, estimated>>

SubmitTx_KeepsFirstInfo(tx, now, out) ==
    /\ out \in Execute(Latest, tx.sender, tx.value, receiver(tx))
    /\ out.ok
    /\ IF TxHash(tx) \in DOMAIN infos
       THEN /\ accounts' = Append(accounts, Applied(Latest, out))
            /\ SaveBlock(NewBlock(<<tx>>, now))
            /\ UNCHANGED <<infos, estimated>>
       ELSE CommitTx(tx, now, out)

\* submit_tx: the new state and block are kept only when execution succeeded.
\* Neither the transaction's nonce nor its chain id is looked at.
SubmitTx(tx, now, out) ==
    /\ out \in Execute(Latest, tx.sender, tx.value, receiver(tx))
    /\ \/ /\ out.ok
          /\ CommitTx(tx, now, out)
       \/ /\ ~out.ok
          /\ UNCHANGED dbVars

\* estimate_gas executes on the stored snapshot itself, not on a clone.
EstimateGas(n, caller, value, to, out) ==
    /\ n \in 0 .. best_number
    /\ out \in Execute(accounts[n + 1], caller, value, to)
    /\ accounts' = [accounts EXCEPT ![n + 1] = Applied(@, out)]
    /\ estimated' = IF out.ok THEN estimated \cup {n} ELSE estimated
    /\ UNCHANGED <<blocks, hash_index, infos>>

-----------------------------------------------------------------------------
(* Queries                                                                 *)

\* EthDBBackend::call: a static call, of which nothing is applied.  Code may
\* succeed or fail, and calling an address without code succeeds.
StaticCall(accts, to) == IF code(accts, to) = EmptyCode THEN {TRUE} ELSE BOOLEAN

\* call: it runs on the snapshot of height n, and code sees the header of the
\* last block.
call(n, to) ==
    {[ok |-> ok, state |-> n, context |-> BestBlock.header.number] :
        ok \in StaticCall(accounts[n + 1], to)}

\* receipt: None for an unknown transaction.  `unwrap' of the block number is
\* the application of hash_index.
receipt(hash) ==
    IF hash \notin DOMAIN infos THEN None
    ELSE LET info   == infos[hash]
             tx     == info.transaction
             number == hash_index[info.block_hash]
         IN  [ transaction_hash  |-> hash,
               transaction_index |-> info.index,
               block_hash        |-> info.block_hash,
               block_number      |-> number,
               from              |-> tx.sender,
               to                |-> receiver(tx),
               contract_address  |-> contract_address(tx),
               state_root        |-> blocks[number + 1].header.state_root,
               logs              |-> <<>> ]

-----------------------------------------------------------------------------
(* Specification                                                           *)

\* Mutant of CreateGenesis: an account is funded.
CreateGenesis_Funded(now) ==
    LET h == ComputeHash([DefaultHeader EXCEPT !.timestamp = now])
    IN  /\ blocks = << [header |-> h, transactions |-> <<>>] >>
        /\ accounts = << [a \in Callers |-> [DefaultAccount EXCEPT !.balance = 1]] >>
        /\ hash_index = Put(EmptyMap, HeaderHash(h), 0)

CreateGenesis(now) ==
    LET h == ComputeHash([DefaultHeader EXCEPT !.timestamp = now])
    IN  /\ blocks = << [header |-> h, transactions |-> <<>>] >>
        /\ accounts = << EmptyMap >>
        /\ hash_index = Put(EmptyMap, HeaderHash(h), 0)

DBInit ==
    /\ \E now \in Times : CreateGenesis(now)
    /\ infos = EmptyMap
    /\ estimated = {}

Submit ==
    /\ best_number < MaxHeight
    /\ \E tx \in SignedTxs, now \in Times :
          \E out \in Execute(Latest, tx.sender, tx.value, receiver(tx)) :
             SubmitTx(tx, now, out)

Estimate ==
    \E n \in 0 .. best_number, caller \in Callers, value \in Values, to \in Receivers :
        /\ basic(accounts[n + 1], caller).nonce < MaxNonce
        /\ \E out \in Execute(accounts[n + 1], caller, value, to) :
              EstimateGas(n, caller, value, to, out)

DBNext == Submit \/ Estimate

DBSpec == DBInit /\ [][DBNext]_dbVars

-----------------------------------------------------------------------------
(* Properties                                                              *)

IsSeq(s) == s \in Seq({s[i] : i \in DOMAIN s})

IsAccount(acc) ==
    /\ acc = [nonce |-> acc.nonce, balance |-> acc.balance,
              code |-> acc.code, storage |-> acc.storage]
    /\ acc.nonce \in Nat
    /\ acc.balance \in Nat
    /\ IsMap(acc.storage)
    /\ \A k \in DOMAIN acc.storage : acc.storage[k] \in Nat \ {0}

IsSnapshot(accts) ==
    IsMap(accts) /\ \A a \in DOMAIN accts : IsAccount(accts[a])

\* The types of the store.  Part of it is that no snapshot ever stores a zero
\* word: a slot cleared by a contract leaves the BTreeMap, whatever sequence of
\* commits and estimates wrote it (db.rs, apply, the two removals of zeros).
DBTypeOK ==
    /\ IsSeq(blocks)
    /\ IsSeq(accounts)
    /\ \A i \in DOMAIN accounts : IsSnapshot(accounts[i])
    /\ IsMap(hash_index)
    /\ \A h \in DOMAIN hash_index : hash_index[h] \in Nat
    /\ IsMap(infos)
    /\ estimated \subseteq 0 .. best_number

\* There is one snapshot per block, so a height that names a block names a
\* snapshot too: best_number, computed from blocks, may index accounts.
SnapshotPerBlock == Len(blocks) >= 1 /\ Len(accounts) = Len(blocks)

\* Position, number and parent hash agree: the block at height n says n and
\* names the hash of the block at height n - 1.
ChainLinked ==
    \A n \in 0 .. best_number :
        /\ blocks[n + 1].header.number = n
        /\ n > 0 => blocks[n + 1].header.parent_hash = HeaderHash(blocks[n].header)

\* The memoized hash of a stored header is the hash of its fields, and the
\* fields commit to the block's transactions: the memo was not taken before
\* the header was complete (ethcore.rs, compute_hash never recomputes it).
HashesFresh ==
    \A n \in 0 .. best_number :
        LET block == blocks[n + 1]
        IN  /\ block.header.hash = Keccak(Rlp(block.header))
            /\ n > 0 => block.header.transactions_root
                            = transaction_root(block.transactions)

\* The hash index is exactly the inverse of the chain, so a block can be found
\* by its hash and no two blocks share one.
HashIndexExact ==
    /\ DOMAIN hash_index = {HeaderHash(blocks[i].header) : i \in DOMAIN blocks}
    /\ \A n \in 0 .. best_number :
          hash_index[HeaderHash(blocks[n + 1].header)] = n

\* The record of a committed transaction leads to a block of the chain that
\* holds the transaction, and agrees with that block and its parent.  In
\* particular the unwrap of the block number in `receipt' cannot fail.
ReceiptsSound ==
    \A h \in DOMAIN infos :
        LET info == infos[h]
            n    == hash_index[info.block_hash]
        IN  /\ info.block_hash \in DOMAIN hash_index
            /\ n \in 1 .. best_number
            /\ TxHash(info.transaction) = h
            /\ blocks[n + 1].transactions[info.index + 1] = info.transaction
            /\ info.parent_hash = HeaderHash(blocks[n].header)
            /\ info.post_state = blocks[n].header.state_root

\* Every transaction of the chain has a record, and the record is that of its
\* last commit: when the same signed transaction is accepted again its receipt
\* moves to the new block.
LastCommitHasReceipt ==
    \A n \in 1 .. best_number :
        LET h == TxHash(blocks[n + 1].transactions[1])
        IN  h \in DOMAIN infos /\ hash_index[infos[h].block_hash] >= n

Senders == {tx.sender : tx \in SignedTxs}

TxOf(n) == blocks[n + 1].transactions[1]

\* The number of transactions of an account in blocks 1 .. n.
TxCount(a, n) == Cardinality({m \in 1 .. n : TxOf(m).sender = a})

\* Heights whose snapshot no estimate can have influenced.
Untouched(n) == \A m \in estimated : n < m

\* A snapshot is what running its block's transaction with success makes of the
\* snapshot before it: no commit drops, doubles or mixes in a change.  Only an
\* estimate that rewrote one of the two can part them.
SnapshotsReplay ==
    \A n \in 1 .. best_number :
        LET tx == TxOf(n)
        IN  {n - 1, n} \cap estimated = {} =>
            \E out \in Execute(accounts[n], tx.sender, tx.value, receiver(tx)) :
                out.ok /\ accounts[n + 1] = Applied(accounts[n], out)

\* Below the lowest height an estimate rewrote, the nonce an account has in a
\* snapshot is the number of its transactions up to that block, whatever was
\* refused, resubmitted or executed by contracts in between.
UntouchedNonceIsTxCount ==
    \A n \in 0 .. best_number, a \in Senders :
        Untouched(n) => basic(accounts[n + 1], a).nonce = TxCount(a, n)

\* eth_getTransactionCount is documented to return the number of transactions
\* sent from an address at a block (rpc.rs).  It answers the nonce of the
\* snapshot, so this is the claim that the two always agree.
NonceIsTxCount ==
    \A n \in 0 .. best_number, a \in Senders :
        basic(accounts[n + 1], a).nonce = TxCount(a, n)

\* When a transaction that creates a contract carries the nonce its sender has
\* in the parent snapshot, the new contract is where its receipt says: the address
\* was free, and now there is an account whose nonce is past zero, unless the run
\* that made the snapshot ended with the contract destroyed.
DeployedAtReceiptAddress ==
    \A n \in 1 .. best_number :
        LET tx == TxOf(n)
            at == contract_address(tx)
        IN  ( /\ {n - 1, n} \cap estimated = {}
              /\ tx.action = Create
              /\ tx.nonce = basic(accounts[n], tx.sender).nonce ) =>
            /\ Vacant(accounts[n], at)
            /\ \E out \in Execute(accounts[n], tx.sender, tx.value, receiver(tx)) :
                  /\ out.ok
                  /\ accounts[n + 1] = Applied(accounts[n], out)
                  /\ basic(accounts[n + 1], at).nonce > 0 \/ at \in out.deletes

\* The contract address of a receipt (rpc_types.rs, RpcReceipt) is the address
\* of an account of the block the receipt names.
ReceiptContractExists ==
    \A h \in DOMAIN infos :
        infos[h].transaction.action = Create =>
            exists(accounts[receipt(h).block_number + 1], receipt(h).contract_address)

\* The genesis snapshot is empty and nothing mints: every balance stays zero,
\* so no transaction that moves value is ever committed.
NoEtherExists ==
    /\ \A i \in DOMAIN accounts : \A a \in DOMAIN accounts[i] :
          accounts[i][a].balance = 0
    /\ \A n \in 1 .. best_number : TxOf(n).value = 0

\* No step rewrites history: blocks and index entries stay, blocks and
\* snapshots are added together, and only an estimate may change a snapshot
\* that is already there.
HistoryKept ==
    [][ /\ \A i \in DOMAIN blocks : blocks'[i] = blocks[i]
        /\ \A h \in DOMAIN hash_index : hash_index'[h] = hash_index[h]
        /\ \A n \in (0 .. best_number) \ estimated' :
              accounts'[n + 1] = accounts[n + 1]
        /\ Len(accounts') - Len(accounts) = Len(blocks') - Len(blocks) ]_dbVars

\* The ledger inside the store: the log is the transactions of the chain, and
\* a transaction is looked up by way of its record and the hash index.
TheLedger ==
    INSTANCE Ledger WITH
        log   <- [n \in 1 .. best_number |-> TxOf(n)],
        where <- [h \in DOMAIN infos |-> hash_index[infos[h].block_hash]]

\* Chain, index and records together are one append-only log: every transaction
\* that is accepted adds one entry and becomes the last entry of its hash, and
\* nothing else ever moves an entry.
IsLedger == TheLedger!LedgerSpec
=============================================================================
