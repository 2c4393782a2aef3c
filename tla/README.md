# A TLA+ model of tethereum

`tethereum` is a single-node Ethereum prototype in Rust: it answers the `eth_*`
JSON-RPC methods over HTTP, runs each submitted transaction in the EVM at once,
and puts it in a block of its own. Everything is kept in memory. This directory
holds TLA+ modules that model its store and its RPC handlers, TLC
configurations that check them on small instances, and proofs that TLAPS checks
for every value of the constants.

Source paths below are relative to the repository: the crate's files are in
`src/src/`.

## 1. Inventory

| Component | State | Operations | Interacts with |
|---|---|---|---|
| Store, `HashMapEthDB` (`db.rs` 25-31, 254-434) | `blocks`, `accounts` (one snapshot per block), `hash_index`, `infos` | `new`, `create_genesis`, `submit_tx`, `new_block`, `save_block`, `estimate_gas`, `call`, `receipt`, `best_block`, `best_number` | called by the handlers under the lock; calls the backend |
| EVM backend, `EthDBBackend` (`db.rs` 33-252) | borrows one snapshot, collects logs | the `Backend` queries, `ApplyBackend::apply`, `execute` | the executor of crate `evm` reads through it and its changes are applied by it |
| Blocks and headers (`ethcore.rs`) | a header with a memoized hash | `compute_hash`, `hash`, RLP, `transaction_root` | the store |
| Transactions (`transaction.rs`) | nonce, action, value, `v`, `r`, `s`, memoized hash, recovered sender | RLP, `sign`, `recover_public`, `verify_basic`, `chain_id`, `contract_address` | decoded by `eth_sendRawTransaction`, run by the store |
| RPC handlers, `EthClient` (`rpc.rs` 175-494) | `Arc<RwLock<HashMapEthDB>>` (`runtime.rs`), shared with the other threads | one handler per method, `parse_number`, `get_db!`, `get_mut_db!` | four server threads run them |
| Block number argument (`rpc.rs` 51-173) | none | serde visitor for strings and objects | the handlers get the decoded value |
| RPC types (`rpc_types.rs`) | none | conversions, serde derives | answers of the handlers |
| Middleware and wiring (`middleware.rs`, `main.rs`) | a request counter | counts a request and passes it on | the HTTP server |
| `net_*`, `web3_*` | none | constants, `web3_sha3` | - |

What is hard here:

- **Concurrency.** Four threads run handlers. A handler with a block number
  argument locks twice: the first guard moves into `parse_number`, which drops it;
  the second serves the request. Commits and estimates of other threads can run in
  between, so the number is stale when it is used.
- **Locks.** The second lock is on the same `RwLock`, and is a write lock for `call`
  and `estimate_gas`. A first guard that lived on would block its own thread.
- **Failure.** A panic under the write guard poisons the lock, after which
  `get_db!` and `get_mut_db!` answer errors for ever. `call` and `estimate_gas`
  `unwrap` an index that comes from the client.
- **State that must stay in step.** `best_number` is computed from `blocks`, indexes
  `accounts`, and is compared with numbers in headers; `hash_index` and `infos` name
  block hashes that are memoized before the block is stored.
- **Estimates that write.** `estimate_gas` runs on the stored snapshot itself, and a
  success is applied to it.
- **No nonce check.** A signed transaction can be accepted twice, early or late.

There is no network of nodes, no consensus and no persistence, so message loss and
crash recovery do not arise.

What makes each part correct:

- *Store*: the chain is linked; the memoized hashes are those of the fields; the
  index is the inverse of the chain; every record leads to its block; there is one
  snapshot per block; history is only rewritten by estimates.
- *Backend*: no zero word is ever stored; a self-destructed account is gone;
  balances stay natural numbers and nothing is minted.
- *Signatures*: a key is taken for the sender only of what it signed for that chain; what
  was signed is recovered.
- *The wire*: a block number argument has one meaning, whatever the order of its keys;
  a transaction is read as it was written, and bytes that are its list and nothing else
  have its hash.
- *Handlers*: guards are held exactly where the handlers' scopes say; every request
  ends; a number resolved under one guard is good under the next; what a client was
  told stays true; only a number that a client made up unwinds a handler, and nothing
  changes once the lock is poisoned; under all threads the store is still the store.

`PROJECT.json` lists the hazards with their lines and the properties aimed at them.

## 2. Modules

| Module | Models | Lines of code it stands for |
|---|---|---|
| `EthCore` | hashes, maps, transactions and headers as values | `ethcore.rs`, parts of `transaction.rs` |
| `EthDBBackend` | the backend's queries and `apply` | `db.rs` 33-168 |
| `ApplyLoop` | the loop of `apply`, item by item and slot by slot | `db.rs` 33-103 |
| `Evm` | *external*: what the executor may return | how `db.rs` 217-252 uses crate `evm` |
| `HashMapEthDB` | the store, one action per operation under the lock | `db.rs` 185-433 |
| `EthRequests` | requests and answers of the `eth_*` methods that need the store, `RpcBlock` | `rpc.rs` 33-74, 337-340, 381-403, `rpc_types.rs` 314-348 |
| `EthRpc` | handlers, threads and the lock over the store | `rpc.rs` 17-31, 175-193, 330-494, `runtime.rs` |
| `TransactionSignature` | signing for a chain, the arithmetic of `v`, recovery of the sender | `transaction.rs` 107-193, 267-307, 346-382, 437-452 |
| `TransactionCodec` | the RLP lists that are signed, sent and read | `transaction.rs` 40-103, 132-163, 267-329 |
| `BlockNumberCodec` | the serde visitor of block number arguments, key by key | `rpc.rs` 51-173 |
| `OneThread` | the two codecs, the signatures and the loop of `apply`, each stepping while the others rest | - |
| `Ledger` | *abstract*: an append-only log of transactions with one record each | - |
| `EthService` | *abstract*: a store that serves every request in one step | - |
| `MCHashMapEthDB`, `MCApplyLoop`, `MCEthRpc`, `MCTransactionSignature`, `MCTransactionCodec`, `MCOneThread` | values for the constants | - |
| `HashMapEthDBProofs`, `HistoryProofs` | theorems on the store and on its records | - |
| `ApplyLoopProofs` | the loop of `apply` computes `Apply` | - |
| `EthRpcProofs`, `EthServiceProofs` | theorems on the handlers | - |
| `TransactionSignatureProofs`, `TransactionCodecProofs`, `BlockNumberCodecProofs` | theorems on signatures, on transactions on the wire and on block number arguments | - |

They extend one another in this order: `EthCore`, `EthDBBackend`, `Evm`,
`HashMapEthDB`, `EthRequests`, and then `EthRpc` and `EthService` each on its own, so that the
abstract service is written in the store's terms but shares no step with the handlers.
`TransactionSignature` extends `EthCore` and stands beside the
store: `EthRpc` starts from transactions whose sender was recovered, or that were
refused (`Malformed`), and `TransactionSignature` says when which happens. The two codecs
extend `EthCore` too: what they yield is what
`EthRequests` starts from. `ApplyLoop` extends
`EthDBBackend` and stands beside the store too: the store uses `Apply`, one map for all
items at once, and `ApplyLoop` says that the code's loop computes it. These four share no
variable, so that no step of one can disturb another, and `OneThread` puts them into one
specification to be checked together, each of them stepping while the others rest.

### Refinements

- `HashMapEthDB!IsLedger`: the store implements `Ledger`. The log is the transactions of
  the blocks after genesis, and the place of a transaction is the height its record
  leads to, by way of `hash_index`. Estimates, refusals and failed executions are
  stutters. The handlers over the store implement it too: of all that clients may ask,
  only an accepted transaction is a step of the ledger.
- `EthRpc!IsAtomicService`: the handlers implement `EthService`. A client is a worker; it
  waits (`pending`) for the request of a worker that is not idle; a poisoned lock is a
  broken service. Taking and giving back guards and resolving a number are stutters, and
  each request takes effect with the body of its handler. The two guards show in one
  place only: `latest` may stand for any height from that of the chain when the request
  arrived up to the best one (`Heights`). A service is only broken by a request with a
  number that the client made up (`Break`).

### How state and actions correspond to the code

- Vec index `i` is position `i + 1` of a sequence. A `HashMap` is a function whose
  domain is its keys. `Option::None` is `<<>>`, `Some(id)` of a chain id is `<<id>>`.
- A hash is a tagged tuple of what is hashed, so Keccak is injective and never yields
  the constants the code uses as placeholders. Every result about hashes assumes that.
- A header carries the fields the node sets (`new_block`) and `hash`, the memo.
  Author, bloom, gas, difficulty and extra data never change and are left out, as is
  gas: every execution is given `u64::MAX`.
- `Execute` gives the *set* of answers the executor may give on a snapshot. `Frame` is what
  is touched before any code runs: the sender's nonce is incremented and the value is moved. What
  contract code does from there on is failure or a choice from the constant `Effects`: it writes
  storage and logs; touches other accounts, whose code may write and destroy itself
  (`calls`); pays one of them (`payee`, `paid`); tries to create contracts, of which the
  last may come into being (`creates`, `child`); destroys itself. Init code does the same
  before it returns the code of the new contract. The executor hands over a modification for
  every account that was touched (`Reached`), so a commit or an estimate may add
  accounts that neither the sender nor the receiver named. `Possible` says which choices an
  account can afford: it pays from its balance, only accounts with code write, and a
  contract is created only where there is none (`Vacant`).
- A transaction of the store stands for the bytes that it came as. The same nine fields received
  as other bytes have another hash (see `trailing` below) and are another transaction here.
- `Apply` takes the items as a map of modifications and a set of deletions. In `ApplyLoop` an
  item and a slot are a step each and the accounts are half written in between; the order of
  items and slots, which is the executor's, is left open. The executor is external and
  hands over at most one item per address. `execute` passes `false` for `delete_empty`;
  `ApplyLoop` takes both.
- `SubmitTx` is the whole of `submit_tx`: execution on a clone of the last snapshot,
  and either all of snapshot, block, index and record, or nothing. `EstimateGas` is the
  whole of `estimate_gas`, applied in place.
- In `EthRpc` a handler is a sequence of steps: `Receive` (with the checks made before
  any lock), `LockNumber`, `ParseNumber`, `LockServe`, and the handler's body. What
  happens under one guard is one step, which is sound because no other thread can see
  the store change meanwhile: `Lock` excludes writers from readers as `RwLock` does, and
  `GuardsMatchScopes` checks that a guard is held wherever the store is read or changed.
- The `RwLock` is `readers`, `writer` and `poisoned`. A panic under the write guard is
  the step `Panic`: the guard is dropped, the lock is poisoned, and the worker is free
  again with the connection closed (`futures-cpupool`/`tokio` catch the unwind).
- `RpcBlock` copies what a header says. The list of transactions of an `RpcBlock` is always
  empty, as in the code.
- `estimated` and `since` are history variables: no guard reads them.
- In `BlockNumberCodec` an object reaches the visitor the way serde_json hands it over: the
  last value of each key, in the order of the `BTreeMap` behind it. Each key the loop
  takes is a step; `blockNumber` ends the loop, and what is still unread is then an error
  of serde_json. A text is told apart by its shape: a word, hexadecimal or not, with the
  64 digits of a hash or fewer, with or without `0x`.
- In `TransactionCodec` an item is data of bytes or a list, and numbers are read and written
  big-endian without leading zeros, which the `rlp` crate does and this crate relies on.
  What comes over the wire is a list the node wrote, and then changed: items replaced, added or
  cut off, another length in its header, a tail that begins no item. `ItemsRead` is what
  the crate finds in that: the first item within the length of the list, the others
  wherever the one before ended, and an end without an error at what is no item.
  `Base` (values of a byte) and the widths are constants.
- In `TransactionSignature` keys sign (`Sign`), and what `decode` takes from the wire
  (`DecodeAny`) combines any signature that was made, or none, with any transaction and
  any `v`. ECDSA is external: recovery gives the signer for the message and parity
  that were signed and a stranger otherwise. The negated `s` of the same signature is
  not modelled. `MaxV` is the width of `v`, and `OverflowChecks` tells debug builds,
  where the sum panics, from release builds, where it wraps. `signed` is history.

### Bounds

`MaxHeight` (commits), `MaxNonce` (estimates by one caller), `MaxRequests`, `MaxSigned`
(signatures), `MaxEntries` (of an object) and `MaxChanges` (to the bytes on the wire) bound the runs
and nothing else; in the theorems they are arbitrary naturals, so
the proofs cover every chain length and any number of requests. `EthRpc` is bounded by
`MaxRequests` alone: its handlers use `SubmitTx` and `EstimateGas` directly.

## 3. Runs

The runs of the store and the handlers, and `wraps`, say `CHECK_DEADLOCK FALSE`, because a
bounded behaviour ends: the chain reaches its bound, or all requests were served. The
two codecs and the loop of `apply` start over after each argument, any signature can come
before the node again, and `one_thread` and `trailing` check deadlock.

| Run | Checks | Bounds, and why they are enough |
|---|---|---|
| `commits` | `ChainLinked`, `HashesFresh`, `HashIndexExact`, `ReceiptsSound`, `LastCommitHasReceipt` | Four blocks over genesis, two clock readings. Five transactions: a deployment, a call of what it deployed, a message without value, the same message received with a tail, a transfer that can never be paid. Four blocks let a transaction be accepted, repeated and repeated again with others in between. |
| `estimates` | `DBTypeOK`, `SnapshotPerBlock`, `SnapshotsReplay`, `UntouchedNonceIsTxCount`, `DeployedAtReceiptAddress`, `NoEtherExists`, `HistoryKept`, `IsLedger` | Two blocks, estimates by two callers at every height that create, call and message. Contract and init code sets a slot and logs, clears the slot and creates a second contract, has that one write and destroy itself, or destroys itself in favour of an account that was not there: an estimate can write what a commit later reads and clears, and each kind of account that the executor may hand over is met. |
| `rpc_reads` | `LatestIsRecent`, `ResolvedNumberStaysValid`, `CountStaysTrue`, `AcceptedIsCommitted`, `ShownBlockStays`, `ShownReceiptStays`, `IsAtomicService` | Two workers, four of twelve requests: enough for commits and an estimate to fall between the two guards of a reader, for an earlier answer to be held against the chain after them, and for a receipt to be shown and its transaction accepted again. |
| `rpc_failures` | `RpcTypeOK`, `GuardsMatchScopes`, `WaitersHaveHolders`, `OnlyGuardsBlock`, `PanicsAreMadeUp`, `NoChangeOncePoisoned`, `HandlersAdvance`, `EveryRequestEnds`, `IsAtomicService` | Two workers, three of twelve requests that fail in every way a handler can: before a lock, while resolving, by `Vec::get`, by `unwrap`, at the poisoned lock. With fairness. |
| `one_thread` | `ObjectMeaning`, `NumberAsWritten`; `RoundTrip`, `HashOfPlainList`, `MessagesDiffer`; `SenderSigned`, `CanonicalV`, `SignerRecovered`; `LoopComputesApply` | Block numbers: twelve scalars, one for each way a text, a flag or anything else can be read, and every object of up to three entries over five keys, with repeated keys. A `u64` of two bits, so that texts just fit and just do not. Three entries are enough for each of the three known keys, or for one of them to be written twice. Transactions: a call, a creation, and two with neither `r` nor `s`, as a message to sign has. Up to two changes to the bytes: one of nine items put in place of another or after the last (empty data, an empty list, leading zeros, too long a number), the first item gone, any length of the list, a tail that is no item. Bytes of one bit, a `u64` and an address of two bytes and numbers of three, so that every limit of a width is met. Signatures: two signatures by two keys on two transactions, every `v`. A six-bit `u64`, so that chain ids fit, fit with one parity only, and wrap around to another chain id. A release build. Accounts: two addresses, each with no item, a `Delete` or one of 24 `Modify`s that keep or set the code, keep or reset the storage, and set, replace or clear up to two slots; an account that is not there, one without storage, and contracts with up to two slots. Two items of two slots meet in every order. |
| `nonce`, `contract`, `wraps`, `trailing`, `rpc_poison`, `rpc_callblock`, `rpc_blockbynumber` | one claim each of a comment or doc string that the code does not keep | The least that shows it. |

Two workers stand for four threads: every conflict of the lock is between two
holders, and the third and fourth thread only add more of the same waiting.

**Fairness.** `RpcFairSpec` asks weak fairness of every worker's steps and nothing of
clients: the operating system runs every thread that can run, and an execution in
the EVM ends because gas is finite. With finitely many requests weak fairness is
enough; it shows that no handler waits for a guard that is never given back. It does
not show that a writer gets its turn against an endless stream of readers, which
`std::sync::RwLock` leaves to the platform.

## 4. Where the code and its words disagree

Each is a run that TLC ends with a counterexample.

- `nonce`: `eth_getTransactionCount` is documented as the number of transactions sent.
  An estimate raises the nonce in a stored block, so the two part.
  `UntouchedNonceIsTxCount` states what does hold: below the lowest height an estimate
  rewrote, they agree.
- `contract`: a receipt's contract address comes from the signed nonce, the deployed
  one from the account's, and they are never compared.
  `DeployedAtReceiptAddress` states what does hold: with the right nonce the contract is
  where the receipt says, at an address that was free, unless its own init code or what
  that called destroyed it.
- `wraps`: `sign` is documented to sign as coming from the sender. For a chain id above
  2^63 - 18 a release build wraps `v` and recovers another sender. `SignerRecovered`
  states what does hold: below that limit the signer comes back.
- `trailing`: the hash of a transaction is documented as the keccak of its RLP. `decode` hashes
  all the bytes that came in, and of those after the list it only refuses what makes a tenth item,
  so one transaction is accepted under several hashes, with a record under each.
  `HashOfPlainList` states what does hold: the hash is that of the fields exactly when the
  bytes are the list and nothing else.
- `rpc_poison`: `eth_call` with a block number that does not exist panics under the
  write guard, and every later request that needs the store answers an error.
- `rpc_callblock`: a commit between the guards of `eth_call` on `latest` makes the call
  run on the accounts of one block with the header of the next.
- `rpc_blockbynumber`: `eth_getBlockByNumber` is documented to return the block with the given
  number, and answers the best block whatever it is given. `ShownBlockStays` states what does
  hold of the block it shows: it is of the chain, found by its hash and number, and when
  the latest was asked for no older than the chain the request met.

Others need no run, as a glance at the definition that models them shows: a block is never
shown with its transactions (`RpcBlock`), the logs that a commit records are never copied to its
receipt (`receipt`), and `verify_basic`, which would refuse a transaction signed for another
chain, is not called.

## 5. Proofs

### The store

`HashMapEthDBProofs` and `HistoryProofs` prove these of `StoreSpec`, the store whose steps
(`StoreStep`) are the commits of transactions that ran to success and the estimates, at the wish
of any caller and without the bounds of the runs. The theorems in the table are about
`DBSpec`, which the runs check; `BoundedStoreIsStore` says that it implies `StoreSpec`, and the
handlers imply it too, so that each result also holds of the store under threads (see below).

| Theorem | Says |
|---|---|
| `ChainInvAlways`, and from it `SnapshotPerBlockAlways`, `ChainLinkedAlways`, `HashesFreshAlways` | the chain is well formed |
| `DBTypeOKAlways` | the types, and with them that no zero word is stored and no balance is below zero |
| `HashIndexExactAlways` | the index is the inverse of the chain |
| `ReceiptsSoundAlways` | every record leads to its block; the `unwrap`s of `receipt` cannot fail |
| `HistoryAlwaysKept` | only an estimate rewrites a snapshot, nothing rewrites a block |
| `SnapshotsReplayAlways` | a snapshot is what its block's transaction may make of the one before |
| `DeployedAtReceiptAlways` | a deployment with the right nonce is where its receipt says, unless its own run destroyed it |
| `NoEtherExistsAlways` | no sequence of steps creates balance |
| `UntouchedNonceIsTxCountAlways` | below the lowest height an estimate rewrote, nonces count transactions |
| `LastCommitHasReceiptAlways` | the last transaction can be looked up, also when it is there twice |
| `StoreImplementsLedger` | the refinement of `Ledger` |

They assume `EvmAssumption` (what contract code may do is well typed, and it pays only
accounts that it touches) and `StoreAssumption` (transactions are records with natural
nonce and value; clock readings are naturals). They do not assume that the sets are
finite, and put no limit on heights. `UntouchedNonceIsTxCountAlways` also assumes
`SendersAreKeys`: no sender's address is the address of a contract. Both are digests, of a
key and of a sender with a nonce, and nothing in the code could tell them apart.

The inductive invariants, each a strengthening of the next property:

- `ChainInv == Aligned /\ ChainLinked /\ HashesFresh`, where `Aligned` says that blocks
  and snapshots are sequences of one positive length. `ChainLinked` alone is not
  inductive: the new block's number comes from the last header, and its parent hash
  from a memo, so both that header's number and its memo must be known to be right.
- `TypeInv == ChainInv /\ DBTypeOK`. The step needs lemmas on the backend, at the
  head of `HashMapEthDBProofs`: whatever the executor returns, `Apply` makes a snapshot of a
  snapshot (`AppliedIsSnapshot`), because `ModifiedStorage` drops the zeros
  (`ModifiedStorageHasNoZeros`) and the executor refuses a sender who cannot pay.
- `ReceiptInv == ChainInv /\ HashIndexExact /\ ReceiptsSound`. That a new block's hash is
  not in the index yet follows from `ChainLinked` and `HashesFresh`: hashes contain
  numbers, so blocks of different heights have different hashes (`HashesDiffer`).
  Records of older blocks then survive the new index entry.
- `HistoryKept` is an action property and follows from `ChainInv` at each step, a commit
  (`CommitKeepsHistory`) or an estimate (`EstimateKeepsHistory`).
- `ReplayInv == ChainInv /\ SnapshotsReplay`. A commit leaves older snapshots and transactions
  where they are (`CommitHeights`); an estimate marks the height it rewrites.
  `DeployedAtReceiptAddress` needs no induction of its own: it says of a snapshot that replays
  what every successful deployment does (`DeploymentIsThere`).
- `EtherInv == TypeInv /\ NoEtherExists`. If nobody has a balance the executor only accepts
  a value of zero, and whatever is moved or paid from there is zero.
- `NonceInv == TypeInv /\ SendersHaveNoCode /\ UntouchedNonceIsTxCount`. The count alone is
  not inductive: a sender with code could destroy itself and lose its nonce, so that no
  sender has code is part of the invariant, and `SendersAreKeys` keeps it: whatever code
  runs, it leaves nonce and code of an account that is no contract's (`OutcomeOrdinary`).
- `RecordInv == ReceiptInv /\ LastCommitHasReceipt`; the steps of the refinement follow from
  `CommitRecords`, which says what a commit does to the records.

`ApplyLoopProofs` proves of `LoopSpec`, for any items and slots on any snapshots that are maps
(`LoopAssumption`), `LoopAlwaysComputesApply`: when the last item was taken, the accounts are
what `Apply` says. That says nothing of the states in between, so the invariant of the loop,
`LoopInv`, does, address by address: accounts of items that were taken are those of the result,
all others are as before, and the account at hand is `Half` written. One slot more is
`OneMoreWritten`, whatever slots were written before, and therein lies the independence of the
order. That items and not only slots come once for each address is assumed of the executor.

### The handlers

`EthRpcProofs` proves of `RpcSpec`, for any number of workers and any requests, from the
assumptions of the store and `RpcAssumption` (a request that is no `NoRequest`, of one of the
eight methods that need the store, with a transaction of `SignedTxs`, a value of `Values` and a
natural number where it has one):

| Theorem | Says | Inductive invariant |
|---|---|---|
| `RpcTypeOKAlways`, `GuardsMatchScopesAlways` | types; guards are where the scopes say | `RpcInv == StoreInv /\ HandlerInv /\ LockInv` |
| `ResolvedNumberAlwaysValid`, `LatestIsAlwaysRecent` | a number from the first guard is good under the second | `NumberInv`, with `since` at most the height |
| `NoChangeOncePoisonedAlways` | the store is never changed from a panic on | `PoisonInv`: the lock is poisoned and nobody serves a write |
| `PanicsAlwaysMadeUp` | only a number that the client made up, and that no block had yet, unwinds a handler | `PanicInv`, on top of `NumberInv` |
| `AcceptedIsAlwaysCommitted`, `ShownBlockAlwaysStays`, `ShownReceiptAlwaysStays`, `CountAlwaysStaysTrue` | what clients were told stays true | `AnswerInv` |
| `WaitersAlwaysHaveHolders` | who waits for a guard waits for a holder that waits for nobody | `RpcInv` |
| `HandlersAlwaysAdvance` | every step leaves its handler fewer steps, and others where they are | `RpcInv` |
| `BusyHandlersCanStep`, `NoDeadlock` | who is busy and does not wait finds what its next step asks for; while a request is open, somebody does | `ClockInv == RpcInv /\ Times # {}` |
| `HandlersRunStore`, and from it `HandlersKeepStore`, `HandlersKeepNonces`, `HandlersKeepHistory`, `HandlersImplementLedger` | all that was proved of the store holds under the handlers | `RpcInv` |

The store enters through what holds of any step of it (`StoreOnlyGrows`): heights grow, blocks and
index entries stay, and only an estimate rewrites a snapshot. `LockInv` says who holds
which guard, and that a writer excludes readers. `StepStore` says that a step of a handler changes the store by a `StoreStep`
or not at all; thus `RpcSpec` implies `StoreSpec`, and the invariants of the store, its history
and the ledger carry over without a further induction. `HandlerSteps` sorts the steps of a handler into eight kinds, and
the invariants are proved by those.

`AnswerInv` says of the last answer of each worker, and of a given state of the store, that
it was true; `AnswersStayTrue` keeps it so while the store grows, and `NewAnswersAreTrue` shows it
where the handler answers. A receipt is the case where that takes most: its transaction may be
accepted again, and its record then names another block, but the block of the receipt stays.
`PanicInv` is `NumberInv` with what was seen by a handler that was unwound: `ServeDrops` says that
its number was beyond the chain, and `ResolvedNumberStaysValid` then that nobody resolved it.

Four of them are the safety half of `EveryRequestEnds`, for any number of threads: handlers
never wait in a circle (`WaitersAlwaysHaveHolders`), none goes back or tries again
(`HandlersAlwaysAdvance`), and whoever does not wait finds what its step asks for, which is
`CanStep` (`BusyHandlersCanStep`), so that there is no deadlock (`NoDeadlock`). `CanStep` spells out
when a step is possible, since `ENABLED` is out of the prover's reach; that it says so rightly,
`ENABLED Step(w) <=> CanStep(w)`, is the first half of `OnlyGuardsBlock`, and TLC's.

`EthServiceProofs` proves `HandlersImplementService`, that `RpcSpec` implies `IsAtomicService`.
Its first part shows that the operators of the two copies of the store agree
(`SameBasic` to `SameChanges`). `ServeInv` adds to `NumberInv` and `PoisonInv` that the number
of a worker is one its request may stand for (`Stands`), and that a poisoned lock has no
holder, so that nobody is served once the service is broken. Each kind of step is then
a step of the service or a stutter.

### Signatures and arguments

`TransactionSignatureProofs` proves of `SigSpec`, for every `MaxV` from 28 on, both
builds, and all keys, transactions and chain ids (`SigAssumption`):

| Theorem | Says |
|---|---|
| `SenderSignedAlways` | a key is the sender only of what it signed, on the chain it signed it for |
| `CanonicalVAlways` | with one `v` only |
| `SignerRecoveredAlways` | parity, chain id and signer survive a `v` that fits |

`MadeByKeys` says who made the signatures that are about, and is inductive because only `Sign`
makes them; with `SignedAsWritten` (each entry carries the `v` computed for it) it is `SigInv`.
The properties follow from it in each state: the first from the injectivity of the
message hash, the others from `VIsProtected` and `VRoundTrip`, which say that taking
`v` apart and putting it together are inverse to one another.

`BlockNumberCodecProofs` proves of `VisitorSpec`, for all scalars, every `MaxU64`
and objects of any size, that `ObjectMeaningAlways` and `NumberAlwaysAsWritten`. The
invariant of the loop, `LoopInv`, says which keys were read and what each local holds because
of it; the order of keys (`PositionOrder`) makes it that a hash is read before a number and
a flag after both. That the value of a key is that of its last entry rests on
`LastPosition`, which takes the greatest element of a finite set from the library's theorem
on chains of finite subsets. `VisitorAssumption`: the number in a text is a natural, and the
scalars are no objects.

`TransactionCodecProofs` proves of `CodecSpec`, for any byte and any widths
from two up, a `u64` no wider than a `U256`, any transactions with fields of the widths that
`UnverifiedTransaction` gives them and any items (`CodecAssumption`, `TransactionAssumption`,
`ItemAssumption`):

| Theorem | Says |
|---|---|
| `RoundTripAlways` | what was written is read back, field by field, with its hash |
| `HashOfPlainListAlways` | whatever bytes were accepted, their hash is that of the fields exactly when they are the list and nothing else |
| `MessagesAlwaysDiffer` | two transactions are signed as one message only if they agree, and a signed one is no message |
| `HashTellsTransactions` | two transactions with one hash agree in all nine fields |

The invariant, `CodecInv`, is about the wire: its items are data or lists, it is what the client's
transaction is encoded to until something changes it, and what was decoded was decoded from it.
The rest is about numbers. That a number has one shortest string of bytes
(`ShortestUnique`) and that a string without leading zeros is the one its number is written
as (`UintOfNumber`) are inductions over the length of the string. `AllNaturals` makes them
without an operator as a parameter: a set of naturals that holds 0 and with each number the
next holds all of them, as the library's theorem on minimal elements gives the least
one it lacks. A definition of bytes to numbers by a recursive function (`Prefixes`)
lets such a set be written down.

**Only model-checked:** `EveryRequestEnds` (liveness under fairness), and of `OnlyGuardsBlock`
the half with `ENABLED`; its other half is `BusyHandlersCanStep`. Both are out of the prover's
reach.
The runs that end with a counterexample have nothing to prove.

## 6. Not modelled

- Gas, gas price, bloom and block rewards: constant or unused.
- The inside of the EVM: external, and covered as far as `Effects` goes. What one piece of code
  does is modelled with the accounts it calls, pays and creates; not modelled are payments
  and creations by those in turn, several contracts of one creator in one run, and a called
  contract that destroys itself while it has ether. What is undone by a revert of part of an
  execution is simply not among its effects.
- `verify_basic`, `null_sign`, `fake_sign`, `LocalizedTransaction` and `PendingTransaction`:
  nothing in the node uses them.
- HTTP, JSON text and the middleware's counter, which nothing reads: input and output.
- The bytes of an RLP list: the `rlp` crate's, and external. Lists are modelled item by item,
  with the length they give themselves and what stands after them.
- The serde derives of `rpc_types.rs`, `Bytes`, and the types no handler fills
  (`RpcTransaction`, `Request`'s conversions): formats.
- `net_*`, `web3_*` and the `eth_*` methods that answer constants: no state.
- A wall clock before 1970, at which `unix()` panics.

## 7. Plan

Done: the store and its theorems, the loop of `apply`, the handlers and their theorems, the
refinements, the signatures, the two codecs and their theorems. Every invariant and action
property that a passing run checks is a theorem, except for `EveryRequestEnds` and the half of
`OnlyGuardsBlock` named above. What could still be added is a run of `EthRpc` with three
workers and requests that read only, for the lock alone.
