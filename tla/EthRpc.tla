------------------------------- MODULE EthRpc -------------------------------
(***************************************************************************)
(* The eth_* handlers of rpc.rs, run by the HTTP server's threads over one *)
(* store behind Arc<RwLock<HashMapEthDB>> (runtime.rs).                    *)
(*                                                                         *)
(* A handler that takes a block number locks twice: it resolves the number *)
(* under a read guard that parse_number consumes, and serves the request   *)
(* under a second guard, so other handlers may run in between.  A panic    *)
(* under the write guard poisons the lock, and every later lock attempt    *)
(* then answers an error.                                                  *)
(*                                                                         *)
(* Handlers that never touch the store (eth_chainId, net_*, web3_*, ...)   *)
(* are left out.                                                           *)
(***************************************************************************)
EXTENDS EthRequests

CONSTANTS
    Workers,      \* server threads; each runs one handler at a time
    Requests,     \* requests clients may send
    MaxRequests   \* bound: requests received in one behaviour

RpcAssumption ==
    /\ Workers # {}
    /\ None \notin Workers
    /\ MaxRequests \in Nat
    /\ NoRequest \notin Requests
    /\ \A r \in Requests :
          /\ r.method \in Methods
          /\ r.method = "sendRawTransaction" /\ r.tx # <<>> => r.tx[1] \in SignedTxs
          /\ r.method = "estimateGas" => r.value \in Values
          /\ r.method \in NumberMethods /\ r.num.tag = "Num" => r.num.n \in Nat

ASSUME RpcAssumption

VARIABLES
    readers,   \* workers that hold a read guard
    writer,    \* the worker that holds the write guard, or None
    poisoned,  \* RwLock poisoning
    pc,        \* where each worker's handler is
    req,       \* the request it serves
    number,    \* the block number it resolved
    reply,     \* its last answer
    received,  \* number of requests received, for the bound
    since      \* history: the height when the request was received

lockVars == <<readers, writer, poisoned>>
rpcVars  == <<pc, req, number, reply, received, since>>
allVars  == <<dbVars, lockVars, rpcVars>>

-----------------------------------------------------------------------------
(* Guards and block numbers                                                *)

\* Methods that resolve a block number under a guard of its own.
TwoLocks == NumberMethods

\* Methods whose last (or only) guard is a write guard.
WriteMethods == {"sendRawTransaction", "call", "estimateGas"}

\* Mutant of parse_number: a count of blocks for the height of the last one.
parse_number_Count(num) ==
    CASE num.tag = "Earliest" -> 0
      [] num.tag = "Hash"     -> hash_index[num.hash]
      [] num.tag = "Num"      -> num.n
      [] OTHER                -> Len(blocks)

\* Mutant of parse_number: one subtracted twice from the count of blocks.
parse_number_Previous(num) ==
    CASE num.tag = "Earliest" -> 0
      [] num.tag = "Hash"     -> hash_index[num.hash]
      [] num.tag = "Num"      -> num.n
      [] OTHER                -> best_number - 1

\* Mutant of parse_number: latest and earliest are mixed up.
parse_number_Swapped(num) ==
    CASE num.tag = "Latest"   -> 0
      [] num.tag = "Hash"     -> hash_index[num.hash]
      [] num.tag = "Num"      -> num.n
      [] OTHER                -> best_number

\* Latest, Pending and an absent argument are all the best number; a number is
\* taken as it is, whether such a block exists or not.
parse_number(num) ==
    CASE num.tag = "Earliest" -> 0
      [] num.tag = "Hash"     -> hash_index[num.hash]
      [] num.tag = "Num"      -> num.n
      [] OTHER                -> best_number

-----------------------------------------------------------------------------
(* Leaving a handler                                                       *)

\* The handler returns: the worker answers and is free again.
Return(w, answer) ==
    /\ pc' = [pc EXCEPT ![w] = "idle"]
    /\ reply' = [reply EXCEPT ![w] = answer]
    /\ UNCHANGED <<req, number, received, since>>

\* Dropping the guard of worker w.
Release(w) ==
    /\ readers' = readers \ {w}
    /\ writer' = IF writer = w THEN None ELSE writer
    /\ UNCHANGED poisoned

\* An unwind through the write guard: the connection closes without an answer,
\* the server's executor catches the panic, the lock is poisoned.
Panic(w) ==
    /\ readers' = readers \ {w}
    /\ writer' = IF writer = w THEN None ELSE writer
    /\ poisoned' = (poisoned \/ writer = w)
    /\ Return(w, Dropped(req[w]))
    /\ UNCHANGED dbVars

Answer(w, answer) == Release(w) /\ Return(w, answer)

-----------------------------------------------------------------------------
(* Receiving a request and taking the lock                                 *)

Receive(w, r) ==
    /\ pc[w] = "idle"
    /\ received < MaxRequests
    /\ received' = received + 1
    /\ req' = [req EXCEPT ![w] = r]
    /\ since' = [since EXCEPT ![w] = best_number]
    /\ IF Malformed(r)
       THEN reply' = [reply EXCEPT ![w] = Error(r, "malformed")] /\ UNCHANGED pc
       ELSE /\ pc' = [pc EXCEPT ![w] = IF r.method \in TwoLocks
                                       THEN "lock_number" ELSE "lock_serve"]
            /\ reply' = [reply EXCEPT ![w] = NoReply]
    /\ UNCHANGED <<dbVars, lockVars, number>>

\* Mutant of Lock: the guard is taken out of the error of a poisoned lock.
Lock_IgnoresPoison(w, mode, next) ==
    /\ writer = None
    /\ mode = "write" => readers = {}
    /\ readers' = IF mode = "read" THEN readers \cup {w} ELSE readers
    /\ writer' = IF mode = "write" THEN w ELSE writer
    /\ pc' = [pc EXCEPT ![w] = next]
    /\ UNCHANGED <<dbVars, poisoned, req, number, reply, received, since>>

\* Mutant of Lock: no answer comes out of a poisoned lock.
Lock_NeverFails(w, mode, next) ==
    /\ writer = None
    /\ mode = "write" => readers = {}
    /\ ~poisoned
    /\ readers' = IF mode = "read" THEN readers \cup {w} ELSE readers
    /\ writer' = IF mode = "write" THEN w ELSE writer
    /\ pc' = [pc EXCEPT ![w] = next]
    /\ UNCHANGED <<dbVars, poisoned, req, number, reply, received, since>>

\* get_db! and get_mut_db!: once the lock can be had, a poisoned lock gives an
\* error and a sound one gives the guard.
Lock(w, mode, next) ==
    /\ writer = None
    /\ mode = "write" => readers = {}
    /\ IF poisoned
       THEN UNCHANGED lockVars /\ Return(w, Error(req[w], "lock"))
       ELSE /\ readers' = IF mode = "read" THEN readers \cup {w} ELSE readers
            /\ writer' = IF mode = "write" THEN w ELSE writer
            /\ pc' = [pc EXCEPT ![w] = next]
            /\ UNCHANGED <<poisoned, req, number, reply, received, since>>
    /\ UNCHANGED dbVars

LockNumber(w) == pc[w] = "lock_number" /\ Lock(w, "read", "number")

LockServe(w) ==
    /\ pc[w] = "lock_serve"
    /\ Lock(w, IF req[w].method \in WriteMethods THEN "write" ELSE "read", "serve")

\* Mutant of ParseNumber: the guard is borrowed, not moved, so it lives on.
ParseNumber_KeepsGuard(w) ==
    /\ pc[w] = "number"
    /\ Resolves(req[w].num)
    /\ number' = [number EXCEPT ![w] = parse_number(req[w].num)]
    /\ pc' = [pc EXCEPT ![w] = "lock_serve"]
    /\ UNCHANGED <<dbVars, lockVars, req, reply, received, since>>

\* Mutant of ParseNumber: a hash that is not found yet is looked up again.
ParseNumber_Retries(w) ==
    /\ pc[w] = "number"
    /\ Release(w)
    /\ \/ /\ Resolves(req[w].num)
          /\ number' = [number EXCEPT ![w] = parse_number(req[w].num)]
          /\ pc' = [pc EXCEPT ![w] = "lock_serve"]
       \/ /\ ~Resolves(req[w].num)
          /\ pc' = [pc EXCEPT ![w] = "lock_number"]
          /\ UNCHANGED number
    /\ UNCHANGED <<dbVars, req, reply, received, since>>

\* parse_number owns the guard and drops it when it returns.
ParseNumber(w) ==
    /\ pc[w] = "number"
    /\ \/ /\ Resolves(req[w].num)
          /\ Release(w)
          /\ number' = [number EXCEPT ![w] = parse_number(req[w].num)]
          /\ pc' = [pc EXCEPT ![w] = "lock_serve"]
          /\ UNCHANGED <<req, reply, received, since>>
       \/ /\ ~Resolves(req[w].num)
          /\ Answer(w, Error(req[w], "number"))
    /\ UNCHANGED dbVars

-----------------------------------------------------------------------------
(* Serving a request under the last guard                                  *)

Serving(w, method) == pc[w] = "serve" /\ req[w].method = method

BlockNumber(w) ==
    /\ Serving(w, "blockNumber")
    /\ Answer(w, Ok(req[w], best_number))
    /\ UNCHANGED dbVars

\* Mutant of BlockByNumber: the first block is taken for the best one.
BlockByNumber_First(w) ==
    /\ Serving(w, "getBlockByNumber")
    /\ Answer(w, Ok(req[w], RpcBlock(blocks[1].header)))
    /\ UNCHANGED dbVars

\* The number asked for is not looked at.
BlockByNumber(w) ==
    /\ Serving(w, "getBlockByNumber")
    /\ Answer(w, Ok(req[w], RpcBlock(BestBlock.header)))
    /\ UNCHANGED dbVars

TransactionReceipt(w) ==
    /\ Serving(w, "getTransactionReceipt")
    /\ Answer(w, Ok(req[w], receipt(req[w].hash)))
    /\ UNCHANGED dbVars

\* Mutant of Balance: a number beyond the last snapshot has no money.
Balance_ZeroBeyond(w) ==
    /\ Serving(w, "getBalance")
    /\ Answer(w, Ok(req[w], IF number[w] > best_number THEN 0
                 ELSE basic(accounts[number[w] + 1], req[w].address).balance))
    /\ UNCHANGED dbVars

\* Vec::get: a number beyond the last snapshot is an error.
Balance(w) ==
    /\ Serving(w, "getBalance")
    /\ Answer(w, IF number[w] > best_number
                 THEN Error(req[w], "number")
                 ELSE Ok(req[w], basic(accounts[number[w] + 1], req[w].address).balance))
    /\ UNCHANGED dbVars

\* Mutant of TransactionCount: the last snapshot is read, not the resolved one.
TransactionCount_OfLatest(w) ==
    /\ Serving(w, "getTransactionCount")
    /\ Answer(w, Ok(req[w], basic(Latest, req[w].address).nonce))
    /\ UNCHANGED dbVars

\* Vec::get and unwrap_or: a number beyond the last snapshot counts zero.
TransactionCount(w) ==
    /\ Serving(w, "getTransactionCount")
    /\ Answer(w, Ok(req[w],
            IF number[w] > best_number THEN 0
            ELSE basic(accounts[number[w] + 1], req[w].address).nonce))
    /\ UNCHANGED dbVars

\* Mutant of SendRawTransaction: the outcome of submit_tx is ignored.
SendRawTransaction_AlwaysOk(w) ==
    /\ Serving(w, "sendRawTransaction")
    /\ LET tx == req[w].tx[1]
       IN  \E now \in Times : \E out \in Execute(Latest, tx.sender, tx.value, receiver(tx)) :
              /\ SubmitTx(tx, now, out)
              /\ Answer(w, Ok(req[w], TxHash(tx)))

SendRawTransaction(w) ==
    /\ Serving(w, "sendRawTransaction")
    /\ LET tx == req[w].tx[1]
       IN  \E now \in Times : \E out \in Execute(Latest, tx.sender, tx.value, receiver(tx)) :
              /\ SubmitTx(tx, now, out)
              /\ Answer(w, IF out.ok THEN Ok(req[w], TxHash(tx))
                                     ELSE Error(req[w], "refused"))

\* Reading a snapshot that is not there panics under the write guard.
Call(w) ==
    /\ Serving(w, "call")
    /\ \/ /\ number[w] > best_number
          /\ Panic(w)
       \/ /\ number[w] <= best_number
          /\ \E out \in call(number[w], req[w].to) :
                Answer(w, IF out.ok THEN Ok(req[w], out) ELSE Error(req[w], "failed"))
          /\ UNCHANGED dbVars

\* Mutant of EstimateGasOf: the last snapshot is taken for a missing one.
EstimateGasOf_MissesLast(w) ==
    /\ Serving(w, "estimateGas")
    /\ \/ /\ number[w] >= best_number
          /\ Panic(w)
       \/ /\ number[w] < best_number
          /\ \E out \in Execute(accounts[number[w] + 1], req[w].from,
                                req[w].value, req[w].to) :
                EstimateGas(number[w], req[w].from, req[w].value, req[w].to, out)
          /\ Answer(w, Ok(req[w], "gas"))

\* The gas is answered whether or not execution succeeded.
EstimateGasOf(w) ==
    /\ Serving(w, "estimateGas")
    /\ \/ /\ number[w] > best_number
          /\ Panic(w)
       \/ /\ number[w] <= best_number
          /\ \E out \in Execute(accounts[number[w] + 1], req[w].from,
                                req[w].value, req[w].to) :
                EstimateGas(number[w], req[w].from, req[w].value, req[w].to, out)
          /\ Answer(w, Ok(req[w], "gas"))

-----------------------------------------------------------------------------
(* Specification                                                           *)

RpcInit ==
    /\ DBInit
    /\ readers = {} /\ writer = None /\ poisoned = FALSE
    /\ pc = [w \in Workers |-> "idle"]
    /\ req = [w \in Workers |-> NoRequest]
    /\ number = [w \in Workers |-> 0]
    /\ reply = [w \in Workers |-> NoReply]
    /\ received = 0
    /\ since = [w \in Workers |-> 0]

Serve(w) ==
    \/ BlockNumber(w)
    \/ BlockByNumber(w)
    \/ TransactionReceipt(w)
    \/ Balance(w)
    \/ TransactionCount(w)
    \/ SendRawTransaction(w)
    \/ Call(w)
    \/ EstimateGasOf(w)

\* What a worker does by itself once it has a request.
Step(w) == LockNumber(w) \/ LockServe(w) \/ ParseNumber(w) \/ Serve(w)

RpcNext == \E w \in Workers : Step(w) \/ \E r \in Requests : Receive(w, r)

RpcSpec == RpcInit /\ [][RpcNext]_allVars

\* The scheduler runs every thread that can run, and every execution of the
\* EVM ends.  Nothing forces clients to send requests.
RpcFairSpec == RpcSpec /\ \A w \in Workers : WF_allVars(Step(w))

-----------------------------------------------------------------------------
(* Properties                                                              *)

TwoLocked(w) == pc[w] # "idle" /\ req[w].method \in TwoLocks

RpcTypeOK ==
    /\ readers \subseteq Workers
    /\ writer \in Workers \cup {None}
    /\ poisoned \in BOOLEAN
    /\ pc \in [Workers -> {"idle", "lock_number", "number", "lock_serve", "serve"}]
    /\ number \in [Workers -> Nat]
    /\ received \in 0 .. MaxRequests
    /\ since \in [Workers -> Nat]

\* Guards are held exactly where the handlers' scopes say: a read guard while
\* a number is resolved or a read is served, the write guard while a write is
\* served.  So handlers never hold a guard across their second lock, and none
\* leaks through an error, a panic or an early return.
GuardsMatchScopes ==
    /\ readers = {w \in Workers :
                    \/ pc[w] = "number"
                    \/ pc[w] = "serve" /\ req[w].method \notin WriteMethods}
    /\ {w \in Workers : writer = w} =
          {w \in Workers : pc[w] = "serve" /\ req[w].method \in WriteMethods}

\* A number resolved from a tag or a hash names a stored snapshot until the
\* request is served, although the guard it was read under is gone: commits
\* only add heights.  The unwraps of call and estimate_gas can then fail only
\* for a number the client gave itself.
ResolvedNumberStaysValid ==
    \A w \in Workers :
        ( /\ TwoLocked(w)
          /\ pc[w] \in {"lock_serve", "serve"}
          /\ req[w].num.tag # "Num" ) => number[w] <= best_number

\* Real-time order: what is answered for the latest block is taken from a
\* height at least that of the chain when the request arrived.
LatestIsRecent ==
    \A w \in Workers :
        ( /\ TwoLocked(w)
          /\ pc[w] \in {"lock_serve", "serve"}
          /\ req[w].num.tag = "Latest" ) => number[w] >= since[w]

\* A transaction count of a block that exists stays the count of the snapshot it
\* was resolved to, as long as no estimate rewrites that snapshot: a commit
\* between the two locks, or after the answer, cannot falsify it.
CountStaysTrue ==
    \A w \in Workers :
        ( /\ reply[w].status = "ok"
          /\ reply[w].req.method = "getTransactionCount"
          /\ reply[w].req.num.tag = "Num" => number[w] <= since[w]
          /\ number[w] \in (0 .. best_number) \ estimated ) =>
        reply[w].value = basic(accounts[number[w] + 1], reply[w].req.address).nonce

\* A client that was told its transaction is in finds the record of that very
\* transaction from then on: no later commit, refusal or panic takes it away.
AcceptedIsCommitted ==
    \A w \in Workers :
        ( reply[w].status = "ok" /\ reply[w].req.method = "sendRawTransaction" ) =>
        /\ reply[w].value \in DOMAIN infos
        /\ infos[reply[w].value].transaction = reply[w].req.tx[1]

\* A block that a client was shown stays what it was shown as: its hash leads to
\* its number and to that very block of the chain.  If it was shown as the latest,
\* it was no older than the chain that its request met.
ShownBlockStays ==
    \A w \in Workers :
        ( reply[w].status = "ok" /\ reply[w].req.method = "getBlockByNumber" ) =>
        LET block == reply[w].value
        IN  /\ block.number \in 0 .. best_number
            /\ reply[w].req.num.tag = "Latest" => since[w] <= block.number
            /\ block.hash \in DOMAIN hash_index
            /\ hash_index[block.hash] = block.number
            /\ RpcBlock(blocks[block.number + 1].header) = block

\* A receipt that a client was shown stays one of a commit of its transaction: the
\* block it names is in the chain, found by its hash, and holds that transaction
\* at that place, also after the transaction was accepted again and its record
\* moved to a later block.
ShownReceiptStays ==
    \A w \in Workers :
        ( /\ reply[w].status = "ok"
          /\ reply[w].req.method = "getTransactionReceipt"
          /\ reply[w].value # None ) =>
        LET shown == reply[w].value
            block == blocks[shown.block_number + 1]
        IN  /\ shown.block_number \in 1 .. best_number
            /\ shown.block_hash \in DOMAIN hash_index
            /\ hash_index[shown.block_hash] = shown.block_number
            /\ TxHash(block.transactions[shown.transaction_index + 1]) = reply[w].req.hash
            /\ block.header.state_root = shown.state_root

\* Only a number that the client made up, and that no block had when the request
\* arrived, can unwind a handler: the unwraps of call and estimate_gas never fail
\* for a tag, a hash or a number that a block of the chain had.
PanicsAreMadeUp ==
    \A w \in Workers :
        reply[w].status = "dropped" =>
            reply[w].req.num.tag = "Num" /\ since[w] < number[w]

\* A panic under the write guard is remembered: from the moment a handler was
\* unwound no handler changes the store again, also when its worker has long gone
\* on to other requests.
NoChangeOncePoisoned ==
    [][ poisoned \/ (\E w \in Workers : reply[w].status = "dropped")
            => UNCHANGED dbVars ]_allVars

\* Every request that is received ends, with an answer, an error or a closed
\* connection: no handler waits for a lock that its own or another handler will
\* never give back.
EveryRequestEnds == \A w \in Workers : (pc[w] # "idle") ~> (pc[w] = "idle")

\* The guard that worker w asks for cannot be had.
Waits(w) ==
    \/ pc[w] = "lock_number" /\ writer # None
    \/ /\ pc[w] = "lock_serve"
       /\ writer # None \/ (req[w].method \in WriteMethods /\ readers # {})

\* No circle of waiting handlers: one that waits for a guard waits for another
\* worker that has one, and that waits for nobody.
WaitersHaveHolders ==
    \A w \in Workers :
        Waits(w) => \E v \in Workers \ {w} :
                        (v \in readers \/ writer = v) /\ pc[v] # "idle" /\ ~Waits(v)

\* What the next step of worker w asks for: the guard that its handler locks, and
\* an outcome of what it executes, unless there is nothing to execute on.
CanStep(w) ==
    \/ pc[w] = "lock_number" /\ writer = None
    \/ pc[w] = "number"
    \/ /\ pc[w] = "lock_serve"
       /\ writer = None
       /\ req[w].method \in WriteMethods => readers = {}
    \/ /\ pc[w] = "serve"
       /\ req[w].method \in Methods \ WriteMethods
    \/ /\ Serving(w, "sendRawTransaction")
       /\ Times # {}
       /\ LET tx == req[w].tx[1]
          IN  Execute(Latest, tx.sender, tx.value, receiver(tx)) # {}
    \/ /\ Serving(w, "call")
       /\ number[w] > best_number \/ call(number[w], req[w].to) # {}
    \/ /\ Serving(w, "estimateGas")
       /\ \/ number[w] > best_number
          \/ Execute(accounts[number[w] + 1], req[w].from, req[w].value, req[w].to) # {}

\* Only a guard can keep a handler waiting: whatever the request and the store,
\* an outcome, an error or a panic follows, also when the lock is poisoned.
OnlyGuardsBlock ==
    \A w \in Workers :
        /\ ENABLED Step(w) <=> CanStep(w)
        /\ CanStep(w) <=> (pc[w] # "idle" /\ ~Waits(w))

\* The number of steps that a handler has still to take, at most.
StepsLeft(at) ==
    CASE at = "lock_number" -> 4
      [] at = "number"      -> 3
      [] at = "lock_serve"  -> 2
      [] at = "serve"       -> 1
      [] OTHER              -> 0

\* No handler goes back, tries again or is moved by another one: each step of a
\* worker leaves it fewer steps, and all others where they are.
HandlersAdvance ==
    [][\A w \in Workers :
          Step(w) => /\ StepsLeft(pc'[w]) < StepsLeft(pc[w])
                     /\ \A v \in Workers \ {w} : pc'[v] = pc[v]]_allVars

\* The atomic store of EthService, seen through the handlers: a client waits for
\* the request of the worker that is not idle, and a poisoned lock is a broken
\* service.
Service ==
    INSTANCE EthService WITH
        Clients <- Workers,
        pending <- [w \in Workers |-> IF pc[w] = "idle" THEN NoRequest ELSE req[w]],
        broken  <- poisoned

\* Clients cannot tell the handlers, with two guards each and other handlers in
\* between, from a store that serves every request in one step.
IsAtomicService == Service!ServiceSpec

\* eth_blockNumber returns the highest block number (rpc.rs): it never fails.
BlockNumberNeverFails ==
    \A w \in Workers :
        (pc[w] = "idle" /\ reply[w].req.method = "blockNumber") => reply[w].status = "ok"

\* eth_getBlockByNumber returns the block with the given number (rpc.rs): a client
\* that asks for a height is shown the block of that height.
BlockHasGivenNumber ==
    \A w \in Workers :
        ( /\ reply[w].status = "ok"
          /\ reply[w].req.method = "getBlockByNumber"
          /\ reply[w].req.num.tag = "Num" ) => reply[w].value.number = reply[w].req.num.n

\* A call on the latest block (rpc.rs, BlockNumber::Latest) runs on the
\* accounts and with the header of one and the same block.
LatestCallIsOnOneBlock ==
    \A w \in Workers :
        ( /\ reply[w].status = "ok"
          /\ reply[w].req.method = "call"
          /\ reply[w].req.num.tag = "Latest" ) => reply[w].value.state = reply[w].value.context
=============================================================================
