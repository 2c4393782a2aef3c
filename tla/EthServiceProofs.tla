--------------------------- MODULE EthServiceProofs ---------------------------
(***************************************************************************)
(* The handlers implement the atomic store of EthService, for any number   *)
(* of server threads and any requests.                                     *)
(***************************************************************************)
EXTENDS EthRpcProofs

\* EthService and EthRpc extend the same modules over the same store, so their
\* operators agree: on lookups, requests and answers ...
LEMMA SameBasic ==
    /\ Service!dbVars = dbVars
    /\ Service!best_number = best_number
    /\ Service!Latest = Latest
    /\ Service!NoRequest = NoRequest
    /\ Service!NoReply = NoReply
    /\ Service!BestBlock = BestBlock
    /\ Service!NumberMethods = NumberMethods
    /\ \A accts, a : Service!basic(accts, a) = basic(accts, a)
    /\ \A r : Service!Malformed(r) <=> Malformed(r)
    /\ \A num : Service!Resolves(num) <=> Resolves(num)
    /\ \A r, x : Service!Ok(r, x) = Ok(r, x)
    /\ \A r, x : Service!Error(r, x) = Error(r, x)
    /\ \A r : Service!Dropped(r) = Dropped(r)
BY DEF Service!dbVars, dbVars, Service!best_number, best_number, Service!Latest, Latest,
       Service!NoRequest, NoRequest, Service!NoReply, NoReply, Service!basic, basic,
       Service!BestBlock, BestBlock, Service!NumberMethods, NumberMethods,
       Service!Malformed, Malformed, Service!Resolves, Resolves,
       Service!Ok, Ok, Service!Error, Error, Service!Dropped, Dropped, Service!None, None

\* ... on what the EVM may do,
LEMMA SameRuns ==
    \A accts, frame, at : Service!Runs(accts, frame, at) = Runs(accts, frame, at)
BY DEF Service!Runs, Runs, Service!Ran, Ran, Service!Left, Left, Service!Reached, Reached,
       Service!Possible, Possible, Service!ChildAddress, ChildAddress,
       Service!NewContract, NewContract, Service!Vacant, Vacant, Service!Touched, Touched,
       Service!Failure, Failure, Service!basic, basic, Service!code, code,
       Service!EmptyMap, EmptyMap, Service!KeepCode, KeepCode,
       Service!EmptyCode, EmptyCode, Service!None, None,
       Service!CreateAddress, CreateAddress

LEMMA SameExecute ==
    \A accts, sender, value, to :
        Service!Execute(accts, sender, value, to) = Execute(accts, sender, value, to)
<1>1. \A accts, a : Service!Vacant(accts, a) = Vacant(accts, a)
  BY DEF Service!Vacant, Vacant, Service!basic, basic, Service!code, code,
         Service!EmptyCode, EmptyCode
<1>2. \A accts, sender, value, to : Service!Frame(accts, sender, value, to) = Frame(accts, sender, value, to)
  BY DEF Service!Frame, Frame, Service!basic, basic, Service!EmptyMap, EmptyMap,
         Service!KeepCode, KeepCode
<1>3. \A frame, at, c : Service!Deployed(frame, at, c) = Deployed(frame, at, c)
  BY DEF Service!Deployed, Deployed, Service!NewContract, NewContract,
         Service!EmptyMap, EmptyMap
<1>4. \A accts, sender, value, to :
          Service!TransactCall(accts, sender, value, to) = TransactCall(accts, sender, value, to)
  <2> TAKE accts, sender, value, to
  <2>1. /\ Service!Success(Frame(accts, sender, value, to), <<>>) =
              Success(Frame(accts, sender, value, to), <<>>)
        /\ Service!Failure = Failure
    BY DEF Service!Success, Success, Service!Failure, Failure, Service!EmptyMap, EmptyMap
  <2>2. /\ Service!basic(accts, sender) = basic(accts, sender)
        /\ Service!code(accts, to) = code(accts, to)
        /\ Service!EmptyCode = EmptyCode
    BY DEF Service!basic, basic, Service!code, code, Service!EmptyCode, EmptyCode
  <2> QED
    BY <1>2, <2>1, <2>2, SameRuns DEF Service!TransactCall, TransactCall
<1>5. \A accts, sender, value :
          Service!TransactCreate(accts, sender, value) = TransactCreate(accts, sender, value)
  <2> TAKE accts, sender, value
  <2> DEFINE at    == CreateAddress(sender, basic(accts, sender).nonce)
             frame == Frame(accts, sender, value, at)
  <2>1. \A c : Service!Runs(accts, Service!Deployed(frame, at, c), at) = Runs(accts, Deployed(frame, at, c), at)
    BY <1>3, SameRuns
  <2>2. UNION {Service!Runs(accts, Service!Deployed(frame, at, c), at) : c \in Codes} =
           UNION {Runs(accts, Deployed(frame, at, c), at) : c \in Codes}
    BY <2>1
  <2> QED
    BY <1>1, <1>2, <2>2
    DEF Service!TransactCreate, TransactCreate, Service!Failure, Failure, Service!EmptyMap,
        EmptyMap, Service!basic, basic, Service!CreateAddress, CreateAddress
<1> QED
  BY <1>4, <1>5 DEF Service!Execute, Execute, Service!None, None

\* ... on how its changes are applied,
LEMMA SameApplied ==
    \A accts, out : Service!Applied(accts, out) = Applied(accts, out)
BY DEF Service!Applied, Applied, Service!Apply, Apply, Service!Modified, Modified,
       Service!ModifiedStorage, ModifiedStorage, Service!Zeros, Zeros,
       Service!IsEmptyAccount, IsEmptyAccount, Service!DefaultAccount, DefaultAccount,
       Service!KeepCode, KeepCode, Service!EmptyCode, EmptyCode, Service!EmptyMap, EmptyMap

\* ... on hashes and headers,
LEMMA SameHashes ==
    /\ \A h : Service!HeaderHash(h) = HeaderHash(h)
    /\ \A h : Service!ComputeHash(h) = ComputeHash(h)
    /\ \A tx : Service!TxHash(tx) = TxHash(tx)
    /\ \A tx : Service!receiver(tx) = receiver(tx)
    /\ \A tx : Service!contract_address(tx) = contract_address(tx)
    /\ \A txs : Service!transaction_root(txs) = transaction_root(txs)
    /\ \A n : Service!FromLowU64(n) = FromLowU64(n)
    /\ Service!DefaultHeader = DefaultHeader
    /\ \A map, key, value : Service!Put(map, key, value) = Put(map, key, value)
BY DEF Service!HeaderHash, HeaderHash, Service!ComputeHash, ComputeHash, Service!Keccak, Keccak,
       Service!Rlp, Rlp, Service!TxHash, TxHash, Service!receiver, receiver,
       Service!contract_address, contract_address, Service!transaction_root, transaction_root,
       Service!FromLowU64, FromLowU64, Service!DefaultHeader, DefaultHeader,
       Service!KeccakNullRlp, KeccakNullRlp, Service!ZeroHash, ZeroHash,
       Service!Create, Create, Service!CreateAddress, CreateAddress,
       Service!Put, Put, Service!None, None

\* ... on what is read,
LEMMA SameQueries ==
    /\ \A hash : Service!receipt(hash) = receipt(hash)
    /\ \A header : Service!RpcBlock(header) = RpcBlock(header)
    /\ \A n, to : Service!call(n, to) = call(n, to)
BY SameHashes
   DEF Service!receipt, receipt, Service!RpcBlock, RpcBlock, Service!call, call,
       Service!StaticCall, StaticCall, Service!code, code, Service!EmptyCode, EmptyCode,
       Service!BestBlock, BestBlock, Service!None, None

\* ... on what a commit writes,
LEMMA SameCommit ==
    \A tx, now, out : Service!CommitTx(tx, now, out) <=> CommitTx(tx, now, out)
<1>1. \A txs, now : Service!NewBlock(txs, now) = NewBlock(txs, now)
  BY Zenon
  DEF Service!NewBlock, NewBlock, Service!BestBlock, BestBlock, Service!HeaderHash, HeaderHash,
      Service!ComputeHash, ComputeHash, Service!Keccak, Keccak, Service!Rlp, Rlp,
      Service!transaction_root, transaction_root, Service!TxHash, TxHash,
      Service!FromLowU64, FromLowU64, Service!DefaultHeader, DefaultHeader,
      Service!KeccakNullRlp, KeccakNullRlp, Service!ZeroHash, ZeroHash, Service!None, None
<1>2. \A tx, block, last, logs :
         Service!TransactionInfo(tx, block, last, logs) = TransactionInfo(tx, block, last, logs)
  BY SameHashes DEF Service!TransactionInfo, TransactionInfo
<1>3. \A block : Service!SaveBlock(block) <=> SaveBlock(block)
  BY SameHashes DEF Service!SaveBlock, SaveBlock
<1> QED
  BY <1>1, <1>2, <1>3, SameBasic, SameHashes, SameApplied DEF Service!CommitTx, CommitTx

\* ... and on the two operations that change the store.
LEMMA SameChanges ==
    /\ \A tx, now, out : Service!SubmitTx(tx, now, out) <=> SubmitTx(tx, now, out)
    /\ \A n, caller, value, to, out :
          Service!EstimateGas(n, caller, value, to, out) <=> EstimateGas(n, caller, value, to, out)
<1>1. ASSUME NEW tx, NEW now, NEW out
      PROVE  Service!SubmitTx(tx, now, out) <=> SubmitTx(tx, now, out)
  BY SameBasic, SameExecute, SameHashes, SameCommit
  DEF Service!SubmitTx, SubmitTx, Service!dbVars, dbVars
<1>2. ASSUME NEW n, NEW caller, NEW value, NEW to, NEW out
      PROVE  Service!EstimateGas(n, caller, value, to, out) <=> EstimateGas(n, caller, value, to, out)
  BY SameBasic, SameExecute, SameApplied DEF Service!EstimateGas, EstimateGas
<1> QED
  BY <1>1, <1>2

-----------------------------------------------------------------------------
(* The refinement mapping                                                  *)

waits == [w \in Workers |-> IF pc[w] = "idle" THEN NoRequest ELSE req[w]]

\* A worker that goes idle no longer waits, and the others are not concerned.
LEMMA GoesIdle ==
    ASSUME HandlerInv, NEW w \in Workers, pc' = [pc EXCEPT ![w] = "idle"], req' = req
    PROVE  waits' = [waits EXCEPT ![w] = NoRequest]
<1>1. \A v \in Workers : pc'[v] = IF v = w THEN "idle" ELSE pc[v]
  BY DEF HandlerInv, RpcTypeOK
<1> QED
  BY <1>1 DEF waits

\* While a worker goes from one guard to the next it waits for the same request.
LEMMA StaysBusy ==
    ASSUME HandlerInv, NEW w \in Workers, NEW to, pc[w] # "idle", to # "idle",
           pc' = [pc EXCEPT ![w] = to], req' = req
    PROVE  waits' = waits
<1>1. \A v \in Workers : (pc'[v] = "idle") <=> (pc[v] = "idle")
  BY DEF HandlerInv, RpcTypeOK
<1> QED
  BY <1>1 DEF waits

\* What a number n that was resolved from num stands for, in a given state of
\* the store, when the request was received at height from.
Stands(index, best, num, from, n) ==
    /\ num.tag = "Earliest" => n = 0
    /\ num.tag = "Hash" => num.hash \in DOMAIN index /\ n = index[num.hash]
    /\ num.tag = "Num" => n = num.n
    /\ num.tag \notin {"Earliest", "Hash", "Num"} => n \in from .. best

ServeInv ==
    /\ PoisonInv
    /\ NumberInv
    /\ poisoned => readers = {} /\ writer = None
    /\ \A w \in Workers :
          (TwoLocked(w) /\ pc[w] \in {"lock_serve", "serve"}) =>
              Stands(hash_index, best_number, req[w].num, since[w], number[w])

\* A height that a number stands for is one the service may answer from.
LEMMA StandsForHeight ==
    ASSUME NEW num, NEW from, NEW n, Stands(hash_index, best_number, num, from, n)
    PROVE  Resolves(num) /\ n \in Service!Heights(num, from)
<1>1. Resolves(num)
  BY DEF Stands, Resolves
<1>2. CASE num.tag = "Earliest"
  BY <1>1, <1>2, SameBasic DEF Stands, Service!Heights
<1>3. CASE num.tag = "Hash"
  BY <1>1, <1>3, SameBasic DEF Stands, Service!Heights
<1>4. CASE num.tag = "Num"
  BY <1>1, <1>4, SameBasic DEF Stands, Service!Heights
<1>5. CASE num.tag \notin {"Earliest", "Hash", "Num"}
  <2>1. num.tag # "Earliest" /\ num.tag # "Hash" /\ num.tag # "Num"
    BY <1>5
  <2> QED
    BY <1>1, <1>5, <2>1, SameBasic DEF Stands, Service!Heights
<1> QED
  BY <1>2, <1>3, <1>4, <1>5

\* A height that a number stands for stays one while the chain grows.
LEMMA StillStands ==
    ASSUME StoreInv, StoreStep \/ UNCHANGED dbVars,
           NEW num, NEW from \in Nat, NEW n, Stands(hash_index, best_number, num, from, n)
    PROVE  Stands(hash_index', best_number', num, from, n)
<1>1. /\ best_number \in Nat /\ best_number' \in Nat
      /\ best_number <= best_number'
      /\ \A h \in DOMAIN hash_index :
            h \in DOMAIN hash_index' /\ hash_index'[h] = hash_index[h]
  BY StoreOnlyGrows
<1>2. n \in from .. best_number => n \in from .. best_number'
  BY <1>1
<1> QED
  BY <1>1, <1>2 DEF Stands

\* What parse_number finds is such a height.
LEMMA FoundStands ==
    ASSUME StoreInv, NEW num, NEW from \in Nat, from <= best_number, Resolves(num)
    PROVE  Stands(hash_index, best_number, num, from, parse_number(num))
<1>1. best_number \in Nat
  BY HeightIsNat
<1>2. CASE num.tag = "Earliest"
  BY <1>2 DEF parse_number, Stands
<1>3. CASE num.tag = "Hash"
  BY <1>3 DEF parse_number, Stands, Resolves
<1>4. CASE num.tag = "Num"
  BY <1>4 DEF parse_number, Stands
<1>5. CASE num.tag \notin {"Earliest", "Hash", "Num"}
  <2>1. parse_number(num) = best_number
    BY <1>5 DEF parse_number
  <2> QED
    BY <1>1, <1>5, <2>1 DEF Stands
<1> QED
  BY <1>2, <1>3, <1>4, <1>5

\* A panic leaves no guard behind, so nobody is served once the lock is poisoned.
LEMMA StepKeepsFree ==
    ASSUME ServeInv, [RpcNext]_allVars
    PROVE  poisoned' => readers' = {} /\ writer' = None
<1>1. /\ \A w \in Workers : writer = w <=> pc[w] = "serve" /\ req[w].method \in WriteMethods
      /\ writer # None => readers = {}
      /\ None \notin Workers
      /\ poisoned => readers = {} /\ writer = None
  BY RpcAssumption DEF RpcAssumption, ServeInv, NumberInv, RpcInv, LockInv
<1>2. ASSUME NEW w \in Workers, Serve(w), poisoned'
      PROVE  readers' = {} /\ writer' = None
  <2>1. PICK answer : Ends(w, answer)
    BY <1>2, ServeEnds
  <2>2. CASE answer.status # "dropped" /\ poisoned' = poisoned
    BY <1>1, <1>2, <2>1, <2>2 DEF Ends
  <2>3. CASE req[w].method \in WriteMethods /\ poisoned' = (poisoned \/ writer = w)
    <3>1. writer = w
      BY <1>1, <2>1, <2>3 DEF Ends
    <3>2. readers = {}
      BY <1>1, <3>1
    <3> QED
      BY <2>1, <3>1, <3>2 DEF Ends
  <2> QED
    BY <2>1, <2>2, <2>3 DEF Ends
<1>3. ASSUME NEW w \in Workers,
             \/ \E r \in Requests : Receives(w, r)
             \/ IsPoisoned(w)
      PROVE  UNCHANGED lockVars
  BY <1>3 DEF Receives, IsPoisoned
<1>4. ASSUME NEW w \in Workers,
             \/ Reads(w, "lock_number", "number")
             \/ Reads(w, "lock_serve", "serve")
             \/ Writes(w)
      PROVE  ~poisoned'
  BY <1>4 DEF Reads, Writes
<1>5. ASSUME NEW w \in Workers, FindsNumber(w) \/ FindsNone(w), poisoned'
      PROVE  readers' = {} /\ writer' = None
  BY <1>1, <1>5 DEF FindsNumber, FindsNone
<1>6. UNCHANGED lockVars => (poisoned' => readers' = {} /\ writer' = None)
  BY <1>1 DEF lockVars
<1>7. UNCHANGED allVars => UNCHANGED lockVars
  BY DEF allVars
<1> QED
  BY <1>2, <1>3, <1>4, <1>5, <1>6, <1>7, HandlerSteps

\* A resolved number stands for its height until the request is served.
LEMMA StepKeepsServe ==
    ASSUME ServeInv, [RpcNext]_allVars
    PROVE  ServeInv'
<1>1. PoisonInv' /\ NumberInv'
  BY StepKeepsPoison, StepKeepsNumbers DEF ServeInv
<1>2. StoreStep \/ UNCHANGED dbVars
  BY StepStore DEF ServeInv, NumberInv, RpcInv, allVars
<1>3. /\ pc \in [Workers -> {"idle", "lock_number", "number", "lock_serve", "serve"}]
      /\ req \in [Workers -> Requests \cup {NoRequest}]
      /\ number \in [Workers -> Nat]
      /\ since \in [Workers -> Nat]
      /\ \A w \in Workers : pc[w] = "number" => req[w] \in Requests /\ req[w].method \in TwoLocks
      /\ StoreInv
  BY DEF ServeInv, NumberInv, RpcInv, HandlerInv, RpcTypeOK
<1> DEFINE Holds(v) ==
           (TwoLocked(v)' /\ pc'[v] \in {"lock_serve", "serve"}) =>
               Stands(hash_index', best_number', req'[v].num, since'[v], number'[v])
<1>4. ASSUME NEW v \in Workers, UNCHANGED <<req[v], number[v], since[v]>>,
             pc'[v] \in {"lock_serve", "serve"} => pc[v] \in {"lock_serve", "serve"}
      PROVE  Holds(v)
  <2>1. ASSUME TwoLocked(v)', pc'[v] \in {"lock_serve", "serve"}
        PROVE  Stands(hash_index, best_number, req[v].num, since[v], number[v])
    BY <1>4, <2>1 DEF TwoLocked, ServeInv
  <2>2. since[v] \in Nat
    BY <1>3
  <2> QED
    BY <1>2, <1>3, <1>4, <2>1, <2>2, StillStands
<1>5. ASSUME NEW w \in Workers, NEW r \in Requests, Receives(w, r)
      PROVE  \A v \in Workers : Holds(v)
  <2>1. ~(TwoLocked(w)' /\ pc'[w] \in {"lock_serve", "serve"})
    BY <1>3, <1>5 DEF Receives, TwoLocked
  <2>2. \A v \in Workers : v # w => pc'[v] = pc[v] /\ UNCHANGED <<req[v], number[v], since[v]>>
    BY <1>3, <1>5 DEF Receives
  <2> HIDE DEF Holds
  <2>3. Holds(w)
    BY <2>1 DEF Holds
  <2> QED
    BY <1>4, <2>2, <2>3
<1>6. ASSUME NEW w \in Workers, FindsNumber(w), UNCHANGED dbVars
      PROVE  \A v \in Workers : Holds(v)
  <2>1. /\ req[w] \in Requests
        /\ Resolves(req[w].num)
        /\ since[w] \in Nat /\ since[w] <= best_number
    BY <1>3, <1>6 DEF FindsNumber, ServeInv, NumberInv
  <2>2. Stands(hash_index, best_number, req[w].num, since[w], parse_number(req[w].num))
    BY <1>3, <2>1, FoundStands
  <2> DEFINE n == parse_number(req[w].num)
  <2>3. Stands(hash_index, best_number, req[w].num, since[w], n)
    BY <2>2
  <2>4. number'[w] = n /\ UNCHANGED <<req, since>> /\ UNCHANGED hash_index
    BY <1>3, <1>6 DEF FindsNumber, dbVars
  <2>5. best_number' = best_number
    BY <1>6 DEF best_number, dbVars
  <2> HIDE DEF n
  <2>6. Holds(w)
    BY <2>3, <2>4, <2>5
  <2>7. \A v \in Workers : v # w => pc'[v] = pc[v] /\ UNCHANGED <<req[v], number[v], since[v]>>
    BY <1>3, <1>6 DEF FindsNumber
  <2> HIDE DEF Holds
  <2> QED
    BY <1>4, <2>6, <2>7
<1>7. ASSUME NEW w \in Workers,
             UNCHANGED <<req, number, since>>,
             \E to : /\ pc' = [pc EXCEPT ![w] = to]
                     /\ to \in {"lock_serve", "serve"} => pc[w] \in {"lock_serve", "serve"}
      PROVE  \A v \in Workers : Holds(v)
  <2>1. \A v \in Workers :
           pc'[v] \in {"lock_serve", "serve"} => pc[v] \in {"lock_serve", "serve"}
    BY <1>3, <1>7
  <2> HIDE DEF Holds
  <2> QED
    BY <1>4, <1>7, <2>1
<1> HIDE DEF Holds
<1>8. ASSUME NEW w \in Workers, Serve(w)
      PROVE  \A v \in Workers : Holds(v)
  BY <1>7, <1>8, ServeEnds DEF Ends
<1>9. ASSUME NEW w \in Workers,
             \/ Reads(w, "lock_number", "number")
             \/ Reads(w, "lock_serve", "serve")
             \/ Writes(w)
             \/ IsPoisoned(w)
             \/ FindsNone(w)
      PROVE  \A v \in Workers : Holds(v)
  BY <1>7, <1>9 DEF Reads, Writes, IsPoisoned, FindsNone
<1>10. ASSUME UNCHANGED allVars
       PROVE  \A v \in Workers : Holds(v)
  BY <1>4, <1>10 DEF allVars, rpcVars
<1>11. \A v \in Workers : Holds(v)
  BY <1>5, <1>6, <1>8, <1>9, <1>10, HandlerSteps
<1> QED
  BY <1>1, <1>11, StepKeepsFree DEF ServeInv, Holds

-----------------------------------------------------------------------------
(* Every step of a handler is a step of the service, or none               *)

\* A busy handler is a client that waits for its request.
LEMMA Waiting ==
    ASSUME HandlerInv, NEW w \in Workers, pc[w] # "idle"
    PROVE  waits[w] = req[w] /\ waits[w] # NoRequest
<1>1. req[w] \in Requests
  BY DEF HandlerInv
<1>2. NoRequest \notin Requests
  BY RpcAssumption DEF RpcAssumption
<1> QED
  BY <1>1, <1>2 DEF waits

\* Receiving a request is asking the service.
LEMMA ReceiveAsks ==
    ASSUME HandlerInv, NEW w \in Workers, NEW r \in Requests, Receives(w, r), UNCHANGED dbVars
    PROVE  Service!Ask(w, r)
<1>1. /\ pc \in [Workers -> {"idle", "lock_number", "number", "lock_serve", "serve"}]
      /\ req \in [Workers -> Requests \cup {NoRequest}]
  BY DEF HandlerInv, RpcTypeOK
<1>2. waits[w] = NoRequest
  BY DEF Receives, waits
<1>3. Malformed(r) => waits' = waits
  BY <1>1 DEF Receives, waits
<1>4. ~Malformed(r) => waits' = [waits EXCEPT ![w] = r]
  <2>1. ASSUME ~Malformed(r)
        PROVE  /\ pc'[w] # "idle" /\ req'[w] = r
               /\ \A v \in Workers : v # w => pc'[v] = pc[v] /\ req'[v] = req[v]
    BY <1>1, <2>1 DEF Receives
  <2> QED
    BY <2>1 DEF waits
<1>5. UNCHANGED Service!dbVars
  BY DEF Service!dbVars, dbVars
<1>6. /\ since' = [since EXCEPT ![w] = best_number]
      /\ poisoned' = poisoned
      /\ Malformed(r) => reply' = [reply EXCEPT ![w] = Error(r, "malformed")]
      /\ ~Malformed(r) => reply' = [reply EXCEPT ![w] = NoReply]
  BY DEF Receives, lockVars
<1> QED
  BY <1>2, <1>3, <1>4, <1>5, <1>6, SameBasic DEF Service!Ask, waits

\* The error of a poisoned lock is the refusal of a broken service.
LEMMA PoisonRefuses ==
    ASSUME HandlerInv, NEW w \in Workers, IsPoisoned(w), UNCHANGED dbVars
    PROVE  Service!TakeEffect(w)
<1> DEFINE answer == Error(req[w], "lock")
<1>1. waits[w] = req[w] /\ waits[w] # NoRequest
  BY Waiting DEF IsPoisoned
<1>2. /\ pc' = [pc EXCEPT ![w] = "idle"]
      /\ reply' = [reply EXCEPT ![w] = answer]
      /\ UNCHANGED <<req, since, poisoned>>
      /\ poisoned
  BY DEF IsPoisoned, lockVars
<1>3. Service!Error(waits[w], "lock") = answer
  BY <1>1, SameBasic
<1> HIDE DEF answer
<1>4. waits' = [waits EXCEPT ![w] = NoRequest]
  BY <1>2, GoesIdle
<1>5. UNCHANGED Service!dbVars
  BY DEF Service!dbVars, dbVars
<1>6. Service!Refuse(w)
  BY <1>2, <1>3, <1>4, <1>5, SameBasic DEF Service!Refuse, Service!Answered, waits
<1> QED
  BY <1>1, <1>6, SameBasic DEF Service!TakeEffect, waits

\* A hash that parse_number does not find is the error of an unresolved query.
LEMMA NoneIsError ==
    ASSUME ServeInv, NEW w \in Workers, FindsNone(w), UNCHANGED dbVars
    PROVE  Service!TakeEffect(w)
<1> DEFINE answer == Error(req[w], "number")
<1>1. HandlerInv
  BY DEF ServeInv, NumberInv, RpcInv
<1>2. waits[w] = req[w] /\ waits[w] # NoRequest
  BY <1>1, Waiting DEF FindsNone
<1>3. /\ pc' = [pc EXCEPT ![w] = "idle"]
      /\ reply' = [reply EXCEPT ![w] = answer]
      /\ UNCHANGED <<req, since, poisoned>>
  BY DEF FindsNone
<1>4. Service!Error(waits[w], "number") = answer
  BY <1>2, SameBasic
<1>5. req[w].method \in NumberMethods /\ ~Resolves(req[w].num)
  BY <1>1 DEF HandlerInv, FindsNone, TwoLocks
<1>6. ~poisoned
  BY DEF ServeInv, NumberInv, RpcInv, LockInv, FindsNone
<1> HIDE DEF answer
<1>7. waits' = [waits EXCEPT ![w] = NoRequest]
  BY <1>1, <1>3, GoesIdle
<1>8. UNCHANGED Service!dbVars
  BY DEF Service!dbVars, dbVars
<1>9. Service!Query(w)
  BY <1>2, <1>3, <1>4, <1>5, <1>7, <1>8, SameBasic DEF Service!Query, Service!Answered, waits
<1> QED
  BY <1>2, <1>6, <1>9, SameBasic DEF Service!TakeEffect, waits

\* The last step of a handler ends its wait, under a sound lock.
LEMMA Served ==
    ASSUME ServeInv, NEW w \in Workers, pc[w] = "serve",
           pc' = [pc EXCEPT ![w] = "idle"], req' = req
    PROVE  /\ req[w] \in Requests
           /\ waits[w] = req[w]
           /\ waits[w] # NoRequest
           /\ waits' = [waits EXCEPT ![w] = NoRequest]
           /\ ~poisoned
<1>1. HandlerInv
  BY DEF ServeInv, NumberInv, RpcInv
<1>2. w \in readers \/ writer = w
  BY DEF ServeInv, NumberInv, RpcInv, LockInv
<1>3. ~poisoned
  BY <1>2, RpcAssumption DEF ServeInv, RpcAssumption
<1> QED
  BY <1>1, <1>3, Waiting, GoesIdle DEF HandlerInv

\* Handlers with one read guard answer by a lookup.
LEMMA LookupIsQuery ==
    ASSUME ServeInv, NEW w \in Workers,
           BlockNumber(w) \/ BlockByNumber(w) \/ TransactionReceipt(w)
    PROVE  Service!TakeEffect(w)
<1> DEFINE answer == Service!Lookup(req[w])
<1>1. /\ pc[w] = "serve"
      /\ pc' = [pc EXCEPT ![w] = "idle"]
      /\ UNCHANGED <<req, since, poisoned, dbVars>>
      /\ req[w].method \in {"blockNumber", "getBlockByNumber", "getTransactionReceipt"}
  BY DEF BlockNumber, BlockByNumber, TransactionReceipt, Serving, Answer, Release, Return
<1>2. reply' = [reply EXCEPT ![w] = answer]
  <2>1. CASE BlockNumber(w)
    <3>1. req[w].method = "blockNumber" /\ reply' = [reply EXCEPT ![w] = Ok(req[w], best_number)]
      BY <2>1 DEF BlockNumber, Serving, Answer, Return
    <3> QED
      BY <3>1, SameBasic DEF Service!Lookup
  <2>2. CASE BlockByNumber(w)
    <3>1. /\ req[w].method = "getBlockByNumber"
          /\ reply' = [reply EXCEPT ![w] = Ok(req[w], RpcBlock(BestBlock.header))]
      BY <2>2 DEF BlockByNumber, Serving, Answer, Return
    <3> QED
      BY <3>1, SameBasic, SameQueries DEF Service!Lookup
  <2>3. CASE TransactionReceipt(w)
    <3>1. /\ req[w].method = "getTransactionReceipt"
          /\ reply' = [reply EXCEPT ![w] = Ok(req[w], receipt(req[w].hash))]
      BY <2>3 DEF TransactionReceipt, Serving, Answer, Return
    <3> QED
      BY <3>1, SameBasic, SameQueries DEF Service!Lookup
  <2> QED
    BY <2>1, <2>2, <2>3
<1>3. /\ waits[w] = req[w] /\ waits[w] # NoRequest
      /\ waits' = [waits EXCEPT ![w] = NoRequest]
      /\ ~poisoned
  BY <1>1, Served
<1>4. Service!Lookup(waits[w]) = answer
  BY <1>3
<1> HIDE DEF answer
<1>5. UNCHANGED Service!dbVars
  BY <1>1 DEF Service!dbVars, dbVars
<1>6. Service!Query(w)
  BY <1>1, <1>2, <1>3, <1>4, <1>5, SameBasic DEF Service!Query, Service!Answered, waits
<1> QED
  BY <1>3, <1>6, SameBasic DEF Service!TakeEffect, waits

\* The height a number was resolved to is one of those it stands for.
LEMMA ServedHeight ==
    ASSUME ServeInv, NEW w \in Workers, pc[w] = "serve", req[w].method \in NumberMethods
    PROVE  /\ Resolves(req[w].num)
           /\ number[w] \in Service!Heights(req[w].num, since[w])
           /\ req[w].num.tag = "Num" => number[w] = req[w].num.n
           /\ req[w].num.tag # "Num" => number[w] <= best_number
<1>1. Stands(hash_index, best_number, req[w].num, since[w], number[w])
  BY DEF ServeInv, TwoLocked, TwoLocks
<1>2. req[w].num.tag # "Num" => number[w] <= best_number
  BY DEF ServeInv, NumberInv, ResolvedNumberStaysValid, TwoLocked, TwoLocks
<1>3. Resolves(req[w].num) /\ number[w] \in Service!Heights(req[w].num, since[w])
  BY <1>1, StandsForHeight
<1> QED
  BY <1>1, <1>2, <1>3 DEF Stands

\* An answer from the snapshot that was resolved is an answer to the query.
LEMMA AnsweredAtIsQuery ==
    ASSUME ServeInv, NEW w \in Workers, NEW n, n = number[w],
           pc[w] = "serve", req[w].method \in NumberMethods,
           pc' = [pc EXCEPT ![w] = "idle"], req' = req,
           UNCHANGED <<poisoned, dbVars>>,
           Service!AnsweredAt(w, n)
    PROVE  Service!TakeEffect(w)
<1>1. /\ waits[w] = req[w] /\ waits[w] # NoRequest
      /\ ~poisoned
  BY Served
<1>2. Resolves(req[w].num) /\ n \in Service!Heights(req[w].num, since[w])
  BY ServedHeight
<1>3. UNCHANGED Service!dbVars
  BY DEF Service!dbVars, dbVars
<1>4. Service!Query(w)
  BY <1>1, <1>2, <1>3, SameBasic DEF Service!Query, waits
<1> QED
  BY <1>1, <1>4, SameBasic DEF Service!TakeEffect, waits

\* eth_getBalance, under its second guard, is a query.
LEMMA BalanceIsQuery ==
    ASSUME ServeInv, NEW w \in Workers, Balance(w)
    PROVE  Service!TakeEffect(w)
<1> DEFINE answer == IF number[w] > best_number
                     THEN Error(req[w], "number")
                     ELSE Ok(req[w], basic(accounts[number[w] + 1], req[w].address).balance)
<1>1. /\ pc[w] = "serve" /\ req[w].method = "getBalance"
      /\ pc' = [pc EXCEPT ![w] = "idle"]
      /\ reply' = [reply EXCEPT ![w] = answer]
      /\ UNCHANGED <<req, since, poisoned, dbVars>>
  BY DEF Balance, Serving, Answer, Release, Return
<1>2. PICK n : n = number[w]
  OBVIOUS
<1>3. waits[w] = req[w] /\ waits' = [waits EXCEPT ![w] = NoRequest]
  BY <1>1, Served
<1>4. answer = IF n > Service!best_number
               THEN Service!Error(waits[w], "number")
               ELSE Service!Ok(waits[w], Service!basic(accounts[n + 1], waits[w].address).balance)
  BY <1>2, <1>3, SameBasic
<1> HIDE DEF answer
<1>5. Service!AnsweredAt(w, n)
  BY <1>1, <1>3, <1>4, SameBasic DEF Service!AnsweredAt, Service!Answered, waits
<1> QED
  BY <1>1, <1>2, <1>5, AnsweredAtIsQuery DEF NumberMethods

\* eth_getTransactionCount, under its second guard, is a query.
LEMMA TransactionCountIsQuery ==
    ASSUME ServeInv, NEW w \in Workers, TransactionCount(w)
    PROVE  Service!TakeEffect(w)
<1> DEFINE answer == Ok(req[w], IF number[w] > best_number THEN 0
                                ELSE basic(accounts[number[w] + 1], req[w].address).nonce)
<1>1. /\ pc[w] = "serve" /\ req[w].method = "getTransactionCount"
      /\ pc' = [pc EXCEPT ![w] = "idle"]
      /\ reply' = [reply EXCEPT ![w] = answer]
      /\ UNCHANGED <<req, since, poisoned, dbVars>>
  BY DEF TransactionCount, Serving, Answer, Release, Return
<1>2. PICK n : n = number[w]
  OBVIOUS
<1>3. waits[w] = req[w] /\ waits' = [waits EXCEPT ![w] = NoRequest]
  BY <1>1, Served
<1>4. answer = Service!Ok(waits[w],
                   IF n > Service!best_number THEN 0
                   ELSE Service!basic(accounts[n + 1], waits[w].address).nonce)
  BY <1>2, <1>3, SameBasic
<1> HIDE DEF answer
<1>5. Service!AnsweredAt(w, n)
  BY <1>1, <1>3, <1>4, SameBasic DEF Service!AnsweredAt, Service!Answered, waits
<1> QED
  BY <1>1, <1>2, <1>5, AnsweredAtIsQuery DEF NumberMethods

\* Only a number of the client's own can name a snapshot that is not there.
LEMMA PanicBreaks ==
    ASSUME ServeInv, NEW w \in Workers, pc[w] = "serve",
           req[w].method \in {"call", "estimateGas"},
           number[w] > best_number, Panic(w)
    PROVE  Service!TakeEffect(w)
<1> DEFINE answer == Dropped(req[w])
<1>1. /\ pc' = [pc EXCEPT ![w] = "idle"]
      /\ reply' = [reply EXCEPT ![w] = answer]
      /\ UNCHANGED <<req, since, dbVars>>
  BY DEF Panic, Return
<1>2. writer = w
  BY DEF ServeInv, NumberInv, RpcInv, LockInv, WriteMethods
<1>3. poisoned' = TRUE
  BY <1>2 DEF Panic
<1>4. /\ waits[w] = req[w] /\ waits[w] # NoRequest
      /\ waits' = [waits EXCEPT ![w] = NoRequest]
      /\ ~poisoned
  BY <1>1, Served
<1>5. best_number \in Nat /\ number[w] \in Nat
  BY HeightIsNat DEF ServeInv, NumberInv, RpcInv, HandlerInv, RpcTypeOK
<1>6. req[w].num.tag = "Num" /\ req[w].num.n > best_number
  BY <1>5, ServedHeight DEF NumberMethods
<1>7. Service!Dropped(waits[w]) = answer
  BY <1>4, SameBasic
<1> HIDE DEF answer
<1>8. UNCHANGED Service!dbVars
  BY <1>1 DEF Service!dbVars, dbVars
<1>9. Service!Break(w)
  BY <1>1, <1>3, <1>4, <1>6, <1>7, <1>8, SameBasic DEF Service!Break, Service!Answered, waits
<1> QED
  BY <1>4, <1>9, SameBasic DEF Service!TakeEffect, waits

\* eth_call is a query although it takes the write guard, or it panics.
LEMMA CallIsQuery ==
    ASSUME ServeInv, NEW w \in Workers, Call(w)
    PROVE  Service!TakeEffect(w)
<1>1. pc[w] = "serve" /\ req[w].method = "call"
  BY DEF Call, Serving
<1>2. CASE number[w] > best_number /\ Panic(w)
  BY <1>1, <1>2, PanicBreaks
<1>3. ASSUME number[w] <= best_number, NEW out \in call(number[w], req[w].to),
             Answer(w, IF out.ok THEN Ok(req[w], out) ELSE Error(req[w], "failed")),
             UNCHANGED dbVars
      PROVE  Service!TakeEffect(w)
  <2> DEFINE answer == IF out.ok THEN Ok(req[w], out) ELSE Error(req[w], "failed")
  <2>1. /\ pc' = [pc EXCEPT ![w] = "idle"]
        /\ reply' = [reply EXCEPT ![w] = answer]
        /\ UNCHANGED <<req, since, poisoned>>
    BY <1>3 DEF Answer, Release, Return
  <2>2. PICK n : n = number[w]
    OBVIOUS
  <2>3. waits[w] = req[w] /\ waits' = [waits EXCEPT ![w] = NoRequest]
    BY <1>1, <2>1, Served
  <2>4. answer = IF out.ok THEN Service!Ok(waits[w], out) ELSE Service!Error(waits[w], "failed")
    BY <2>3, SameBasic
  <2>5. n <= Service!best_number /\ out \in Service!call(n, waits[w].to)
    BY <1>3, <2>2, <2>3, SameBasic, SameQueries
  <2> HIDE DEF answer
  <2>6. Service!AnsweredAt(w, n)
    BY <1>1, <2>1, <2>3, <2>4, <2>5, SameBasic DEF Service!AnsweredAt, Service!Answered, waits
  <2> QED
    BY <1>1, <1>3, <2>1, <2>2, <2>6, AnsweredAtIsQuery DEF NumberMethods
<1> QED
  BY <1>2, <1>3 DEF Call

\* eth_sendRawTransaction is a commit or a refusal, in one step.
LEMMA SendIsCommit ==
    ASSUME ServeInv, NEW w \in Workers, SendRawTransaction(w)
    PROVE  Service!TakeEffect(w)
<1>1. pc[w] = "serve" /\ req[w].method = "sendRawTransaction"
  BY DEF SendRawTransaction, Serving
<1>2. PICK tx : tx = req[w].tx[1]
  OBVIOUS
<1>3. PICK now \in Times, out \in Execute(Latest, tx.sender, tx.value, receiver(tx)) :
         /\ SubmitTx(tx, now, out)
         /\ Answer(w, IF out.ok THEN Ok(req[w], TxHash(tx)) ELSE Error(req[w], "refused"))
  BY <1>2 DEF SendRawTransaction
<1> DEFINE answer == IF out.ok THEN Ok(req[w], TxHash(tx)) ELSE Error(req[w], "refused")
<1>4. /\ pc' = [pc EXCEPT ![w] = "idle"]
      /\ reply' = [reply EXCEPT ![w] = answer]
      /\ UNCHANGED <<req, since, poisoned>>
  BY <1>3 DEF Answer, Release, Return
<1>5. /\ waits[w] = req[w] /\ waits[w] # NoRequest
      /\ waits' = [waits EXCEPT ![w] = NoRequest]
      /\ ~poisoned
  BY <1>1, <1>4, Served
<1>6. answer = IF out.ok THEN Service!Ok(waits[w], Service!TxHash(tx))
                         ELSE Service!Error(waits[w], "refused")
  BY <1>5, SameBasic, SameHashes
<1>7. /\ out \in Service!Execute(Service!Latest, tx.sender, tx.value, Service!receiver(tx))
      /\ Service!SubmitTx(tx, now, out)
  BY <1>3, SameBasic, SameHashes, SameExecute, SameChanges
<1>8. tx = waits[w].tx[1] /\ waits[w].method = "sendRawTransaction"
  BY <1>1, <1>2, <1>5
<1> HIDE DEF answer
<1>9. Service!Commit(w)
  BY <1>4, <1>5, <1>6, <1>7, <1>8, SameBasic DEF Service!Commit, Service!Answered, waits
<1> QED
  BY <1>5, <1>9, SameBasic DEF Service!TakeEffect, waits

\* eth_estimateGas is an estimate on one snapshot, or it panics.
LEMMA EstimateIsEstimate ==
    ASSUME ServeInv, NEW w \in Workers, EstimateGasOf(w)
    PROVE  Service!TakeEffect(w)
<1>1. pc[w] = "serve" /\ req[w].method = "estimateGas"
  BY DEF EstimateGasOf, Serving
<1>2. CASE number[w] > best_number /\ Panic(w)
  BY <1>1, <1>2, PanicBreaks
<1>3. ASSUME number[w] <= best_number,
             NEW out \in Execute(accounts[number[w] + 1], req[w].from, req[w].value, req[w].to),
             EstimateGas(number[w], req[w].from, req[w].value, req[w].to, out),
             Answer(w, Ok(req[w], "gas"))
      PROVE  Service!TakeEffect(w)
  <2> DEFINE answer == Ok(req[w], "gas")
  <2>1. /\ pc' = [pc EXCEPT ![w] = "idle"]
        /\ reply' = [reply EXCEPT ![w] = answer]
        /\ UNCHANGED <<req, since, poisoned>>
    BY <1>3 DEF Answer, Release, Return
  <2>2. PICK n, r : n = number[w] /\ r = req[w]
    OBVIOUS
  <2>3. /\ waits[w] = r /\ waits[w] # NoRequest
        /\ waits' = [waits EXCEPT ![w] = NoRequest]
        /\ ~poisoned
    BY <1>1, <2>1, <2>2, Served
  <2>4. answer = Service!Ok(r, "gas")
    BY <2>2, SameBasic
  <2>5. /\ n <= Service!best_number
        /\ out \in Service!Execute(accounts[n + 1], r.from, r.value, r.to)
        /\ Service!EstimateGas(n, r.from, r.value, r.to, out)
    BY <1>3, <2>2, SameBasic, SameExecute, SameChanges
  <2>6. Service!Resolves(r.num) /\ n \in Service!Heights(r.num, since[w])
    BY <1>1, <2>2, ServedHeight, SameBasic DEF NumberMethods
  <2>7. r.method = "estimateGas"
    BY <1>1, <2>2
  <2> HIDE DEF answer
  <2>8. Service!EstimateFor(w)
    BY <2>1, <2>3, <2>4, <2>5, <2>6, <2>7, SameBasic
    DEF Service!EstimateFor, Service!Answered, waits
  <2> QED
    BY <2>3, <2>8, SameBasic DEF Service!TakeEffect, waits
<1> QED
  BY <1>2, <1>3 DEF EstimateGasOf

\* Between its guards a handler does nothing that a client could see.
LEMMA QuietSteps ==
    ASSUME HandlerInv, NEW w \in Workers, UNCHANGED dbVars,
           \/ Reads(w, "lock_number", "number")
           \/ Reads(w, "lock_serve", "serve")
           \/ Writes(w)
           \/ FindsNumber(w)
    PROVE  UNCHANGED Service!serviceVars
<1>1. \E to : /\ to # "idle" /\ pc[w] # "idle"
              /\ pc' = [pc EXCEPT ![w] = to]
              /\ UNCHANGED <<req, reply, since, poisoned>>
  BY DEF Reads, Writes, FindsNumber
<1>2. waits' = waits
  BY <1>1, StaysBusy
<1>3. UNCHANGED Service!dbVars
  BY DEF Service!dbVars, dbVars
<1> QED
  BY <1>1, <1>2, <1>3 DEF Service!serviceVars, waits

\* Put together, by the kinds of handler steps.
LEMMA StepIsServiceStep ==
    ASSUME ServeInv, [RpcNext]_allVars
    PROVE  [Service!ServiceNext]_Service!serviceVars
<1>1. HandlerInv
  BY DEF ServeInv, NumberInv, RpcInv
<1>2. CASE UNCHANGED allVars
  BY <1>2 DEF allVars, lockVars, rpcVars, dbVars, Service!serviceVars, Service!dbVars
<1>3. ASSUME NEW w \in Workers, NEW r \in Requests, Receives(w, r), UNCHANGED dbVars
      PROVE  Service!ServiceNext
  BY <1>1, <1>3, ReceiveAsks DEF Service!ServiceNext
<1>4. ASSUME NEW w \in Workers, IsPoisoned(w) \/ FindsNone(w), UNCHANGED dbVars
      PROVE  Service!ServiceNext
  BY <1>1, <1>4, PoisonRefuses, NoneIsError DEF Service!ServiceNext
<1>5. ASSUME NEW w \in Workers, Serve(w)
      PROVE  Service!ServiceNext
  <2>1. Service!TakeEffect(w)
    BY <1>5, LookupIsQuery, BalanceIsQuery, TransactionCountIsQuery, SendIsCommit,
       CallIsQuery, EstimateIsEstimate DEF Serve
  <2> QED
    BY <2>1 DEF Service!ServiceNext
<1>6. CASE RpcNext
  BY <1>1, <1>3, <1>4, <1>5, <1>6, HandlerSteps, QuietSteps
<1> QED
  BY <1>2, <1>6

-----------------------------------------------------------------------------
(* The theorem                                                             *)

\* At the start nothing is resolved and the lock is sound.
LEMMA InitServe ==
    ASSUME RpcInit
    PROVE  ServeInv
<1>1. NumberInv /\ PoisonInv
  BY InitNumbers DEF RpcInit, PoisonInv, NumberInv, NoReply
<1> QED
  BY <1>1 DEF RpcInit, ServeInv, TwoLocked

\* Both start from the genesis block, with nobody waiting.
LEMMA InitIsServiceInit ==
    ASSUME RpcInit
    PROVE  Service!ServiceInit
<1>1. Service!DBInit
  <2>1. Service!EmptyMap = EmptyMap
    BY DEF Service!EmptyMap, EmptyMap
  <2>2. \A now : Service!CreateGenesis(now) <=> CreateGenesis(now)
    BY <2>1, SameHashes DEF CreateGenesis, Service!CreateGenesis
  <2> QED
    BY <2>1, <2>2 DEF RpcInit, DBInit, Service!DBInit
<1>2. waits = [w \in Workers |-> NoRequest]
  BY DEF RpcInit, waits
<1> QED
  BY <1>1, <1>2, SameBasic DEF RpcInit, Service!ServiceInit, waits

\* Clients cannot tell the handlers, with two guards each and other handlers in
\* between, from a store that serves every request in one step (rpc.rs, all eth_*
\* handlers that need the store).
THEOREM HandlersImplementService == RpcSpec => IsAtomicService
<1>1. RpcInit => ServeInv /\ Service!ServiceInit
  BY InitServe, InitIsServiceInit
<1>2. ServeInv /\ [RpcNext]_allVars => ServeInv'
  BY StepKeepsServe
<1>3. ServeInv /\ [RpcNext]_allVars => [Service!ServiceNext]_Service!serviceVars
  BY StepIsServiceStep
<1> QED
  BY <1>1, <1>2, <1>3, PTL DEF RpcSpec, IsAtomicService, Service!ServiceSpec
=============================================================================
