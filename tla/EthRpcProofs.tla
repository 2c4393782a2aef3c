----------------------------- MODULE EthRpcProofs -----------------------------
(***************************************************************************)
(* Theorems about the handlers and their lock, for any number of server    *)
(* threads and any requests.                                               *)
(***************************************************************************)
EXTENDS EthRpc, HistoryProofs

-----------------------------------------------------------------------------
(* What the steps of a handler do                                          *)

\* A handler's last step: the worker drops its guard and leaves an answer.
Ends(w, answer) ==
    /\ pc[w] = "serve"
    /\ readers' = readers \ {w}
    /\ writer' = IF writer = w THEN None ELSE writer
    /\ \/ answer.status # "dropped" /\ poisoned' = poisoned
       \/ req[w].method \in WriteMethods /\ poisoned' = (poisoned \/ writer = w)
    /\ pc' = [pc EXCEPT ![w] = "idle"]
    /\ answer.req = req[w]
    /\ reply' = [reply EXCEPT ![w] = answer]
    /\ UNCHANGED <<req, number, received, since>>

\* Serving a request always ends in such a last step, whatever the method.
LEMMA ServeEnds ==
    ASSUME NEW w, Serve(w)
    PROVE  \E answer : Ends(w, answer)
<1>1. ASSUME NEW value, Answer(w, Ok(req[w], value)), pc[w] = "serve"
      PROVE  \E answer : Ends(w, answer)
  <2>1. Ends(w, Ok(req[w], value))
    BY <1>1 DEF Answer, Release, Return, Ends, Ok
  <2> QED
    BY <2>1
<1>2. ASSUME NEW message, Answer(w, Error(req[w], message)), pc[w] = "serve"
      PROVE  \E answer : Ends(w, answer)
  <2>1. Ends(w, Error(req[w], message))
    BY <1>2 DEF Answer, Release, Return, Ends, Error
  <2> QED
    BY <2>1
<1>3. ASSUME Panic(w), pc[w] = "serve", req[w].method \in WriteMethods
      PROVE  \E answer : Ends(w, answer)
  <2>1. Ends(w, Dropped(req[w]))
    BY <1>3 DEF Panic, Return, Ends, Dropped
  <2> QED
    BY <2>1
<1>4. CASE BlockNumber(w)
  BY <1>1, <1>4 DEF BlockNumber, Serving
<1>5. CASE BlockByNumber(w)
  BY <1>1, <1>5 DEF BlockByNumber, Serving
<1>6. CASE TransactionReceipt(w)
  BY <1>1, <1>6 DEF TransactionReceipt, Serving
<1>7. CASE Balance(w)
  BY <1>1, <1>2, <1>7 DEF Balance, Serving
<1>8. CASE TransactionCount(w)
  BY <1>1, <1>8 DEF TransactionCount, Serving
<1>9. CASE SendRawTransaction(w)
  BY <1>1, <1>2, <1>9 DEF SendRawTransaction, Serving
<1>10. CASE Call(w)
  BY <1>1, <1>2, <1>3, <1>10 DEF Call, Serving, WriteMethods
<1>11. CASE EstimateGasOf(w)
  BY <1>1, <1>3, <1>11 DEF EstimateGasOf, Serving, WriteMethods
<1> QED
  BY <1>4, <1>5, <1>6, <1>7, <1>8, <1>9, <1>10, <1>11 DEF Serve

-----------------------------------------------------------------------------
(* Types and guards                                                        *)

HandlerInv ==
    /\ RpcTypeOK
    /\ req \in [Workers -> Requests \cup {NoRequest}]
    /\ reply = [w \in Workers |-> reply[w]]
    /\ \A w \in Workers :
          /\ pc[w] # "idle" => req[w] \in Requests /\ ~Malformed(req[w])
          /\ pc[w] \in {"lock_number", "number"} => req[w].method \in TwoLocks

\* The guards are where the scopes say, and nobody reads while somebody writes.
LockInv ==
    /\ \A w \in Workers :
          /\ w \in readers <=> \/ pc[w] = "number"
                               \/ pc[w] = "serve" /\ req[w].method \notin WriteMethods
          /\ writer = w <=> pc[w] = "serve" /\ req[w].method \in WriteMethods
    /\ writer # None => readers = {}

\* Only a worker that serves a write changes the store, by a commit of a
\* transaction or by an estimate.
LEMMA ServeStore ==
    ASSUME HandlerInv, NEW w \in Workers, Serve(w)
    PROVE  \/ UNCHANGED dbVars
           \/ pc[w] = "serve" /\ req[w].method \in WriteMethods /\ StoreStep
<1>1. CASE SendRawTransaction(w)
  <2>1. /\ pc[w] = "serve"
        /\ req[w].method = "sendRawTransaction"
        /\ \E now \in Times :
              \E out \in Execute(Latest, req[w].tx[1].sender, req[w].tx[1].value,
                                 receiver(req[w].tx[1])) :
                 SubmitTx(req[w].tx[1], now, out)
    BY <1>1 DEF SendRawTransaction, Serving
  <2>2. req[w].tx[1] \in SignedTxs
    BY <2>1, RpcAssumption DEF HandlerInv, Malformed, RpcAssumption
  <2>3. UNCHANGED dbVars \/ StoreStep
    BY <2>1, <2>2 DEF SubmitTx, StoreStep
  <2> QED
    BY <2>1, <2>3 DEF WriteMethods
<1>2. CASE EstimateGasOf(w)
  <2>1. pc[w] = "serve" /\ req[w].method = "estimateGas"
    BY <1>2 DEF EstimateGasOf, Serving
  <2>2. CASE Panic(w)
    BY <2>2 DEF Panic
  <2>3. CASE \E out \in Execute(accounts[number[w] + 1], req[w].from,
                                req[w].value, req[w].to) :
                EstimateGas(number[w], req[w].from, req[w].value, req[w].to, out)
    <3>1. req[w].value \in Values
      BY <2>1, RpcAssumption DEF HandlerInv, RpcAssumption
    <3>2. number[w] \in 0 .. best_number
      BY <2>3 DEF EstimateGas
    <3>3. StoreStep
      BY <2>3, <3>1, <3>2 DEF StoreStep
    <3> QED
      BY <2>1, <3>3 DEF WriteMethods
  <2> QED
    BY <1>2, <2>2, <2>3 DEF EstimateGasOf
<1>3. CASE BlockNumber(w)
  BY <1>3 DEF BlockNumber
<1>4. CASE BlockByNumber(w)
  BY <1>4 DEF BlockByNumber
<1>5. CASE TransactionReceipt(w)
  BY <1>5 DEF TransactionReceipt
<1>6. CASE Balance(w)
  BY <1>6 DEF Balance
<1>7. CASE TransactionCount(w)
  BY <1>7 DEF TransactionCount
<1>8. CASE Call(w)
  BY <1>8 DEF Call, Panic
<1> QED
  BY <1>1, <1>2, <1>3, <1>4, <1>5, <1>6, <1>7, <1>8 DEF Serve

\* The same for a step of the whole system (rpc.rs, get_mut_db! and the handlers).
LEMMA StepStore ==
    ASSUME HandlerInv, RpcNext
    PROVE  \/ UNCHANGED dbVars
           \/ /\ StoreStep
              /\ \E w \in Workers : /\ pc[w] = "serve"
                                    /\ req[w].method \in WriteMethods
                                    /\ Serve(w)
<1>1. ASSUME NEW w \in Workers, NEW r \in Requests, Receive(w, r)
      PROVE  UNCHANGED dbVars
  BY <1>1 DEF Receive
<1>2. ASSUME NEW w \in Workers, LockNumber(w) \/ LockServe(w) \/ ParseNumber(w)
      PROVE  UNCHANGED dbVars
  BY <1>2 DEF LockNumber, LockServe, Lock, ParseNumber
<1> QED
  BY <1>1, <1>2, ServeStore DEF RpcNext, Step

\* The store's own invariants.
StoreInv == TypeInv /\ ReceiptInv

\* There is always a genesis block (db.rs, best_number subtracts one).
LEMMA HeightIsNat ==
    ASSUME StoreInv
    PROVE  /\ best_number \in Nat
           /\ DOMAIN blocks = 1 .. best_number + 1
<1>1. Len(blocks) \in Nat \ {0} /\ DOMAIN blocks = 1 .. Len(blocks)
  BY AppendIsSeq DEF StoreInv, TypeInv, ChainInv, Aligned, SnapshotPerBlock
<1> QED
  BY <1>1 DEF best_number

\* No handler can break them, and heights only grow.
LEMMA StoreStepKeeps ==
    ASSUME StoreInv, StoreStep \/ UNCHANGED dbVars
    PROVE  /\ StoreInv'
           /\ best_number \in Nat
           /\ best_number' \in Nat
           /\ best_number <= best_number'
           /\ \A h \in DOMAIN hash_index : hash_index'[h] = hash_index[h]
<1>1. CASE UNCHANGED dbVars
  <2>1. TypeInv' /\ ReceiptInv'
    BY <1>1, StepKeepsTypes, StepKeepsReceipts DEF StoreInv
  <2> QED
    BY <1>1, <2>1, HeightIsNat DEF StoreInv, best_number, dbVars
<1>2. ASSUME NEW tx \in SignedTxs, NEW now \in Times,
             NEW out \in Execute(Latest, tx.sender, tx.value, receiver(tx)),
             out.ok, CommitTx(tx, now, out)
      PROVE  /\ StoreInv'
             /\ best_number \in Nat
             /\ best_number' = best_number + 1
             /\ \A h \in DOMAIN hash_index : hash_index'[h] = hash_index[h]
  <2>1. TypeInv' /\ ReceiptInv'
    BY <1>2, CommitKeepsTypes, CommitKeepsReceipts DEF StoreInv
  <2>2. best_number \in Nat /\ best_number' = best_number + 1
    BY <1>2, CommitHeights DEF StoreInv, TypeInv
  <2>3. \A h \in DOMAIN hash_index : hash_index'[h] = hash_index[h]
    BY <1>2, CommitKeepsIndex DEF StoreInv, ReceiptInv
  <2> QED
    BY <2>1, <2>2, <2>3 DEF StoreInv
<1>3. ASSUME NEW n \in 0 .. best_number, NEW value \in Values, NEW caller, NEW to,
             NEW out \in Execute(accounts[n + 1], caller, value, to),
             EstimateGas(n, caller, value, to, out)
      PROVE  /\ StoreInv'
             /\ best_number \in Nat
             /\ best_number' = best_number
             /\ \A h \in DOMAIN hash_index : hash_index'[h] = hash_index[h]
  <2>1. TypeInv'
    BY <1>3, EstimateKeepsTypes DEF StoreInv
  <2>2. UNCHANGED <<blocks, hash_index, infos>>
    BY <1>3 DEF EstimateGas
  <2>3. ReceiptInv'
    BY <2>1, <2>2 DEF StoreInv, TypeInv, ReceiptInv, IndexInv, HashIndexExact,
                      ReceiptsSound, best_number
  <2>4. best_number \in Nat /\ best_number' = best_number
    BY <1>3, EstimateHeights DEF StoreInv, TypeInv
  <2> QED
    BY <2>1, <2>2, <2>3, <2>4 DEF StoreInv
<1> QED
  BY <1>1, <1>2, <1>3 DEF StoreStep

\* A number is resolved to a natural, and unless the client gave it itself, to a
\* height of the chain.
LEMMA ResolvedNumber ==
    ASSUME StoreInv, NEW r \in Requests, r.method \in TwoLocks, Resolves(r.num)
    PROVE  /\ parse_number(r.num) \in Nat
           /\ r.num.tag # "Num" => parse_number(r.num) <= best_number
           /\ r.num.tag = "Latest" => parse_number(r.num) = best_number
<1>1. best_number \in Nat
  BY HeightIsNat
<1>2. CASE r.num.tag = "Earliest"
  BY <1>1, <1>2 DEF parse_number
<1>3. CASE r.num.tag = "Hash"
  <2>1. r.num.hash \in DOMAIN hash_index /\ parse_number(r.num) = hash_index[r.num.hash]
    BY <1>3 DEF Resolves, parse_number
  <2>2. PICK i \in DOMAIN blocks : r.num.hash = HeaderHash(blocks[i].header)
    BY <2>1 DEF StoreInv, ReceiptInv, IndexInv, HashIndexExact
  <2>3. DOMAIN blocks = 1 .. best_number + 1
    BY HeightIsNat
  <2>4. i - 1 \in 0 .. best_number /\ (i - 1) + 1 = i
    BY <1>1, <2>3
  <2>5. hash_index[HeaderHash(blocks[i].header)] = i - 1
    BY <2>4 DEF StoreInv, ReceiptInv, IndexInv, HashIndexExact
  <2> QED
    BY <1>1, <1>3, <2>1, <2>2, <2>4, <2>5
<1>4. CASE r.num.tag = "Num"
  <2>1. r.num.n \in Nat
    BY <1>4, RpcAssumption DEF RpcAssumption, TwoLocks
  <2> QED
    BY <1>4, <2>1 DEF parse_number
<1>5. CASE r.num.tag \notin {"Earliest", "Hash", "Num"}
  BY <1>1, <1>5 DEF parse_number
<1> QED
  BY <1>2, <1>3, <1>4, <1>5

-----------------------------------------------------------------------------
(* The ways a step changes the handlers                                    *)

\* The store aside, a step of the system is one of these.
Receives(w, r) ==
    /\ pc[w] = "idle"
    /\ received < MaxRequests
    /\ received' = received + 1
    /\ req' = [req EXCEPT ![w] = r]
    /\ since' = [since EXCEPT ![w] = best_number]
    /\ \/ /\ Malformed(r)
          /\ UNCHANGED pc
          /\ reply' = [reply EXCEPT ![w] = Error(r, "malformed")]
       \/ /\ ~Malformed(r)
          /\ r.method \in TwoLocks
          /\ pc' = [pc EXCEPT ![w] = "lock_number"]
          /\ reply' = [reply EXCEPT ![w] = NoReply]
       \/ /\ ~Malformed(r)
          /\ r.method \notin TwoLocks
          /\ pc' = [pc EXCEPT ![w] = "lock_serve"]
          /\ reply' = [reply EXCEPT ![w] = NoReply]
    /\ UNCHANGED <<lockVars, number>>

Reads(w, from, next) ==
    /\ pc[w] = from
    /\ writer = None
    /\ ~poisoned
    /\ from = "lock_serve" => req[w].method \notin WriteMethods
    /\ pc' = [pc EXCEPT ![w] = next]
    /\ readers' = readers \cup {w}
    /\ UNCHANGED <<writer, poisoned, req, number, reply, received, since>>

Writes(w) ==
    /\ pc[w] = "lock_serve"
    /\ req[w].method \in WriteMethods
    /\ writer = None /\ readers = {}
    /\ ~poisoned
    /\ pc' = [pc EXCEPT ![w] = "serve"]
    /\ writer' = w
    /\ UNCHANGED <<readers, poisoned, req, number, reply, received, since>>

IsPoisoned(w) ==
    /\ pc[w] \in {"lock_number", "lock_serve"}
    /\ poisoned
    /\ pc' = [pc EXCEPT ![w] = "idle"]
    /\ reply' = [reply EXCEPT ![w] = Error(req[w], "lock")]
    /\ UNCHANGED <<lockVars, req, number, received, since>>

FindsNumber(w) ==
    /\ pc[w] = "number"
    /\ Resolves(req[w].num)
    /\ number' = [number EXCEPT ![w] = parse_number(req[w].num)]
    /\ pc' = [pc EXCEPT ![w] = "lock_serve"]
    /\ readers' = readers \ {w}
    /\ writer' = IF writer = w THEN None ELSE writer
    /\ UNCHANGED <<poisoned, req, reply, received, since>>

FindsNone(w) ==
    /\ pc[w] = "number"
    /\ ~Resolves(req[w].num)
    /\ readers' = readers \ {w}
    /\ writer' = IF writer = w THEN None ELSE writer
    /\ pc' = [pc EXCEPT ![w] = "idle"]
    /\ reply' = [reply EXCEPT ![w] = Error(req[w], "number")]
    /\ UNCHANGED <<poisoned, req, number, received, since>>

\* What the macros get_db! and get_mut_db! and the handlers add up to.
LEMMA HandlerSteps ==
    ASSUME RpcNext
    PROVE  \E w \in Workers :
              \/ UNCHANGED dbVars /\ \E r \in Requests : Receives(w, r)
              \/ UNCHANGED dbVars /\ Reads(w, "lock_number", "number")
              \/ UNCHANGED dbVars /\ Reads(w, "lock_serve", "serve")
              \/ UNCHANGED dbVars /\ Writes(w)
              \/ UNCHANGED dbVars /\ IsPoisoned(w)
              \/ UNCHANGED dbVars /\ FindsNumber(w)
              \/ UNCHANGED dbVars /\ FindsNone(w)
              \/ Serve(w)
<1>1. ASSUME NEW w \in Workers, NEW r \in Requests, Receive(w, r)
      PROVE  UNCHANGED dbVars /\ Receives(w, r)
  BY <1>1 DEF Receive, Receives
<1>2. ASSUME NEW w \in Workers, LockNumber(w)
      PROVE  UNCHANGED dbVars /\ (Reads(w, "lock_number", "number") \/ IsPoisoned(w))
  BY <1>2 DEF LockNumber, Lock, Return, Reads, IsPoisoned
<1>3. ASSUME NEW w \in Workers, LockServe(w)
      PROVE  UNCHANGED dbVars /\ (Reads(w, "lock_serve", "serve") \/ Writes(w) \/ IsPoisoned(w))
  BY <1>3 DEF LockServe, Lock, Return, Reads, Writes, IsPoisoned
<1>4. ASSUME NEW w \in Workers, ParseNumber(w)
      PROVE  UNCHANGED dbVars /\ (FindsNumber(w) \/ FindsNone(w))
  BY <1>4 DEF ParseNumber, Answer, Release, Return, FindsNumber, FindsNone
<1> QED
  BY <1>1, <1>2, <1>3, <1>4 DEF RpcNext, Step

RpcInv == StoreInv /\ HandlerInv /\ LockInv

\* At the start no handler runs and no guard is out.
LEMMA InitRpc ==
    ASSUME RpcInit
    PROVE  RpcInv
<1>1. StoreInv
  BY InitTypes, InitIndex DEF RpcInit, StoreInv
<1>2. HandlerInv
  <2>1. RpcTypeOK
    <3>1. 0 \in 0 .. MaxRequests
      BY RpcAssumption DEF RpcAssumption
    <3> QED
      BY <3>1 DEF RpcInit, RpcTypeOK
  <2>2. /\ req \in [Workers -> Requests \cup {NoRequest}]
        /\ \A w \in Workers : pc[w] = "idle"
    BY DEF RpcInit
  <2>3. reply = [w \in Workers |-> reply[w]]
    <3>1. reply = [w \in Workers |-> NoReply]
      BY DEF RpcInit
    <3> QED
      BY <3>1
  <2> QED
    BY <2>1, <2>2, <2>3 DEF HandlerInv
<1>3. LockInv
  BY RpcAssumption DEF RpcInit, LockInv, RpcAssumption
<1> QED
  BY <1>1, <1>2, <1>3 DEF RpcInv

\* A handler leaves every part of the system well typed.
LEMMA StepKeepsHandlers ==
    ASSUME StoreInv, HandlerInv, RpcNext
    PROVE  HandlerInv'
<1>1. ASSUME NEW w \in Workers, NEW r \in Requests, Receives(w, r)
      PROVE  HandlerInv'
  <2>1. received' \in 0 .. MaxRequests
    BY <1>1, RpcAssumption DEF Receives, HandlerInv, RpcTypeOK, RpcAssumption
  <2>2. since' \in [Workers -> Nat]
    BY <1>1, HeightIsNat DEF Receives, HandlerInv, RpcTypeOK
  <2>3. RpcTypeOK'
    BY <1>1, <2>1, <2>2 DEF Receives, HandlerInv, RpcTypeOK, lockVars
  <2>4. reply' = [v \in Workers |-> reply'[v]]
    BY <1>1 DEF Receives, HandlerInv
  <2> QED
    BY <1>1, <2>3, <2>4 DEF Receives, HandlerInv, RpcTypeOK
<1>2. ASSUME NEW w \in Workers,
             \/ Reads(w, "lock_number", "number")
             \/ Reads(w, "lock_serve", "serve")
             \/ Writes(w)
      PROVE  HandlerInv'
  BY <1>2 DEF Reads, Writes, HandlerInv, RpcTypeOK
<1>3. ASSUME NEW w \in Workers, IsPoisoned(w) \/ FindsNone(w)
      PROVE  HandlerInv'
  BY <1>3 DEF IsPoisoned, FindsNone, HandlerInv, RpcTypeOK, lockVars
<1>4. ASSUME NEW w \in Workers, FindsNumber(w)
      PROVE  HandlerInv'
  <2>1. req[w] \in Requests /\ req[w].method \in TwoLocks /\ Resolves(req[w].num)
    BY <1>4 DEF FindsNumber, HandlerInv
  <2>2. parse_number(req[w].num) \in Nat
    BY <2>1, ResolvedNumber
  <2> QED
    BY <1>4, <2>2 DEF FindsNumber, HandlerInv, RpcTypeOK
<1>5. ASSUME NEW w \in Workers, Serve(w)
      PROVE  HandlerInv'
  <2>1. PICK answer : Ends(w, answer)
    BY <1>5, ServeEnds
  <2> QED
    BY <2>1 DEF Ends, HandlerInv, RpcTypeOK
<1> QED
  BY <1>1, <1>2, <1>3, <1>4, <1>5, HandlerSteps

\* A guard is taken and dropped with the scope it belongs to.
LEMMA StepKeepsLocks ==
    ASSUME HandlerInv, LockInv, RpcNext
    PROVE  LockInv'
<1>1. ASSUME NEW w \in Workers, NEW r \in Requests, Receives(w, r)
      PROVE  LockInv'
  BY <1>1 DEF Receives, HandlerInv, RpcTypeOK, LockInv, lockVars
<1>2. ASSUME NEW w \in Workers,
             \/ Reads(w, "lock_number", "number")
             \/ Reads(w, "lock_serve", "serve")
      PROVE  LockInv'
  <2>1. CASE Reads(w, "lock_number", "number")
    BY <2>1 DEF Reads, HandlerInv, RpcTypeOK, LockInv
  <2>2. CASE Reads(w, "lock_serve", "serve")
    <3>1. /\ writer = None /\ writer' = writer
          /\ pc[w] = "lock_serve" /\ req[w].method \notin WriteMethods
          /\ req' = req
          /\ \A v \in Workers : pc'[v] = IF v = w THEN "serve" ELSE pc[v]
          /\ \A v \in Workers : v \in readers' <=> v = w \/ v \in readers
      BY <2>2 DEF Reads, HandlerInv, RpcTypeOK
    <3>2. ASSUME NEW v \in Workers
          PROVE  writer # v
      BY <3>1, RpcAssumption DEF RpcAssumption
    <3> QED
      BY <3>1, <3>2 DEF LockInv
  <2> QED
    BY <1>2, <2>1, <2>2
<1>3. ASSUME NEW w \in Workers, Writes(w)
      PROVE  LockInv'
  <2>1. None \notin Workers
    BY RpcAssumption DEF RpcAssumption
  <2> QED
    BY <1>3, <2>1 DEF Writes, HandlerInv, RpcTypeOK, LockInv
<1>4. ASSUME NEW w \in Workers, IsPoisoned(w)
      PROVE  LockInv'
  BY <1>4 DEF IsPoisoned, HandlerInv, RpcTypeOK, LockInv, lockVars
<1>5. ASSUME NEW w \in Workers, FindsNumber(w) \/ FindsNone(w)
      PROVE  LockInv'
  BY <1>5 DEF FindsNumber, FindsNone, HandlerInv, RpcTypeOK, LockInv
<1>6. ASSUME NEW w \in Workers, Serve(w)
      PROVE  LockInv'
  <2>1. PICK answer : Ends(w, answer)
    BY <1>6, ServeEnds
  <2>2. None \notin Workers
    BY RpcAssumption DEF RpcAssumption
  <2> QED
    BY <2>1, <2>2 DEF Ends, HandlerInv, RpcTypeOK, LockInv
<1> QED
  BY <1>1, <1>2, <1>3, <1>4, <1>5, <1>6, HandlerSteps

\* Every step keeps types, guards and the store in order.
LEMMA StepKeepsRpc ==
    ASSUME RpcInv, [RpcNext]_allVars
    PROVE  RpcInv'
<1>1. CASE RpcNext
  <2>1. StoreStep \/ UNCHANGED dbVars
    BY <1>1, StepStore DEF RpcInv
  <2> QED
    BY <1>1, <2>1, StoreStepKeeps, StepKeepsHandlers, StepKeepsLocks DEF RpcInv
<1>2. CASE UNCHANGED allVars
  <2>1. StoreInv'
    BY <1>2, StoreStepKeeps DEF RpcInv, allVars
  <2>2. HandlerInv'
    BY <1>2 DEF RpcInv, HandlerInv, RpcTypeOK, allVars, lockVars, rpcVars
  <2>3. LockInv'
    BY <1>2 DEF RpcInv, LockInv, allVars, lockVars, rpcVars
  <2> QED
    BY <2>1, <2>2, <2>3 DEF RpcInv
<1> QED
  BY <1>1, <1>2

\* The invariant the theorems below are read off.
THEOREM RpcInvAlways == RpcSpec => []RpcInv
<1>1. RpcInit => RpcInv
  BY InitRpc
<1>2. RpcInv /\ [RpcNext]_allVars => RpcInv'
  BY StepKeepsRpc
<1> QED
  BY <1>1, <1>2, PTL DEF RpcSpec

\* The handlers' state is always well typed; in particular a resolved number is
\* never negative, however the threads interleave (rpc.rs, db.rs: parse_number).
THEOREM RpcTypeOKAlways == RpcSpec => []RpcTypeOK
<1>1. RpcInv => RpcTypeOK
  BY DEF RpcInv, HandlerInv
<1> QED
  BY <1>1, RpcInvAlways, PTL

\* Guards are always held exactly where the handlers' scopes say: none is held
\* across a second lock, none leaks through an error, a panic or a poisoned
\* lock (rpc.rs: get_db!, get_mut_db!; db.rs: parse_number takes the guard).
THEOREM GuardsMatchScopesAlways == RpcSpec => []GuardsMatchScopes
<1>1. ASSUME RpcInv PROVE GuardsMatchScopes
  <2>1. readers \subseteq Workers
    BY <1>1 DEF RpcInv, HandlerInv, RpcTypeOK
  <2> QED
    BY <1>1, <2>1 DEF RpcInv, LockInv, GuardsMatchScopes
<1> QED
  BY <1>1, RpcInvAlways, PTL

-----------------------------------------------------------------------------
(* The store under the handlers                                            *)

\* All that the handlers do to the store are commits and estimates with the
\* values the store was proved for, however their threads interleave (rpc.rs:
\* send_raw_transaction, call and estimate_gas over get_mut_db!).
THEOREM HandlersRunStore == RpcSpec => StoreSpec
<1>1. RpcInit => DBInit
  BY DEF RpcInit
<1>2. RpcInv /\ [RpcNext]_allVars => [StoreStep]_dbVars
  BY StepStore DEF RpcInv, allVars
<1> QED
  BY <1>1, <1>2, RpcInvAlways, PTL DEF RpcSpec, StoreSpec

\* What is proved of the store alone holds under any number of threads: its
\* types, the chain and its index, the records, the replay of every snapshot, that
\* a contract with the right nonce is where its receipt says, and that nothing is
\* minted (db.rs under runtime.rs: RwLock).
THEOREM HandlersKeepStore ==
    RpcSpec => [](/\ DBTypeOK /\ SnapshotPerBlock /\ ChainLinked /\ HashesFresh
                  /\ HashIndexExact /\ ReceiptsSound /\ LastCommitHasReceipt
                  /\ SnapshotsReplay /\ DeployedAtReceiptAddress
                  /\ NoEtherExists)
<1>1. TypeInv => DBTypeOK /\ SnapshotPerBlock /\ ChainLinked /\ HashesFresh
  BY DEF TypeInv, ChainInv, Aligned
<1>2. RecordInv => HashIndexExact /\ ReceiptsSound /\ LastCommitHasReceipt
  BY DEF RecordInv, ReceiptInv, IndexInv
<1>3. ReplayInv => SnapshotsReplay
  BY DEF ReplayInv
<1>4. EtherInv => NoEtherExists
  BY DEF EtherInv
<1> QED
  BY <1>1, <1>2, <1>3, <1>4, HandlersRunStore, TypeInvAlways, RecordInvAlways,
     ReplayInvAlways, DeployedAtReceipt, EtherInvAlways, PTL

\* Under threads too, if no key's address is a contract's, the nonce of a sender
\* in a snapshot that no estimate can have influenced counts its transactions
\* (db.rs: submit_tx; rpc.rs: transaction_count).
THEOREM HandlersKeepNonces ==
    ASSUME SendersAreKeys
    PROVE  RpcSpec => []UntouchedNonceIsTxCount
<1>1. NonceInv => UntouchedNonceIsTxCount
  BY DEF NonceInv
<1>2. StoreSpec => []NonceInv
  BY NonceInvAlways
<1> QED
  BY <1>1, <1>2, HandlersRunStore, PTL

\* No handler rewrites history, whatever comes between its two locks: blocks and
\* index entries stay, and only an estimate changes a snapshot that is there.
THEOREM HandlersKeepHistory == RpcSpec => HistoryKept
BY HandlersRunStore, StoreKeepsHistory, PTL

\* The handlers implement the ledger: of all that clients may ask of any number
\* of threads, nothing but an accepted transaction adds to the log, and nothing
\* takes an entry away (rpc.rs: send_raw_transaction; db.rs: submit_tx).
THEOREM HandlersImplementLedger == RpcSpec => IsLedger
BY HandlersRunStore, UnboundedStoreImplementsLedger, PTL

-----------------------------------------------------------------------------
(* Waiting                                                                 *)

\* However many threads there are, one that waits for a guard waits for another
\* that has one and waits for nobody: the handlers' two locks make no circle
\* (rpc.rs: get_db!, get_mut_db!; parse_number gives its guard back).
THEOREM WaitersAlwaysHaveHolders == RpcSpec => []WaitersHaveHolders
<1>1. ASSUME RpcInv, NEW w \in Workers, Waits(w)
      PROVE  \E v \in Workers \ {w} :
                (v \in readers \/ writer = v) /\ pc[v] # "idle" /\ ~Waits(v)
  <2>1. pc[w] \in {"lock_number", "lock_serve"}
    BY <1>1 DEF Waits
  <2>2. ASSUME NEW v \in Workers, v \in readers \/ writer = v
        PROVE  pc[v] \in {"number", "serve"}
    BY <1>1, <2>2 DEF RpcInv, LockInv
  <2>3. \A v \in Workers : pc[v] \in {"number", "serve"} => v # w /\ pc[v] # "idle" /\ ~Waits(v)
    BY <2>1 DEF Waits
  <2>4. CASE writer # None
    <3>1. writer \in Workers
      BY <1>1, <2>4 DEF RpcInv, HandlerInv, RpcTypeOK
    <3> QED
      BY <2>2, <2>3, <3>1
  <2>5. CASE readers # {}
    <3>1. PICK v \in Workers : v \in readers
      BY <1>1, <2>5 DEF RpcInv, HandlerInv, RpcTypeOK
    <3> QED
      BY <2>2, <2>3, <3>1
  <2> QED
    BY <1>1, <2>4, <2>5 DEF Waits
<1>2. RpcInv => WaitersHaveHolders
  BY <1>1 DEF WaitersHaveHolders
<1> QED
  BY <1>2, RpcInvAlways, PTL

\* Whatever the snapshot and the request, an execution has an outcome.
LEMMA ExecuteHasOutcome ==
    ASSUME NEW accts, NEW sender, NEW value, NEW to
    PROVE  Execute(accts, sender, value, to) # {}
<1>1. TransactCreate(accts, sender, value) # {}
  BY DEF TransactCreate
<1>2. TransactCall(accts, sender, value, to) # {}
  <2>1. Runs(accts, Frame(accts, sender, value, to), to) # {}
    BY DEF Runs
  <2> QED
    BY <2>1 DEF TransactCall
<1> QED
  BY <1>1, <1>2 DEF Execute

\* The clock has a reading from the genesis block on.
ClockInv == RpcInv /\ Times # {}

\* What a busy worker asks for is there, unless it waits for a guard.
LEMMA BusyOrWaiting ==
    ASSUME ClockInv, NEW w \in Workers
    PROVE  CanStep(w) <=> (pc[w] # "idle" /\ ~Waits(w))
<1>1. pc[w] \in {"idle", "lock_number", "number", "lock_serve", "serve"}
  BY DEF ClockInv, RpcInv, HandlerInv, RpcTypeOK
<1>2. CASE pc[w] = "idle"
  BY <1>2 DEF CanStep, Serving
<1>3. CASE pc[w] \in {"lock_number", "number", "lock_serve"}
  BY <1>3 DEF CanStep, Serving, Waits
<1>4. CASE pc[w] = "serve"
  <2>1. req[w].method \in Methods
    BY <1>4, RpcAssumption DEF ClockInv, RpcInv, HandlerInv, RpcAssumption
  <2>2. CASE req[w].method \notin WriteMethods
    BY <1>4, <2>1, <2>2 DEF CanStep, Waits
  <2>3. CASE req[w].method = "sendRawTransaction"
    <3>1. Execute(Latest, req[w].tx[1].sender, req[w].tx[1].value, receiver(req[w].tx[1])) # {}
      BY ExecuteHasOutcome
    <3> QED
      BY <1>4, <2>3, <3>1 DEF ClockInv, CanStep, Serving, Waits
  <2>4. CASE req[w].method = "call"
    <3>1. StaticCall(accounts[number[w] + 1], req[w].to) # {}
      BY DEF StaticCall
    <3>2. call(number[w], req[w].to) # {}
      BY <3>1 DEF call
    <3> QED
      BY <1>4, <2>4, <3>2 DEF CanStep, Serving, Waits
  <2>5. CASE req[w].method = "estimateGas"
    <3>1. Execute(accounts[number[w] + 1], req[w].from, req[w].value, req[w].to) # {}
      BY ExecuteHasOutcome
    <3> QED
      BY <1>4, <2>5, <3>1 DEF CanStep, Serving, Waits
  <2> QED
    BY <2>2, <2>3, <2>4, <2>5 DEF WriteMethods
<1> QED
  BY <1>1, <1>2, <1>3, <1>4

\* The store was built with a reading of the clock.
THEOREM ClockInvAlways == RpcSpec => []ClockInv
<1>1. RpcInit => ClockInv
  BY InitRpc DEF ClockInv, RpcInit, DBInit
<1>2. ClockInv /\ [RpcNext]_allVars => ClockInv'
  BY StepKeepsRpc DEF ClockInv
<1> QED
  BY <1>1, <1>2, PTL DEF RpcSpec

\* A handler that has a request and does not wait for a guard always finds what its
\* next step asks for: the store never makes it wait, and neither does a poisoned
\* lock (rpc.rs: get_db!, get_mut_db!, and the unwraps panic instead of waiting).
THEOREM BusyHandlersCanStep ==
    RpcSpec => [](\A w \in Workers : CanStep(w) <=> (pc[w] # "idle" /\ ~Waits(w)))
<1>1. ClockInv => \A w \in Workers : CanStep(w) <=> (pc[w] # "idle" /\ ~Waits(w))
  BY BusyOrWaiting
<1> QED
  BY <1>1, ClockInvAlways, PTL

\* No deadlock, for any number of threads: as long as a request is not answered,
\* some handler can go on.
THEOREM NoDeadlock ==
    RpcSpec => []((\E w \in Workers : pc[w] # "idle") => \E w \in Workers : CanStep(w))
<1>1. ASSUME ClockInv, WaitersHaveHolders, NEW w \in Workers, pc[w] # "idle"
      PROVE  \E v \in Workers : CanStep(v)
  <2>1. CASE ~Waits(w)
    BY <1>1, <2>1, BusyOrWaiting
  <2>2. CASE Waits(w)
    <3>1. PICK v \in Workers : pc[v] # "idle" /\ ~Waits(v)
      BY <1>1, <2>2 DEF WaitersHaveHolders
    <3> QED
      BY <1>1, <3>1, BusyOrWaiting
  <2> QED
    BY <2>1, <2>2
<1>2. ClockInv /\ WaitersHaveHolders =>
         ((\E w \in Workers : pc[w] # "idle") => \E w \in Workers : CanStep(w))
  BY <1>1
<1> QED
  BY <1>2, ClockInvAlways, WaitersAlwaysHaveHolders, PTL

\* A step of a worker is one of five kinds, each of which brings it on.
LEMMA StepAdvances ==
    ASSUME HandlerInv, NEW w \in Workers, Step(w)
    PROVE  /\ StepsLeft(pc'[w]) < StepsLeft(pc[w])
           /\ \A v \in Workers \ {w} : pc'[v] = pc[v]
<1>1. pc \in [Workers -> {"idle", "lock_number", "number", "lock_serve", "serve"}]
  BY DEF HandlerInv, RpcTypeOK
<1>2. ASSUME NEW to, pc' = [pc EXCEPT ![w] = to], StepsLeft(to) < StepsLeft(pc[w])
      PROVE  /\ StepsLeft(pc'[w]) < StepsLeft(pc[w])
             /\ \A v \in Workers \ {w} : pc'[v] = pc[v]
  BY <1>1, <1>2
<1>3. /\ StepsLeft("lock_number") = 4 /\ StepsLeft("number") = 3
      /\ StepsLeft("lock_serve") = 2 /\ StepsLeft("serve") = 1 /\ StepsLeft("idle") = 0
  BY DEF StepsLeft
<1>4. CASE LockNumber(w)
  <2>1. PICK to \in {"number", "idle"} : pc[w] = "lock_number" /\ pc' = [pc EXCEPT ![w] = to]
    BY <1>4 DEF LockNumber, Lock, Return
  <2>2. StepsLeft(to) < StepsLeft("lock_number")
    BY <1>3
  <2> QED
    BY <1>2, <2>1, <2>2
<1>5. CASE LockServe(w)
  <2>1. PICK to \in {"serve", "idle"} : pc[w] = "lock_serve" /\ pc' = [pc EXCEPT ![w] = to]
    BY <1>5 DEF LockServe, Lock, Return
  <2>2. StepsLeft(to) < StepsLeft("lock_serve")
    BY <1>3
  <2> QED
    BY <1>2, <2>1, <2>2
<1>6. CASE ParseNumber(w)
  <2>1. PICK to \in {"lock_serve", "idle"} : pc[w] = "number" /\ pc' = [pc EXCEPT ![w] = to]
    BY <1>6 DEF ParseNumber, Answer, Return
  <2>2. StepsLeft(to) < StepsLeft("number")
    BY <1>3
  <2> QED
    BY <1>2, <2>1, <2>2
<1>7. CASE Serve(w)
  <2>1. pc[w] = "serve" /\ pc' = [pc EXCEPT ![w] = "idle"]
    BY <1>7, ServeEnds DEF Ends
  <2>2. StepsLeft("idle") < StepsLeft("serve")
    BY <1>3
  <2> QED
    BY <1>2, <2>1, <2>2
<1> QED
  BY <1>4, <1>5, <1>6, <1>7 DEF Step

\* A handler ends after four steps of its own at most, and no other worker's step
\* sets it back: with the theorem before, no request can wait in a circle or be
\* tried again for ever, for any number of threads.
THEOREM HandlersAlwaysAdvance == RpcSpec => HandlersAdvance
<1>1. RpcInv /\ [RpcNext]_allVars =>
         [\A w \in Workers :
             Step(w) => /\ StepsLeft(pc'[w]) < StepsLeft(pc[w])
                        /\ \A v \in Workers \ {w} : pc'[v] = pc[v]]_allVars
  BY StepAdvances DEF RpcInv
<1> QED
  BY <1>1, RpcInvAlways, PTL DEF RpcSpec, HandlersAdvance

-----------------------------------------------------------------------------
(* Numbers between the two locks                                           *)

NumberInv ==
    /\ RpcInv
    /\ \A w \in Workers : since[w] <= best_number
    /\ ResolvedNumberStaysValid
    /\ LatestIsRecent

\* Resolved numbers stay heights of the chain: between the two guards of a
\* handler others may only add heights.
LEMMA StepKeepsNumbers ==
    ASSUME NumberInv, [RpcNext]_allVars
    PROVE  NumberInv'
<1>1. RpcInv'
  BY StepKeepsRpc DEF NumberInv
<1>2. RpcNext => StoreStep \/ UNCHANGED dbVars
  BY StepStore DEF NumberInv, RpcInv
<1>3. /\ best_number \in Nat
      /\ best_number' \in Nat
      /\ best_number <= best_number'
  <2>1. StoreStep \/ UNCHANGED dbVars
    BY <1>2 DEF allVars
  <2> QED
    BY <2>1, StoreStepKeeps DEF NumberInv, RpcInv
<1>4. /\ pc \in [Workers -> {"idle", "lock_number", "number", "lock_serve", "serve"}]
      /\ req \in [Workers -> Requests \cup {NoRequest}]
      /\ number \in [Workers -> Nat]
      /\ since \in [Workers -> Nat]
      /\ \A w \in Workers : pc[w] # "idle" => req[w] \in Requests
      /\ \A w \in Workers : pc[w] = "number" => req[w].method \in TwoLocks
  BY DEF NumberInv, RpcInv, HandlerInv, RpcTypeOK
\* A worker that moves on without a new number keeps it valid.
<1>5. ASSUME NEW w \in Workers,
             UNCHANGED <<req, number, since>>,
             \E to : /\ pc' = [pc EXCEPT ![w] = to]
                     /\ to \in {"lock_serve", "serve"} => pc[w] \in {"lock_serve", "serve"}
      PROVE  NumberInv'
  <2>1. \A v \in Workers :
           pc'[v] \in {"lock_serve", "serve"} => pc[v] \in {"lock_serve", "serve"}
    BY <1>4, <1>5
  <2> QED
    BY <1>1, <1>3, <1>4, <1>5, <2>1
    DEF NumberInv, ResolvedNumberStaysValid, LatestIsRecent, TwoLocked
<1>6. ASSUME NEW w \in Workers, NEW r \in Requests, Receives(w, r), UNCHANGED dbVars
      PROVE  NumberInv'
  <2>1. best_number' = best_number
    BY <1>6 DEF dbVars, best_number
  <2>2. \A v \in Workers : since'[v] <= best_number'
    BY <1>3, <1>4, <1>6, <2>1 DEF Receives, NumberInv
  <2>3. \A v \in Workers : TwoLocked(v)' /\ pc'[v] \in {"lock_serve", "serve"} =>
           /\ TwoLocked(v) /\ pc[v] \in {"lock_serve", "serve"}
           /\ UNCHANGED <<req[v], number[v], since[v]>>
    BY <1>4, <1>6 DEF Receives, TwoLocked
  <2> QED
    BY <1>1, <1>3, <1>4, <2>1, <2>2, <2>3
    DEF NumberInv, ResolvedNumberStaysValid, LatestIsRecent
<1>7. ASSUME NEW w \in Workers, FindsNumber(w), UNCHANGED dbVars
      PROVE  NumberInv'
  <2>1. req[w] \in Requests /\ req[w].method \in TwoLocks /\ Resolves(req[w].num)
    BY <1>4, <1>7 DEF FindsNumber
  <2> DEFINE n == parse_number(req[w].num)
  <2>2. /\ n \in Nat
        /\ req[w].num.tag # "Num" => n <= best_number
        /\ req[w].num.tag = "Latest" => n = best_number
    BY <2>1, ResolvedNumber DEF NumberInv, RpcInv
  <2> HIDE DEF n
  <2>3. /\ number' = [number EXCEPT ![w] = n]
        /\ UNCHANGED <<req, since>>
        /\ best_number' = best_number
        /\ \A v \in Workers : v # w => pc'[v] = pc[v]
    BY <1>7 DEF FindsNumber, dbVars, best_number, n
  <2> QED
    BY <1>1, <1>3, <1>4, <2>2, <2>3
    DEF NumberInv, ResolvedNumberStaysValid, LatestIsRecent, TwoLocked
<1>8. ASSUME NEW w \in Workers, Serve(w)
      PROVE  NumberInv'
  BY <1>5, <1>8, ServeEnds DEF Ends
<1>9. CASE UNCHANGED allVars
  BY <1>1, <1>9
  DEF NumberInv, ResolvedNumberStaysValid, LatestIsRecent, TwoLocked, best_number,
      allVars, rpcVars, dbVars
<1>10. ASSUME NEW w \in Workers,
              \/ Reads(w, "lock_number", "number")
              \/ Reads(w, "lock_serve", "serve")
              \/ Writes(w)
              \/ IsPoisoned(w)
              \/ FindsNone(w)
       PROVE  NumberInv'
  BY <1>5, <1>10 DEF Reads, Writes, IsPoisoned, FindsNone
<1> QED
  BY <1>6, <1>7, <1>8, <1>9, <1>10, HandlerSteps

\* At the start nothing is resolved.
LEMMA InitNumbers ==
    ASSUME RpcInit
    PROVE  NumberInv
<1>1. RpcInv /\ DBInit
  BY InitRpc DEF RpcInit
<1>2. best_number = 0
  BY <1>1, InitAligned DEF best_number
<1>3. \A w \in Workers : since[w] = 0 /\ pc[w] = "idle"
  BY DEF RpcInit
<1> QED
  BY <1>1, <1>2, <1>3 DEF NumberInv, ResolvedNumberStaysValid, LatestIsRecent, TwoLocked

\* The numbers that handlers resolved under their first guard and use under the
\* second (rpc.rs, parse_number) are all good in every reachable state.
THEOREM NumberInvAlways == RpcSpec => []NumberInv
<1>1. RpcInit => NumberInv
  BY InitNumbers
<1>2. NumberInv /\ [RpcNext]_allVars => NumberInv'
  BY StepKeepsNumbers
<1> QED
  BY <1>1, <1>2, PTL DEF RpcSpec

\* A number resolved from a tag or a hash always names a stored snapshot until
\* the request is served, however many commits come between the two locks, so
\* only a client's own number can make call or estimate_gas panic (db.rs).
THEOREM ResolvedNumberAlwaysValid == RpcSpec => []ResolvedNumberStaysValid
<1>1. NumberInv => ResolvedNumberStaysValid
  BY DEF NumberInv
<1> QED
  BY <1>1, NumberInvAlways, PTL

\* What is answered for the latest block is never older than the chain was when
\* the request arrived (db.rs: parse_number).
THEOREM LatestIsAlwaysRecent == RpcSpec => []LatestIsRecent
<1>1. NumberInv => LatestIsRecent
  BY DEF NumberInv
<1> QED
  BY <1>1, NumberInvAlways, PTL

-----------------------------------------------------------------------------
(* Panics                                                                  *)

PoisonInv ==
    /\ RpcInv
    /\ \A w \in Workers : reply[w].status = "dropped" => poisoned
    /\ poisoned => \A w \in Workers :
                      ~(pc[w] = "serve" /\ req[w].method \in WriteMethods)

\* A panic under the write guard leaves the lock poisoned, and then nobody writes.
LEMMA StepKeepsPoison ==
    ASSUME PoisonInv, [RpcNext]_allVars
    PROVE  PoisonInv'
<1>1. RpcInv'
  BY StepKeepsRpc DEF PoisonInv
<1>2. /\ pc \in [Workers -> {"idle", "lock_number", "number", "lock_serve", "serve"}]
      /\ req \in [Workers -> Requests \cup {NoRequest}]
      /\ reply = [w \in Workers |-> reply[w]]
      /\ \A w \in Workers :
            writer = w <=> pc[w] = "serve" /\ req[w].method \in WriteMethods
  BY DEF PoisonInv, RpcInv, HandlerInv, RpcTypeOK, LockInv
<1>3. ASSUME NEW w \in Workers, NEW r \in Requests, Receives(w, r)
      PROVE  PoisonInv'
  BY <1>1, <1>2, <1>3 DEF PoisonInv, Receives, lockVars, NoReply, Error
<1>4. ASSUME NEW w \in Workers,
             \/ Reads(w, "lock_number", "number")
             \/ Reads(w, "lock_serve", "serve")
             \/ Writes(w)
      PROVE  PoisonInv'
  BY <1>1, <1>2, <1>4 DEF PoisonInv, Reads, Writes
<1>5. ASSUME NEW w \in Workers, IsPoisoned(w) \/ FindsNone(w)
      PROVE  PoisonInv'
  BY <1>1, <1>2, <1>5 DEF PoisonInv, IsPoisoned, FindsNone, Error, lockVars
<1>6. ASSUME NEW w \in Workers, FindsNumber(w)
      PROVE  PoisonInv'
  BY <1>1, <1>2, <1>6 DEF PoisonInv, FindsNumber
<1>7. ASSUME NEW w \in Workers, Serve(w)
      PROVE  PoisonInv'
  <2>1. PICK answer : Ends(w, answer)
    BY <1>7, ServeEnds
  <2>2. /\ \A v \in Workers : pc'[v] = IF v = w THEN "idle" ELSE pc[v]
        /\ \A v \in Workers : reply'[v] = IF v = w THEN answer ELSE reply[v]
        /\ req' = req
    BY <1>2, <2>1 DEF Ends
  <2>3. CASE answer.status # "dropped" /\ poisoned' = poisoned
    BY <1>1, <2>2, <2>3 DEF PoisonInv
  <2>4. CASE req[w].method \in WriteMethods /\ poisoned' = (poisoned \/ writer = w)
    <3>1. writer = w
      BY <1>2, <2>1, <2>4 DEF Ends
    <3>2. poisoned'
      BY <2>4, <3>1
    <3>3. ASSUME NEW v \in Workers, v # w
          PROVE  ~(pc[v] = "serve" /\ req[v].method \in WriteMethods)
      BY <1>2, <3>1, <3>3
    <3> QED
      BY <1>1, <2>2, <3>2, <3>3 DEF PoisonInv
  <2> QED
    BY <2>1, <2>3, <2>4 DEF Ends
<1>8. CASE UNCHANGED allVars
  BY <1>1, <1>8 DEF PoisonInv, allVars, lockVars, rpcVars
<1> QED
  BY <1>3, <1>4, <1>5, <1>6, <1>7, <1>8, HandlerSteps

\* Once a handler was unwound by a panic under the write guard, no step of any
\* worker ever changes the store again (runtime.rs: RwLock; rpc.rs: get_mut_db!).
THEOREM NoChangeOncePoisonedAlways == RpcSpec => NoChangeOncePoisoned
<1>1. RpcInit => PoisonInv
  <2>1. ASSUME RpcInit
        PROVE  RpcInv /\ ~poisoned /\ \A w \in Workers : reply[w].status = "none"
    <3>1. reply = [w \in Workers |-> NoReply] /\ ~poisoned
      BY <2>1 DEF RpcInit
    <3> QED
      BY <2>1, <3>1, InitRpc DEF NoReply
  <2> QED
    BY <2>1 DEF PoisonInv
<1>2. PoisonInv /\ [RpcNext]_allVars => PoisonInv'
  BY StepKeepsPoison
<1>3. PoisonInv /\ [RpcNext]_allVars =>
         [ poisoned \/ (\E w \in Workers : reply[w].status = "dropped")
             => UNCHANGED dbVars ]_allVars
  BY StepStore DEF PoisonInv, RpcInv
<1> QED
  BY <1>1, <1>2, <1>3, PTL DEF RpcSpec, NoChangeOncePoisoned

\* An unwound handler has left, and asked for a height that no block had when its
\* request came.
PanicInv ==
    /\ NumberInv
    /\ \A w \in Workers :
          reply[w].status = "dropped" =>
              /\ pc[w] = "idle"
              /\ reply[w].req.num.tag = "Num"
              /\ since[w] < number[w]

\* The one way to unwind a handler that serves is a number beyond the chain.
LEMMA ServeDrops ==
    ASSUME HandlerInv, NEW w \in Workers, Serve(w), reply'[w].status = "dropped"
    PROVE  req[w].method \in TwoLocks /\ number[w] > best_number
<1>1. reply = [v \in Workers |-> reply[v]]
  BY DEF HandlerInv
<1>2. ASSUME NEW value, Answer(w, Ok(req[w], value))
      PROVE  FALSE
  BY <1>1, <1>2 DEF Answer, Return, Ok
<1>3. ASSUME NEW message, Answer(w, Error(req[w], message))
      PROVE  FALSE
  BY <1>1, <1>3 DEF Answer, Return, Error
<1>4. CASE BlockNumber(w)
  BY <1>2, <1>4 DEF BlockNumber
<1>5. CASE BlockByNumber(w)
  BY <1>2, <1>5 DEF BlockByNumber
<1>6. CASE TransactionReceipt(w)
  BY <1>2, <1>6 DEF TransactionReceipt
<1>7. CASE Balance(w)
  BY <1>2, <1>3, <1>7 DEF Balance
<1>8. CASE TransactionCount(w)
  BY <1>2, <1>8 DEF TransactionCount
<1>9. CASE SendRawTransaction(w)
  BY <1>2, <1>3, <1>9 DEF SendRawTransaction
<1>10. CASE Call(w)
  BY <1>2, <1>3, <1>10 DEF Call, Serving, TwoLocks, NumberMethods
<1>11. CASE EstimateGasOf(w)
  BY <1>2, <1>11 DEF EstimateGasOf, Serving, TwoLocks, NumberMethods
<1> QED
  BY <1>4, <1>5, <1>6, <1>7, <1>8, <1>9, <1>10, <1>11 DEF Serve

\* A number that was resolved is on the chain, so the one that unwinds a handler
\* is the client's own, and the chain was no higher when the request came.
LEMMA StepKeepsPanics ==
    ASSUME PanicInv, [RpcNext]_allVars
    PROVE  PanicInv'
<1>1. NumberInv'
  BY StepKeepsNumbers DEF PanicInv
<1>2. /\ pc \in [Workers -> {"idle", "lock_number", "number", "lock_serve", "serve"}]
      /\ number \in [Workers -> Nat]
      /\ since \in [Workers -> Nat]
      /\ reply = [w \in Workers |-> reply[w]]
      /\ best_number \in Nat
  BY HeightIsNat DEF PanicInv, NumberInv, RpcInv, HandlerInv, RpcTypeOK
<1> DEFINE MadeUp(v) ==
           reply'[v].status = "dropped" =>
               /\ pc'[v] = "idle"
               /\ reply'[v].req.num.tag = "Num"
               /\ since'[v] < number'[v]
<1>3. ASSUME NEW v \in Workers, UNCHANGED <<pc[v], reply[v], number[v], since[v]>>
      PROVE  MadeUp(v)
  BY <1>3 DEF PanicInv
<1>4. ASSUME NEW v \in Workers, reply'[v].status # "dropped"
      PROVE  MadeUp(v)
  BY <1>4
<1> HIDE DEF MadeUp
<1>5. ASSUME NEW w \in Workers, NEW r \in Requests, Receives(w, r)
      PROVE  \A v \in Workers : MadeUp(v)
  BY <1>2, <1>3, <1>4, <1>5 DEF Receives, NoReply, Error
<1>6. ASSUME NEW w \in Workers, IsPoisoned(w) \/ FindsNone(w)
      PROVE  \A v \in Workers : MadeUp(v)
  BY <1>2, <1>3, <1>4, <1>6 DEF IsPoisoned, FindsNone, Error
<1>7. ASSUME NEW w \in Workers,
             \/ Reads(w, "lock_number", "number")
             \/ Reads(w, "lock_serve", "serve")
             \/ Writes(w)
             \/ FindsNumber(w)
      PROVE  \A v \in Workers : MadeUp(v)
  <2>1. reply' = reply /\ since' = since /\ reply[w].status # "dropped"
    BY <1>7 DEF PanicInv, Reads, Writes, FindsNumber
  <2>2. \A v \in Workers : v # w => pc'[v] = pc[v] /\ number'[v] = number[v]
    BY <1>2, <1>7 DEF Reads, Writes, FindsNumber
  <2> QED
    BY <1>3, <1>4, <2>1, <2>2
<1>8. ASSUME NEW w \in Workers, Serve(w)
      PROVE  \A v \in Workers : MadeUp(v)
  <2>1. PICK answer : Ends(w, answer)
    BY <1>8, ServeEnds
  <2>2. /\ reply'[w] = answer /\ answer.req = req[w]
        /\ pc[w] = "serve" /\ pc'[w] = "idle"
        /\ UNCHANGED <<number, since>>
        /\ \A v \in Workers : v # w => reply'[v] = reply[v] /\ pc'[v] = pc[v]
    BY <1>2, <2>1 DEF Ends
  <2>3. ASSUME answer.status = "dropped"
        PROVE  req[w].num.tag = "Num" /\ since[w] < number[w]
    <3>1. req[w].method \in TwoLocks /\ number[w] > best_number
      BY <1>8, <2>2, <2>3, ServeDrops DEF PanicInv, NumberInv, RpcInv
    <3>2. number[w] \in Nat /\ since[w] \in Nat /\ since[w] <= best_number
      BY <1>2 DEF PanicInv, NumberInv
    <3>3. ASSUME req[w].num.tag # "Num" PROVE number[w] <= best_number
      BY <2>2, <3>1, <3>3 DEF PanicInv, NumberInv, ResolvedNumberStaysValid, TwoLocked
    <3> QED
      BY <1>2, <3>1, <3>2, <3>3
  <2>4. MadeUp(w)
    BY <2>2, <2>3 DEF MadeUp
  <2> QED
    BY <1>3, <2>2, <2>4
<1>9. ASSUME UNCHANGED allVars
      PROVE  \A v \in Workers : MadeUp(v)
  BY <1>3, <1>9 DEF allVars, rpcVars
<1>10. \A v \in Workers : MadeUp(v)
  BY <1>5, <1>6, <1>7, <1>8, <1>9, HandlerSteps
<1> QED
  BY <1>1, <1>10 DEF PanicInv, MadeUp

\* Whatever the threads do, only a number that the client made up itself, and that
\* no block had when its request arrived, unwinds a handler and poisons the lock
\* (rpc.rs: call, estimate_gas; db.rs: the unwraps of get and get_mut).
THEOREM PanicsAlwaysMadeUp == RpcSpec => []PanicsAreMadeUp
<1>1. RpcInit => PanicInv
  <2>1. ASSUME RpcInit
        PROVE  \A w \in Workers : reply[w].status = "none"
    <3>1. reply = [w \in Workers |-> NoReply]
      BY <2>1 DEF RpcInit
    <3> QED
      BY <3>1 DEF NoReply
  <2> QED
    BY <2>1, InitNumbers DEF PanicInv
<1>2. PanicInv /\ [RpcNext]_allVars => PanicInv'
  BY StepKeepsPanics
<1>3. PanicInv => PanicsAreMadeUp
  BY DEF PanicInv, PanicsAreMadeUp
<1> QED
  BY <1>1, <1>2, <1>3, PTL DEF RpcSpec

-----------------------------------------------------------------------------
(* What a client was told stays true                                       *)

\* The four claims about an answer, of a given state of the store.
Accepted(records, answer) ==
    (answer.status = "ok" /\ answer.req.method = "sendRawTransaction") =>
        /\ answer.value \in DOMAIN records
        /\ records[answer.value].transaction = answer.req.tx[1]

Shown(chain, index, best, answer, from) ==
    (answer.status = "ok" /\ answer.req.method = "getBlockByNumber") =>
        LET block == answer.value
        IN  /\ block.number \in 0 .. best
            /\ answer.req.num.tag = "Latest" => from <= block.number
            /\ block.hash \in DOMAIN index
            /\ index[block.hash] = block.number
            /\ RpcBlock(chain[block.number + 1].header) = block

Counted(snapshots, rewritten, best, answer, n, from) ==
    ( /\ answer.status = "ok"
      /\ answer.req.method = "getTransactionCount"
      /\ answer.req.num.tag = "Num" => n <= from ) =>
        /\ n \in 0 .. best
        /\ n \notin rewritten =>
              answer.value = basic(snapshots[n + 1], answer.req.address).nonce

Receipted(chain, index, best, answer) ==
    ( /\ answer.status = "ok"
      /\ answer.req.method = "getTransactionReceipt"
      /\ answer.value # None ) =>
        LET shown == answer.value
            block == chain[shown.block_number + 1]
        IN  /\ shown.block_number \in 1 .. best
            /\ shown.block_hash \in DOMAIN index
            /\ index[shown.block_hash] = shown.block_number
            /\ TxHash(block.transactions[shown.transaction_index + 1]) = answer.req.hash
            /\ block.header.state_root = shown.state_root

AnswerInv ==
    /\ NumberInv
    /\ \A w \in Workers :
          /\ reply[w].status = "ok" => pc[w] = "idle"
          /\ Accepted(infos, reply[w])
          /\ Shown(blocks, hash_index, best_number, reply[w], since[w])
          /\ Counted(accounts, estimated, best_number, reply[w], number[w], since[w])
          /\ Receipted(blocks, hash_index, best_number, reply[w])

\* What no change of the store takes away.
LEMMA StoreOnlyGrows ==
    ASSUME StoreInv, StoreStep \/ UNCHANGED dbVars
    PROVE  /\ best_number \in Nat /\ best_number' \in Nat
           /\ best_number <= best_number'
           /\ \A n \in 0 .. best_number : blocks'[n + 1] = blocks[n + 1]
           /\ \A h \in DOMAIN hash_index :
                 h \in DOMAIN hash_index' /\ hash_index'[h] = hash_index[h]
           /\ \A n \in (0 .. best_number) \ estimated' : accounts'[n + 1] = accounts[n + 1]
           /\ estimated \subseteq estimated'
           /\ \A h \in DOMAIN infos :
                 h \in DOMAIN infos' /\ infos'[h].transaction = infos[h].transaction
<1> DEFINE Grows ==
           /\ \A n \in 0 .. best_number : blocks'[n + 1] = blocks[n + 1]
           /\ \A h \in DOMAIN hash_index :
                 h \in DOMAIN hash_index' /\ hash_index'[h] = hash_index[h]
           /\ \A n \in (0 .. best_number) \ estimated' : accounts'[n + 1] = accounts[n + 1]
           /\ estimated \subseteq estimated'
           /\ \A h \in DOMAIN infos :
                 h \in DOMAIN infos' /\ infos'[h].transaction = infos[h].transaction
<1>1. best_number \in Nat /\ best_number' \in Nat /\ best_number <= best_number'
  BY StoreStepKeeps
<1>2. DOMAIN blocks = 1 .. best_number + 1
  BY HeightIsNat
<1>3. ASSUME UNCHANGED dbVars
      PROVE  Grows
  BY <1>3 DEF dbVars
<1>4. ASSUME NEW tx \in SignedTxs, NEW now \in Times, NEW out, CommitTx(tx, now, out)
      PROVE  Grows
  <2>1. KeepsHistory
    BY <1>4, CommitKeepsHistory DEF StoreInv
  <2>2. \A n \in 0 .. best_number : n + 1 \in DOMAIN blocks
    BY <1>1, <1>2
  <2>3. \A h \in DOMAIN hash_index : h \in DOMAIN hash_index'
    BY <1>4, CommitKeepsIndex DEF StoreInv, ReceiptInv
  <2>4. estimated' = estimated
    BY <1>4 DEF CommitTx
  <2>5. ASSUME NEW h \in DOMAIN infos
        PROVE  h \in DOMAIN infos' /\ infos'[h].transaction = infos[h].transaction
    <3> DEFINE new == TransactionInfo(tx, NewBlock(<<tx>>, now), BestBlock, out.logs)
    <3>1. infos' = Put(infos, TxHash(tx), new)
      BY <1>4 DEF CommitTx
    <3>2. new.transaction = tx
      BY DEF TransactionInfo
    <3> HIDE DEF new
    <3>3. TxHash(infos[h].transaction) = h
      BY DEF StoreInv, ReceiptInv, ReceiptsSound
    <3>4. CASE h = TxHash(tx)
      <4>1. infos[h].transaction = tx
        BY <3>3, <3>4 DEF TxHash, Keccak
      <4> QED
        BY <3>1, <3>2, <3>4, <4>1, PutIsMap
    <3>5. CASE h # TxHash(tx)
      BY <3>1, <3>5, PutIsMap
    <3> QED
      BY <3>4, <3>5
  <2> QED
    BY <2>1, <2>2, <2>3, <2>4, <2>5 DEF KeepsHistory
<1>5. ASSUME NEW n \in 0 .. best_number, NEW value, NEW caller, NEW to, NEW out,
             EstimateGas(n, caller, value, to, out)
      PROVE  Grows
  <2>1. KeepsHistory
    BY <1>5, EstimateKeepsHistory DEF StoreInv
  <2>2. UNCHANGED <<blocks, hash_index, infos>> /\ estimated \subseteq estimated'
    BY <1>5 DEF EstimateGas
  <2> QED
    BY <2>1, <2>2 DEF KeepsHistory
<1>6. Grows
  BY <1>3, <1>4, <1>5 DEF StoreStep
<1> QED
  BY <1>1, <1>6

\* So a true answer stays true whatever the handlers do to the store.
LEMMA AnswersStayTrue ==
    ASSUME StoreInv, StoreStep \/ UNCHANGED dbVars, NEW answer, NEW n \in Nat, NEW from \in Nat
    PROVE  /\ Accepted(infos, answer) => Accepted(infos', answer)
           /\ Shown(blocks, hash_index, best_number, answer, from) =>
                 Shown(blocks', hash_index', best_number', answer, from)
           /\ Counted(accounts, estimated, best_number, answer, n, from) =>
                 Counted(accounts', estimated', best_number', answer, n, from)
           /\ Receipted(blocks, hash_index, best_number, answer) =>
                 Receipted(blocks', hash_index', best_number', answer)
<1>1. /\ best_number \in Nat /\ best_number' \in Nat
      /\ best_number <= best_number'
      /\ \A m \in 0 .. best_number : blocks'[m + 1] = blocks[m + 1]
      /\ \A h \in DOMAIN hash_index :
            h \in DOMAIN hash_index' /\ hash_index'[h] = hash_index[h]
      /\ \A m \in (0 .. best_number) \ estimated' : accounts'[m + 1] = accounts[m + 1]
      /\ estimated \subseteq estimated'
      /\ \A h \in DOMAIN infos :
            h \in DOMAIN infos' /\ infos'[h].transaction = infos[h].transaction
  BY StoreOnlyGrows
<1>2. Accepted(infos, answer) => Accepted(infos', answer)
  BY <1>1 DEF Accepted
<1>3. Shown(blocks, hash_index, best_number, answer, from) =>
         Shown(blocks', hash_index', best_number', answer, from)
  BY <1>1 DEF Shown
<1>4. Counted(accounts, estimated, best_number, answer, n, from) =>
         Counted(accounts', estimated', best_number', answer, n, from)
  BY <1>1 DEF Counted
<1>5. ASSUME Receipted(blocks, hash_index, best_number, answer)
      PROVE  Receipted(blocks', hash_index', best_number', answer)
  <2> SUFFICES ASSUME answer.status = "ok",
                      answer.req.method = "getTransactionReceipt",
                      answer.value # None
               PROVE  Receipted(blocks', hash_index', best_number', answer)
    BY DEF Receipted
  <2> DEFINE height == answer.value.block_number
  <2>1. /\ height \in 1 .. best_number
        /\ answer.value.block_hash \in DOMAIN hash_index
        /\ hash_index[answer.value.block_hash] = height
    BY <1>5 DEF Receipted
  <2>2. height \in 1 .. best_number' /\ blocks'[height + 1] = blocks[height + 1]
    BY <1>1, <2>1
  <2> QED
    BY <1>1, <1>5, <2>1, <2>2 DEF Receipted
<1> QED
  BY <1>2, <1>3, <1>4, <1>5

\* And the answers that handlers give are true when they are given.
LEMMA NewAnswersAreTrue ==
    ASSUME NumberInv, NEW w \in Workers, Serve(w),
           NEW answer, Ends(w, answer)
    PROVE  /\ Accepted(infos', answer)
           /\ Shown(blocks', hash_index', best_number', answer, since[w])
           /\ Counted(accounts', estimated', best_number', answer, number[w], since[w])
           /\ Receipted(blocks', hash_index', best_number', answer)
<1>1. answer = reply'[w] /\ answer.req = req[w] /\ pc[w] = "serve"
  <2>1. w \in DOMAIN reply
    BY DEF NumberInv, RpcInv, HandlerInv
  <2> QED
    BY <2>1 DEF Ends
<1>2. ASSUME req[w].method = "sendRawTransaction", answer.status = "ok"
      PROVE  /\ answer.value \in DOMAIN infos'
             /\ infos'[answer.value].transaction = answer.req.tx[1]
  <2>1. SendRawTransaction(w)
    BY <1>2 DEF Serve, Serving, BlockNumber, BlockByNumber, TransactionReceipt, Balance,
                TransactionCount, Call, EstimateGasOf
  <2> DEFINE tx == req[w].tx[1]
  <2>2. PICK now \in Times : \E out \in Execute(Latest, tx.sender, tx.value, receiver(tx)) :
              /\ SubmitTx(tx, now, out)
              /\ Answer(w, IF out.ok THEN Ok(req[w], TxHash(tx))
                                     ELSE Error(req[w], "refused"))
    BY <2>1 DEF SendRawTransaction
  <2>3. PICK out \in Execute(Latest, tx.sender, tx.value, receiver(tx)) :
              /\ SubmitTx(tx, now, out)
              /\ Answer(w, IF out.ok THEN Ok(req[w], TxHash(tx))
                                     ELSE Error(req[w], "refused"))
    BY <2>2
  <2>4. answer = IF out.ok THEN Ok(req[w], TxHash(tx)) ELSE Error(req[w], "refused")
    <3>1. w \in DOMAIN reply
      BY DEF NumberInv, RpcInv, HandlerInv
    <3> QED
      BY <1>1, <2>3, <3>1 DEF Answer, Return
  <2>5. out.ok /\ answer.value = TxHash(tx)
    BY <1>2, <2>4 DEF Ok, Error
  <2>6. CommitTx(tx, now, out)
    BY <2>3, <2>5 DEF SubmitTx
  <2> DEFINE new == TransactionInfo(tx, NewBlock(<<tx>>, now), BestBlock, out.logs)
  <2>7. infos' = Put(infos, TxHash(tx), new) /\ new.transaction = tx
    BY <2>6 DEF CommitTx, TransactionInfo
  <2> HIDE DEF new
  <2>8. TxHash(tx) \in DOMAIN infos' /\ infos'[TxHash(tx)] = new
    BY <2>7, PutIsMap
  <2> QED
    BY <1>1, <2>5, <2>7, <2>8
<1>3. ASSUME req[w].method = "getBlockByNumber", answer.status = "ok"
      PROVE  Shown(blocks', hash_index', best_number', answer, since[w])
  <2>1. BlockByNumber(w)
    BY <1>3 DEF Serve, Serving, BlockNumber, SendRawTransaction, TransactionReceipt, Balance,
                TransactionCount, Call, EstimateGasOf
  <2>2. answer = Ok(req[w], RpcBlock(BestBlock.header)) /\ UNCHANGED dbVars
    <3>1. w \in DOMAIN reply
      BY DEF NumberInv, RpcInv, HandlerInv
    <3> QED
      BY <1>1, <2>1, <3>1 DEF BlockByNumber, Answer, Return
  <2>3. best_number \in Nat /\ BestBlock = blocks[best_number + 1]
    <3>1. best_number \in Nat /\ Len(blocks) = best_number + 1
      <4>1. Len(blocks) \in Nat \ {0}
        BY AppendIsSeq DEF NumberInv, RpcInv, StoreInv, TypeInv, ChainInv, Aligned, SnapshotPerBlock
      <4> QED
        BY <4>1 DEF best_number
    <3> QED
      BY <3>1 DEF BestBlock
  <2>4. /\ BestBlock.header.number = best_number
        /\ HeaderHash(BestBlock.header) \in DOMAIN hash_index
        /\ hash_index[HeaderHash(BestBlock.header)] = best_number
    <3>1. best_number \in 0 .. best_number /\ best_number + 1 \in DOMAIN blocks
      BY <2>3, HeightIsNat DEF NumberInv, RpcInv
    <3> QED
      BY <2>3, <3>1 DEF NumberInv, RpcInv, StoreInv, TypeInv, ChainInv, ChainLinked,
                        ReceiptInv, IndexInv, HashIndexExact
  <2>5. since[w] \in Nat /\ since[w] <= best_number
    BY DEF NumberInv, RpcInv, HandlerInv, RpcTypeOK
  <2> DEFINE block == RpcBlock(BestBlock.header)
  <2>6. block.number = best_number /\ block.hash = HeaderHash(BestBlock.header)
    BY <2>4 DEF RpcBlock
  <2> HIDE DEF block
  <2>7. answer.value = block
    BY <2>2 DEF Ok, block
  <2>8. Shown(blocks, hash_index, best_number, answer, since[w])
    BY <2>3, <2>4, <2>5, <2>6, <2>7 DEF Shown, block
  <2>9. best_number' = best_number /\ blocks' = blocks /\ hash_index' = hash_index
    BY <2>2 DEF dbVars, best_number
  <2> QED
    BY <2>8, <2>9
<1>4. ASSUME req[w].method = "getTransactionCount", answer.status = "ok",
             req[w].num.tag = "Num" => number[w] <= since[w]
      PROVE  /\ number[w] \in 0 .. best_number'
             /\ answer.value = basic(accounts'[number[w] + 1], answer.req.address).nonce
  <2>1. TransactionCount(w)
    BY <1>4 DEF Serve, Serving, BlockNumber, SendRawTransaction, TransactionReceipt, Balance,
                BlockByNumber, Call, EstimateGasOf
  <2>2. /\ answer = Ok(req[w], IF number[w] > best_number THEN 0
                               ELSE basic(accounts[number[w] + 1], req[w].address).nonce)
        /\ UNCHANGED dbVars
    <3>1. w \in DOMAIN reply
      BY DEF NumberInv, RpcInv, HandlerInv
    <3> QED
      BY <1>1, <2>1, <3>1 DEF TransactionCount, Answer, Return
  <2>3. number[w] \in 0 .. best_number
    <3>1. number[w] \in Nat /\ since[w] \in Nat /\ since[w] <= best_number
      BY DEF NumberInv, RpcInv, HandlerInv, RpcTypeOK
    <3>2. best_number \in Nat
      BY HeightIsNat DEF NumberInv, RpcInv
    <3>3. CASE req[w].num.tag = "Num"
      BY <1>4, <3>1, <3>2, <3>3
    <3>4. CASE req[w].num.tag # "Num"
      <4>1. TwoLocked(w)
        BY <1>1, <1>4 DEF TwoLocked, TwoLocks, NumberMethods
      <4> QED
        BY <1>1, <3>1, <3>2, <3>4, <4>1 DEF NumberInv, ResolvedNumberStaysValid
    <3> QED
      BY <3>3, <3>4
  <2>4. best_number \in Nat
    BY HeightIsNat DEF NumberInv, RpcInv
  <2>5. answer.value = basic(accounts[number[w] + 1], req[w].address).nonce
    BY <2>2, <2>3, <2>4 DEF Ok
  <2>6. best_number' = best_number /\ accounts' = accounts
    BY <2>2 DEF dbVars, best_number
  <2> QED
    BY <1>1, <2>3, <2>5, <2>6
<1>5. ASSUME req[w].method = "getTransactionReceipt", answer.status = "ok",
             answer.value # None
      PROVE  Receipted(blocks', hash_index', best_number', answer)
  <2> DEFINE hash == req[w].hash
             info == infos[hash]
             n    == hash_index[info.block_hash]
  <2>1. TransactionReceipt(w)
    BY <1>5 DEF Serve, Serving, BlockNumber, SendRawTransaction, BlockByNumber, Balance,
                TransactionCount, Call, EstimateGasOf
  <2>2. answer = Ok(req[w], receipt(hash)) /\ UNCHANGED dbVars
    <3>1. w \in DOMAIN reply
      BY DEF NumberInv, RpcInv, HandlerInv
    <3> QED
      BY <1>1, <2>1, <3>1 DEF TransactionReceipt, Answer, Return
  <2>3. answer.value = receipt(hash) /\ hash \in DOMAIN infos
    BY <1>5, <2>2 DEF Ok, receipt
  <2>4. /\ answer.value.block_number = n
        /\ answer.value.block_hash = info.block_hash
        /\ answer.value.transaction_index = info.index
        /\ answer.value.state_root = blocks[n + 1].header.state_root
    BY <2>3 DEF receipt
  <2>5. /\ info.block_hash \in DOMAIN hash_index
        /\ n \in 1 .. best_number
        /\ TxHash(info.transaction) = hash
        /\ blocks[n + 1].transactions[info.index + 1] = info.transaction
    BY <2>3 DEF NumberInv, RpcInv, StoreInv, ReceiptInv, ReceiptsSound
  <2>6. Receipted(blocks, hash_index, best_number, answer)
    BY <1>1, <2>4, <2>5 DEF Receipted
  <2>7. best_number' = best_number /\ blocks' = blocks /\ hash_index' = hash_index
    BY <2>2 DEF dbVars, best_number
  <2> QED
    BY <2>6, <2>7
<1>6. Accepted(infos', answer)
  BY <1>1, <1>2 DEF Accepted
<1>7. Shown(blocks', hash_index', best_number', answer, since[w])
  BY <1>1, <1>3 DEF Shown
<1>8. Counted(accounts', estimated', best_number', answer, number[w], since[w])
  BY <1>1, <1>4 DEF Counted
<1>9. Receipted(blocks', hash_index', best_number', answer)
  BY <1>1, <1>5 DEF Receipted
<1> QED
  BY <1>6, <1>7, <1>8, <1>9

\* Answers given so far stay true through every step, and new ones are true.
LEMMA StepKeepsAnswers ==
    ASSUME AnswerInv, [RpcNext]_allVars
    PROVE  AnswerInv'
<1>1. NumberInv'
  BY StepKeepsNumbers DEF AnswerInv
<1>2. StoreStep \/ UNCHANGED dbVars
  BY StepStore DEF AnswerInv, NumberInv, RpcInv, allVars
<1>3. /\ pc \in [Workers -> {"idle", "lock_number", "number", "lock_serve", "serve"}]
      /\ number \in [Workers -> Nat]
      /\ since \in [Workers -> Nat]
      /\ reply = [w \in Workers |-> reply[w]]
  BY DEF AnswerInv, NumberInv, RpcInv, HandlerInv, RpcTypeOK
<1> DEFINE True(v) ==
           /\ reply'[v].status = "ok" => pc'[v] = "idle"
           /\ Accepted(infos', reply'[v])
           /\ Shown(blocks', hash_index', best_number', reply'[v], since'[v])
           /\ Counted(accounts', estimated', best_number', reply'[v], number'[v], since'[v])
           /\ Receipted(blocks', hash_index', best_number', reply'[v])
<1>4. ASSUME NEW v \in Workers, reply'[v].status # "ok"
      PROVE  True(v)
  BY <1>4 DEF Accepted, Shown, Counted, Receipted
<1>5. ASSUME NEW v \in Workers, pc'[v] = pc[v],
             UNCHANGED <<reply[v], number[v], since[v]>>
      PROVE  True(v)
  <2>1. number[v] \in Nat /\ since[v] \in Nat
    BY <1>3
  <2>2. /\ reply[v].status = "ok" => pc[v] = "idle"
        /\ Accepted(infos, reply[v])
        /\ Shown(blocks, hash_index, best_number, reply[v], since[v])
        /\ Counted(accounts, estimated, best_number, reply[v], number[v], since[v])
        /\ Receipted(blocks, hash_index, best_number, reply[v])
    BY DEF AnswerInv
  <2>3. StoreInv
    BY DEF AnswerInv, NumberInv, RpcInv
  <2> QED
    BY <1>2, <1>5, <2>1, <2>2, <2>3, AnswersStayTrue
<1> HIDE DEF True
<1>6. ASSUME NEW w \in Workers, NEW r \in Requests, Receives(w, r)
      PROVE  \A v \in Workers : True(v)
  BY <1>3, <1>4, <1>5, <1>6 DEF Receives, NoReply, Error
<1>7. ASSUME NEW w \in Workers, reply[w].status # "ok",
             UNCHANGED <<reply, since>>,
             \A v \in Workers : v # w => pc'[v] = pc[v] /\ number'[v] = number[v]
      PROVE  \A v \in Workers : True(v)
  BY <1>4, <1>5, <1>7
<1>8. ASSUME NEW w \in Workers,
             \/ Reads(w, "lock_number", "number")
             \/ Reads(w, "lock_serve", "serve")
             \/ Writes(w)
             \/ FindsNumber(w)
      PROVE  \A v \in Workers : True(v)
  <2>1. reply[w].status # "ok"
    BY <1>8 DEF AnswerInv, Reads, Writes, FindsNumber
  <2> QED
    BY <1>3, <1>7, <1>8, <2>1 DEF Reads, Writes, FindsNumber
<1>9. ASSUME NEW w \in Workers, IsPoisoned(w) \/ FindsNone(w)
      PROVE  \A v \in Workers : True(v)
  BY <1>3, <1>4, <1>5, <1>9 DEF IsPoisoned, FindsNone, Error
<1>10. ASSUME NEW w \in Workers, Serve(w)
       PROVE  \A v \in Workers : True(v)
  <2>1. PICK answer : Ends(w, answer)
    BY <1>10, ServeEnds
  <2>2. /\ reply'[w] = answer
        /\ pc'[w] = "idle"
        /\ UNCHANGED <<number, since>>
        /\ \A v \in Workers : v # w => reply'[v] = reply[v] /\ pc'[v] = pc[v]
    BY <1>3, <2>1 DEF Ends
  <2>3. /\ Accepted(infos', answer)
        /\ Shown(blocks', hash_index', best_number', answer, since[w])
        /\ Counted(accounts', estimated', best_number', answer, number[w], since[w])
        /\ Receipted(blocks', hash_index', best_number', answer)
    BY <1>10, <2>1, NewAnswersAreTrue DEF AnswerInv
  <2>4. True(w)
    BY <2>2, <2>3 DEF True
  <2> QED
    BY <1>5, <2>2, <2>4
<1>11. ASSUME UNCHANGED allVars
       PROVE  \A v \in Workers : True(v)
  BY <1>5, <1>11 DEF allVars, rpcVars
<1>12. \A v \in Workers : True(v)
  BY <1>6, <1>8, <1>9, <1>10, <1>11, HandlerSteps
<1> QED
  BY <1>1, <1>12 DEF AnswerInv, True

\* What clients were told about transactions, blocks, counts and receipts is true
\* in every reachable state (rpc.rs over db.rs).
THEOREM AnswerInvAlways == RpcSpec => []AnswerInv
<1>1. RpcInit => NumberInv
  BY InitNumbers
<1>2. RpcInit => AnswerInv
  <2>1. ASSUME RpcInit
        PROVE  \A w \in Workers : reply[w].status = "none"
    <3>1. reply = [w \in Workers |-> NoReply]
      BY <2>1 DEF RpcInit
    <3> QED
      BY <3>1 DEF NoReply
  <2> QED
    BY <1>1, <2>1 DEF AnswerInv, Accepted, Shown, Counted, Receipted
<1>3. AnswerInv /\ [RpcNext]_allVars => AnswerInv'
  BY StepKeepsAnswers
<1> QED
  BY <1>2, <1>3, PTL DEF RpcSpec

\* A client that was told its transaction is in finds the record of that very
\* transaction from then on, whatever later commits, refusals and panics do
\* (rpc.rs: send_raw_transaction; db.rs: submit_tx).
THEOREM AcceptedIsAlwaysCommitted == RpcSpec => []AcceptedIsCommitted
<1>1. AnswerInv => AcceptedIsCommitted
  BY DEF AnswerInv, Accepted, AcceptedIsCommitted
<1> QED
  BY <1>1, AnswerInvAlways, PTL

\* A block that a client was shown stays in the chain as it was shown, found by
\* its hash and its number; shown as the latest, it was no older than the chain its
\* request met (rpc.rs: block_by_number).
THEOREM ShownBlockAlwaysStays == RpcSpec => []ShownBlockStays
<1>1. AnswerInv => ShownBlockStays
  BY DEF AnswerInv, Shown, ShownBlockStays
<1> QED
  BY <1>1, AnswerInvAlways, PTL

\* A transaction count stays the count of the snapshot it was resolved to, as
\* long as no estimate rewrites that snapshot: commits between the two locks or
\* after the answer cannot falsify it (rpc.rs: transaction_count).
THEOREM CountAlwaysStaysTrue == RpcSpec => []CountStaysTrue
<1>1. AnswerInv => CountStaysTrue
  BY DEF AnswerInv, Counted, CountStaysTrue
<1> QED
  BY <1>1, AnswerInvAlways, PTL

\* A receipt that a client was shown stays one of a commit of its transaction: the
\* block it names is in the chain and holds that transaction, also after the same
\* transaction was accepted again and its record replaced (rpc.rs:
\* transaction_receipt; db.rs: receipt, and submit_tx inserts over a record).
THEOREM ShownReceiptAlwaysStays == RpcSpec => []ShownReceiptStays
<1>1. AnswerInv => ShownReceiptStays
  BY DEF AnswerInv, Receipted, ShownReceiptStays
<1> QED
  BY <1>1, AnswerInvAlways, PTL
=============================================================================
