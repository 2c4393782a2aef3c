------------------------------ MODULE EthService ------------------------------
(***************************************************************************)
(* What the node promises its clients: one atomic store.  Whatever the     *)
(* handlers of EthRpc do under their guards and between them, a client     *)
(* sees its request take effect in one step, between sending it and the    *)
(* answer.                                                                 *)
(*                                                                         *)
(* `Latest' is the one place where two guards show: the height it stands   *)
(* for is any that was the best one between the request and the answer.    *)
(* A service that lost a request to a panic is broken and stays so.        *)
(***************************************************************************)
EXTENDS EthRequests

CONSTANTS
    Clients,  \* those who may have a request in flight
    Requests  \* what they may send

VARIABLES
    pending,  \* the request a client waits for, or NoRequest
    reply,    \* its last answer
    since,    \* the height when the request was sent
    broken    \* a request was lost to a panic

serviceVars == <<dbVars, pending, reply, since, broken>>

\* The heights a block number may stand for when the request is served.
Heights(num, from) ==
    CASE num.tag = "Earliest" -> {0}
      [] num.tag = "Hash"     -> {hash_index[num.hash]}
      [] num.tag = "Num"      -> {num.n}
      [] OTHER                -> from .. best_number

Ask(c, r) ==
    /\ pending[c] = NoRequest
    /\ since' = [since EXCEPT ![c] = best_number]
    /\ IF Malformed(r)
       THEN /\ reply' = [reply EXCEPT ![c] = Error(r, "malformed")]
            /\ UNCHANGED pending
       ELSE /\ reply' = [reply EXCEPT ![c] = NoReply]
            /\ pending' = [pending EXCEPT ![c] = r]
    /\ UNCHANGED <<dbVars, broken>>

Answered(c, answer) ==
    /\ pending' = [pending EXCEPT ![c] = NoRequest]
    /\ reply' = [reply EXCEPT ![c] = answer]
    /\ UNCHANGED since

\* A broken service answers nothing but errors.
Refuse(c) ==
    /\ broken
    /\ Answered(c, Error(pending[c], "lock"))
    /\ UNCHANGED <<dbVars, broken>>

\* Answers that need no block number.
Lookup(r) ==
    CASE r.method = "blockNumber"           -> Ok(r, best_number)
      [] r.method = "getBlockByNumber"      -> Ok(r, RpcBlock(BestBlock.header))
      [] r.method = "getTransactionReceipt" -> Ok(r, receipt(r.hash))

\* An answer taken from the snapshot of height n.
AnsweredAt(c, n) ==
    LET r == pending[c]
        account == basic(accounts[n + 1], r.address)
    IN  \/ /\ r.method = "getBalance"
           /\ Answered(c, IF n > best_number THEN Error(r, "number")
                                             ELSE Ok(r, account.balance))
        \/ /\ r.method = "getTransactionCount"
           /\ Answered(c, Ok(r, IF n > best_number THEN 0 ELSE account.nonce))
        \/ /\ r.method = "call"
           /\ n <= best_number
           /\ \E out \in call(n, r.to) :
                 Answered(c, IF out.ok THEN Ok(r, out) ELSE Error(r, "failed"))

\* A request that changes nothing.
Query(c) ==
    LET r == pending[c]
    IN  /\ \/ /\ r.method \in {"blockNumber", "getBlockByNumber", "getTransactionReceipt"}
              /\ Answered(c, Lookup(r))
           \/ /\ r.method \in NumberMethods
              /\ ~Resolves(r.num)
              /\ Answered(c, Error(r, "number"))
           \/ /\ r.method \in NumberMethods
              /\ Resolves(r.num)
              /\ \E n \in Heights(r.num, since[c]) : AnsweredAt(c, n)
        /\ UNCHANGED <<dbVars, broken>>

Commit(c) ==
    LET r  == pending[c]
        tx == r.tx[1]
    IN  /\ r.method = "sendRawTransaction"
        /\ \E now \in Times : \E out \in Execute(Latest, tx.sender, tx.value, receiver(tx)) :
              /\ SubmitTx(tx, now, out)
              /\ Answered(c, IF out.ok THEN Ok(r, TxHash(tx)) ELSE Error(r, "refused"))
        /\ UNCHANGED broken

EstimateFor(c) ==
    LET r == pending[c]
    IN  /\ r.method = "estimateGas"
        /\ Resolves(r.num)
        /\ \E n \in Heights(r.num, since[c]) :
              /\ n <= best_number
              /\ \E out \in Execute(accounts[n + 1], r.from, r.value, r.to) :
                    EstimateGas(n, r.from, r.value, r.to, out)
        /\ Answered(c, Ok(r, "gas"))
        /\ UNCHANGED broken

\* Only a number that the client made up itself can break the service.
Break(c) ==
    LET r == pending[c]
    IN  /\ r.method \in {"call", "estimateGas"}
        /\ r.num.tag = "Num"
        /\ r.num.n > best_number
        /\ Answered(c, Dropped(r))
        /\ broken' = TRUE
        /\ UNCHANGED dbVars

TakeEffect(c) ==
    /\ pending[c] # NoRequest
    /\ \/ Refuse(c)
       \/ ~broken /\ (Query(c) \/ Commit(c) \/ EstimateFor(c) \/ Break(c))

ServiceInit ==
    /\ DBInit
    /\ pending = [c \in Clients |-> NoRequest]
    /\ reply = [c \in Clients |-> NoReply]
    /\ since = [c \in Clients |-> 0]
    /\ broken = FALSE

ServiceNext == \E c \in Clients : TakeEffect(c) \/ \E r \in Requests : Ask(c, r)

ServiceSpec == ServiceInit /\ [][ServiceNext]_serviceVars
=============================================================================
