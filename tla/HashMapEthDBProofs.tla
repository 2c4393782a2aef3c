-------------------------- MODULE HashMapEthDBProofs --------------------------
(***************************************************************************)
(* Theorems about the store, for every value of its constants: whatever    *)
(* transactions are submitted, whatever contract code does, and however    *)
(* many blocks there are.  The lemmas about snapshots come first: whatever *)
(* the EVM does, applying its outcome to a snapshot leaves a snapshot.     *)
(***************************************************************************)
EXTENDS HashMapEthDB, SequenceTheorems, TLAPS

-----------------------------------------------------------------------------
(* Sequences and maps                                                      *)

\* A sequence over any set is a sequence over its own elements.
LEMMA SeqIsSeq ==
    ASSUME NEW S, NEW s \in Seq(S)
    PROVE  IsSeq(s)
BY SeqDef, LenProperties DEF IsSeq

\* Vec::push adds one element at the end and keeps the others.
LEMMA AppendIsSeq ==
    ASSUME NEW s, IsSeq(s), NEW e
    PROVE  /\ IsSeq(Append(s, e))
           /\ Len(s) \in Nat
           /\ DOMAIN s = 1 .. Len(s)
           /\ Len(Append(s, e)) = Len(s) + 1
           /\ DOMAIN Append(s, e) = 1 .. Len(s) + 1
           /\ Append(s, e)[Len(s) + 1] = e
           /\ \A i \in 1 .. Len(s) : Append(s, e)[i] = s[i]
<1> DEFINE S == {s[i] : i \in DOMAIN s} \cup {e}
<1>1. s \in Seq(S)
  BY SeqMonotonic DEF IsSeq
<1>2. e \in S
  OBVIOUS
<1> HIDE DEF S
<1>3. Append(s, e) \in Seq(S)
  BY <1>1, <1>2
<1>4. IsSeq(Append(s, e))
  BY <1>3, SeqIsSeq
<1> QED
  BY <1>1, <1>2, <1>3, <1>4, LenProperties

\* HashMap::insert.
LEMMA PutIsMap ==
    ASSUME NEW map, NEW key, NEW value
    PROVE  /\ IsMap(Put(map, key, value))
           /\ \A k : k \in DOMAIN Put(map, key, value) <=> k \in DOMAIN map \/ k = key
           /\ Put(map, key, value)[key] = value
           /\ \A k \in DOMAIN map \ {key} : Put(map, key, value)[k] = map[k]
BY DEF IsMap, Put

\* The values of a map after an insertion.
LEMMA PutValues ==
    ASSUME NEW S, NEW map, \A k \in DOMAIN map : map[k] \in S,
           NEW key, NEW value \in S
    PROVE  \A k \in DOMAIN Put(map, key, value) : Put(map, key, value)[k] \in S
BY DEF Put

\* HashMap::new.
LEMMA EmptyMapIsMap == IsMap(EmptyMap) /\ DOMAIN EmptyMap = {}
BY DEF IsMap, EmptyMap

-----------------------------------------------------------------------------
(* Executions keep snapshots well formed                                   *)

IsModification(m) ==
    /\ m = [nonce |-> m.nonce, balance |-> m.balance, code |-> m.code,
            storage |-> m.storage, reset_storage |-> m.reset_storage]
    /\ m.nonce \in Nat
    /\ m.balance \in Nat
    /\ IsMap(m.storage)
    /\ \A k \in DOMAIN m.storage : m.storage[k] \in Nat

IsModifies(modifies) ==
    IsMap(modifies) /\ \A a \in DOMAIN modifies : IsModification(modifies[a])

\* The two removals of zero words in apply leave none behind.
LEMMA ModifiedStorageHasNoZeros ==
    ASSUME NEW storage, NEW m, IsModification(m),
           IsMap(storage), \A k \in DOMAIN storage : storage[k] \in Nat
    PROVE  LET after == ModifiedStorage(storage, m)
           IN  /\ IsMap(after)
               /\ \A k \in DOMAIN after : after[k] \in Nat \ {0}
<1> DEFINE old   == IF m.reset_storage THEN EmptyMap ELSE storage
           kept  == DOMAIN old \ Zeros(old)
           after == ModifiedStorage(storage, m)
<1>1. \A k \in DOMAIN old : old[k] \in Nat
  BY EmptyMapIsMap
<1> HIDE DEF old
<1>2. after = [k \in (kept \cup DOMAIN m.storage) \ Zeros(m.storage) |->
                  IF k \in DOMAIN m.storage THEN m.storage[k] ELSE old[k]]
  BY DEF ModifiedStorage, old
<1>3. \A k \in kept : old[k] \in Nat \ {0}
  BY <1>1 DEF Zeros
<1>4. \A k \in DOMAIN m.storage \ Zeros(m.storage) : m.storage[k] \in Nat \ {0}
  BY DEF Zeros, IsModification
<1> HIDE DEF after, kept
<1>5. \A k \in DOMAIN after : after[k] \in Nat \ {0}
  BY <1>2, <1>3, <1>4
<1>6. IsMap(after)
  BY <1>2 DEF IsMap
<1> QED
  BY <1>5, <1>6 DEF after

\* apply turns a snapshot into a snapshot, whatever items it is given.
LEMMA ApplyIsSnapshot ==
    ASSUME NEW accts, NEW modifies, NEW deletes, NEW delete_empty,
           IsSnapshot(accts), IsModifies(modifies)
    PROVE  IsSnapshot(Apply(accts, modifies, deletes, delete_empty))
<1> DEFINE entry(a) == IF a \in DOMAIN accts THEN accts[a] ELSE DefaultAccount
           after(a) == IF a \in DOMAIN modifies
                       THEN Modified(entry(a), modifies[a]) ELSE accts[a]
           applied  == Apply(accts, modifies, deletes, delete_empty)
<1>1. ASSUME NEW a PROVE IsAccount(entry(a))
  <2>1. IsAccount(DefaultAccount)
    BY EmptyMapIsMap DEF IsAccount, DefaultAccount
  <2> QED
    BY <2>1 DEF IsSnapshot
<1>2. ASSUME NEW a \in DOMAIN modifies
      PROVE  IsAccount(Modified(entry(a), modifies[a]))
  <2> DEFINE acc == entry(a)
             m   == modifies[a]
  <2>1. IsAccount(acc) /\ IsModification(m)
    BY <1>1 DEF IsModifies
  <2> HIDE DEF acc, m
  <2>2. /\ IsMap(ModifiedStorage(acc.storage, m))
        /\ \A k \in DOMAIN ModifiedStorage(acc.storage, m) :
              ModifiedStorage(acc.storage, m)[k] \in Nat \ {0}
    BY <2>1, ModifiedStorageHasNoZeros DEF IsAccount
  <2>3. IsAccount(Modified(acc, m))
    BY <2>1, <2>2 DEF IsAccount, Modified, IsModification
  <2> QED
    BY <2>3 DEF acc, m
<1>3. ASSUME NEW a \in DOMAIN accts \cup DOMAIN modifies
      PROVE  IsAccount(after(a))
  BY <1>2 DEF IsSnapshot
<1>4. /\ IsMap(applied)
      /\ DOMAIN applied \subseteq DOMAIN accts \cup DOMAIN modifies
      /\ \A a \in DOMAIN applied : applied[a] = after(a)
  BY DEF Apply, IsMap
<1> HIDE DEF after, applied
<1>5. IsSnapshot(applied)
  BY <1>3, <1>4 DEF IsSnapshot
<1> QED
  BY <1>5 DEF applied

\* Before any code runs, a transaction gives its frame natural nonces and
\* balances, provided the sender can pay.
LEMMA FrameIsModifies ==
    ASSUME NEW accts, NEW sender, NEW to, NEW value \in Nat,
           IsSnapshot(accts), ~(basic(accts, sender).balance < value)
    PROVE  IsModifies(Frame(accts, sender, value, to))
<1>1. ASSUME NEW a
      PROVE  basic(accts, a).nonce \in Nat /\ basic(accts, a).balance \in Nat
  BY DEF basic, IsSnapshot, IsAccount
<1> DEFINE nonce(a)   == basic(accts, a).nonce + (IF a = sender THEN 1 ELSE 0)
           balance(a) == (basic(accts, a).balance + (IF a = to THEN value ELSE 0))
                            - (IF a = sender THEN value ELSE 0)
           frame      == Frame(accts, sender, value, to)
<1>2. ASSUME NEW a PROVE nonce(a) \in Nat /\ balance(a) \in Nat
  BY <1>1
<1>3. frame = [a \in {sender, to} |->
                  [nonce |-> nonce(a), balance |-> balance(a), code |-> KeepCode,
                   storage |-> EmptyMap, reset_storage |-> FALSE]]
  BY DEF Frame
<1> HIDE DEF nonce, balance, frame
<1>4. \A a \in DOMAIN frame : IsModification(frame[a])
  BY <1>2, <1>3, EmptyMapIsMap DEF IsModification
<1>5. IsMap(frame)
  BY <1>3 DEF IsMap
<1> QED
  BY <1>4, <1>5 DEF IsModifies, frame

\* A new contract's account is well formed,
LEMMA NewContractIsModification ==
    ASSUME NEW m, IsModification(m), NEW c
    PROVE  IsModification(NewContract(m, c))
BY EmptyMapIsMap DEF NewContract, IsModification

\* and so is one that was only touched.
LEMMA TouchedIsModification ==
    ASSUME NEW accts, IsSnapshot(accts), NEW a
    PROVE  IsModification(Touched(accts, a))
<1>1. basic(accts, a).nonce \in Nat /\ basic(accts, a).balance \in Nat
  BY DEF basic, IsSnapshot, IsAccount
<1> QED
  BY <1>1, EmptyMapIsMap DEF Touched, IsModification

LEMMA DeployedIsModifies ==
    ASSUME NEW frame, NEW at \in DOMAIN frame, NEW c, IsModifies(frame)
    PROVE  /\ IsModifies(Deployed(frame, at, c))
           /\ at \in DOMAIN Deployed(frame, at, c)
<1> DEFINE new      == NewContract(frame[at], c)
           deployed == Deployed(frame, at, c)
<1>1. IsModification(new)
  BY NewContractIsModification DEF IsModifies
<1>2. deployed = [frame EXCEPT ![at] = new]
  BY DEF Deployed
<1> HIDE DEF new, deployed
<1>3. \A a \in DOMAIN deployed : IsModification(deployed[a])
  BY <1>1, <1>2 DEF IsModifies
<1>4. IsMap(deployed) /\ at \in DOMAIN deployed
  BY <1>2 DEF IsModifies, IsMap
<1> QED
  BY <1>3, <1>4 DEF IsModifies, deployed

\* Running code leaves an account's code, and of its nonce and balance what it
\* did not create or pay.
LEMMA LeftFields ==
    ASSUME NEW m, IsModification(m), NEW frame, NEW at, NEW e, NEW a
    PROVE  LET left == Left(m, frame, at, e, a)
               paid == IF e.destroys THEN frame[at].balance ELSE e.paid
           IN  /\ left = [ nonce |-> left.nonce, balance |-> left.balance,
                           code |-> left.code, storage |-> left.storage,
                           reset_storage |-> left.reset_storage ]
               /\ left.nonce = m.nonce + (IF a = at THEN e.creates ELSE 0)
               /\ left.balance = (m.balance + (IF a = e.payee THEN paid ELSE 0))
                                    - (IF a = at THEN paid ELSE 0)
               /\ left.code = m.code
               /\ left.storage = IF a = at THEN e.storage
                                 ELSE IF a \in DOMAIN e.calls THEN e.calls[a].storage
                                 ELSE m.storage
<1> DEFINE paid    == IF e.destroys THEN frame[at].balance ELSE e.paid
           nonce   == m.nonce + (IF a = at THEN e.creates ELSE 0)
           balance == (m.balance + (IF a = e.payee THEN paid ELSE 0))
                         - (IF a = at THEN paid ELSE 0)
           storage == IF a = at THEN e.storage
                      ELSE IF a \in DOMAIN e.calls THEN e.calls[a].storage
                      ELSE m.storage
<1>1. m = [nonce |-> m.nonce, balance |-> m.balance, code |-> m.code,
           storage |-> m.storage, reset_storage |-> m.reset_storage]
  BY DEF IsModification
<1>2. Left(m, frame, at, e, a) =
          [m EXCEPT !.nonce = nonce, !.balance = balance, !.storage = storage]
  BY <1>1 DEF Left
<1> HIDE DEF nonce, balance, storage
<1>3. Left(m, frame, at, e, a) =
          [nonce |-> nonce, balance |-> balance, code |-> m.code,
           storage |-> storage, reset_storage |-> m.reset_storage]
  BY <1>1, <1>2
<1> QED
  BY <1>3 DEF nonce, balance, storage

\* What an effect is made of.
LEMMA EffectFields ==
    ASSUME NEW e \in Effects
    PROVE  /\ IsStorage(e.storage)
           /\ \A a \in DOMAIN e.calls : IsStorage(e.calls[a].storage)
           /\ e.payee = None \/ e.payee \in DOMAIN e.calls
           /\ e.paid \in Nat /\ e.creates \in Nat
           /\ e.child # None => e.creates > 0 /\ IsStorage(e.child.storage)
BY EvmAssumption DEF EvmAssumption

\* Every account that was reached is well formed before the code's effect on it.
LEMMA ReachedIsModifies ==
    ASSUME NEW accts, IsSnapshot(accts), NEW frame, IsModifies(frame),
           NEW at, NEW e \in Effects
    PROVE  IsModifies(Reached(accts, frame, at, e))
<1> DEFINE reached == Reached(accts, frame, at, e)
           child   == IF e.child = None THEN {} ELSE {ChildAddress(frame, at, e)}
           new(a)  == [NewContract(Touched(accts, a), e.child.code)
                         EXCEPT !.storage = e.child.storage]
<1>1. /\ DOMAIN reached = DOMAIN frame \cup DOMAIN e.calls \cup child
      /\ \A a \in DOMAIN reached :
            reached[a] = IF a \in DOMAIN frame THEN frame[a]
                         ELSE IF a \in DOMAIN e.calls THEN Touched(accts, a) ELSE new(a)
      /\ IsMap(reached)
  BY DEF Reached, IsMap
<1>2. ASSUME NEW a, e.child # None PROVE IsModification(new(a))
  <2> DEFINE m == NewContract(Touched(accts, a), e.child.code)
  <2>1. IsModification(m)
    BY TouchedIsModification, NewContractIsModification
  <2>2. IsStorage(e.child.storage)
    BY <1>2, EffectFields
  <2> HIDE DEF m
  <2>3. IsModification([m EXCEPT !.storage = e.child.storage])
    BY <2>1, <2>2 DEF IsModification, IsStorage
  <2> QED
    BY <2>3 DEF m
<1> HIDE DEF reached, new
<1>3. ASSUME NEW a \in DOMAIN reached PROVE IsModification(reached[a])
  <2>1. CASE a \in DOMAIN frame
    BY <1>1, <2>1 DEF IsModifies
  <2>2. CASE a \notin DOMAIN frame /\ a \in DOMAIN e.calls
    BY <1>1, <2>2, TouchedIsModification
  <2>3. CASE a \notin DOMAIN frame /\ a \notin DOMAIN e.calls
    <3>1. e.child # None
      BY <1>1, <2>3
    <3> QED
      BY <1>1, <1>2, <2>3, <3>1
  <2> QED
    BY <2>1, <2>2, <2>3
<1> QED
  BY <1>1, <1>3 DEF IsModifies, reached

\* Code that runs to success leaves nothing but modifications.
LEMMA RanIsModifies ==
    ASSUME NEW accts, IsSnapshot(accts), NEW frame, IsModifies(frame),
           NEW at \in DOMAIN frame, NEW e \in Effects, Possible(accts, frame, at, e)
    PROVE  IsModifies(Ran(accts, frame, at, e).modifies)
<1> DEFINE reached == Reached(accts, frame, at, e)
           paid    == IF e.destroys THEN frame[at].balance ELSE e.paid
           written == Ran(accts, frame, at, e).modifies
<1>1. IsModifies(reached)
  BY ReachedIsModifies
<1>2. reached[at] = frame[at] /\ IsModification(frame[at])
  BY DEF Reached, IsModifies
<1>3. paid \in Nat /\ paid <= frame[at].balance
  BY <1>2, EffectFields DEF Possible, IsModification
<1> HIDE DEF reached
<1>4. ASSUME NEW a \in DOMAIN reached
      PROVE  IsModification(Left(reached[a], frame, at, e, a))
  <2> DEFINE m    == reached[a]
             left == Left(m, frame, at, e, a)
  <2>1. IsModification(m)
    BY <1>1 DEF IsModifies
  <2>2. a = at => m = frame[at]
    BY <1>2
  <2> HIDE DEF m
  <2>3. /\ left = [ nonce |-> left.nonce, balance |-> left.balance,
                    code |-> left.code, storage |-> left.storage,
                    reset_storage |-> left.reset_storage ]
        /\ left.nonce = m.nonce + (IF a = at THEN e.creates ELSE 0)
        /\ left.balance = (m.balance + (IF a = e.payee THEN paid ELSE 0))
                             - (IF a = at THEN paid ELSE 0)
        /\ left.storage = IF a = at THEN e.storage
                          ELSE IF a \in DOMAIN e.calls THEN e.calls[a].storage
                          ELSE m.storage
    BY <2>1, LeftFields
  <2> HIDE DEF left, paid
  <2>4. left.nonce \in Nat
    BY <2>1, <2>3, EffectFields DEF IsModification
  <2>5. left.balance \in Nat
    BY <1>3, <2>1, <2>2, <2>3 DEF IsModification
  <2>6. IsStorage(left.storage)
    BY <2>1, <2>3, EffectFields DEF IsModification, IsStorage
  <2>7. IsModification(left)
    BY <2>3, <2>4, <2>5, <2>6 DEF IsModification, IsStorage
  <2> QED
    BY <2>7 DEF left, m
<1>5. /\ DOMAIN written \subseteq DOMAIN reached
      /\ \A a \in DOMAIN written : written[a] = Left(reached[a], frame, at, e, a)
      /\ IsMap(written)
  BY DEF Ran, IsMap, reached
<1> HIDE DEF written
<1>6. IsModifies(written)
  BY <1>4, <1>5 DEF IsModifies
<1> QED
  BY <1>6 DEF written

\* The address whose code a transaction runs, or whose account it creates.
Target(accts, sender, to) ==
    IF to = None THEN CreateAddress(sender, basic(accts, sender).nonce) ELSE to

\* A success: the sender can pay, and what is written back is the frame, with what
\* code at the target did to it.
LEMMA OutcomeShape ==
    ASSUME NEW accts, NEW sender, NEW value, NEW to,
           NEW out \in Execute(accts, sender, value, to), out.ok
    PROVE  LET at    == Target(accts, sender, to)
               frame == Frame(accts, sender, value, at)
           IN  /\ ~(basic(accts, sender).balance < value)
               /\ \/ /\ to # None
                     /\ code(accts, at) = EmptyCode
                     /\ out = Success(frame, <<>>)
                  \/ /\ to # None
                     /\ code(accts, at) # EmptyCode
                     /\ \E e \in Effects : /\ Possible(accts, frame, at, e)
                                           /\ out = Ran(accts, frame, at, e)
                  \/ /\ to = None
                     /\ Vacant(accts, at)
                     /\ \E c \in Codes, e \in Effects :
                           /\ Possible(accts, Deployed(frame, at, c), at, e)
                           /\ out = Ran(accts, Deployed(frame, at, c), at, e)
<1>1. out # Failure
  BY DEF Failure
<1>2. \A f, at : out \in Runs(accts, f, at) =>
         \E e \in Effects : Possible(accts, f, at, e) /\ out = Ran(accts, f, at, e)
  BY <1>1 DEF Runs
<1>3. CASE to = None
  <2> DEFINE at    == Target(accts, sender, to)
             frame == Frame(accts, sender, value, at)
  <2>1. at = CreateAddress(sender, basic(accts, sender).nonce)
    BY <1>3 DEF Target
  <2> HIDE DEF at
  <2>2. /\ ~(basic(accts, sender).balance < value) /\ Vacant(accts, at)
        /\ \E c \in Codes : out \in Runs(accts, Deployed(frame, at, c), at)
    BY <1>1, <1>3, <2>1 DEF Execute, TransactCreate
  <2> HIDE DEF frame
  <2>3. \E c \in Codes, e \in Effects : /\ Possible(accts, Deployed(frame, at, c), at, e)
                                        /\ out = Ran(accts, Deployed(frame, at, c), at, e)
    BY <1>2, <2>2
  <2> QED
    BY <1>3, <2>2, <2>3 DEF at, frame
<1>4. CASE to # None
  BY <1>1, <1>2, <1>4 DEF Execute, TransactCall, Target
<1> QED
  BY <1>3, <1>4

\* What an execution on a snapshot hands to apply is well formed.
LEMMA ExecuteIsModifies ==
    ASSUME NEW accts, NEW sender, NEW to, NEW value \in Nat, IsSnapshot(accts),
           NEW out \in Execute(accts, sender, value, to), out.ok
    PROVE  IsModifies(out.modifies)
<1> DEFINE at    == Target(accts, sender, to)
           frame == Frame(accts, sender, value, at)
<1>1. at \in DOMAIN frame
  BY DEF Frame
<1>2. /\ ~(basic(accts, sender).balance < value)
      /\ \/ out = Success(frame, <<>>)
         \/ \E e \in Effects : Possible(accts, frame, at, e) /\ out = Ran(accts, frame, at, e)
         \/ \E c \in Codes, e \in Effects :
               /\ Possible(accts, Deployed(frame, at, c), at, e)
               /\ out = Ran(accts, Deployed(frame, at, c), at, e)
  BY OutcomeShape
<1>3. IsModifies(frame)
  BY <1>2, FrameIsModifies
<1> HIDE DEF at, frame
<1>4. CASE out = Success(frame, <<>>)
  BY <1>3, <1>4 DEF Success
<1>5. CASE \E e \in Effects : Possible(accts, frame, at, e) /\ out = Ran(accts, frame, at, e)
  BY <1>1, <1>3, <1>5, RanIsModifies
<1>6. ASSUME NEW c \in Codes, NEW e \in Effects,
             Possible(accts, Deployed(frame, at, c), at, e),
             out = Ran(accts, Deployed(frame, at, c), at, e)
      PROVE  IsModifies(out.modifies)
  BY <1>1, <1>3, <1>6, DeployedIsModifies, RanIsModifies
<1> QED
  BY <1>2, <1>4, <1>5, <1>6

\* So executing on a snapshot leaves a snapshot, applied or not.
LEMMA AppliedIsSnapshot ==
    ASSUME NEW accts, NEW sender, NEW to, NEW value \in Nat, IsSnapshot(accts),
           NEW out \in Execute(accts, sender, value, to)
    PROVE  IsSnapshot(Applied(accts, out))
BY ExecuteIsModifies, ApplyIsSnapshot DEF Applied

-----------------------------------------------------------------------------
(* The kinds of steps                                                      *)

\* A change of the store: a transaction that ran to success is committed, or an
\* estimate executes on a stored snapshot, at the wish of any caller.
StoreStep ==
    \/ \E tx \in SignedTxs, now \in Times :
          \E out \in Execute(Latest, tx.sender, tx.value, receiver(tx)) :
              out.ok /\ CommitTx(tx, now, out)
    \/ \E n \in 0 .. best_number, value \in Values : \E caller, to :
          \E out \in Execute(accounts[n + 1], caller, value, to) :
              EstimateGas(n, caller, value, to, out)

\* The store without the bounds of the runs and whoever uses it.
StoreSpec == DBInit /\ [][StoreStep]_dbVars

\* A step of the bounded store is one of these or a refused transaction.
LEMMA StepCases ==
    ASSUME DBNext
    PROVE  StoreStep \/ UNCHANGED dbVars
BY DEF DBNext, Submit, Estimate, SubmitTx, StoreStep

\* So what is proved of the store holds of the one that the runs bound.
THEOREM BoundedStoreIsStore == DBSpec => StoreSpec
<1>1. [DBNext]_dbVars => [StoreStep]_dbVars
  BY StepCases
<1> QED
  BY <1>1, PTL DEF DBSpec, StoreSpec

\* A header whose memo is not taken yet.
HeaderOf(parent, n, time, state, transactions, receipts) ==
    [ parent_hash |-> parent, number |-> n, timestamp |-> time,
      state_root |-> state, transactions_root |-> transactions,
      receipts_root |-> receipts, hash |-> None ]

\* Memoizing the hash of such a header changes no other field.
LEMMA ComputeHashFields ==
    ASSUME NEW parent, NEW n, NEW time, NEW state, NEW transactions, NEW receipts
    PROVE  LET c == ComputeHash(HeaderOf(parent, n, time, state, transactions, receipts))
           IN  /\ c.parent_hash = parent
               /\ c.number = n
               /\ c.timestamp = time
               /\ c.state_root = state
               /\ c.transactions_root = transactions
               /\ c.receipts_root = receipts
               /\ c.hash = Keccak(Rlp(c))
               /\ HeaderHash(c) = Keccak(Rlp(c))
<1> DEFINE h == HeaderOf(parent, n, time, state, transactions, receipts)
           c == [ parent_hash |-> parent, number |-> n, timestamp |-> time,
                  state_root |-> state, transactions_root |-> transactions,
                  receipts_root |-> receipts, hash |-> Keccak(Rlp(h)) ]
<1>1. ComputeHash(h) = c
  BY DEF ComputeHash, HeaderHash, HeaderOf
<1>2. Rlp(c) = Rlp(h)
  BY DEF Rlp, HeaderOf
<1>3. Keccak(Rlp(h)) # None
  BY DEF Keccak, None
<1>4. HeaderHash(c) = Keccak(Rlp(c))
  BY <1>2, <1>3 DEF HeaderHash
<1> QED
  BY <1>1, <1>2, <1>4

\* The block new_block returns follows the best block, and its memo is fresh.
LEMMA NewBlockFields ==
    ASSUME NEW txs, NEW now
    PROVE  LET b == NewBlock(txs, now)
           IN  /\ b.transactions = txs
               /\ b.header.parent_hash = HeaderHash(BestBlock.header)
               /\ b.header.number = BestBlock.header.number + 1
               /\ b.header.transactions_root = transaction_root(txs)
               /\ b.header.hash = Keccak(Rlp(b.header))
               /\ HeaderHash(b.header) = Keccak(Rlp(b.header))
<1> DEFINE parent == HeaderHash(BestBlock.header)
           number == BestBlock.header.number + 1
           root   == FromLowU64(number)
           txroot == transaction_root(txs)
           h1 == [DefaultHeader EXCEPT !.parent_hash = parent]
           h2 == [h1 EXCEPT !.number = number]
           h3 == [h2 EXCEPT !.state_root = root]
           h4 == [h3 EXCEPT !.receipts_root = root]
           h5 == [h4 EXCEPT !.timestamp = now]
           h6 == [h5 EXCEPT !.transactions_root = txroot]
<1>1. NewBlock(txs, now) = [header |-> ComputeHash(h6), transactions |-> txs]
  BY DEF NewBlock
<1> HIDE DEF parent, number, root, txroot
<1>2. h1 = HeaderOf(parent, 0, 0, KeccakNullRlp, KeccakNullRlp, KeccakNullRlp)
  BY DEF DefaultHeader, HeaderOf
<1> HIDE DEF h1
<1>3. h2 = HeaderOf(parent, number, 0, KeccakNullRlp, KeccakNullRlp, KeccakNullRlp)
  BY <1>2 DEF HeaderOf
<1> HIDE DEF h2
<1>4. h3 = HeaderOf(parent, number, 0, root, KeccakNullRlp, KeccakNullRlp)
  BY <1>3 DEF HeaderOf
<1> HIDE DEF h3
<1>5. h4 = HeaderOf(parent, number, 0, root, KeccakNullRlp, root)
  BY <1>4 DEF HeaderOf
<1> HIDE DEF h4
<1>6. h5 = HeaderOf(parent, number, now, root, KeccakNullRlp, root)
  BY <1>5 DEF HeaderOf
<1> HIDE DEF h5
<1>7. h6 = HeaderOf(parent, number, now, root, txroot, root)
  BY <1>6 DEF HeaderOf
<1> HIDE DEF h6
<1> QED
  BY <1>1, <1>7, ComputeHashFields DEF parent, number, txroot

\* Blocks of different heights have different hashes: the number is in the
\* preimage, and Keccak is injective.
LEMMA HashesDiffer ==
    ASSUME NEW g, NEW h, g.number # h.number
    PROVE  Keccak(Rlp(g)) # Keccak(Rlp(h))
BY DEF Keccak, Rlp

-----------------------------------------------------------------------------
(* What a step does to the chain                                           *)

\* The part of the invariant that says where things are.
Aligned == IsSeq(blocks) /\ IsSeq(accounts) /\ SnapshotPerBlock

\* A commit adds the new block and its snapshot at the next height.
LEMMA CommitExtends ==
    ASSUME Aligned, NEW tx, NEW now, NEW out, CommitTx(tx, now, out)
    PROVE  LET block == NewBlock(<<tx>>, now)
           IN  /\ Aligned'
               /\ Len(blocks) \in Nat \ {0}
               /\ DOMAIN blocks = 1 .. Len(blocks)
               /\ DOMAIN blocks' = 1 .. Len(blocks) + 1
               /\ Len(blocks') = Len(blocks) + 1
               /\ blocks'[Len(blocks) + 1] = block
               /\ \A i \in 1 .. Len(blocks) : blocks'[i] = blocks[i]
               /\ DOMAIN accounts' = 1 .. Len(blocks) + 1
               /\ accounts'[Len(blocks) + 1] = Applied(Latest, out)
               /\ \A i \in 1 .. Len(blocks) : accounts'[i] = accounts[i]
<1>1. /\ blocks' = Append(blocks, NewBlock(<<tx>>, now))
      /\ accounts' = Append(accounts, Applied(Latest, out))
  BY DEF CommitTx, SaveBlock
<1> QED
  BY <1>1, AppendIsSeq DEF Aligned, SnapshotPerBlock

\* An estimate leaves the chain alone and rewrites one snapshot.
LEMMA EstimateRewrites ==
    ASSUME Aligned, NEW n, NEW caller, NEW value, NEW to, NEW out,
           EstimateGas(n, caller, value, to, out)
    PROVE  /\ Aligned'
           /\ UNCHANGED <<blocks, hash_index, infos>>
           /\ n \in 0 .. best_number
           /\ n + 1 \in 1 .. Len(blocks)
           /\ Len(blocks) \in Nat \ {0}
           /\ DOMAIN accounts = 1 .. Len(blocks)
           /\ DOMAIN accounts' = 1 .. Len(blocks)
           /\ \A i \in 1 .. Len(blocks) :
                 accounts'[i] = IF i = n + 1 THEN Applied(accounts[i], out)
                                ELSE accounts[i]
<1>1. /\ Len(blocks) \in Nat \ {0}
      /\ Len(accounts) = Len(blocks)
      /\ DOMAIN accounts = 1 .. Len(blocks)
  BY AppendIsSeq DEF Aligned, SnapshotPerBlock
<1>2. n \in 0 .. best_number /\ n + 1 \in 1 .. Len(accounts)
  BY <1>1 DEF EstimateGas, best_number
<1> DEFINE m     == n + 1
           after == Applied(accounts[m], out)
<1>3. accounts' = [accounts EXCEPT ![m] = after]
  BY DEF EstimateGas
<1>4. /\ IsSeq(accounts')
      /\ Len(accounts') = Len(accounts)
      /\ DOMAIN accounts' = 1 .. Len(accounts)
      /\ \A i \in 1 .. Len(accounts) :
            accounts'[i] = IF i = m THEN after ELSE accounts[i]
  <2> DEFINE S == {accounts[i] : i \in DOMAIN accounts} \cup {after}
  <2>1. accounts \in Seq(S)
    BY SeqMonotonic DEF Aligned, IsSeq
  <2>2. after \in S /\ m \in 1 .. Len(accounts)
    BY <1>2
  <2> HIDE DEF S, m, after
  <2>3. /\ accounts' \in Seq(S)
        /\ Len(accounts') = Len(accounts)
        /\ DOMAIN accounts' = 1 .. Len(accounts)
    BY <1>3, <2>1, <2>2
  <2>4. \A i \in 1 .. Len(accounts) :
            accounts'[i] = IF i = m THEN after ELSE accounts[i]
    BY <1>3, <2>1, <2>2
  <2>5. IsSeq(accounts')
    BY <2>3, SeqIsSeq
  <2> QED
    BY <2>3, <2>4, <2>5
<1>6. UNCHANGED <<blocks, hash_index, infos>>
  BY DEF EstimateGas
<1>7. Aligned'
  BY <1>1, <1>4, <1>6 DEF Aligned, SnapshotPerBlock
<1> QED
  BY <1>1, <1>2, <1>4, <1>6, <1>7

\* Initially there is the genesis block and its empty snapshot.
LEMMA InitAligned ==
    ASSUME DBInit
    PROVE  /\ Aligned
           /\ Len(blocks) = 1 /\ DOMAIN blocks = 1 .. 1
           /\ Len(accounts) = 1 /\ DOMAIN accounts = 1 .. 1
           /\ accounts[1] = EmptyMap
<1>1. PICK now \in Times : CreateGenesis(now)
  BY DEF DBInit
<1> DEFINE g == [header |-> ComputeHash([DefaultHeader EXCEPT !.timestamp = now]),
                 transactions |-> <<>>]
<1>2. blocks = <<g>> /\ accounts = <<EmptyMap>>
  BY <1>1 DEF CreateGenesis
<1> HIDE DEF g
<1>3. <<g>> \in Seq({g}) /\ <<EmptyMap>> \in Seq({EmptyMap})
  OBVIOUS
<1>4. IsSeq(blocks) /\ IsSeq(accounts)
  BY <1>2, <1>3, SeqIsSeq
<1> QED
  BY <1>2, <1>4 DEF Aligned, SnapshotPerBlock

-----------------------------------------------------------------------------
(* The chain: heights, links and hashes                                    *)

ChainInv == Aligned /\ ChainLinked /\ HashesFresh

\* Genesis is a linked chain of one freshly hashed block.
LEMMA InitChain ==
    ASSUME DBInit
    PROVE  ChainInv
<1>1. PICK now \in Times : CreateGenesis(now)
  BY DEF DBInit
<1> DEFINE h == [DefaultHeader EXCEPT !.timestamp = now]
<1>2. h = HeaderOf(ZeroHash, 0, now, KeccakNullRlp, KeccakNullRlp, KeccakNullRlp)
  BY DEF DefaultHeader, HeaderOf
<1>3. blocks[1].header = ComputeHash(h)
  BY <1>1 DEF CreateGenesis
<1> HIDE DEF h
<1>4. /\ blocks[1].header.number = 0
      /\ blocks[1].header.hash = Keccak(Rlp(blocks[1].header))
  BY <1>2, <1>3, ComputeHashFields
<1>5. best_number = 0 /\ \A n \in 0 .. 0 : n = 0
  BY InitAligned DEF best_number
<1>6. ChainLinked /\ HashesFresh
  BY <1>4, <1>5 DEF ChainLinked, HashesFresh
<1> QED
  BY <1>6, InitAligned DEF ChainInv

\* A commit links a freshly hashed block to the last one.
LEMMA CommitKeepsChain ==
    ASSUME ChainInv, NEW tx, NEW now, NEW out, CommitTx(tx, now, out)
    PROVE  ChainInv'
<1> DEFINE block == NewBlock(<<tx>>, now)
           len   == Len(blocks)
<1>1. /\ Aligned'
      /\ len \in Nat \ {0}
      /\ Len(blocks') = len + 1
      /\ blocks'[len + 1] = block
      /\ \A i \in 1 .. len : blocks'[i] = blocks[i]
  BY CommitExtends DEF ChainInv
<1>2. /\ block.transactions = <<tx>>
      /\ block.header.parent_hash = HeaderHash(blocks[len].header)
      /\ block.header.number = blocks[len].header.number + 1
      /\ block.header.transactions_root = transaction_root(<<tx>>)
      /\ block.header.hash = Keccak(Rlp(block.header))
  BY NewBlockFields DEF BestBlock
<1>3. blocks[len].header.number = len - 1
  BY <1>1 DEF ChainInv, ChainLinked, best_number
<1> HIDE DEF block
<1>4. ChainLinked'
  BY <1>1, <1>2, <1>3 DEF ChainInv, ChainLinked, best_number
<1>5. HashesFresh'
  BY <1>1, <1>2 DEF ChainInv, HashesFresh, best_number
<1> QED
  BY <1>1, <1>4, <1>5 DEF ChainInv

\* An estimate does not touch the chain.
LEMMA EstimateKeepsChain ==
    ASSUME ChainInv, NEW n, NEW caller, NEW value, NEW to, NEW out,
           EstimateGas(n, caller, value, to, out)
    PROVE  ChainInv'
<1>1. Aligned' /\ UNCHANGED blocks
  BY EstimateRewrites DEF ChainInv
<1> QED
  BY <1>1 DEF ChainInv, ChainLinked, HashesFresh, best_number

\* So every step keeps the chain invariant.
LEMMA StepKeepsChain ==
    ASSUME ChainInv, [StoreStep]_dbVars
    PROVE  ChainInv'
<1>1. CASE UNCHANGED dbVars
  BY <1>1 DEF ChainInv, Aligned, SnapshotPerBlock, ChainLinked, HashesFresh,
              best_number, dbVars
<1>2. CASE StoreStep
  BY <1>2, CommitKeepsChain, EstimateKeepsChain DEF StoreStep
<1> QED
  BY <1>1, <1>2

\* The invariant the next three theorems are read off: the chain is aligned,
\* linked and freshly hashed in every state the store can reach.
THEOREM ChainInvAlways == StoreSpec => []ChainInv
<1>1. DBInit => ChainInv
  BY InitChain
<1>2. ChainInv /\ [StoreStep]_dbVars => ChainInv'
  BY StepKeepsChain
<1> QED
  BY <1>1, <1>2, PTL DEF StoreSpec

\* There is always exactly one account snapshot per block (db.rs: submit_tx
\* pushes both after a success and neither otherwise), so every height that
\* best_number reports may index `accounts'.
THEOREM SnapshotPerBlockAlways == DBSpec => []SnapshotPerBlock
<1>1. ChainInv => SnapshotPerBlock
  BY DEF ChainInv, Aligned
<1> QED
  BY <1>1, ChainInvAlways, BoundedStoreIsStore, PTL

\* Positions, numbers and parent hashes always agree, however long the chain
\* grows and whatever estimates do in between (db.rs: new_block, save_block).
THEOREM ChainLinkedAlways == DBSpec => []ChainLinked
<1>1. ChainInv => ChainLinked
  BY DEF ChainInv
<1> QED
  BY <1>1, ChainInvAlways, BoundedStoreIsStore, PTL

\* The memoized hash of every stored header is always the hash of its fields
\* (ethcore.rs: hash trusts the memo and never recomputes it).
THEOREM HashesFreshAlways == DBSpec => []HashesFresh
<1>1. ChainInv => HashesFresh
  BY DEF ChainInv
<1> QED
  BY <1>1, ChainInvAlways, BoundedStoreIsStore, PTL

-----------------------------------------------------------------------------
(* The types of the store                                                  *)

TypeInv == ChainInv /\ DBTypeOK

\* The empty snapshot and the genesis index are well typed.
LEMMA InitTypes ==
    ASSUME DBInit
    PROVE  TypeInv
<1>1. PICK now \in Times : CreateGenesis(now)
  BY DEF DBInit
<1>2. \A i \in DOMAIN accounts : IsSnapshot(accounts[i])
  <2>1. IsSnapshot(EmptyMap)
    BY EmptyMapIsMap DEF IsSnapshot
  <2>2. \A i \in 1 .. 1 : i = 1
    OBVIOUS
  <2> QED
    BY <2>1, <2>2, InitAligned
<1>3. IsMap(hash_index) /\ \A h \in DOMAIN hash_index : hash_index[h] \in Nat
  <2>1. PICK h : hash_index = Put(EmptyMap, h, 0)
    BY <1>1 DEF CreateGenesis
  <2> QED
    BY <2>1, EmptyMapIsMap, PutIsMap, PutValues
<1>4. IsMap(infos) /\ estimated = {}
  BY EmptyMapIsMap DEF DBInit
<1> QED
  BY <1>2, <1>3, <1>4, InitChain DEF TypeInv, ChainInv, Aligned, DBTypeOK

\* A commit adds a well-typed snapshot and a natural height.
LEMMA CommitKeepsTypes ==
    ASSUME TypeInv, NEW tx \in SignedTxs, NEW now \in Times,
           NEW out \in Execute(Latest, tx.sender, tx.value, receiver(tx)),
           CommitTx(tx, now, out)
    PROVE  TypeInv'
<1> DEFINE block == NewBlock(<<tx>>, now)
           len   == Len(blocks)
<1>1. ChainInv'
  BY CommitKeepsChain DEF TypeInv
<1>2. /\ len \in Nat \ {0}
      /\ Len(accounts) = len
      /\ DOMAIN accounts = 1 .. len
      /\ DOMAIN accounts' = 1 .. len + 1
      /\ Len(blocks') = len + 1
      /\ accounts'[len + 1] = Applied(Latest, out)
      /\ \A i \in 1 .. len : accounts'[i] = accounts[i]
  BY CommitExtends, AppendIsSeq DEF TypeInv, ChainInv, Aligned, SnapshotPerBlock
<1>3. \A i \in DOMAIN accounts' : IsSnapshot(accounts'[i])
  <2>1. \A i \in 1 .. len : IsSnapshot(accounts[i])
    BY <1>2 DEF TypeInv, DBTypeOK
  <2>2. IsSnapshot(Latest)
    BY <1>2, <2>1 DEF Latest
  <2>3. tx.value \in Nat
    BY StoreAssumption DEF StoreAssumption
  <2>4. IsSnapshot(Applied(Latest, out))
    BY <2>2, <2>3, AppliedIsSnapshot
  <2> QED
    BY <1>2, <2>1, <2>4
<1>4. IsMap(hash_index') /\ \A h \in DOMAIN hash_index' : hash_index'[h] \in Nat
  <2>1. hash_index' = Put(hash_index, HeaderHash(block.header), block.header.number)
    BY DEF CommitTx, SaveBlock
  <2>2. blocks[len].header.number = len - 1
    BY <1>2 DEF TypeInv, ChainInv, ChainLinked, best_number
  <2>3. block.header.number \in Nat
    BY <1>2, <2>2, NewBlockFields DEF BestBlock
  <2> HIDE DEF block
  <2> QED
    BY <2>1, <2>3, PutIsMap, PutValues DEF TypeInv, DBTypeOK
<1>5. IsMap(infos')
  BY PutIsMap DEF CommitTx
<1>6. estimated' \subseteq 0 .. best_number'
  BY <1>2 DEF TypeInv, DBTypeOK, CommitTx, best_number
<1> QED
  BY <1>1, <1>3, <1>4, <1>5, <1>6 DEF TypeInv, ChainInv, Aligned, DBTypeOK

\* An estimate replaces a snapshot by a well-typed one.
LEMMA EstimateKeepsTypes ==
    ASSUME TypeInv, NEW n \in 0 .. best_number, NEW caller, NEW value \in Values,
           NEW to, NEW out \in Execute(accounts[n + 1], caller, value, to),
           EstimateGas(n, caller, value, to, out)
    PROVE  TypeInv'
<1>1. ChainInv'
  BY EstimateKeepsChain DEF TypeInv
<1>2. /\ UNCHANGED <<blocks, hash_index, infos>>
      /\ n + 1 \in 1 .. Len(blocks)
      /\ DOMAIN accounts = 1 .. Len(blocks)
      /\ DOMAIN accounts' = 1 .. Len(blocks)
      /\ \A i \in 1 .. Len(blocks) :
            accounts'[i] = IF i = n + 1 THEN Applied(accounts[i], out)
                           ELSE accounts[i]
  BY EstimateRewrites DEF TypeInv, ChainInv
<1>3. \A i \in DOMAIN accounts' : IsSnapshot(accounts'[i])
  <2>1. \A i \in 1 .. Len(blocks) : IsSnapshot(accounts[i])
    BY <1>2 DEF TypeInv, DBTypeOK
  <2>2. value \in Nat
    BY StoreAssumption DEF StoreAssumption
  <2>3. IsSnapshot(Applied(accounts[n + 1], out))
    BY <1>2, <2>1, <2>2, AppliedIsSnapshot
  <2> QED
    BY <1>2, <2>1, <2>3
<1>4. estimated' \subseteq 0 .. best_number'
  BY <1>2 DEF TypeInv, DBTypeOK, EstimateGas, best_number
<1> QED
  BY <1>1, <1>2, <1>3, <1>4 DEF TypeInv, ChainInv, Aligned, DBTypeOK

\* So every step keeps the types.
LEMMA StepKeepsTypes ==
    ASSUME TypeInv, [StoreStep]_dbVars
    PROVE  TypeInv'
<1>1. CASE UNCHANGED dbVars
  <2>1. ChainInv'
    BY StepKeepsChain DEF TypeInv
  <2> QED
    BY <1>1, <2>1 DEF TypeInv, DBTypeOK, best_number, dbVars
<1>2. CASE StoreStep
  BY <1>2, CommitKeepsTypes, EstimateKeepsTypes DEF StoreStep
<1> QED
  BY <1>1, <1>2

\* The invariant the types are read off.
THEOREM TypeInvAlways == StoreSpec => []TypeInv
<1>1. DBInit => TypeInv
  BY InitTypes
<1>2. TypeInv /\ [StoreStep]_dbVars => TypeInv'
  BY StepKeepsTypes
<1> QED
  BY <1>1, <1>2, PTL DEF StoreSpec

\* The store is always well typed; in particular no snapshot ever stores a zero
\* word, no nonce or balance goes below zero, whatever contract code does
\* (db.rs: apply).
THEOREM DBTypeOKAlways == DBSpec => []DBTypeOK
<1>1. TypeInv => DBTypeOK
  BY DEF TypeInv
<1> QED
  BY <1>1, TypeInvAlways, BoundedStoreIsStore, PTL

-----------------------------------------------------------------------------
(* The hash index and the records of transactions                          *)

IndexInv == ChainInv /\ HashIndexExact

ReceiptInv == IndexInv /\ ReceiptsSound

\* The index of the genesis block is exact, and there are no records yet.
LEMMA InitIndex ==
    ASSUME DBInit
    PROVE  ReceiptInv
<1>1. PICK now \in Times : CreateGenesis(now)
  BY DEF DBInit
<1> DEFINE hash == HeaderHash(blocks[1].header)
<1>2. hash_index = Put(EmptyMap, hash, 0)
  BY <1>1 DEF CreateGenesis
<1>3. /\ \A k : k \in DOMAIN hash_index <=> k = hash
      /\ hash_index[hash] = 0
  BY <1>2, EmptyMapIsMap, PutIsMap
<1>4. /\ ChainInv
      /\ best_number = 0
      /\ \A n \in 0 .. 0 : n = 0
      /\ DOMAIN blocks = 1 .. 1
      /\ \A i \in 1 .. 1 : i = 1
  BY InitChain, InitAligned DEF best_number
<1>5. HashIndexExact
  BY <1>3, <1>4 DEF HashIndexExact
<1>6. ReceiptsSound
  BY EmptyMapIsMap DEF DBInit, ReceiptsSound
<1> QED
  BY <1>4, <1>5, <1>6 DEF IndexInv, ReceiptInv

\* The hash of a new block is in no way the hash of an old one, so its entry
\* replaces none.
LEMMA CommitKeepsIndex ==
    ASSUME IndexInv, NEW tx, NEW now, NEW out, CommitTx(tx, now, out)
    PROVE  LET block == NewBlock(<<tx>>, now)
           IN  /\ IndexInv'
               /\ HeaderHash(block.header) \in DOMAIN hash_index'
               /\ hash_index'[HeaderHash(block.header)] = Len(blocks)
               /\ \A h \in DOMAIN hash_index :
                     h \in DOMAIN hash_index' /\ hash_index'[h] = hash_index[h]
<1> DEFINE block == NewBlock(<<tx>>, now)
           hash  == HeaderHash(block.header)
           len   == Len(blocks)
<1>1. ChainInv'
  BY CommitKeepsChain DEF IndexInv
<1>2. /\ len \in Nat \ {0}
      /\ Len(blocks') = len + 1
      /\ DOMAIN blocks = 1 .. len
      /\ DOMAIN blocks' = 1 .. len + 1
      /\ blocks'[len + 1] = block
      /\ \A i \in 1 .. len : blocks'[i] = blocks[i]
  BY CommitExtends DEF IndexInv, ChainInv
<1>3. \A i \in 1 .. len : /\ blocks[i].header.number = i - 1
                          /\ blocks[i].header.hash = Keccak(Rlp(blocks[i].header))
  <2>1. ASSUME NEW i \in 1 .. len
        PROVE  i - 1 \in 0 .. best_number /\ (i - 1) + 1 = i
    BY <1>2 DEF best_number
  <2> QED
    BY <2>1 DEF IndexInv, ChainInv, ChainLinked, HashesFresh
<1>4. block.header.number = len /\ hash = Keccak(Rlp(block.header))
  BY <1>2, <1>3, NewBlockFields DEF BestBlock
<1>5. \A i \in 1 .. len : HeaderHash(blocks[i].header) = Keccak(Rlp(blocks[i].header))
  BY <1>3 DEF HeaderHash
<1>6. \A i \in 1 .. len : HeaderHash(blocks[i].header) # hash
  <2>1. \A i \in 1 .. len : blocks[i].header.number # block.header.number
    BY <1>2, <1>3, <1>4
  <2> QED
    BY <1>4, <1>5, <2>1, HashesDiffer
<1>7. hash_index' = Put(hash_index, hash, len)
  BY <1>4 DEF CommitTx, SaveBlock
<1> HIDE DEF block, hash
<1>8. /\ hash \notin DOMAIN hash_index
      /\ \A h : h \in DOMAIN hash_index <=> \E i \in 1 .. len : h = HeaderHash(blocks[i].header)
      /\ \A i \in 1 .. len : hash_index[HeaderHash(blocks[i].header)] = i - 1
  <2>1. \A h : h \in DOMAIN hash_index <=> \E i \in 1 .. len : h = HeaderHash(blocks[i].header)
    BY <1>2 DEF IndexInv, HashIndexExact
  <2>2. ASSUME NEW i \in 1 .. len
        PROVE  hash_index[HeaderHash(blocks[i].header)] = i - 1
    <3>1. i - 1 \in 0 .. best_number /\ (i - 1) + 1 = i
      BY <1>2 DEF best_number
    <3> QED
      BY <3>1 DEF IndexInv, HashIndexExact
  <2> QED
    BY <1>6, <2>1, <2>2
<1>9. /\ \A h : h \in DOMAIN hash_index' <=> h \in DOMAIN hash_index \/ h = hash
      /\ hash_index'[hash] = len
      /\ \A h \in DOMAIN hash_index : hash_index'[h] = hash_index[h]
  BY <1>7, <1>8, PutIsMap
<1>10. HashIndexExact'
  <2>1. HeaderHash(blocks'[len + 1].header) = hash
    BY <1>2 DEF hash
  <2>2. \A h : h \in DOMAIN hash_index' <=>
               \E i \in 1 .. len + 1 : h = HeaderHash(blocks'[i].header)
    <3>1. \A i \in 1 .. len : HeaderHash(blocks'[i].header) = HeaderHash(blocks[i].header)
      BY <1>2
    <3>2. ASSUME NEW h \in DOMAIN hash_index'
          PROVE  \E i \in 1 .. len + 1 : h = HeaderHash(blocks'[i].header)
      <4>1. CASE h = hash
        BY <1>2, <2>1, <4>1
      <4>2. CASE h \in DOMAIN hash_index
        <5>1. PICK i \in 1 .. len : h = HeaderHash(blocks[i].header)
          BY <1>8, <4>2
        <5>2. i \in 1 .. len + 1 /\ h = HeaderHash(blocks'[i].header)
          BY <1>2, <3>1, <5>1
        <5> QED
          BY <5>2
      <4> QED
        BY <1>9, <4>1, <4>2
    <3>3. ASSUME NEW i \in 1 .. len + 1
          PROVE  HeaderHash(blocks'[i].header) \in DOMAIN hash_index'
      <4>1. CASE i = len + 1
        BY <1>9, <2>1, <4>1
      <4>2. CASE i \in 1 .. len
        <5>1. HeaderHash(blocks[i].header) \in DOMAIN hash_index
          BY <1>8, <4>2
        <5> QED
          BY <1>9, <3>1, <4>2, <5>1
      <4> QED
        BY <1>2, <4>1, <4>2
    <3> QED
      BY <3>2, <3>3
  <2>3. DOMAIN hash_index' = {HeaderHash(blocks'[i].header) : i \in DOMAIN blocks'}
    BY <1>2, <2>2
  <2>4. ASSUME NEW n \in 0 .. best_number'
        PROVE  hash_index'[HeaderHash(blocks'[n + 1].header)] = n
    <3>1. n + 1 \in 1 .. len + 1
      BY <1>2 DEF best_number
    <3>2. CASE n + 1 = len + 1
      BY <1>2, <1>9, <2>1, <3>2
    <3>3. CASE n + 1 \in 1 .. len
      BY <1>2, <1>8, <1>9, <3>3
    <3> QED
      BY <1>2, <3>1, <3>2, <3>3
  <2> QED
    BY <2>3, <2>4 DEF HashIndexExact
<1> QED
  BY <1>1, <1>9, <1>10 DEF IndexInv, block, hash

\* The new record names the new block; old records keep their blocks.
LEMMA CommitKeepsReceipts ==
    ASSUME ReceiptInv, NEW tx, NEW now, NEW out, CommitTx(tx, now, out)
    PROVE  ReceiptInv'
<1> DEFINE block == NewBlock(<<tx>>, now)
           hash  == HeaderHash(block.header)
           len   == Len(blocks)
           new   == TransactionInfo(tx, block, BestBlock, out.logs)
<1>1. /\ IndexInv'
      /\ hash \in DOMAIN hash_index'
      /\ hash_index'[hash] = len
      /\ \A h \in DOMAIN hash_index :
            h \in DOMAIN hash_index' /\ hash_index'[h] = hash_index[h]
  BY CommitKeepsIndex DEF ReceiptInv
<1>2. /\ len \in Nat \ {0}
      /\ Len(blocks') = len + 1
      /\ blocks'[len + 1] = block
      /\ \A i \in 1 .. len : blocks'[i] = blocks[i]
  BY CommitExtends DEF ReceiptInv, IndexInv, ChainInv
<1>3. /\ block.transactions = <<tx>>
      /\ new.transaction = tx
      /\ new.post_state = blocks[len].header.state_root
      /\ new.parent_hash = HeaderHash(blocks[len].header)
      /\ new.block_hash = hash
      /\ new.index = 0
  BY NewBlockFields DEF TransactionInfo, BestBlock
<1>4. infos' = Put(infos, TxHash(tx), new)
  BY DEF CommitTx
<1> HIDE DEF block, hash, new
<1>5. /\ \A h \in DOMAIN infos' : h = TxHash(tx) \/ h \in DOMAIN infos
      /\ infos'[TxHash(tx)] = new
      /\ \A h \in DOMAIN infos \ {TxHash(tx)} : infos'[h] = infos[h]
  BY <1>4, PutIsMap
<1>6. ASSUME NEW h \in DOMAIN infos'
      PROVE  LET info == infos'[h]
                 n    == hash_index'[info.block_hash]
             IN  /\ info.block_hash \in DOMAIN hash_index'
                 /\ n \in 1 .. best_number'
                 /\ TxHash(info.transaction) = h
                 /\ blocks'[n + 1].transactions[info.index + 1] = info.transaction
                 /\ info.parent_hash = HeaderHash(blocks'[n].header)
                 /\ info.post_state = blocks'[n].header.state_root
  <2>1. CASE h = TxHash(tx)
    BY <1>1, <1>2, <1>3, <1>5, <2>1 DEF best_number
  <2>2. CASE h # TxHash(tx)
    <3> DEFINE info == infos[h]
               n    == hash_index[info.block_hash]
    <3>1. h \in DOMAIN infos /\ infos'[h] = info
      BY <1>5, <2>2
    <3>2. /\ info.block_hash \in DOMAIN hash_index
          /\ n \in 1 .. best_number
          /\ TxHash(info.transaction) = h
          /\ blocks[n + 1].transactions[info.index + 1] = info.transaction
          /\ info.parent_hash = HeaderHash(blocks[n].header)
          /\ info.post_state = blocks[n].header.state_root
      BY <3>1 DEF ReceiptInv, ReceiptsSound
    <3>3. /\ info.block_hash \in DOMAIN hash_index'
          /\ hash_index'[info.block_hash] = n
      BY <1>1, <3>2
    <3> HIDE DEF info, n
    <3>4. /\ n \in 1 .. best_number'
          /\ blocks'[n + 1] = blocks[n + 1]
          /\ blocks'[n] = blocks[n]
      BY <1>2, <3>2 DEF best_number
    <3> QED
      BY <3>1, <3>2, <3>3, <3>4
  <2> QED
    BY <2>1, <2>2
<1>7. ReceiptsSound'
  BY <1>6 DEF ReceiptsSound
<1> QED
  BY <1>1, <1>7 DEF ReceiptInv

\* So every step keeps the index exact and the records sound.
LEMMA StepKeepsReceipts ==
    ASSUME ReceiptInv, [StoreStep]_dbVars
    PROVE  ReceiptInv'
<1>1. ASSUME UNCHANGED <<blocks, hash_index, infos>>
      PROVE  ReceiptInv'
  <2>1. ChainInv'
    BY StepKeepsChain DEF ReceiptInv, IndexInv
  <2> QED
    BY <1>1, <2>1 DEF ReceiptInv, IndexInv, HashIndexExact, ReceiptsSound, best_number
<1>2. CASE UNCHANGED dbVars
  BY <1>1, <1>2 DEF dbVars
<1>3. ASSUME NEW n, NEW caller, NEW value, NEW to, NEW out,
             EstimateGas(n, caller, value, to, out)
      PROVE  ReceiptInv'
  BY <1>1, <1>3 DEF EstimateGas
<1>4. CASE StoreStep
  BY <1>3, <1>4, CommitKeepsReceipts DEF StoreStep
<1> QED
  BY <1>2, <1>4

\* The invariant the next theorems are read off.
THEOREM ReceiptInvAlways == StoreSpec => []ReceiptInv
<1>1. DBInit => ReceiptInv
  BY InitIndex
<1>2. ReceiptInv /\ [StoreStep]_dbVars => ReceiptInv'
  BY StepKeepsReceipts
<1> QED
  BY <1>1, <1>2, PTL DEF StoreSpec

\* The hash index is always the exact inverse of the chain: every block is
\* found by its hash, at its own height, and no two blocks share a hash
\* (db.rs: save_block).
THEOREM HashIndexExactAlways == DBSpec => []HashIndexExact
<1>1. ReceiptInv => HashIndexExact
  BY DEF ReceiptInv, IndexInv
<1> QED
  BY <1>1, ReceiptInvAlways, BoundedStoreIsStore, PTL

\* Every record of a transaction always leads to the block of the chain that
\* holds the transaction, and to that block's parent.  So the unwraps in
\* `receipt' never fail (db.rs, receipt).
THEOREM ReceiptsSoundAlways == DBSpec => []ReceiptsSound
<1>1. ReceiptInv => ReceiptsSound
  BY DEF ReceiptInv
<1> QED
  BY <1>1, ReceiptInvAlways, BoundedStoreIsStore, PTL

-----------------------------------------------------------------------------
(* History                                                                 *)

\* What HistoryKept says of one step.
KeepsHistory ==
    /\ \A i \in DOMAIN blocks : blocks'[i] = blocks[i]
    /\ \A h \in DOMAIN hash_index : hash_index'[h] = hash_index[h]
    /\ \A n \in (0 .. best_number) \ estimated' :
          accounts'[n + 1] = accounts[n + 1]
    /\ Len(accounts') - Len(accounts) = Len(blocks') - Len(blocks)

\* A commit only adds at the end.
LEMMA CommitKeepsHistory ==
    ASSUME ReceiptInv, NEW tx, NEW now, NEW out, CommitTx(tx, now, out)
    PROVE  KeepsHistory
<1>1. /\ Len(blocks) \in Nat \ {0}
      /\ Len(blocks') = Len(blocks) + 1
      /\ DOMAIN blocks = 1 .. Len(blocks)
      /\ \A i \in 1 .. Len(blocks) : blocks'[i] = blocks[i]
      /\ \A i \in 1 .. Len(blocks) : accounts'[i] = accounts[i]
      /\ Aligned'
  BY CommitExtends DEF ReceiptInv, IndexInv, ChainInv
<1>2. \A h \in DOMAIN hash_index : hash_index'[h] = hash_index[h]
  BY CommitKeepsIndex DEF ReceiptInv
<1>3. ASSUME NEW n \in 0 .. best_number
      PROVE  accounts'[n + 1] = accounts[n + 1]
  BY <1>1 DEF best_number
<1>4. Len(accounts') = Len(blocks') /\ Len(accounts) = Len(blocks)
  BY <1>1 DEF ReceiptInv, IndexInv, ChainInv, Aligned, SnapshotPerBlock
<1> QED
  BY <1>1, <1>2, <1>3, <1>4 DEF KeepsHistory

\* An estimate changes a snapshot only when it executed with success, and then
\* its height is in the history variable.
LEMMA EstimateKeepsHistory ==
    ASSUME ReceiptInv, NEW n, NEW caller, NEW value, NEW to, NEW out,
           EstimateGas(n, caller, value, to, out)
    PROVE  KeepsHistory
<1>1. /\ UNCHANGED <<blocks, hash_index, infos>>
      /\ n \in 0 .. best_number
      /\ Len(blocks) \in Nat \ {0}
      /\ \A i \in 1 .. Len(blocks) :
            accounts'[i] = IF i = n + 1 THEN Applied(accounts[i], out)
                           ELSE accounts[i]
      /\ Aligned'
  BY EstimateRewrites DEF ReceiptInv, IndexInv, ChainInv
<1>2. ASSUME NEW m \in (0 .. best_number) \ estimated'
      PROVE  accounts'[m + 1] = accounts[m + 1]
  <2>1. m + 1 \in 1 .. Len(blocks)
    BY <1>1 DEF best_number
  <2>2. CASE m = n
    <3>1. ~out.ok
      BY <2>2 DEF EstimateGas
    <3> QED
      BY <1>1, <2>1, <3>1 DEF Applied
  <2>3. CASE m # n
    BY <1>1, <2>1, <2>3 DEF best_number
  <2> QED
    BY <2>2, <2>3
<1>3. /\ Len(accounts') = Len(accounts)
      /\ Len(accounts) = Len(blocks)
  BY <1>1 DEF ReceiptInv, IndexInv, ChainInv, Aligned, SnapshotPerBlock
<1> QED
  BY <1>1, <1>2, <1>3 DEF KeepsHistory

\* The same of the store without bounds (db.rs: submit_tx, estimate_gas).
THEOREM StoreKeepsHistory == StoreSpec => HistoryKept
<1>1. ReceiptInv /\ [StoreStep]_dbVars => [KeepsHistory]_dbVars
  BY CommitKeepsHistory, EstimateKeepsHistory DEF StoreStep
<1>2. [][KeepsHistory]_dbVars => HistoryKept
  BY PTL DEF HistoryKept, KeepsHistory
<1> QED
  BY <1>1, <1>2, ReceiptInvAlways, PTL DEF StoreSpec

\* No step ever rewrites history, save that an estimate may rewrite the one
\* snapshot it runs on (db.rs: submit_tx clones the last snapshot, estimate_gas
\* executes on the stored one).
THEOREM HistoryAlwaysKept == DBSpec => HistoryKept
BY StoreKeepsHistory, BoundedStoreIsStore, PTL
=============================================================================
