----------------------------- MODULE HistoryProofs -----------------------------
(***************************************************************************)
(* What the snapshots of the store hold: how they follow from one another, *)
(* the nonces and contracts in them, and that nothing is ever minted.  And *)
(* its records, by which the store implements the ledger.                  *)
(***************************************************************************)
EXTENDS HashMapEthDBProofs, FiniteSetTheorems

-----------------------------------------------------------------------------
(* Snapshots follow from their parents                                     *)

ReplayInv == ChainInv /\ SnapshotsReplay

\* What a commit does to the snapshots and transactions, in terms of heights.
LEMMA CommitHeights ==
    ASSUME ChainInv, NEW tx, NEW now, NEW out, CommitTx(tx, now, out)
    PROVE  /\ best_number \in Nat
           /\ best_number' = best_number + 1
           /\ \A n \in 1 .. best_number : TxOf(n)' = TxOf(n)
           /\ \A n : n = best_number' => TxOf(n)' = tx
           /\ \A n \in 0 .. best_number : accounts'[n + 1] = accounts[n + 1]
           /\ Latest = accounts[best_number + 1]
           /\ Latest = accounts'[best_number']
           /\ accounts'[best_number' + 1] = Applied(Latest, out)
           /\ estimated' = estimated
<1> DEFINE block == NewBlock(<<tx>>, now)
<1>1. /\ Len(blocks) \in Nat \ {0}
      /\ Len(blocks') = Len(blocks) + 1
      /\ blocks'[Len(blocks) + 1] = block
      /\ \A i \in 1 .. Len(blocks) : blocks'[i] = blocks[i]
      /\ accounts'[Len(blocks) + 1] = Applied(Latest, out)
      /\ \A i \in 1 .. Len(blocks) : accounts'[i] = accounts[i]
  BY CommitExtends DEF ChainInv
<1>2. block.transactions = <<tx>>
  BY NewBlockFields
<1> HIDE DEF block
<1>3. Latest = accounts[Len(blocks)]
  BY DEF Latest, ChainInv, Aligned, SnapshotPerBlock
<1>4. estimated' = estimated
  BY DEF CommitTx
<1> QED
  BY <1>1, <1>2, <1>3, <1>4 DEF best_number, TxOf

\* And what an estimate does.
LEMMA EstimateHeights ==
    ASSUME ChainInv, NEW n, NEW caller, NEW value, NEW to, NEW out,
           EstimateGas(n, caller, value, to, out)
    PROVE  /\ n \in 0 .. best_number
           /\ best_number \in Nat
           /\ best_number' = best_number
           /\ \A m : TxOf(m)' = TxOf(m)
           /\ \A m \in 0 .. best_number : m # n => accounts'[m + 1] = accounts[m + 1]
           /\ accounts'[n + 1] = Applied(accounts[n + 1], out)
           /\ out.ok => n \in estimated'
           /\ ~out.ok => \A m \in 0 .. best_number : accounts'[m + 1] = accounts[m + 1]
           /\ estimated \subseteq estimated'
<1>1. /\ UNCHANGED <<blocks, hash_index, infos>>
      /\ n \in 0 .. best_number
      /\ Len(blocks) \in Nat \ {0}
      /\ \A i \in 1 .. Len(blocks) :
            accounts'[i] = IF i = n + 1 THEN Applied(accounts[i], out) ELSE accounts[i]
  BY EstimateRewrites DEF ChainInv
<1>2. \A m \in 0 .. best_number : accounts'[m + 1] =
          IF m = n THEN Applied(accounts[m + 1], out) ELSE accounts[m + 1]
  BY <1>1 DEF best_number
<1>3. (out.ok => n \in estimated') /\ estimated \subseteq estimated'
  BY DEF EstimateGas
<1>4. best_number \in Nat /\ best_number' = best_number
  BY <1>1 DEF best_number
<1>5. \A m : TxOf(m)' = TxOf(m)
  BY <1>1 DEF TxOf
<1>6. ~out.ok => \A m \in 0 .. best_number : accounts'[m + 1] = accounts[m + 1]
  BY <1>2 DEF Applied
<1> QED
  BY <1>1, <1>2, <1>3, <1>4, <1>5, <1>6

\* The new snapshot replays by the very outcome it was made from.
LEMMA CommitReplays ==
    ASSUME ReplayInv, NEW tx, NEW now,
           NEW out \in Execute(Latest, tx.sender, tx.value, receiver(tx)), out.ok,
           CommitTx(tx, now, out)
    PROVE  ReplayInv'
<1>1. /\ best_number \in Nat
      /\ best_number' = best_number + 1
      /\ \A n \in 1 .. best_number : TxOf(n)' = TxOf(n)
      /\ \A n : n = best_number' => TxOf(n)' = tx
      /\ \A n \in 0 .. best_number : accounts'[n + 1] = accounts[n + 1]
      /\ Latest = accounts'[best_number']
      /\ accounts'[best_number' + 1] = Applied(Latest, out)
      /\ estimated' = estimated
  BY CommitHeights DEF ReplayInv
<1>2. ASSUME NEW n \in 1 .. best_number', {n - 1, n} \cap estimated' = {}
      PROVE  \E o \in Execute(accounts'[n], TxOf(n)'.sender, TxOf(n)'.value, receiver(TxOf(n)')) :
                o.ok /\ accounts'[n + 1] = Applied(accounts'[n], o)
  <2>1. CASE n = best_number'
    BY <1>1, <2>1
  <2>2. CASE n \in 1 .. best_number
    <3>1. \E o \in Execute(accounts[n], TxOf(n).sender, TxOf(n).value, receiver(TxOf(n))) :
                o.ok /\ accounts[n + 1] = Applied(accounts[n], o)
      BY <1>1, <1>2, <2>2 DEF ReplayInv, SnapshotsReplay
    <3>2. accounts'[n] = accounts[n] /\ accounts'[n + 1] = accounts[n + 1]
      <4>1. n - 1 \in 0 .. best_number /\ (n - 1) + 1 = n
        BY <1>1, <2>2
      <4> QED
        BY <1>1, <2>2, <4>1
    <3> QED
      BY <1>1, <2>2, <3>1, <3>2
  <2> QED
    BY <1>1, <2>1, <2>2
<1>3. SnapshotsReplay'
  BY <1>2 DEF SnapshotsReplay, TxOf
<1> QED
  BY <1>3, CommitKeepsChain DEF ReplayInv

\* An estimate that changed a snapshot is remembered at its height.
LEMMA EstimateReplays ==
    ASSUME ReplayInv, NEW n, NEW caller, NEW value, NEW to, NEW out,
           EstimateGas(n, caller, value, to, out)
    PROVE  ReplayInv'
<1>1. /\ n \in 0 .. best_number
      /\ best_number \in Nat
      /\ best_number' = best_number
      /\ \A m : TxOf(m)' = TxOf(m)
      /\ \A m \in 0 .. best_number : m # n => accounts'[m + 1] = accounts[m + 1]
      /\ out.ok => n \in estimated'
      /\ ~out.ok => \A m \in 0 .. best_number : accounts'[m + 1] = accounts[m + 1]
      /\ estimated \subseteq estimated'
  BY EstimateHeights DEF ReplayInv
<1>2. ASSUME NEW m \in 1 .. best_number, {m - 1, m} \cap estimated' = {}
      PROVE  \E o \in Execute(accounts'[m], TxOf(m)'.sender, TxOf(m)'.value, receiver(TxOf(m)')) :
                o.ok /\ accounts'[m + 1] = Applied(accounts'[m], o)
  <2>1. \E o \in Execute(accounts[m], TxOf(m).sender, TxOf(m).value, receiver(TxOf(m))) :
                o.ok /\ accounts[m + 1] = Applied(accounts[m], o)
    BY <1>1, <1>2 DEF ReplayInv, SnapshotsReplay
  <2>2. m - 1 \in 0 .. best_number /\ (m - 1) + 1 = m /\ m \in 0 .. best_number
    BY <1>1
  <2>3. accounts'[m] = accounts[m] /\ accounts'[m + 1] = accounts[m + 1]
    BY <1>1, <1>2, <2>2
  <2> QED
    BY <1>1, <2>1, <2>3
<1>3. SnapshotsReplay'
  BY <1>1, <1>2 DEF SnapshotsReplay, TxOf
<1> QED
  BY <1>3, EstimateKeepsChain DEF ReplayInv

\* Replayed snapshots stay so through every step of the store.
LEMMA StepKeepsReplay ==
    ASSUME ReplayInv, [StoreStep]_dbVars
    PROVE  ReplayInv'
<1>1. CASE UNCHANGED dbVars
  <2>1. ChainInv'
    BY <1>1, StepKeepsChain DEF ReplayInv
  <2> QED
    BY <1>1, <2>1 DEF ReplayInv, SnapshotsReplay, best_number, TxOf, dbVars
<1> QED
  BY <1>1, CommitReplays, EstimateReplays DEF StoreStep

\* The invariant the next theorem is read off.
THEOREM ReplayInvAlways == StoreSpec => []ReplayInv
<1>1. DBInit => ReplayInv
  <2>1. ASSUME DBInit PROVE ChainInv /\ best_number = 0
    BY <2>1, InitChain, InitAligned DEF best_number
  <2> QED
    BY <2>1 DEF ReplayInv, SnapshotsReplay
<1>2. ReplayInv /\ [StoreStep]_dbVars => ReplayInv'
  BY StepKeepsReplay
<1> QED
  BY <1>1, <1>2, PTL DEF StoreSpec

\* Every snapshot is what a successful run of its block's transaction makes of
\* the snapshot before it, unless an estimate rewrote one of the two (db.rs:
\* submit_tx executes on a clone of the last snapshot and pushes that clone).
THEOREM SnapshotsReplayAlways == DBSpec => []SnapshotsReplay
<1>1. ReplayInv => SnapshotsReplay
  BY DEF ReplayInv
<1> QED
  BY <1>1, ReplayInvAlways, BoundedStoreIsStore, PTL

-----------------------------------------------------------------------------
(* What a successful execution does to a snapshot                          *)

\* An account that has no code and is no contract's.
Ordinary(accts, a) == code(accts, a) = EmptyCode /\ \A s, n : a # CreateAddress(s, n)

\* Whatever code runs, it neither deletes an ordinary account nor gives it code or
\* another nonce: at most it is touched.
LEMMA RanOrdinary ==
    ASSUME NEW accts, IsSnapshot(accts), NEW frame, IsModifies(frame), NEW at,
           NEW e \in Effects, Possible(accts, frame, at, e),
           NEW a, Ordinary(accts, a), a # at
    PROVE  LET out == Ran(accts, frame, at, e)
           IN  /\ a \notin out.deletes
               /\ a \in DOMAIN frame => a \in DOMAIN out.modifies
               /\ a \in DOMAIN out.modifies =>
                     LET m == IF a \in DOMAIN frame THEN frame[a] ELSE Touched(accts, a)
                     IN  /\ out.modifies[a].nonce = m.nonce
                         /\ out.modifies[a].code = m.code
<1> DEFINE out     == Ran(accts, frame, at, e)
           reached == Reached(accts, frame, at, e)
           deletes == (IF e.destroys THEN {at} ELSE {})
                         \cup {b \in DOMAIN e.calls : e.calls[b].destroys}
           m       == IF a \in DOMAIN frame THEN frame[a] ELSE Touched(accts, a)
<1>1. /\ out.deletes = deletes
      /\ out.modifies = [b \in DOMAIN reached \ deletes |-> Left(reached[b], frame, at, e, b)]
  BY DEF Ran
<1>2. a \notin deletes
  BY DEF Possible, Ordinary
<1>3. a # ChildAddress(frame, at, e)
  BY DEF ChildAddress, Ordinary
<1>4. /\ a \in DOMAIN frame => a \in DOMAIN reached
      /\ a \in DOMAIN reached => reached[a] = m
  BY <1>3 DEF Reached
<1>5. ASSUME a \in DOMAIN reached
      PROVE  /\ Left(reached[a], frame, at, e, a).nonce = m.nonce
             /\ Left(reached[a], frame, at, e, a).code = m.code
  <2>1. IsModification(m)
    BY TouchedIsModification DEF IsModifies
  <2> HIDE DEF m
  <2>2. /\ Left(m, frame, at, e, a).nonce = m.nonce + (IF a = at THEN e.creates ELSE 0)
        /\ Left(m, frame, at, e, a).code = m.code
    BY <2>1, LeftFields
  <2>3. m.nonce \in Nat
    BY <2>1 DEF IsModification
  <2> QED
    BY <1>4, <1>5, <2>2, <2>3
<1> HIDE DEF out, reached, deletes, m
<1> QED
  BY <1>1, <1>2, <1>4, <1>5 DEF out, m

\* What a success of the EVM does to an ordinary account (db.rs, execute).
LEMMA OutcomeOrdinary ==
    ASSUME NEW accts, IsSnapshot(accts), NEW sender, NEW value \in Nat, NEW to,
           NEW out \in Execute(accts, sender, value, to), out.ok,
           NEW a, Ordinary(accts, a)
    PROVE  /\ a \notin out.deletes
           /\ a = sender => a \in DOMAIN out.modifies
           /\ a \in DOMAIN out.modifies =>
                 /\ out.modifies[a].nonce =
                       basic(accts, a).nonce + (IF a = sender THEN 1 ELSE 0)
                 /\ out.modifies[a].code = KeepCode
<1> DEFINE at    == Target(accts, sender, to)
           frame == Frame(accts, sender, value, at)
           nonce == basic(accts, a).nonce + (IF a = sender THEN 1 ELSE 0)
<1>1. /\ DOMAIN frame = {sender, at}
      /\ a \in DOMAIN frame => frame[a].nonce = nonce /\ frame[a].code = KeepCode
  BY DEF Frame
<1>2. Touched(accts, a).nonce = basic(accts, a).nonce /\ Touched(accts, a).code = KeepCode
  BY DEF Touched
<1>3. basic(accts, a).nonce \in Nat
  BY DEF basic, IsSnapshot, IsAccount
<1>4. /\ ~(basic(accts, sender).balance < value)
      /\ \/ out = Success(frame, <<>>)
         \/ /\ code(accts, at) # EmptyCode
            /\ \E e \in Effects : /\ Possible(accts, frame, at, e)
                                  /\ out = Ran(accts, frame, at, e)
         \/ /\ to = None
            /\ \E c \in Codes, e \in Effects :
                  /\ Possible(accts, Deployed(frame, at, c), at, e)
                  /\ out = Ran(accts, Deployed(frame, at, c), at, e)
  BY OutcomeShape
<1>5. IsModifies(frame)
  BY <1>4, FrameIsModifies
<1>6. to = None => a # at
  BY DEF Ordinary, Target
<1> HIDE DEF at, frame
<1>7. CASE out = Success(frame, <<>>)
  BY <1>1, <1>7 DEF Success
<1>8. ASSUME code(accts, at) # EmptyCode, NEW e \in Effects,
             Possible(accts, frame, at, e), out = Ran(accts, frame, at, e)
      PROVE  /\ a \notin out.deletes
             /\ a = sender => a \in DOMAIN out.modifies
             /\ a \in DOMAIN out.modifies =>
                   out.modifies[a].nonce = nonce /\ out.modifies[a].code = KeepCode
  <2>1. a # at
    BY <1>8 DEF Ordinary
  <2> QED
    BY <1>1, <1>2, <1>3, <1>5, <1>8, <2>1, RanOrdinary
<1>9. ASSUME to = None, NEW c \in Codes, NEW e \in Effects,
             Possible(accts, Deployed(frame, at, c), at, e),
             out = Ran(accts, Deployed(frame, at, c), at, e)
      PROVE  /\ a \notin out.deletes
             /\ a = sender => a \in DOMAIN out.modifies
             /\ a \in DOMAIN out.modifies =>
                   out.modifies[a].nonce = nonce /\ out.modifies[a].code = KeepCode
  <2>1. a # at
    BY <1>6, <1>9
  <2>2. IsModifies(Deployed(frame, at, c))
    BY <1>1, <1>5, DeployedIsModifies
  <2>3. /\ DOMAIN Deployed(frame, at, c) = {sender, at}
        /\ Deployed(frame, at, c)[a] = frame[a]
    BY <1>1, <2>1 DEF Deployed
  <2> QED
    BY <1>1, <1>2, <1>3, <1>9, <2>1, <2>2, <2>3, RanOrdinary
<1> QED
  BY <1>4, <1>7, <1>8, <1>9

\* So an ordinary account keeps its code, and its nonce counts what it sent.
LEMMA AppliedNonce ==
    ASSUME NEW accts, IsSnapshot(accts), NEW sender, NEW value \in Nat, NEW to,
           NEW out \in Execute(accts, sender, value, to), out.ok,
           NEW a, Ordinary(accts, a)
    PROVE  /\ basic(Applied(accts, out), a).nonce =
                 basic(accts, a).nonce + (IF a = sender THEN 1 ELSE 0)
           /\ code(Applied(accts, out), a) = code(accts, a)
<1> DEFINE after == Applied(accts, out)
<1>1. /\ a \notin out.deletes
      /\ a = sender => a \in DOMAIN out.modifies
      /\ a \in DOMAIN out.modifies =>
            /\ out.modifies[a].nonce =
                  basic(accts, a).nonce + (IF a = sender THEN 1 ELSE 0)
            /\ out.modifies[a].code = KeepCode
  BY OutcomeOrdinary
<1>3. basic(accts, a).nonce \in Nat
  BY DEF basic, IsSnapshot, IsAccount
<1>4. after = Apply(accts, out.modifies, out.deletes, FALSE)
  BY DEF Applied
<1>5. CASE a \in DOMAIN out.modifies
  <2>1. /\ a \in DOMAIN after
        /\ after[a].nonce = out.modifies[a].nonce
        /\ after[a].code = code(accts, a)
    BY <1>1, <1>4, <1>5 DEF Apply, Modified, code, DefaultAccount
  <2> QED
    BY <1>1, <1>5, <2>1 DEF basic, code
<1>6. CASE a \notin DOMAIN out.modifies
  <2>1. /\ a \in DOMAIN after <=> a \in DOMAIN accts
        /\ a \in DOMAIN accts => after[a] = accts[a]
    BY <1>1, <1>4, <1>6 DEF Apply
  <2> QED
    BY <1>1, <1>3, <1>6, <2>1 DEF basic, code
<1> QED
  BY <1>5, <1>6

-----------------------------------------------------------------------------
(* Contracts                                                               *)

\* A successful deployment leaves an account with a nonce past zero where nothing
\* was, or destroys it.
LEMMA DeploymentIsThere ==
    ASSUME NEW accts, NEW sender, NEW value,
           NEW out \in Execute(accts, sender, value, None), out.ok
    PROVE  LET at == CreateAddress(sender, basic(accts, sender).nonce)
           IN  /\ Vacant(accts, at)
               /\ basic(Applied(accts, out), at).nonce > 0 \/ at \in out.deletes
<1> DEFINE at    == CreateAddress(sender, basic(accts, sender).nonce)
           frame == Frame(accts, sender, value, at)
<1>1. Target(accts, sender, None) = at
  BY DEF Target
<1> HIDE DEF at, frame
<1>2. /\ Vacant(accts, at)
      /\ \E c \in Codes, e \in Effects :
            out = Ran(accts, Deployed(frame, at, c), at, e)
  BY <1>1, OutcomeShape DEF frame
<1>3. at \in DOMAIN frame /\ frame[at].nonce \in Nat
  BY <1>2 DEF frame, Frame, Vacant
<1>4. ASSUME NEW c \in Codes, NEW e \in Effects,
             out = Ran(accts, Deployed(frame, at, c), at, e), at \notin out.deletes
      PROVE  basic(Applied(accts, out), at).nonce > 0
  <2> DEFINE deployed == Deployed(frame, at, c)
             new      == NewContract(frame[at], c)
             reached  == Reached(accts, deployed, at, e)
  <2>1. /\ at \in DOMAIN deployed
        /\ deployed[at] = new
    BY <1>3 DEF Deployed
  <2>2. at \in DOMAIN reached /\ reached[at] = new
    BY <2>1 DEF Reached
  <2>3. new.nonce \in Nat /\ new.nonce > 0
    BY <1>3 DEF NewContract
  <2>4. e.creates \in Nat
    BY EffectFields
  <2>5. Left(new, deployed, at, e, at).nonce = new.nonce + e.creates
    BY DEF Left, NewContract
  <2> HIDE DEF new, deployed
  <2>6. /\ at \in DOMAIN out.modifies
        /\ out.modifies[at] = Left(new, deployed, at, e, at)
    BY <1>4, <2>2 DEF Ran, deployed
  <2>7. /\ at \in DOMAIN Applied(accts, out)
        /\ Applied(accts, out)[at].nonce = out.modifies[at].nonce
    BY <1>4, <2>6 DEF Applied, Apply, Modified
  <2> QED
    BY <2>3, <2>4, <2>5, <2>6, <2>7 DEF basic
<1> QED
  BY <1>2, <1>4 DEF at

\* Where a deployment carries the nonce its sender has in the snapshot it ran on,
\* the contract is at the address its receipt shows, which was free before, unless
\* that very run destroyed it (transaction.rs: contract_address; db.rs: receipt).
\* So it is of the store whoever uses it.
THEOREM DeployedAtReceipt == StoreSpec => []DeployedAtReceiptAddress
<1>1. ReplayInv => DeployedAtReceiptAddress
  <2> SUFFICES ASSUME ReplayInv, NEW n \in 1 .. best_number,
                      {n - 1, n} \cap estimated = {}, TxOf(n).action = Create,
                      TxOf(n).nonce = basic(accounts[n], TxOf(n).sender).nonce
               PROVE  LET tx == TxOf(n)
                          at == contract_address(tx)
                      IN  /\ Vacant(accounts[n], at)
                          /\ \E out \in Execute(accounts[n], tx.sender, tx.value, receiver(tx)) :
                                /\ out.ok
                                /\ accounts[n + 1] = Applied(accounts[n], out)
                                /\ \/ basic(accounts[n + 1], at).nonce > 0
                                   \/ at \in out.deletes
    BY DEF DeployedAtReceiptAddress
  <2> DEFINE tx == TxOf(n)
  <2>1. receiver(tx) = None
    BY DEF receiver
  <2>2. contract_address(tx) = CreateAddress(tx.sender, basic(accounts[n], tx.sender).nonce)
    BY DEF contract_address
  <2>3. PICK out \in Execute(accounts[n], tx.sender, tx.value, receiver(tx)) :
            out.ok /\ accounts[n + 1] = Applied(accounts[n], out)
    BY DEF ReplayInv, SnapshotsReplay
  <2> QED
    BY <2>1, <2>2, <2>3, DeploymentIsThere
<1> QED
  BY <1>1, ReplayInvAlways, PTL

\* And of the store that the runs bound.
THEOREM DeployedAtReceiptAlways == DBSpec => []DeployedAtReceiptAddress
BY DeployedAtReceipt, BoundedStoreIsStore, PTL

-----------------------------------------------------------------------------
(* Balances                                                                *)

NoEther(accts) == \A a \in DOMAIN accts : accts[a].balance = 0

\* Without ether only a transaction of no value can be paid, and what it writes
\* back has none either.
LEMMA ExecuteWithoutEther ==
    ASSUME NEW accts, IsSnapshot(accts), NoEther(accts),
           NEW sender, NEW value \in Nat, NEW to,
           NEW out \in Execute(accts, sender, value, to), out.ok
    PROVE  value = 0 /\ NoEther(out.modifies)
<1> DEFINE at    == Target(accts, sender, to)
           frame == Frame(accts, sender, value, at)
<1>1. \A a : basic(accts, a).balance = 0
  BY DEF basic, NoEther
<1>2. /\ ~(basic(accts, sender).balance < value)
      /\ \/ out = Success(frame, <<>>)
         \/ \E e \in Effects : Possible(accts, frame, at, e) /\ out = Ran(accts, frame, at, e)
         \/ \E c \in Codes, e \in Effects :
               /\ Possible(accts, Deployed(frame, at, c), at, e)
               /\ out = Ran(accts, Deployed(frame, at, c), at, e)
  BY OutcomeShape
<1>3. value = 0
  BY <1>1, <1>2
<1>4. at \in DOMAIN frame /\ NoEther(frame)
  BY <1>1, <1>3 DEF Frame, NoEther
<1>5. IsModifies(frame)
  BY <1>2, FrameIsModifies
<1> HIDE DEF at, frame
<1>6. ASSUME NEW c
      PROVE  LET d == Deployed(frame, at, c)
             IN  at \in DOMAIN d /\ NoEther(d) /\ IsModifies(d)
  <2>1. at \in DOMAIN Deployed(frame, at, c) /\ NoEther(Deployed(frame, at, c))
    BY <1>4 DEF Deployed, NewContract, NoEther
  <2>2. IsModifies(Deployed(frame, at, c))
    BY <1>4, <1>5, DeployedIsModifies
  <2> QED
    BY <2>1, <2>2
<1>7. ASSUME NEW f, at \in DOMAIN f, NoEther(f), IsModifies(f),
             NEW e \in Effects, Possible(accts, f, at, e)
      PROVE  NoEther(Ran(accts, f, at, e).modifies)
  <2> DEFINE reached == Reached(accts, f, at, e)
             written == Ran(accts, f, at, e).modifies
             paid    == IF e.destroys THEN f[at].balance ELSE e.paid
  <2>1. f[at].balance = 0 /\ paid = 0
    BY <1>7, EffectFields DEF Possible, NoEther
  <2>2. \A a \in DOMAIN reached : reached[a].balance = 0
    BY <1>1, <1>7 DEF Reached, Touched, NewContract, NoEther
  <2>3. IsModifies(reached)
    BY <1>7, ReachedIsModifies
  <2> HIDE DEF reached, paid
  <2>4. ASSUME NEW a \in DOMAIN reached
        PROVE  Left(reached[a], f, at, e, a).balance = 0
    <3> DEFINE m == reached[a]
    <3>1. IsModification(m) /\ m.balance = 0
      BY <2>2, <2>3 DEF IsModifies
    <3> HIDE DEF m
    <3>2. Left(m, f, at, e, a).balance = (m.balance + (IF a = e.payee THEN paid ELSE 0))
                                            - (IF a = at THEN paid ELSE 0)
      BY <3>1, LeftFields DEF paid
    <3>3. Left(m, f, at, e, a).balance = 0
      BY <2>1, <3>1, <3>2
    <3> QED
      BY <3>3 DEF m
  <2>5. /\ DOMAIN written \subseteq DOMAIN reached
        /\ \A a \in DOMAIN written : written[a] = Left(reached[a], f, at, e, a)
    BY DEF Ran, reached
  <2> HIDE DEF written
  <2>6. NoEther(written)
    BY <2>4, <2>5 DEF NoEther
  <2> QED
    BY <2>6 DEF written
<1>8. NoEther(out.modifies)
  <2>1. CASE out = Success(frame, <<>>)
    BY <1>4, <2>1 DEF Success
  <2>2. CASE \E e \in Effects : Possible(accts, frame, at, e) /\ out = Ran(accts, frame, at, e)
    BY <1>4, <1>5, <1>7, <2>2
  <2>3. CASE \E c \in Codes, e \in Effects :
                /\ Possible(accts, Deployed(frame, at, c), at, e)
                /\ out = Ran(accts, Deployed(frame, at, c), at, e)
    BY <1>6, <1>7, <2>3
  <2> QED
    BY <1>2, <2>1, <2>2, <2>3
<1> QED
  BY <1>3, <1>8

\* So nothing is minted, whether or not the execution succeeds.
LEMMA AppliedWithoutEther ==
    ASSUME NEW accts, IsSnapshot(accts), NoEther(accts),
           NEW sender, NEW value \in Nat, NEW to,
           NEW out \in Execute(accts, sender, value, to)
    PROVE  NoEther(Applied(accts, out))
<1>1. CASE ~out.ok
  BY <1>1 DEF Applied
<1>2. CASE out.ok
  <2>1. NoEther(out.modifies)
    BY <1>2, ExecuteWithoutEther
  <2> QED
    BY <1>2, <2>1 DEF Applied, Apply, Modified, NoEther
<1> QED
  BY <1>1, <1>2

EtherInv == TypeInv /\ NoEtherExists

\* The invariant in terms of heights.
LEMMA EtherHeights ==
    ASSUME ChainInv
    PROVE  (\A n \in 0 .. best_number : NoEther(accounts[n + 1])) <=>
              \A i \in DOMAIN accounts : \A a \in DOMAIN accounts[i] :
                  accounts[i][a].balance = 0
<1>1. /\ DOMAIN accounts = 1 .. best_number + 1
      /\ best_number \in Nat
  BY AppendIsSeq DEF ChainInv, Aligned, SnapshotPerBlock, best_number
<1>2. ASSUME NEW i \in DOMAIN accounts
      PROVE  i - 1 \in 0 .. best_number /\ (i - 1) + 1 = i
  BY <1>1
<1>3. ASSUME NEW n \in 0 .. best_number
      PROVE  n + 1 \in DOMAIN accounts
  BY <1>1
<1>4. (\A n \in 0 .. best_number : NoEther(accounts[n + 1])) <=>
         \A i \in DOMAIN accounts : NoEther(accounts[i])
  BY <1>2, <1>3
<1> QED
  BY <1>4 DEF NoEther

\* A committed transaction moved nothing, and its snapshot has no ether.
LEMMA CommitKeepsEther ==
    ASSUME EtherInv, NEW tx \in SignedTxs, NEW now \in Times,
           NEW out \in Execute(Latest, tx.sender, tx.value, receiver(tx)), out.ok,
           CommitTx(tx, now, out)
    PROVE  EtherInv'
<1>1. TypeInv'
  BY CommitKeepsTypes DEF EtherInv
<1>2. /\ best_number \in Nat
      /\ best_number' = best_number + 1
      /\ \A n \in 1 .. best_number : TxOf(n)' = TxOf(n)
      /\ \A n : n = best_number' => TxOf(n)' = tx
      /\ \A n \in 0 .. best_number : accounts'[n + 1] = accounts[n + 1]
      /\ Latest = accounts[best_number + 1]
      /\ accounts'[best_number' + 1] = Applied(Latest, out)
  BY CommitHeights DEF EtherInv, TypeInv
<1>3. \A n \in 0 .. best_number : NoEther(accounts[n + 1])
  BY EtherHeights DEF EtherInv, TypeInv, NoEtherExists
<1>4. IsSnapshot(Latest)
  <2>1. DOMAIN accounts = 1 .. best_number + 1
    BY AppendIsSeq DEF EtherInv, TypeInv, ChainInv, Aligned, SnapshotPerBlock, best_number
  <2> QED
    BY <1>2, <2>1 DEF EtherInv, TypeInv, DBTypeOK
<1>5. tx.value \in Nat
  BY StoreAssumption DEF StoreAssumption
<1>6. NoEther(Applied(Latest, out)) /\ tx.value = 0
  BY <1>2, <1>3, <1>4, <1>5, AppliedWithoutEther, ExecuteWithoutEther
<1>7. \A n \in 0 .. best_number' : NoEther(accounts'[n + 1])
  <2>1. ASSUME NEW n \in 0 .. best_number'
        PROVE  n \in 0 .. best_number \/ n = best_number'
    BY <1>2
  <2> QED
    BY <1>2, <1>3, <1>6, <2>1
<1>8. \A n \in 1 .. best_number' : TxOf(n)'.value = 0
  <2>1. ASSUME NEW n \in 1 .. best_number'
        PROVE  n \in 1 .. best_number \/ n = best_number'
    BY <1>2
  <2>2. \A n \in 1 .. best_number : TxOf(n).value = 0
    BY DEF EtherInv, NoEtherExists
  <2> QED
    BY <1>2, <1>6, <2>1, <2>2
<1>9. \A i \in DOMAIN accounts' : \A a \in DOMAIN accounts'[i] :
          accounts'[i][a].balance = 0
  <2>1. DOMAIN accounts' = 1 .. best_number' + 1
    <3>1. DOMAIN accounts' = 1 .. Len(blocks) + 1 /\ Len(blocks') = Len(blocks) + 1
      BY CommitExtends DEF EtherInv, TypeInv, ChainInv
    <3> QED
      BY <3>1 DEF best_number
  <2>2. ASSUME NEW i \in DOMAIN accounts'
        PROVE  i - 1 \in 0 .. best_number' /\ (i - 1) + 1 = i
    BY <1>2, <2>1
  <2>3. \A i \in DOMAIN accounts' : NoEther(accounts'[i])
    BY <1>7, <2>2
  <2> QED
    BY <2>3 DEF NoEther
<1>10. NoEtherExists'
  BY <1>8, <1>9 DEF NoEtherExists, TxOf
<1> QED
  BY <1>1, <1>10 DEF EtherInv

\* Neither does an estimate mint, though it writes into a stored snapshot.
LEMMA EstimateKeepsEther ==
    ASSUME EtherInv, NEW n \in 0 .. best_number, NEW caller, NEW value \in Values,
           NEW to, NEW out \in Execute(accounts[n + 1], caller, value, to),
           EstimateGas(n, caller, value, to, out)
    PROVE  EtherInv'
<1>1. TypeInv'
  BY EstimateKeepsTypes DEF EtherInv
<1>2. /\ n + 1 \in 1 .. Len(blocks)
      /\ DOMAIN accounts = 1 .. Len(blocks)
      /\ DOMAIN accounts' = 1 .. Len(blocks)
      /\ \A i \in 1 .. Len(blocks) :
            accounts'[i] = IF i = n + 1 THEN Applied(accounts[i], out)
                           ELSE accounts[i]
  BY EstimateRewrites DEF EtherInv, TypeInv, ChainInv
<1>3. value \in Nat
  BY StoreAssumption DEF StoreAssumption
<1>4. \A i \in 1 .. Len(blocks) : NoEther(accounts[i]) /\ IsSnapshot(accounts[i])
  BY <1>2 DEF EtherInv, TypeInv, DBTypeOK, NoEtherExists, NoEther
<1>5. NoEther(Applied(accounts[n + 1], out))
  BY <1>2, <1>3, <1>4, AppliedWithoutEther
<1>6. \A i \in DOMAIN accounts' : NoEther(accounts'[i])
  BY <1>2, <1>4, <1>5
<1>7. best_number' = best_number /\ \A m : TxOf(m)' = TxOf(m)
  BY EstimateHeights DEF EtherInv, TypeInv
<1>8. NoEtherExists'
  BY <1>6, <1>7 DEF EtherInv, NoEtherExists, NoEther, TxOf
<1> QED
  BY <1>1, <1>8 DEF EtherInv

\* Nor does any other step of the store.
LEMMA StepKeepsEther ==
    ASSUME EtherInv, [StoreStep]_dbVars
    PROVE  EtherInv'
<1>1. CASE UNCHANGED dbVars
  <2>1. TypeInv'
    BY <1>1, StepKeepsTypes DEF EtherInv
  <2> QED
    BY <1>1, <2>1 DEF EtherInv, NoEtherExists, best_number, TxOf, dbVars
<1> QED
  BY <1>1, CommitKeepsEther, EstimateKeepsEther DEF StoreStep

\* The invariant the next theorem is read off.
THEOREM EtherInvAlways == StoreSpec => []EtherInv
<1>1. DBInit => EtherInv
  <2>1. ASSUME DBInit
        PROVE  /\ TypeInv
               /\ best_number = 0
               /\ \A i \in DOMAIN accounts : accounts[i] = EmptyMap
    <3>1. \A i \in 1 .. 1 : i = 1
      OBVIOUS
    <3> QED
      BY <2>1, <3>1, InitTypes, InitAligned DEF best_number
  <2> QED
    BY <2>1, EmptyMapIsMap DEF EtherInv, NoEtherExists
<1>2. EtherInv /\ [StoreStep]_dbVars => EtherInv'
  BY StepKeepsEther
<1> QED
  BY <1>1, <1>2, PTL DEF StoreSpec

\* No account of any snapshot ever has a balance, and no transaction that moves
\* value is ever committed: the genesis block funds nobody, and neither a
\* commit nor an estimate mints (db.rs: create_genesis, apply).
THEOREM NoEtherExistsAlways == DBSpec => []NoEtherExists
<1>1. EtherInv => NoEtherExists
  BY DEF EtherInv
<1> QED
  BY <1>1, EtherInvAlways, BoundedStoreIsStore, PTL

-----------------------------------------------------------------------------
(* Nonces                                                                  *)

\* No key's address is the address of a contract: both are keccak digests.
SendersAreKeys == \A a \in Senders : \A s, n : a # CreateAddress(s, n)

SendersHaveNoCode ==
    \A n \in 0 .. best_number, a \in Senders : code(accounts[n + 1], a) = EmptyCode

NonceInv == TypeInv /\ SendersHaveNoCode /\ UntouchedNonceIsTxCount

\* A sender that is no contract is written only as an ordinary account.
LEMMA SenderIsOrdinary ==
    ASSUME SendersAreKeys, NEW accts, NEW a \in Senders, code(accts, a) = EmptyCode
    PROVE  Ordinary(accts, a)
BY DEF SendersAreKeys, Ordinary

\* One more block adds one to the count of its sender.
LEMMA CountsOneMore ==
    ASSUME NEW n \in Nat, NEW S, NEW T, S \subseteq 1 .. n,
           T = S \cup {n + 1} \/ T = S
    PROVE  /\ Cardinality(S) \in Nat
           /\ Cardinality(T) = Cardinality(S) + (IF T = S THEN 0 ELSE 1)
<1>1. IsFiniteSet(S)
  <2>1. 1 \in Int /\ n \in Int /\ S \in SUBSET (1 .. n)
    OBVIOUS
  <2>2. IsFiniteSet(1 .. n)
    BY <2>1, FS_Interval
  <2> QED
    BY <2>1, <2>2, FS_Subset
<1>2. n + 1 \notin S
  OBVIOUS
<1> QED
  BY <1>1, <1>2, FS_AddElement, FS_CardinalityType

\* A commit keeps the counts of the old heights and extends them.
LEMMA CommitCounts ==
    ASSUME ChainInv, NEW tx, NEW now, NEW out, CommitTx(tx, now, out), NEW a
    PROVE  /\ \A n \in 0 .. best_number : TxCount(a, n)' = TxCount(a, n)
           /\ TxCount(a, best_number) \in Nat
           /\ \A n : n = best_number' =>
                 TxCount(a, n)' = TxCount(a, best_number) + (IF a = tx.sender THEN 1 ELSE 0)
<1>1. /\ best_number \in Nat
      /\ best_number' = best_number + 1
      /\ \A n \in 1 .. best_number : TxOf(n)' = TxOf(n)
      /\ \A n : n = best_number' => TxOf(n)' = tx
  BY CommitHeights
<1>2. ASSUME NEW n \in 0 .. best_number
      PROVE  {m \in 1 .. n : TxOf(m)'.sender = a} = {m \in 1 .. n : TxOf(m).sender = a}
  BY <1>1
<1>3. \A n \in 0 .. best_number : TxCount(a, n)' = TxCount(a, n)
  BY <1>2 DEF TxCount, TxOf
<1> DEFINE best == best_number
           next == best_number'
           S    == {m \in 1 .. best : TxOf(m).sender = a}
           T    == {m \in 1 .. next : TxOf(m)'.sender = a}
<1>4. T = IF a = tx.sender THEN S \cup {best + 1} ELSE S
  BY <1>1
<1>5. S \subseteq 1 .. best /\ best \in Nat /\ next = best + 1
  BY <1>1
<1>6. best + 1 \notin S
  BY <1>5
<1>7. TxCount(a, best_number) = Cardinality(S)
  BY DEF TxCount
<1>8. \A n : n = best_number' => TxCount(a, n)' = Cardinality(T)
  BY DEF TxCount, TxOf
<1> HIDE DEF S, T, best, next
<1>9. /\ Cardinality(S) \in Nat
      /\ Cardinality(T) = Cardinality(S) + (IF a = tx.sender THEN 1 ELSE 0)
  BY <1>4, <1>5, <1>6, CountsOneMore
<1> QED
  BY <1>3, <1>7, <1>8, <1>9

\* The sender's nonce goes up with its count, no other sender's does.
LEMMA CommitKeepsNonces ==
    ASSUME SendersAreKeys, NonceInv, NEW tx \in SignedTxs, NEW now \in Times,
           NEW out \in Execute(Latest, tx.sender, tx.value, receiver(tx)), out.ok,
           CommitTx(tx, now, out)
    PROVE  NonceInv'
<1>1. TypeInv'
  BY CommitKeepsTypes DEF NonceInv
<1>2. /\ best_number \in Nat
      /\ best_number' = best_number + 1
      /\ \A n \in 0 .. best_number : accounts'[n + 1] = accounts[n + 1]
      /\ Latest = accounts[best_number + 1]
      /\ accounts'[best_number' + 1] = Applied(Latest, out)
      /\ estimated' = estimated
  BY CommitHeights DEF NonceInv, TypeInv
<1>3. IsSnapshot(Latest)
  <2>1. DOMAIN accounts = 1 .. best_number + 1
    BY AppendIsSeq DEF NonceInv, TypeInv, ChainInv, Aligned, SnapshotPerBlock, best_number
  <2> QED
    BY <1>2, <2>1 DEF NonceInv, TypeInv, DBTypeOK
<1>4. ASSUME NEW a \in Senders
      PROVE  /\ code(Latest, a) = EmptyCode
             /\ code(Applied(Latest, out), a) = EmptyCode
             /\ basic(Applied(Latest, out), a).nonce =
                   basic(Latest, a).nonce + (IF a = tx.sender THEN 1 ELSE 0)
  <2>1. code(Latest, a) = EmptyCode
    BY <1>2 DEF NonceInv, SendersHaveNoCode
  <2>2. Ordinary(Latest, a)
    BY <2>1, SenderIsOrdinary
  <2>3. tx.value \in Nat
    BY StoreAssumption DEF StoreAssumption
  <2> QED
    BY <1>3, <2>1, <2>2, <2>3, AppliedNonce
<1>5. \A n \in 0 .. best_number' : n \in 0 .. best_number \/ n = best_number'
  BY <1>2
<1>6. SendersHaveNoCode'
  <2>1. \A n \in 0 .. best_number', a \in Senders : code(accounts'[n + 1], a) = EmptyCode
    BY <1>2, <1>4, <1>5 DEF NonceInv, SendersHaveNoCode
  <2> QED
    BY <2>1 DEF SendersHaveNoCode, code, Senders
<1>7. ASSUME NEW n \in 0 .. best_number', NEW a \in Senders,
             \A m \in estimated' : n < m
      PROVE  basic(accounts'[n + 1], a).nonce = TxCount(a, n)'
  <2>1. /\ \A m \in 0 .. best_number : TxCount(a, m)' = TxCount(a, m)
        /\ TxCount(a, best_number) \in Nat
        /\ \A m : m = best_number' =>
              TxCount(a, m)' = TxCount(a, best_number) + (IF a = tx.sender THEN 1 ELSE 0)
    BY CommitCounts DEF NonceInv, TypeInv
  <2>2. CASE n \in 0 .. best_number
    <3>1. basic(accounts[n + 1], a).nonce = TxCount(a, n)
      BY <1>2, <1>7, <2>2 DEF NonceInv, UntouchedNonceIsTxCount, Untouched
    <3> QED
      BY <1>2, <2>1, <2>2, <3>1
  <2>3. CASE n = best_number'
    <3>1. \A m \in estimated : best_number < m
      BY <1>2, <1>7, <2>3 DEF NonceInv, TypeInv, DBTypeOK
    <3>2. basic(Latest, a).nonce = TxCount(a, best_number)
      BY <1>2, <3>1 DEF NonceInv, UntouchedNonceIsTxCount, Untouched
    <3> QED
      BY <1>2, <1>4, <2>1, <2>3, <3>2
  <2> QED
    BY <1>5, <2>2, <2>3
<1>8. UntouchedNonceIsTxCount'
  BY <1>7 DEF UntouchedNonceIsTxCount, Untouched, TxCount, TxOf, basic, Senders
<1> QED
  BY <1>1, <1>6, <1>8 DEF NonceInv

\* An estimate changes no nonce below the height it rewrites.
LEMMA EstimateKeepsNonces ==
    ASSUME SendersAreKeys, NonceInv, NEW n \in 0 .. best_number, NEW caller,
           NEW value \in Values, NEW to,
           NEW out \in Execute(accounts[n + 1], caller, value, to),
           EstimateGas(n, caller, value, to, out)
    PROVE  NonceInv'
<1>1. TypeInv'
  BY EstimateKeepsTypes DEF NonceInv
<1>2. /\ best_number \in Nat
      /\ best_number' = best_number
      /\ \A m : TxOf(m)' = TxOf(m)
      /\ \A m \in 0 .. best_number : m # n => accounts'[m + 1] = accounts[m + 1]
      /\ accounts'[n + 1] = Applied(accounts[n + 1], out)
      /\ out.ok => n \in estimated'
      /\ ~out.ok => \A m \in 0 .. best_number : accounts'[m + 1] = accounts[m + 1]
      /\ estimated \subseteq estimated'
  BY EstimateHeights DEF NonceInv, TypeInv
<1>3. IsSnapshot(accounts[n + 1])
  <2>1. DOMAIN accounts = 1 .. best_number + 1
    BY AppendIsSeq DEF NonceInv, TypeInv, ChainInv, Aligned, SnapshotPerBlock, best_number
  <2> QED
    BY <1>2, <2>1 DEF NonceInv, TypeInv, DBTypeOK
<1>4. SendersHaveNoCode'
  <2>1. ASSUME NEW m \in 0 .. best_number, NEW a \in Senders
        PROVE  code(accounts'[m + 1], a) = EmptyCode
    <3>1. code(accounts[m + 1], a) = EmptyCode
      BY DEF NonceInv, SendersHaveNoCode
    <3>2. CASE m = n /\ out.ok
      <4>1. Ordinary(accounts[n + 1], a)
        BY <3>1, <3>2, SenderIsOrdinary
      <4>2. value \in Nat
        BY StoreAssumption DEF StoreAssumption
      <4>3. code(Applied(accounts[n + 1], out), a) = code(accounts[n + 1], a)
        <5> DEFINE accts == accounts[n + 1]
        <5>1. IsSnapshot(accts) /\ Ordinary(accts, a) /\ out \in Execute(accts, caller, value, to)
          BY <1>3, <4>1
        <5> HIDE DEF accts
        <5>2. code(Applied(accts, out), a) = code(accts, a)
          BY <3>2, <4>2, <5>1, AppliedNonce
        <5> QED
          BY <5>2 DEF accts
      <4> QED
        BY <1>2, <3>1, <3>2, <4>3
    <3>3. CASE m # n \/ ~out.ok
      BY <1>2, <3>1, <3>3
    <3> QED
      BY <3>2, <3>3
  <2> QED
    BY <1>2, <2>1 DEF SendersHaveNoCode, code, Senders
<1>5. ASSUME NEW m \in 0 .. best_number, NEW a \in Senders,
             \A e \in estimated' : m < e
      PROVE  basic(accounts'[m + 1], a).nonce = TxCount(a, m)'
  <2>1. accounts'[m + 1] = accounts[m + 1]
    BY <1>2, <1>5
  <2>2. basic(accounts[m + 1], a).nonce = TxCount(a, m)
    BY <1>2, <1>5 DEF NonceInv, UntouchedNonceIsTxCount, Untouched
  <2>3. {k \in 1 .. m : TxOf(k)'.sender = a} = {k \in 1 .. m : TxOf(k).sender = a}
    BY <1>2
  <2>4. TxCount(a, m)' = TxCount(a, m)
    BY <2>3 DEF TxCount, TxOf
  <2> QED
    BY <2>1, <2>2, <2>4
<1>6. UntouchedNonceIsTxCount'
  BY <1>2, <1>5 DEF UntouchedNonceIsTxCount, Untouched, TxCount, TxOf, basic, Senders
<1> QED
  BY <1>1, <1>4, <1>6 DEF NonceInv

\* Nonces go on counting transactions through every step of the store.
LEMMA StepKeepsNonces ==
    ASSUME SendersAreKeys, NonceInv, [StoreStep]_dbVars
    PROVE  NonceInv'
<1>1. CASE UNCHANGED dbVars
  <2>1. TypeInv'
    BY <1>1, StepKeepsTypes DEF NonceInv
  <2> QED
    BY <1>1, <2>1
    DEF NonceInv, SendersHaveNoCode, UntouchedNonceIsTxCount, Untouched, TxCount,
        TxOf, best_number, Senders, code, basic, dbVars
<1> QED
  BY <1>1, CommitKeepsNonces, EstimateKeepsNonces DEF StoreStep

\* The invariant the next theorem is read off.
THEOREM NonceInvAlways ==
    ASSUME SendersAreKeys
    PROVE  StoreSpec => []NonceInv
<1>1. DBInit => NonceInv
  <2>1. ASSUME DBInit
        PROVE  TypeInv /\ best_number = 0 /\ accounts[1] = EmptyMap /\ \A n \in 0 .. 0 : n = 0
    BY <2>1, InitTypes, InitAligned DEF best_number
  <2>2. ASSUME NEW a
        PROVE  code(EmptyMap, a) = EmptyCode /\ basic(EmptyMap, a).nonce = 0
    BY EmptyMapIsMap DEF code, basic
  <2>3. ASSUME NEW a
        PROVE  TxCount(a, 0) = 0
    <3>1. {m \in 1 .. 0 : TxOf(m).sender = a} = {}
      OBVIOUS
    <3> QED
      BY <3>1, FS_EmptySet DEF TxCount
  <2> QED
    BY <2>1, <2>2, <2>3 DEF NonceInv, SendersHaveNoCode, UntouchedNonceIsTxCount
<1>2. NonceInv /\ [StoreStep]_dbVars => NonceInv'
  BY StepKeepsNonces
<1> QED
  BY <1>1, <1>2, PTL DEF StoreSpec

\* If no key's address is a contract's, the nonce of a sender in a snapshot that
\* no estimate can have influenced is the number of its transactions up to that
\* block, whatever was refused, resubmitted or run by contracts (db.rs:
\* submit_tx; rpc.rs: get_tx_count).
THEOREM UntouchedNonceIsTxCountAlways ==
    ASSUME SendersAreKeys
    PROVE  DBSpec => []UntouchedNonceIsTxCount
<1>1. NonceInv => UntouchedNonceIsTxCount
  BY DEF NonceInv
<1>2. StoreSpec => []NonceInv
  BY NonceInvAlways
<1> QED
  BY <1>1, <1>2, BoundedStoreIsStore, PTL

-----------------------------------------------------------------------------
(* Records and the ledger                                                  *)

RecordInv == ReceiptInv /\ LastCommitHasReceipt

\* A commit gives its own transaction a record of the new block, and leaves
\* every other record and its height as they were.
LEMMA CommitRecords ==
    ASSUME ReceiptInv, NEW tx, NEW now, NEW out, CommitTx(tx, now, out)
    PROVE  /\ best_number \in Nat
           /\ best_number' = best_number + 1
           /\ \A n \in 1 .. best_number : TxOf(n)' = TxOf(n)
           /\ \A n : n = best_number' => TxOf(n)' = tx
           /\ \A h : h \in DOMAIN infos' <=> h \in DOMAIN infos \/ h = TxHash(tx)
           /\ hash_index'[infos'[TxHash(tx)].block_hash] = best_number'
           /\ \A h \in DOMAIN infos \ {TxHash(tx)} :
                 hash_index'[infos'[h].block_hash] = hash_index[infos[h].block_hash]
<1> DEFINE block == NewBlock(<<tx>>, now)
           hash  == HeaderHash(block.header)
           new   == TransactionInfo(tx, block, BestBlock, out.logs)
<1>1. /\ hash_index'[hash] = Len(blocks)
      /\ \A h \in DOMAIN hash_index : hash_index'[h] = hash_index[h]
  BY CommitKeepsIndex DEF ReceiptInv
<1>2. /\ Len(blocks) \in Nat \ {0}
      /\ Len(blocks') = Len(blocks) + 1
      /\ blocks'[Len(blocks) + 1] = block
      /\ \A i \in 1 .. Len(blocks) : blocks'[i] = blocks[i]
  BY CommitExtends DEF ReceiptInv, IndexInv, ChainInv
<1>3. block.transactions = <<tx>> /\ new.block_hash = hash
  BY NewBlockFields DEF TransactionInfo
<1>4. infos' = Put(infos, TxHash(tx), new)
  BY DEF CommitTx
<1> HIDE DEF block, hash, new
<1>5. /\ \A h : h \in DOMAIN infos' <=> h \in DOMAIN infos \/ h = TxHash(tx)
      /\ infos'[TxHash(tx)] = new
      /\ \A h \in DOMAIN infos \ {TxHash(tx)} : infos'[h] = infos[h]
  BY <1>4, PutIsMap
<1>6. best_number \in Nat /\ best_number' = Len(blocks) /\ best_number' = best_number + 1
  BY <1>2 DEF best_number
<1>7. \A n \in 1 .. best_number : TxOf(n)' = TxOf(n)
  BY <1>2, <1>6 DEF TxOf, best_number
<1>8. \A n : n = best_number' => TxOf(n)' = tx
  BY <1>2, <1>3, <1>6 DEF TxOf
<1>9. \A h \in DOMAIN infos : infos[h].block_hash \in DOMAIN hash_index
  BY DEF ReceiptInv, ReceiptsSound
<1> QED
  BY <1>1, <1>3, <1>5, <1>6, <1>7, <1>8, <1>9

\* A commit gives the record to its transaction, old records do not move back.
LEMMA CommitKeepsRecords ==
    ASSUME RecordInv, NEW tx, NEW now, NEW out, CommitTx(tx, now, out)
    PROVE  RecordInv'
<1>1. ReceiptInv'
  BY CommitKeepsReceipts DEF RecordInv
<1>2. /\ best_number \in Nat
      /\ best_number' = best_number + 1
      /\ \A n \in 1 .. best_number : TxOf(n)' = TxOf(n)
      /\ \A n : n = best_number' => TxOf(n)' = tx
      /\ \A h : h \in DOMAIN infos' <=> h \in DOMAIN infos \/ h = TxHash(tx)
      /\ hash_index'[infos'[TxHash(tx)].block_hash] = best_number'
      /\ \A h \in DOMAIN infos \ {TxHash(tx)} :
            hash_index'[infos'[h].block_hash] = hash_index[infos[h].block_hash]
  BY CommitRecords DEF RecordInv
<1>3. ASSUME NEW n \in 1 .. best_number'
      PROVE  LET h == TxHash(TxOf(n)')
             IN  h \in DOMAIN infos' /\ hash_index'[infos'[h].block_hash] >= n
  <2>1. CASE n = best_number'
    BY <1>2, <2>1
  <2>2. CASE n \in 1 .. best_number
    <3>1. /\ TxHash(TxOf(n)) \in DOMAIN infos
          /\ hash_index[infos[TxHash(TxOf(n))].block_hash] >= n
      BY <2>2 DEF RecordInv, LastCommitHasReceipt, TxOf
    <3> QED
      BY <1>2, <2>2, <3>1
  <2> QED
    BY <1>2, <2>1, <2>2
<1>4. LastCommitHasReceipt'
  BY <1>3 DEF LastCommitHasReceipt, TxOf
<1> QED
  BY <1>1, <1>4 DEF RecordInv

\* No step of the store takes a record away or moves it back.
LEMMA StepKeepsRecords ==
    ASSUME RecordInv, [StoreStep]_dbVars
    PROVE  RecordInv'
<1>1. ReceiptInv'
  BY StepKeepsReceipts DEF RecordInv
<1>2. ASSUME UNCHANGED <<blocks, hash_index, infos>>
      PROVE  RecordInv'
  BY <1>1, <1>2 DEF RecordInv, LastCommitHasReceipt, best_number
<1>3. ASSUME NEW n, NEW caller, NEW value, NEW to, NEW out,
             EstimateGas(n, caller, value, to, out)
      PROVE  UNCHANGED <<blocks, hash_index, infos>>
  BY <1>3 DEF EstimateGas
<1> QED
  BY <1>2, <1>3, CommitKeepsRecords DEF StoreStep, dbVars

\* The invariant the next theorem is read off.
THEOREM RecordInvAlways == StoreSpec => []RecordInv
<1>1. DBInit => RecordInv
  <2>1. ASSUME DBInit PROVE ReceiptInv /\ best_number = 0
    BY <2>1, InitIndex, InitAligned DEF best_number
  <2> QED
    BY <2>1 DEF RecordInv, LastCommitHasReceipt
<1>2. RecordInv /\ [StoreStep]_dbVars => RecordInv'
  BY StepKeepsRecords
<1> QED
  BY <1>1, <1>2, PTL DEF StoreSpec

\* Every transaction of the chain always has a record, and it is that of its
\* last commit (db.rs: submit_tx inserts over an older record).
THEOREM LastCommitHasReceiptAlways == DBSpec => []LastCommitHasReceipt
<1>1. RecordInv => LastCommitHasReceipt
  BY DEF RecordInv
<1> QED
  BY <1>1, RecordInvAlways, BoundedStoreIsStore, PTL

\* A commit, seen through the refinement mapping, is an entry of the ledger.
LEMMA CommitIsRecord ==
    ASSUME ReceiptInv, NEW tx \in SignedTxs, NEW now, NEW out, CommitTx(tx, now, out)
    PROVE  TheLedger!Record(tx)
<1> DEFINE log   == [n \in 1 .. best_number |-> TxOf(n)]
           where == [h \in DOMAIN infos |-> hash_index[infos[h].block_hash]]
           S     == {TxOf(n) : n \in 1 .. best_number} \cup {tx}
<1>1. /\ best_number \in Nat
      /\ best_number' = best_number + 1
      /\ \A n \in 1 .. best_number : TxOf(n)' = TxOf(n)
      /\ \A n : n = best_number' => TxOf(n)' = tx
      /\ \A h : h \in DOMAIN infos' <=> h \in DOMAIN infos \/ h = TxHash(tx)
      /\ hash_index'[infos'[TxHash(tx)].block_hash] = best_number'
      /\ \A h \in DOMAIN infos \ {TxHash(tx)} :
            hash_index'[infos'[h].block_hash] = hash_index[infos[h].block_hash]
  BY CommitRecords
<1>2. log \in Seq(S) /\ Len(log) = best_number
  BY <1>1
<1>3. [n \in 1 .. best_number' |-> TxOf(n)'] = Append(log, tx)
  <2>1. /\ Append(log, tx) \in Seq(S)
        /\ Len(Append(log, tx)) = best_number'
        /\ Append(log, tx)[best_number'] = tx
        /\ \A n \in 1 .. best_number : Append(log, tx)[n] = TxOf(n)
    BY <1>1, <1>2
  <2> HIDE DEF log, S
  <2> DEFINE longer == Append(log, tx)
  <2>2. longer \in [1 .. best_number' -> S]
    BY <2>1, LenProperties
  <2> HIDE DEF longer
  <2>3. longer = [n \in 1 .. best_number' |-> longer[n]]
    BY <2>2
  <2>4. ASSUME NEW n \in 1 .. best_number'
        PROVE  TxOf(n)' = longer[n]
    BY <1>1, <2>1, <2>4 DEF longer
  <2> QED
    BY <2>3, <2>4 DEF longer
<1>4. DOMAIN where = DOMAIN infos
  OBVIOUS
<1>5. [h \in DOMAIN infos' |-> hash_index'[infos'[h].block_hash]]
         = Put(where, TxHash(tx), Len(log) + 1)
  <2>1. DOMAIN infos' = DOMAIN where \cup {TxHash(tx)}
    BY <1>1
  <2>2. ASSUME NEW h \in DOMAIN infos'
        PROVE  hash_index'[infos'[h].block_hash]
                  = IF h = TxHash(tx) THEN Len(log) + 1 ELSE where[h]
    BY <1>1, <1>2
  <2> QED
    BY <2>1, <2>2 DEF Put
<1> QED
  BY <1>3, <1>5 DEF TheLedger!Record, TheLedger!TxHash, TheLedger!Keccak,
                    TheLedger!Put, TxHash, Keccak, Put

\* The same of the store without bounds (db.rs: submit_tx, save_block).
THEOREM UnboundedStoreImplementsLedger == StoreSpec => IsLedger
<1>1. DBInit => TheLedger!LedgerInit
  <2> SUFFICES ASSUME DBInit PROVE TheLedger!LedgerInit
    OBVIOUS
  <2>1. best_number = 0 /\ infos = EmptyMap
    BY InitAligned DEF DBInit, best_number
  <2>2. [n \in 1 .. best_number |-> TxOf(n)] = <<>>
    BY <2>1
  <2>3. [h \in DOMAIN infos |-> hash_index[infos[h].block_hash]] = <<>>
    BY <2>1 DEF EmptyMap
  <2> QED
    BY <2>2, <2>3 DEF TheLedger!LedgerInit, TheLedger!EmptyMap
<1>2. ReceiptInv /\ [StoreStep]_dbVars => [TheLedger!LedgerNext]_(TheLedger!ledgerVars)
  <2>1. ASSUME UNCHANGED <<blocks, hash_index, infos>>
        PROVE  UNCHANGED TheLedger!ledgerVars
    BY <2>1 DEF TheLedger!ledgerVars, best_number, TxOf
  <2>2. ASSUME NEW n, NEW caller, NEW value, NEW to, NEW out,
               EstimateGas(n, caller, value, to, out)
        PROVE  UNCHANGED <<blocks, hash_index, infos>>
    BY <2>2 DEF EstimateGas
  <2>3. ASSUME ReceiptInv, NEW tx \in SignedTxs, NEW now, NEW out, CommitTx(tx, now, out)
        PROVE  TheLedger!LedgerNext
    BY <2>3, CommitIsRecord DEF TheLedger!LedgerNext
  <2>4. UNCHANGED dbVars => UNCHANGED <<blocks, hash_index, infos>>
    BY DEF dbVars
  <2> QED
    BY <2>1, <2>2, <2>3, <2>4 DEF StoreStep
<1> QED
  BY <1>1, <1>2, ReceiptInvAlways, PTL DEF StoreSpec, IsLedger, TheLedger!LedgerSpec

\* The store implements the ledger: a commit is an entry, and an estimate, a
\* refused transaction or an overwritten snapshot is no step of it (db.rs:
\* submit_tx, save_block, estimate_gas).
THEOREM StoreImplementsLedger == DBSpec => IsLedger
BY UnboundedStoreImplementsLedger, BoundedStoreIsStore, PTL
=============================================================================
