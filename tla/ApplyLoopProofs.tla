--------------------------- MODULE ApplyLoopProofs ---------------------------
(***************************************************************************)
(* The loop of apply computes Apply, for any snapshot and any items: the   *)
(* accounts of items that were taken are those of the result, all others   *)
(* are as before, and in the storage of the account at hand the slots that *)
(* were taken are those of the result.                                     *)
(***************************************************************************)
EXTENDS ApplyLoop, TLAPS

-----------------------------------------------------------------------------
(* The result                                                              *)

Same(a, map1, map2) ==
    /\ a \in DOMAIN map1 <=> a \in DOMAIN map2
    /\ a \in DOMAIN map1 => map1[a] = map2[a]

\* Two maps that agree everywhere are one.
LEMMA SameMaps ==
    ASSUME NEW map1, NEW map2, IsMap(map1), IsMap(map2), \A a : Same(a, map1, map2)
    PROVE  map1 = map2
<1>1. DOMAIN map1 = DOMAIN map2
  BY DEF Same
<1>2. \A a \in DOMAIN map1 : map1[a] = map2[a]
  BY DEF Same
<1>3. [a \in DOMAIN map1 |-> map1[a]] = [a \in DOMAIN map2 |-> map2[a]]
  BY <1>1, <1>2
<1> QED
  BY <1>3 DEF IsMap

Entry(before, a) == IF a \in DOMAIN before THEN before[a] ELSE DefaultAccount

\* What Apply makes of one address.
LEMMA AppliedAt ==
    ASSUME NEW before, NEW modifies, NEW deletes, NEW delete_empty, NEW a,
           DOMAIN modifies \cap deletes = {}
    PROVE  LET result == Apply(before, modifies, deletes, delete_empty)
               new    == Modified(Entry(before, a), modifies[a])
           IN  /\ a \notin DOMAIN modifies \cup deletes => Same(a, result, before)
               /\ a \in deletes => a \notin DOMAIN result
               /\ a \in DOMAIN modifies =>
                     IF delete_empty /\ IsEmptyAccount(new)
                     THEN a \notin DOMAIN result
                     ELSE a \in DOMAIN result /\ result[a] = new
<1> DEFINE entry(b) == IF b \in DOMAIN before THEN before[b] ELSE DefaultAccount
           after(b) == IF b \in DOMAIN modifies
                       THEN Modified(entry(b), modifies[b]) ELSE before[b]
           emptied  == {b \in DOMAIN modifies : delete_empty /\ IsEmptyAccount(after(b))}
           result   == Apply(before, modifies, deletes, delete_empty)
<1>1. result = [b \in (DOMAIN before \cup DOMAIN modifies) \ (deletes \cup emptied) |-> after(b)]
  BY DEF Apply
<1>2. a \in DOMAIN modifies => after(a) = Modified(Entry(before, a), modifies[a])
  BY DEF Entry
<1>3. a \notin DOMAIN modifies => after(a) = before[a]
  OBVIOUS
<1>4. a \in emptied <=> a \in DOMAIN modifies /\ delete_empty /\ IsEmptyAccount(after(a))
  OBVIOUS
<1> HIDE DEF after, emptied, result
<1> QED
  BY <1>1, <1>2, <1>3, <1>4 DEF Same, result

\* And that it makes a map.
LEMMA AppliedIsMap ==
    ASSUME NEW before, NEW modifies, NEW deletes, NEW delete_empty
    PROVE  IsMap(Apply(before, modifies, deletes, delete_empty))
BY DEF Apply, IsMap

-----------------------------------------------------------------------------
(* The slots of one account                                                *)

Old(storage, m) == IF m.reset_storage THEN EmptyMap ELSE storage

\* A storage in which some slots of a Modify were written.
Partly(storage, m, done) ==
    LET old == Old(storage, m)
    IN  [k \in ((DOMAIN old \ Zeros(old)) \cup done) \ {k \in done : m.storage[k] = 0} |->
            IF k \in done THEN m.storage[k] ELSE old[k]]

LEMMA NothingWritten ==
    ASSUME NEW storage, NEW m
    PROVE  Partly(storage, m, {}) = WithoutZeros(Old(storage, m))
BY DEF Partly, WithoutZeros

LEMMA AllWritten ==
    ASSUME NEW storage, NEW m
    PROVE  Partly(storage, m, DOMAIN m.storage) = ModifiedStorage(storage, m)
BY DEF Partly, Old, ModifiedStorage, Zeros

\* One slot more.
LEMMA OneMoreWritten ==
    ASSUME NEW storage, NEW m, NEW done, NEW k, k \notin done
    PROVE  Written(Partly(storage, m, done), k, m.storage[k])
              = Partly(storage, m, done \cup {k})
<1> DEFINE old  == Old(storage, m)
           kept == DOMAIN old \ Zeros(old)
           word == m.storage[k]
           zero == {j \in done : m.storage[j] = 0}
           now  == Partly(storage, m, done)
           then == Partly(storage, m, done \cup {k})
<1>1. now = [j \in (kept \cup done) \ zero |-> IF j \in done THEN m.storage[j] ELSE old[j]]
  BY DEF Partly
<1>2. then = [j \in (kept \cup done \cup {k}) \ {j \in done \cup {k} : m.storage[j] = 0} |->
                 IF j \in done \cup {k} THEN m.storage[j] ELSE old[j]]
  BY DEF Partly
<1>3. CASE word = 0
  <2>1. Written(now, k, word) = [j \in DOMAIN now \ {k} |-> now[j]]
    BY <1>3 DEF Written, Remove
  <2>2. DOMAIN then = DOMAIN now \ {k}
    BY <1>1, <1>2, <1>3
  <2>3. \A j \in DOMAIN then : then[j] = now[j]
    BY <1>1, <1>2, <1>3
  <2>4. then = [j \in DOMAIN then |-> then[j]]
    BY <1>2
  <2> QED
    BY <2>1, <2>2, <2>3, <2>4
<1>4. CASE word # 0
  <2>1. Written(now, k, word) = [j \in DOMAIN now \cup {k} |-> IF j = k THEN word ELSE now[j]]
    BY <1>4 DEF Written, Put
  <2>2. DOMAIN then = DOMAIN now \cup {k}
    BY <1>1, <1>2, <1>4
  <2>3. \A j \in DOMAIN then : then[j] = IF j = k THEN word ELSE now[j]
    BY <1>1, <1>2, <1>4
  <2>4. then = [j \in DOMAIN then |-> then[j]]
    BY <1>2
  <2> QED
    BY <2>1, <2>2, <2>3, <2>4
<1> QED
  BY <1>3, <1>4

-----------------------------------------------------------------------------
(* The invariant of the loop                                               *)

Named == DOMAIN job.modifies \cup job.deletes

Result == Apply(job.before, job.modifies, job.deletes, job.delete_empty)

\* The account of a Modify of which some slots were written.
Half(a, done) ==
    LET entry == Entry(job.before, a)
        m     == job.modifies[a]
    IN  [ nonce   |-> m.nonce,
          balance |-> m.balance,
          code    |-> IF m.code = KeepCode THEN entry.code ELSE m.code,
          storage |-> Partly(entry.storage, m, done) ]

InLoop ==
    /\ DOMAIN job.modifies \cap job.deletes = {}
    /\ IsMap(accounts)
    /\ todo \subseteq Named
    /\ \A a : a \notin Named \ todo => Same(a, accounts, job.before)
    /\ \A a \in Named \ todo : (pc = "slots" => a # at) => Same(a, accounts, Result)

InModify ==
    /\ at \in DOMAIN job.modifies \ todo
    /\ at \in DOMAIN accounts
    /\ slots \subseteq DOMAIN job.modifies[at].storage
    /\ accounts[at] = Half(at, DOMAIN job.modifies[at].storage \ slots)

LoopInv ==
    /\ pc \in {"idle", "items", "slots"}
    /\ pc # "idle" => InLoop
    /\ pc = "slots" => InModify

\* A whole Modify.
LEMMA WholeModify ==
    ASSUME NEW a
    PROVE  Half(a, DOMAIN job.modifies[a].storage)
              = Modified(Entry(job.before, a), job.modifies[a])
BY AllWritten DEF Half, Modified

\* The arguments come in, and nothing is written yet.
LEMMA EnterKeeps ==
    ASSUME NEW before \in Snapshots, NEW named, NEW delete_empty \in BOOLEAN,
           NEW modifies \in [named -> Modifications],
           NEW deletes \in SUBSET (Addresses \ named),
           Enter(before, modifies, deletes, delete_empty)
    PROVE  LoopInv'
<1>1. DOMAIN job'.modifies \cap job'.deletes = {}
  BY DEF Enter
<1>2. IsMap(accounts')
  BY LoopAssumption DEF Enter, LoopAssumption
<1>3. todo' = Named'
  BY DEF Enter, Named
<1>4. \A a : Same(a, accounts', job'.before)
  BY DEF Enter, Same
<1> QED
  BY <1>1, <1>2, <1>3, <1>4 DEF Enter, LoopInv, InLoop

\* A Modify begins with the account's fields.
LEMMA BeginModifyKeeps ==
    ASSUME LoopInv, NEW a \in todo, BeginModify(a)
    PROVE  LoopInv'
<1> DEFINE m     == job.modifies[a]
           entry == Entry(job.before, a)
           new   == Half(a, {})
<1>1. InLoop /\ a \in DOMAIN job.modifies /\ Same(a, accounts, job.before)
  BY DEF LoopInv, BeginModify, InLoop
<1>2. (IF a \in DOMAIN accounts THEN accounts[a] ELSE DefaultAccount) = entry
  BY <1>1 DEF Entry, Same
<1>3. WithoutZeros(IF m.reset_storage THEN EmptyMap ELSE entry.storage)
         = Partly(entry.storage, m, {})
  BY NothingWritten DEF Old
<1>4. accounts' = Put(accounts, a, new)
  BY <1>2, <1>3 DEF BeginModify, Half
<1>5. /\ pc' = "slots" /\ todo' = todo \ {a} /\ at' = a
      /\ slots' = DOMAIN m.storage /\ job' = job
  BY DEF BeginModify
<1> HIDE DEF new
<1>6. /\ IsMap(accounts') /\ a \in DOMAIN accounts' /\ accounts'[a] = new
      /\ \A b : b # a => Same(b, accounts', accounts)
  BY <1>4 DEF Put, IsMap, Same
<1>7. InLoop'
  <2>1. Named' = Named /\ Result' = Result /\ a \in Named
    BY <1>1, <1>5 DEF Named, Result
  <2>2. \A b : b \notin Named' \ todo' => b # a /\ b \notin Named \ todo
    BY <1>5, <2>1
  <2>3. \A b : b \notin Named' \ todo' => Same(b, accounts', job'.before)
    BY <1>1, <1>5, <1>6, <2>2 DEF InLoop, Same
  <2>4. \A b \in Named' \ todo' : b # a => b \in Named \ todo /\ Same(b, accounts, Result)
    BY <1>1, <1>5, <2>1 DEF InLoop, BeginModify
  <2>5. \A b \in Named' \ todo' : b # at' => Same(b, accounts', Result')
    BY <1>5, <1>6, <2>1, <2>4 DEF Same
  <2> QED
    BY <1>1, <1>5, <1>6, <2>1, <2>3, <2>5 DEF InLoop
<1>8. InModify'
  <2>1. Half(a, {})' = new
    BY <1>5 DEF Half, new
  <2>2. DOMAIN job'.modifies[a].storage \ slots' = {}
    BY <1>5
  <2> QED
    BY <1>1, <1>5, <1>6, <2>1, <2>2 DEF InModify, Half
<1> QED
  BY <1>5, <1>7, <1>8 DEF LoopInv

\* Its slots follow, one by one.
LEMMA WriteSlotKeeps ==
    ASSUME LoopInv, NEW k \in slots, WriteSlot(k)
    PROVE  LoopInv'
<1> DEFINE m     == job.modifies[at]
           done  == DOMAIN m.storage \ slots
           entry == Entry(job.before, at)
           new   == [accounts[at] EXCEPT !.storage = Written(@, k, m.storage[k])]
<1>1. InLoop /\ InModify /\ pc = "slots"
  BY DEF LoopInv, WriteSlot
<1>2. /\ accounts' = [accounts EXCEPT ![at] = new]
      /\ slots' = slots \ {k} /\ UNCHANGED <<pc, job, todo, at>>
  BY DEF WriteSlot
<1>3. k \notin done /\ DOMAIN m.storage \ slots' = done \cup {k}
  BY <1>1, <1>2 DEF InModify
<1>4. new = Half(at, done \cup {k})
  <2>1. accounts[at] = Half(at, done)
    BY <1>1 DEF InModify
  <2>2. Written(Partly(entry.storage, m, done), k, m.storage[k])
           = Partly(entry.storage, m, done \cup {k})
    BY <1>3, OneMoreWritten
  <2> QED
    BY <2>1, <2>2 DEF Half
<1> HIDE DEF new, done
<1>5. /\ IsMap(accounts') /\ at \in DOMAIN accounts' /\ accounts'[at] = new
      /\ \A b : b # at => Same(b, accounts', accounts)
  BY <1>1, <1>2 DEF InLoop, InModify, IsMap, Same
<1>6. InLoop'
  <2>1. Named' = Named /\ Result' = Result
    BY <1>2 DEF Named, Result
  <2>2. \A b : b \notin Named \ todo => b # at
    BY <1>1 DEF InModify, Named
  <2>3. \A b : b \notin Named \ todo => Same(b, accounts', job.before)
    BY <1>1, <1>5, <2>2 DEF InLoop, Same
  <2>4. \A b \in Named \ todo : b # at => Same(b, accounts', Result)
    BY <1>1, <1>5 DEF InLoop, Same
  <2> QED
    BY <1>1, <1>2, <1>5, <2>1, <2>3, <2>4 DEF InLoop
<1>7. InModify'
  <2>1. Half(at, DOMAIN job.modifies[at].storage \ slots)' = Half(at, done \cup {k})
    BY <1>2, <1>3 DEF Half
  <2> QED
    BY <1>1, <1>2, <1>4, <1>5, <2>1 DEF InModify
<1> QED
  BY <1>1, <1>2, <1>6, <1>7 DEF LoopInv

\* A Modify ends with the account of the result, or without it.
LEMMA EndModifyKeeps ==
    ASSUME LoopInv, EndModify
    PROVE  LoopInv'
<1> DEFINE new == Modified(Entry(job.before, at), job.modifies[at])
<1>1. InLoop /\ InModify /\ pc = "slots" /\ slots = {}
  BY DEF LoopInv, EndModify
<1>2. accounts[at] = new
  BY <1>1, WholeModify DEF InModify
<1>3. /\ at \in DOMAIN job.modifies
      /\ IF job.delete_empty /\ IsEmptyAccount(new)
         THEN at \notin DOMAIN Result
         ELSE at \in DOMAIN Result /\ Result[at] = new
  BY <1>1, AppliedAt DEF InLoop, InModify, Result
<1>4. /\ pc' = "items" /\ UNCHANGED <<job, todo, at, slots>>
      /\ accounts' = IF job.delete_empty /\ IsEmptyAccount(new)
                     THEN Remove(accounts, at) ELSE accounts
  BY <1>2 DEF EndModify
<1> HIDE DEF new
<1>5. IsMap(accounts') /\ \A b : b # at => Same(b, accounts', accounts)
  BY <1>1, <1>4 DEF InLoop, IsMap, Same, Remove
<1>6. Same(at, accounts', Result)
  BY <1>1, <1>2, <1>3, <1>4 DEF InModify, Same, Remove
<1>7. InLoop'
  <2>1. Named' = Named /\ Result' = Result
    BY <1>4 DEF Named, Result
  <2>2. \A b : b \notin Named \ todo => b # at
    BY <1>1 DEF InModify, Named
  <2>3. \A b : b \notin Named \ todo => Same(b, accounts', job.before)
    BY <1>1, <1>5, <2>2 DEF InLoop, Same
  <2>4. \A b \in Named \ todo : Same(b, accounts', Result)
    BY <1>1, <1>5, <1>6 DEF InLoop, Same
  <2> QED
    BY <1>1, <1>4, <1>5, <2>1, <2>3, <2>4 DEF InLoop
<1> QED
  BY <1>4, <1>7 DEF LoopInv

\* A Delete removes the account, which the result does not have.
LEMMA DeleteKeeps ==
    ASSUME LoopInv, NEW a \in todo, Delete(a)
    PROVE  LoopInv'
<1>1. InLoop /\ pc = "items" /\ a \in job.deletes
  BY DEF LoopInv, Delete
<1>2. /\ accounts' = Remove(accounts, a) /\ todo' = todo \ {a}
      /\ UNCHANGED <<pc, job, at, slots>>
  BY DEF Delete
<1>3. a \notin DOMAIN Result
  BY <1>1, AppliedAt DEF InLoop, Result
<1>4. /\ IsMap(accounts') /\ a \notin DOMAIN accounts'
      /\ \A b : b # a => Same(b, accounts', accounts)
  BY <1>2 DEF IsMap, Same, Remove
<1>5. Named' = Named /\ Result' = Result /\ a \in Named
  BY <1>1, <1>2 DEF Named, Result
<1>6. \A b : b \notin Named \ todo' => Same(b, accounts', job.before)
  BY <1>1, <1>2, <1>4, <1>5 DEF InLoop, Same
<1>7. \A b \in Named \ todo' : Same(b, accounts', Result)
  BY <1>1, <1>2, <1>3, <1>4 DEF InLoop, Same
<1> QED
  BY <1>1, <1>2, <1>4, <1>5, <1>6, <1>7 DEF LoopInv, InLoop

\* The invariant holds of every behaviour.
LEMMA LoopInvAlways == LoopSpec => []LoopInv
<1>1. LoopInit => LoopInv
  BY DEF LoopInit, LoopInv
<1>2. LoopInv /\ [LoopNext]_loopVars => LoopInv'
  <2>1. ASSUME LoopInv, LoopNext PROVE LoopInv'
    <3>1. Leave => LoopInv'
      BY DEF Leave, LoopInv
    <3> QED
      BY <2>1, <3>1, EnterKeeps, BeginModifyKeeps, WriteSlotKeeps, EndModifyKeeps, DeleteKeeps
      DEF LoopNext
  <2>2. ASSUME LoopInv, UNCHANGED loopVars PROVE LoopInv'
    BY <2>2 DEF loopVars, LoopInv, InLoop, InModify, Named, Result, Half, Same
  <2> QED
    BY <2>1, <2>2
<1> QED
  BY <1>1, <1>2, PTL DEF LoopSpec

\* The loop of apply (db.rs) leaves the snapshot that Apply of the store's model
\* says, for any accounts, any items and slots, and in whatever order they come.
THEOREM LoopAlwaysComputesApply == LoopSpec => []LoopComputesApply
<1>1. LoopInv => LoopComputesApply
  <2> SUFFICES ASSUME LoopInv, pc = "items", todo = {}
               PROVE  accounts = Result
    BY DEF LoopComputesApply, Result
  <2>1. InLoop
    BY DEF LoopInv
  <2>2. ASSUME NEW a PROVE Same(a, accounts, Result)
    <3>1. CASE a \in Named
      BY <2>1, <3>1 DEF InLoop
    <3>2. CASE a \notin Named
      <4>1. Same(a, accounts, job.before)
        BY <2>1, <3>2 DEF InLoop
      <4>2. Same(a, Result, job.before)
        BY <2>1, <3>2, AppliedAt DEF InLoop, Named, Result
      <4> QED
        BY <4>1, <4>2 DEF Same
    <3> QED
      BY <3>1, <3>2
  <2>3. IsMap(accounts) /\ IsMap(Result)
    BY <2>1, AppliedIsMap DEF InLoop, Result
  <2> QED
    BY <2>2, <2>3, SameMaps
<1> QED
  BY <1>1, LoopInvAlways, PTL
=============================================================================
