------------------------------ MODULE ApplyLoop ------------------------------
(***************************************************************************)
(* ApplyBackend::apply (db.rs), the loop that writes the changes of an     *)
(* execution into a snapshot: item by item, slot by slot.  The store's     *)
(* model uses Apply of EthDBBackend, which has neither an order nor        *)
(* accounts that are half written.                                         *)
(*                                                                         *)
(* The executor is external: it hands over at most one item per address,   *)
(* a Modify or a Delete, and the slots of a Modify as a BTreeMap.  The     *)
(* orders of both are left open.  Logs are left to HashMapEthDB.           *)
(***************************************************************************)
EXTENDS EthDBBackend

CONSTANTS
    Addresses,     \* addresses that items may name
    Snapshots,     \* accounts before the loop
    Modifications  \* what a Modify may say: nonce, balance, code, storage, reset_storage

LoopAssumption == \A s \in Snapshots : IsMap(s)

ASSUME LoopAssumption

VARIABLES
    pc,        \* "idle", "items" in the loop, "slots" in the loop of one Modify
    job,       \* history: the arguments, and the accounts before
    accounts,  \* self.accounts
    todo,      \* the addresses of the items still to come
    at,        \* the address of the Modify whose slots are written
    slots      \* its slots still to come

loopVars == <<pc, job, accounts, todo, at, slots>>

-----------------------------------------------------------------------------
(* Steps                                                                   *)

\* HashMap::remove.
Remove(map, key) == [k \in DOMAIN map \ {key} |-> map[k]]

WithoutZeros(storage) == [k \in DOMAIN storage \ Zeros(storage) |-> storage[k]]

\* execute passes FALSE for delete_empty; the method takes both.
Enter(before, modifies, deletes, delete_empty) ==
    /\ pc' = "items"
    /\ job' = [ before |-> before, modifies |-> modifies, deletes |-> deletes,
                delete_empty |-> delete_empty ]
    /\ accounts' = before
    /\ todo' = DOMAIN modifies \cup deletes
    /\ UNCHANGED <<at, slots>>

\* An Apply::Modify up to its slots: the account, made if there was none, gets
\* the fields; its storage is reset or loses its zero words.
BeginModify(a) ==
    LET m       == job.modifies[a]
        account == IF a \in DOMAIN accounts THEN accounts[a] ELSE DefaultAccount
        storage == IF m.reset_storage THEN EmptyMap ELSE account.storage
    IN  /\ pc = "items" /\ a \in todo \cap DOMAIN job.modifies
        /\ pc' = "slots"
        /\ accounts' = Put(accounts, a,
                           [ nonce   |-> m.nonce,
                             balance |-> m.balance,
                             code    |-> IF m.code = KeepCode THEN account.code ELSE m.code,
                             storage |-> WithoutZeros(storage) ])
        /\ todo' = todo \ {a}
        /\ at' = a
        /\ slots' = DOMAIN m.storage
        /\ UNCHANGED job

\* Mutant of Written: a zero word for a new slot is stored.
Written_NewZeros(storage, k, word) ==
    IF word = 0 /\ k \in DOMAIN storage THEN Remove(storage, k) ELSE Put(storage, k, word)

\* A slot that is written with zero is removed.
Written(storage, k, word) == IF word = 0 THEN Remove(storage, k) ELSE Put(storage, k, word)

WriteSlot(k) ==
    /\ pc = "slots" /\ k \in slots
    /\ accounts' = [accounts EXCEPT ![at].storage =
                                        Written(@, k, job.modifies[at].storage[k])]
    /\ slots' = slots \ {k}
    /\ UNCHANGED <<pc, job, todo, at>>

\* Whether the account is empty is looked at after its slots were written.
EndModify ==
    /\ pc = "slots" /\ slots = {}
    /\ pc' = "items"
    /\ accounts' = IF job.delete_empty /\ IsEmptyAccount(accounts[at])
                   THEN Remove(accounts, at) ELSE accounts
    /\ UNCHANGED <<job, todo, at, slots>>

\* An Apply::Delete.
Delete(a) ==
    /\ pc = "items" /\ a \in todo \cap job.deletes
    /\ accounts' = Remove(accounts, a)
    /\ todo' = todo \ {a}
    /\ UNCHANGED <<pc, job, at, slots>>

Leave ==
    /\ pc = "items" /\ todo = {}
    /\ pc' = "idle" /\ job' = None /\ accounts' = EmptyMap /\ at' = None
    /\ UNCHANGED <<todo, slots>>

LoopInit ==
    /\ pc = "idle" /\ job = None /\ accounts = EmptyMap
    /\ todo = {} /\ at = None /\ slots = {}

LoopNext ==
    \/ /\ pc = "idle"
       /\ \E before \in Snapshots, named \in SUBSET Addresses, delete_empty \in BOOLEAN :
          \E modifies \in [named -> Modifications], deletes \in SUBSET (Addresses \ named) :
             Enter(before, modifies, deletes, delete_empty)
    \/ \E a \in todo : BeginModify(a) \/ Delete(a)
    \/ \E k \in slots : WriteSlot(k)
    \/ EndModify
    \/ Leave

LoopSpec == LoopInit /\ [][LoopNext]_loopVars

-----------------------------------------------------------------------------
(* Properties                                                              *)

\* The loop leaves what Apply says, in whatever order items and slots come.
LoopComputesApply ==
    (pc = "items" /\ todo = {}) =>
        accounts = Apply(job.before, job.modifies, job.deletes, job.delete_empty)
=============================================================================
