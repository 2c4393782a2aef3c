----------------------------- MODULE EthDBBackend -----------------------------
(***************************************************************************)
(* The EVM's window on one snapshot of the accounts (db.rs, EthDBBackend): *)
(* the Backend queries, and ApplyBackend::apply, which writes the changes  *)
(* of a finished execution back into the snapshot.                         *)
(*                                                                         *)
(* A snapshot is a map from addresses to accounts; an account's storage is *)
(* a map from slots to words, where 0 stands for H256::default().          *)
(***************************************************************************)
EXTENDS EthCore

EmptyCode == "no_code"

DefaultAccount ==
    [nonce |-> 0, balance |-> 0, code |-> EmptyCode, storage |-> EmptyMap]

-----------------------------------------------------------------------------
(* Backend                                                                 *)

exists(accts, a) == a \in DOMAIN accts

basic(accts, a) ==
    IF a \in DOMAIN accts
    THEN [nonce |-> accts[a].nonce, balance |-> accts[a].balance]
    ELSE [nonce |-> 0, balance |-> 0]

code(accts, a) == IF a \in DOMAIN accts THEN accts[a].code ELSE EmptyCode

-----------------------------------------------------------------------------
(* ApplyBackend                                                            *)

\* Apply::Modify carries Option<code>: KeepCode is its None.
KeepCode == "keep_code"

Zeros(map) == {k \in DOMAIN map : map[k] = 0}

\* Mutants of ModifiedStorage: the zero test on the written words is lost.
ModifiedStorage_KeepsZeros(storage, m) ==
    LET old  == IF m.reset_storage THEN EmptyMap ELSE storage
        kept == DOMAIN old \ Zeros(old)
    IN  [k \in kept \cup DOMAIN m.storage |->
            IF k \in DOMAIN m.storage THEN m.storage[k] ELSE old[k]]

\* Zero words already stored are dropped, then each written slot is removed
\* when its word is zero and set otherwise.
ModifiedStorage(storage, m) ==
    LET old  == IF m.reset_storage THEN EmptyMap ELSE storage
        kept == DOMAIN old \ Zeros(old)
    IN  [k \in (kept \cup DOMAIN m.storage) \ Zeros(m.storage) |->
            IF k \in DOMAIN m.storage THEN m.storage[k] ELSE old[k]]

Modified(account, m) ==
    [ nonce   |-> m.nonce,
      balance |-> m.balance,
      code    |-> IF m.code = KeepCode THEN account.code ELSE m.code,
      storage |-> ModifiedStorage(account.storage, m) ]

IsEmptyAccount(account) ==
    account.balance = 0 /\ account.nonce = 0 /\ account.code = EmptyCode

\* The loop over the Apply items.  The executor yields at most one item per
\* address (a Modify or a Delete), so their order does not matter and they are
\* a map of modifications and a set of deletions.
Apply(accts, modifies, deletes, delete_empty) ==
    LET entry(a) == IF a \in DOMAIN accts THEN accts[a] ELSE DefaultAccount
        after(a) == IF a \in DOMAIN modifies
                    THEN Modified(entry(a), modifies[a])
                    ELSE accts[a]
        emptied  == {a \in DOMAIN modifies :
                        delete_empty /\ IsEmptyAccount(after(a))}
    IN  [a \in (DOMAIN accts \cup DOMAIN modifies) \ (deletes \cup emptied)
            |-> after(a)]
=============================================================================
