--------------------------------- MODULE Evm ---------------------------------
(***************************************************************************)
(* The external EVM executor (crate evm 0.26) as db.rs uses it: what       *)
(* transact_call and transact_create may hand back.  An outcome is         *)
(*   [ok, modifies, deletes, logs]                                         *)
(* with a modification for every account that was touched and not deleted. *)
(* Gas never runs out: every execution is given u64::MAX.                  *)
(*                                                                         *)
(* What contract code does is a choice from the set Effects, each a record *)
(*   storage  the slots it leaves written                                  *)
(*   logs     what it logs                                                 *)
(*   calls    the other accounts it touches, each with the slots its code  *)
(*            writes and whether it destroys itself                        *)
(*   payee    whom it pays, or names when it destroys itself, or None      *)
(*   paid     how much it pays                                             *)
(*   creates  how many contracts it tries to create                        *)
(*   child    what the last of them became, or None if all failed          *)
(*   destroys whether it destroys itself, its balance going to the payee   *)
(***************************************************************************)
EXTENDS EthDBBackend

CONSTANTS
    Effects,  \* what running contract code may do
    Codes     \* runtime codes that init code may return

IsStorage(map) == IsMap(map) /\ \A k \in DOMAIN map : map[k] \in Nat

EvmAssumption ==
    /\ KeepCode \notin Codes
    /\ \A e \in Effects :
          /\ IsStorage(e.storage)
          /\ e.logs \in Seq(STRING)
          /\ IsMap(e.calls)
          /\ \A a \in DOMAIN e.calls :
                IsStorage(e.calls[a].storage) /\ e.calls[a].destroys \in BOOLEAN
          /\ e.payee = None \/ e.payee \in DOMAIN e.calls
          /\ e.paid \in Nat
          /\ e.creates \in Nat
          /\ e.child # None => /\ e.creates > 0
                               /\ e.child.code \in Codes
                               /\ IsStorage(e.child.storage)
          /\ e.destroys \in BOOLEAN

ASSUME EvmAssumption

Failure == [ok |-> FALSE, modifies |-> EmptyMap, deletes |-> {}, logs |-> <<>>]

Success(frame, logs) ==
    [ok |-> TRUE, modifies |-> frame, deletes |-> {}, logs |-> logs]

\* An account as the snapshot has it: touched, not changed.
Touched(accts, a) ==
    [ nonce   |-> basic(accts, a).nonce,
      balance |-> basic(accts, a).balance,
      code    |-> KeepCode,
      storage |-> EmptyMap,
      reset_storage |-> FALSE ]

\* The accounts a transaction touches before any code runs: the sender's nonce
\* is incremented and the value is moved.
Frame(accts, sender, value, to) ==
    [a \in {sender, to} |->
        [ nonce   |-> basic(accts, a).nonce + (IF a = sender THEN 1 ELSE 0),
          balance |-> (basic(accts, a).balance + (IF a = to THEN value ELSE 0))
                         - (IF a = sender THEN value ELSE 0),
          code    |-> KeepCode,
          storage |-> EmptyMap,
          reset_storage |-> FALSE ]]

\* A contract is created only where there is none.
Vacant(accts, a) == code(accts, a) = EmptyCode /\ basic(accts, a).nonce = 0

\* A new account: its nonce starts at one, its old storage is forgotten and the
\* code that its init code returned is set.
NewContract(m, c) ==
    [ nonce   |-> m.nonce + 1,
      balance |-> m.balance,
      code    |-> c,
      storage |-> EmptyMap,
      reset_storage |-> TRUE ]

\* Its address comes from the nonce that the creator has when it creates it.
ChildAddress(frame, at, e) == CreateAddress(at, (frame[at].nonce + e.creates) - 1)

\* What code at an address can do to these accounts: pay out of its own balance,
\* have other code write and destroy, and create where nothing is.  Code that
\* is called and has ether does not destroy itself.
Possible(accts, frame, at, e) ==
    /\ e.paid <= frame[at].balance
    /\ at \notin DOMAIN e.calls
    /\ \A a \in DOMAIN e.calls :
          /\ e.calls[a].storage # EmptyMap => code(accts, a) # EmptyCode
          /\ e.calls[a].destroys => code(accts, a) # EmptyCode /\ basic(accts, a).balance = 0
    /\ e.child # None =>
          /\ Vacant(accts, ChildAddress(frame, at, e))
          /\ ChildAddress(frame, at, e) \notin DOMAIN frame \cup DOMAIN e.calls

\* The accounts of the frame, those that code at an address called, paid or named,
\* and the one it created.
Reached(accts, frame, at, e) ==
    LET child == IF e.child = None THEN {} ELSE {ChildAddress(frame, at, e)}
    IN  [a \in DOMAIN frame \cup DOMAIN e.calls \cup child |->
            IF a \in DOMAIN frame THEN frame[a]
            ELSE IF a \in DOMAIN e.calls THEN Touched(accts, a)
            ELSE [NewContract(Touched(accts, a), e.child.code)
                    EXCEPT !.storage = e.child.storage]]

\* What code at an address leaves of an account that was reached.
Left(m, frame, at, e, a) ==
    LET paid == IF e.destroys THEN frame[at].balance ELSE e.paid
    IN  [ m EXCEPT
            !.nonce   = @ + (IF a = at THEN e.creates ELSE 0),
            !.balance = (@ + (IF a = e.payee THEN paid ELSE 0))
                           - (IF a = at THEN paid ELSE 0),
            !.storage = IF a = at THEN e.storage
                        ELSE IF a \in DOMAIN e.calls THEN e.calls[a].storage
                        ELSE @ ]

\* Code at an address runs to success.
Ran(accts, frame, at, e) ==
    LET reached == Reached(accts, frame, at, e)
        deletes == (IF e.destroys THEN {at} ELSE {})
                     \cup {a \in DOMAIN e.calls : e.calls[a].destroys}
    IN  [ ok |-> TRUE,
          modifies |-> [a \in DOMAIN reached \ deletes |-> Left(reached[a], frame, at, e, a)],
          deletes |-> deletes,
          logs |-> e.logs ]

\* Code at an address may also fail, and all it did is undone.
Runs(accts, frame, at) ==
    {Failure} \cup {Ran(accts, frame, at, e) :
                        e \in {e \in Effects : Possible(accts, frame, at, e)}}

TransactCall(accts, sender, value, to) ==
    LET frame == Frame(accts, sender, value, to)
    IN  IF basic(accts, sender).balance < value THEN {Failure}
        ELSE IF code(accts, to) = EmptyCode THEN {Success(frame, <<>>)}
        ELSE Runs(accts, frame, to)

Deployed(frame, at, c) == [frame EXCEPT ![at] = NewContract(@, c)]

\* The address comes from the nonce the sender has in the snapshot.
TransactCreate(accts, sender, value) ==
    LET at    == CreateAddress(sender, basic(accts, sender).nonce)
        frame == Frame(accts, sender, value, at)
    IN  IF basic(accts, sender).balance < value \/ ~Vacant(accts, at)
        THEN {Failure}
        ELSE {Failure} \cup UNION {Runs(accts, Deployed(frame, at, c), at) : c \in Codes}
=============================================================================
