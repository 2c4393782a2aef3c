--------------------------- MODULE MCHashMapEthDB ---------------------------
(***************************************************************************)
(* Values for the constants of HashMapEthDB.                               *)
(***************************************************************************)
EXTENDS HashMapEthDB, TLC

CONSTANTS s1, s2  \* accounts that clients hold the keys of

Tx(sender, nonce, action, value, chain_id) ==
    [sender |-> sender, nonce |-> nonce, action |-> action,
     value |-> value, chain_id |-> chain_id]

FirstContract  == CreateAddress(s1, 0)
SecondContract == CreateAddress(FirstContract, 1)
Beneficiary    == CreateAddress(s2, 9)

\* A deployment, a call of what it deployed, a plain message signed for another
\* chain, and a transfer of value.
MCTxs == { Tx(s1, 0, Create, 0, None),
           Tx(s1, 1, FirstContract, 0, <<CHAIN_ID>>),
           Tx(s2, 0, s1, 0, <<1>>),
           Tx(s2, 0, s1, 1, <<CHAIN_ID>>) }

\* The message once more, received with a byte after its list.
MCReceived == MCTxs \cup {"tail" :> <<1>> @@ Tx(s2, 0, s1, 0, <<1>>)}

\* Two deployments, the second signed before or after the first is committed.
MCDeployments == { Tx(s1, 0, Create, 0, <<CHAIN_ID>>),
                   Tx(s1, 1, Create, 0, <<CHAIN_ID>>) }

MCCallers   == {s1, s2}
MCReceivers == {None, FirstContract, s2}

Slot(word) == [k \in {"slot"} |-> word]

\* What contract code may do: set the slot and log; clear the slot and create a
\* contract; have that contract write and destroy itself; destroy itself in
\* favour of an account that was not there.
Effect(storage, logs) ==
    [ storage |-> storage, logs |-> logs, calls |-> EmptyMap, payee |-> None, paid |-> 0,
      creates |-> 0, child |-> None, destroys |-> FALSE ]

Touch(destroys, storage) == [destroys |-> destroys, storage |-> storage]

MCSetAndLog == {Effect(Slot(1), <<"log">>)}

MCEffects ==
    MCSetAndLog \cup
    { [Effect(Slot(0), <<>>) EXCEPT !.creates = 1,
                                    !.child = [code |-> "runtime", storage |-> Slot(1)]],
      [Effect(EmptyMap, <<>>) EXCEPT !.calls = SecondContract :> Touch(TRUE, Slot(2))],
      [Effect(EmptyMap, <<>>) EXCEPT !.calls = Beneficiary :> Touch(FALSE, EmptyMap),
                                     !.payee = Beneficiary,
                                     !.destroys = TRUE] }
=============================================================================
