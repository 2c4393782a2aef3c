----------------------------- MODULE MCApplyLoop -----------------------------
(* Values for the constants of ApplyLoop.                                  *)
EXTENDS ApplyLoop, TLC

CONSTANTS alice, contract  \* addresses

MCAddresses == {alice, contract}

Account(nonce, c, storage) == [nonce |-> nonce, balance |-> 0, code |-> c, storage |-> storage]

MCContracts == {Account(1, "runtime", storage) : storage \in {EmptyMap, "x" :> 1, "x" :> 1 @@ "y" :> 2}}

MCSnapshots ==
    {EmptyMap, alice :> Account(1, EmptyCode, EmptyMap)}
        \cup {alice :> Account(1, EmptyCode, EmptyMap) @@ contract :> c : c \in MCContracts}

\* A message, a reset and slots that are set, replaced and cleared; the nonce of
\* zero is that of an address that only received.
MCModifications ==
    [ nonce : {0, 2}, balance : {0}, code : {KeepCode, "runtime"},
      storage : {EmptyMap, "x" :> 0, "x" :> 3 @@ "y" :> 0}, reset_storage : BOOLEAN ]
=============================================================================
