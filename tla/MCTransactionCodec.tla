-------------------------- MODULE MCTransactionCodec --------------------------
(***************************************************************************)
(* Values for the constants of TransactionCodec.                           *)
(***************************************************************************)
EXTENDS TransactionCodec

Tx(nonce, action, value, data, v, r, s) ==
    [nonce |-> nonce, gas_price |-> 0, gas |-> 7, action |-> action,
     value |-> value, data |-> data, v |-> v, r |-> r, s |-> s]

\* A call, a creation, and the two with neither r nor s.
MCTxs == { Tx(0, Call(<<0, 1>>), 5, <<>>, 3, 6, 1), Tx(1, Create, 0, <<0, 1, 1>>, 2, 1, 4),
           Tx(0, Call(<<0, 1>>), 5, <<>>, 1, 0, 0), Tx(1, Create, 0, <<0, 1, 1>>, 0, 0, 0) }

MCChainIds == {None, <<0>>, <<1>>, <<3>>}

MCItems == { List(<<>>), List(<<Data(<<>>)>>), Data(<<>>), Data(<<0>>), Data(<<1>>),
             Data(<<0, 1>>), Data(<<1, 1>>), Data(<<1, 0, 1>>), Data(<<1, 0, 0, 0>>) }
=============================================================================
