-------------------------------- MODULE Ledger --------------------------------
(***************************************************************************)
(* What the store promises: a log of transactions that only grows, and for *)
(* each transaction the place of its last entry.  Estimates, refusals and  *)
(* queries leave it alone.                                                 *)
(***************************************************************************)
EXTENDS EthCore

CONSTANT SignedTxs

VARIABLES
    log,    \* the transactions, in the order they were accepted
    where   \* transaction hash -> the position of its last entry

ledgerVars == <<log, where>>

LedgerInit == log = <<>> /\ where = EmptyMap

Record(tx) ==
    /\ log' = Append(log, tx)
    /\ where' = Put(where, TxHash(tx), Len(log) + 1)

LedgerNext == \E tx \in SignedTxs : Record(tx)

LedgerSpec == LedgerInit /\ [][LedgerNext]_ledgerVars
=============================================================================
