----------------------- MODULE MCTransactionSignature -----------------------
(***************************************************************************)
(* Values for the constants of TransactionSignature: a u64 of six bits.    *)
(***************************************************************************)
EXTENDS TransactionSignature

\* 13 is the last chain id that fits with both parities, 14 fits with parity
\* zero only, and 46 wraps around to a v that names chain 14.
MCChains == {None, <<1>>, <<13>>, <<14>>, <<46>>}
=============================================================================
