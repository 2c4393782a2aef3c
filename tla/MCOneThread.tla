----------------------------- MODULE MCOneThread -----------------------------
(***************************************************************************)
(* Values for the constants of OneThread: those of its parts, and the      *)
(* scalars of BlockNumberCodec.                                            *)
(***************************************************************************)
EXTENDS OneThread, MCTransactionCodec, MCTransactionSignature, MCApplyLoop

\* Every shape of text.  The long ones are a hash to one key and a number to
\* another; 3 is the largest u64, and 4 does not fit.
MCScalars ==
    { Text("latest", 0), Text("earliest", 0), Text("pending", 0), Text("bare", 1),
      Text("bad", 0), Text("short", 1), Text("short", 4), Text("long", 3),
      Text("long", 4), Bool(TRUE), Bool(FALSE), [kind |-> "other"] }
=============================================================================
