------------------------- MODULE TransactionSignature -------------------------
(***************************************************************************)
(* Signing a transaction for a chain and recovering its sender             *)
(* (transaction.rs).  The chain id travels in the v of the signature, and  *)
(* the sender is recovered from the message hash for the chain that v      *)
(* names.  Here keys sign transactions, and anything made of a signature,  *)
(* a transaction and a v may come before the node.                         *)
(***************************************************************************)
EXTENDS EthCore, FiniteSets

CONSTANTS
    Keys,            \* keys that sign
    Stranger,        \* any other key
    Transactions,    \* unsigned transactions
    Chains,          \* chain ids they are signed for, None or <<n>>
    MaxV,            \* the largest u64, which v is
    OverflowChecks,  \* TRUE in a debug build, FALSE in a release build
    MaxSigned        \* bound: number of signatures

SigAssumption ==
    /\ MaxV \in Nat /\ MaxV >= 28
    /\ \A id \in Chains : id = None \/ \E n \in 0 .. MaxV : id = <<n>>
    /\ Stranger \notin Keys /\ None \notin Keys /\ None # Stranger
    /\ OverflowChecks \in BOOLEAN
    /\ MaxSigned \in Nat

ASSUME SigAssumption

VARIABLES
    signed,  \* history: who signed what for which chain, and what came of it
    raw      \* the transaction that is before the node, or None

sigVars == <<signed, raw>>

U64 == 0 .. MaxV

-----------------------------------------------------------------------------
(* The v of a signature                                                    *)

\* What is added up, before it is cut to 64 bits.
ProtectedV(v, id) == v + (IF id = None THEN 27 ELSE 35 + id[1] * 2)

add_chain_replay_protection(v, id) == ProtectedV(v, id) % (MaxV + 1)

\* Mutants of check_replay_protection: one is not subtracted; a bare parity is
\* accepted too.
check_replay_protection_Off(v) ==
    CASE v = 27  -> 0
      [] v = 28  -> 1
      [] v >= 35 -> v % 2
      [] OTHER   -> 4

check_replay_protection_Bare(v) ==
    CASE v = 27  -> 0
      [] v = 28  -> 1
      [] v >= 35 -> (v - 1) % 2
      [] v <= 1  -> v
      [] OTHER   -> 4

\* The parity, or 4 for a v that has none.
check_replay_protection(v) ==
    CASE v = 27  -> 0
      [] v = 28  -> 1
      [] v >= 35 -> (v - 1) % 2
      [] OTHER   -> 4

-----------------------------------------------------------------------------
(* Transactions with a signature: records [tx, v, sig] whose sig is None   *)
(* when r and s are zero.                                                  *)

is_unsigned(u) == u.sig = None

chain_id(u) ==
    IF is_unsigned(u) THEN <<u.v>>
    ELSE IF u.v >= 35 THEN <<(u.v - 35) \div 2>>
    ELSE None

\* Mutant of MessageHash: the chain id is not hashed.
MessageHash_NoChain(tx, id) == Keccak(<<tx>>)

\* A list of six items without chain id, of nine items with it.
MessageHash(tx, id) == Keccak(<<tx, id>>)

with_signature(tx, sig, id) ==
    [tx |-> tx, v |-> add_chain_replay_protection(sig.parity, id), sig |-> sig]

\* ECDSA recovery gives the signer for the message and parity of the signature
\* and another key for any other.
Recover(sig, parity, msg) ==
    IF sig.parity = parity /\ sig.msg = msg THEN sig.key ELSE Stranger

recover_public(u) ==
    LET parity == check_replay_protection(u.v)
    IN  IF parity = 4 THEN None
        ELSE Recover(u.sig, parity, MessageHash(u.tx, chain_id(u)))

\* SignedTransaction::new: the sender, or None for an error.
Sender(u) == IF is_unsigned(u) THEN None ELSE recover_public(u)

-----------------------------------------------------------------------------
(* Specification                                                           *)

\* sign panics, and nothing is signed, when a checked addition overflows or no
\* sender can be recovered from what it made.
Sign(key, tx, id) ==
    /\ Cardinality(signed) < MaxSigned
    /\ \E parity \in {0, 1} :
          LET sig == [key |-> key, msg |-> MessageHash(tx, id), parity |-> parity]
              u   == with_signature(tx, sig, id)
          IN  /\ OverflowChecks => ProtectedV(parity, id) <= MaxV
              /\ Sender(u) # None
              /\ signed' = signed \cup {[key |-> key, tx |-> tx, chain_id |-> id, raw |-> u]}
    /\ UNCHANGED raw

\* decode takes any transaction, any v and any r and s from the wire.
DecodeAny ==
    /\ raw = None
    /\ \E s \in signed, tx \in Transactions, v \in U64 : \E sig \in {s.raw.sig, None} :
          raw' = [tx |-> tx, v |-> v, sig |-> sig]
    /\ UNCHANGED signed

\* The request that brought the transaction ends.
Finish == raw # None /\ raw' = None /\ UNCHANGED signed

SigInit == signed = {} /\ raw = None

SigNext ==
    \/ DecodeAny
    \/ Finish
    \/ \E key \in Keys, tx \in Transactions, id \in Chains : Sign(key, tx, id)

SigSpec == SigInit /\ [][SigNext]_sigVars

-----------------------------------------------------------------------------
(* Properties                                                              *)

\* Replay protection: a key is taken for the sender of a transaction on a chain
\* only if it signed that transaction for that chain, whatever v the signature
\* comes with.
SenderSigned ==
    ( raw # None /\ Sender(raw) \in Keys ) =>
    \E s \in signed : /\ s.key = Sender(raw)
                      /\ s.tx = raw.tx
                      /\ s.chain_id = chain_id(raw)

\* A signature passes for its signer with one v only, the one that signing for
\* that chain would have written: no second encoding, and so no second hash, of
\* a transaction comes from its v.
CanonicalV ==
    ( raw # None /\ Sender(raw) \in Keys ) =>
        raw.v = ProtectedV(raw.sig.parity, chain_id(raw))

\* Unless v does not fit 64 bits, the chain id survives its trip through v and
\* the signer is recovered.
SignerRecovered ==
    \A s \in signed :
        ProtectedV(s.raw.sig.parity, s.chain_id) <= MaxV =>
            Sender(s.raw) = s.key /\ chain_id(s.raw) = s.chain_id

\* `sign' signs the transaction as coming from the key it is given (the comment
\* of sign): its sender is always that key.
SignedAsSender == \A s \in signed : Sender(s.raw) = s.key
=============================================================================
