---------------------- MODULE TransactionSignatureProofs ----------------------
(***************************************************************************)
(* Theorems about TransactionSignature, for every width of v, every set of *)
(* keys and chain ids, and both builds.                                    *)
(***************************************************************************)
EXTENDS TransactionSignature, TLAPS

-----------------------------------------------------------------------------
(* The arithmetic of v                                                     *)

\* A v made for a chain gives back the parity and the chain id.
LEMMA VRoundTrip ==
    ASSUME NEW parity \in {0, 1}, NEW n \in Nat
    PROVE  LET v == parity + (35 + n * 2)
           IN  /\ v \in Nat /\ v >= 35
               /\ (v - 1) % 2 = parity
               /\ (v - 35) \div 2 = n
  OBVIOUS

\* Conversely a v from 35 on is the one made from its parity and chain id.
LEMMA VIsProtected ==
    ASSUME NEW v \in Nat, v >= 35
    PROVE  /\ (v - 1) % 2 \in {0, 1}
           /\ (v - 35) \div 2 \in Nat
           /\ v = ((v - 1) % 2) + (35 + ((v - 35) \div 2) * 2)
  OBVIOUS

\* A v that fits is stored as it was added up.
LEMMA FittingVIsKept ==
    ASSUME NEW x \in Nat, x <= MaxV
    PROVE  x % (MaxV + 1) = x
  <1>1. MaxV \in Nat
    BY SigAssumption DEF SigAssumption
  <1> QED BY <1>1

\* Whatever is added up, what is stored is a u64.
LEMMA StoredVIsU64 ==
    ASSUME NEW x \in Nat
    PROVE  x % (MaxV + 1) \in U64
  <1>1. MaxV \in Nat
    BY SigAssumption DEF SigAssumption
  <1> QED BY <1>1 DEF U64

\* The sum for a chain id that keys sign for is a natural number.
LEMMA ProtectedVIsNat ==
    ASSUME NEW parity \in {0, 1}, NEW id \in Chains
    PROVE  ProtectedV(parity, id) \in Nat
  <1>1. CASE id = None
    BY <1>1 DEF ProtectedV
  <1>2. CASE \E n \in 0 .. MaxV : id = <<n>>
    <2>1. PICK n \in 0 .. MaxV : id = <<n>>
      BY <1>2
    <2>2. id[1] = n /\ id # None /\ n \in Nat
      BY <2>1 DEF None
    <2> QED BY <2>2 DEF ProtectedV
  <1> QED BY <1>1, <1>2, SigAssumption DEF SigAssumption

-----------------------------------------------------------------------------
(* Signatures are what signing wrote                                       *)

\* What `sign' returned carries the v that with_signature computed.
SignedAsWritten ==
    \A s \in signed :
        s.raw.v = add_chain_replay_protection(s.raw.sig.parity, s.chain_id)

\* What is before the node is a transaction whose v is a u64, and every
\* signature on it was made by a key.
MadeByKeys ==
    /\ \A s \in signed :
          /\ s.key \in Keys /\ s.tx \in Transactions /\ s.chain_id \in Chains
          /\ s.raw = [tx |-> s.tx, v |-> s.raw.v, sig |-> s.raw.sig]
          /\ s.raw.v \in U64
          /\ \E parity \in {0, 1} :
                s.raw.sig = [ key |-> s.key, msg |-> MessageHash(s.tx, s.chain_id),
                              parity |-> parity ]
    /\ raw # None =>
          /\ raw.tx \in Transactions
          /\ raw.v \in U64
          /\ raw.sig # None => \E s \in signed : raw.sig = s.raw.sig

SigInv == MadeByKeys /\ SignedAsWritten

\* Signing adds one entry, whose parts are those of its arguments.
LEMMA SignAdds ==
    ASSUME NEW key \in Keys, NEW tx \in Transactions, NEW id \in Chains, Sign(key, tx, id)
    PROVE  /\ raw' = raw
           /\ \E parity \in {0, 1} : \E u :
                /\ signed' = signed \cup {[key |-> key, tx |-> tx, chain_id |-> id, raw |-> u]}
                /\ u = [tx |-> tx, v |-> u.v, sig |-> u.sig]
                /\ u.v = add_chain_replay_protection(parity, id)
                /\ u.sig = [ key |-> key, msg |-> MessageHash(tx, id),
                             parity |-> parity ]
  <1>1. PICK parity \in {0, 1} :
            signed' = signed \cup
                {[ key |-> key, tx |-> tx, chain_id |-> id,
                   raw |-> with_signature(tx, [ key |-> key,
                                                msg |-> MessageHash(tx, id),
                                                parity |-> parity ], id) ]}
    BY DEF Sign
  <1> DEFINE sig == [key |-> key, msg |-> MessageHash(tx, id), parity |-> parity]
             u   == with_signature(tx, sig, id)
  <1>2. u = [tx |-> tx, v |-> add_chain_replay_protection(parity, id), sig |-> sig]
    BY DEF with_signature
  <1>3. /\ u.v = add_chain_replay_protection(parity, id)
        /\ u.sig = sig
        /\ u = [tx |-> tx, v |-> u.v, sig |-> u.sig]
    BY <1>2
  <1>4. raw' = raw
    BY DEF Sign
  <1> QED BY <1>1, <1>3, <1>4

\* The invariant is kept by signing.
LEMMA SignKeepsInv ==
    ASSUME SigInv, NEW key \in Keys, NEW tx \in Transactions, NEW id \in Chains,
           Sign(key, tx, id)
    PROVE  SigInv'
  <1>0. PICK parity \in {0, 1} : \E u :
            /\ signed' = signed \cup {[key |-> key, tx |-> tx, chain_id |-> id, raw |-> u]}
            /\ u = [tx |-> tx, v |-> u.v, sig |-> u.sig]
            /\ u.v = add_chain_replay_protection(parity, id)
            /\ u.sig = [key |-> key, msg |-> MessageHash(tx, id), parity |-> parity]
    BY SignAdds
  <1>1. PICK u :
            /\ signed' = signed \cup {[key |-> key, tx |-> tx, chain_id |-> id, raw |-> u]}
            /\ u = [tx |-> tx, v |-> u.v, sig |-> u.sig]
            /\ u.v = add_chain_replay_protection(parity, id)
            /\ u.sig = [key |-> key, msg |-> MessageHash(tx, id), parity |-> parity]
    BY <1>0
  <1>2. raw' = raw
    BY SignAdds
  <1>3. u.v \in U64
    BY <1>1, ProtectedVIsNat, StoredVIsU64 DEF add_chain_replay_protection
  <1>4. u.sig.parity = parity
    BY <1>1
  <1> DEFINE new == [key |-> key, tx |-> tx, chain_id |-> id, raw |-> u]
  <1>5. new.key = key /\ new.tx = tx /\ new.chain_id = id /\ new.raw = u
    OBVIOUS
  <1>6. signed' = signed \cup {new}
    BY <1>1
  <1> HIDE DEF new
  <1>7. ASSUME NEW s \in signed'
        PROVE  /\ s.key \in Keys /\ s.tx \in Transactions /\ s.chain_id \in Chains
               /\ s.raw = [tx |-> s.tx, v |-> s.raw.v, sig |-> s.raw.sig]
               /\ s.raw.v \in U64
               /\ \E p \in {0, 1} :
                     s.raw.sig = [ key |-> s.key, msg |-> MessageHash(s.tx, s.chain_id),
                                   parity |-> p ]
               /\ s.raw.v = add_chain_replay_protection(s.raw.sig.parity, s.chain_id)
    <2>1. CASE s \in signed
      BY <2>1 DEF SigInv, MadeByKeys, SignedAsWritten
    <2>2. CASE s = new
      BY <2>2, <1>1, <1>3, <1>4, <1>5
    <2> QED BY <1>6, <2>1, <2>2
  <1>8. (raw # None => /\ raw.tx \in Transactions /\ raw.v \in U64
                       /\ raw.sig # None => \E s \in signed : raw.sig = s.raw.sig)'
    BY <1>2, <1>6 DEF SigInv, MadeByKeys, U64
  <1>9. MadeByKeys'
    BY <1>7, <1>8 DEF MadeByKeys, U64, MessageHash, Keccak
  <1>10. SignedAsWritten'
    BY <1>7 DEF SignedAsWritten, add_chain_replay_protection, ProtectedV
  <1> QED BY <1>9, <1>10 DEF SigInv

\* The invariant holds initially and every step keeps it.
LEMMA InitSigInv == SigInit => SigInv
  BY DEF SigInit, SigInv, MadeByKeys, SignedAsWritten

\* What comes from the wire carries a signature that was made, or none.
LEMMA DecodeKeepsInv ==
    ASSUME SigInv, DecodeAny
    PROVE  SigInv'
  <1>0. PICK s \in signed, tx \in Transactions, v \in U64 :
            \E sig \in {s.raw.sig, None} : raw' = [tx |-> tx, v |-> v, sig |-> sig]
    BY DEF DecodeAny
  <1>1. PICK sig \in {s.raw.sig, None} : raw' = [tx |-> tx, v |-> v, sig |-> sig]
    BY <1>0
  <1>2. signed' = signed
    BY DEF DecodeAny
  <1>3. raw'.tx \in Transactions /\ raw'.v \in U64 /\ raw'.sig \in {s.raw.sig, None}
    BY <1>1
  <1> QED BY <1>2, <1>3 DEF SigInv, MadeByKeys, SignedAsWritten, U64

\* Every step keeps the invariant.
LEMMA StepKeepsSigInv == SigInv /\ [SigNext]_sigVars => SigInv'
  <1> SUFFICES ASSUME SigInv, [SigNext]_sigVars PROVE SigInv'
    OBVIOUS
  <1>1. CASE DecodeAny
    BY <1>1, DecodeKeepsInv
  <1>2. CASE Finish
    BY <1>2 DEF Finish, SigInv, MadeByKeys, SignedAsWritten, U64
  <1>3. CASE \E key \in Keys, tx \in Transactions, id \in Chains : Sign(key, tx, id)
    BY <1>3, SignKeepsInv
  <1>4. CASE UNCHANGED sigVars
    BY <1>4 DEF sigVars, SigInv, MadeByKeys, SignedAsWritten, U64
  <1> QED BY <1>1, <1>2, <1>3, <1>4 DEF SigNext

\* In every state the signatures are those that keys made (transaction.rs,
\* with_signature), each with the v computed for its chain id.
THEOREM SigInvAlways == SigSpec => []SigInv
  BY InitSigInv, StepKeepsSigInv, PTL DEF SigSpec

\* The part of it that the next theorems need.
LEMMA MadeByKeysAlways == SigSpec => []MadeByKeys
  <1>1. SigInv => MadeByKeys
    BY DEF SigInv
  <1> QED BY <1>1, SigInvAlways, PTL

-----------------------------------------------------------------------------
(* What recovery tells                                                     *)

\* A transaction whose sender is a key carries a signature of that key, made for
\* the same transaction and the chain id that its v names, with its parity.
LEMMA RecoveredFromSigned ==
    ASSUME MadeByKeys, raw # None, Sender(raw) \in Keys
    PROVE  \E s \in signed :
              /\ raw.sig = s.raw.sig
              /\ s.key = Sender(raw)
              /\ s.tx = raw.tx
              /\ s.chain_id = chain_id(raw)
              /\ raw.sig # None
              /\ raw.sig.parity \in {0, 1}
              /\ raw.sig.parity = check_replay_protection(raw.v)
  <1>1. None \notin Keys /\ Stranger \notin Keys
    BY SigAssumption DEF SigAssumption
  <1>2. raw.sig # None /\ Sender(raw) = recover_public(raw)
    BY <1>1 DEF Sender, is_unsigned
  <1> DEFINE p == check_replay_protection(raw.v)
             msg == MessageHash(raw.tx, chain_id(raw))
  <1>3. Sender(raw) = Recover(raw.sig, p, msg)
    BY <1>1, <1>2 DEF recover_public
  <1>4. raw.sig.parity = p /\ raw.sig.msg = msg /\ Sender(raw) = raw.sig.key
    BY <1>1, <1>3 DEF Recover
  <1>5. PICK s \in signed : raw.sig = s.raw.sig
    BY <1>2 DEF MadeByKeys
  <1>6. PICK parity \in {0, 1} :
            s.raw.sig = [ key |-> s.key, msg |-> MessageHash(s.tx, s.chain_id),
                          parity |-> parity ]
    BY DEF MadeByKeys
  <1>7. raw.sig.key = s.key /\ raw.sig.parity = parity
          /\ raw.sig.msg = MessageHash(s.tx, s.chain_id)
    BY <1>5, <1>6
  <1>8. s.tx = raw.tx /\ s.chain_id = chain_id(raw)
    <2>1. MessageHash(s.tx, s.chain_id) = MessageHash(raw.tx, chain_id(raw))
      BY <1>4, <1>7
    <2> QED BY <2>1 DEF MessageHash, Keccak
  <1> QED BY <1>2, <1>4, <1>5, <1>7, <1>8

\* Replay protection holds in every state: a key is only ever taken for the
\* sender of what it signed, on the chain it signed it for (transaction.rs,
\* recover_public hashes the chain id that v names).
THEOREM SenderSignedAlways == SigSpec => []SenderSigned
  <1>1. MadeByKeys => SenderSigned
    BY RecoveredFromSigned DEF SenderSigned
  <1> QED BY <1>1, MadeByKeysAlways, PTL

\* A v that has a parity is the one made from its parity and chain id.
LEMMA ParityFixesV ==
    ASSUME NEW u, u.v \in Nat, ~is_unsigned(u),
           check_replay_protection(u.v) \in {0, 1}
    PROVE  u.v = ProtectedV(check_replay_protection(u.v), chain_id(u))
  <1>1. CASE u.v >= 35
    <2> DEFINE n == (u.v - 35) \div 2
    <2>1. u.v # 27 /\ u.v # 28
      BY <1>1
    <2>2. check_replay_protection(u.v) = (u.v - 1) % 2
      BY <1>1, <2>1 DEF check_replay_protection
    <2>3. chain_id(u) = <<n>> /\ <<n>> # None /\ <<n>>[1] = n
      BY <1>1 DEF chain_id, None
    <2>4. ProtectedV(check_replay_protection(u.v), chain_id(u)) = ((u.v - 1) % 2) + (35 + n * 2)
      BY <2>2, <2>3 DEF ProtectedV
    <2> QED BY <1>1, <2>4, VIsProtected
  <1>2. CASE u.v < 35
    <2>1. chain_id(u) = None
      BY <1>2 DEF chain_id
    <2>2. u.v = 27 \/ u.v = 28
      BY <1>2 DEF check_replay_protection
    <2>3. u.v = check_replay_protection(u.v) + 27
      BY <2>2 DEF check_replay_protection
    <2> QED BY <2>1, <2>3 DEF ProtectedV
  <1> QED BY <1>1, <1>2

\* In every state a signature that passes for its signer has the one v that
\* signing writes for its chain (transaction.rs, check_replay_protection).
THEOREM CanonicalVAlways == SigSpec => []CanonicalV
  <1>1. ASSUME MadeByKeys, raw # None, Sender(raw) \in Keys
        PROVE  raw.v = ProtectedV(raw.sig.parity, chain_id(raw))
    <2>1. /\ raw.sig # None
          /\ raw.sig.parity \in {0, 1}
          /\ raw.sig.parity = check_replay_protection(raw.v)
      BY <1>1, RecoveredFromSigned
    <2>2. raw.v \in Nat
      BY <1>1, SigAssumption DEF MadeByKeys, U64, SigAssumption
    <2>3. raw.v = ProtectedV(check_replay_protection(raw.v), chain_id(raw))
      BY <2>1, <2>2, ParityFixesV DEF is_unsigned
    <2> QED BY <2>1, <2>3
  <1>2. MadeByKeys => CanonicalV
    BY <1>1 DEF CanonicalV
  <1> QED BY <1>2, MadeByKeysAlways, PTL

\* The parity and chain id that went into a v that fits come out of it.
LEMMA FittingVComesBack ==
    ASSUME NEW u, ~is_unsigned(u), NEW parity \in {0, 1}, NEW id \in Chains,
           u.v = add_chain_replay_protection(parity, id),
           ProtectedV(parity, id) <= MaxV
    PROVE  check_replay_protection(u.v) = parity /\ chain_id(u) = id
  <1>1. u.v = ProtectedV(parity, id)
    BY ProtectedVIsNat, FittingVIsKept DEF add_chain_replay_protection
  <1>2. CASE id = None
    <2>1. u.v = parity + 27
      BY <1>1, <1>2 DEF ProtectedV
    <2>2. u.v \in {27, 28} /\ (u.v = 27 => parity = 0) /\ (u.v = 28 => parity = 1)
      BY <2>1
    <2>3. check_replay_protection(u.v) = parity
      BY <2>2 DEF check_replay_protection
    <2>4. chain_id(u) = None
      BY <2>2 DEF chain_id
    <2> QED BY <1>2, <2>3, <2>4
  <1>3. CASE \E n \in 0 .. MaxV : id = <<n>>
    <2>1. PICK n \in 0 .. MaxV : id = <<n>>
      BY <1>3
    <2>2. n \in Nat /\ id # None /\ id[1] = n
      BY <2>1 DEF None
    <2>3. u.v = parity + (35 + n * 2)
      BY <1>1, <2>2 DEF ProtectedV
    <2>4. /\ u.v \in Nat /\ u.v >= 35
          /\ (u.v - 1) % 2 = parity
          /\ (u.v - 35) \div 2 = n
      BY <2>2, <2>3, VRoundTrip
    <2>5. u.v # 27 /\ u.v # 28
      BY <2>4
    <2>6. check_replay_protection(u.v) = parity
      BY <2>4, <2>5 DEF check_replay_protection
    <2>7. chain_id(u) = <<n>>
      BY <2>4 DEF chain_id
    <2> QED BY <2>1, <2>6, <2>7
  <1> QED BY <1>2, <1>3, SigAssumption DEF SigAssumption

\* In every state, whatever was signed for a chain id whose v fits 64 bits is
\* recovered as signed (transaction.rs, sign), in debug and release builds.
THEOREM SignerRecoveredAlways == SigSpec => []SignerRecovered
  <1>1. ASSUME SigInv, NEW s \in signed,
               ProtectedV(s.raw.sig.parity, s.chain_id) <= MaxV
        PROVE  Sender(s.raw) = s.key /\ chain_id(s.raw) = s.chain_id
    <2>1. PICK parity \in {0, 1} :
              s.raw.sig = [ key |-> s.key, msg |-> MessageHash(s.tx, s.chain_id),
                            parity |-> parity ]
      BY <1>1 DEF SigInv, MadeByKeys
    <2>2. /\ s.raw.sig.key = s.key
          /\ s.raw.sig.msg = MessageHash(s.tx, s.chain_id)
          /\ s.raw.sig.parity = parity
      BY <2>1
    <2>3. s.raw.sig # None
      BY <2>1, <2>2 DEF None
    <2>4. s.chain_id \in Chains /\ s.raw.tx = s.tx
      <3>1. s.raw = [tx |-> s.tx, v |-> s.raw.v, sig |-> s.raw.sig]
        BY <1>1 DEF SigInv, MadeByKeys
      <3>2. s.raw.tx = s.tx
        BY <3>1
      <3> QED BY <1>1, <3>2 DEF SigInv, MadeByKeys
    <2>5. s.raw.v = add_chain_replay_protection(parity, s.chain_id)
      BY <1>1, <2>2 DEF SigInv, SignedAsWritten
    <2>6. check_replay_protection(s.raw.v) = parity /\ chain_id(s.raw) = s.chain_id
      BY <1>1, <2>2, <2>3, <2>4, <2>5, FittingVComesBack DEF is_unsigned
    <2>7. Sender(s.raw) = s.key
      <3>1. parity # 4
        OBVIOUS
      <3> QED BY <2>2, <2>3, <2>4, <2>6, <3>1 DEF Sender, is_unsigned, recover_public, Recover
    <2> QED BY <2>6, <2>7
  <1>2. SigInv => SignerRecovered
    BY <1>1 DEF SignerRecovered
  <1> QED BY <1>2, SigInvAlways, PTL
=============================================================================
