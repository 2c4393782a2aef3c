------------------------------ MODULE OneThread ------------------------------
(***************************************************************************)
(* What a thread does by itself: it reads the block number argument or the *)
(* raw transaction of a request, recovers senders, and writes the changes  *)
(* of an execution into accounts that no other thread sees meanwhile.      *)
(* These parts share no variable, so a step of one in the midst of another *)
(* changes neither: each steps only while the others rest.                 *)
(***************************************************************************)
EXTENDS BlockNumberCodec, TransactionCodec, TransactionSignature, ApplyLoop

oneThreadVars == <<visitorVars, codecVars, sigVars, loopVars>>

\* Signatures stay about once they are made: the part that signs rests before it
\* makes the first.
VisitorRests == state = "idle"
CodecRests   == wire = None
SigRests     == signed = {}
LoopRests    == pc = "idle"

OneThreadInit == VisitorInit /\ CodecInit /\ SigInit /\ LoopInit

OneThreadNext ==
    \/ /\ CodecRests /\ SigRests /\ LoopRests
       /\ VisitorNext /\ UNCHANGED <<codecVars, sigVars, loopVars>>
    \/ /\ VisitorRests /\ SigRests /\ LoopRests
       /\ CodecNext /\ UNCHANGED <<visitorVars, sigVars, loopVars>>
    \/ /\ VisitorRests /\ CodecRests /\ LoopRests
       /\ SigNext /\ UNCHANGED <<visitorVars, codecVars, loopVars>>
    \/ /\ VisitorRests /\ CodecRests /\ SigRests
       /\ LoopNext /\ UNCHANGED <<visitorVars, codecVars, sigVars>>

OneThreadSpec == OneThreadInit /\ [][OneThreadNext]_oneThreadVars
=============================================================================
