------------------------ MODULE BlockNumberCodecProofs ------------------------
(***************************************************************************)
(* Theorems on what a client may write for a block number, for any values  *)
(* and any number of entries.                                              *)
(***************************************************************************)
EXTENDS BlockNumberCodec, FiniteSetTheorems, SequenceTheorems, TLAPS

\* The places of the keys in the order in which the visitor gets them.
LEMMA PositionOrder ==
    /\ Position("blockHash") = 2
    /\ Position("blockNumber") = 3
    /\ Position("requireCanonical") = 4
<1>1. /\ \A i \in DOMAIN KeyOrder : KeyOrder[i] = "blockHash" <=> i = 2
      /\ \A i \in DOMAIN KeyOrder : KeyOrder[i] = "blockNumber" <=> i = 3
      /\ \A i \in DOMAIN KeyOrder : KeyOrder[i] = "requireCanonical" <=> i = 4
      /\ 2 \in DOMAIN KeyOrder /\ 3 \in DOMAIN KeyOrder /\ 4 \in DOMAIN KeyOrder
  BY DEF KeyOrder
<1> QED
  BY <1>1 DEF Position

-----------------------------------------------------------------------------
(* The loop                                                                *)

\* The object that the visitor was given, and the keys it has read of it.
object == Parsed(sent.entries)

Seen == DOMAIN object \ DOMAIN rest

\* The locals say what was read, in the order of the keys, and the loop only
\* ends early at a number.
LoopInv ==
    state \in {"keys", "read"} =>
        /\ sent.kind = "object"
        /\ DOMAIN rest \subseteq DOMAIN object
        /\ \A key \in DOMAIN rest : rest[key] = object[key]
        /\ Seen \subseteq {"blockHash", "blockNumber", "requireCanonical"}
        /\ "blockNumber" \in Seen => "blockHash" \notin DOMAIN rest
        /\ "requireCanonical" \in Seen => {"blockHash", "blockNumber"} \cap DOMAIN rest = {}
        /\ IF "blockHash" \in Seen
           THEN block_hash # None /\ block_hash = ParseHash(object["blockHash"])
           ELSE block_hash = None
        /\ IF "requireCanonical" \in Seen
           THEN /\ object["requireCanonical"].kind = "bool"
                /\ require_canonical = object["requireCanonical"].value
           ELSE require_canonical = FALSE
        /\ IF "blockNumber" \in Seen
           THEN /\ state = "read"
                /\ block_number # None
                /\ block_number = ParseNumber(object["blockNumber"])
                /\ "requireCanonical" \notin Seen
           ELSE block_number = None
        /\ state = "read" => block_number # None \/ DOMAIN rest = {}

VisitorInv == LoopInv /\ ObjectMeaning

\* An object with a value that does not parse, or with an unknown key, means
\* nothing.
LEMMA MeansNothing ==
    ASSUME NEW obj,
           \/ "blockNumber" \in DOMAIN obj /\ ParseNumber(obj["blockNumber"]) = None
           \/ "blockHash" \in DOMAIN obj /\ ParseHash(obj["blockHash"]) = None
           \/ "requireCanonical" \in DOMAIN obj /\ obj["requireCanonical"].kind # "bool"
           \/ ~(DOMAIN obj \subseteq {"blockHash", "blockNumber", "requireCanonical"})
           \/ {"blockNumber", "requireCanonical"} \subseteq DOMAIN obj
    PROVE  Meaning(obj) = Failed
BY DEF Meaning

\* Taking a key out of what is left.
LEMMA NextKeySeen ==
    ASSUME NEW key, NextKey(key), LoopInv
    PROVE  /\ sent.kind = "object" /\ sent' = sent /\ object' = object
           /\ key \in DOMAIN object /\ rest[key] = object[key]
           /\ DOMAIN rest' = DOMAIN rest \ {key}
           /\ \A k \in DOMAIN rest' : rest'[k] = rest[k]
           /\ Seen' = Seen \cup {key}
           /\ key \notin Seen
<1>1. /\ state = "keys"
      /\ key \in DOMAIN rest
      /\ rest' = [k \in DOMAIN rest \ {key} |-> rest[k]]
      /\ sent' = sent
  BY DEF NextKey
<1>2. object' = object
  BY <1>1 DEF object
<1>3. /\ sent.kind = "object"
      /\ DOMAIN rest \subseteq DOMAIN object
      /\ \A k \in DOMAIN rest : rest[k] = object[k]
  BY <1>1 DEF LoopInv
<1> QED
  BY <1>1, <1>2, <1>3 DEF Seen

\* A key that fails to parse ends the visit with an error.
LEMMA FailKeeps ==
    ASSUME Fail, sent' = sent, sent.kind = "object", Meaning(object) = Failed
    PROVE  VisitorInv'
<1>1. state' = "done" /\ result' = Failed
  BY DEF Fail
<1> QED
  BY <1>1 DEF VisitorInv, LoopInv, ObjectMeaning, object

\* A good number ends the loop, when no hash can come any more.
LEMMA BlockNumberKeeps ==
    ASSUME VisitorInv, VisitBlockNumber
    PROVE  VisitorInv'
<1> DEFINE number == ParseNumber(rest["blockNumber"])
<1>1. NextKey("blockNumber") /\ LoopInv /\ state = "keys"
  BY DEF VisitBlockNumber, VisitorInv, NextKey
<1>2. /\ sent.kind = "object" /\ sent' = sent /\ object' = object
      /\ "blockNumber" \in DOMAIN object /\ rest["blockNumber"] = object["blockNumber"]
      /\ DOMAIN rest' = DOMAIN rest \ {"blockNumber"}
      /\ \A k \in DOMAIN rest' : rest'[k] = rest[k]
      /\ Seen' = Seen \cup {"blockNumber"}
      /\ "blockNumber" \notin Seen
  BY <1>1, NextKeySeen
<1>3. CASE number = None
  <2>1. Meaning(object) = Failed
    BY <1>2, <1>3, MeansNothing
  <2>2. Fail
    BY <1>3 DEF VisitBlockNumber
  <2> QED
    BY <1>2, <2>1, <2>2, FailKeeps
<1>4. CASE number # None
  <2>1. /\ block_number' = number /\ state' = "read"
        /\ UNCHANGED <<require_canonical, block_hash, result>>
    BY <1>4 DEF VisitBlockNumber
  <2>2. "blockHash" \notin DOMAIN rest
    BY <1>1, PositionOrder DEF NextKey
  <2>3. "requireCanonical" \notin Seen
    BY <1>1 DEF LoopInv, NextKey
  <2>4. LoopInv'
    BY <1>1, <1>2, <1>4, <2>1, <2>2, <2>3 DEF LoopInv
  <2> QED
    BY <2>1, <2>4 DEF VisitorInv, ObjectMeaning
<1> QED
  BY <1>3, <1>4

\* A good hash is kept, and the loop goes on.
LEMMA BlockHashKeeps ==
    ASSUME VisitorInv, VisitBlockHash
    PROVE  VisitorInv'
<1> DEFINE hash == ParseHash(rest["blockHash"])
<1>1. NextKey("blockHash") /\ LoopInv /\ state = "keys"
  BY DEF VisitBlockHash, VisitorInv, NextKey
<1>2. /\ sent.kind = "object" /\ sent' = sent /\ object' = object
      /\ "blockHash" \in DOMAIN object /\ rest["blockHash"] = object["blockHash"]
      /\ DOMAIN rest' = DOMAIN rest \ {"blockHash"}
      /\ \A k \in DOMAIN rest' : rest'[k] = rest[k]
      /\ Seen' = Seen \cup {"blockHash"}
      /\ "blockHash" \notin Seen
  BY <1>1, NextKeySeen
<1>3. CASE hash = None
  <2>1. Meaning(object) = Failed
    BY <1>2, <1>3, MeansNothing
  <2>2. Fail
    BY <1>3 DEF VisitBlockHash
  <2> QED
    BY <1>2, <2>1, <2>2, FailKeeps
<1>4. CASE hash # None
  <2>1. /\ block_hash' = hash
        /\ UNCHANGED <<state, require_canonical, block_number, result>>
    BY <1>4 DEF VisitBlockHash
  <2>2. LoopInv'
    BY <1>1, <1>2, <1>4, <2>1 DEF LoopInv
  <2> QED
    BY <1>1, <2>1, <2>2 DEF VisitorInv, ObjectMeaning
<1> QED
  BY <1>3, <1>4

\* The flag comes last of the known keys.
LEMMA RequireCanonicalKeeps ==
    ASSUME VisitorInv, VisitRequireCanonical
    PROVE  VisitorInv'
<1>1. NextKey("requireCanonical") /\ LoopInv /\ state = "keys"
  BY DEF VisitRequireCanonical, VisitorInv, NextKey
<1>2. /\ sent.kind = "object" /\ sent' = sent /\ object' = object
      /\ "requireCanonical" \in DOMAIN object
      /\ rest["requireCanonical"] = object["requireCanonical"]
      /\ DOMAIN rest' = DOMAIN rest \ {"requireCanonical"}
      /\ \A k \in DOMAIN rest' : rest'[k] = rest[k]
      /\ Seen' = Seen \cup {"requireCanonical"}
      /\ "requireCanonical" \notin Seen
  BY <1>1, NextKeySeen
<1>3. CASE object["requireCanonical"].kind # "bool"
  <2>1. Meaning(object) = Failed
    BY <1>2, <1>3, MeansNothing
  <2>2. Fail
    BY <1>2, <1>3 DEF VisitRequireCanonical
  <2> QED
    BY <1>2, <2>1, <2>2, FailKeeps
<1>4. CASE object["requireCanonical"].kind = "bool"
  <2>1. /\ require_canonical' = object["requireCanonical"].value
        /\ UNCHANGED <<state, block_number, block_hash, result>>
    BY <1>2, <1>4 DEF VisitRequireCanonical
  <2>2. "blockHash" \notin DOMAIN rest /\ "blockNumber" \notin DOMAIN rest
    BY <1>1, PositionOrder DEF NextKey
  <2>3. "blockNumber" \notin Seen
    BY <1>1 DEF LoopInv
  <2>4. LoopInv'
    BY <1>1, <1>2, <1>4, <2>1, <2>2, <2>3 DEF LoopInv
  <2> QED
    BY <1>1, <2>1, <2>4 DEF VisitorInv, ObjectMeaning
<1> QED
  BY <1>3, <1>4

\* Another key is an error, whatever else is there.
LEMMA UnknownKeeps ==
    ASSUME VisitorInv, VisitUnknown
    PROVE  VisitorInv'
<1>1. PICK key \in {"address", "tag"} : NextKey(key)
  BY DEF VisitUnknown
<1>2. sent.kind = "object" /\ sent' = sent /\ key \in DOMAIN object
  BY <1>1, NextKeySeen DEF VisitorInv
<1>3. Meaning(object) = Failed
  BY <1>2, MeansNothing
<1> QED
  BY <1>2, <1>3, FailKeeps DEF VisitUnknown

\* What the locals say at the end is what the object means.
LEMMA ReturnKeeps ==
    ASSUME VisitorInv, Return
    PROVE  VisitorInv'
<1>1. /\ state = "read" /\ state' = "done"
      /\ result' = IF DOMAIN rest # {} THEN Failed
                   ELSE IF block_number # None THEN Num(block_number[1])
                   ELSE IF block_hash # None THEN Hash(block_hash[1], require_canonical)
                   ELSE Failed
      /\ sent' = sent
  BY DEF Return
<1>2. LoopInv /\ Seen = DOMAIN object \ DOMAIN rest
  BY DEF VisitorInv, Seen
<1>3. result' = Meaning(object)
  <2>1. CASE DOMAIN rest # {}
    <3>1. "blockNumber" \in Seen
      BY <1>1, <1>2, <2>1 DEF LoopInv
    <3>2. \E key \in DOMAIN object : key \notin {"blockHash", "blockNumber"}
      BY <1>1, <1>2, <2>1, <3>1 DEF LoopInv
    <3>3. Meaning(object) = Failed
      BY <1>2, <3>1, <3>2 DEF Meaning
    <3> QED
      BY <1>1, <2>1, <3>3
  <2>2. CASE DOMAIN rest = {} /\ block_number # None
    <3>1. /\ "blockNumber" \in DOMAIN object
          /\ block_number = ParseNumber(object["blockNumber"])
          /\ DOMAIN object \subseteq {"blockNumber", "blockHash"}
          /\ "blockHash" \in DOMAIN object => ParseHash(object["blockHash"]) # None
      BY <1>1, <1>2, <2>2 DEF LoopInv
    <3> QED
      BY <1>1, <2>2, <3>1 DEF Meaning
  <2>3. CASE DOMAIN rest = {} /\ block_number = None /\ block_hash # None
    <3>1. /\ "blockHash" \in DOMAIN object
          /\ block_hash = ParseHash(object["blockHash"])
          /\ DOMAIN object \subseteq {"blockHash", "requireCanonical"}
          /\ IF "requireCanonical" \in DOMAIN object
             THEN /\ object["requireCanonical"].kind = "bool"
                  /\ require_canonical = object["requireCanonical"].value
             ELSE require_canonical = FALSE
      BY <1>1, <1>2, <2>3 DEF LoopInv
    <3> QED
      BY <1>1, <2>3, <3>1 DEF Meaning
  <2>4. CASE DOMAIN rest = {} /\ block_number = None /\ block_hash = None
    <3>1. "blockNumber" \notin DOMAIN object /\ "blockHash" \notin DOMAIN object
      BY <1>1, <1>2, <2>4 DEF LoopInv
    <3> QED
      BY <1>1, <2>4, <3>1 DEF Meaning
  <2> QED
    BY <2>1, <2>2, <2>3, <2>4
<1> QED
  BY <1>1, <1>3 DEF VisitorInv, LoopInv, ObjectMeaning, object

\* An object as it arrives: nothing is read of it yet.
LEMMA ReceiveKeeps ==
    ASSUME NEW json, Receive(json)
    PROVE  VisitorInv'
<1>1. CASE json.kind = "object"
  <2>1. /\ sent' = json /\ state' = "keys" /\ rest' = Parsed(json.entries)
        /\ require_canonical' = FALSE /\ block_number' = None /\ block_hash' = None
    BY <1>1 DEF Receive
  <2>2. rest' = object' /\ sent'.kind = "object"
    BY <1>1, <2>1 DEF object
  <2>3. Seen' = {}
    BY <2>2 DEF Seen
  <2> QED
    BY <2>1, <2>2, <2>3 DEF VisitorInv, LoopInv, ObjectMeaning
<1>2. CASE json.kind # "object"
  <2>1. sent' = json /\ state' = "done"
    BY <1>2 DEF Receive
  <2> QED
    BY <1>2, <2>1 DEF VisitorInv, LoopInv, ObjectMeaning
<1> QED
  BY <1>1, <1>2

-----------------------------------------------------------------------------
(* The theorem                                                             *)

\* Every step keeps the locals in order and the results right.
LEMMA StepKeepsVisitor ==
    ASSUME VisitorInv, [VisitorNext]_visitorVars
    PROVE  VisitorInv'
<1>1. CASE UNCHANGED visitorVars
  BY <1>1 DEF visitorVars, locals, VisitorInv, LoopInv, ObjectMeaning, object, Seen
<1>2. ASSUME NEW json, Receive(json) PROVE VisitorInv'
  BY <1>2, ReceiveKeeps
<1>3. CASE Visit
  BY <1>3, BlockNumberKeeps, BlockHashKeeps, RequireCanonicalKeeps, UnknownKeeps DEF Visit
<1>4. CASE NoMoreKeys
  BY <1>4 DEF NoMoreKeys, locals, VisitorInv, LoopInv, ObjectMeaning, object, Seen
<1>5. CASE Return
  BY <1>5, ReturnKeeps
<1>6. CASE Taken
  BY <1>6 DEF Taken, VisitorInv, LoopInv, ObjectMeaning
<1> QED
  BY <1>1, <1>2, <1>3, <1>4, <1>5, <1>6 DEF VisitorNext

\* The loop of visit_map, its early exit at blockNumber and serde_json's check
\* for unread entries compute the meaning of the object, whatever keys and values
\* a client writes and in whatever order (rpc.rs, BlockNumberVisitor).
THEOREM ObjectMeaningAlways == VisitorSpec => []ObjectMeaning
<1>1. VisitorInit => VisitorInv
  BY DEF VisitorInit, VisitorInv, LoopInv, ObjectMeaning
<1>2. VisitorInv /\ [VisitorNext]_visitorVars => VisitorInv'
  BY StepKeepsVisitor
<1>3. VisitorInv => ObjectMeaning
  BY DEF VisitorInv
<1> QED
  BY <1>1, <1>2, <1>3, PTL DEF VisitorSpec

-----------------------------------------------------------------------------
(* Numbers                                                                 *)

\* A set of positions has a last one.
LEMMA LastPosition ==
    ASSUME NEW n \in Nat, NEW T \in SUBSET (1 .. n), T # {}
    PROVE  \E i \in T : \A j \in T : j <= i
<1> DEFINE After(i) == {j \in T : j > i}
           S == 1 .. n
           Rests == {After(i) : i \in T}
<1>1. IsFiniteSet(S)
  BY FS_Interval
<1>2. \A i \in T : After(i) \in FiniteSubsetsOf(S)
  <2>1. \A i \in T : After(i) \subseteq S
    OBVIOUS
  <2> HIDE DEF S, After
  <2> QED
    BY <1>1, <2>1, FS_Subset DEF FiniteSubsetsOf
<1>3. PICK A \in Rests : \A B \in Rests : <<B, A>> \notin StrictSubsetOrdering(S)
  <2>1. Rests \subseteq FiniteSubsetsOf(S) /\ Rests # {}
    BY <1>2
  <2> HIDE DEF S, Rests
  <2> QED
    BY <2>1, FS_StrictSubsetOrderingWellFounded, WFMin
<1>4. PICK i \in T : A = After(i)
  OBVIOUS
<1>5. ASSUME NEW j \in T, j > i
      PROVE  FALSE
  <2>1. After(j) \in Rests
    BY <1>5
  <2>2. After(j) \subseteq After(i) /\ After(j) # After(i)
    <3>1. T \subseteq Nat /\ i \in Nat /\ j \in Nat
      OBVIOUS
    <3>2. j \in After(i) /\ j \notin After(j)
      BY <1>5, <3>1
    <3>3. \A k \in T : k > j => k > i
      BY <1>5, <3>1
    <3> QED
      BY <3>2, <3>3
  <2>3. After(j) \subseteq S /\ After(i) \subseteq S
    OBVIOUS
  <2> HIDE DEF After, Rests, S
  <2> QED
    BY <1>3, <1>4, <2>1, <2>2, <2>3 DEF StrictSubsetOrdering
<1> QED
  BY <1>5

\* What ParseNumber accepts is the number the text shows, and fits.
LEMMA ParsedNumber ==
    ASSUME NEW v \in Scalars, ParseNumber(v) # None
    PROVE  /\ v.kind = "text"
           /\ ParseNumber(v) = <<v.n>>
           /\ v.n \in 0 .. MaxU64
BY VisitorAssumption DEF VisitorAssumption, ParseNumber, from_str_radix, None, Some

\* The value of a key in an object is that of one of its entries.
LEMMA ParsedValue ==
    ASSUME NEW n \in Nat, NEW list \in [1 .. n -> Entries], NEW key \in DOMAIN Parsed(list)
    PROVE  \E i \in DOMAIN list : /\ list[i].key = key
                                  /\ list[i].value = Parsed(list)[key]
                                  /\ list[i].value \in Scalars
<1>1. list \in Seq(Entries) /\ Len(list) = n /\ DOMAIN list = 1 .. n
  BY SeqDef, LenProperties
<1> DEFINE T == {i \in DOMAIN list : list[i].key = key}
<1>2. T \in SUBSET (1 .. n) /\ T # {}
  BY <1>1 DEF Parsed
<1>3. \E i \in DOMAIN list : /\ list[i].key = key
                             /\ \A j \in i + 1 .. Len(list) : list[j].key # key
  <2>1. PICK i \in T : \A j \in T : j <= i
    <3> HIDE DEF T
    <3> QED
      BY <1>2, LastPosition
  <2>2. \A j \in i + 1 .. n : j \notin T /\ j \in DOMAIN list
    BY <1>1, <2>1
  <2> QED
    BY <1>1, <2>1, <2>2
<1> DEFINE last == CHOOSE i \in DOMAIN list :
                      /\ list[i].key = key
                      /\ \A j \in i + 1 .. Len(list) : list[j].key # key
<1>4. last \in DOMAIN list /\ list[last].key = key
  BY <1>3
<1>5. Parsed(list)[key] = list[last].value
  BY DEF Parsed
<1> HIDE DEF last
<1>6. list[last].value \in Scalars
  BY <1>4 DEF Entries
<1> QED
  BY <1>4, <1>5, <1>6

\* Objects have entries with scalar values, and results show what was written.
WrittenInv ==
    /\ LoopInv
    /\ state \in {"keys", "read"} =>
          \E n \in Nat : \E list \in [1 .. n -> Entries] : sent = Object(list)
    /\ NumberAsWritten

\* A string.
LEMMA StringAsWritten ==
    ASSUME NEW t \in Scalars, t.kind = "text", visit_str(t).tag = "Num"
    PROVE  visit_str(t).n \in 0 .. MaxU64 /\ t.n = visit_str(t).n
<1>1. CASE t.shape \in {"latest", "earliest", "pending"}
  <2>1. ParseNumber(t) = None
    BY <1>1 DEF ParseNumber
  <2>2. visit_str(t) = [tag |-> t.shape]
    BY <1>1, <2>1, Zenon DEF visit_str
  <2>3. t.shape # "Num"
    BY <1>1
  <2> QED
    BY <2>2, <2>3
<1>2. CASE t.shape \notin {"latest", "earliest", "pending"} /\ ParseNumber(t) # None
  <2>1. visit_str(t) = Num(ParseNumber(t)[1])
    BY <1>2, Zenon DEF visit_str
  <2>2. ParseNumber(t) = <<t.n>> /\ t.n \in 0 .. MaxU64
    BY <1>2, ParsedNumber
  <2>3. ParseNumber(t)[1] = t.n
    BY <2>2
  <2> QED
    BY <2>1, <2>2, <2>3 DEF Num
<1>3. CASE t.shape \notin {"latest", "earliest", "pending"} /\ ParseNumber(t) = None
  <2>1. visit_str(t) = Failed
    BY <1>3, Zenon DEF visit_str
  <2> QED
    BY <2>1 DEF Failed
<1> QED
  BY <1>1, <1>2, <1>3

\* An object.
LEMMA ReturnAsWritten ==
    ASSUME WrittenInv, Return
    PROVE  NumberAsWritten'
<1>1. /\ state = "read" /\ sent' = sent
      /\ sent.kind = "object"
      /\ block_number # None => /\ "blockNumber" \in DOMAIN object
                                /\ block_number = ParseNumber(object["blockNumber"])
  BY DEF Return, WrittenInv, LoopInv, Seen
<1>0. PICK n \in Nat : \E list \in [1 .. n -> Entries] : sent = Object(list)
  BY <1>1 DEF WrittenInv
<1>2. PICK list \in [1 .. n -> Entries] : sent = Object(list)
  BY <1>0
<1>3. object = Parsed(list) /\ sent.entries = list
  BY <1>2 DEF object, Object
<1>4. result'.tag = "Num" => block_number # None /\ result' = Num(block_number[1])
  BY DEF Return, Failed, Hash
<1>5. CASE block_number # None /\ result' = Num(block_number[1])
  <2>1. PICK i \in DOMAIN list : /\ list[i].key = "blockNumber"
                                 /\ list[i].value = object["blockNumber"]
                                 /\ list[i].value \in Scalars
    BY <1>1, <1>3, <1>5, ParsedValue
  <2>2. /\ list[i].value.kind = "text"
        /\ block_number = <<list[i].value.n>>
        /\ list[i].value.n \in 0 .. MaxU64
    BY <1>1, <1>5, <2>1, ParsedNumber
  <2>3. result'.n = list[i].value.n
    BY <1>5, <2>2 DEF Num
  <2> QED
    BY <1>1, <1>3, <2>1, <2>2, <2>3 DEF NumberAsWritten
<1> QED
  BY <1>4, <1>5 DEF NumberAsWritten

\* No number is accepted that is not the one the text shows, and none that
\* exceeds 64 bits, in a string and in an object (rpc.rs, from_str_radix in
\* visit_str and visit_map).
THEOREM NumberAlwaysAsWritten == VisitorSpec => []NumberAsWritten
<1>1. VisitorInit => VisitorInv /\ WrittenInv
  BY DEF VisitorInit, VisitorInv, LoopInv, ObjectMeaning, WrittenInv, NumberAsWritten
<1>2. VisitorInv /\ WrittenInv /\ [VisitorNext]_visitorVars => VisitorInv' /\ WrittenInv'
  <2> SUFFICES ASSUME VisitorInv, WrittenInv, [VisitorNext]_visitorVars
               PROVE  VisitorInv' /\ WrittenInv'
    OBVIOUS
  <2>1. VisitorInv' /\ LoopInv'
    BY StepKeepsVisitor DEF VisitorInv
  <2>2. CASE UNCHANGED visitorVars
    BY <2>1, <2>2 DEF visitorVars, WrittenInv, NumberAsWritten
  <2>3. ASSUME NEW v \in Scalars, Receive(v) PROVE WrittenInv'
    <3>1. v.kind # "object"
      BY VisitorAssumption DEF VisitorAssumption
    <3>2. /\ sent' = v /\ state' = "done"
          /\ result' = IF v.kind = "text" THEN visit_str(v) ELSE Failed
      BY <2>3, <3>1 DEF Receive
    <3> QED
      BY <2>1, <3>2, StringAsWritten DEF WrittenInv, NumberAsWritten, Failed
  <2>4. ASSUME NEW n \in Nat, NEW list \in [1 .. n -> Entries], Receive(Object(list))
        PROVE  WrittenInv'
    <3>1. sent' = Object(list) /\ state' = "keys"
      BY <2>4 DEF Receive, Object
    <3> QED
      BY <2>1, <3>1 DEF WrittenInv, NumberAsWritten
  <2>5. CASE Visit
    <3>1. state = "keys" /\ sent' = sent /\ (state' = "done" => result' = Failed)
      BY <2>5 DEF Visit, VisitBlockNumber, VisitBlockHash, VisitRequireCanonical,
                  VisitUnknown, NextKey, Fail
    <3> QED
      BY <2>1, <3>1 DEF WrittenInv, NumberAsWritten, Failed
  <2>6. CASE NoMoreKeys
    BY <2>1, <2>6 DEF NoMoreKeys, WrittenInv, NumberAsWritten
  <2>7. CASE Return
    BY <2>1, <2>7, ReturnAsWritten DEF Return, WrittenInv
  <2>8. CASE Taken
    BY <2>1, <2>8 DEF Taken, WrittenInv, NumberAsWritten
  <2> QED
    BY <2>1, <2>2, <2>3, <2>4, <2>5, <2>6, <2>7, <2>8 DEF VisitorNext
<1>3. WrittenInv => NumberAsWritten
  BY DEF WrittenInv
<1> QED
  BY <1>1, <1>2, <1>3, PTL DEF VisitorSpec
=============================================================================
