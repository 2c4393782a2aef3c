--------------------------- MODULE BlockNumberCodec ---------------------------
(***************************************************************************)
(* How a block number argument becomes a BlockNumber (rpc.rs,              *)
(* BlockNumberVisitor).  The argument reaches the visitor as a serde_json  *)
(* value: an object has lost the order its keys were sent in and all but   *)
(* the last value of each key, and hands its keys out in their own order.  *)
(* The visitor reads it key by key and may stop early; serde_json then     *)
(* refuses what was left unread.                                           *)
(***************************************************************************)
EXTENDS EthCore

CONSTANTS
    Scalars,    \* the JSON values, other than objects, a client may send
    MaxU64,     \* the largest u64
    MaxEntries  \* bound: entries a client writes into one object

\* A text is a word such as "latest", "bare" (no 0x), "bad" (0x and no
\* hexadecimal number), "short" or "long": 0x and the digits of n, of which
\* "long" has the 64 of a hash.
Text(shape, n) == [kind |-> "text", shape |-> shape, n |-> n]
Bool(b)        == [kind |-> "bool", value |-> b]
Object(list)   == [kind |-> "object", entries |-> list]

VisitorAssumption ==
    /\ MaxU64 \in Nat
    /\ MaxEntries \in Nat
    /\ \A v \in Scalars : v.kind # "object" /\ (v.kind = "text" => v.n \in Nat)

ASSUME VisitorAssumption

VARIABLES
    sent,               \* history: what the client wrote, or None
    state,              \* where the visitor is
    rest,               \* the entries of the object it has not read
    require_canonical, block_number, block_hash,   \* its locals
    result              \* the BlockNumber, an error, or None

locals    == <<require_canonical, block_number, block_hash>>
visitorVars == <<sent, state, rest, locals, result>>

Some(x) == <<x>>

Failed == [tag |-> "Error"]
Num(n) == [tag |-> "Num", n |-> n]
Hash(h, canonical) == [tag |-> "Hash", hash |-> h, require_canonical |-> canonical]

-----------------------------------------------------------------------------
(* Texts                                                                   *)

\* u64::from_str_radix(.., 16) of what follows 0x.
from_str_radix(t) == IF t.shape = "bad" \/ t.n > MaxU64 THEN None ELSE Some(t.n)

\* Mutant of ParseNumber: what does not fit is cut to 64 bits.
ParseNumber_Wraps(v) ==
    IF v.kind = "text" /\ v.shape \in {"short", "long"} THEN Some(v.n % (MaxU64 + 1)) ELSE None

\* A text with 0x and a number behind it.
ParseNumber(v) ==
    IF v.kind = "text" /\ v.shape \in {"bad", "short", "long"}
    THEN from_str_radix(v) ELSE None

\* H256 wants 0x and exactly 64 digits.
ParseHash(v) == IF v.kind = "text" /\ v.shape = "long" THEN Some(v.n) ELSE None

visit_str(t) ==
    CASE t.shape \in {"latest", "earliest", "pending"} -> [tag |-> t.shape]
      [] ParseNumber(t) # None -> Num(ParseNumber(t)[1])
      [] OTHER -> Failed

-----------------------------------------------------------------------------
(* Objects                                                                 *)

\* The keys the visitor knows, with one before and one after them, in the order
\* of the BTreeMap behind a serde_json object.
KeyOrder == <<"address", "blockHash", "blockNumber", "requireCanonical", "tag">>

ObjectKeys == {KeyOrder[i] : i \in DOMAIN KeyOrder}

Position(key) == CHOOSE i \in DOMAIN KeyOrder : KeyOrder[i] = key

\* The object that serde_json makes of the entries: the last value of a key.
Parsed(entries) ==
    [key \in {entries[i].key : i \in DOMAIN entries} |->
        LET last == CHOOSE i \in DOMAIN entries :
                        /\ entries[i].key = key
                        /\ \A j \in i + 1 .. Len(entries) : entries[j].key # key
        IN  entries[last].value]

\* The argument comes.  There is a visit method for strings and for objects.
Receive(json) ==
    /\ sent' = json
    /\ require_canonical' = FALSE /\ block_number' = None /\ block_hash' = None
    /\ IF json.kind = "object"
       THEN state' = "keys" /\ rest' = Parsed(json.entries) /\ result' = None
       ELSE /\ state' = "done" /\ rest' = None
            /\ result' = IF json.kind = "text" THEN visit_str(json) ELSE Failed

\* next_key, which takes the least entry out of the object.
NextKey(key) ==
    /\ state = "keys"
    /\ key \in DOMAIN rest
    /\ \A k \in DOMAIN rest : Position(key) <= Position(k)
    /\ rest' = [k \in DOMAIN rest \ {key} |-> rest[k]]
    /\ UNCHANGED sent

Fail == state' = "done" /\ result' = Failed /\ UNCHANGED locals

\* Mutant of VisitBlockNumber: the loop goes on after the number.
VisitBlockNumber_GoesOn ==
    /\ NextKey("blockNumber")
    /\ LET number == ParseNumber(rest["blockNumber"])
       IN  IF number = None THEN Fail
           ELSE /\ block_number' = number
                /\ UNCHANGED <<state, require_canonical, block_hash, result>>

\* A number ends the loop, whatever is still unread.
VisitBlockNumber ==
    /\ NextKey("blockNumber")
    /\ LET number == ParseNumber(rest["blockNumber"])
       IN  IF number = None THEN Fail
           ELSE /\ block_number' = number
                /\ state' = "read"
                /\ UNCHANGED <<require_canonical, block_hash, result>>

VisitBlockHash ==
    /\ NextKey("blockHash")
    /\ LET hash == ParseHash(rest["blockHash"])
       IN  IF hash = None THEN Fail
           ELSE /\ block_hash' = hash
                /\ UNCHANGED <<state, require_canonical, block_number, result>>

VisitRequireCanonical ==
    /\ NextKey("requireCanonical")
    /\ LET v == rest["requireCanonical"]
       IN  IF v.kind # "bool" THEN Fail
           ELSE /\ require_canonical' = v.value
                /\ UNCHANGED <<state, block_number, block_hash, result>>

VisitUnknown == (\E key \in {"address", "tag"} : NextKey(key)) /\ Fail

NoMoreKeys ==
    /\ state = "keys"
    /\ DOMAIN rest = {}
    /\ state' = "read"
    /\ UNCHANGED <<sent, rest, locals, result>>

\* What visit_map returns; serde_json turns it into an error when entries are
\* left.
Return ==
    /\ state = "read"
    /\ state' = "done"
    /\ result' = IF DOMAIN rest # {} THEN Failed
                 ELSE IF block_number # None THEN Num(block_number[1])
                 ELSE IF block_hash # None THEN Hash(block_hash[1], require_canonical)
                 ELSE Failed
    /\ UNCHANGED <<sent, rest, locals>>

\* The handler takes the result, and the visitor is gone.
Taken ==
    /\ state = "done"
    /\ state' = "idle" /\ sent' = None /\ rest' = None /\ result' = None
    /\ require_canonical' = FALSE /\ block_number' = None /\ block_hash' = None

-----------------------------------------------------------------------------
(* Specification                                                           *)

Entries == [key : ObjectKeys, value : Scalars]

VisitorInit ==
    /\ state = "idle" /\ sent = None /\ rest = None /\ result = None
    /\ require_canonical = FALSE /\ block_number = None /\ block_hash = None

Visit ==
    VisitBlockNumber \/ VisitBlockHash \/ VisitRequireCanonical \/ VisitUnknown

VisitorNext ==
    \/ /\ state = "idle"
       /\ \/ \E v \in Scalars : Receive(v)
          \/ \E n \in 0 .. MaxEntries : \E list \in [1 .. n -> Entries] :
                Receive(Object(list))
    \/ Visit
    \/ NoMoreKeys
    \/ Return
    \/ Taken

VisitorSpec == VisitorInit /\ [][VisitorNext]_visitorVars

-----------------------------------------------------------------------------
(* Properties                                                              *)

\* What an object means, told without the loop: a good number alone or with a
\* good hash is that number; a good hash alone or with a good flag is that hash;
\* anything else is an error.
Meaning(object) ==
    LET given(key) == key \in DOMAIN object
        number == IF given("blockNumber") THEN ParseNumber(object["blockNumber"]) ELSE None
        hash   == IF given("blockHash") THEN ParseHash(object["blockHash"]) ELSE None
    IN  IF /\ number # None
           /\ given("blockHash") => hash # None
           /\ DOMAIN object \subseteq {"blockNumber", "blockHash"}
        THEN Num(number[1])
        ELSE IF /\ hash # None
                /\ DOMAIN object \subseteq {"blockHash", "requireCanonical"}
                /\ given("requireCanonical") => object["requireCanonical"].kind = "bool"
        THEN Hash(hash[1], IF given("requireCanonical")
                           THEN object["requireCanonical"].value ELSE FALSE)
        ELSE Failed

\* The visitor, its early exit and serde_json's check together compute that
\* meaning.  It depends on the last value of each key alone, so the order in
\* which a client writes the keys never changes the block it gets.
ObjectMeaning ==
    (state = "done" /\ sent.kind = "object") => result = Meaning(Parsed(sent.entries))

\* No number is accepted that is not the one the text shows, however many digits
\* it has: what exceeds 64 bits is an error, in a string and in an object.
NumberAsWritten ==
    (state = "done" /\ result.tag = "Num") =>
        /\ result.n \in 0 .. MaxU64
        /\ \/ sent.kind = "text" /\ sent.n = result.n
           \/ /\ sent.kind = "object"
              /\ \E i \in DOMAIN sent.entries :
                    /\ sent.entries[i].key = "blockNumber"
                    /\ sent.entries[i].value.kind = "text"
                    /\ sent.entries[i].value.n = result.n
=============================================================================
