--------------------------- MODULE TransactionCodec ---------------------------
(***************************************************************************)
(* A signed transaction as an RLP list (transaction.rs): how it is         *)
(* written, how what a client sent is read back, and what its hash covers. *)
(*                                                                         *)
(* The rlp crate is external: it finds the items of the list in the raw    *)
(* bytes and reads a single item.  An item is data, a sequence of bytes,   *)
(* or a list.                                                              *)
(***************************************************************************)
EXTENDS EthCore

CONSTANTS
    Txs,       \* signed transactions that clients write
    ChainIds,  \* chain ids, None or <<n>>
    Items,     \* items that may get into the bytes on their way
    Base,      \* a byte is a number below Base
    U64Bytes, U256Bytes, AddressBytes,  \* lengths
    MaxChanges \* bound: changes to the bytes on their way

CodecAssumption ==
    /\ {Base, U64Bytes, U256Bytes, AddressBytes} \subseteq Nat \ {0, 1}
    /\ U64Bytes <= U256Bytes
    /\ MaxChanges \in Nat

ASSUME CodecAssumption

VARIABLES
    origin,   \* history: the transaction the client wrote, or None
    wire,     \* the raw bytes that are on their way, or None
    changes,  \* history: the number of changes made to it
    decoded   \* what was read from it: a set of at most one transaction

codecVars == <<origin, wire, changes, decoded>>

-----------------------------------------------------------------------------
(* Single items.  A reader gives the set of the value it finds, which is   *)
(* empty for an error.                                                     *)

Data(bytes) == [list |-> FALSE, bytes |-> bytes]
List(items) == [list |-> TRUE, items |-> items]

Bytes == 0 .. Base - 1

\* The numbers that the first bytes stand for.
Prefixes(bytes) ==
    LET value[i \in 0 .. Len(bytes)] ==
            IF i = 0 THEN 0 ELSE value[i - 1] * Base + bytes[i]
    IN  value

BigEndian(bytes) == Prefixes(bytes)[Len(bytes)]

Strings(length) == UNION {[1 .. len -> Bytes] : len \in 0 .. length}

\* What an integer of that many bytes may be.
Numbers(length) == {BigEndian(b) : b \in Strings(length)}

\* No leading zeros.
Shortest(bytes) == bytes # <<>> => bytes[1] # 0

\* The shortest bytes of a number; of zero, none.
Uint(n) == Data(CHOOSE b \in Strings(U256Bytes) : BigEndian(b) = n /\ Shortest(b))

ReadBytes(item) == IF item.list THEN {} ELSE {item.bytes}

\* Too many bytes and leading zeros are errors.
ReadUint(item, length) ==
    {BigEndian(b) : b \in {b \in ReadBytes(item) : Len(b) <= length /\ Shortest(b)}}

ReadAddress(item) == {b \in ReadBytes(item) : Len(b) = AddressBytes}

\* Rlp::is_empty looks at the first byte, which says length zero for both.
is_empty(item) == item = Data(<<>>) \/ item = List(<<>>)

-----------------------------------------------------------------------------
(* Raw bytes, as the reader of a list meets them: from the first of the    *)
(* list on, the items one after the other; how many of these lie within    *)
(* the length that the list gives itself; and whether bytes follow which   *)
(* no item begins with.                                                    *)

\* A list as the crate writes it.
Encoded(items) == [items |-> items, length |-> Len(items), junk |-> FALSE]

\* Nothing stands after the list.
Plain(raw) == raw = Encoded(raw.items)

\* Only the first item is looked for within the length of the list, and that
\* length must not go beyond the bytes.  The others are read from wherever the
\* one before ended, and what is no item ends the iteration.
ItemsRead(raw) ==
    IF raw.length \in 1 .. Len(raw.items) + (IF raw.junk THEN 1 ELSE 0)
    THEN raw.items
    ELSE <<>>

-----------------------------------------------------------------------------
(* Transactions: records of the nine fields of the list, in its order,     *)
(* and, when read, their hash.  Call(to) is the action that is not Create. *)

Call(to) == <<"Call", to>>

EncodeAction(action) == IF action = Create THEN Data(<<>>) ELSE Data(action[2])

\* Mutant of DecodeAction: whatever is empty creates, lists too.
DecodeAction_AnyEmpty(item) ==
    IF is_empty(item) THEN {Create} ELSE {Call(to) : to \in ReadAddress(item)}

DecodeAction(item) ==
    IF is_empty(item)
    THEN IF item.list THEN {} ELSE {Create}
    ELSE {Call(to) : to \in ReadAddress(item)}

Unsigned(tx) ==
    << Uint(tx.nonce), Uint(tx.gas_price), Uint(tx.gas),
       EncodeAction(tx.action), Uint(tx.value), Data(tx.data) >>

\* Mutant of Message: the chain id is left to v.
Message_NoChain(tx, id) == Unsigned(tx)

\* What is signed: six items, or nine with a chain id and two zeros.
Message(tx, id) ==
    Unsigned(tx) \o IF id = None THEN <<>> ELSE <<Uint(id[1]), Uint(0), Uint(0)>>

\* Mutant of Sealed: the signature is written in the order of the crate that
\* signs, r, s and v.
Sealed_SignatureOrder(tx) == Unsigned(tx) \o <<Uint(tx.r), Uint(tx.s), Uint(tx.v)>>

\* What is sent: nine items.
Sealed(tx) == Unsigned(tx) \o <<Uint(tx.v), Uint(tx.r), Uint(tx.s)>>

ComputedHash(tx) == Keccak(Encoded(Sealed(tx)))

FromItems(items, hash) ==
    { [ nonce |-> nonce, gas_price |-> gas_price, gas |-> gas, action |-> action,
        value |-> value, data |-> data, v |-> v, r |-> r, s |-> s, hash |-> hash ] :
      nonce \in ReadUint(items[1], U256Bytes),
      gas_price \in ReadUint(items[2], U256Bytes),
      gas \in ReadUint(items[3], U256Bytes),
      action \in DecodeAction(items[4]),
      value \in ReadUint(items[5], U256Bytes),
      data \in ReadBytes(items[6]),
      v \in ReadUint(items[7], U64Bytes),
      r \in ReadUint(items[8], U256Bytes),
      s \in ReadUint(items[9], U256Bytes) }

\* The hash is that of the bytes as they came, all of them.
Decode(raw) ==
    IF Len(ItemsRead(raw)) # 9 THEN {} ELSE FromItems(ItemsRead(raw), Keccak(raw))

\* The types of the fields: U256 for the numbers and u64 for v, an Address, and
\* Vec<u8>.
IsTransaction(tx) ==
    /\ {tx.nonce, tx.gas_price, tx.gas, tx.value, tx.r, tx.s} \subseteq Numbers(U256Bytes)
    /\ tx.v \in Numbers(U64Bytes)
    /\ tx.action \in {Create} \cup {Call(to) : to \in [1 .. AddressBytes -> Bytes]}
    /\ tx.data \in Seq(Bytes)

\* Chain ids are u64.
TransactionAssumption ==
    /\ \A tx \in Txs : IsTransaction(tx)
    /\ \A id \in ChainIds : id = None \/ \E n \in Numbers(U64Bytes) : id = <<n>>

\* An item is data or a list.
ItemAssumption ==
    \A item \in Items : IF item.list THEN item = List(item.items)
                         ELSE item.bytes \in Seq(Bytes) /\ item = Data(item.bytes)

ASSUME TransactionAssumption
ASSUME ItemAssumption

-----------------------------------------------------------------------------
(* Specification                                                           *)

Write(tx) ==
    /\ wire = None
    /\ origin' = tx
    /\ wire' = Encoded(Sealed(tx))
    /\ UNCHANGED <<changes, decoded>>

\* Clients may send other bytes than those of a transaction: another item, one
\* more, one less, another length of the list, a tail that is no item.
Change ==
    /\ wire # None /\ decoded = {}
    /\ changes < MaxChanges
    /\ changes' = changes + 1
    /\ \/ \E i \in DOMAIN wire.items, item \in Items :
             wire' = [wire EXCEPT !.items[i] = item]
       \/ \E item \in Items : wire' = [wire EXCEPT !.items = Append(@, item)]
       \/ Len(wire.items) > 1 /\ wire' = [wire EXCEPT !.items = Tail(@)]
       \/ \E length \in 0 .. Len(wire.items) + 1 : wire' = [wire EXCEPT !.length = length]
       \/ wire' = [wire EXCEPT !.junk = TRUE]
    /\ UNCHANGED <<origin, decoded>>

\* send_raw_transaction reads it, or answers an error.
Read ==
    /\ wire # None /\ decoded = {}
    /\ IF Decode(wire) = {}
       THEN wire' = None /\ origin' = None /\ changes' = 0 /\ UNCHANGED decoded
       ELSE decoded' = Decode(wire) /\ UNCHANGED <<origin, wire, changes>>

\* The request ends.
Done ==
    /\ decoded # {}
    /\ origin' = None /\ wire' = None /\ changes' = 0 /\ decoded' = {}

CodecInit == origin = None /\ wire = None /\ changes = 0 /\ decoded = {}

CodecNext == Change \/ Read \/ Done \/ \E tx \in Txs : Write(tx)

CodecSpec == CodecInit /\ [][CodecNext]_codecVars

-----------------------------------------------------------------------------
(* Properties                                                              *)

\* What was written is read back, with the hash that compute_hash takes of it
\* before it is sent.
RoundTrip ==
    (changes = 0 /\ wire # None) =>
        Decode(wire) = { [ nonce |-> origin.nonce, gas_price |-> origin.gas_price,
                           gas |-> origin.gas, action |-> origin.action,
                           value |-> origin.value, data |-> origin.data,
                           v |-> origin.v, r |-> origin.r, s |-> origin.s,
                           hash |-> ComputedHash(origin) ] }

\* The hash of a transaction is documented as the keccak of its RLP (hash in
\* transaction.rs), so this is the claim that the hash taken of the bytes as they
\* came is that of the list the node itself would write of the fields.
HashOfFields == \A tx \in decoded : tx.hash = ComputedHash(tx)

\* It is so exactly when the bytes are the list and nothing else: no item can be
\* written in two ways that are both accepted, and whatever stands after the list,
\* or is taken from beyond its length, gives the same fields another hash.
HashOfPlainList == \A tx \in decoded : tx.hash = ComputedHash(tx) <=> Plain(wire)

SameUnsigned(t, u) ==
    /\ t.nonce = u.nonce /\ t.gas_price = u.gas_price /\ t.gas = u.gas
    /\ t.action = u.action /\ t.value = u.value /\ t.data = u.data

\* What is signed says all: two transactions are signed as the same message only
\* if they agree, for the same chain.  And a transaction with a signature is
\* never itself a message to sign, though both are lists of nine items.
MessagesDiffer ==
    \A t \in decoded, u \in Txs \cup decoded, i \in ChainIds :
        /\ \A j \in ChainIds :
              Message(t, i) = Message(u, j) => i = j /\ SameUnsigned(t, u)
        /\ (t.r # 0 \/ t.s # 0) => Sealed(t) # Message(u, i)
=============================================================================
