------------------------ MODULE TransactionCodecProofs ------------------------
(***************************************************************************)
(* Theorems on transactions as RLP lists, for numbers of any width: what   *)
(* is written is read back, and its fields have one hash as long as        *)
(* nothing stands after the list.                                          *)
(***************************************************************************)
EXTENDS TransactionCodec, SequenceTheorems, WellFoundedInduction, TLAPS

-----------------------------------------------------------------------------
(* Induction on sets of naturals                                           *)

\* Every set of naturals that is not empty has a least element.
LEMMA LeastNatural ==
    ASSUME NEW T \in SUBSET Nat, T # {}
    PROVE  \E m \in T : \A k \in T : m <= k
<1>1. PICK m \in T : \A k \in T : <<k, m>> \notin OpToRel(<, Nat)
  BY NatLessThanWellFounded, WFMin
<1>2. \A k \in T : ~(k < m)
  BY <1>1 DEF OpToRel
<1> QED
  BY <1>2

\* A set with zero and with the successors of its elements has all naturals.
LEMMA AllNaturals ==
    ASSUME NEW S, 0 \in S, \A n \in Nat : n \in S => n + 1 \in S
    PROVE  Nat \subseteq S
<1> SUFFICES ASSUME Nat \ S # {} PROVE FALSE
  OBVIOUS
<1>1. PICK m \in Nat \ S : \A k \in Nat \ S : m <= k
  BY LeastNatural
<1>2. m # 0 /\ m - 1 \in Nat /\ ~(m <= m - 1)
  BY <1>1
<1>3. m - 1 \in S
  BY <1>1, <1>2
<1> QED
  BY <1>1, <1>2, <1>3

-----------------------------------------------------------------------------
(* Numbers and their bytes                                                 *)

\* One more digit.
LEMMA DigitNat ==
    ASSUME NEW x \in Nat, NEW y \in Nat, NEW r \in Nat
    PROVE  x * y + r \in Nat
OBVIOUS

\* Quotient and remainder are unique.
LEMMA DigitUnique ==
    ASSUME NEW B \in Nat, NEW x \in Nat, NEW y \in Nat,
           NEW r \in 0 .. B - 1, NEW s \in 0 .. B - 1, x * B + r = y * B + s
    PROVE  x = y /\ r = s
<1>1. \A p, q \in Nat, d, e \in 0 .. B - 1 : p < q => p * B + d # q * B + e
  OBVIOUS
<1>2. ~(x < y) /\ ~(y < x)
  BY <1>1
<1>3. x = y
  BY <1>2
<1> QED
  BY <1>3

\* What the first i bytes stand for, by recursion on i.
LEMMA PrefixValues ==
    ASSUME NEW n \in Nat, NEW b \in [1 .. n -> Bytes]
    PROVE  /\ Prefixes(b) \in [0 .. n -> Nat]
           /\ Prefixes(b)[0] = 0
           /\ \A i \in 1 .. n : Prefixes(b)[i] = Prefixes(b)[i - 1] * Base + b[i]
<1> DEFINE Def(f, m) == [i \in 0 .. m |-> IF i = 0 THEN 0 ELSE f[i - 1] * Base + b[i]]
           S == {m \in Nat : m <= n => \E f \in [0 .. m -> Nat] : f = Def(f, m)}
<1>1. Len(b) = n /\ Base \in Nat /\ \A i \in 1 .. n : b[i] \in Nat
  BY CodecAssumption DEF CodecAssumption, Bytes
<1>2. 0 \in S
  <2>1. [i \in 0 .. 0 |-> 0] = Def([i \in 0 .. 0 |-> 0], 0)
    OBVIOUS
  <2> QED
    BY <2>1
<1>3. ASSUME NEW m \in Nat, m \in S PROVE m + 1 \in S
  <2>1. ASSUME m + 1 <= n
        PROVE  \E f \in [0 .. m + 1 -> Nat] : f = Def(f, m + 1)
    <3>1. PICK f \in [0 .. m -> Nat] : f = Def(f, m)
      BY <1>3, <2>1
    <3> DEFINE g == [i \in 0 .. m + 1 |-> IF i <= m THEN f[i] ELSE f[m] * Base + b[m + 1]]
    <3>2. f[m] * Base + b[m + 1] \in Nat
      <4>1. f[m] \in Nat /\ b[m + 1] \in Nat
        BY <1>1, <2>1, <3>1
      <4> QED
        BY <1>1, <4>1, DigitNat
    <3>3. g \in [0 .. m + 1 -> Nat]
      BY <3>1, <3>2
    <3>4. \A i \in 0 .. m : f[i] = IF i = 0 THEN 0 ELSE f[i - 1] * Base + b[i]
      BY <3>1
    <3>5. \A i \in 0 .. m + 1 : g[i] = IF i = 0 THEN 0 ELSE g[i - 1] * Base + b[i]
      <4> TAKE i \in 0 .. m + 1
      <4>1. CASE i = m + 1
        BY <4>1
      <4>2. CASE i \in 0 .. m
        <5>1. g[i] = f[i] /\ (i # 0 => g[i - 1] = f[i - 1])
          BY <4>2
        <5> QED
          BY <3>4, <4>2, <5>1
      <4> QED
        BY <4>1, <4>2
    <3>6. g = Def(g, m + 1)
      BY <3>5
    <3> HIDE DEF g
    <3> QED
      BY <3>3, <3>6
  <2> HIDE DEF Def
  <2> QED
    BY <2>1
<1>4. \E f \in [0 .. n -> Nat] : f = Def(f, n)
  <2> HIDE DEF S, Def
  <2>1. n \in S
    BY <1>2, <1>3, AllNaturals
  <2> QED
    BY <2>1 DEF S
<1>5. Prefixes(b) = CHOOSE f : f = Def(f, n)
  BY <1>1 DEF Prefixes
<1>6. Prefixes(b) = Def(Prefixes(b), n)
  BY <1>4, <1>5
<1>7. /\ DOMAIN Prefixes(b) = 0 .. n
      /\ \A i \in 0 .. n : Prefixes(b)[i] =
            IF i = 0 THEN 0 ELSE Prefixes(b)[i - 1] * Base + b[i]
  BY <1>6
<1> DEFINE T == {i \in Nat : i <= n => Prefixes(b)[i] \in Nat}
<1>8. \A i \in 0 .. n : Prefixes(b)[i] \in Nat
  <2>1. 0 \in T
    BY <1>7
  <2>2. ASSUME NEW i \in Nat, i \in T PROVE i + 1 \in T
    <3>1. ASSUME i + 1 <= n PROVE Prefixes(b)[i + 1] \in Nat
      <4>1. Prefixes(b)[i] \in Nat /\ b[i + 1] \in Nat
        BY <1>1, <2>2, <3>1
      <4>2. Prefixes(b)[i + 1] = Prefixes(b)[i] * Base + b[i + 1]
        BY <1>7, <3>1
      <4>3. Prefixes(b)[i] * Base + b[i + 1] \in Nat
        BY <1>1, <4>1, DigitNat
      <4> QED
        BY <4>2, <4>3
    <3> QED
      BY <3>1
  <2> HIDE DEF T
  <2>3. Nat \subseteq T
    BY <2>1, <2>2, AllNaturals
  <2> QED
    BY <2>3 DEF T
<1> QED
  BY <1>6, <1>7, <1>8

\* A number that does not begin with a zero byte is not zero.
LEMMA PrefixPositive ==
    ASSUME NEW n \in Nat, NEW b \in [1 .. n -> Bytes], Shortest(b)
    PROVE  \A i \in 1 .. n : Prefixes(b)[i] # 0
<1> DEFINE P == Prefixes(b)
           T == {i \in Nat : i + 1 <= n => P[i + 1] # 0}
<1>1. /\ P \in [0 .. n -> Nat]
      /\ P[0] = 0
      /\ \A i \in 1 .. n : P[i] = P[i - 1] * Base + b[i]
  BY PrefixValues
<1>2. Base \in Nat \ {0} /\ \A i \in 1 .. n : b[i] \in Nat
  BY CodecAssumption DEF CodecAssumption, Bytes
<1> HIDE DEF P
<1>3. 0 \in T
  <2>1. ASSUME 1 <= n PROVE P[1] # 0
    <3>1. P[1] = 0 * Base + b[1]
      BY <1>1, <2>1
    <3>2. b # <<>>
      BY <2>1
    <3> QED
      BY <1>2, <2>1, <3>1, <3>2 DEF Shortest
  <2> QED
    BY <2>1
<1>4. ASSUME NEW i \in Nat, i \in T PROVE i + 1 \in T
  <2>1. ASSUME i + 1 + 1 <= n PROVE P[i + 1 + 1] # 0
    <3>1. P[i + 1] \in Nat \ {0} /\ b[i + 1 + 1] \in Nat
      <4>1. i + 1 \in 0 .. n /\ i + 1 + 1 \in 1 .. n /\ i + 1 <= n
        BY <2>1
      <4>2. P[i + 1] # 0
        BY <1>4, <4>1
      <4> QED
        BY <1>1, <1>2, <4>1, <4>2
    <3>2. P[i + 1 + 1] = P[i + 1] * Base + b[i + 1 + 1]
      BY <1>1, <2>1
    <3>3. \A x, y \in Nat \ {0}, r \in Nat : x * y + r # 0
      OBVIOUS
    <3> QED
      BY <1>2, <3>1, <3>2, <3>3
  <2> QED
    BY <2>1
<1> HIDE DEF T
<1>5. Nat \subseteq T
  BY <1>3, <1>4, AllNaturals
<1> SUFFICES ASSUME NEW i \in 1 .. n PROVE P[i] # 0
  BY DEF P
<1>6. i - 1 \in T
  BY <1>5
<1> QED
  BY <1>6 DEF T

\* From the right, two byte strings of one number agree digit by digit, so the
\* longer one goes on with zeros.
LEMMA SameNumber ==
    ASSUME NEW n \in Nat, NEW b \in [1 .. n -> Bytes],
           NEW m \in Nat, NEW c \in [1 .. m -> Bytes],
           n <= m, Shortest(c), BigEndian(b) = BigEndian(c)
    PROVE  b = c
<1> DEFINE P == Prefixes(b)
           Q == Prefixes(c)
           T == {j \in Nat : j <= n => P[n - j] = Q[m - j]}
<1>1. /\ P \in [0 .. n -> Nat] /\ P[0] = 0
      /\ \A i \in 1 .. n : P[i] = P[i - 1] * Base + b[i]
  BY PrefixValues
<1>2. /\ Q \in [0 .. m -> Nat] /\ Q[0] = 0
      /\ \A i \in 1 .. m : Q[i] = Q[i - 1] * Base + c[i]
      /\ \A i \in 1 .. m : Q[i] # 0
  BY PrefixValues, PrefixPositive
<1>3. P[n] = Q[m]
  BY DEF BigEndian
<1>4. Base \in Nat
  BY CodecAssumption DEF CodecAssumption
<1> HIDE DEF P, Q
<1>5. ASSUME NEW i \in 1 .. n, NEW k \in 1 .. m, P[i] = Q[k]
      PROVE  P[i - 1] = Q[k - 1] /\ b[i] = c[k]
  <2> DEFINE x == P[i - 1]
             y == Q[k - 1]
             r == b[i]
             s == c[k]
  <2>1. x * Base + r = y * Base + s
    BY <1>1, <1>2, <1>5
  <2>2. x \in Nat
    BY <1>1
  <2>3. y \in Nat
    BY <1>2
  <2>4. r \in 0 .. Base - 1 /\ s \in 0 .. Base - 1
    BY DEF Bytes
  <2> HIDE DEF x, y, r, s
  <2>5. x = y /\ r = s
    BY <1>4, <2>1, <2>2, <2>3, <2>4, DigitUnique
  <2> QED
    BY <2>5 DEF x, y, r, s
<1>6. 0 \in T
  BY <1>3
<1>7. ASSUME NEW j \in Nat, j \in T PROVE j + 1 \in T
  <2>1. ASSUME j + 1 <= n PROVE P[n - (j + 1)] = Q[m - (j + 1)]
    <3>1. n - j \in 1 .. n /\ m - j \in 1 .. m /\ P[n - j] = Q[m - j]
      BY <1>7, <2>1
    <3>2. P[(n - j) - 1] = Q[(m - j) - 1]
      BY <1>5, <3>1
    <3> QED
      BY <3>2
  <2> QED
    BY <2>1
<1> HIDE DEF T
<1>8. Nat \subseteq T
  BY <1>6, <1>7, AllNaturals
<1>9. \A j \in 0 .. n : P[n - j] = Q[m - j]
  BY <1>8 DEF T
<1>10. n = m
  <2>1. P[n - n] = Q[m - n]
    BY <1>9
  <2>2. n - n = 0
    OBVIOUS
  <2>3. m - n \notin 1 .. m
    BY <1>1, <1>2, <2>1, <2>2
  <2> QED
    BY <2>3
<1>11. \A i \in 1 .. n : b[i] = c[i]
  <2> TAKE i \in 1 .. n
  <2>1. n - i \in 0 .. n /\ n - (n - i) = i
    OBVIOUS
  <2>2. P[i] = Q[i]
    BY <1>9, <1>10, <2>1
  <2> QED
    BY <1>5, <1>10, <2>2
<1> QED
  BY <1>10, <1>11

\* Two byte strings without leading zeros are different numbers.
LEMMA ShortestUnique ==
    ASSUME NEW n \in Nat, NEW b \in [1 .. n -> Bytes], Shortest(b),
           NEW m \in Nat, NEW c \in [1 .. m -> Bytes], Shortest(c),
           BigEndian(b) = BigEndian(c)
    PROVE  b = c
<1>1. CASE n <= m
  BY <1>1, SameNumber
<1>2. CASE m <= n
  BY <1>2, SameNumber
<1> QED
  BY <1>1, <1>2

\* A leading zero can be left out.
LEMMA LeadingZero ==
    ASSUME NEW n \in Nat, NEW b \in [1 .. n -> Bytes], ~Shortest(b)
    PROVE  /\ n # 0
           /\ \E c \in [1 .. n - 1 -> Bytes] : BigEndian(c) = BigEndian(b)
<1>1. n # 0 /\ b[1] = 0
  <2>1. b # <<>> /\ b[1] = 0
    BY DEF Shortest
  <2>2. n = 0 => b = <<>>
    BY SeqDef
  <2> QED
    BY <2>1, <2>2
<1> DEFINE c == [i \in 1 .. n - 1 |-> b[i + 1]]
           P == Prefixes(b)
           Q == Prefixes(c)
           T == {i \in Nat : i <= n - 1 => Q[i] = P[i + 1]}
<1>2. n - 1 \in Nat /\ c \in [1 .. n - 1 -> Bytes]
  BY <1>1
<1>3. /\ P[0] = 0
      /\ \A i \in 1 .. n : P[i] = P[i - 1] * Base + b[i]
  BY PrefixValues
<1>4. \A i \in 1 .. n - 1 : c[i] = b[i + 1]
  BY <1>2
<1> HIDE DEF c
<1>5. /\ Q[0] = 0
      /\ \A i \in 1 .. n - 1 : Q[i] = Q[i - 1] * Base + c[i]
  BY <1>2, PrefixValues
<1>6. BigEndian(b) = P[n] /\ BigEndian(c) = Q[n - 1]
  BY <1>2 DEF BigEndian
<1> HIDE DEF P, Q
<1>7. 0 \in T
  <2>1. P[1] = 0 * Base + 0
    BY <1>1, <1>3
  <2>2. 0 * Base + 0 = 0
    BY CodecAssumption DEF CodecAssumption
  <2> QED
    BY <1>5, <2>1, <2>2
<1>8. ASSUME NEW i \in Nat, i \in T PROVE i + 1 \in T
  <2>1. ASSUME i + 1 <= n - 1 PROVE Q[i + 1] = P[i + 1 + 1]
    <3>1. Q[i + 1] = Q[i] * Base + c[i + 1]
      BY <1>5, <2>1
    <3>2. P[i + 1 + 1] = P[i + 1] * Base + b[i + 1 + 1]
      BY <1>3, <2>1
    <3>3. Q[i] = P[i + 1] /\ c[i + 1] = b[i + 1 + 1]
      BY <1>4, <1>8, <2>1
    <3> QED
      BY <3>1, <3>2, <3>3
  <2> QED
    BY <2>1
<1> HIDE DEF T
<1>9. n - 1 \in T
  BY <1>2, <1>7, <1>8, AllNaturals
<1>10. Q[n - 1] = P[n]
  BY <1>2, <1>9 DEF T
<1> QED
  BY <1>1, <1>2, <1>6, <1>10

\* So every number can be written without leading zeros.
LEMMA HasShortest ==
    ASSUME NEW length \in Nat, NEW x \in Numbers(length)
    PROVE  \E b \in Strings(length) : Shortest(b) /\ BigEndian(b) = x
<1> DEFINE T == {k \in 0 .. length : \E b \in [1 .. k -> Bytes] : BigEndian(b) = x}
<1>1. T # {} /\ T \in SUBSET Nat
  BY DEF Numbers, Strings
<1>2. PICK k \in T : \A j \in T : k <= j
  <2> HIDE DEF T
  <2> QED
    BY <1>1, LeastNatural
<1>3. PICK b \in [1 .. k -> Bytes] : BigEndian(b) = x
  BY <1>2
<1>4. Shortest(b)
  <2> SUFFICES ASSUME ~Shortest(b) PROVE FALSE
    OBVIOUS
  <2>1. k # 0 /\ \E c \in [1 .. k - 1 -> Bytes] : BigEndian(c) = x
    BY <1>3, LeadingZero
  <2>2. k - 1 \in T
    BY <2>1
  <2> QED
    BY <1>2, <2>2
<1> QED
  BY <1>3, <1>4 DEF Strings

\* A string has as many bytes as its length says.
LEMMA StringLen ==
    ASSUME NEW length \in Nat, NEW b \in Strings(length)
    PROVE  Len(b) \in 0 .. length /\ b \in [1 .. Len(b) -> Bytes]
BY DEF Strings

-----------------------------------------------------------------------------
(* Items                                                                   *)

\* Data and lists show what they were made of.
LEMMA DataFields ==
    ASSUME NEW b
    PROVE  /\ Data(b).list = FALSE /\ Data(b).bytes = b
           /\ \A c : Data(b) = Data(c) => b = c
           /\ \A l : Data(b) # List(l)
<1>1. \A c : Data(c).bytes = c /\ Data(c).list = FALSE
  BY DEF Data
<1>2. \A l : List(l).list = TRUE
  BY DEF List
<1> QED
  BY <1>1, <1>2

\* The item of a number is its shortest bytes, whatever the width it was read at.
LEMMA UintBytes ==
    ASSUME NEW length \in 0 .. U256Bytes, NEW b \in Strings(length), Shortest(b)
    PROVE  Uint(BigEndian(b)) = Data(b)
<1> DEFINE c == CHOOSE c \in Strings(U256Bytes) :
                    BigEndian(c) = BigEndian(b) /\ Shortest(c)
<1>1. U256Bytes \in Nat
  BY CodecAssumption DEF CodecAssumption
<1>2. Len(b) \in Nat /\ b \in [1 .. Len(b) -> Bytes] /\ b \in Strings(U256Bytes)
  BY <1>1 DEF Strings
<1>3. /\ c \in Strings(U256Bytes)
      /\ BigEndian(c) = BigEndian(b) /\ Shortest(c)
  BY <1>2
<1> HIDE DEF c
<1>4. Len(c) \in Nat /\ c \in [1 .. Len(c) -> Bytes]
  BY <1>1, <1>3, StringLen
<1>5. c = b
  BY <1>2, <1>3, <1>4, ShortestUnique
<1> QED
  BY <1>5 DEF Uint, c

\* The item of a number that fits some width fits it too.
LEMMA UintOfNumber ==
    ASSUME NEW length \in 0 .. U256Bytes, NEW x \in Numbers(length)
    PROVE  \E b \in Strings(length) :
              Shortest(b) /\ BigEndian(b) = x /\ Uint(x) = Data(b)
<1>1. length \in Nat
  BY CodecAssumption DEF CodecAssumption
<1>2. PICK b \in Strings(length) : Shortest(b) /\ BigEndian(b) = x
  BY <1>1, HasShortest
<1> QED
  BY <1>2, UintBytes

\* A number that is written is read.
LEMMA NumberIsRead ==
    ASSUME NEW length \in 0 .. U256Bytes, NEW x \in Numbers(length)
    PROVE  ReadUint(Uint(x), length) = {x}
<1>1. PICK b \in Strings(length) : Shortest(b) /\ BigEndian(b) = x /\ Uint(x) = Data(b)
  BY UintOfNumber
<1>2. ReadBytes(Uint(x)) = {b}
  BY <1>1, DataFields DEF ReadBytes
<1>3. Len(b) <= length
  BY <1>1, StringLen, CodecAssumption DEF CodecAssumption
<1> QED
  BY <1>1, <1>2, <1>3 DEF ReadUint

\* Different numbers are different items.
LEMMA UintInjective ==
    ASSUME NEW x \in Numbers(U256Bytes), NEW y \in Numbers(U256Bytes), Uint(x) = Uint(y)
    PROVE  x = y
<1>1. U256Bytes \in 0 .. U256Bytes
  BY CodecAssumption DEF CodecAssumption
<1>2. ReadUint(Uint(x), U256Bytes) = {x} /\ ReadUint(Uint(y), U256Bytes) = {y}
  BY <1>1, NumberIsRead
<1> QED
  BY <1>2

\* What may be an item of a list.
IsItem(item) == IF item.list THEN item = List(item.items)
                ELSE item.bytes \in Seq(Bytes) /\ item = Data(item.bytes)

\* The number that is read is written as the very item it was read from.
LEMMA NumberWasWritten ==
    ASSUME NEW length \in 0 .. U256Bytes, NEW item, IsItem(item),
           NEW x \in ReadUint(item, length)
    PROVE  x \in Numbers(length) /\ item = Uint(x)
<1>1. PICK b \in ReadBytes(item) : Len(b) <= length /\ Shortest(b) /\ x = BigEndian(b)
  BY DEF ReadUint
<1>2. b \in Seq(Bytes) /\ item = Data(b)
  BY DEF ReadBytes, IsItem
<1>3. b \in Strings(length)
  BY <1>1, <1>2, LenProperties DEF Strings
<1> QED
  BY <1>1, <1>2, <1>3, UintBytes DEF Numbers

-----------------------------------------------------------------------------
(* Transactions                                                            *)

Actions == {Create} \cup {Call(to) : to \in [1 .. AddressBytes -> Bytes]}

\* A creation is no call, and an address is not empty.
LEMMA CallFields ==
    ASSUME NEW to \in [1 .. AddressBytes -> Bytes]
    PROVE  /\ Call(to) # Create
           /\ EncodeAction(Call(to)) = Data(to)
           /\ Len(to) = AddressBytes
           /\ to # <<>>
<1>1. AddressBytes \in Nat \ {0}
  BY CodecAssumption DEF CodecAssumption
<1>2. Len(to) = AddressBytes /\ to # <<>>
  BY <1>1
<1>3. Call(to) # Create /\ Call(to)[2] = to
  BY DEF Call, Create
<1> QED
  BY <1>2, <1>3 DEF EncodeAction

\* An action that is written is read.
LEMMA ActionIsRead ==
    ASSUME NEW action \in Actions
    PROVE  DecodeAction(EncodeAction(action)) = {action}
<1>1. CASE action = Create
  <2>1. EncodeAction(action) = Data(<<>>)
    BY <1>1 DEF EncodeAction
  <2> QED
    BY <1>1, <2>1, DataFields DEF DecodeAction, is_empty
<1>2. ASSUME NEW to \in [1 .. AddressBytes -> Bytes], action = Call(to)
      PROVE  DecodeAction(EncodeAction(action)) = {action}
  <2>1. EncodeAction(action) = Data(to) /\ to # <<>> /\ Len(to) = AddressBytes
    BY <1>2, CallFields
  <2>2. ~is_empty(Data(to))
    BY <2>1, DataFields DEF is_empty
  <2>3. ReadAddress(Data(to)) = {to}
    BY <2>1, DataFields DEF ReadAddress, ReadBytes
  <2> QED
    BY <1>2, <2>1, <2>2, <2>3 DEF DecodeAction
<1> QED
  BY <1>1, <1>2 DEF Actions

\* The action that is read is written as the very item it was read from.
LEMMA ActionWasWritten ==
    ASSUME NEW item, IsItem(item), NEW action \in DecodeAction(item)
    PROVE  action \in Actions /\ item = EncodeAction(action)
<1>1. CASE is_empty(item)
  <2>1. ~item.list /\ action = Create
    BY <1>1 DEF DecodeAction
  <2>2. item = Data(<<>>)
    <3>1. List(<<>>).list = TRUE
      BY DEF List
    <3> QED
      BY <1>1, <2>1, <3>1 DEF is_empty
  <2> QED
    BY <2>1, <2>2 DEF EncodeAction, Actions
<1>2. CASE ~is_empty(item)
  <2>1. PICK to \in ReadAddress(item) : action = Call(to)
    BY <1>2 DEF DecodeAction
  <2>2. to \in Seq(Bytes) /\ Len(to) = AddressBytes /\ item = Data(to)
    BY <2>1 DEF ReadAddress, ReadBytes, IsItem
  <2>3. to \in [1 .. AddressBytes -> Bytes]
    BY <2>2, LenProperties
  <2> QED
    BY <2>1, <2>2, <2>3, CallFields DEF Actions
<1> QED
  BY <1>1, <1>2

\* The six items that are signed, and three more.
LEMMA NineItems ==
    ASSUME NEW t, NEW a, NEW b, NEW c
    PROVE  Unsigned(t) \o <<a, b, c>> =
              << Uint(t.nonce), Uint(t.gas_price), Uint(t.gas), EncodeAction(t.action),
                 Uint(t.value), Data(t.data), a, b, c >>
<1>1. \A i, j, k, l, m, n :
         <<i, j, k, l, m, n>> \o <<a, b, c>> = <<i, j, k, l, m, n, a, b, c>>
  <2> TAKE i, j, k, l, m, n
  <2> DEFINE S == {i, j, k, l, m, n, a, b, c}
             p == <<i, j, k, l, m, n>>
             q == <<a, b, c>>
  <2>1. p \in Seq(S) /\ q \in Seq(S) /\ Len(p) = 6 /\ Len(q) = 3
    OBVIOUS
  <2> HIDE DEF S, p, q
  <2>2. /\ p \o q \in Seq(S)
        /\ Len(p \o q) = Len(p) + Len(q)
        /\ \A x \in 1 .. Len(p) + Len(q) :
              (p \o q)[x] = IF x <= Len(p) THEN p[x] ELSE q[x - Len(p)]
    BY <2>1, ConcatProperties
  <2> DEFINE pq == p \o q
  <2> HIDE DEF pq
  <2>3. pq \in [1 .. 9 -> S]
    <3>1. pq \in Seq(S) /\ Len(pq) = 9
      BY <2>1, <2>2 DEF pq
    <3> QED
      BY <3>1, LenProperties
  <2>4. \A x \in 1 .. 9 : pq[x] = IF x <= 6 THEN p[x] ELSE q[x - 6]
    <3>1. \A x \in 1 .. Len(p) + Len(q) : pq[x] = IF x <= Len(p) THEN p[x] ELSE q[x - Len(p)]
      BY <2>2, Zenon DEF pq
    <3> QED
      BY <2>1, <3>1
  <2>5. /\ pq[1] = i /\ pq[2] = j /\ pq[3] = k /\ pq[4] = l /\ pq[5] = m
        /\ pq[6] = n /\ pq[7] = a /\ pq[8] = b /\ pq[9] = c
    BY <2>4 DEF p, q
  <2>6. pq = <<i, j, k, l, m, n, a, b, c>>
    BY <2>3, <2>5
  <2> QED
    BY <2>6 DEF p, q, pq
<1> QED
  BY <1>1 DEF Unsigned

\* A list as the crate writes it shows what it was made of.
LEMMA EncodedFields ==
    ASSUME NEW items
    PROVE  /\ Encoded(items).items = items
           /\ Encoded(items).length = Len(items)
           /\ Encoded(items).junk = FALSE
           /\ Encoded(items) # None
<1>1. Encoded(items).items = items /\ Encoded(items).length = Len(items)
      /\ Encoded(items).junk = FALSE
  BY DEF Encoded
<1>2. "junk" \in DOMAIN Encoded(items) /\ "junk" \notin DOMAIN None
  BY DEF Encoded, None
<1> QED
  BY <1>1, <1>2

\* What is sent is read with the hash of what was sent.
LEMMA TransactionIsRead ==
    ASSUME NEW tx, IsTransaction(tx)
    PROVE  Decode(Encoded(Sealed(tx))) =
              { [ nonce |-> tx.nonce, gas_price |-> tx.gas_price, gas |-> tx.gas,
                  action |-> tx.action, value |-> tx.value, data |-> tx.data,
                  v |-> tx.v, r |-> tx.r, s |-> tx.s, hash |-> ComputedHash(tx) ] }
<1> DEFINE items == Sealed(tx)
<1>1. U64Bytes \in 0 .. U256Bytes /\ U256Bytes \in 0 .. U256Bytes
  BY CodecAssumption DEF CodecAssumption
<1>2. items = << Uint(tx.nonce), Uint(tx.gas_price), Uint(tx.gas), EncodeAction(tx.action),
                 Uint(tx.value), Data(tx.data), Uint(tx.v), Uint(tx.r), Uint(tx.s) >>
  BY NineItems DEF Sealed
<1>3. /\ ReadUint(items[1], U256Bytes) = {tx.nonce}
      /\ ReadUint(items[2], U256Bytes) = {tx.gas_price}
      /\ ReadUint(items[3], U256Bytes) = {tx.gas}
      /\ ReadUint(items[5], U256Bytes) = {tx.value}
      /\ ReadUint(items[7], U64Bytes) = {tx.v}
      /\ ReadUint(items[8], U256Bytes) = {tx.r}
      /\ ReadUint(items[9], U256Bytes) = {tx.s}
  BY <1>1, <1>2, NumberIsRead DEF IsTransaction
<1>4. DecodeAction(items[4]) = {tx.action}
  BY <1>2, ActionIsRead DEF IsTransaction, Actions
<1>5. ReadBytes(items[6]) = {tx.data}
  <2>1. items[6] = Data(tx.data)
    BY <1>2
  <2> QED
    BY <2>1, DataFields DEF ReadBytes
<1>6. Len(items) = 9
  BY <1>2
<1>7. Keccak(Encoded(items)) = ComputedHash(tx)
  BY DEF ComputedHash
<1> HIDE DEF items
<1>8. ItemsRead(Encoded(items)) = items
  <2> DEFINE raw == Encoded(items)
  <2>1. raw.items = items /\ raw.length = 9 /\ ~raw.junk /\ Len(raw.items) = 9
    BY <1>6, EncodedFields
  <2> HIDE DEF raw
  <2>2. raw.length \in 1 .. Len(raw.items) + (IF raw.junk THEN 1 ELSE 0)
    BY <2>1
  <2>3. ItemsRead(raw) = items
    BY <2>1, <2>2 DEF ItemsRead
  <2> QED
    BY <2>3 DEF raw
<1> QED
  <2> DEFINE h == ComputedHash(tx)
  <2>1. Decode(Encoded(items)) = FromItems(items, h)
    BY <1>6, <1>7, <1>8 DEF Decode
  <2> HIDE DEF h
  <2>2. FromItems(items, h) =
            { [ nonce |-> tx.nonce, gas_price |-> tx.gas_price, gas |-> tx.gas,
                action |-> tx.action, value |-> tx.value, data |-> tx.data,
                v |-> tx.v, r |-> tx.r, s |-> tx.s, hash |-> h ] }
    BY <1>3, <1>4, <1>5 DEF FromItems
  <2> QED
    BY <2>1, <2>2 DEF items, h

\* Items that may be in a list on its way: what the node writes is data.
WireItems == Items \cup [list : {FALSE}, bytes : Seq(Bytes)]

LEMMA WireItemsAreItems ==
    ASSUME NEW item \in WireItems
    PROVE  IsItem(item)
<1>1. CASE item \in Items
  BY <1>1, ItemAssumption DEF ItemAssumption, IsItem
<1>2. CASE item \in [list : {FALSE}, bytes : Seq(Bytes)]
  <2>1. item.list = FALSE /\ item.bytes \in Seq(Bytes) /\ item = Data(item.bytes)
    BY <1>2 DEF Data
  <2> QED
    BY <2>1 DEF IsItem
<1> QED
  BY <1>1, <1>2 DEF WireItems

\* Raw bytes that may be on their way.
Raws == [items : Seq(WireItems), length : Nat, junk : BOOLEAN]

\* A transaction that is read would be written as the very items it was read from.
LEMMA TransactionWasWritten ==
    ASSUME NEW raw \in Raws, NEW t \in Decode(raw)
    PROVE  /\ IsTransaction(t)
           /\ raw.items = Sealed(t)
           /\ t.hash = Keccak(raw)
<1> DEFINE items == raw.items
<1>0. items \in Seq(WireItems) /\ ItemsRead(raw) = items
  <2>1. Len(ItemsRead(raw)) = 9
    BY DEF Decode
  <2>2. Len(<<>>) = 0
    OBVIOUS
  <2> QED
    BY <2>1, <2>2 DEF ItemsRead, Raws
<1>1. Len(items) = 9 /\ items \in [1 .. 9 -> WireItems]
  <2>1. Len(items) = 9
    BY <1>0 DEF Decode
  <2> QED
    BY <1>0, <2>1, LenProperties
<1>2. \A i \in 1 .. 9 : IsItem(items[i])
  BY <1>1, WireItemsAreItems
<1>3. /\ t.nonce \in ReadUint(items[1], U256Bytes)
      /\ t.gas_price \in ReadUint(items[2], U256Bytes)
      /\ t.gas \in ReadUint(items[3], U256Bytes)
      /\ t.action \in DecodeAction(items[4])
      /\ t.value \in ReadUint(items[5], U256Bytes)
      /\ t.data \in ReadBytes(items[6])
      /\ t.v \in ReadUint(items[7], U64Bytes)
      /\ t.r \in ReadUint(items[8], U256Bytes)
      /\ t.s \in ReadUint(items[9], U256Bytes)
      /\ t.hash = Keccak(raw)
  <2>1. t \in FromItems(items, Keccak(raw))
    BY <1>0, <1>1 DEF Decode
  <2> HIDE DEF items
  <2> QED
    BY <2>1 DEF FromItems
<1>4. U64Bytes \in 0 .. U256Bytes /\ U256Bytes \in 0 .. U256Bytes
  BY CodecAssumption DEF CodecAssumption
<1>5. /\ items[1] = Uint(t.nonce) /\ t.nonce \in Numbers(U256Bytes)
      /\ items[2] = Uint(t.gas_price) /\ t.gas_price \in Numbers(U256Bytes)
      /\ items[3] = Uint(t.gas) /\ t.gas \in Numbers(U256Bytes)
      /\ items[5] = Uint(t.value) /\ t.value \in Numbers(U256Bytes)
      /\ items[7] = Uint(t.v) /\ t.v \in Numbers(U64Bytes)
      /\ items[8] = Uint(t.r) /\ t.r \in Numbers(U256Bytes)
      /\ items[9] = Uint(t.s) /\ t.s \in Numbers(U256Bytes)
  BY <1>2, <1>3, <1>4, NumberWasWritten
<1>6. items[4] = EncodeAction(t.action) /\ t.action \in Actions
  BY <1>2, <1>3, ActionWasWritten
<1>7. items[6] = Data(t.data) /\ t.data \in Seq(Bytes)
  <2>1. IsItem(items[6])
    BY <1>2
  <2> QED
    BY <1>3, <2>1 DEF ReadBytes, IsItem
<1>8. items = << items[1], items[2], items[3], items[4], items[5],
                 items[6], items[7], items[8], items[9] >>
  BY <1>1
<1>9. items = Sealed(t)
  <2>1. Sealed(t) = << Uint(t.nonce), Uint(t.gas_price), Uint(t.gas), EncodeAction(t.action),
                       Uint(t.value), Data(t.data), Uint(t.v), Uint(t.r), Uint(t.s) >>
    BY NineItems DEF Sealed
  <2> QED
    BY <1>5, <1>6, <1>7, <1>8, <2>1, Zenon
<1> QED
  BY <1>3, <1>5, <1>6, <1>7, <1>9 DEF IsTransaction, Actions

-----------------------------------------------------------------------------
(* Messages to sign                                                        *)

\* The six items say what the six fields are.
LEMMA UnsignedSays ==
    ASSUME NEW t, IsTransaction(t), NEW u, IsTransaction(u), Unsigned(t) = Unsigned(u)
    PROVE  SameUnsigned(t, u)
<1>1. /\ Uint(t.nonce) = Uint(u.nonce) /\ Uint(t.gas_price) = Uint(u.gas_price)
      /\ Uint(t.gas) = Uint(u.gas) /\ EncodeAction(t.action) = EncodeAction(u.action)
      /\ Uint(t.value) = Uint(u.value) /\ Data(t.data) = Data(u.data)
  BY DEF Unsigned
<1>2. /\ t.nonce = u.nonce /\ t.gas_price = u.gas_price /\ t.gas = u.gas
      /\ t.value = u.value
  BY <1>1, UintInjective DEF IsTransaction
<1>3. t.action = u.action
  <2>1. t.action \in Actions /\ u.action \in Actions
    BY DEF IsTransaction, Actions
  <2>2. {t.action} = {u.action}
    BY <1>1, <2>1, ActionIsRead
  <2> QED
    BY <2>2
<1>4. t.data = u.data
  BY <1>1, DataFields
<1> QED
  BY <1>2, <1>3, <1>4 DEF SameUnsigned

\* A message has six items without a chain id and nine with one.
LEMMA MessageItems ==
    ASSUME NEW t
    PROVE  /\ Message(t, None) = Unsigned(t)
           /\ \A n : Message(t, <<n>>) =
                 << Uint(t.nonce), Uint(t.gas_price), Uint(t.gas), EncodeAction(t.action),
                    Uint(t.value), Data(t.data), Uint(n), Uint(0), Uint(0) >>
<1>1. Message(t, None) = Unsigned(t)
  <2> DEFINE S == { Uint(t.nonce), Uint(t.gas_price), Uint(t.gas), EncodeAction(t.action),
                    Uint(t.value), Data(t.data) }
  <2>1. Unsigned(t) \in Seq(S)
    BY DEF Unsigned
  <2>2. Unsigned(t) \o <<>> = Unsigned(t)
    BY <2>1, ConcatEmptySeq
  <2> QED
    BY <2>2 DEF Message
<1>2. ASSUME NEW n
      PROVE  Message(t, <<n>>) = Unsigned(t) \o <<Uint(n), Uint(0), Uint(0)>>
  BY DEF Message, None
<1> QED
  BY <1>1, <1>2, NineItems

\* Messages say which transaction and which chain they are for.
LEMMA MessageSays ==
    ASSUME NEW t, IsTransaction(t), NEW u, IsTransaction(u),
           NEW i \in ChainIds, NEW j \in ChainIds, Message(t, i) = Message(u, j)
    PROVE  i = j /\ SameUnsigned(t, u)
<1>1. /\ \A n \in Numbers(U64Bytes) : n \in Numbers(U256Bytes)
      /\ \A k \in ChainIds : k = None \/ \E n \in Numbers(U64Bytes) : k = <<n>>
  <2>1. Strings(U64Bytes) \subseteq Strings(U256Bytes)
    BY CodecAssumption DEF CodecAssumption, Strings
  <2>2. \A n \in Numbers(U64Bytes) : n \in Numbers(U256Bytes)
    BY <2>1 DEF Numbers
  <2> QED
    BY <2>2, TransactionAssumption DEF TransactionAssumption
<1>2. \A n : Message(t, None) # Message(u, <<n>>) /\ Message(t, <<n>>) # Message(u, None)
  <2> TAKE n
  <2>1. Len(Message(t, None)) = 6 /\ Len(Message(u, None)) = 6
    BY MessageItems DEF Unsigned
  <2>2. Len(Message(t, <<n>>)) = 9 /\ Len(Message(u, <<n>>)) = 9
    <3>1. \A a, b, c, d, e, f, g, h, k : Len(<<a, b, c, d, e, f, g, h, k>>) = 9
      OBVIOUS
    <3> QED
      BY <3>1, MessageItems, Zenon
  <2> QED
    BY <2>1, <2>2
<1>3. CASE i = None /\ j = None
  BY <1>3, MessageItems, UnsignedSays
<1>4. ASSUME NEW n \in Numbers(U64Bytes), i = <<n>>, NEW m \in Numbers(U64Bytes), j = <<m>>
      PROVE  i = j /\ SameUnsigned(t, u)
  <2> DEFINE p == Message(t, <<n>>)
             q == Message(u, <<m>>)
  <2>1. /\ p = << Uint(t.nonce), Uint(t.gas_price), Uint(t.gas), EncodeAction(t.action),
                  Uint(t.value), Data(t.data), Uint(n), Uint(0), Uint(0) >>
        /\ q = << Uint(u.nonce), Uint(u.gas_price), Uint(u.gas), EncodeAction(u.action),
                  Uint(u.value), Data(u.data), Uint(m), Uint(0), Uint(0) >>
    BY MessageItems
  <2>2. p = q
    BY <1>4
  <2> HIDE DEF p, q
  <2>3. Unsigned(t) = Unsigned(u) /\ Uint(n) = Uint(m)
    BY <2>1, <2>2 DEF Unsigned
  <2> QED
    BY <1>1, <1>4, <2>3, UnsignedSays, UintInjective
<1> QED
  BY <1>1, <1>2, <1>3, <1>4

\* A signed transaction is no message to sign, since only the two zeros of a
\* message are written as zeros.
LEMMA SealedIsNoMessage ==
    ASSUME NEW t, IsTransaction(t), t.r # 0 \/ t.s # 0, NEW u, NEW i \in ChainIds
    PROVE  Sealed(t) # Message(u, i)
<1>1. 0 \in Numbers(U256Bytes)
  <2>1. <<>> \in [1 .. 0 -> Bytes] /\ Len(<<>>) = 0
    OBVIOUS
  <2>2. BigEndian(<<>>) = 0
    BY <2>1, PrefixValues DEF BigEndian
  <2>3. <<>> \in Strings(U256Bytes)
    BY <2>1, CodecAssumption DEF CodecAssumption, Strings
  <2> QED
    BY <2>2, <2>3 DEF Numbers
<1> DEFINE p == Sealed(t)
<1>2. p = << Uint(t.nonce), Uint(t.gas_price), Uint(t.gas), EncodeAction(t.action),
             Uint(t.value), Data(t.data), Uint(t.v), Uint(t.r), Uint(t.s) >>
  BY NineItems DEF Sealed
<1>3. CASE i = None
  <2>1. Len(Message(u, None)) = 6
    BY MessageItems DEF Unsigned
  <2> QED
    BY <1>2, <1>3, <2>1
<1>4. ASSUME NEW n, i = <<n>> PROVE p # Message(u, i)
  <2> DEFINE q == Message(u, <<n>>)
  <2>1. q = << Uint(u.nonce), Uint(u.gas_price), Uint(u.gas), EncodeAction(u.action),
               Uint(u.value), Data(u.data), Uint(n), Uint(0), Uint(0) >>
    BY MessageItems
  <2> HIDE DEF p, q
  <2>2. p = q => Uint(t.r) = Uint(0) /\ Uint(t.s) = Uint(0)
    BY <1>2, <2>1
  <2>3. p # q
    BY <1>1, <2>2, UintInjective DEF IsTransaction
  <2> QED
    BY <1>4, <2>3 DEF q
<1> QED
  BY <1>3, <1>4, TransactionAssumption DEF TransactionAssumption

-----------------------------------------------------------------------------
(* Theorems                                                                *)

\* The bytes on their way are made of items, and as long as nothing was changed
\* they are the list the client wrote; what was decoded was read from them.
CodecInv ==
    /\ changes \in Nat
    /\ wire # None => wire \in Raws /\ origin \in Txs
    /\ wire # None /\ changes = 0 => wire = Encoded(Sealed(origin))
    /\ wire = None => decoded = {}
    /\ decoded \subseteq Decode(wire)

\* The nine items of a transaction are items that may be on their way.
LEMMA SealedIsWire ==
    ASSUME NEW tx \in Txs
    PROVE  Sealed(tx) \in Seq(WireItems)
<1>1. IsTransaction(tx)
  BY TransactionAssumption DEF TransactionAssumption
<1>2. \A b \in Seq(Bytes) : Data(b) \in WireItems
  BY DEF Data, WireItems
<1>3. ASSUME NEW length \in 0 .. U256Bytes, NEW x \in Numbers(length)
      PROVE  Uint(x) \in WireItems
  <2>1. PICK b \in Strings(length) : Uint(x) = Data(b)
    BY UintOfNumber
  <2>2. b \in Seq(Bytes)
    BY <2>1, SeqDef DEF Strings
  <2> QED
    BY <1>2, <2>1, <2>2
<1>4. U64Bytes \in 0 .. U256Bytes /\ U256Bytes \in 0 .. U256Bytes
  BY CodecAssumption DEF CodecAssumption
<1>5. /\ Uint(tx.nonce) \in WireItems /\ Uint(tx.gas_price) \in WireItems
      /\ Uint(tx.gas) \in WireItems /\ Uint(tx.value) \in WireItems
      /\ Uint(tx.v) \in WireItems /\ Uint(tx.r) \in WireItems /\ Uint(tx.s) \in WireItems
  BY <1>1, <1>3, <1>4 DEF IsTransaction
<1>6. EncodeAction(tx.action) \in WireItems
  <2>1. CASE tx.action = Create
    <3>1. <<>> \in Seq(Bytes)
      OBVIOUS
    <3> QED
      BY <1>2, <2>1, <3>1 DEF EncodeAction
  <2>2. ASSUME NEW to \in [1 .. AddressBytes -> Bytes], tx.action = Call(to)
        PROVE  EncodeAction(tx.action) \in WireItems
    <3>1. to \in Seq(Bytes)
      BY CodecAssumption, SeqDef DEF CodecAssumption
    <3> QED
      BY <1>2, <2>2, <3>1, CallFields
  <2> QED
    BY <1>1, <2>1, <2>2 DEF IsTransaction
<1>7. Data(tx.data) \in WireItems
  BY <1>1, <1>2 DEF IsTransaction
<1>8. Sealed(tx) = << Uint(tx.nonce), Uint(tx.gas_price), Uint(tx.gas), EncodeAction(tx.action),
                      Uint(tx.value), Data(tx.data), Uint(tx.v), Uint(tx.r), Uint(tx.s) >>
  BY NineItems DEF Sealed
<1> QED
  BY <1>5, <1>6, <1>7, <1>8

\* Every step keeps the invariant.
LEMMA CodecInvStep ==
    ASSUME CodecInv, [CodecNext]_codecVars
    PROVE  CodecInv'
<1>1. ASSUME NEW tx \in Txs, Write(tx) PROVE CodecInv'
  <2>1. decoded = {} /\ decoded' = {}
    BY <1>1 DEF Write, CodecInv
  <2>2. Sealed(tx) \in Seq(WireItems) /\ Len(Sealed(tx)) \in Nat
    BY SealedIsWire, LenProperties
  <2>3. Encoded(Sealed(tx)) \in Raws
    BY <2>2 DEF Encoded, Raws
  <2> QED
    BY <1>1, <2>1, <2>3 DEF Write, CodecInv
<1>2. ASSUME Change PROVE CodecInv'
  <2>1. wire \in Raws /\ Items \subseteq WireItems
    BY <1>2 DEF Change, CodecInv, WireItems
  <2> DEFINE items == wire.items
  <2>2. items \in Seq(WireItems) /\ Len(items) \in Nat
    BY <2>1, LenProperties DEF Raws
  <2>3. ASSUME NEW new \in Seq(WireItems), wire' = [wire EXCEPT !.items = new]
        PROVE  wire' \in Raws
    BY <2>1, <2>3 DEF Raws
  <2>4. wire' \in Raws
    <3>1. ASSUME NEW i \in DOMAIN items, NEW item \in Items,
                 wire' = [wire EXCEPT !.items[i] = item]
          PROVE  wire' \in Raws
      <4>1. [items EXCEPT ![i] = item] \in Seq(WireItems)
        BY <2>1, <2>2, ExceptSeq, LenProperties
      <4>2. wire' = [wire EXCEPT !.items = [items EXCEPT ![i] = item]]
        BY <3>1
      <4> QED
        BY <2>3, <4>1, <4>2
    <3>2. ASSUME NEW item \in Items, wire' = [wire EXCEPT !.items = Append(@, item)]
          PROVE  wire' \in Raws
      <4>1. Append(items, item) \in Seq(WireItems)
        BY <2>1, <2>2, AppendProperties
      <4> QED
        BY <2>3, <3>2, <4>1
    <3>3. ASSUME Len(items) > 1, wire' = [wire EXCEPT !.items = Tail(@)]
          PROVE  wire' \in Raws
      <4>1. items # <<>>
        BY <2>2, <3>3
      <4>2. Tail(items) \in Seq(WireItems)
        BY <2>2, <4>1, HeadTailProperties
      <4> QED
        BY <2>3, <3>3, <4>2
    <3>4. ASSUME NEW length \in 0 .. Len(items) + 1, wire' = [wire EXCEPT !.length = length]
          PROVE  wire' \in Raws
      BY <2>1, <3>4 DEF Raws
    <3>5. CASE wire' = [wire EXCEPT !.junk = TRUE]
      BY <2>1, <3>5 DEF Raws
    <3> QED
      BY <1>2, <3>1, <3>2, <3>3, <3>4, <3>5 DEF Change
  <2>5. changes' \in Nat \ {0} /\ origin' \in Txs /\ decoded' = {}
    BY <1>2 DEF Change, CodecInv
  <2> QED
    BY <2>4, <2>5 DEF CodecInv
<1>3. ASSUME Read PROVE CodecInv'
  BY <1>3 DEF Read, CodecInv
<1>4. ASSUME Done PROVE CodecInv'
  BY <1>4 DEF Done, CodecInv
<1>5. CASE UNCHANGED codecVars
  BY <1>5 DEF codecVars, CodecInv
<1> QED
  BY <1>1, <1>2, <1>3, <1>4, <1>5 DEF CodecNext

\* The invariant holds of every behaviour.
LEMMA CodecInvAlways == CodecSpec => []CodecInv
<1>1. CodecInit => CodecInv
  BY DEF CodecInit, CodecInv, None
<1>2. CodecInv /\ [CodecNext]_codecVars => CodecInv'
  BY CodecInvStep
<1> QED
  BY <1>1, <1>2, PTL DEF CodecSpec

\* What is decoded was read from the bytes: a well-formed transaction, whose
\* fields are written as the items that came.
LEMMA DecodedIsTransaction ==
    ASSUME CodecInv, NEW t \in decoded
    PROVE  /\ IsTransaction(t)
           /\ wire.items = Sealed(t)
           /\ t.hash = Keccak(wire)
BY TransactionWasWritten DEF CodecInv

\* What a client wrote is read back, field by field, with the hash that
\* compute_hash takes of it (transaction.rs decode against
\* rlp_append_sealed_transaction): for every width of byte, u64, U256 and address.
THEOREM RoundTripAlways == CodecSpec => []RoundTrip
<1>1. CodecInv => RoundTrip
  <2> SUFFICES ASSUME CodecInv, changes = 0, wire # None PROVE RoundTrip
    BY DEF RoundTrip
  <2>1. wire = Encoded(Sealed(origin)) /\ IsTransaction(origin)
    BY TransactionAssumption DEF CodecInv, TransactionAssumption
  <2> QED
    BY <2>1, TransactionIsRead DEF RoundTrip
<1> QED
  BY <1>1, CodecInvAlways, PTL

\* The hash that decode takes of the raw bytes (transaction.rs:272) is the hash of
\* the fields it read exactly when nothing stands after the list: for every width
\* of byte, u64, U256 and address, and whatever bytes came.
THEOREM HashOfPlainListAlways == CodecSpec => []HashOfPlainList
<1>1. CodecInv => HashOfPlainList
  <2> SUFFICES ASSUME CodecInv, NEW t \in decoded
               PROVE  t.hash = ComputedHash(t) <=> Plain(wire)
    BY DEF HashOfPlainList
  <2>1. t.hash = Keccak(wire) /\ ComputedHash(t) = Keccak(Encoded(wire.items))
    BY DecodedIsTransaction DEF ComputedHash
  <2>2. Keccak(wire) = Keccak(Encoded(wire.items)) <=> wire = Encoded(wire.items)
    BY DEF Keccak
  <2> QED
    BY <2>1, <2>2 DEF Plain
<1> QED
  BY <1>1, CodecInvAlways, PTL

\* Two transactions are signed as one message only if they agree in all signed
\* fields and in the chain, and a signed transaction is never a message to sign.
THEOREM MessagesAlwaysDiffer == CodecSpec => []MessagesDiffer
<1>1. CodecInv => MessagesDiffer
  <2> SUFFICES ASSUME CodecInv, NEW t \in decoded, NEW u \in Txs \cup decoded,
                      NEW i \in ChainIds
               PROVE  /\ \A j \in ChainIds :
                            Message(t, i) = Message(u, j) => i = j /\ SameUnsigned(t, u)
                      /\ (t.r # 0 \/ t.s # 0) => Sealed(t) # Message(u, i)
    BY DEF MessagesDiffer
  <2>1. IsTransaction(t) /\ IsTransaction(u)
    BY DecodedIsTransaction, TransactionAssumption DEF TransactionAssumption
  <2> QED
    BY <2>1, MessageSays, SealedIsNoMessage
<1> QED
  BY <1>1, CodecInvAlways, PTL

\* The hash under which a transaction is recorded (transaction.rs compute_hash,
\* db.rs infos) tells any two transactions apart: sealed as one list, they agree
\* in all nine fields.
THEOREM HashTellsTransactions ==
    ASSUME NEW t, NEW u, IsTransaction(t), IsTransaction(u),
           ComputedHash(t) = ComputedHash(u)
    PROVE  /\ SameUnsigned(t, u)
           /\ t.v = u.v /\ t.r = u.r /\ t.s = u.s
<1>1. Encoded(Sealed(t)) = Encoded(Sealed(u))
  BY DEF ComputedHash, Keccak
<1> DEFINE Says(tx) == [ nonce |-> tx.nonce, gas_price |-> tx.gas_price, gas |-> tx.gas,
                         action |-> tx.action, value |-> tx.value, data |-> tx.data,
                         v |-> tx.v, r |-> tx.r, s |-> tx.s, hash |-> ComputedHash(tx) ]
<1>2. Decode(Encoded(Sealed(t))) = {Says(t)} /\ Decode(Encoded(Sealed(u))) = {Says(u)}
  BY TransactionIsRead
<1>3. Says(t) = Says(u)
  <2> HIDE DEF Says
  <2> QED
    BY <1>1, <1>2
<1> QED
  BY <1>3 DEF SameUnsigned
=============================================================================
