------------------------- MODULE TicketCache_proofs -------------------------
(***************************************************************************)
(* Proofs about Keytab and TicketCache.  First the codec: every keytab     *)
(* whose entries fit the format is read back as it was written, through    *)
(* the hexadecimal form of the secret.  Then the cache, for any number of  *)
(* renewals and any lifetimes.                                             *)
(***************************************************************************)
EXTENDS TicketCache, SequenceTheorems, WellFoundedInduction, TLAPS

-----------------------------------------------------------------------------
(* Induction *)

\* Induction on the naturals, for a set: each use below puts what it shows into a set.
LEMMA SetInduction ==
  ASSUME NEW S \in SUBSET Nat, 0 \in S, \A n \in S : n + 1 \in S
  PROVE  S = Nat
<1> DEFINE T == Nat \ S
<1>1. SUFFICES ASSUME T # {} PROVE FALSE
  OBVIOUS
<1>2. T \subseteq Nat
  OBVIOUS
<1>3. PICK x \in T : \A y \in T : ~ (<<y, x>> \in OpToRel(<, Nat))
  <2> HIDE DEF T
  <2> QED BY <1>1, <1>2, WFMin, NatLessThanWellFounded
<1>4. x # 0 /\ x - 1 \in Nat /\ x \in Nat
  OBVIOUS
<1>5. x - 1 \notin S
  <2>1. (x - 1) + 1 = x
    BY <1>4
  <2> QED
    BY <1>4, <2>1
<1>6. <<x - 1, x>> \in OpToRel(<, Nat)
  BY <1>4 DEF OpToRel
<1> QED
  BY <1>3, <1>4, <1>5, <1>6

-----------------------------------------------------------------------------
(* Bytes that stand in a sequence *)

Bytes == Seq(Octet)

\* The bytes of b stand in raw after position p.
Holds(raw, p, b) == p + Len(b) <= Len(raw) /\ \A i \in 1..Len(b) : raw[p + i] = b[i]

\* A sequence stands in itself.
LEMMA HoldsSelf == ASSUME NEW b \in Bytes PROVE Holds(b, 0, b)
BY DEF Holds, Bytes

\* Of two pieces put together, each stands where it should.
LEMMA HoldsConcat ==
  ASSUME NEW S, NEW raw \in Seq(S), NEW p \in Nat, NEW a \in Seq(S), NEW b \in Seq(S), Holds(raw, p, a \o b)
  PROVE  Holds(raw, p, a) /\ Holds(raw, p + Len(a), b)
<1>1. /\ Len(a \o b) = Len(a) + Len(b)
      /\ \A i \in 1..(Len(a) + Len(b)) : (a \o b)[i] = IF i <= Len(a) THEN a[i] ELSE b[i - Len(a)]
      /\ Len(a) \in Nat /\ Len(b) \in Nat /\ Len(raw) \in Nat
  BY ConcatProperties, LenProperties
<1>2. ASSUME NEW i \in 1..Len(a) PROVE raw[p + i] = a[i]
  BY <1>1 DEF Holds
<1>3. ASSUME NEW i \in 1..Len(b) PROVE raw[p + Len(a) + i] = b[i]
  <2>1. Len(a) + i \in 1..(Len(a) + Len(b)) /\ p + (Len(a) + i) = p + Len(a) + i
    BY <1>1
  <2>2. raw[p + (Len(a) + i)] = (a \o b)[Len(a) + i]
    BY <1>1, <2>1 DEF Holds
  <2>3. (a \o b)[Len(a) + i] = b[i]
    BY <1>1, <2>1
  <2> QED
    BY <2>1, <2>2, <2>3
<1> QED
  BY <1>1, <1>2, <1>3 DEF Holds

\* What stands in raw is the field that Parse cuts out there.
LEMMA HoldsField ==
  ASSUME NEW S, NEW raw \in Seq(S), NEW p \in Nat, NEW b \in Seq(S), Holds(raw, p, b)
  PROVE  Field(raw, p, Len(b)) = b
<1>1. Len(b) \in Nat /\ Len(raw) \in Nat
  BY LenProperties
<1>2. \A i \in (p + 1)..(p + Len(b)) : raw[i] \in S
  BY <1>1, LenProperties DEF Holds
<1>3. /\ Field(raw, p, Len(b)) \in Seq(S)
      /\ Len(Field(raw, p, Len(b))) = Len(b)
      /\ \A i \in 1..Len(b) : Field(raw, p, Len(b))[i] = raw[p + 1 + i - 1]
  BY <1>1, <1>2, SubSeqProperties DEF Field
<1>4. \A i \in 1..Len(b) : Field(raw, p, Len(b))[i] = b[i]
  BY <1>1, <1>3 DEF Holds
<1> QED
  BY <1>3, <1>4, SeqEqual

-----------------------------------------------------------------------------
(* Integers *)

\* Facts about the digits of a number to the base 256.
LEMMA Bits16 == ASSUME NEW n \in Int PROVE 256 * ((n \div 256) % 256) + (n % 256) = n % 65536
BY SMT

LEMMA Nested == ASSUME NEW n \in Int PROVE (n \div 65536) \div 256 = n \div 16777216
BY SMT

LEMMA HighLow ==
  ASSUME NEW n \in Int
  PROVE  n \div 65536 \in Int /\ n % 65536 \in Nat /\ n = 65536 * (n \div 65536) + (n % 65536)
BY SMT

LEMMA Fits16 == ASSUME NEW n \in Word16 PROVE n % 65536 = n
BY SMT DEF Word16

LEMMA Negative16 == ASSUME NEW n \in Int, n < 0, n >= -32768 PROVE n % 65536 = n + 65536
BY SMT

LEMMA LowByte == ASSUME NEW n \in Int PROVE n % 256 \in Octet
BY SMT DEF Octet

\* Sequences of two and of four bytes.
LEMMA Pair ==
  ASSUME NEW s, NEW a \in Octet, NEW b \in Octet, s = <<a, b>>
  PROVE  s \in Bytes /\ Len(s) = 2 /\ s[1] = a /\ s[2] = b
BY DEF Bytes

LEMMA Quad ==
  ASSUME NEW s, NEW a \in Octet, NEW b \in Octet, NEW c \in Octet, NEW d \in Octet, s = <<a, b, c, d>>
  PROVE  s \in Bytes /\ Len(s) = 4 /\ s[1] = a /\ s[2] = b /\ s[3] = c /\ s[4] = d
BY DEF Bytes

\* What BE writes in two bytes, and in four: the two halves.
LEMMA BE2 ==
  ASSUME NEW n \in Int
  PROVE  /\ BE(n, 2) \in Bytes /\ Len(BE(n, 2)) = 2
         /\ BE(n, 2)[1] = (n \div 256) % 256 /\ BE(n, 2)[2] = n % 256
<1>1. BE(n, 2) = <<(n \div 256) % 256, n % 256>>
  BY SMT DEF BE
<1>2. n \div 256 \in Int
  BY SMT
<1> DEFINE a == (n \div 256) % 256
           b == n % 256
<1>3. a \in Octet /\ b \in Octet
  BY <1>2, LowByte
<1>4. BE(n, 2) = <<a, b>>
  BY <1>1
<1> HIDE DEF a, b
<1>5. BE(n, 2) \in Bytes /\ Len(BE(n, 2)) = 2 /\ BE(n, 2)[1] = a /\ BE(n, 2)[2] = b
  BY <1>3, <1>4, Pair
<1> QED
  BY <1>5 DEF a, b

LEMMA BE4 ==
  ASSUME NEW n \in Int
  PROVE  /\ BE(n, 4) \in Bytes /\ Len(BE(n, 4)) = 4
         /\ BE(n, 4)[1] = BE(n \div 65536, 2)[1] /\ BE(n, 4)[2] = BE(n \div 65536, 2)[2]
         /\ BE(n, 4)[3] = BE(n, 2)[1] /\ BE(n, 4)[4] = BE(n, 2)[2]
<1> DEFINE h == n \div 65536
           b == n \div 256
           t == n \div 16777216
<1>1. BE(n, 4) = <<t % 256, h % 256, b % 256, n % 256>>
  BY SMT DEF BE
<1>2. h \in Int /\ b \in Int /\ t \in Int
  BY SMT
<1>3. h \div 256 = t
  BY Nested
<1>4. /\ BE(h, 2)[1] = (h \div 256) % 256 /\ BE(h, 2)[2] = h % 256
      /\ BE(n, 2)[1] = b % 256 /\ BE(n, 2)[2] = n % 256
  BY <1>2, BE2
<1> HIDE DEF h, b, t
<1> DEFINE w == t % 256
           x == h % 256
           y == b % 256
           z == n % 256
<1>5. w \in Octet /\ x \in Octet /\ y \in Octet /\ z \in Octet
  BY <1>2, LowByte
<1>6. BE(n, 4) = <<w, x, y, z>>
  BY <1>1
<1>7. BE(h, 2)[1] = w /\ BE(h, 2)[2] = x /\ BE(n, 2)[1] = y /\ BE(n, 2)[2] = z
  BY <1>3, <1>4
<1> HIDE DEF w, x, y, z
<1>8. /\ BE(n, 4) \in Bytes /\ Len(BE(n, 4)) = 4
      /\ BE(n, 4)[1] = w /\ BE(n, 4)[2] = x /\ BE(n, 4)[3] = y /\ BE(n, 4)[4] = z
  BY <1>5, <1>6, Quad
<1> QED
  BY <1>7, <1>8 DEF h

\* Reading where BE wrote two bytes gives the number up to multiples of 65536.
LEMMA ReadBack16 ==
  ASSUME NEW raw \in Bytes, NEW p \in Nat, NEW n \in Int, Holds(raw, p, BE(n, 2))
  PROVE  U16(raw, p) = n % 65536
<1> DEFINE b == BE(n, 2)
<1>1. Len(b) = 2 /\ b[1] = (n \div 256) % 256 /\ b[2] = n % 256
  BY BE2
<1> HIDE DEF b
<1>2. p + 2 <= Len(raw) /\ raw[p + 1] = b[1] /\ raw[p + 2] = b[2]
  BY <1>1 DEF Holds, b
<1>3. p + 1 \in DOMAIN raw /\ p + 2 \in DOMAIN raw
  BY <1>2, LenProperties DEF Bytes
<1>4. U16(raw, p) = 256 * b[1] + b[2]
  BY <1>2, <1>3 DEF U16, Byte
<1> QED
  BY <1>1, <1>4, Bits16

\* So a number that fits reads back, unsigned or signed.
LEMMA ReadU16 ==
  ASSUME NEW raw \in Bytes, NEW p \in Nat, NEW n \in Word16, Holds(raw, p, BE(n, 2))
  PROVE  U16(raw, p) = n
<1>1. n \in Int
  BY DEF Word16
<1> QED
  BY <1>1, ReadBack16, Fits16

LEMMA ReadI16 ==
  ASSUME NEW raw \in Bytes, NEW p \in Nat, NEW n \in Int16, Holds(raw, p, BE(n, 2))
  PROVE  I16(raw, p) = n
<1>0. n \in Int /\ -32768 <= n /\ n < 32768
  BY DEF Int16
<1>1. U16(raw, p) = n % 65536
  BY <1>0, ReadBack16
<1>2. CASE n >= 0
  <2>1. U16(raw, p) = n
    BY <1>0, <1>1, <1>2, Fits16 DEF Word16
  <2> QED
    BY <1>0, <1>2, <2>1 DEF I16
<1>3. CASE n < 0
  <2>1. U16(raw, p) = n + 65536
    BY <1>0, <1>1, <1>3, Negative16
  <2> QED
    BY <1>0, <1>3, <2>1 DEF I16
<1> QED
  BY <1>0, <1>2, <1>3

\* Four bytes stand in raw as two times two.
LEMMA HoldsTwo ==
  ASSUME NEW raw, NEW p \in Nat, NEW b, Len(raw) \in Nat, Len(b) = 2, p + 2 <= Len(raw),
         raw[p + 1] = b[1], raw[p + 2] = b[2]
  PROVE  Holds(raw, p, b)
BY DEF Holds

LEMMA HeldHalves ==
  ASSUME NEW raw \in Bytes, NEW p \in Nat, NEW n \in Int, Holds(raw, p, BE(n, 4))
  PROVE  Holds(raw, p, BE(n \div 65536, 2)) /\ Holds(raw, p + 2, BE(n, 2))
<1> DEFINE h == n \div 65536
<1>1. h \in Int
  BY HighLow
<1>2. Len(BE(h, 2)) = 2 /\ Len(BE(n, 2)) = 2
  BY <1>1, BE2
<1>3. /\ Len(BE(n, 4)) = 4
      /\ BE(n, 4)[1] = BE(h, 2)[1] /\ BE(n, 4)[2] = BE(h, 2)[2]
      /\ BE(n, 4)[3] = BE(n, 2)[1] /\ BE(n, 4)[4] = BE(n, 2)[2]
  BY BE4
<1> HIDE DEF h
<1>4. /\ p + 4 <= Len(raw)
      /\ raw[p + 1] = BE(h, 2)[1] /\ raw[p + 2] = BE(h, 2)[2]
      /\ raw[p + 3] = BE(n, 2)[1] /\ raw[p + 4] = BE(n, 2)[2]
  BY <1>3 DEF Holds
<1>5. Len(raw) \in Nat
  BY LenProperties DEF Bytes
<1>6. Holds(raw, p, BE(h, 2)) /\ Holds(raw, p + 2, BE(n, 2))
  BY <1>2, <1>4, <1>5, HoldsTwo
<1> QED
  BY <1>6 DEF h

\* A number of 32 bits reads back.
LEMMA ReadU32 ==
  ASSUME NEW raw \in Bytes, NEW p \in Nat, NEW n \in Word32, Holds(raw, p, BE(n, 4))
  PROVE  U32(raw, p) = n /\ U16(raw, p) = n \div 65536
<1>1. n \in Nat /\ n \div 65536 \in Nat /\ n \div 65536 \in Word16
  BY DEF Word32, Word16
<1>2. U16(raw, p) = n \div 65536
  BY <1>1, HeldHalves, ReadU16
<1>3. U16(raw, p + 2) = n % 65536
  BY <1>1, HeldHalves, ReadBack16
<1> QED
  BY <1>1, <1>2, <1>3, HighLow DEF U32

\* The size of a record.
LEMMA ReadI32 ==
  ASSUME NEW raw \in Bytes, NEW p \in Nat, NEW n \in Size31, Holds(raw, p, BE(n, 4))
  PROVE  I32(raw, p) = n
<1>1. n \in Word32 /\ n \div 65536 < 32768
  BY DEF Word32, Size31
<1>2. U32(raw, p) = n /\ U16(raw, p) < 32768
  BY <1>1, ReadU32
<1> QED
  BY <1>2 DEF I32, I16, U32

\* The two conversions of an encryption type are inverse to each other.
LEMMA ReadEnctype == ASSUME NEW t \in EncryptionType PROVE ToI16(t) \in Int16 /\ FromI16(ToI16(t)) = t
<1> DEFINE Named == [kind : DOMAIN Codes, code : {0}]
           Codeless == {c \in Int16 : \A name \in DOMAIN Codes : Codes[name] # c}
           Unnamed == [kind : {"Unknown"}, code : Codeless]
<1>1. CASE t \in Named
  <2>1. PICK name \in DOMAIN Codes : t = [kind |-> name, code |-> 0]
    BY <1>1
  <2>2. name # "Unknown" /\ Codes[name] \in {16, 17, 18, 23}
    BY DEF Codes
  <2>3. ToI16(t) = Codes[name]
    BY <2>1, <2>2 DEF ToI16
  <2>4. \A other \in DOMAIN Codes : Codes[other] = Codes[name] => other = name
    BY DEF Codes
  <2>5. (CHOOSE other \in DOMAIN Codes : Codes[other] = Codes[name]) = name
    BY <2>4
  <2>6. FromI16(Codes[name]) = [kind |-> name, code |-> 0]
    BY <2>5 DEF FromI16
  <2> HIDE DEF Codes
  <2>7. Codes[name] \in Int16
    BY <2>2 DEF Int16
  <2> QED
    BY <2>1, <2>3, <2>6, <2>7
<1>2. CASE t \in Unnamed
  <2>1. PICK c \in Codeless : t = [kind |-> "Unknown", code |-> c]
    <3> HIDE DEF Codeless
    <3> QED BY <1>2
  <2>2. c \in Int16
    OBVIOUS
  <2>3. ToI16(t) = c
    BY <2>1 DEF ToI16
  <2>4. FromI16(c) = t
    <3>1. ~ \E name \in DOMAIN Codes : Codes[name] = c
      OBVIOUS
    <3> QED
      BY <2>1, <3>1 DEF FromI16
  <2> QED
    BY <2>2, <2>3, <2>4
<1>3. EncryptionType = Named \cup Unnamed
  BY DEF EncryptionType
<1> HIDE DEF Named, Unnamed
<1> QED
  BY <1>1, <1>2, <1>3

-----------------------------------------------------------------------------
(* Sequences put together *)

\* Bytes put together are bytes, and their lengths add up.
LEMMA ByteConcat ==
  ASSUME NEW a \in Bytes, NEW b \in Bytes
  PROVE  a \o b \in Bytes /\ Len(a \o b) = Len(a) + Len(b) /\ Len(a) \in Nat /\ Len(b) \in Nat
BY ConcatProperties, LenProperties DEF Bytes

LEMMA FunctionIsSeq ==
  ASSUME NEW S, NEW n \in Nat, NEW s \in [1..n -> S]
  PROVE  s \in Seq(S) /\ Len(s) = n
OBVIOUS

\* What f has put together of s after each of its elements.
Joins(s, F) ==
    /\ DOMAIN F = 0..Len(s)
    /\ F[0] = <<>>
    /\ \A i \in 1..Len(s) : F[i] = F[i - 1] \o s[i]

\* The partial results are sequences over the same set.
LEMMA JoinsTyped ==
  ASSUME NEW S, NEW s \in Seq(Seq(S)), NEW F, Joins(s, F)
  PROVE  \A i \in 0..Len(s) : F[i] \in Seq(S)
<1> DEFINE P == {n \in Nat : n <= Len(s) => F[n] \in Seq(S)}
<1>0. Len(s) \in Nat /\ \A i \in 1..Len(s) : s[i] \in Seq(S)
  BY LenProperties, ElementOfSeq
<1>1. 0 \in P
  BY EmptySeq DEF Joins
<1>2. ASSUME NEW n \in P PROVE n + 1 \in P
  <2>1. CASE n + 1 <= Len(s)
    <3>1. F[n] \in Seq(S) /\ n + 1 \in 1..Len(s) /\ s[n + 1] \in Seq(S) /\ (n + 1) - 1 = n
      BY <1>0, <1>2, <2>1
    <3>2. F[n + 1] = F[n] \o s[n + 1]
      BY <3>1 DEF Joins
    <3>3. F[n + 1] \in Seq(S)
      BY <3>1, <3>2, ConcatProperties
    <3> QED
      BY <3>1, <3>3
  <2> QED
    BY <1>2, <2>1
<1>3. P = Nat
  <2>1. P \in SUBSET Nat
    OBVIOUS
  <2> HIDE DEF P
  <2> QED
    BY <1>1, <1>2, <2>1, SetInduction
<1> QED
  BY <1>0, <1>3

\* They exist: the one for n + 1 elements extends the one for n.
LEMMA JoinsExists == ASSUME NEW s, Len(s) \in Nat PROVE \E F : Joins(s, F)
<1> DEFINE Upto(n, F) == DOMAIN F = 0..n /\ F[0] = <<>> /\ \A i \in 1..n : F[i] = F[i - 1] \o s[i]
           P == {n \in Nat : \E F : Upto(n, F)}
<1>1. 0 \in P
  <2>1. Upto(0, [i \in 0..0 |-> <<>>])
    OBVIOUS
  <2> QED
    BY <2>1
<1>2. ASSUME NEW n \in P PROVE n + 1 \in P
  <2>1. PICK F : Upto(n, F)
    BY <1>2
  <2> DEFINE G == [i \in 0..(n + 1) |-> IF i = n + 1 THEN F[n] \o s[n + 1] ELSE F[i]]
  <2>2. Upto(n + 1, G)
    <3>1. DOMAIN G = 0..(n + 1) /\ G[0] = <<>>
      BY <2>1
    <3>2. ASSUME NEW i \in 1..(n + 1) PROVE G[i] = G[i - 1] \o s[i]
      <4>1. n \in Nat /\ i \in 0..(n + 1) /\ i - 1 \in 0..(n + 1) /\ i - 1 # n + 1
        OBVIOUS
      <4>2. CASE i = n + 1
        <5>1. i - 1 = n
          BY <4>1, <4>2
        <5> QED
          BY <4>1, <4>2, <5>1
      <4>3. CASE i # n + 1
        <5>1. i \in 1..n
          BY <4>1, <4>3
        <5> QED
          BY <2>1, <4>1, <4>3, <5>1
      <4> QED
        BY <4>2, <4>3
    <3> QED
      BY <3>1, <3>2
  <2> QED
    BY <2>2
<1>3. P = Nat
  <2>1. P \in SUBSET Nat
    OBVIOUS
  <2> HIDE DEF P
  <2> QED
    BY <1>1, <1>2, <2>1, SetInduction
<1> QED
  BY <1>3 DEF Joins

\* FlattenSeq is the last of them.
LEMMA FlattenJoins ==
  ASSUME NEW S, NEW s \in Seq(Seq(S)), NEW F, Joins(s, F)
  PROVE  FlattenSeq(s) = F[Len(s)]
<1> DEFINE N == Len(s)
           flatten[i \in 1..N] == IF i = 1 THEN s[i] ELSE flatten[i - 1] \o s[i]
<1>0. N \in Nat /\ \A i \in 1..N : s[i] \in Seq(S)
  BY LenProperties, ElementOfSeq
<1>1. CASE N = 0
  BY <1>1, EmptySeq DEF Joins, FlattenSeq
<1>2. CASE N # 0
  <2>1. FlattenSeq(s) = flatten[N]
    BY <1>2 DEF FlattenSeq
  <2>2. flatten = CHOOSE h : h = [i \in 1..N |-> IF i = 1 THEN s[i] ELSE h[i - 1] \o s[i]]
    BY DEF flatten
  <2> DEFINE G == [i \in 1..N |-> F[i]]
  <2> HIDE DEF flatten
  <2>3. G = [i \in 1..N |-> IF i = 1 THEN s[i] ELSE G[i - 1] \o s[i]]
    <3>1. ASSUME NEW i \in 1..N PROVE G[i] = IF i = 1 THEN s[i] ELSE G[i - 1] \o s[i]
      <4>0. F[i] = F[i - 1] \o s[i] /\ F[0] = <<>> /\ s[i] \in Seq(S)
        BY <1>0 DEF Joins
      <4>1. CASE i = 1
        <5>0. i - 1 = 0
          BY <4>1
        <5>1. F[1] = <<>> \o s[1] /\ s[1] \in Seq(S)
          BY <4>0, <4>1, <5>0
        <5> QED
          BY <4>1, <5>1, ConcatEmptySeq
      <4>2. CASE i # 1
        <5>1. i - 1 \in 1..N
          BY <1>0, <4>2
        <5> QED
          BY <4>0, <4>2, <5>1
      <4> QED
        BY <4>1, <4>2
    <3> QED
      BY <3>1
  <2>4. flatten = [i \in 1..N |-> IF i = 1 THEN s[i] ELSE flatten[i - 1] \o s[i]]
    <3> HIDE DEF G
    <3> QED
      BY <2>2, <2>3
  <2> DEFINE P == {n \in Nat : n + 1 <= N => flatten[n + 1] = F[n + 1]}
  <2>5. 0 \in P
    <3>1. 1 \in 1..N /\ 1 - 1 = 0
      BY <1>0, <1>2
    <3>2. F[1] = <<>> \o s[1] /\ s[1] \in Seq(S)
      BY <1>0, <3>1 DEF Joins
    <3>3. F[1] = s[1]
      BY <3>2, ConcatEmptySeq
    <3> QED
      BY <1>0, <3>1, <2>4, <3>3
  <2>6. ASSUME NEW n \in P PROVE n + 1 \in P
    <3>1. CASE n + 2 <= N
      <4>1. flatten[n + 1] = F[n + 1] /\ n + 2 \in 1..N /\ n + 2 # 1 /\ (n + 2) - 1 = n + 1 /\ (n + 1) + 1 = n + 2
        BY <1>0, <2>6, <3>1
      <4>2. flatten[n + 2] = flatten[n + 1] \o s[n + 2] /\ F[n + 2] = F[n + 1] \o s[n + 2]
        BY <2>4, <4>1 DEF Joins
      <4>3. flatten[(n + 1) + 1] = F[(n + 1) + 1]
        BY <4>1, <4>2
      <4> QED
        BY <4>3
    <3> QED
      BY <1>0, <2>6, <3>1
  <2>7. P = Nat
    <3>1. P \in SUBSET Nat
      OBVIOUS
    <3> HIDE DEF P
    <3> QED
      BY <2>5, <2>6, <3>1, SetInduction
  <2>8. N - 1 \in Nat /\ (N - 1) + 1 = N
    BY <1>0, <1>2
  <2>9. flatten[N] = F[N]
    <3>1. N - 1 \in P
      BY <2>7, <2>8
    <3>2. flatten[(N - 1) + 1] = F[(N - 1) + 1]
      BY <2>8, <3>1
    <3> QED
      BY <2>8, <3>2
  <2> QED
    BY <2>1, <2>9
<1> QED
  BY <1>1, <1>2

\* Where the whole stands, each element stands after those before it.
LEMMA HoldsParts ==
  ASSUME NEW S, NEW raw \in Seq(S), NEW p \in Nat, NEW s \in Seq(Seq(S)), NEW F, Joins(s, F),
         Holds(raw, p, F[Len(s)])
  PROVE  \A i \in 1..Len(s) : Holds(raw, p + Len(F[i - 1]), s[i])
<1> DEFINE P == {n \in Nat : n <= Len(s) /\ Holds(raw, p, F[n])
                              => \A i \in 1..n : Holds(raw, p + Len(F[i - 1]), s[i])}
<1>0. Len(s) \in Nat /\ \A i \in 1..Len(s) : s[i] \in Seq(S)
  BY LenProperties, ElementOfSeq
<1>1. 0 \in P
  OBVIOUS
<1>2. ASSUME NEW n \in P PROVE n + 1 \in P
  <2>1. SUFFICES ASSUME n + 1 <= Len(s), Holds(raw, p, F[n + 1])
                 PROVE  \A i \in 1..(n + 1) : Holds(raw, p + Len(F[i - 1]), s[i])
    OBVIOUS
  <2>0. n \in Nat /\ (n <= Len(s) /\ Holds(raw, p, F[n])
                      => \A i \in 1..n : Holds(raw, p + Len(F[i - 1]), s[i]))
    BY <1>2
  <2> HIDE DEF P
  <2>2. n + 1 \in 1..Len(s) /\ n \in 0..Len(s) /\ n <= Len(s) /\ (n + 1) - 1 = n
    <3>1. n \in Nat /\ n + 1 <= Len(s) /\ Len(s) \in Nat
      BY <1>0, <2>0, <2>1
    <3> QED
      BY <3>1
  <2>3. F[n] \in Seq(S) /\ s[n + 1] \in Seq(S)
    BY <1>0, <2>2, JoinsTyped
  <2>4. F[n + 1] = F[n] \o s[n + 1]
    BY <2>2 DEF Joins
  <2>5. Holds(raw, p, F[n]) /\ Holds(raw, p + Len(F[n]), s[n + 1])
    BY <2>1, <2>3, <2>4, HoldsConcat
  <2>6. \A i \in 1..n : Holds(raw, p + Len(F[i - 1]), s[i])
    BY <2>0, <2>2, <2>5
  <2>7. ASSUME NEW i \in 1..(n + 1) PROVE Holds(raw, p + Len(F[i - 1]), s[i])
    <3>1. CASE i = n + 1
      BY <2>2, <2>5, <3>1
    <3>2. CASE i # n + 1
      <4>1. i \in 1..n
        BY <2>0, <3>2
      <4> QED
        BY <2>6, <4>1
    <3> QED
      BY <3>1, <3>2
  <2> QED
    BY <2>7
<1>3. P = Nat
  <2>1. P \in SUBSET Nat
    OBVIOUS
  <2> HIDE DEF P
  <2> QED
    BY <1>1, <1>2, <2>1, SetInduction
<1>4. Len(s) \in P
  BY <1>0, <1>3
<1> QED
  BY <1>0, <1>4

-----------------------------------------------------------------------------
(* The hexadecimal form *)

\* Two hexadecimal digits make a byte again.
LEMMA SecretDigits == ASSUME NEW n \in Octet
  PROVE  n \div 16 \in Octet /\ n % 16 \in Octet /\ 16 * (n \div 16) + (n % 16) = n
BY DEF Octet

\* The hexadecimal form of bytes gives the bytes back.
LEMMA UnhexHex == ASSUME NEW b \in Bytes PROVE Unhex(Hex(b)) = b
<1> DEFINE N == Len(b)
           s == [i \in DOMAIN b |-> <<b[i] \div 16, b[i] % 16>>]
<1>0. N \in Nat /\ DOMAIN b = 1..N /\ \A i \in 1..N : b[i] \in Octet
  BY LenProperties, ElementOfSeq DEF Bytes
<1>1. \A i \in 1..N : s[i] \in Bytes /\ Len(s[i]) = 2 /\ s[i][1] = b[i] \div 16 /\ s[i][2] = b[i] % 16
  <2> TAKE i \in 1..N
  <2>1. s[i] = <<b[i] \div 16, b[i] % 16>>
    BY <1>0
  <2>2. b[i] \div 16 \in Octet /\ b[i] % 16 \in Octet
    BY <1>0, SecretDigits
  <2> HIDE DEF s
  <2> QED
    BY <2>1, <2>2, Pair
<1>2. s \in Seq(Bytes) /\ Len(s) = N
  <2>1. DOMAIN s = 1..N /\ s \in [1..N -> Bytes]
    BY <1>0, <1>1
  <2> HIDE DEF s
  <2> QED
    BY <1>0, <2>1, FunctionIsSeq
<1> HIDE DEF s
<1>3. PICK F : Joins(s, F)
  BY <1>0, <1>2, JoinsExists
<1>4. Hex(b) = F[N] /\ \A i \in 0..N : F[i] \in Bytes
  BY <1>2, <1>3, FlattenJoins, JoinsTyped DEF Hex, s, Bytes
<1>5. \A n \in Nat : n <= N => Len(F[n]) = 2 * n
  <2> DEFINE P == {n \in Nat : n <= N => Len(F[n]) = 2 * n}
  <2>1. 0 \in P
    BY <1>3, EmptySeq DEF Joins
  <2>2. ASSUME NEW n \in P PROVE n + 1 \in P
    <3>1. SUFFICES ASSUME n + 1 <= N PROVE Len(F[n + 1]) = 2 * (n + 1)
      OBVIOUS
    <3>2. n + 1 \in 1..N /\ n \in 0..N /\ (n + 1) - 1 = n
      BY <1>0, <3>1
    <3>3. F[n + 1] = F[n] \o s[n + 1] /\ F[n] \in Bytes /\ s[n + 1] \in Bytes /\ Len(s[n + 1]) = 2
      BY <1>1, <1>2, <1>3, <1>4, <3>2 DEF Joins
    <3>4. Len(F[n]) = 2 * n
      BY <2>2, <3>2
    <3>5. Len(F[n + 1]) = Len(F[n]) + Len(s[n + 1])
      BY <3>3, ByteConcat
    <3> QED
      BY <3>3, <3>4, <3>5
  <2>3. P = Nat
    <3>1. P \in SUBSET Nat
      OBVIOUS
    <3> HIDE DEF P
    <3> QED
      BY <2>1, <2>2, <3>1, SetInduction
  <2> QED
    BY <2>3
<1> DEFINE d == Hex(b)
<1>6. d \in Bytes /\ Len(d) = 2 * N
  BY <1>0, <1>4, <1>5
<1>7. \A i \in 1..N : Holds(d, 0 + Len(F[i - 1]), s[i])
  <2>1. Holds(d, 0, F[N])
    BY <1>4, <1>6, HoldsSelf
  <2> HIDE DEF d
  <2> QED
    BY <1>2, <1>3, <1>6, <2>1, HoldsParts DEF Bytes
<1> HIDE DEF d
<1>8. ASSUME NEW i \in 1..N PROVE 16 * d[2 * i - 1] + d[2 * i] = b[i]
  <2>1. i - 1 \in Nat /\ i - 1 <= N
    BY <1>0
  <2>2. Len(F[i - 1]) = 2 * (i - 1)
    BY <1>5, <2>1
  <2>3. Holds(d, 2 * i - 2, s[i])
    <3>1. 0 + Len(F[i - 1]) = 2 * i - 2
      BY <2>1, <2>2
    <3> QED
      BY <1>7, <3>1
  <2>4. d[(2 * i - 2) + 1] = s[i][1] /\ d[(2 * i - 2) + 2] = s[i][2]
    BY <1>1, <2>3 DEF Holds
  <2>5. (2 * i - 2) + 1 = 2 * i - 1 /\ (2 * i - 2) + 2 = 2 * i
    OBVIOUS
  <2>6. d[2 * i - 1] = b[i] \div 16 /\ d[2 * i] = b[i] % 16
    BY <1>1, <2>4, <2>5
  <2> QED
    BY <1>0, <2>6, SecretDigits
<1>9. Len(d) \div 2 = N
  <2>1. ASSUME NEW n \in Nat PROVE (2 * n) \div 2 = n
    BY SMT
  <2> QED
    BY <1>0, <1>6, <2>1
<1>10. Unhex(d) = [i \in 1..N |-> b[i]]
  BY <1>8, <1>9 DEF Unhex
<1>11. b = [i \in 1..N |-> b[i]]
  BY <1>0 DEF Bytes
<1> QED
  BY <1>10, <1>11 DEF d

-----------------------------------------------------------------------------
(* Records *)

\* HoldsConcat for bytes, with the lengths.
LEMMA HoldsLast ==
  ASSUME NEW raw \in Bytes, NEW p \in Nat, NEW a \in Bytes, NEW b \in Bytes, Holds(raw, p, a \o b)
  PROVE  /\ Holds(raw, p, a) /\ Holds(raw, p + Len(a), b)
         /\ a \o b \in Bytes /\ Len(a \o b) = Len(a) + Len(b) /\ Len(a) \in Nat /\ Len(b) \in Nat
<1>1. Holds(raw, p, a) /\ Holds(raw, p + Len(a), b)
  BY HoldsConcat DEF Bytes
<1> QED
  BY <1>1, ByteConcat

\* A name with its length in front is two bytes longer.
LEMMA PrefixedLen ==
  ASSUME NEW b \in Bytes
  PROVE  Prefixed(b) \in Bytes /\ Len(Prefixed(b)) = Len(b) + 2 /\ Len(b) \in Nat
<1> DEFINE w == BE(Len(b), 2)
<1>1. Len(b) \in Nat
  BY LenProperties DEF Bytes
<1>2. w \in Bytes /\ Len(w) = 2
  BY <1>1, BE2
<1>3. Prefixed(b) = w \o b
  BY DEF Prefixed
<1> HIDE DEF w
<1>4. w \o b \in Bytes /\ Len(w \o b) = Len(w) + Len(b)
  BY <1>2, ByteConcat
<1> QED
  BY <1>1, <1>2, <1>3, <1>4

\* Reading it gives the length, then the name.
LEMMA ReadPrefixed ==
  ASSUME NEW raw \in Bytes, NEW p \in Nat, NEW b \in Bytes, Len(b) \in Word16, Holds(raw, p, Prefixed(b))
  PROVE  U16(raw, p) = Len(b) /\ Field(raw, p + 2, Len(b)) = b
<1> DEFINE w == BE(Len(b), 2)
<1>1. Len(b) \in Nat
  BY LenProperties DEF Bytes
<1>2. w \in Bytes /\ Len(w) = 2
  BY <1>1, BE2
<1>3. Holds(raw, p, w \o b)
  BY DEF Prefixed
<1> HIDE DEF w
<1>4. Holds(raw, p, w) /\ Holds(raw, p + 2, b)
  <2>1. Holds(raw, p, w) /\ Holds(raw, p + Len(w), b)
    BY <1>2, <1>3, HoldsLast
  <2> QED
    BY <1>2, <2>1
<1>5. U16(raw, p) = Len(b)
  BY <1>1, <1>4, ReadU16 DEF w
<1>6. p + 2 \in Nat
  OBVIOUS
<1>7. Field(raw, p + 2, Len(b)) = b
  BY <1>4, <1>6, HoldsField DEF Bytes
<1> QED
  BY <1>5, <1>7

-----------------------------------------------------------------------------
(* Reading a record *)

\* Starts is the function that satisfies its equation, when there is one.
LEMMA StartsAre ==
  ASSUME NEW raw, NEW first \in Nat, NEW count \in Nat, NEW h \in [0..count -> Nat], h[0] = first,
         \A i \in 1..count : h[i] = h[i - 1] + 2 + U16(raw, h[i - 1])
  PROVE  Starts(raw, first, count) = h
<1> DEFINE start[i \in 0..count] == IF i = 0 THEN first ELSE start[i - 1] + 2 + U16(raw, start[i - 1])
<1>1. Starts(raw, first, count) = start
  BY DEF Starts
<1>2. start = CHOOSE g : g = [i \in 0..count |-> IF i = 0 THEN first ELSE g[i - 1] + 2 + U16(raw, g[i - 1])]
  BY DEF start
<1> HIDE DEF start
<1>3. h = [i \in 0..count |-> IF i = 0 THEN first ELSE h[i - 1] + 2 + U16(raw, h[i - 1])]
  <2>1. ASSUME NEW i \in 0..count
        PROVE  h[i] = IF i = 0 THEN first ELSE h[i - 1] + 2 + U16(raw, h[i - 1])
    <3>1. CASE i = 0
      BY <3>1
    <3>2. CASE i # 0
      <4>1. i \in 1..count
        BY <3>2
      <4> QED
        BY <3>2, <4>1
    <3> QED
      BY <3>1, <3>2
  <2> QED
    BY <2>1
<1>4. start = [i \in 0..count |-> IF i = 0 THEN first ELSE start[i - 1] + 2 + U16(raw, start[i - 1])]
  BY <1>2, <1>3
<1> DEFINE P == {n \in Nat : n <= count => start[n] = h[n]}
<1>5. 0 \in P
  BY <1>4
<1>6. ASSUME NEW n \in P PROVE n + 1 \in P
  <2>1. CASE n + 1 <= count
    <3>1. start[n] = h[n] /\ n + 1 \in 1..count /\ n + 1 \in 0..count /\ n + 1 # 0 /\ (n + 1) - 1 = n
      BY <1>6, <2>1
    <3>2. start[n + 1] = start[n] + 2 + U16(raw, start[n])
      BY <1>4, <3>1
    <3>3. h[n + 1] = h[n] + 2 + U16(raw, h[n])
      BY <3>1
    <3>4. start[n + 1] = h[n + 1]
      BY <3>1, <3>2, <3>3
    <3> QED
      BY <3>4
  <2> QED
    BY <1>6, <2>1
<1>7. P = Nat
  <2>1. P \in SUBSET Nat
    OBVIOUS
  <2> HIDE DEF P
  <2> QED
    BY <1>5, <1>6, <2>1, SetInduction
<1>8. \A i \in 0..count : start[i] = h[i]
  BY <1>7
<1>9. start = [i \in 0..count |-> start[i]]
  <2>1. start = [i \in DOMAIN start |-> start[i]] /\ DOMAIN start = 0..count
    <3> DEFINE e(i) == IF i = 0 THEN first ELSE start[i - 1] + 2 + U16(raw, start[i - 1])
    <3>1. start = [i \in 0..count |-> e(i)]
      BY <1>4
    <3> HIDE DEF e
    <3> QED
      BY <3>1
  <2> QED
    BY <2>1
<1> QED
  BY <1>1, <1>8, <1>9

Names(e) == [i \in DOMAIN e.parts |-> Prefixed(e.parts[i])]

\* The types of an entry's fields, and of its components as they are written.
LEMMA EntryTyped ==
  ASSUME NEW e \in KeytabKeyEntry
  PROVE  /\ e.realm \in Bytes /\ Len(e.realm) \in Word16
         /\ e.key \in Bytes /\ Len(e.key) \in Word16
         /\ e.timestamp \in Word32 /\ e.kvno \in Word32 /\ e.enctype \in EncryptionType
         /\ Len(e.parts) \in Word16 /\ DOMAIN e.parts = 1..Len(e.parts)
         /\ e.parts = [i \in 1..Len(e.parts) |-> e.parts[i]]
         /\ \A i \in 1..Len(e.parts) : e.parts[i] \in Bytes /\ Len(e.parts[i]) \in Word16
         /\ Names(e) \in Seq(Bytes) /\ Len(Names(e)) = Len(e.parts)
         /\ \A i \in 1..Len(e.parts) : Names(e)[i] = Prefixed(e.parts[i])
<1>1. /\ e.parts \in Seq(Name) /\ Len(e.parts) \in Word16 /\ e.realm \in Name /\ e.key \in Name
      /\ e.timestamp \in Word32 /\ e.kvno \in Word32 /\ e.enctype \in EncryptionType
  BY DEF KeytabKeyEntry
<1>2. \A b \in Name : b \in Bytes /\ Len(b) \in Word16
  BY DEF Name, Bytes
<1>3. /\ Len(e.parts) \in Nat /\ DOMAIN e.parts = 1..Len(e.parts)
      /\ e.parts = [i \in 1..Len(e.parts) |-> e.parts[i]]
      /\ \A i \in 1..Len(e.parts) : e.parts[i] \in Name
  BY <1>1, LenProperties, ElementOfSeq
<1>4. \A i \in 1..Len(e.parts) : Names(e)[i] = Prefixed(e.parts[i]) /\ Prefixed(e.parts[i]) \in Bytes
  BY <1>2, <1>3, PrefixedLen DEF Names
<1>5. Names(e) \in [1..Len(e.parts) -> Bytes]
  BY <1>3, <1>4 DEF Names
<1>6. Names(e) \in Seq(Bytes) /\ Len(Names(e)) = Len(e.parts)
  BY <1>3, <1>5, FunctionIsSeq
<1> QED
  BY <1>1, <1>2, <1>3, <1>4, <1>6

\* The components of an entry put together.
LEMMA FlatNames ==
  ASSUME NEW e \in KeytabKeyEntry
  PROVE  \E F : Joins(Names(e), F) /\ FlattenSeq(Names(e)) = F[Len(e.parts)]
                /\ \A i \in 0..Len(e.parts) : F[i] \in Bytes
<1>1. Names(e) \in Seq(Bytes) /\ Len(Names(e)) = Len(e.parts)
  BY EntryTyped
<1>2. Len(Names(e)) \in Nat
  BY <1>1, LenProperties
<1>3. PICK F : Joins(Names(e), F)
  BY <1>2, JoinsExists
<1>4. FlattenSeq(Names(e)) = F[Len(e.parts)]
  BY <1>1, <1>3, FlattenJoins DEF Bytes
<1>5. \A i \in 0..Len(e.parts) : F[i] \in Bytes
  BY <1>1, <1>3, JoinsTyped DEF Bytes
<1> QED
  BY <1>3, <1>4, <1>5

\* Where what follows the components starts, in a record at p.
Fixed(p, e) == p + 4 + Len(e.realm) + Len(FlattenSeq(Names(e)))

\* The fields of e stand in raw as those of a record at p.
Laid(raw, p, e) ==
    /\ Holds(raw, p, BE(Len(e.parts), 2))
    /\ Holds(raw, p + 2, Prefixed(e.realm))
    /\ Holds(raw, p + 4 + Len(e.realm), FlattenSeq(Names(e)))
    /\ Holds(raw, Fixed(p, e) + 4, BE(e.timestamp, 4))
    /\ Holds(raw, Fixed(p, e) + 8, <<e.kvno % 256>>)
    /\ Holds(raw, Fixed(p, e) + 9, BE(ToI16(e.enctype), 2))
    /\ Holds(raw, Fixed(p, e) + 11, Prefixed(e.key))
    /\ Holds(raw, Fixed(p, e) + 13 + Len(e.key), BE(e.kvno, 4))

\* Where a record stands in raw, its fields stand where Laid says; its length follows.
LEMMA RecordLayout ==
  ASSUME NEW raw \in Bytes, NEW p \in Nat, NEW e \in KeytabKeyEntry
  PROVE  /\ Record(e) \in Bytes
         /\ p + Len(Record(e)) = Fixed(p, e) + 17 + Len(e.key)
         /\ Fixed(p, e) \in Nat /\ Fixed(p, e) >= p
         /\ Holds(raw, p, Record(e)) => Laid(raw, p, e)
<1> DEFINE a1 == BE(Len(e.parts), 2)
           a2 == Prefixed(e.realm)
           a3 == FlattenSeq(Names(e))
           a4 == BE(1, 4)
           a5 == BE(e.timestamp, 4)
           a6 == <<e.kvno % 256>>
           a7 == BE(ToI16(e.enctype), 2)
           a8 == Prefixed(e.key)
           a9 == BE(e.kvno, 4)
           r == Len(e.realm)
           k == Len(e.key)
           b2 == a1 \o a2
           b3 == b2 \o a3
           b4 == b3 \o a4
           b5 == b4 \o a5
           b6 == b5 \o a6
           b7 == b6 \o a7
           b8 == b7 \o a8
           b9 == b8 \o a9
<1>1. Record(e) = b9
  BY DEF Record, Names, Kvno32
<1>2. Len(e.parts) \in Int /\ e.timestamp \in Int /\ e.kvno \in Int /\ ToI16(e.enctype) \in Int
  <2>1. Len(e.parts) \in Word16 /\ e.timestamp \in Word32 /\ e.kvno \in Word32 /\ ToI16(e.enctype) \in Int16
    BY EntryTyped, ReadEnctype
  <2> QED
    BY <2>1 DEF Word16, Word32, Int16
<1>3. r \in Nat /\ k \in Nat
  <2>1. r \in Word16 /\ k \in Word16
    BY EntryTyped
  <2> QED
    BY <2>1 DEF Word16
<1>4. a3 \in Bytes /\ Len(a3) \in Nat
  <2>1. Len(e.parts) \in 0..Len(e.parts)
    BY EntryTyped DEF Word16
  <2>2. a3 \in Bytes
    BY <2>1, FlatNames
  <2> QED
    BY <2>2, LenProperties DEF Bytes
<1>5. a6 \in Bytes /\ Len(a6) = 1
  <2> DEFINE v == e.kvno % 256
  <2>1. v \in Octet
    BY <1>2, LowByte
  <2> HIDE DEF v
  <2>2. <<v>> \in Bytes /\ Len(<<v>>) = 1
    BY <2>1 DEF Bytes
  <2> QED
    BY <2>2 DEF v
<1>6. a1 \in Bytes /\ Len(a1) = 2 /\ a7 \in Bytes /\ Len(a7) = 2
  BY <1>2, BE2
<1>7. a4 \in Bytes /\ Len(a4) = 4 /\ a5 \in Bytes /\ Len(a5) = 4 /\ a9 \in Bytes /\ Len(a9) = 4
  BY <1>2, BE4
<1>8. a2 \in Bytes /\ Len(a2) = r + 2 /\ a8 \in Bytes /\ Len(a8) = k + 2
  BY EntryTyped, PrefixedLen
<1> HIDE DEF a1, a2, a3, a4, a5, a6, a7, a8, a9, r, k, b2, b3, b4, b5, b6, b7, b8, b9
<1>9. b2 \in Bytes /\ Len(b2) = Len(a1) + Len(a2)
  BY <1>6, <1>8, ByteConcat DEF b2
<1>10. b3 \in Bytes /\ Len(b3) = Len(b2) + Len(a3)
  BY <1>9, <1>4, ByteConcat DEF b3
<1>11. b4 \in Bytes /\ Len(b4) = Len(b3) + Len(a4)
  BY <1>10, <1>7, ByteConcat DEF b4
<1>12. b5 \in Bytes /\ Len(b5) = Len(b4) + Len(a5)
  BY <1>11, <1>7, ByteConcat DEF b5
<1>13. b6 \in Bytes /\ Len(b6) = Len(b5) + Len(a6)
  BY <1>12, <1>5, ByteConcat DEF b6
<1>14. b7 \in Bytes /\ Len(b7) = Len(b6) + Len(a7)
  BY <1>13, <1>6, ByteConcat DEF b7
<1>15. b8 \in Bytes /\ Len(b8) = Len(b7) + Len(a8)
  BY <1>14, <1>8, ByteConcat DEF b8
<1>16. b9 \in Bytes /\ Len(b9) = Len(b8) + Len(a9)
  BY <1>15, <1>7, ByteConcat DEF b9
<1> DEFINE f == Fixed(p, e)
<1>17. f = p + 4 + r + Len(a3)
  BY DEF Fixed, r, a3
<1> HIDE DEF f
<1>18. /\ p + Len(a1) = p + 2 /\ p + Len(b2) = p + 4 + r /\ p + Len(b4) = f + 4 /\ p + Len(b5) = f + 8
       /\ p + Len(b6) = f + 9 /\ p + Len(b7) = f + 11 /\ p + Len(b8) = f + 13 + k /\ p + Len(b9) = f + 17 + k
       /\ f \in Nat /\ f >= p
  BY <1>3, <1>4, <1>5, <1>6, <1>7, <1>8, <1>9, <1>10, <1>11, <1>12, <1>13, <1>14, <1>15, <1>16, <1>17
<1>19. ASSUME Holds(raw, p, b9)
       PROVE  /\ Holds(raw, p, a1) /\ Holds(raw, p + 2, a2) /\ Holds(raw, p + 4 + r, a3)
              /\ Holds(raw, f + 4, a5) /\ Holds(raw, f + 8, a6) /\ Holds(raw, f + 9, a7)
              /\ Holds(raw, f + 11, a8) /\ Holds(raw, f + 13 + k, a9)
  <2>1. Holds(raw, p, b8) /\ Holds(raw, p + Len(b8), a9)
    BY <1>7, <1>15, <1>19, HoldsLast DEF b9
  <2>2. Holds(raw, p, b7) /\ Holds(raw, p + Len(b7), a8)
    BY <1>8, <1>14, <2>1, HoldsLast DEF b8
  <2>3. Holds(raw, p, b6) /\ Holds(raw, p + Len(b6), a7)
    BY <1>6, <1>13, <2>2, HoldsLast DEF b7
  <2>4. Holds(raw, p, b5) /\ Holds(raw, p + Len(b5), a6)
    BY <1>5, <1>12, <2>3, HoldsLast DEF b6
  <2>5. Holds(raw, p, b4) /\ Holds(raw, p + Len(b4), a5)
    BY <1>7, <1>11, <2>4, HoldsLast DEF b5
  <2>6. Holds(raw, p, b3)
    BY <1>7, <1>10, <2>5, HoldsLast DEF b4
  <2>7. Holds(raw, p, b2) /\ Holds(raw, p + Len(b2), a3)
    BY <1>4, <1>9, <2>6, HoldsLast DEF b3
  <2>8. Holds(raw, p, a1) /\ Holds(raw, p + Len(a1), a2)
    BY <1>6, <1>8, <2>7, HoldsLast DEF b2
  <2> QED
    BY <1>18, <2>1, <2>2, <2>3, <2>4, <2>5, <2>7, <2>8
<1>20. Holds(raw, p, b9) => Laid(raw, p, e)
  BY <1>19 DEF Laid, a1, a2, a3, a5, a6, a7, a8, a9, r, k, f
<1> QED
  BY <1>1, <1>16, <1>18, <1>20 DEF f, k

\* Where a component starts is where the previous ones end.
LEMMA ComponentStarts ==
  ASSUME NEW raw \in Bytes, NEW q \in Nat, NEW e \in KeytabKeyEntry, Holds(raw, q, FlattenSeq(Names(e)))
  PROVE  LET start == Starts(raw, q, Len(e.parts))
         IN  /\ start[Len(e.parts)] = q + Len(FlattenSeq(Names(e)))
             /\ \A i \in 1..Len(e.parts) : /\ U16(raw, start[i - 1]) = Len(e.parts[i])
                                           /\ Field(raw, start[i - 1] + 2, Len(e.parts[i])) = e.parts[i]
<1> DEFINE n == Len(e.parts)
<1>0. n \in Nat
  <2>1. n \in Word16
    BY EntryTyped
  <2> QED
    BY <2>1 DEF Word16
<1>1. /\ Names(e) \in Seq(Bytes) /\ Len(Names(e)) = n
      /\ \A i \in 1..n : /\ Names(e)[i] = Prefixed(e.parts[i])
                         /\ e.parts[i] \in Bytes /\ Len(e.parts[i]) \in Word16
  BY EntryTyped
<1>2. PICK F : Joins(Names(e), F) /\ FlattenSeq(Names(e)) = F[n] /\ \A i \in 0..n : F[i] \in Bytes
  BY FlatNames
<1> HIDE DEF n
<1>3. \A i \in 1..n : Holds(raw, q + Len(F[i - 1]), Prefixed(e.parts[i]))
  BY <1>1, <1>2, HoldsParts DEF Bytes
<1> DEFINE h == [i \in 0..n |-> q + Len(F[i])]
<1>4. \A i \in 0..n : h[i] = q + Len(F[i]) /\ Len(F[i]) \in Nat /\ h[i] \in Nat
  BY <1>2, LenProperties DEF Bytes
<1>5. h \in [0..n -> Nat]
  BY <1>4
<1> HIDE DEF h
<1>6. ASSUME NEW i \in 1..n
      PROVE  /\ U16(raw, h[i - 1]) = Len(e.parts[i]) /\ Field(raw, h[i - 1] + 2, Len(e.parts[i])) = e.parts[i]
             /\ h[i] = h[i - 1] + 2 + Len(e.parts[i])
  <2>1. i - 1 \in 0..n /\ i \in 0..n
    BY <1>0
  <2>2. h[i - 1] \in Nat /\ Holds(raw, h[i - 1], Prefixed(e.parts[i]))
    BY <1>3, <1>4, <2>1
  <2>3. U16(raw, h[i - 1]) = Len(e.parts[i]) /\ Field(raw, h[i - 1] + 2, Len(e.parts[i])) = e.parts[i]
    BY <1>1, <2>2, ReadPrefixed
  <2>4. F[i] = F[i - 1] \o Prefixed(e.parts[i])
    BY <1>1, <1>2 DEF Joins
  <2>5. Len(F[i]) = Len(F[i - 1]) + Len(Prefixed(e.parts[i])) /\ Len(Prefixed(e.parts[i])) = Len(e.parts[i]) + 2
        /\ Len(e.parts[i]) \in Nat
    <3>1. Prefixed(e.parts[i]) \in Bytes /\ Len(Prefixed(e.parts[i])) = Len(e.parts[i]) + 2 /\ Len(e.parts[i]) \in Nat
      BY <1>1, PrefixedLen
    <3>2. F[i - 1] \in Bytes
      BY <1>2, <2>1
    <3>3. Len(F[i - 1] \o Prefixed(e.parts[i])) = Len(F[i - 1]) + Len(Prefixed(e.parts[i]))
      BY <3>1, <3>2, ByteConcat
    <3> QED
      BY <2>4, <3>1, <3>3
  <2>6. h[i] = h[i - 1] + 2 + Len(e.parts[i])
    <3> DEFINE x == Len(F[i - 1])
               y == Len(e.parts[i])
    <3>1. h[i] = q + Len(F[i]) /\ h[i - 1] = q + x /\ x \in Nat
      BY <1>4, <2>1
    <3>2. Len(F[i]) = x + (y + 2) /\ y \in Nat
      BY <2>5
    <3> HIDE DEF x, y
    <3>3. q + (x + (y + 2)) = (q + x) + 2 + y
      BY <3>1, <3>2
    <3>4. h[i] = h[i - 1] + 2 + y
      BY <3>1, <3>2, <3>3
    <3> QED
      BY <3>4 DEF y
  <2> QED
    BY <2>3, <2>6
<1>7. h[0] = q
  <2>1. F[0] = <<>> /\ 0 \in 0..n
    BY <1>0, <1>2 DEF Joins
  <2>2. Len(F[0]) = 0
    BY <2>1
  <2>3. h[0] = q + Len(F[0])
    BY <1>4, <2>1
  <2> QED
    BY <2>2, <2>3
<1>8. Starts(raw, q, n) = h
  <2>1. \A i \in 1..n : h[i] = h[i - 1] + 2 + U16(raw, h[i - 1])
    BY <1>6
  <2> QED
    BY <1>0, <1>5, <1>7, <2>1, StartsAre
<1>9. h[n] = q + Len(FlattenSeq(Names(e)))
  <2>1. n \in 0..n
    BY <1>0
  <2> QED
    BY <1>2, <1>4, <2>1
<1> QED
  BY <1>6, <1>8, <1>9 DEF n

\* What stands in raw ends within it.
LEMMA HoldsWithin ==
  ASSUME NEW raw \in Bytes, NEW p \in Nat, NEW b \in Bytes, Holds(raw, p, b)
  PROVE  p + Len(b) <= Len(raw) /\ Len(raw) \in Nat /\ Len(b) \in Nat
BY LenProperties DEF Holds, Bytes

\* Reading at the start of a record gives the entry back, and the position after the record.
LEMMA ReadRecord ==
  ASSUME NEW raw \in Bytes, NEW p \in Nat, NEW e \in KeytabKeyEntry, Holds(raw, p, Record(e))
  PROVE  ReadEntry(raw, p) = [ok |-> TRUE, next |-> p + Len(Record(e)), entry |-> e]
<1> DEFINE n == Len(e.parts)
           r == Len(e.realm)
           k == Len(e.key)
           f == Fixed(p, e)
           start == Starts(raw, p + 4 + r, n)
<1>1. /\ e.realm \in Bytes /\ r \in Word16 /\ e.key \in Bytes /\ k \in Word16
      /\ e.timestamp \in Word32 /\ e.kvno \in Word32 /\ e.enctype \in EncryptionType /\ n \in Word16
      /\ e.parts = [i \in 1..n |-> e.parts[i]]
  BY EntryTyped
<1>2. r \in Nat /\ k \in Nat /\ n \in Nat /\ e.timestamp \in Int /\ e.kvno \in Nat
  BY <1>1 DEF Word16, Word32
<1>3. Laid(raw, p, e) /\ f \in Nat /\ p + Len(Record(e)) = f + 17 + k /\ Record(e) \in Bytes
  BY RecordLayout
<1>4. f = p + 4 + r + Len(FlattenSeq(Names(e)))
  BY DEF Fixed
<1> HIDE DEF n, r, k, f
<1>5. p + 2 \in Nat /\ p + 4 + r \in Nat /\ f + 4 \in Nat /\ f + 8 \in Nat /\ f + 9 \in Nat /\ f + 11 \in Nat
      /\ f + 13 + k \in Nat
  BY <1>2, <1>3
<1>6. U16(raw, p) = n
  BY <1>1, <1>3, ReadU16 DEF Laid, n
<1>7. U16(raw, p + 2) = r /\ Field(raw, (p + 2) + 2, r) = e.realm
  BY <1>1, <1>3, <1>5, ReadPrefixed DEF Laid, r
<1>8. /\ start[n] = f
      /\ \A i \in 1..n : /\ U16(raw, start[i - 1]) = Len(e.parts[i])
                         /\ Field(raw, start[i - 1] + 2, Len(e.parts[i])) = e.parts[i]
  BY <1>3, <1>4, <1>5, ComponentStarts DEF Laid, n, r
<1> HIDE DEF start
<1>9. U32(raw, f + 4) = e.timestamp
  <2>1. Holds(raw, f + 4, BE(e.timestamp, 4))
    BY <1>3 DEF Laid, f
  <2> QED
    BY <1>1, <1>5, <2>1, ReadU32
<1>10. Byte(raw, f + 9) = e.kvno % 256
  <2> DEFINE v == <<e.kvno % 256>>
  <2>1. Holds(raw, f + 8, v) /\ Len(v) = 1 /\ v[1] = e.kvno % 256
    BY <1>3 DEF Laid, f
  <2> HIDE DEF v
  <2>2. f + 8 + 1 <= Len(raw) /\ raw[f + 8 + 1] = v[1] /\ f + 8 + 1 = f + 9
    BY <1>3, <2>1 DEF Holds
  <2>3. f + 9 \in DOMAIN raw
    BY <1>3, <2>2, LenProperties DEF Bytes
  <2> QED
    BY <2>1, <2>2, <2>3 DEF Byte
<1>11. FromI16(I16(raw, f + 9)) = e.enctype
  <2>1. ToI16(e.enctype) \in Int16 /\ FromI16(ToI16(e.enctype)) = e.enctype
    BY <1>1, ReadEnctype
  <2>2. I16(raw, f + 9) = ToI16(e.enctype)
    BY <1>3, <1>5, <2>1, ReadI16 DEF Laid, f
  <2> QED
    BY <2>1, <2>2
<1>12. U16(raw, f + 11) = k /\ Field(raw, (f + 11) + 2, k) = e.key
  BY <1>1, <1>3, <1>5, ReadPrefixed DEF Laid, f, k
<1>13. U32(raw, f + 13 + k) = e.kvno
  <2>1. Holds(raw, f + 13 + k, BE(e.kvno, 4))
    BY <1>3 DEF Laid, f, k
  <2> QED
    BY <1>1, <1>5, <2>1, ReadU32
<1>14. f + 17 + k <= Len(raw) /\ Len(raw) \in Nat
  BY <1>3, HoldsWithin
<1> DEFINE end == f + 13 + k
<1>15. end + 4 <= Len(raw) /\ ~ (end > Len(raw)) /\ end + 4 = f + 17 + k
  BY <1>2, <1>3, <1>14
<1>16. Kvno(raw, end, Byte(raw, f + 9)) = e.kvno
  <2>1. CASE e.kvno > 0
    BY <1>13, <1>15, <2>1 DEF Kvno
  <2>2. CASE e.kvno = 0
    BY <1>10, <1>13, <1>15, <2>2 DEF Kvno
  <2> QED
    BY <1>2, <2>1, <2>2
<1>17. AfterKvno(raw, end) = p + Len(Record(e))
  BY <1>3, <1>15 DEF AfterKvno
<1>18. (p + 2) + 2 = p + 4 /\ (f + 11) + 2 = f + 13
  BY <1>3
<1>19. [i \in 1..n |-> Field(raw, start[i - 1] + 2, U16(raw, start[i - 1]))] = e.parts
  BY <1>1, <1>8
<1>20. ReadEntry(raw, p) =
         [ok |-> TRUE, next |-> AfterKvno(raw, end),
          entry |-> [parts |-> [i \in 1..n |-> Field(raw, start[i - 1] + 2, U16(raw, start[i - 1]))],
                     realm |-> Field(raw, p + 4, r),
                     timestamp |-> U32(raw, f + 4),
                     kvno |-> Kvno(raw, end, Byte(raw, f + 9)),
                     enctype |-> FromI16(I16(raw, f + 9)),
                     key |-> Field(raw, f + 13, k)]]
  <2> HIDE DEF end
  <2>1. end = f + 13 + k
    BY DEF end
  <2> QED
    BY <1>6, <1>7, <1>8, <1>12, <1>15, <2>1 DEF ReadEntry, start
<1>21. e = [parts |-> e.parts, realm |-> e.realm, timestamp |-> e.timestamp, kvno |-> e.kvno,
            enctype |-> e.enctype, key |-> e.key]
  BY DEF KeytabKeyEntry
<1> HIDE DEF end
<1> QED
  BY <1>7, <1>9, <1>11, <1>12, <1>16, <1>17, <1>18, <1>19, <1>20, <1>21

-----------------------------------------------------------------------------
(* Files *)

State == [ok : BOOLEAN, pos : Nat, entries : Seq(KeytabKeyEntry)]
Begin == [ok |-> TRUE, pos |-> 2, entries |-> <<>>]

\* Turns is the function that satisfies its equation, when there is one.
LEMMA TurnsAre ==
  ASSUME NEW raw \in Bytes, NEW h \in [0..Len(raw) -> State], h[0] = Begin,
         \A i \in 1..Len(raw) : h[i] = Turn(raw, h[i - 1])
  PROVE  Turns(raw) = h
<1> DEFINE N == Len(raw)
           after[n \in 0..N] == IF n = 0 THEN [ok |-> TRUE, pos |-> 2, entries |-> <<>>] ELSE Turn(raw, after[n - 1])
<1>0. N \in Nat
  BY LenProperties DEF Bytes
<1>1. Turns(raw) = after
  BY DEF Turns
<1>2. after = CHOOSE g : g = [n \in 0..N |-> IF n = 0 THEN Begin ELSE Turn(raw, g[n - 1])]
  BY DEF after, Begin
<1> HIDE DEF after
<1>3. h = [n \in 0..N |-> IF n = 0 THEN Begin ELSE Turn(raw, h[n - 1])]
  <2>1. ASSUME NEW i \in 0..N PROVE h[i] = IF i = 0 THEN Begin ELSE Turn(raw, h[i - 1])
    <3>1. CASE i = 0
      BY <3>1
    <3>2. CASE i # 0
      <4>1. i \in 1..N
        BY <1>0, <3>2
      <4> QED
        BY <3>2, <4>1
    <3> QED
      BY <3>1, <3>2
  <2> QED
    BY <2>1
<1>4. after = [n \in 0..N |-> IF n = 0 THEN Begin ELSE Turn(raw, after[n - 1])]
  BY <1>2, <1>3
<1> DEFINE P == {n \in Nat : n <= N => after[n] = h[n]}
<1>5. 0 \in P
  BY <1>0, <1>4
<1>6. ASSUME NEW n \in P PROVE n + 1 \in P
  <2>1. CASE n + 1 <= N
    <3>1. after[n] = h[n] /\ n + 1 \in 1..N /\ n + 1 \in 0..N /\ n + 1 # 0 /\ (n + 1) - 1 = n
      BY <1>0, <1>6, <2>1
    <3>2. after[n + 1] = Turn(raw, after[n])
      BY <1>4, <3>1
    <3>3. h[n + 1] = Turn(raw, h[n])
      BY <3>1
    <3>4. after[n + 1] = h[n + 1]
      BY <3>1, <3>2, <3>3
    <3> QED
      BY <3>4
  <2> QED
    BY <1>6, <2>1
<1>7. P = Nat
  <2>1. P \in SUBSET Nat
    OBVIOUS
  <2> HIDE DEF P
  <2> QED
    BY <1>5, <1>6, <2>1, SetInduction
<1>8. \A i \in 0..N : after[i] = h[i]
  BY <1>7
<1>9. after = [i \in 0..N |-> after[i]]
  <2> DEFINE e(i) == IF i = 0 THEN Begin ELSE Turn(raw, after[i - 1])
  <2>1. after = [i \in 0..N |-> e(i)]
    BY <1>4
  <2> HIDE DEF e
  <2> QED
    BY <2>1
<1> QED
  BY <1>1, <1>8, <1>9

\* One turn of Parse at a record that fits its size.
LEMMA TurnReads ==
  ASSUME NEW raw \in Bytes, NEW s \in State, s.ok, NEW e \in KeytabKeyEntry, Len(Record(e)) \in Size31,
         Holds(raw, s.pos, BE(Len(Record(e)), 4) \o Record(e))
  PROVE  Turn(raw, s) = [ok |-> TRUE, pos |-> s.pos + Len(BE(Len(Record(e)), 4) \o Record(e)),
                         entries |-> Append(s.entries, e)]
<1> DEFINE p == s.pos
           z == Len(Record(e))
           w == BE(z, 4)
<1>1. p \in Nat /\ s = [ok |-> TRUE, pos |-> p, entries |-> s.entries]
  BY DEF State
<1>2. z \in Nat /\ Record(e) \in Bytes /\ z > 0
  <2>1. Record(e) \in Bytes /\ p + z = Fixed(p, e) + 17 + Len(e.key) /\ z \in Nat
    BY <1>1, RecordLayout, LenProperties DEF Bytes
  <2>2. Fixed(p, e) \in Nat /\ Fixed(p, e) >= p /\ Len(e.key) \in Nat
    BY <1>1, RecordLayout, EntryTyped DEF Word16
  <2> QED
    BY <1>1, <2>1, <2>2
<1>3. w \in Bytes /\ Len(w) = 4
  BY <1>2, BE4
<1>4. Holds(raw, p, w) /\ Holds(raw, p + Len(w), Record(e)) /\ Len(w \o Record(e)) = Len(w) + z
  BY <1>1, <1>2, <1>3, HoldsLast
<1> HIDE DEF p, z, w
<1>5. I32(raw, p) = z
  BY <1>1, <1>4, ReadI32 DEF z, w
<1>6. p + 4 \in Nat /\ Holds(raw, p + 4, Record(e))
  BY <1>1, <1>3, <1>4
<1>7. ReadEntry(raw, p + 4) = [ok |-> TRUE, next |-> p + 4 + z, entry |-> e]
  BY <1>6, ReadRecord DEF z
<1>8. ~ (p + 4 > Len(raw))
  BY <1>2, <1>6, HoldsWithin DEF z
<1>9. Turn(raw, s) = [s EXCEPT !.pos = p + 4 + z, !.entries = Append(s.entries, e)]
  <2> DEFINE read == ReadEntry(raw, s.pos + 4)
  <2>1. I32(raw, s.pos) = z /\ ~ (s.pos + 4 > Len(raw)) /\ ~ (z <= 0)
    BY <1>2, <1>5, <1>8 DEF p
  <2>2. read.ok = TRUE /\ read.next = p + 4 + z /\ read.entry = e
    BY <1>7 DEF p
  <2>3. Turn(raw, s) = [s EXCEPT !.pos = read.next, !.entries = Append(s.entries, read.entry)]
    <3> HIDE DEF read
    <3>1. Turn(raw, s) = IF ~s.ok \/ s.pos + 4 > Len(raw) THEN s
                         ELSE IF I32(raw, s.pos) <= 0 THEN [s EXCEPT !.pos = s.pos + 4 - I32(raw, s.pos)]
                         ELSE IF read.ok THEN [s EXCEPT !.pos = read.next, !.entries = Append(s.entries, read.entry)]
                         ELSE [s EXCEPT !.ok = FALSE]
      BY DEF Turn, read
    <3> QED
      BY <2>1, <2>2, <3>1
  <2> HIDE DEF read
  <2> QED
    BY <2>2, <2>3
<1>10. p + Len(w \o Record(e)) = p + 4 + z
  BY <1>1, <1>2, <1>3, <1>4
<1> QED
  BY <1>1, <1>9, <1>10 DEF p, w, z

Sized(e) == BE(Len(Record(e)), 4) \o Record(e)

\* An entry with its size in front is a sequence of bytes, and not empty.
LEMMA SizedTyped ==
  ASSUME NEW e \in KeytabKeyEntry
  PROVE  Sized(e) \in Bytes /\ Len(Sized(e)) > 0
<1>1. Record(e) \in Bytes /\ Len(Record(e)) \in Nat
  <2>1. Record(e) \in Bytes
    BY RecordLayout, EmptySeq DEF Bytes
  <2> QED
    BY <2>1, LenProperties DEF Bytes
<1> DEFINE w == BE(Len(Record(e)), 4)
<1>2. w \in Bytes /\ Len(w) = 4
  BY <1>1, BE4
<1>3. Sized(e) = w \o Record(e)
  BY DEF Sized
<1> HIDE DEF w
<1>4. w \o Record(e) \in Bytes /\ Len(w \o Record(e)) = Len(w) + Len(Record(e))
  BY <1>1, <1>2, ByteConcat
<1> QED
  BY <1>1, <1>2, <1>3, <1>4

\* A prefix and the element after it are the next prefix.
LEMMA PrefixGrows ==
  ASSUME NEW S, NEW k \in Seq(S), NEW j \in 1..Len(k)
  PROVE  Append(SubSeq(k, 1, j - 1), k[j]) = SubSeq(k, 1, j)
<1>1. SubSeq(k, 1, j) = SubSeq(k, 1, j - 1) \o <<k[j]>>
  <2>1. Len(k) \in Nat /\ 1 \in 1..Len(k) /\ j \in 1..Len(k)
    BY LenProperties
  <2> QED
    BY <2>1, SubSeqRecursiveSecond
<1>2. SubSeq(k, 1, j - 1) \in Seq(S) /\ k[j] \in S
  <2>1. Len(k) \in Nat /\ \A i \in 1..(j - 1) : k[i] \in S
    BY LenProperties, ElementOfSeq
  <2> QED
    BY <2>1, SubSeqProperties, ElementOfSeq
<1> QED
  BY <1>1, <1>2, AppendIsConcat

\* Each entry written by Serialize is read back, in order, and nothing more.
LEMMA ParseSerialize ==
  ASSUME NEW k \in Seq(KeytabKeyEntry), \A i \in DOMAIN k : Len(Record(k[i])) \in Size31
  PROVE  Serialize(k) \in Bytes /\ Parse(Serialize(k)) = Parsed(k)
<1> DEFINE n == Len(k)
           s == [i \in DOMAIN k |-> Sized(k[i])]
           raw == Serialize(k)
           N == Len(raw)
<1>1. n \in Nat /\ DOMAIN k = 1..n /\ \A i \in 1..n : k[i] \in KeytabKeyEntry
  BY LenProperties, ElementOfSeq
<1>2. s \in Seq(Bytes) /\ Len(s) = n /\ \A i \in 1..n : s[i] = Sized(k[i]) /\ s[i] \in Bytes /\ Len(s[i]) > 0
  <2>1. \A i \in 1..n : s[i] = Sized(k[i]) /\ s[i] \in Bytes /\ Len(s[i]) > 0
    BY <1>1, SizedTyped
  <2>2. s \in [1..n -> Bytes]
    BY <1>1, <2>1
  <2> HIDE DEF s
  <2> QED
    BY <1>1, <2>1, <2>2, FunctionIsSeq
<1>3. raw = BE(Version, 2) \o FlattenSeq(s)
  BY DEF Serialize, Sized
<1> HIDE DEF n, s, raw
<1>4. PICK F : Joins(s, F)
  BY <1>1, <1>2, JoinsExists
<1>5. FlattenSeq(s) = F[n] /\ \A i \in 0..n : F[i] \in Bytes /\ Len(F[i]) \in Nat
  <2>1. FlattenSeq(s) = F[n] /\ \A i \in 0..n : F[i] \in Bytes
    BY <1>2, <1>4, FlattenJoins, JoinsTyped DEF Bytes
  <2> QED
    BY <2>1, LenProperties DEF Bytes
<1> DEFINE v == BE(Version, 2)
<1>6. v \in Bytes /\ Len(v) = 2 /\ Version \in Word16
  BY BE2 DEF Version, Word16
<1>7. n \in 0..n /\ F[n] \in Bytes
  BY <1>1, <1>5
<1>8. raw = v \o F[n]
  BY <1>3, <1>5
<1> HIDE DEF v
<1>9. raw \in Bytes /\ N = 2 + Len(F[n]) /\ N \in Nat
  <2>1. raw \in Bytes /\ Len(raw) = Len(v) + Len(F[n])
    BY <1>6, <1>7, <1>8, ByteConcat
  <2> QED
    BY <1>5, <1>6, <1>7, <2>1
<1>10. Holds(raw, 0, v) /\ Holds(raw, 2, F[n])
  <2>1. Holds(raw, 0, raw)
    BY <1>9, HoldsSelf
  <2>2. Holds(raw, 0, v) /\ Holds(raw, 0 + Len(v), F[n])
    BY <1>6, <1>7, <1>8, <1>9, <2>1, HoldsLast
  <2>3. 0 + Len(v) = 2
    BY <1>6
  <2> QED
    BY <2>2, <2>3
<1>11. U16(raw, 0) = Version
  BY <1>6, <1>9, <1>10, ReadU16 DEF v
<1>12. \A i \in 1..n : Holds(raw, 2 + Len(F[i - 1]), s[i])
  BY <1>2, <1>4, <1>9, <1>10, HoldsParts DEF Bytes
<1>13. ASSUME NEW i \in 1..n
       PROVE  i - 1 \in 0..n /\ i \in 0..n /\ F[i] = F[i - 1] \o s[i] /\ Len(F[i]) = Len(F[i - 1]) + Len(s[i])
  <2>1. i - 1 \in 0..n /\ i \in 0..n
    BY <1>1
  <2>2. F[i] = F[i - 1] \o s[i]
    BY <1>2, <1>4 DEF Joins
  <2>3. F[i - 1] \in Bytes /\ s[i] \in Bytes
    BY <1>2, <1>5, <2>1
  <2> QED
    BY <2>1, <2>2, <2>3, ByteConcat
<1>14. n <= Len(F[n])
  <2> DEFINE P == {j \in Nat : j <= n => j <= Len(F[j])}
  <2>1. 0 \in P
    <3>1. 0 \in 0..n
      BY <1>1
    <3> QED
      BY <1>5, <3>1
  <2>2. ASSUME NEW j \in P PROVE j + 1 \in P
    <3>1. SUFFICES ASSUME j + 1 <= n PROVE j + 1 <= Len(F[j + 1])
      OBVIOUS
    <3>2. j + 1 \in 1..n /\ (j + 1) - 1 = j /\ j \in 0..n /\ j <= Len(F[j])
      BY <1>1, <2>2, <3>1
    <3>3. Len(F[j + 1]) = Len(F[j]) + Len(s[j + 1])
      BY <1>13, <3>2
    <3>4. Len(s[j + 1]) > 0 /\ Len(s[j + 1]) \in Nat /\ Len(F[j]) \in Nat
      BY <1>2, <1>5, <3>2, LenProperties DEF Bytes
    <3> DEFINE x == Len(F[j])
               y == Len(s[j + 1])
    <3>5. Len(F[j + 1]) = x + y /\ x \in Nat /\ y \in Nat /\ y > 0 /\ j <= x /\ j \in Nat
      BY <3>2, <3>3, <3>4
    <3> HIDE DEF x, y
    <3> QED
      BY <3>5
  <2>3. P = Nat
    <3>1. P \in SUBSET Nat
      OBVIOUS
    <3> HIDE DEF P
    <3> QED
      BY <2>1, <2>2, <3>1, SetInduction
  <2>4. n \in P
    BY <1>1, <2>3
  <2> QED
    BY <1>1, <2>4
<1> DEFINE m(j) == IF j <= n THEN j ELSE n
           h == [j \in 0..N |-> [ok |-> TRUE, pos |-> 2 + Len(F[m(j)]), entries |-> SubSeq(k, 1, m(j))]]
<1>15. \A j \in 0..n : SubSeq(k, 1, j) \in Seq(KeytabKeyEntry)
  <2> TAKE j \in 0..n
  <2>1. \A i \in 1..j : k[i] \in KeytabKeyEntry
    BY <1>1
  <2> QED
    BY <1>1, <2>1, SubSeqProperties
<1>16. h \in [0..N -> State]
  <2>1. \A j \in 0..N : m(j) \in 0..n
    BY <1>1
  <2>2. \A j \in 0..N : [ok |-> TRUE, pos |-> 2 + Len(F[m(j)]), entries |-> SubSeq(k, 1, m(j))] \in State
    <3> HIDE DEF m
    <3> QED
      BY <1>5, <1>15, <2>1 DEF State
  <2> QED
    BY <2>2
<1>17. h[0] = Begin
  <2>1. 0 \in 0..N /\ m(0) = 0 /\ F[0] = <<>> /\ Len(<<>>) = 0
    BY <1>1, <1>4, <1>9, EmptySeq DEF Joins
  <2>2. SubSeq(k, 1, 0) = <<>>
    BY SubSeqEmpty
  <2>3. h[0] = [ok |-> TRUE, pos |-> 2 + Len(F[m(0)]), entries |-> SubSeq(k, 1, m(0))]
    BY <2>1
  <2> HIDE DEF h, m
  <2>4. 2 + Len(F[m(0)]) = 2 /\ SubSeq(k, 1, m(0)) = <<>>
    BY <2>1, <2>2
  <2> QED
    BY <2>3, <2>4 DEF Begin
<1>18. ASSUME NEW j \in 1..N PROVE h[j] = Turn(raw, h[j - 1])
  <2>1. j \in 0..N /\ j - 1 \in 0..N
    BY <1>9
  <2>2. h[j - 1] \in State /\ h[j - 1] = [ok |-> TRUE, pos |-> 2 + Len(F[m(j - 1)]), entries |-> SubSeq(k, 1, m(j - 1))]
    BY <1>16, <2>1
  <2>3. CASE j <= n
    <3>1. j \in 1..n /\ m(j) = j /\ m(j - 1) = j - 1
      BY <1>1, <2>3
    <3> DEFINE t == h[j - 1]
    <3>2. t \in State /\ t = [ok |-> TRUE, pos |-> 2 + Len(F[j - 1]), entries |-> SubSeq(k, 1, j - 1)]
      BY <2>2, <3>1
    <3>3. h[j] = [ok |-> TRUE, pos |-> 2 + Len(F[j]), entries |-> SubSeq(k, 1, j)]
      BY <2>1, <3>1
    <3> HIDE DEF t, h, m
    <3>4. k[j] \in KeytabKeyEntry /\ Len(Record(k[j])) \in Size31
      BY <1>1, <3>1
    <3>5. Holds(raw, t.pos, BE(Len(Record(k[j])), 4) \o Record(k[j]))
      BY <1>2, <1>12, <3>1, <3>2 DEF Sized
    <3>6. Turn(raw, t) = [ok |-> TRUE, pos |-> t.pos + Len(BE(Len(Record(k[j])), 4) \o Record(k[j])),
                          entries |-> Append(t.entries, k[j])]
      BY <1>9, <3>2, <3>4, <3>5, TurnReads
    <3>7. t.pos + Len(BE(Len(Record(k[j])), 4) \o Record(k[j])) = 2 + Len(F[j])
      <4>1. Len(F[j]) = Len(F[j - 1]) + Len(s[j]) /\ Len(F[j - 1]) \in Nat /\ Len(s[j]) \in Nat
        BY <1>2, <1>5, <1>13, <3>1, LenProperties DEF Bytes
      <4>2. s[j] = BE(Len(Record(k[j])), 4) \o Record(k[j])
        BY <1>2, <3>1 DEF Sized
      <4> DEFINE x == Len(F[j - 1])
                 y == Len(s[j])
      <4>3. t.pos = 2 + x /\ Len(F[j]) = x + y /\ x \in Nat /\ y \in Nat
        BY <3>2, <4>1
      <4> HIDE DEF x, y
      <4>4. t.pos + y = 2 + Len(F[j])
        BY <4>3
      <4> QED
        BY <4>2, <4>4 DEF y
    <3>8. Append(t.entries, k[j]) = SubSeq(k, 1, j)
      BY <1>1, <3>1, <3>2, PrefixGrows
    <3> QED
      BY <3>3, <3>6, <3>7, <3>8 DEF t
  <2>4. CASE ~ (j <= n)
    <3>1. m(j) = n /\ m(j - 1) = n
      BY <1>1, <2>4
    <3> DEFINE t == h[j - 1]
    <3>2. t = [ok |-> TRUE, pos |-> 2 + Len(F[n]), entries |-> SubSeq(k, 1, n)]
      BY <2>2, <3>1
    <3>3. h[j] = t
      BY <2>1, <3>1, <3>2
    <3> HIDE DEF t, h, m
    <3>4. t.pos + 4 > Len(raw)
      BY <1>9, <3>2
    <3>5. Turn(raw, t) = t
      BY <3>4 DEF Turn
    <3> QED
      BY <3>3, <3>5 DEF t
  <2> QED
    BY <2>3, <2>4
<1>19. Turns(raw) = h
  <2> HIDE DEF h, m
  <2> QED
    BY <1>9, <1>16, <1>17, <1>18, TurnsAre
<1>20. h[N] = [ok |-> TRUE, pos |-> 2 + Len(F[n]), entries |-> k]
  <2>1. N \in 0..N /\ m(N) = n
    BY <1>1, <1>7, <1>5, <1>9, <1>14
  <2>2. SubSeq(k, 1, n) = k
    BY SubSeqFull DEF n
  <2> QED
    BY <2>1, <2>2
<1> HIDE DEF h
<1>21. Turns(raw)[N].ok = TRUE /\ Turns(raw)[N].entries = k
  BY <1>19, <1>20
<1>22. ~ (N < 2)
  BY <1>5, <1>7, <1>9
<1>23. Parse(raw) = Parsed(k)
  BY <1>11, <1>21, <1>22 DEF Parse
<1> QED
  BY <1>9, <1>23 DEF raw

-----------------------------------------------------------------------------
(* The invariant of the cache *)

InFlight == {"waiting", "inserted", "returned"}

Realm == Server(entries[1])

\* What a kinit builds: a ticket of the realm that lasts as long as its caller asks for.
GoodTicket(t) ==
    /\ t.server = Realm
    /\ t.start \in Nat /\ t.end \in Nat
    /\ t.end <= t.start + RenewLifetime

TgtInv ==
    \A c \in Caller : phase[c] \in InFlight =>
        /\ GoodTicket(tgt[c])
        /\ c \in Renewer => tgt[c].end = tgt[c].start + RenewLifetime

\* One ticket at a time is cached; it is that of cachedBy, while that call is under way.
CacheInv ==
    /\ \A t \in tickets : GoodTicket(t)
    /\ \A t, u \in tickets : t = u
    /\ cachedBy \in Caller /\ phase[cachedBy] \in {"inserted", "returned"}
           => \A t \in tickets : t = tgt[cachedBy]

\* Requests come only when the metrics are there.
StartInv ==
    ~serving => /\ cachedBy \in {None, Boot}
                /\ \A r \in Renewer : phase[r] = "idle"

\* Only the start-up kinit is ever spawned or done.
BootInv == \A r \in Renewer : phase[r] \notin {"spawned", "done"}

\* tgt is a function on the callers.
TgtFunction == tgt = [c \in Caller |-> tgt[c]]

Inv == TypeOK /\ TgtFunction /\ TgtInv /\ CacheInv /\ StartInv /\ BootInv /\ GaugeExplained

-----------------------------------------------------------------------------
(* The invariant *)

LEMMA InitInv == Init => Inv
<1> SUFFICES ASSUME Init PROVE Inv
  OBVIOUS
<1> USE TicketAssumption DEF Caller, InFlight
<1>1. TypeOK
  <2>0. now \in 0..MaxClock /\ gauge \in Nat
    BY DEF Init
  <2>1. serving \in BOOLEAN
    BY DEF Init
  <2>2. phase \in [Caller -> {"spawned", "idle", "waiting", "inserted", "returned", "done"}]
    BY DEF Init
  <2>3. \A c \in Caller : (holder = c) <=> (phase[c] = "inserted")
    BY DEF Init
  <2> QED
    BY <2>0, <2>1, <2>2, <2>3 DEF Init, TypeOK
<1>2. TgtFunction /\ TgtInv
  BY DEF Init, TgtFunction, TgtInv
<1>3. CacheInv /\ StartInv /\ BootInv /\ GaugeExplained
  BY DEF Init, CacheInv, StartInv, BootInv, GaugeExplained
<1> QED
  BY <1>1, <1>2, <1>3 DEF Inv

\* A kinit that begins: nothing but its phase and its own ticket changes.
LEMMA BeginInv ==
  ASSUME Inv, NEW c \in Caller, phase[c] \in {"spawned", "idle"}, c \in Renewer => serving,
         NEW t, GoodTicket(t), c \in Renewer => t.end = t.start + RenewLifetime,
         phase' = [phase EXCEPT ![c] = "waiting"], tgt' = [tgt EXCEPT ![c] = t],
         UNCHANGED <<entries, vault, now, serving, tickets, principal, holder, gauge, cachedBy, gaugeBy>>
  PROVE  Inv'
<1> USE TicketAssumption DEF Caller, InFlight
<1>1. TypeOK'
  BY DEF Inv, TypeOK
<1>2. TgtFunction' /\ TgtInv'
  BY DEF Inv, TypeOK, TgtFunction, TgtInv, GoodTicket, Realm, Server
<1>3. CacheInv'
  BY DEF Inv, TypeOK, TgtFunction, CacheInv, GoodTicket, Realm, Server
<1>4. StartInv' /\ BootInv'
  BY DEF Inv, TypeOK, StartInv, BootInv
<1>5. GaugeExplained'
  BY DEF Inv, TypeOK, GaugeExplained
<1> QED
  BY <1>1, <1>2, <1>3, <1>4, <1>5 DEF Inv

\* One step, from a state in which the keytab reads back.
LEMMA NextInv == Inv /\ KeytabReadsBack /\ [Next]_vars => Inv'
<1> SUFFICES ASSUME Inv, KeytabReadsBack, [Next]_vars PROVE Inv'
  OBVIOUS
<1> USE TicketAssumption DEF Caller, InFlight
<1>1. CASE BootKinit
  <2> DEFINE t == Ticket(entries[1], BootLifetime)
  <2>1. GoodTicket(t)
    BY DEF GoodTicket, Ticket, Realm, Inv, TypeOK
  <2> QED
    BY <1>1, <2>1, BeginInv DEF BootKinit
<1>2. ASSUME NEW r \in Renewer, RenewTgt(r) PROVE Inv'
  <2> DEFINE t == Ticket(ParsedKeytab.entries[1], RenewLength)
  <2>1. ParsedKeytab.entries = entries
    BY DEF KeytabReadsBack, Parsed
  <2>2. GoodTicket(t) /\ t.end = t.start + RenewLifetime
    BY <2>1 DEF GoodTicket, Ticket, Realm, Inv, TypeOK, RenewLength
  <2> QED
    BY <1>2, <2>2, BeginInv DEF RenewTgt
<1>3. CASE StartMetrics
  <2>1. TypeOK' /\ TgtFunction' /\ BootInv'
    BY <1>3 DEF StartMetrics, Inv, TypeOK, TgtFunction, BootInv
  <2>2. TgtInv' /\ CacheInv' /\ StartInv'
    BY <1>3 DEF StartMetrics, Inv, TgtInv, CacheInv, StartInv, GoodTicket, Realm
  <2>3. GaugeExplained'
    BY <1>3 DEF StartMetrics, Inv, StartInv, GaugeExplained
  <2> QED
    BY <2>1, <2>2, <2>3 DEF Inv
<1>4. CASE Tick
  BY <1>4 DEF Tick, Inv, TypeOK, TgtFunction, TgtInv, CacheInv, StartInv, BootInv, GaugeExplained,
     GoodTicket, Realm
<1>5. ASSUME NEW c \in Caller, Insert(c) PROVE Inv'
  <2>1. TypeOK' /\ TgtFunction' /\ BootInv'
    BY <1>5 DEF Insert, Inv, TypeOK, TgtFunction, BootInv
  <2>2. TgtInv' /\ StartInv'
    BY <1>5 DEF Insert, Inv, TypeOK, TgtInv, StartInv, GoodTicket, Realm
  <2>3. tickets' = {tgt[c]} /\ GoodTicket(tgt[c])
    BY <1>5 DEF Insert, Inv, TgtInv, CacheInv, GoodTicket
  <2>4. CacheInv'
    BY <1>5, <2>3 DEF Insert, CacheInv, GoodTicket, Realm
  <2>5. GaugeExplained'
    BY <1>5 DEF Insert, Inv, TypeOK, GaugeExplained
  <2> QED
    BY <2>1, <2>2, <2>4, <2>5 DEF Inv
<1>6. ASSUME NEW c \in Caller, SetPrincipal(c) PROVE Inv'
  <2>1. TypeOK' /\ TgtFunction' /\ BootInv'
    BY <1>6 DEF SetPrincipal, Inv, TypeOK, TgtFunction, BootInv
  <2>2. TgtInv' /\ CacheInv' /\ StartInv'
    BY <1>6 DEF SetPrincipal, Inv, TypeOK, TgtInv, CacheInv, StartInv, GoodTicket, Realm
  <2>3. GaugeExplained'
    BY <1>6 DEF SetPrincipal, Inv, TypeOK, GaugeExplained
  <2> QED
    BY <2>1, <2>2, <2>3 DEF Inv
<1>7. ASSUME NEW r \in Renewer, SetGauge(r) PROVE Inv'
  <2> USE DEF SetGauge, Answered
  <2>1. TypeOK' /\ TgtFunction' /\ BootInv'
    BY <1>7 DEF Inv, TypeOK, TgtFunction, TgtInv, GoodTicket, BootInv
  <2>2. TgtInv' /\ CacheInv' /\ StartInv'
    BY <1>7 DEF Inv, TypeOK, TgtFunction, TgtInv, CacheInv, StartInv, GoodTicket, Realm
  <2>3. GaugeExplained'
    BY <1>7 DEF Inv, TypeOK, CacheInv, GaugeExplained
  <2> QED
    BY <2>1, <2>2, <2>3 DEF Inv
<1>8. ASSUME NEW r \in Renewer, Drop(r) PROVE Inv'
  <2>1. TypeOK' /\ TgtFunction' /\ BootInv'
    BY <1>8 DEF Drop, Inv, TypeOK, TgtFunction, BootInv
  <2>2. TgtInv' /\ CacheInv' /\ StartInv'
    BY <1>8 DEF Drop, Inv, TypeOK, TgtFunction, TgtInv, CacheInv, StartInv, GoodTicket, Realm
  <2>3. GaugeExplained'
    BY <1>8 DEF Drop, Inv, TypeOK, GaugeExplained
  <2> QED
    BY <2>1, <2>2, <2>3 DEF Inv
<1>9. CASE UNCHANGED vars
  BY <1>9 DEF vars, Inv, TypeOK, TgtFunction, TgtInv, CacheInv, StartInv, BootInv, GaugeExplained,
     GoodTicket, Realm, Server
<1> QED
  BY <1>1, <1>2, <1>3, <1>4, <1>5, <1>6, <1>7, <1>8, <1>9 DEF Next

-----------------------------------------------------------------------------
(* Theorems *)

\* Whatever entries the kernel is built with, the secret in the Vault reads back as those
\* entries at any time: the codec gives them back, and nothing rewrites the secret.
THEOREM KeytabReadsBackHolds == Spec => []KeytabReadsBack
<1> DEFINE Secret == entries \in Keytabs /\ vault = Hex(Serialize(entries))
<1>1. Init => Secret
  BY DEF Init
<1>2. Secret /\ [Next]_vars => Secret'
  BY DEF Next, vars, BootKinit, StartMetrics, Tick, Insert, SetPrincipal, RenewTgt, SetGauge, Answered, Drop
<1>3. Secret => KeytabReadsBack
  <2> SUFFICES ASSUME Secret PROVE Parse(Unhex(Hex(Serialize(entries)))) = Parsed(entries)
    BY DEF KeytabReadsBack, ParsedKeytab
  <2>1. entries \in Seq(KeytabKeyEntry) /\ \A i \in DOMAIN entries : Len(Record(entries[i])) \in Size31
    BY KeytabAssumption
  <2>2. Serialize(entries) \in Bytes /\ Parse(Serialize(entries)) = Parsed(entries)
    BY <2>1, ParseSerialize
  <2> QED
    BY <2>2, UnhexHex
<1> QED
  BY <1>1, <1>2, <1>3, PTL DEF Spec

\* The cache keeps to its types, and the tickets are locked
\* exactly while some kinit stands between its two locks.
THEOREM TypeCorrect == Spec => []TypeOK
<1>1. Inv => TypeOK
  BY DEF Inv
<1> QED
  BY <1>1, InitInv, NextInv, KeytabReadsBackHolds, PTL DEF Spec

\* The gauge and the cached ticket disagree only for the
\* reasons that GaugeExplained names, whatever the renewals do.
THEOREM GaugeExplainedHolds == Spec => []GaugeExplained
<1>1. Inv => GaugeExplained
  BY DEF Inv
<1> QED
  BY <1>1, InitInv, NextInv, KeytabReadsBackHolds, PTL DEF Spec

\* What a step does to the end of the cached ticket, whichever lifetimes are configured.
LEMMA StaleStep ==
  ASSUME Inv, [Next]_vars
  PROVE  [\A t \in tickets, u \in tickets' :
             t.server = u.server /\ u.end < t.end
             => u.start < t.start \/ cachedBy' = Boot]_vars
<1> SUFFICES ASSUME NEW t \in tickets, NEW u \in tickets', u.end < t.end, Next, cachedBy' # Boot
             PROVE  u.start < t.start
  BY DEF vars
<1>1. t.end <= t.start + RenewLifetime /\ t.end \in Nat /\ t.start \in Nat
  BY DEF Inv, CacheInv, GoodTicket
<1>2. ASSUME tickets' = tickets PROVE FALSE
  BY <1>1, <1>2 DEF Inv, CacheInv
<1>3. PICK c \in Caller : Insert(c)
  BY <1>2 DEF Next, BootKinit, StartMetrics, Tick, SetPrincipal, RenewTgt, SetGauge, Answered, Drop
<1>4. c \in Renewer /\ (u = tgt[c] \/ u \in tickets)
  BY <1>3 DEF Insert, Caller
<1>5. CASE u \in tickets
  BY <1>1, <1>5 DEF Inv, CacheInv
<1>6. CASE u = tgt[c]
  <2>1. u.end = u.start + RenewLifetime /\ u.start \in Nat /\ u.end \in Nat
    BY <1>3, <1>4, <1>6 DEF Insert, Inv, TgtInv, GoodTicket, Caller, InFlight
  <2> QED
    BY <1>1, <2>1, TicketAssumption
<1> QED
  BY <1>4, <1>5, <1>6

\* A renewal never shortens the cached ticket, save one that was overtaken while it waited.
THEOREM ShortenedOnlyByStaleHolds == Spec => ShortenedOnlyByStale
<1>1. Inv /\ [Next]_vars
      => [\A t \in tickets, u \in tickets' :
             t.server = u.server /\ u.end < t.end
             => u.start < t.start \/ cachedBy' = Boot]_vars
  BY StaleStep
<1> QED
  BY <1>1, InitInv, NextInv, KeytabReadsBackHolds, PTL DEF Spec, ShortenedOnlyByStale
=============================================================================
