------------------------------- MODULE Keytab -------------------------------
(***************************************************************************)
(* The keytab codec of src/src/kerberos.rs: Keytab::serialize and          *)
(* Keytab::parse over sequences of bytes, and the hexadecimal form in      *)
(* which src/src/security.rs keeps a keytab as a Vault secret.             *)
(*                                                                         *)
(* A name is the sequence of its bytes and a principal the sequence of the *)
(* components that "/" separates: the codec sees them in no other way.     *)
(* Names are valid UTF-8, so the lossy decoding leaves them alone.         *)
(***************************************************************************)
EXTENDS Integers, Sequences, SequencesExt

Version == 1282     \* 0x0502

-----------------------------------------------------------------------------
\* EncryptionType and its two conversions.
Codes == [Des3CbcSha1 |-> 16, Aes128CtsHmacSha196 |-> 17, Aes256CtsHmacSha196 |-> 18, ArcfourHmac |-> 23]

FromI16(v) ==
    IF \E name \in DOMAIN Codes : Codes[name] = v
    THEN [kind |-> CHOOSE name \in DOMAIN Codes : Codes[name] = v, code |-> 0]
    ELSE [kind |-> "Unknown", code |-> v]
ToI16(t) == IF t.kind = "Unknown" THEN t.code ELSE Codes[t.kind]

\* What an entry may hold for its widths to be enough: names and keys whose length fits 16
\* bits, numbers of 32 bits, an unknown encryption type only where the code has no name for it.
Octet == {n \in Nat : n < 256}
Int16 == {n \in Int : -32768 <= n /\ n < 32768}
Word16 == {n \in Nat : n < 65536}
Size31 == {n \in Nat : n \div 65536 < 32768}
Word32 == {n \in Nat : n \div 65536 < 65536}
Name == {b \in Seq(Octet) : Len(b) \in Word16}
EncryptionType ==
    [kind : DOMAIN Codes, code : {0}]
    \cup [kind : {"Unknown"}, code : {c \in Int16 : \A name \in DOMAIN Codes : Codes[name] # c}]
KeytabKeyEntry ==
    [parts : {ps \in Seq(Name) : Len(ps) \in Word16}, realm : Name, timestamp : Word32, kvno : Word32,
     enctype : EncryptionType, key : Name]

-----------------------------------------------------------------------------
\* Big-endian integers of w bytes, in two's complement when negative.
BE(n, w) == [i \in 1..w |-> (n \div 256 ^ (w - i)) % 256]

Prefixed(b) == BE(Len(b), 2) \o b

KeepLowByte(kvno) == BE(kvno % 256, 4)                             \* mutated form
Kvno32(kvno) == BE(kvno, 4)

Record(e) ==
    BE(Len(e.parts), 2) \o Prefixed(e.realm)
    \o FlattenSeq([i \in DOMAIN e.parts |-> Prefixed(e.parts[i])])
    \o BE(1, 4) \o BE(e.timestamp, 4) \o <<e.kvno % 256>> \o BE(ToI16(e.enctype), 2)
    \o Prefixed(e.key) \o Kvno32(e.kvno)

Serialize(entries) ==
    BE(Version, 2) \o FlattenSeq([i \in DOMAIN entries |-> BE(Len(Record(entries[i])), 4) \o Record(entries[i])])

-----------------------------------------------------------------------------
(***************************************************************************)
(* Reading at position p, the number of bytes consumed.  Bytes beyond the  *)
(* end read as 0: positions only grow, so a field that was cut short shows *)
(* in an end of the entry that lies beyond the end of the buffer.          *)
(***************************************************************************)
Byte(raw, i) == IF i \in DOMAIN raw THEN raw[i] ELSE 0
U16(raw, p) == 256 * Byte(raw, p + 1) + Byte(raw, p + 2)
I16(raw, p) == IF U16(raw, p) < 32768 THEN U16(raw, p) ELSE U16(raw, p) - 65536
U32(raw, p) == 65536 * U16(raw, p) + U16(raw, p + 2)
I32(raw, p) == 65536 * I16(raw, p) + U16(raw, p + 2)
Field(raw, p, n) == SubSeq(raw, p + 1, p + n)

Corrupt == [ok |-> FALSE]
Parsed(entries) == [ok |-> TRUE, entries |-> entries]

\* The key version of 32 bits counts when four more bytes follow and it is not 0.
Kvno(raw, p, vno8) == IF p + 4 <= Len(raw) /\ U32(raw, p) > 0 THEN U32(raw, p) ELSE vno8
AfterKvno(raw, p) == IF p + 4 <= Len(raw) THEN p + 4 ELSE p

\* Where each component starts, and at count what follows the last one.
Starts(raw, first, count) ==
    LET start[i \in 0..count] ==
            IF i = 0 THEN first ELSE start[i - 1] + 2 + U16(raw, start[i - 1])
    IN  start

\* One record, without its size: the entry and the position after it.
ReadEntry(raw, p) ==
    LET count    == U16(raw, p)
        realmLen == U16(raw, p + 2)
        start    == Starts(raw, p + 4 + realmLen, count)
        fixed    == start[count]        \* name type, timestamp, vno8, enctype, key length
        end      == fixed + 13 + U16(raw, fixed + 11)
    IN  IF end > Len(raw) THEN Corrupt
        ELSE [ok    |-> TRUE,
              next  |-> AfterKvno(raw, end),
              entry |-> [parts |-> [i \in 1..count |->
                                        Field(raw, start[i - 1] + 2, U16(raw, start[i - 1]))],
                         realm |-> Field(raw, p + 4, realmLen),
                         timestamp |-> U32(raw, fixed + 4),
                         kvno |-> Kvno(raw, end, Byte(raw, fixed + 9)),
                         enctype |-> FromI16(I16(raw, fixed + 9)),
                         key |-> Field(raw, fixed + 13, U16(raw, fixed + 11))]]

\* One turn of the loop: a size that cannot be read ends it, one that is not positive skips a hole.
Turn(raw, s) ==
    LET size == I32(raw, s.pos)
        read == ReadEntry(raw, s.pos + 4)
    IN  IF ~s.ok \/ s.pos + 4 > Len(raw) THEN s
        ELSE IF size <= 0 THEN [s EXCEPT !.pos = s.pos + 4 - size]
        ELSE IF read.ok THEN [s EXCEPT !.pos = read.next, !.entries = Append(s.entries, read.entry)]
        ELSE [s EXCEPT !.ok = FALSE]

Turns(raw) ==
    LET after[n \in 0..Len(raw)] ==
            IF n = 0 THEN [ok |-> TRUE, pos |-> 2, entries |-> <<>>] ELSE Turn(raw, after[n - 1])
    IN  after

\* A turn moves on by a byte at least, so Len(raw) turns reach the end.
Parse(raw) ==
    LET done == Turns(raw)[Len(raw)]
    IN  IF Len(raw) < 2 \/ U16(raw, 0) # Version \/ ~done.ok THEN Corrupt ELSE Parsed(done.entries)

-----------------------------------------------------------------------------
\* Two hexadecimal digits per byte.
Hex(bytes) == FlattenSeq([i \in DOMAIN bytes |-> <<bytes[i] \div 16, bytes[i] % 16>>])
Unhex(digits) == [i \in 1..(Len(digits) \div 2) |-> 16 * digits[2 * i - 1] + digits[2 * i]]

=============================================================================
