------------------------------- MODULE Varint -------------------------------
(***************************************************************************)
(* The variable-length integers of session/src/varint.rs: the two top bits *)
(* of the first byte say whether the number takes 1, 2, 4 or 8 bytes.      *)
(* ByteBits is 8 in the code; a smaller byte lets TLC reach every length   *)
(* with small numbers.  A u32 has then 4 * ByteBits bits.                  *)
(***************************************************************************)
EXTENDS Integers, Sequences

CONSTANT ByteBits

ASSUME ByteAssumption == ByteBits \in Nat /\ ByteBits >= 2

VARINT_U8_MAX == 2^(ByteBits - 2) - 1
VARINT_U16_MAX == 2^(2 * ByteBits - 2) - 1
VARINT_U32_MAX == 2^(4 * ByteBits - 2) - 1

Byte == 0 .. (2^ByteBits - 1)

\* varu64_len, varusize_len and varu32_len.
varu_len(value) ==
    IF value <= VARINT_U16_MAX
    THEN IF value <= VARINT_U8_MAX THEN 1 ELSE 2
    ELSE IF value <= VARINT_U32_MAX THEN 4 ELSE 8

\* The n big-endian bytes of a number, and the number that bytes stand for.
ToBeBytes(value, n) == [k \in 1..n |-> (value \div 2^(ByteBits * (n - k))) % 2^ByteBits]

FromBeBytes(bytes) ==
    LET value[k \in 0..Len(bytes)] ==
            IF k = 0 THEN 0 ELSE value[k - 1] * 2^ByteBits + bytes[k]
    IN value[Len(bytes)]

\* The tag goes into the two top bits of the first byte.
Tagged(tag, bytes) == [bytes EXCEPT ![1] = @ + tag * 2^(ByteBits - 2)]

\* varu64_write, varusize_write and varu32_write.
varu_write(value) ==
    LET n == varu_len(value)
        tag == CASE n = 1 -> 0 [] n = 2 -> 1 [] n = 4 -> 2 [] n = 8 -> 3
    IN Tagged(tag, ToBeBytes(value, n))

\* varu64_try_read and the like at position i of buf, for a type of the given width in bytes:
\* whether there is a number, which one, and the position after it.  The tag of an 8-byte
\* number is not taken off, so that none fits a u32.
varu_try_read(buf, i, width) ==
    LET tag == buf[i] \div 2^(ByteBits - 2)
        n == 2^tag
        raw == FromBeBytes(SubSeq(buf, i, i + n - 1))
        value == IF tag = 3 THEN raw ELSE raw % 2^(n * ByteBits - 2)
    IN IF i > Len(buf) \/ i + n - 1 > Len(buf)
       THEN [ok |-> FALSE, value |-> 0, next |-> i]
       ELSE [ok |-> value < 2^(width * ByteBits), value |-> value, next |-> i + n]
=============================================================================
