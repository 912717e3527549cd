------------------------------- MODULE BitMap -------------------------------
(***************************************************************************)
(* BitMap::bitcpy and the text encoding of BinaryToUTF8, on real bytes.    *)
(*                                                                         *)
(* An array of bytes is a function from 0 .. size - 1.  The least          *)
(* significant bit of a byte is its first one for BitMap, and its last one *)
(* for BinaryToUTF8.                                                       *)
(***************************************************************************)
EXTENDS Naturals, Sequences

CONSTANT Beyond       \* what a byte past the end of an array reads as

Byte == 0 .. 255

\* What the constants have to be.
BeyondAssumption == Beyond \in Byte

Low(value, n) == value % 2 ^ n

ByteAt(array, i) == IF i \in DOMAIN array THEN array[i] ELSE Beyond

GetBit(array, i) == (array[i \div 8] \div 2 ^ (i % 8)) % 2

\* The eight bits from bit p on, out of two bytes (the second is read even
\* where no bit of it is used).
Window(source, p) ==
    (ByteAt(source, p \div 8) \div 2 ^ (p % 8)
        + ByteAt(source, (p \div 8) + 1) * 2 ^ (8 - (p % 8))) % 256

\* byte with its n bits from bit p on replaced by the low bits of value.
Put(byte, p, n, value) ==
    Low(byte, p) + Low(value, n) * 2 ^ p + (byte \div 2 ^ (p + n)) * 2 ^ (p + n)

(***************************************************************************)
(* bitcpy: bits up to a byte boundary of dest, then whole bytes, then the  *)
(* bits that are left.                                                     *)
(***************************************************************************)
Bitcpy(dest, destOffset, source, sourceOffset, length) ==
    LET first  == destOffset \div 8
        offset == destOffset % 8
        start  == IF offset = 0 THEN 0
                  ELSE IF 8 - offset < length THEN 8 - offset ELSE length
        body   == IF offset = 0 THEN first ELSE first + 1
        full   == (length - start) \div 8
        ending == (length - start) % 8
        From(i) == Window(source, sourceOffset + start + 8 * (i - body))
    IN  [i \in DOMAIN dest |->
            IF i = first /\ start # 0
            THEN Put(dest[i], offset, start, Window(source, sourceOffset))
            ELSE IF i \in body .. body + full - 1 THEN From(i)
            ELSE IF i = body + full /\ ending # 0 THEN Put(dest[i], 0, ending, From(i))
            ELSE dest[i]]

-----------------------------------------------------------------------------
(***************************************************************************)
(* BinaryToUTF8::encode.  The bits go out in chunks of seven, one to a     *)
(* byte.  A chunk of zeros would end the name: it goes together with the   *)
(* next chunk into a character of two bytes.  Ones pad the end.            *)
(***************************************************************************)
NumEncodedBytes(length) == (length + 6) \div 7

\* The bytes of the input, a last one of fewer bits (its low ones) and
\* everything after it padded.
Padded(input, length, i) ==
    LET left == length % 8
    IN  IF i < length \div 8 THEN input[i]
        ELSE IF i = length \div 8 /\ left # 0 THEN (Low(input[i], left) + 1) * 2 ^ (8 - left) - 1
        ELSE 255

Chunk(input, length, c) ==
    LET p == 7 * c
        two == Padded(input, length, p \div 8) * 256 + Padded(input, length, (p \div 8) + 1)
    IN  Low(two \div 2 ^ (9 - (p % 8)), 7)

\* Bug: no chunk gets the longer form.
BugEncode(input, length) ==
    [c \in 1 .. NumEncodedBytes(length) |-> Chunk(input, length, c - 1)]

Encode(input, length) ==
    LET chunks == NumEncodedBytes(length)
        next(c) == Chunk(input, length, c + 1)
        from[c \in 0 .. chunks + 1] ==
            IF c >= chunks THEN <<>>
            ELSE IF Chunk(input, length, c) = 0
            THEN <<194 + (next(c) \div 64), 128 + (next(c) % 64)>> \o from[c + 2]
            ELSE <<Chunk(input, length, c)>> \o from[c + 1]
    IN  from[0]

(***************************************************************************)
(* decode, into size bytes.  Whole bytes come out; the byte the bits that  *)
(* are left make lies past the end of the array and is left out here.      *)
(***************************************************************************)
Chunks(text) ==
    LET from[i \in 1 .. Len(text) + 1] ==
            IF i > Len(text) THEN <<>>
            ELSE IF text[i] >= 192 /\ i < Len(text)
            THEN <<0, (text[i] % 2) * 64 + (text[i + 1] % 64)>> \o from[i + 2]
            ELSE <<text[i] % 128>> \o from[i + 1]
    IN  from[1]

Decode(text, size) ==
    LET chunks == Chunks(text)
        At(c) == IF c < Len(chunks) THEN chunks[c + 1] ELSE 0
    IN  [i \in 0 .. size - 1 |->
            LET p == 8 * i
            IN  ((At(p \div 7) * 128 + At((p \div 7) + 1)) \div 2 ^ (6 - (p % 7))) % 256]
=============================================================================
