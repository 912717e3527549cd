------------------------------ MODULE Address ------------------------------
(***************************************************************************)
(* A public address: two halves of three bytes.  Each ends in a checksum   *)
(* of its other nibbles, by which nodes know each other; a shift draws a   *)
(* new first half and moves the old one back.                              *)
(***************************************************************************)
EXTENDS Naturals, Sequences

Nibbles(byte) == (byte \div 16) + (byte % 16)

ComputeChecksum(half) == (Nibbles(half[1]) + Nibbles(half[2]) + (half[3] \div 16)) % 16

\* bytes, the partial value in bit 5 (mask 0x20) of the first one if there is one.
SetPartial(byte, partial) == byte - ((byte \div 32) % 2) * 32 + partial * 32

WithChecksum(half) == [half EXCEPT ![3] = (@ \div 16) * 16 + ComputeChecksum(half)]

\* Bug: the partial value is put in after the checksum.
BugHalf(bytes, partials) ==
    {[WithChecksum(bytes) EXCEPT ![1] = SetPartial(@, p)] : p \in partials}
        \cup IF partials = {} THEN {WithChecksum(bytes)} ELSE {}

Half(bytes, partials) ==
    {WithChecksum([bytes EXCEPT ![1] = SetPartial(@, p)]) : p \in partials}
        \cup IF partials = {} THEN {WithChecksum(bytes)} ELSE {}

\* The addresses generateWithPartial and shiftWithPartial can make of these
\* random bytes.
Generate(random, partials) ==
    {<<h, WithChecksum(r)>> : h \in UNION {Half(r, partials) : r \in random}, r \in random}

\* Bug: the new half goes to the end.
BugShifted(address, random, partials) ==
    {<<address[1], h>> : h \in UNION {Half(r, partials) : r \in random}} \ {address}

Shifted(address, random, partials) ==
    {<<h, address[1]>> : h \in UNION {Half(r, partials) : r \in random}} \ {address}

\* getPartialValue, moved down to the bit the radios look at.
PartialValue(address) == (address[1][1] \div 32) % 2

IsShift(address, other) == address[2] = other[1]

VerifyChecksum(address) ==
    \A half \in {address[1], address[2]} : half[3] % 16 = ComputeChecksum(half)
=============================================================================
