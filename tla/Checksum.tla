------------------------------ MODULE Checksum ------------------------------
(***************************************************************************)
(* The checksum of a packet's payload (core/utilities.cpp).  A byte is the *)
(* set of its bits 0 .. 7 that are set, a 16-bit register the set of its   *)
(* bits 0 .. 15, the data a sequence of bytes.                             *)
(***************************************************************************)
EXTENDS Naturals, Sequences, FiniteSets, FiniteSetsExt

Byte == 0 .. 7
Word == 0 .. 15

CRC16 == {15, 2, 0}  \* 0x8005

\* The k-th bit that is read, k = 1, 2, ...: bytes in order, each from its least
\* significant bit; zeros are read behind the end of the data
BitRead(data, k) ==
    k <= 8 * Len(data) /\ (k - 1) % 8 \in data[(k - 1) \div 8 + 1]

Shifted(out, bit) == {i + 1 : i \in out \ {15}} \cup (IF bit THEN {0} ELSE {})

\* Mutant of ShiftIn: bit_flag is taken after the shift
MutantFlagAfterShift(out, bit) ==
    LET s == Shifted(out, bit) IN IF 15 \in s THEN SymDiff(s, CRC16) ELSE s

\* Mutant of ShiftIn: the polynomial is never applied
MutantNoFeedback(out, bit) == Shifted(out, bit)

\* One turn of either loop: bit_flag is the bit that is shifted out
ShiftIn(out, bit) ==
    LET s == Shifted(out, bit) IN IF 15 \in out THEN SymDiff(s, CRC16) ELSE s

\* The register before and after every turn
Register(data) ==
    LET out[k \in 0 .. 8 * Len(data) + 16] ==
          IF k = 0 THEN {} ELSE ShiftIn(out[k - 1], BitRead(data, k))
    IN  out

\* The register after the data and the 16 bits that push it out, reversed
calc_checksum(data) == {15 - i : i \in Register(data)[8 * Len(data) + 16]}

verify_checksum(data, checksum) == checksum = calc_checksum(data)

-----------------------------------------------------------------------------
(***************************************************************************)
(* Reference: polynomials over GF(2), as sets of exponents.                *)
(***************************************************************************)
Generator == {16, 15, 2, 0}

\* The first bit read is the coefficient of the highest power
Polynomial(data) ==
    {8 * Len(data) - k : k \in {j \in 1 .. 8 * Len(data) : BitRead(data, j)}}

TimesGenerator(q) ==
    {e \in 0 .. Max(q \cup {0}) + 16 :
        Cardinality({i \in q : \E g \in Generator : i + g = e}) % 2 = 1}

\* n bytes of which the first bit that is read is set, and no other
OneBit(n) == [j \in 1 .. n |-> IF j = 1 THEN {0} ELSE {}]

\* r is the remainder of the data times x^16: the difference is a multiple of
\* the generator
IsRemainder(r, data) ==
    \E q \in SUBSET (0 .. 8 * Len(data) - 1) :
        TimesGenerator(q) = SymDiff({e + 16 : e \in Polynomial(data)}, r)
=============================================================================
