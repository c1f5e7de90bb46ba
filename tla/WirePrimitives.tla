--------------------------- MODULE WirePrimitives ---------------------------
(***************************************************************************)
(* Numbers as protobuf bytes: wire/primitives.rs of wrkr-grpc, and the     *)
(* integers of the bytes crate.                                            *)
(*                                                                         *)
(* The widths of words, bytes and varint groups are parameters: a u64 has  *)
(* WordBits bits, a u32 half of them, a byte GroupBits + 1.  Bytes are a   *)
(* sequence of numbers.  A reader takes the bytes that are left and        *)
(* returns what it read and the rest, or nothing.                          *)
(***************************************************************************)
EXTENDS Integers, Sequences, FiniteSets, SequencesExt

CONSTANTS
    WordBits,   \* bits of u64 and i64: 64
    GroupBits   \* bits of a number in a byte of a varint: 7

ASSUME WidthAssumption ==
    /\ WordBits \in Nat \ {0} /\ GroupBits \in Nat \ {0}
    /\ WordBits % (2 * (GroupBits + 1)) = 0

\* Powers of two, for shifts.
Power[n \in Nat] == IF n = 0 THEN 1 ELSE 2 * Power[n - 1]

Word  == Power[WordBits]
Half  == Power[WordBits \div 2]
Group == Power[GroupBits]
Byte  == Power[GroupBits + 1]

\* Bytes of a 64-bit and of a 32-bit field.
Len64 == WordBits \div (GroupBits + 1)
Len32 == Len64 \div 2

Signed   == -(Word \div 2) .. (Word \div 2 - 1)
Unsigned == 0 .. Word - 1

\* Casts: as i64, as u64, as u32, as i32 (on an unsigned argument).
AsU64(n) == n % Word
AsI64(u) == IF u >= Word \div 2 THEN u - Word ELSE u
AsU32(n) == n % Half
AsI32(u) == LET n == u % Half IN IF n >= Half \div 2 THEN n - Half ELSE n

\* n >> i digits of some bits, and the lowest digit of that.
Shifted(n, bits, i) == n \div Power[bits * i]
Digit(n, bits, i)   == Shifted(n, bits, i) % Power[bits]

\* The number with n digits of some bits each, the lowest first.
Joined(digits, bits, n) ==
    LET out[k \in 0 .. n] ==
            IF k = 0 THEN 0 ELSE out[k - 1] + digits[k] * Power[bits * (k - 1)]
    IN out[n]

-----------------------------------------------------------------------------
\* WireType
Varint == 0
SixtyFourBit == 1
LenDelimited == 2
ThirtyTwoBit == 5
WireTypes == {Varint, SixtyFourBit, LenDelimited, ThirtyTwoBit}

\* Groups after which the shift reaches the width of a word.
MaxGroups == (WordBits + GroupBits - 1) \div GroupBits

\* A byte per group until what is left is less than one; all but the last are marked.
WriteVariant(u) ==
    LET last == Min({i \in 0 .. MaxGroups : Shifted(u, GroupBits, i) < Group})
    IN [i \in 1 .. last + 1 |->
           Digit(u, GroupBits, i - 1) + (IF i <= last THEN Group ELSE 0)]

\* A number of at most max groups; bits beyond the word are shifted out.
ReadGroups(src, max) ==
    LET ends == {k \in DOMAIN src : k <= max /\ src[k] < Group}
        groups == [i \in DOMAIN src |-> src[i] % Group]
    IN {[v |-> Joined(groups, GroupBits, k) % Word, rest |-> SubSeq(src, k + 1, Len(src))] :
           k \in {k \in ends : \A j \in ends : k <= j}}

\* Mutant of ReadVariant: it gives up one group too early.
ReadVariantShort(src) == ReadGroups(src, MaxGroups - 1)

ReadVariant(src) == ReadGroups(src, MaxGroups)

WriteTag(number, wireType) == WriteVariant(number * 8 + wireType)

WriteLenDelimited(s) == WriteVariant(Len(s)) \o s

ReadLenDelimited(src) ==
    {[v |-> SubSeq(r.rest, 1, r.v), rest |-> SubSeq(r.rest, r.v + 1, Len(r.rest))] :
        r \in {r \in ReadVariant(src) : r.v <= Len(r.rest)}}

\* put_u64_le, put_u32_le and their inverses.
PutFixed(n, len) == [i \in 1 .. len |-> Digit(n, GroupBits + 1, i - 1)]
GetFixed(src, len) ==
    IF Len(src) < len THEN {}
    ELSE {[v |-> Joined(src, GroupBits + 1, len), rest |-> SubSeq(src, len + 1, Len(src))]}

\* The bytes of one value of a wire type, as a word or as bytes.
ReadRaw(wireType, src) ==
    CASE wireType = Varint       -> ReadVariant(src)
      [] wireType = SixtyFourBit -> GetFixed(src, Len64)
      [] wireType = LenDelimited -> ReadLenDelimited(src)
      [] wireType = ThirtyTwoBit -> GetFixed(src, Len32)

SkipValue(wireType, src) == {r.rest : r \in ReadRaw(wireType, src)}

EncodeZigzag64(n) == IF n >= 0 THEN 2 * n ELSE -2 * n - 1
DecodeZigzag64(u) == IF u % 2 = 0 THEN u \div 2 ELSE -(u \div 2) - 1
=============================================================================
