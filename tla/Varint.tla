------------------------------- MODULE Varint -------------------------------
(***************************************************************************)
(* Integers of varying length (src/lyserver/src/bytearray.cpp): a signed   *)
(* integer is folded to an unsigned one (zigzag), which is written in      *)
(* groups of bits, the low ones first, each but the last with a mark.      *)
(***************************************************************************)
EXTENDS Integers, Sequences

CONSTANTS
  Width,     \* bits of an integer: 32 or 64
  Group      \* bits of a group: 7

ASSUME Bits == Width \in Nat \ {0} /\ Group \in Nat \ {0}

Pow2[n \in 0..Width + Group] == IF n = 0 THEN 1 ELSE 2 * Pow2[n - 1]

Unsigned == 0..Pow2[Width] - 1
Signed == -Pow2[Width - 1]..Pow2[Width - 1] - 1
Mark == Pow2[Group]               \* 0x80
Wrap(v) == v % Pow2[Width]
Sign(u) == IF u < Pow2[Width - 1] THEN u ELSE u - Pow2[Width]

\* (uint32_t)(-v) * 2 - 1 for the negative, where -v of the least one wraps.
EncodeZigzag(v) == IF v < 0 THEN Wrap(2 * Wrap(-v) - 1) ELSE Wrap(2 * v)

\* (v >> 1) ^ -(v & 1): all bits turn when the last is set.
DecodeZigzag(v) == Sign(IF v % 2 = 1 THEN Pow2[Width] - 1 - v \div 2 ELSE v \div 2)

\* Mutant: a rest of just one full group is written without a mark.
FitsInOne(v) == v <= Mark
IsLast(v) == v < Mark

\* writeUint: how many groups, and what they are.
Groups == (Width + Group - 1) \div Group
Weight(i) == Pow2[Group * (i - 1)]  \* the i-th begins so many bits up
writeUint(v) ==
  LET rest == [i \in 1..Groups |-> v \div Weight(i)]
      n == CHOOSE i \in 1..Groups : IsLast(rest[i]) /\ \A j \in 1..i - 1 : ~IsLast(rest[j])
  IN [i \in 1..n |-> IF i = n THEN rest[i] ELSE Mark + (rest[i] % Mark)]

\* readUint: groups up to the first without a mark, but no more than fit; bits
\* beyond the width are shifted out.
readUint(s) ==
  LET value[i \in 0..Groups] ==
        IF i = 0 THEN 0
        ELSE IF \E j \in 1..i - 1 : s[j] < Mark THEN value[i - 1]
        ELSE Wrap(value[i - 1] + (s[i] % Mark) * Weight(i))
  IN value[Groups]
TakenBy(s) ==
  IF \E i \in 1..Groups : s[i] < Mark
  THEN CHOOSE i \in 1..Groups : s[i] < Mark /\ \A j \in 1..i - 1 : s[j] >= Mark
  ELSE Groups

\* Every integer, the least and the greatest too, comes back as it was written,
\* and reading stops where writing did, whatever bytes follow.
ComeBack ==
  \A v \in Signed : \A follow \in {0, 2 * Mark - 1} :
    LET written == writeUint(EncodeZigzag(v))
        s == written \o [i \in 1..Groups |-> follow]
    IN DecodeZigzag(readUint(s)) = v /\ TakenBy(s) = Len(written)
=============================================================================
