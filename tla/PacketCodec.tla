---------------------------- MODULE PacketCodec ----------------------------
(***************************************************************************)
(* The integers of a confirmation: Packet::packIntPair and unpackIntPair.  *)
(* An integer is written in groups of GroupBits bits, one per byte, the    *)
(* most significant first; a flag tells whether more bytes follow.  The    *)
(* code has int of 32 bits, groups of 7 bits and gives up at the sixth     *)
(* group.  Integers wrap as they do in the program.                        *)
(***************************************************************************)
EXTENDS Integers, Sequences, SequencesExt

CONSTANTS
  IntBits,    \* width of an int, with its sign
  GroupBits,  \* bits of an integer in one byte
  MaxGroups   \* bytes of one integer that unpackIntPair reads at most

ASSUME WidthAssumption ==
  /\ IntBits \in Nat /\ GroupBits \in 1 .. IntBits
  /\ MaxGroups \in Nat /\ MaxGroups * GroupBits >= IntBits

\* pow2[k] is 1 << k.
pow2[k \in 0 .. IntBits] == IF k = 0 THEN 1 ELSE 2 * pow2[k - 1]

Byte == [bits : 0 .. pow2[GroupBits] - 1, more : BOOLEAN]

-----------------------------------------------------------------------------
(* Packing.                                                                *)

\* The bits that n needs, at least one group.
bitsOf(n) == Min({k \in GroupBits .. IntBits : n < pow2[k]})

\* The bytes that n needs.
bytesOfTooFew(n) == bitsOf(n) \div GroupBits

bytesOf(n) == (bitsOf(n) - 1) \div GroupBits + 1

packIntFlagFirst(n) ==
  LET k == bytesOf(n)
  IN  [i \in 1 .. k |-> [bits |-> (n \div pow2[GroupBits * (k - i)]) % pow2[GroupBits],
                         more |-> i > 1]]

packInt(n) ==
  LET k == bytesOf(n)
  IN  [i \in 1 .. k |-> [bits |-> (n \div pow2[GroupBits * (k - i)]) % pow2[GroupBits],
                         more |-> i < k]]

\* The bytes written, or none when the pair is refused.
packIntPairOverrun(a, b, size) ==
  IF a < 0 \/ b < 0 \/ bytesOf(a) > size
    THEN <<>> ELSE packInt(a) \o packInt(b)

packIntPair(a, b, size) ==
  IF a < 0 \/ b < 0 \/ bytesOf(a) + bytesOf(b) > size
    THEN <<>> ELSE packInt(a) \o packInt(b)

-----------------------------------------------------------------------------
(* Unpacking.                                                              *)

\* The value of x in an int.
wrap(x) == ((x + pow2[IntBits - 1]) % pow2[IntBits]) - pow2[IntBits - 1]

\* values(data)[i] is the int that the first i bytes add up to.
values(data) ==
  LET v[i \in 0 .. Len(data)] ==
        IF i = 0 THEN 0 ELSE wrap(v[i - 1] * pow2[GroupBits] + data[i].bits)
  IN  v

\* The length of the integer at the front of data; 0 when it does not end, has
\* too many groups or becomes negative before its last byte.
lengthOfInt(data) ==
  LET last == SelectInSeq(data, LAMBDA byte : ~byte.more)
  IN  IF \A i \in 1 .. last - 1 : i < MaxGroups /\ values(data)[i] >= 0
        THEN last ELSE 0

\* The pair at the front of data and the number of bytes it takes, 0 on failure.
unpackIntPair(data) ==
  LET m == lengthOfInt(data)
      tail == SubSeq(data, m + 1, Len(data))
      n == lengthOfInt(tail)
  IN  IF m = 0 \/ n = 0
        THEN [a |-> 0, b |-> 0, size |-> 0]
        ELSE [a |-> values(data)[m], b |-> values(tail)[n], size |-> m + n]

=============================================================================
