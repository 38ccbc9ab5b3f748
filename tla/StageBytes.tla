------------------------------ MODULE StageBytes ------------------------------
(***************************************************************************)
(* A whole stage on its way through the codec, as bytes: the transposition *)
(* of its negabinary words into planes, of which a byte holds the bits of  *)
(* Group neighbouring indices, the contexts applied byte by byte, and      *)
(* add_to_quant(), which takes the bytes apart again, the last one of a    *)
(* stage that does not fill it on a path of its own.                       *)
(*                                                                         *)
(* BitplaneCodec follows one value; StageAgrees says that a value in a     *)
(* stage fares as that one does.                                           *)
(***************************************************************************)
EXTENDS BitplaneCodec, Sequences

CONSTANTS
  Group,        \* indices to a byte, 8 in the code
  StageSizes    \* indices of the stages a value is put into

ASSUME GroupAssumption == Group \in Nat \ {0}
ASSUME StageSizesAssumption == StageSizes \subseteq Nat

Lane == 0 .. Group - 1

\* The bit of lane j in byte x: lane 0 is the most significant.
LaneOf(x, j) == (x \div Power(2, Group - 1 - j)) % 2

\* The byte with bits[j] in lane j.
ByteWith(bits) == SumFunction([j \in Lane |-> bits[j] * Power(2, Group - 1 - j)])

\* x ^ y ^ z
XorBytes(x, y, z) ==
  ByteWith([j \in Lane |-> xor(LaneOf(x, j), xor(LaneOf(y, j), LaneOf(z, j)))])

\* Bytes of a plane of n indices, and the words with zeros up to whole bytes.
numofEachBitPlane(n) == (n + Group - 1) \div Group
Padding(n) == numofEachBitPlane(n) * Group - n
Padded(words) == words \o [i \in 1 .. Padding(Len(words)) |-> [p \in Plane |-> 0]]

\* Mutant: the first index of a group goes into the lowest bit.
bitTranspose8_LowFirst(words) ==
  LET in == Padded(words)
  IN  [p \in Plane |-> [b \in 1 .. numofEachBitPlane(Len(words)) |->
         ByteWith([j \in Lane |-> in[b * Group - j][p]])]]

\* bitTranspose8(): the bytes of each plane.
bitTranspose8(words) ==
  LET in == Padded(words)
  IN  [p \in Plane |-> [b \in 1 .. numofEachBitPlane(Len(words)) |->
         ByteWith([j \in Lane |-> in[(b - 1) * Group + j + 1][p]])]]

\* A byte of each plane once invert_table() has been called for every plane in turn,
\* each of which leaves its byte and the one before it as contexts. Planes 0 and 1
\* are kept as they are stored.
LoadedByte(stored_byte) ==
  LET contexts[p \in Plane] ==
        IF p = 0 THEN <<stored_byte[0], 0>>
        ELSE LET before == contexts[p - 1]
             IN  IF p = 1 THEN <<stored_byte[1], before[1]>>
                 ELSE <<XorBytes(stored_byte[p], before[2], before[1]), before[1]>>
  IN  [p \in Plane |-> contexts[p][1]]

\* loaded_bits of the stage: the planes of each byte.
LoadedBytes(planes) ==
  [b \in DOMAIN planes[0] |-> LoadedByte([p \in Plane |-> planes[p][b]])]

\* What add_to_quant() adds to the indices of a stage of n for the planes ps: whole
\* bytes first, then the lanes of the last byte that stand for an index.
AddedToQuant(loaded, n, ps) ==
  LET whole == (n \div Group) * Group
      at(i) == IF i < whole THEN <<i \div Group, i % Group>>
               ELSE <<numofEachBitPlane(n) - 1, i - whole>>
      bits(i) == [p \in Plane |-> LaneOf(loaded[at(i)[1] + 1][p], at(i)[2])]
  IN  [i \in 0 .. n - 1 |-> ValueOf(bits(i), ps)]

-----------------------------------------------------------------------------

\* The stored planes of the value as the i-th index of a stage of n; the others
\* have the opposite bits, so that a bit taken from them would show.
StageWith(i, n) ==
  [k \in 1 .. n |-> IF k = i THEN stored ELSE [p \in Plane |-> 1 - stored[p]]]

\* The other indices of a stage do not matter: whichever planes an update adds, and
\* whether the index lies in a whole byte or in the last one, bitTranspose8(), the
\* contexts applied to bytes and add_to_quant() give it what its own planes are
\* worth, as if it had been coded alone.
StageAgrees ==
  bit = W /\ bsum = 0 =>
    \A n \in StageSizes : \A i \in 1 .. n :
      LET loaded == LoadedBytes(bitTranspose8(StageWith(i, n)))
      IN  \A first \in Plane :
            AddedToQuant(loaded, n, first .. W - 1)[i - 1]
              = ValueOf(loaded_bits, first .. W - 1)
===============================================================================
