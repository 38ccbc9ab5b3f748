---------------------------- MODULE BitplaneCodec ----------------------------
(***************************************************************************)
(* One value on its way through the codec and back: quantized against its  *)
(* prediction (IntegerQuantizer2.hpp), turned into negabinary, each plane  *)
(* XORed with the two planes above it (encode_lossless_bitplane), and then *)
(* decoded plane by plane, in as many updates as the caller likes, each    *)
(* update adding the value of the planes it loaded.                        *)
(*                                                                         *)
(* The code works on W = 32 planes, plane 0 being the most significant.    *)
(* Planes of different values do not interact, so that one value stands    *)
(* for a stage (StageBytes has whole stages, as bytes); zstd is left out.  *)
(* Differences from the prediction are counted in halves of the error      *)
(* bound, which is as fine as the rounding needs.                          *)
(***************************************************************************)
EXTENDS Integers, Functions, Powers

CONSTANTS
  W,        \* bits of an index, an even number
  Diffs     \* data - pred, in halves of the error bound

ASSUME WidthAssumption == W \in Nat /\ W > 1 /\ W % 2 = 0
ASSUME DiffsAssumption == Diffs \subseteq Int

Plane == 0 .. W - 1
Bit   == {0, 1}

Abs(n) == IF n < 0 THEN -n ELSE n

\* Two's complement: the signed value of n modulo 2^W.
Signed(n) == ((n + Power(2, W - 1)) % Power(2, W)) - Power(2, W - 1)

\* static_cast<int>: out of range is undefined, and the conversion instruction
\* of the build answers the smallest integer.
Truncated(n) == IF n < Power(2, W - 1) THEN n ELSE -Power(2, W - 1)

\* quantize_and_overwrite(): the index, half of the rounded number of bounds.
Index(diff) ==
  LET base == Signed(Truncated(Abs(diff) \div 2) + 1)
      half == base \div 2
  IN  IF diff < 0 THEN -half ELSE half

\* What a bit of plane p is worth, plane p of the W-bit word n, and the word with
\* every odd bit set.
Weight(p)   == Power(2, W - 1 - p)
BitOf(n, p) == (n \div Weight(p)) % 2
OddBits     == 2 * ((Power(2, W) - 1) \div 3)

\* Mutant: the mask covers the even bits, so that the signs of the planes swap.
Negabinary_EvenMask(q) ==
  LET sum == (q + OddBits \div 2) % Power(2, W)
  IN  [p \in Plane |-> IF BitOf(sum, p) = BitOf(OddBits \div 2, p) THEN 0 ELSE 1]

\* (q + 0xaaaaaaaa) ^ 0xaaaaaaaa, as planes.
Negabinary(q) ==
  LET sum == (q + OddBits) % Power(2, W)
  IN  [p \in Plane |-> IF BitOf(sum, p) = BitOf(OddBits, p) THEN 0 ELSE 1]

\* (adder ^ 0xaaaaaaaa) - 0xaaaaaaaa for the planes of bits that are in ps.
ValueOf(bits, ps) ==
  LET adder == [p \in Plane |-> IF p \notin ps THEN BitOf(OddBits, p) * Weight(p)
                                ELSE IF bits[p] = BitOf(OddBits, p) THEN 0 ELSE Weight(p)]
  IN  Signed(SumFunction(adder) - OddBits)

\* Mutant: planes are added instead of XORed.
xor_Adds(a, b) == a + b

xor(a, b) == IF a = b THEN 0 ELSE 1

\* Mutant: each plane is predicted from the one above it only.
convert_table_OneContext(bits) ==
  [p \in Plane |-> IF p = 0 THEN bits[0] ELSE xor(bits[p], bits[p - 1])]

\* convert_table(): plane p of x ^ x>>1 ^ x>>2.
convert_table(bits) ==
  [p \in Plane |-> IF p = 0 THEN bits[0]
                   ELSE IF p = 1 THEN xor(bits[1], bits[0])
                   ELSE xor(bits[p], xor(bits[p - 1], bits[p - 2]))]

\* The plane selection, for one stage: what it counts a missing plane as.
Selection == INSTANCE PlaneSelection
               WITH NumLids <- 1, Planes <- W, Cubic <- FALSE, DpBits <- 14

VARIABLES
  diff,             \* data - pred
  word,             \* the negabinary planes of its index
  stored,           \* the planes as stored
  bsum,             \* planes merged by earlier updates
  bit,              \* the next plane to load
  loaded_bits,      \* the planes decoded so far
  last_bit,         \* the two decoded planes before bit
  second_last_bit,
  quant             \* the sum of what the updates added

vars == <<diff, word, stored, bsum, bit, loaded_bits, last_bit, second_last_bit, quant>>

Init ==
  /\ diff \in Diffs
  /\ word = Negabinary(Index(diff))
  /\ stored = convert_table(word)
  /\ bsum = 0
  /\ bit = 0
  /\ loaded_bits = [p \in Plane |-> 0]
  /\ last_bit = 0
  /\ second_last_bit = 0
  /\ quant = 0

\* lossless_decode_bitgroup() and invert_table(): planes 0 and 1 are taken as
\* they are stored, the others are XORed with both contexts.
invert_table ==
  LET decoded == IF bit > 1 THEN xor(stored[bit], xor(second_last_bit, last_bit))
                 ELSE stored[bit]
  IN  /\ bit < W
      /\ loaded_bits' = [loaded_bits EXCEPT ![bit] = decoded]
      /\ last_bit' = decoded
      /\ second_last_bit' = IF bit = 0 THEN second_last_bit ELSE last_bit
      /\ bit' = bit + 1
      /\ UNCHANGED <<diff, word, stored, bsum, quant>>

\* Mutant: an update adds all planes again, not only those after bsum.
add_to_quant_FromTop ==
  /\ bsum < bit
  /\ quant' = Signed(quant + ValueOf(loaded_bits, 0 .. bit - 1))
  /\ bsum' = bit
  /\ UNCHANGED <<diff, word, stored, bit, loaded_bits, last_bit, second_last_bit>>

\* add_to_quant() at the end of an update.
add_to_quant ==
  /\ bsum < bit
  /\ quant' = Signed(quant + ValueOf(loaded_bits, bsum .. bit - 1))
  /\ bsum' = bit
  /\ UNCHANGED <<diff, word, stored, bit, loaded_bits, last_bit, second_last_bit>>

Next == invert_table \/ add_to_quant

Spec == Init /\ [][Next]_vars

-----------------------------------------------------------------------------

\* The types of the state.
TypeOK ==
  /\ diff \in Diffs
  /\ word \in [Plane -> Bit] /\ stored \in [Plane -> Bit]
  /\ bsum \in 0 .. W /\ bit \in 0 .. W
  /\ loaded_bits \in [Plane -> Bit]
  /\ last_bit \in Bit /\ second_last_bit \in Bit
  /\ quant \in -Power(2, W - 1) .. Power(2, W - 1) - 1

\* The decoder undoes the prediction: a word whose top plane is clear comes
\* back plane by plane (invert_table against convert_table).
PlanesRecovered ==
  word[0] = 0 => \A p \in Plane : p < bit => loaded_bits[p] = word[p]

\* An update adds what its planes are worth whichever way the planes are split
\* into updates: the sum is always the value of the planes merged so far.
SplitsAddUp == quant = ValueOf(loaded_bits, 0 .. bsum - 1)

\* The promise the plane selection is computed from: with k planes merged the
\* reconstructed difference is within one error bound, for the rounding, and
\* calcUncerntaintyNegaBinary() of the W - k planes missing.
ErrorBounded ==
  bsum > 0 => Abs(4 * quant - diff)
                <= 2 * (1 + Selection!calcUncerntaintyNegaBinary(W - bsum))
=============================================================================
