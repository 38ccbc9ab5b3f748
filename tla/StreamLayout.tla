----------------------------- MODULE StreamLayout -----------------------------
(***************************************************************************)
(* The layout of a compressed stream of one layer (IPComp.hpp), as four    *)
(* pieces of code that have to agree on it see it: compress() writes it,   *)
(* decompress() finds its blocks again, the access log and retrieved_size  *)
(* account for what was read, and the array and QoI drivers copy what was  *)
(* read into a file.                                                       *)
(*                                                                         *)
(* A stream is a header with the table of block sizes, the bitplanes stage *)
(* by stage, and the unpredictable values.  Plane 0 is the most            *)
(* significant one.  size[l][p] is what plane p of stage l compressed to,  *)
(* zero for every plane of a stage without elements.                       *)
(***************************************************************************)
EXTENDS Integers, SequencesExt

CONSTANTS
  NumLids,      \* interpolation stages
  Planes,       \* bitplanes of a quantization index
  HeaderSize,   \* bytes up to the first plane
  UnpredSize    \* bytes of the unpredictable block

ASSUME LayoutAssumption ==
  /\ {NumLids, Planes, HeaderSize} \subseteq Nat \ {0}
  /\ UnpredSize \in Nat

Lids  == 0 .. NumLids - 1
Plane == 0 .. Planes - 1

Header == <<"header", 0, 0>>
Unpred == <<"unpred", 0, 0>>
BitBlock(l, p) == <<"bitplane", l, p>>

Sum(ns) == SumFunction(ns)

-----------------------------------------------------------------------------
(* Writing *)

\* encode_lossless_bitplane(): the planes of a stage, least significant first.
encode_lossless_bitplane(l) == [k \in 1 .. Planes |-> BitBlock(l, Planes - k)]

\* compress(): the blocks in the order they are written.
compress ==
  <<Header>> \o FlattenSeq([i \in 1 .. NumLids |-> encode_lossless_bitplane(i - 1)])
             \o <<Unpred>>

\* lossless_size: the table written into the header once all sizes are known.
lossless_size(size) ==
  [i \in DOMAIN compress |->
     CASE compress[i] = Header -> HeaderSize
       [] compress[i] = Unpred -> UnpredSize
       [] OTHER -> size[compress[i][2]][compress[i][3]]]

\* Where entry i of a size table begins.
Start(table, i) == Sum(SubSeq(table, 1, i - 1))

\* The bytes, counted from 1, that were written for a set of blocks.
Written(size, blocks) ==
  LET table == lossless_size(size)
  IN  UNION {Start(table, i) + 1 .. Start(table, i + 1) :
               i \in {i \in DOMAIN compress : compress[i] \in blocks}}

-----------------------------------------------------------------------------
(* Reading *)

\* The entry of the size table, which counts from 1, with the size of the
\* k-th plane written for stage l.
Entry(l, k) == 2 + l * Planes + k

\* Mutant: the planes are looked for in the order they are decoded.
data_lb_MostSignificantFirst(table, l, b) ==
  <<Start(table, Entry(l, b)), table[Entry(l, b)]>>

\* data_lb and size_lb of decompress(): planes b = bsize - 1, ..., 0 follow one
\* another in the stream.
data_lb(table, l, b) ==
  <<Start(table, Entry(l, Planes - 1 - b)), table[Entry(l, Planes - 1 - b)]>>

\* Mutant: loading the unpredictable block is not logged.
Accesses_WithoutUnpred(table, kept) ==
  LET header == <<0, table[1]>>
      plane(l) == [b \in 1 .. kept[l] |-> data_lb(table, l, b - 1)]
  IN  <<header, header>> \o FlattenSeq([i \in 1 .. NumLids |-> plane(i - 1)])

\* What the first progressive_reconstruct() of a codec logs: the header by each of
\* three loadcfg() calls, the third of which loads the unpredictable block, and
\* the planes kept in the order they are decoded.
Accesses(table, kept) ==
  LET header == <<0, table[1]>>
      unpred == <<Start(table, Len(table)), table[Len(table)]>>
      plane(l) == [b \in 1 .. kept[l] |-> data_lb(table, l, b - 1)]
  IN  IF \A l \in Lids : kept[l] = 0 THEN <<header, header>>
      ELSE <<header, header, header, unpred>>
             \o FlattenSeq([i \in 1 .. NumLids |-> plane(i - 1)])

\* retrieved_size after that call.
Retrieved(table, kept) ==
  IF \A l \in Lids : kept[l] = 0 THEN table[1]
  ELSE table[1] + table[Len(table)]
       + Sum([i \in 1 .. NumLids |->
           Sum([b \in 1 .. kept[i - 1] |-> data_lb(table, i - 1, b - 1)[2]])])

-----------------------------------------------------------------------------
(* Copying what was read *)

Bytes(offset, n) == [k \in 1 .. n |-> offset + k]

\* Mutant: one plane more than was kept.
CopiedStage_OneMore(table, l, kept) ==
  LET n(k) == table[Entry(l, Planes - 1 - k)]
      src(k) == Start(table, Entry(l, 0)) + Sum([i \in 1 .. k |-> n(i - 1)])
  IN  FlattenSeq([i \in 1 .. Planes |->
        IF i - 1 <= kept THEN Bytes(src(i - 1), n(i - 1)) ELSE <<>>])

\* What the drivers copy of a stage.  The sizes are taken from the most significant
\* plane on, but src_ptr moves from the start of the stage, where the least
\* significant plane lies.
CopiedStage(table, l, kept) ==
  LET n(k) == table[Entry(l, Planes - 1 - k)]
      src(k) == Start(table, Entry(l, 0)) + Sum([i \in 1 .. k |-> n(i - 1)])
  IN  FlattenSeq([i \in 1 .. Planes |->
        IF i - 1 < kept THEN Bytes(src(i - 1), n(i - 1)) ELSE <<>>])

\* fetched_data: the header, what is copied of the stages, the unpredictable block.
fetched_data(table, kept) ==
  IF \A l \in Lids : kept[l] = 0 THEN Bytes(0, table[1])
  ELSE Bytes(0, table[1])
       \o FlattenSeq([i \in 1 .. NumLids |-> CopiedStage(table, i - 1, kept[i - 1])])
       \o Bytes(Start(table, Len(table)), table[Len(table)])
=============================================================================
