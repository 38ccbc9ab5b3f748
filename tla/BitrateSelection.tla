--------------------------- MODULE BitrateSelection ---------------------------
(***************************************************************************)
(* How many bitplanes of each interpolation stage fit into a number of     *)
(* bytes (IPComp.hpp, calcBitgroup_bitrate and what it calls): the         *)
(* knapsack of PlaneSelection turned round, with the sizes of the planes   *)
(* as costs and the uncertainty of what is thrown away to be minimised.    *)
(*                                                                         *)
(* The limit is an unsigned word of WordBits bits, 64 in the code, from    *)
(* which the code subtracts without looking.  An answer says how the call  *)
(* ends: "kept" with a selection, "hangs", or "dies" in the allocation of  *)
(* a table of 2^WordBits columns.                                          *)
(***************************************************************************)
EXTENDS PlaneSelection

CONSTANTS
  HeaderSize,   \* lossless_size[0]: bytes of the stream's header
  WordBits      \* bits of size_t and unsigned long long

\* A shift leaves more than the five units that are then subtracted, and no
\* header takes a sixth of the address space.
ASSUME BitrateAssumption ==
  /\ HeaderSize \in Nat
  /\ DpBits >= 4
  /\ WordBits \in Nat /\ WordBits > DpBits
  /\ 3 * HeaderSize <= Power(2, WordBits - 1)

Unsigned(n) == n % Power(2, WordBits)

\* calckeptSizeTable(): the bytes of the b most significant planes of stage l.
calckeptSizeTable(size_lb) ==
  [l \in Lids |-> [b \in Counts |->
     SumFunctionOnSet(PlaneSizes(size_lb, l), 0 .. b - 1)]]

\* Mutant: nothing is set aside for the rounding.
ScaledSizes_NothingAside(cost, limit) ==
  LET unit == Power(2, Shift(limit))
  IN  [limit |-> limit \div unit,
       cost  |-> [i \in Lids |-> [k \in Counts |-> cost[i][k] \div unit]]]

\* The knapsack's inputs after scaling: five units of the limit are set aside for
\* the rounding of the sizes.
ScaledSizes(cost, limit) ==
  LET unit == Power(2, Shift(limit))
  IN  [limit |-> limit \div unit - 5,
       cost  |-> [i \in Lids |-> [k \in Counts |-> cost[i][k] \div unit]]]

\* Mutant: the table's rows all start from an empty row.
LeastUncertain_LastStageOnly(uncertainty, in) ==
  [i \in 0 .. NumLids |-> [j \in 0 .. in.limit |->
     IF i = 0 THEN 0
     ELSE Min({uncertainty[i - 1][k] : k \in Affordable(in, i - 1, j)})]]

\* dp[i][j]: the least uncertainty of the first i stages with j units to spend.
LeastUncertain(uncertainty, in) ==
  LET dp[i \in 0 .. NumLids] ==
        IF i = 0 THEN [j \in 0 .. in.limit |-> 0]
        ELSE LET above == dp[i - 1]
             IN  [j \in 0 .. in.limit |->
                    Min({above[j - in.cost[i - 1][k]] + uncertainty[i - 1][k] :
                           k \in Affordable(in, i - 1, j)})]
  IN  dp

strategy_bitrate(cost, uncertainty, limit) ==
  LET in == ScaledSizes(cost, limit)
  IN  WalkBack(LeastUncertain(uncertainty, in), uncertainty, in)

Nothing    == [l \in Lids |-> 0]
Everything == [l \in Lids |-> Planes]

Answer(outcome, kept) == [outcome |-> outcome, kept |-> kept]

\* calcBitgroup_bitrate(), as the set of its answers.  A limit that has wrapped
\* has its top bit set, and no shift by less than WordBits brings it below
\* 2^DpBits: a shift by more is undefined, and either starts over, so that the
\* loop never ends, or gives zero, and then every size is shifted down to nothing.
\* A limit below five units is smaller than what is set aside: the table gets
\* 2^WordBits columns, less a few.
calcBitgroup_bitrate(size_lb, limit) ==
  IF limit = 0 THEN {Answer("kept", Nothing)}
  ELSE IF limit >= Power(2, WordBits - 1)
    THEN {Answer("hangs", Nothing), Answer("kept", Everything)}
  ELSE IF limit < 5 THEN {Answer("dies", Nothing)}
  ELSE {Answer("kept", strategy_bitrate(calckeptSizeTable(size_lb),
                                        calcUncerntaintyBitGroup, limit))}

\* decompress_bitrate() for a budget of size_limit bytes, of which three times the
\* header is set aside.
SelectBitrate(size_lb, size_limit) ==
  calcBitgroup_bitrate(size_lb, Unsigned(size_limit - 3 * HeaderSize))
=============================================================================
