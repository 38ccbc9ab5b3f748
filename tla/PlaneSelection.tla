---------------------------- MODULE PlaneSelection ----------------------------
(***************************************************************************)
(* How many bitplanes of each interpolation stage a target error bound     *)
(* needs (IPComp.hpp, calcBitgroup and what it calls).  Throwing the low   *)
(* planes of a stage away saves their bytes and costs the reconstruction a *)
(* bounded error, counted in units of the compression error bound; a       *)
(* knapsack over the stages picks what to throw.                           *)
(*                                                                         *)
(* Widths are parameters: Planes is 32 and DpBits is 14 in the code.  The  *)
(* table of plane sizes is a parameter of the operators, in the order of   *)
(* the stream: stages one after the other, each from its least significant *)
(* plane to its most significant one.                                      *)
(***************************************************************************)
EXTENDS Integers, Sequences, FiniteSetsExt, Powers

CONSTANTS
  NumLids,  \* interpolation stages
  Planes,   \* bitplanes of a quantization index, an even number
  Cubic,    \* interpolators[interpolator_id] = "cubic"
  DpBits    \* the knapsack's table has fewer than 2^DpBits columns

ASSUME SelectionAssumption ==
  /\ NumLids \in Nat \ {0}
  /\ Planes \in Nat /\ Planes > 0 /\ Planes % 2 = 0
  /\ Cubic \in BOOLEAN
  /\ DpBits \in Nat

Lids   == 0 .. NumLids - 1
Counts == 0 .. Planes          \* how many planes a stage keeps

\* The word with every odd bit set, 0xaaaaaaaa at 32 bits.
NegabinaryMask == 2 * ((Power(2, Planes) - 1) \div 3)

\* The largest change of a reconstructed value, in error bounds, that throwing
\* away the low `bit` planes of its index can make.
calcUncerntaintyNegaBinary(bit) ==
  IF bit = 0 THEN 0 ELSE (NegabinaryMask \div Power(2, Planes - bit)) * 2

\* cost[i][b]: what keeping only b planes of stage i may cost.  With cubic
\* interpolation every later stage amplifies an error by up to 5/4.
calcUncerntaintyBitGroup ==
  LET cost(b) == IF b = 0 THEN Power(2, Planes) ELSE calcUncerntaintyNegaBinary(Planes - b)
      amplified(c, n) == (c * Power(5, n) + Power(4, n) - 1) \div Power(4, n)
  IN  [i \in Lids |-> [b \in Counts |->
         IF Cubic THEN amplified(cost(b), NumLids - 1 - i) ELSE cost(b)]]

\* The sizes of the planes of stage l, from the stream's size table.
PlaneSizes(size_lb, l) == [b \in 0 .. Planes - 1 |-> size_lb[(l + 1) * Planes - b - 1]]

\* valueTable[l][b]: the bytes saved by keeping only b planes of stage l.
calcValueTable(size_lb) ==
  [l \in Lids |-> [b \in Counts |->
     SumFunctionOnSet(PlaneSizes(size_lb, l), b .. Planes - 1)]]

\* The smallest shift that brings the limit below 2^DpBits.
Shift(limit) == CHOOSE s \in 0 .. limit :
                  /\ limit \div Power(2, s + DpBits) = 0
                  /\ s = 0 \/ limit \div Power(2, s - 1 + DpBits) # 0

\* Mutant: the costs are shifted once more than the limit.
Scaled_CostsTwice(cost, limit) ==
  LET unit == Power(2, Shift(limit))
  IN  [limit |-> limit \div unit,
       cost  |-> [i \in Lids |-> [k \in Counts |-> cost[i][k] \div (2 * unit)]]]

\* The knapsack's inputs after scaling: the limit and each cost, rounded down.
Scaled(cost, limit) ==
  LET unit == Power(2, Shift(limit))
  IN  [limit |-> limit \div unit,
       cost  |-> [i \in Lids |-> [k \in Counts |-> cost[i][k] \div unit]]]

\* What stage i may keep when j may still be spent.
Affordable(in, i, j) == {k \in Counts : in.cost[i][k] <= j}

\* Mutant: a selection may not spend the whole limit.
DpTable_OffByOne(valueTable, in) ==
  LET dp[i \in 0 .. NumLids] ==
        IF i = 0 THEN [j \in 0 .. in.limit |-> 0]
        ELSE LET above == dp[i - 1]
             IN  [j \in 0 .. in.limit |->
                    Max({0} \cup {above[j - in.cost[i - 1][k]] + valueTable[i - 1][k] :
                                    k \in {k \in Counts : in.cost[i - 1][k] < j}})]
  IN  dp

\* dp[i][j]: the most bytes the first i stages can save at cost at most j.
DpTable(valueTable, in) ==
  LET dp[i \in 0 .. NumLids] ==
        IF i = 0 THEN [j \in 0 .. in.limit |-> 0]
        ELSE LET above == dp[i - 1]
             IN  [j \in 0 .. in.limit |->
                    Max({0} \cup {above[j - in.cost[i - 1][k]] + valueTable[i - 1][k] :
                                    k \in Affordable(in, i - 1, j)})]
  IN  dp

\* Walking back from the last stage: the fewest planes that explain the table,
\* 0 when nothing does.
WalkBack(dp, value, in) ==
  LET walk[n \in 0 .. NumLids] ==   \* the last n stages are decided
        IF n = 0 THEN [rem |-> in.limit, kept |-> [l \in Lids |-> 0]]
        ELSE LET w  == walk[n - 1]
                 l  == NumLids - n
                 ks == {k \in Affordable(in, l, w.rem) :
                          dp[l + 1][w.rem] = dp[l][w.rem - in.cost[l][k]] + value[l][k]}
             IN  IF ks = {} THEN w
                 ELSE [rem  |-> w.rem - in.cost[l][Min(ks)],
                       kept |-> [w.kept EXCEPT ![l] = Min(ks)]]
  IN  walk[NumLids].kept

strategy(valueTable, cost, limit) ==
  LET in == Scaled(cost, limit)
  IN  WalkBack(DpTable(valueTable, in), valueTable, in)

\* Mutant: a target below the error bound keeps nothing.
SelectPlanes_NothingBelowBound(size_lb, units) ==
  IF units = 0 THEN [l \in Lids |-> 0]
  ELSE strategy(calcValueTable(size_lb), calcUncerntaintyBitGroup, units - 1)

\* calcBitgroup() for a target of `units` compression error bounds
\* (floor(target * 1.001 / eb)); 0 stands for a target below the error bound,
\* which keeps everything.
SelectPlanes(size_lb, units) ==
  IF units = 0 THEN [l \in Lids |-> Planes]
  ELSE strategy(calcValueTable(size_lb), calcUncerntaintyBitGroup, units - 1)
=============================================================================
