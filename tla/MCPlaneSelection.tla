--------------------------- MODULE MCPlaneSelection ---------------------------
(***************************************************************************)
(* Two callers over every table of plane sizes drawn from Sizes: one       *)
(* tightens its target step by step, from MaxUnits compression error       *)
(* bounds down to below one; the other raises its budget of bytes step by  *)
(* step up to MaxBytes, in a new process when the last one gave no answer. *)
(***************************************************************************)
EXTENDS BitrateSelection

CONSTANTS
  Sizes,       \* the sizes a plane may compress to
  MaxUnits,    \* the loosest target, in compression error bounds
  MaxBytes,    \* the largest budget
  UnpredSize   \* bytes of the unpredictable block

\* What is set aside for the header has room for the unpredictable block.
ASSUME UnpredAssumption == UnpredSize \in 0 .. 2 * HeaderSize

\* A budget takes less than half of the address space.
ASSUME RequestAssumption ==
  /\ Sizes \subseteq Nat
  /\ MaxUnits \in Nat
  /\ MaxBytes \in Nat /\ MaxBytes < Power(2, WordBits - 1)

VARIABLES
  mode,      \* "error" or "bitrate"
  size_lb,   \* the stream's table of plane sizes
  request,   \* the target in error bounds, or the budget in bytes
  answer     \* what the selection came to

vars == <<mode, size_lb, request, answer>>

kept == answer.kept

Init ==
  /\ size_lb \in [0 .. NumLids * Planes - 1 -> Sizes]
  /\ \/ /\ mode = "error"
        /\ request = MaxUnits
        /\ answer = Answer("kept", SelectPlanes(size_lb, MaxUnits))
     \/ /\ mode = "bitrate"
        /\ request = 0
        /\ answer \in SelectBitrate(size_lb, 0)

\* The next tighter target.
Tighten ==
  /\ mode = "error"
  /\ request > 0
  /\ request' = request - 1
  /\ answer' = Answer("kept", SelectPlanes(size_lb, request'))
  /\ UNCHANGED <<mode, size_lb>>

\* The next larger budget.
Raise ==
  /\ mode = "bitrate"
  /\ request < MaxBytes
  /\ request' = request + 1
  /\ answer' \in SelectBitrate(size_lb, request')
  /\ UNCHANGED <<mode, size_lb>>

Next == Tighten \/ Raise

Spec == Init /\ [][Next]_vars

-----------------------------------------------------------------------------

\* What a selection costs, given a cost table, and the bytes it saves.
Cost(cost, sel) == SumFunctionOnSet([l \in Lids |-> cost[l][sel[l]]], Lids)
Saved(sel) == Cost(calcValueTable(size_lb), sel)

ScaledCost == Scaled(calcUncerntaintyBitGroup, request - 1)

\* strategy() never spends more than its scaled limit, and saves the most bytes
\* any selection within that limit saves: the walk back through the table
\* always finds a selection that explains it (it has no error path: a stage it
\* could not explain would silently keep nothing).
OptimalWithinLimit ==
  mode = "error" /\ request > 0 =>
    /\ Cost(ScaledCost.cost, kept) <= ScaledCost.limit
    /\ \A sel \in [Lids -> Counts] :
         Cost(ScaledCost.cost, sel) <= ScaledCost.limit => Saved(sel) <= Saved(kept)

\* What the scaling can overrun: each stage by less than one scaled unit.
\* Beyond that the thrown planes, plus the error of quantization itself, stay
\* within the target.
WithinTarget ==
  mode = "error" /\ request > 0 =>
    Cost(calcUncerntaintyBitGroup, kept) + 1
      <= request + NumLids * (Power(2, Shift(request - 1)) - 1)

\* A tighter target never retrieves fewer bytes in total, although it may keep
\* fewer planes of some stage: however the costs are scaled and rounded down,
\* what fits a tighter limit fits a looser one (strategy()'s shift).
TighterReadsMore ==
  [][mode = "error" => Saved(kept') <= Saved(kept)]_vars

\* Whether what is set aside leaves a budget strategy_bitrate() can work with, and
\* the budget that is left.
Room      == mode = "bitrate" /\ request >= 3 * HeaderSize + 5
Remaining == request - 3 * HeaderSize

\* The bytes decompress_bitrate() fetches for a selection, from scratch: nothing
\* but the header when no plane is kept.
Fetched ==
  HeaderSize + Cost(calckeptSizeTable(size_lb), kept)
             + (IF kept = Nothing THEN 0 ELSE UnpredSize)

\* strategy_bitrate() has the least uncertainty any selection within its scaled
\* budget has: the minimising table and the walk back agree.
LeastUncertainty ==
  Room =>
    LET in == ScaledSizes(calckeptSizeTable(size_lb), Remaining)
        uncertainty(sel) == Cost(calcUncerntaintyBitGroup, sel)
    IN  /\ Cost(in.cost, kept) <= in.limit
        /\ \A sel \in [Lids -> Counts] :
             Cost(in.cost, sel) <= in.limit => uncertainty(kept) <= uncertainty(sel)

\* Where the subtractions do not wrap, the bytes fetched stay within the budget,
\* header and unpredictable block included, although every size was rounded down:
\* the five units set aside cover five stages, and each further one may overrun by
\* less than a unit.
WithinBudget ==
  Room =>
    LET unit == Power(2, Shift(Remaining))
    IN  Fetched <= request + (IF NumLids > 5 THEN (NumLids - 5) * (unit - 1) ELSE 0)

\* README.md, "Bitrate-Bounded Progressive Compression": a budget that has room for
\* the header and the unpredictable block is answered, within the budget.
BitrateBounded ==
  (mode = "bitrate" /\ request >= HeaderSize + UnpredSize) =>
    answer.outcome = "kept" /\ Fetched <= request
=============================================================================
