---------------------------- MODULE Interpolation ----------------------------
(***************************************************************************)
(* The interpolation predictor of SZProgressiveMQuant (IPComp.hpp): which  *)
(* elements a stage visits, from which others it predicts each of them,    *)
(* and how far the error of planes left out in one stage can spread.       *)
(*                                                                         *)
(* compress(), decompress_progressive() and the update path all walk the   *)
(* array with the same block_interpolation() calls, one per level and      *)
(* direction, from the coarsest stride to stride 1; such a call is a step. *)
(* An element is its coordinates.  Values are left out: an element is      *)
(* known by how often it was quantised and by the largest error it can     *)
(* have when the indices of the stage lost are off by one and all others   *)
(* are exact.  That error is a fraction of sixteenths, kept in units of    *)
(* 16^(stages after lost) so that it is never rounded.                     *)
(***************************************************************************)
EXTENDS Integers, Sequences, FiniteSetsExt, Functions, Powers

CONSTANTS
  Shapes,          \* the global_dimensions, sequences of extents
  Interpolators    \* of "linear" and "cubic"

ASSUME ShapesAssumption ==
  \A s \in Shapes : /\ s \in Seq(Nat \ {0}) /\ Len(s) \in 1 .. 4
                    /\ \E i \in DOMAIN s : s[i] > 1
ASSUME InterpolatorsAssumption == Interpolators \subseteq {"linear", "cubic"}

VARIABLES
  shape,      \* global_dimensions
  base,       \* base_direction, the permutation that direction_id stands for
  interp,     \* interpolators[interpolator_id]
  lost,       \* the stage whose indices are off by one
  lid,        \* the next stage
  written,    \* per element: how often it was quantised
  reach       \* per element: the largest error it can have

walk_vars == <<shape, base, interp, lost, lid, written, reach>>

-----------------------------------------------------------------------------
(* Levels, stages and directions *)

Dims     == DOMAIN shape
Elements == {p \in [Dims -> 0 .. Max(Range(shape)) - 1] : \A i \in Dims : p[i] < shape[i]}
Anchor   == [i \in Dims |-> 0]

\* ceil(log2()) of the largest extent.
Levels(s) == Min({l \in 0 .. Max(Range(s)) : \A i \in DOMAIN s : s[i] <= Power(2, l)})

Stages(s) == 0 .. Levels(s) * Len(s) - 1
LastStage      == Levels(shape) * Len(shape) - 1
Stride(l) == Power(2, Levels(shape) - 1 - l \div Len(shape))

\* The direction of stage l: the place in base of the dimension it walks along.
Direct(l) == (l % Len(shape)) + 1

\* Mutant: stride_multiplication stays 2 for the directions already walked.
StrideMultiplication_Keeps(l, j) == 2

\* Mutant: stride_multiplication is 1 from the first direction on.
StrideMultiplication_Fine(l, j) == 1

\* stride_multiplication for the dimension at place j of base.
StrideMultiplication(l, j) == IF j < Direct(l) THEN 1 ELSE 2

\* The elements that begin the lines of stage l: on its grid, and 0 along the line.
Begins(l) ==
  {p \in Elements : \A j \in Dims :
     IF j = Direct(l) THEN p[base[j]] = 0
     ELSE p[base[j]] % (Stride(l) * StrideMultiplication(l, j)) = 0}

-----------------------------------------------------------------------------
(* One line: block_interpolation_1d() *)

FullCubic(i, n) == 3 <= i /\ i + 3 < n

\* Mutant: interp_quad_3() with the weights of the quadratic it is named for.
Weights_TrueQuad3(f, i, n) ==
  IF f = "linear" \/ n < 5
    THEN IF i + 1 < n THEN {<<i - 1, 8>>, <<i + 1, 8>>} ELSE {<<i - 1, 16>>}
    ELSE CASE i + 1 = n       -> {<<i - 5, 6>>, <<i - 3, 20>>, <<i - 1, 30>>}
           [] i = 1           -> {<<0, 6>>, <<2, 12>>, <<4, 2>>}
           [] FullCubic(i, n) -> {<<i - 3, 1>>, <<i - 1, 9>>, <<i + 1, 9>>, <<i + 3, 1>>}
           [] OTHER           -> {<<i - 3, 2>>, <<i - 1, 12>>, <<i + 1, 6>>}

\* What the i-th of n places on a line is predicted from: places, each with its weight
\* in sixteenths without its sign, which an error may have either way.
Weights(f, i, n) ==
  IF f = "linear" \/ n < 5
    THEN IF i + 1 < n THEN {<<i - 1, 8>>, <<i + 1, 8>>} ELSE {<<i - 1, 16>>}
    ELSE CASE i + 1 = n       -> {<<i - 5, 6>>, <<i - 3, 12>>, <<i - 1, 2>>}
           [] i = 1           -> {<<0, 6>>, <<2, 12>>, <<4, 2>>}
           [] FullCubic(i, n) -> {<<i - 3, 1>>, <<i - 1, 9>>, <<i + 1, 9>>, <<i + 3, 1>>}
           [] OTHER           -> {<<i - 3, 2>>, <<i - 1, 12>>, <<i + 1, 6>>}

\* Places on a line of stage l, and the element at place i of the line of p.
Places(l)   == (shape[base[Direct(l)]] - 1) \div Stride(l) + 1
At(p, l, i) == [p EXCEPT ![base[Direct(l)]] = i * Stride(l)]

\* The elements stage l quantises, and what it predicts element p from.
Visited(l) ==
  {At(p, l, i) : p \in Begins(l), i \in {j \in 1 .. Places(l) - 1 : j % 2 = 1}}
Place(p, l)      == p[base[Direct(l)]] \div Stride(l)
WeightsAt(p, l)  == Weights(interp, Place(p, l), Places(l))
Predictors(p, l) == {At(p, l, w[1]) : w \in WeightsAt(p, l)}

\* Mutant: quant_inds_size is not set back after a stage.
quant_inds_size_NotReset(l) ==
  1 + MapThenSumSet(LAMBDA k : Cardinality(Visited(k)), 0 .. l)

\* quant_inds_size after stage l: its elements, and the anchor before the first one.
quant_inds_size(l) == Cardinality(Visited(l)) + (IF l = 0 THEN 1 ELSE 0)

\* What bitTranspose8() makes of it, writing zeros behind the indices.
PaddedSize(l) == ((quant_inds_size(l) + 7) \div 8) * 8

-----------------------------------------------------------------------------
(* The walk *)

Unit == Power(16, LastStage - lost)

WalkInit ==
  /\ shape \in Shapes /\ interp \in Interpolators
  /\ base \in {b \in [Dims -> Dims] : IsInjective(b)}
  /\ lost \in Stages(shape)
  /\ lid = 0
  /\ written = [p \in Elements |-> IF p = Anchor THEN 1 ELSE 0]
  /\ reach = [p \in Elements |-> IF p = Anchor /\ lost = 0 THEN Unit ELSE 0]

\* The error element p gets in stage l from those it is predicted from.
Spread(p, l) ==
  SumFunction([w \in WeightsAt(p, l) |-> w[2] * reach[At(p, l, w[1])]]) \div 16

\* One block_interpolation() call.
Interpolate ==
  /\ lid \in Stages(shape)
  /\ LET visited == Visited(lid)
     IN  /\ written' = [p \in Elements |-> IF p \in visited THEN written[p] + 1 ELSE written[p]]
         /\ reach' = [p \in Elements |->
              IF p \in visited THEN Spread(p, lid) + (IF lid = lost THEN Unit ELSE 0)
              ELSE reach[p]]
  /\ lid' = lid + 1
  /\ UNCHANGED <<shape, base, interp, lost>>

WalkNext == Interpolate

WalkSpec == WalkInit /\ [][WalkNext]_walk_vars

-----------------------------------------------------------------------------
(* Properties *)

\* No element is quantised twice, and in the end each has been: the stages' indices
\* are num_elements in all (the assertion at the end of compress()), for every shape
\* and every order of the directions.
EachElementOnce ==
  \A p \in Elements : written[p] <= 1 /\ (lid > LastStage => written[p] = 1)

\* What a stage predicts from lies in the array and was final before the stage began.
\* So the decoder, which has the same values there, predicts what the encoder did,
\* and the order of the lines within a stage does not matter.
PredictorsAreFinal ==
  [][\A p \in Visited(lid) : \A q \in Predictors(p, lid) :
       q \in Elements /\ written[q] = 1]_walk_vars

\* quant_inds has num_elements slots, and bitTranspose8() pads the indices of a stage
\* in place: with eight elements or more there is room for it, because no stage but a
\* tiny one has more than half of the elements. A smaller field is written past its end.
PaddingFits ==
  lid <= LastStage /\ Cardinality(Elements) >= 8 => PaddedSize(lid) <= Cardinality(Elements)

\* What calcUncerntaintyBitGroup() charges for an index off by one in stage l.
Cost(l) == IF interp = "cubic" THEN Power(20, LastStage - l) ELSE Power(16, LastStage - l)

\* Planes left out in one stage cost no element more than calcUncerntaintyBitGroup()
\* charges for them, however far the prediction carries the error.  Stage 0 alone can
\* cost twice its charge: the anchor is an index of stage 0 too, and the other
\* elements of the stage are predicted from it.
CostCoversLoss ==
  \A p \in Elements : reach[p] <= (IF lost = 0 THEN 2 ELSE 1) * Cost(lost)
=============================================================================
