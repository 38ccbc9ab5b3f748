--------------------------- MODULE MCTighterDecode ---------------------------
(***************************************************************************)
(* The decoder driven by the selections strategy() really returns: two     *)
(* stages of cubic interpolation, the planes of stage 0 one byte each and  *)
(* those of stage 1 two, targets from 1 to MaxUnits compression error      *)
(* bounds.                                                                 *)
(***************************************************************************)
EXTENDS ProgressiveDecode

CONSTANT MaxUnits   \* the loosest target

Selection == INSTANCE PlaneSelection WITH Cubic <- TRUE, DpBits <- 14

\* The size table of the stream.
size_lb == [i \in 0 .. NumLids * Planes - 1 |-> 1 + i \div Planes]

MCTargets  == 1 .. MaxUnits
MCSelected == [t \in MCTargets |-> Selection!SelectPlanes(size_lb, t)]
=============================================================================
