--------------------------- MODULE MCBitplaneCodec ---------------------------
(***************************************************************************)
(* Every difference from -MostBelow to MostAbove, alone and among the      *)
(* other indices of a stage.                                               *)
(***************************************************************************)
EXTENDS StageBytes

CONSTANTS MostBelow, MostAbove   \* the differences, in halves of the error bound

MCDiffs == -MostBelow .. MostAbove
=============================================================================
