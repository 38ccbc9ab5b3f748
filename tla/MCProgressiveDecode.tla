------------------------- MODULE MCProgressiveDecode -------------------------
(***************************************************************************)
(* Every selection is somebody's target: target t stands for the base      *)
(* (Planes + 1) digits of t, one digit per stage, so that all sequences of *)
(* up to MaxCalls selections occur, the all-zero one included.             *)
(***************************************************************************)
EXTENDS ProgressiveDecode

MCTargets  == 1 .. (Planes + 1) ^ NumLids
MCSelected == [t \in MCTargets |-> [l \in Lids |->
                 (t \div (Planes + 1) ^ l) % (Planes + 1)]]
=============================================================================
