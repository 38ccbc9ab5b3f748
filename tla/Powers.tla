------------------------------- MODULE Powers -------------------------------
(***************************************************************************)
(* Powers, for the strides, widths and charges of the models: written out, *)
(* since a proof can unfold a recursive function and not the operator ^.   *)
(***************************************************************************)
EXTENDS Integers

\* b to the n.
Power(b, n) ==
  LET power[k \in Nat] == IF k = 0 THEN 1 ELSE b * power[k - 1]
  IN  power[n]
=============================================================================
