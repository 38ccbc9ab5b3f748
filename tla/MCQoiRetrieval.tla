---------------------------- MODULE MCQoiRetrieval ----------------------------
(***************************************************************************)
(* Bounds may be divided by 1.5 three times, so that a FirstBound of 1 is  *)
(* 27 units.  One density is below the first bound, the codec of one       *)
(* velocity cannot go below 10 units when the loop may ask for 8, one      *)
(* element is at rest and one moves along one axis only.  Errors are as    *)
(* large as the precision allows, or a third of it the other way, which is *)
(* still within the next bounds; a stray error is three first bounds.      *)
(***************************************************************************)
EXTENDS QoiRetrieval

MCUnits == [k \in 0 .. Shrinks |-> 2 ^ k * 3 ^ (Shrinks - k)]
MCData ==
  [T      |-> {<<108, 81>>, <<-54, 20>>},
   V_TOT2 |-> {<<-54, -27, -27>>, <<0, 0, 81>>, <<0, 0, 0>>},
   XiXj   |-> {<<27, -40>>, <<0, 54>>}]
MCFirstBound == [T |-> <<1, 1>>, V_TOT2 |-> <<1, 1, 1>>, XiXj |-> <<2, 1>>]
MCTolerance  == [T |-> <<1, 2>>, V_TOT2 |-> <<3300, 1>>, XiXj |-> <<2100, 1>>]
MCFinest     == [T |-> <<0, 0>>, V_TOT2 |-> <<0, 10, 0>>, XiXj |-> <<0, 5>>]
MCErrors(b)  == {-(b \div 3), b}
MCStrays     == {81}
=============================================================================
