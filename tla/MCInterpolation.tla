---------------------------- MODULE MCInterpolation ----------------------------
(***************************************************************************)
(* Shapes of one to three dimensions.  Along a line of nine or ten every   *)
(* formula is used, with an even and an odd number of places; extents that *)
(* are no powers of two, and smaller than the longest, cut lines short.    *)
(* Stages of eight indices and of nine leave no padding and the most.      *)
(***************************************************************************)
EXTENDS Interpolation

MCShapes == {<<2>>, <<5>>, <<6>>, <<8>>, <<9>>, <<10>>, <<18>>, <<3, 4>>, <<6, 5>>, <<1, 7>>, <<2, 3, 4>>}
=============================================================================
