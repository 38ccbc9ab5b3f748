---------------------------- MODULE MCRangeBundle ----------------------------
(***************************************************************************)
(* Every log of up to three ranges in a stream of five bytes, the first    *)
(* time, and of up to two the second time; and every stream of two stages  *)
(* of three planes, empty stages included, with every selection of planes. *)
(***************************************************************************)
EXTENDS BundledStream
=============================================================================
