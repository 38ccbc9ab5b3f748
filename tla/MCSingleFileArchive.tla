------------------------- MODULE MCSingleFileArchive -------------------------
(***************************************************************************)
(* Two blocks of at most two components each, in cells of six values and   *)
(* numbers of two cells: every number of the format that is 6 or more can  *)
(* be torn in two.                                                         *)
(***************************************************************************)
EXTENDS SingleFileArchive

MCMetadata == {<<1>>}
MCPayloads == {<<>>, <<2, 1>>}
=============================================================================
