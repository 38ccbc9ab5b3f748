-------------------------- MODULE MCParallelDrivers --------------------------
(***************************************************************************)
(* The programs on three ranks and up to two arrays, any file operation of   *)
(* which may fail, after which the peer may be left waiting: that, and a   *)
(* program that has ended, is no deadlock to look for, and a wait for ever *)
(* without a failure violates AllRanksExit.                                *)
(***************************************************************************)
EXTENDS ParallelDrivers
=============================================================================
