-------------------------- MODULE MCMbimConnection --------------------------
(***************************************************************************)
(* Instances of MbimConnection for TLC.                                    *)
(***************************************************************************)
EXTENDS MbimConnection
=============================================================================
