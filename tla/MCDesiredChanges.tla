-------------------------- MODULE MCDesiredChanges --------------------------
(***************************************************************************)
(* Instances of DesiredChanges for TLC.                                    *)
(***************************************************************************)
EXTENDS DesiredChanges
=============================================================================
