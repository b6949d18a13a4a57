-------------------------- MODULE MCQmiConnection --------------------------
(***************************************************************************)
(* Instances of QmiConnection for TLC.                                     *)
(***************************************************************************)
EXTENDS QmiConnection
=============================================================================
