------------------------ MODULE MCOperationalAlerts ------------------------
(***************************************************************************)
(* Instances of OperationalAlerts for TLC: one host, its endpoint and the  *)
(* backlog.                                                                *)
(***************************************************************************)
EXTENDS OperationalAlerts
=============================================================================
