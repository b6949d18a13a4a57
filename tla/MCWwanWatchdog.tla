--------------------------- MODULE MCWwanWatchdog ---------------------------
(***************************************************************************)
(* Instances of WwanWatchdog for TLC, with the limits of the script.       *)
(***************************************************************************)
EXTENDS WwanWatchdog
=============================================================================
