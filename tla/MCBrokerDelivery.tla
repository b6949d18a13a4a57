-------------------------- MODULE MCBrokerDelivery --------------------------
(***************************************************************************)
(* Instances of BrokerDelivery for TLC: two brokers, two pipes; the first  *)
(* subscribes to one of the two types, the second to both.                 *)
(***************************************************************************)
EXTENDS BrokerDelivery, TLC

CONSTANTS b1, b2, alerts, changes

MCBrokers == {b1, b2}
MCTypes == {alerts, changes}
MCPipeFrom == 1 :> {alerts} @@ 2 :> {alerts, changes}
MCPipeMax == 1 :> 1 @@ 2 :> 100

\* Brokers differ in nothing.  (Not used by the liveness run.)
MCSymmetry == Permutations(MCBrokers)
=============================================================================
