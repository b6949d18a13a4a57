-------------------------- MODULE DeliveryContract --------------------------
(***************************************************************************)
(* What the event queue and its brokers promise together, with no leases,  *)
(* brokers, calls or failures: an event is handed, any number of times, to *)
(* pipes that subscribe to its type; it is acknowledged once, for good,    *)
(* and only after every pipe that subscribes to it has taken it.           *)
(***************************************************************************)
CONSTANTS Events, Types, NoType, Pipes, PipeFrom

VARIABLES kind, acked, sent

vars == <<kind, acked, sent>>

Subscribed(p) == {e \in Events : kind[e] \in PipeFrom[p]}

Init ==
  /\ kind = [e \in Events |-> NoType]
  /\ acked = {}
  /\ sent = [p \in Pipes |-> {}]

Enqueue ==
  \E e \in Events, t \in Types :
    /\ kind[e] = NoType
    /\ kind' = [kind EXCEPT ![e] = t]
    /\ UNCHANGED <<acked, sent>>

Deliver ==
  \E p \in Pipes : \E S \in SUBSET Subscribed(p) :
    /\ sent' = [sent EXCEPT ![p] = @ \cup S]
    /\ UNCHANGED <<kind, acked>>

Acknowledge ==
  \E S \in SUBSET {e \in Events : kind[e] \in Types} :
    /\ \A p \in Pipes : S \cap Subscribed(p) \subseteq sent[p]
    /\ acked' = acked \cup S
    /\ UNCHANGED <<kind, sent>>

Next == Enqueue \/ Deliver \/ Acknowledge

Spec == Init /\ [][Next]_vars
=============================================================================
