----------------------- MODULE OperationalAlertsProofs -----------------------
(***************************************************************************)
(* Theorems about OperationalAlerts for any set of hosts and any LIMIT.    *)
(***************************************************************************)
EXTENDS OperationalAlerts, TLAPS

USE DEF hostVars, alertVars, loopVars

-----------------------------------------------------------------------------
(* Type correctness.                                                       *)

\* The rows an alert can be about, and the parts of one about a host.
LEMMA AlertParts ==
  /\ \A t \in Offline \cup {Endpoint}, h \in Hosts : <<t, h>> \in Alerts /\ <<t, h>> # Backlog
  /\ NoAlert \notin Alerts /\ Backlog \in Alerts
BY DEF Alerts, NoAlert, Backlog, Offline, Endpoint

\* createOpenAlertOnce is under way exactly when there is an alert to raise.
RaisingSome == pc \in {"exists", "insert", "enqueue"} => raising \in Alerts

TypeInv == TypeOK /\ RaisingSome

LEMMA TypeInit == Init => TypeInv
<1> SUFFICES ASSUME Init PROVE TypeInv
  OBVIOUS
<1>1. open \in [Alerts -> Nat] /\ silent \subseteq Alerts
  BY DEF Init
<1>2. pc \in Phases /\ ~(pc \in {"exists", "insert", "enqueue"})
  BY DEF Init, Phases
<1>3. /\ status \in [Hosts -> {"none", "new", "known", "deleted"}]
      /\ age \in [Hosts -> 0 .. 2] /\ seen \in [Hosts -> 0 .. 2]
      /\ cut \subseteq Hosts /\ todo \subseteq Hosts
  BY DEF Init
<1>4. high \in BOOLEAN
  BY Zenon DEF Init
<1>5. raising \in Alerts \cup {NoAlert} /\ faults \in 0 .. MaxFaults
  BY FaultsAssumption DEF Init
<1> QED BY <1>1, <1>2, <1>3, <1>4, <1>5 DEF TypeInv, TypeOK, RaisingSome

\* An UPDATE that resolves alerts keeps the types of the alerts.
LEMMA ResolveType ==
  ASSUME TypeOK, NEW S, Resolve(S)
  PROVE  open' \in [Alerts -> Nat] /\ silent' \subseteq Alerts
BY DEF Resolve, TypeOK

\* The lists are lists of hosts.
LEMMA ListedType ==
  ASSUME TypeOK
  PROVE  Listed(Overdue) \subseteq SUBSET Hosts /\ ListedEndpoints \subseteq SUBSET Hosts
BY DEF Listed, Overdue, ListedEndpoints, TypeOK

LEMMA TypeAround == TypeInv /\ Around => TypeInv'
<1> SUFFICES ASSUME TypeInv, Around PROVE TypeInv'
  OBVIOUS
<1> USE DEF TypeInv, RaisingSome
<1>1. ASSUME NEW h \in Hosts, CreateHost(h) PROVE TypeInv'
  BY <1>1 DEF CreateHost, TypeOK
<1>2. ASSUME NEW h \in Hosts, Ping(h) PROVE TypeInv'
  BY <1>2 DEF Ping, TypeOK
<1>3. ASSUME NEW h \in Hosts, GrowOld(h) PROVE TypeInv'
  <2>1. \A n \in 0 .. 2 : Older(n) \in 0 .. 2
    BY DEF Older
  <2>2. age' \in [Hosts -> 0 .. 2] /\ seen' \in [Hosts -> 0 .. 2]
    BY <1>3, <2>1 DEF GrowOld, TypeOK
  <2>3. cut' \subseteq Hosts
    BY <1>3 DEF GrowOld, TypeOK
  <2> QED BY <1>3, <2>2, <2>3 DEF GrowOld, TypeOK
<1>4. ASSUME NEW h \in Hosts, DeleteHost(h) PROVE TypeInv'
  <2>1. open' \in [Alerts -> Nat]
    BY <1>4 DEF DeleteHost, TypeOK
  <2> QED BY <1>4, <2>1 DEF DeleteHost, TypeOK
<1>5. ASSUME NEW a \in Alerts, ResolveAlert(a) PROVE TypeInv'
  BY <1>5 DEF ResolveAlert, TypeOK
<1>6. CASE BacklogMoves
  BY <1>6 DEF BacklogMoves, TypeOK
<1>7. CASE Restart
  BY <1>7, FaultsAssumption DEF Restart, Fault, TypeOK, Phases
<1> QED BY <1>1, <1>2, <1>3, <1>4, <1>5, <1>6, <1>7 DEF Around

LEMMA TypeLoop == TypeInv /\ LoopStep => TypeInv'
<1> SUFFICES ASSUME TypeInv, LoopStep PROVE TypeInv'
  OBVIOUS
<1> USE FaultsAssumption DEF TypeInv, RaisingSome, Phases, Fault
<1>1. CASE ListStaleHosts
  BY <1>1, ListedType DEF ListStaleHosts, TypeOK
<1>2. CASE AutoResolveHostAlerts
  BY <1>2, ResolveType DEF AutoResolveHostAlerts, TypeOK
<1>3. CASE ListStaleEndpoints
  BY <1>3, ListedType DEF ListStaleEndpoints, TypeOK
<1>4. CASE AutoResolveEndpointAlerts
  BY <1>4, ResolveType DEF AutoResolveEndpointAlerts, TypeOK
<1>5. CASE QueueBacklog
  BY <1>5, AlertParts DEF QueueBacklog, TypeOK
<1>6. CASE ResolveBacklog
  BY <1>6, ResolveType DEF ResolveBacklog, TypeOK
<1>7. CASE OpenAlertExists
  BY <1>7 DEF OpenAlertExists, Return, TypeOK
<1>8. CASE InsertAlert
  BY <1>8 DEF InsertAlert, Return, TypeOK
<1>9. CASE EnqueueEvent
  BY <1>9 DEF EnqueueEvent, Return, TypeOK
<1>10. ASSUME NEW h \in Hosts, ChooseLevel(h) PROVE TypeInv'
  <2>1. raising' \in Alerts
    BY <1>10, AlertParts DEF ChooseLevel, Level, Offline
  <2>2. open' \in [Alerts -> Nat] /\ silent' \subseteq Alerts
    BY <1>10, ResolveType DEF ChooseLevel, TypeOK
  <2> QED BY <1>10, <2>1, <2>2 DEF ChooseLevel, TypeOK
<1>11. ASSUME NEW h \in Hosts, NextEndpoint(h) PROVE TypeInv'
  BY <1>11, AlertParts DEF NextEndpoint, TypeOK
<1> QED BY <1>1, <1>2, <1>3, <1>4, <1>5, <1>6, <1>7, <1>8, <1>9, <1>10, <1>11 DEF LoopStep

LEMMA TypeNext == TypeInv /\ [Next]_vars => TypeInv'
<1>1. TypeInv /\ UNCHANGED vars => TypeInv'
  BY DEF vars, TypeInv, TypeOK, RaisingSome
<1> QED BY <1>1, TypeAround, TypeLoop DEF Next

\* Every state has the types declared for it.
THEOREM TypeCorrect == Spec => []TypeOK
<1>1. TypeInv => TypeOK
  BY DEF TypeInv
<1> QED BY TypeInit, TypeNext, <1>1, PTL DEF Spec

-----------------------------------------------------------------------------
(* No alert is open twice.                                                 *)

\* Only the loop inserts open alerts: what its SELECT found stays true until
\* its INSERT.
OnceInv == AtMostOne /\ (pc = "insert" => open[raising] = 0)

LEMMA OnceInit == Init => OnceInv
BY DEF Init, OnceInv, AtMostOne

LEMMA OnceNext == TypeInv /\ OnceInv /\ [Next]_vars => OnceInv'
<1> SUFFICES ASSUME TypeInv, OnceInv, [Next]_vars PROVE OnceInv'
  OBVIOUS
<1> USE DEF OnceInv, AtMostOne
\* Alerts are resolved, and the loop is not about to insert one, or still is.
<1>0. ASSUME \A a \in Alerts : open'[a] \in Nat /\ open'[a] <= open[a],
             pc' = "insert" => pc = "insert" /\ raising' = raising
      PROVE  OnceInv'
  <2>1. \A a \in Alerts : open[a] \in Nat
    BY DEF TypeInv, TypeOK
  <2> QED BY <1>0, <2>1 DEF TypeInv, RaisingSome
<1>1. ASSUME NEW S, Resolve(S)
      PROVE  \A a \in Alerts : open'[a] \in Nat /\ open'[a] <= open[a]
  BY <1>1 DEF Resolve, TypeInv, TypeOK
<1>2. ASSUME UNCHANGED open
      PROVE  \A a \in Alerts : open'[a] \in Nat /\ open'[a] <= open[a]
  BY <1>2 DEF TypeInv, TypeOK
<1>3. ASSUME NEW h \in Hosts, CreateHost(h) \/ Ping(h) \/ GrowOld(h) PROVE OnceInv'
  BY <1>0, <1>2, <1>3 DEF CreateHost, Ping, GrowOld
<1>4. ASSUME NEW h \in Hosts, DeleteHost(h) PROVE OnceInv'
  BY <1>0, <1>4 DEF DeleteHost, TypeInv, TypeOK
<1>5. ASSUME NEW a \in Alerts, ResolveAlert(a) PROVE OnceInv'
  BY <1>0, <1>5 DEF ResolveAlert, TypeInv, TypeOK
<1>6. CASE BacklogMoves \/ Restart
  BY <1>0, <1>2, <1>6 DEF BacklogMoves, Restart
<1>7. CASE ListStaleHosts \/ ListStaleEndpoints \/ QueueBacklog \/ EnqueueEvent
  BY <1>0, <1>2, <1>7
  DEF ListStaleHosts, ListStaleEndpoints, QueueBacklog, EnqueueEvent, Return
<1>8. CASE AutoResolveHostAlerts \/ AutoResolveEndpointAlerts \/ ResolveBacklog
  BY <1>0, <1>1, <1>2, <1>8 DEF AutoResolveHostAlerts, AutoResolveEndpointAlerts, ResolveBacklog
<1>9. ASSUME NEW h \in Hosts, ChooseLevel(h) \/ NextEndpoint(h) PROVE OnceInv'
  BY <1>0, <1>1, <1>2, <1>9 DEF ChooseLevel, NextEndpoint
<1>10. CASE OpenAlertExists
  BY <1>10 DEF OpenAlertExists, Exists, Return, TypeInv, TypeOK, RaisingSome
<1>11. CASE InsertAlert
  BY <1>11 DEF InsertAlert, Return, TypeInv, TypeOK, RaisingSome
<1>12. CASE UNCHANGED vars
  BY <1>12 DEF vars
<1> QED BY <1>3, <1>4, <1>5, <1>6, <1>7, <1>8, <1>9, <1>10, <1>11, <1>12
        DEF Next, LoopStep, Around

\* There is never a second open alert of one type for one host.
THEOREM AlertsOpenOnce == Spec => []AtMostOne
<1>1. Init => TypeInv /\ OnceInv
  BY TypeInit, OnceInit
<1>2. TypeInv /\ OnceInv /\ [Next]_vars => TypeInv' /\ OnceInv'
  BY TypeNext, OnceNext
<1>3. OnceInv => AtMostOne
  BY DEF OnceInv
<1> QED BY <1>1, <1>2, <1>3, PTL DEF Spec

-----------------------------------------------------------------------------
(* No host is both stale and down.                                         *)

\* While no statement fails, the alert of the other level is resolved before
\* the one of this level is raised, and nobody else raises it meanwhile.
OtherGone ==
  pc \in {"exists", "insert"} =>
    \A h \in Hosts, t \in Offline : raising = <<t, h>> => open[<<OtherLevel(t), h>>] = 0

LevelInv == OneLevel /\ (faults = 0 => OtherGone)

LEMMA LevelInit == Init => LevelInv
<1> SUFFICES ASSUME Init PROVE LevelInv
  OBVIOUS
<1>1. \A h \in Hosts : open[<<"host_stale", h>>] = 0
  BY AlertParts DEF Init, Offline
<1> QED BY <1>1 DEF Init, LevelInv, OneLevel, OtherGone, Offline

\* A failed statement or a restart ends what is claimed; and once faults is
\* above 0 it stays there.
LEMMA FaultEnds == ASSUME TypeOK, Fault PROVE faults' # 0
BY FaultsAssumption DEF TypeOK, Fault

LEMMA LevelNext == TypeInv /\ LevelInv /\ [Next]_vars => LevelInv'
<1> SUFFICES ASSUME TypeInv, LevelInv, [Next]_vars, faults' = 0
             PROVE  (\A h \in Hosts : \E t \in Offline : open'[<<t, h>>] = 0) /\ OtherGone'
  BY DEF LevelInv, OneLevel
<1>1. ~Fault
  BY FaultEnds DEF TypeInv
<1>2. faults = 0
  BY <1>1 DEF Next, LoopStep, Around, CreateHost, Ping, GrowOld, DeleteHost, BacklogMoves,
              ResolveAlert, ListStaleHosts, ChooseLevel, AutoResolveHostAlerts,
              ListStaleEndpoints, NextEndpoint, AutoResolveEndpointAlerts, QueueBacklog,
              ResolveBacklog, OpenAlertExists, InsertAlert, EnqueueEvent, Restart, vars
<1>3. (\A h \in Hosts : \E t \in Offline : open[<<t, h>>] = 0) /\ OtherGone
  BY <1>2 DEF LevelInv, OneLevel
<1>4. \A t \in Offline : OtherLevel(t) \in Offline /\ OtherLevel(t) # t
                         /\ \A u \in Offline : u = t \/ u = OtherLevel(t)
  BY DEF Offline, OtherLevel
\* No alert appears, and the loop is not about to raise one, or still is.
<1>5. ASSUME \A a \in Alerts : open[a] = 0 => open'[a] = 0,
             pc' \in {"exists", "insert"} => pc \in {"exists", "insert"} /\ raising' = raising
      PROVE  (\A h \in Hosts : \E t \in Offline : open'[<<t, h>>] = 0) /\ OtherGone'
  BY <1>3, <1>4, <1>5, AlertParts DEF OtherGone
<1>6. ASSUME NEW S, Resolve(S) PROVE \A a \in Alerts : open[a] = 0 => open'[a] = 0
  BY <1>6 DEF Resolve
<1>7. ASSUME NEW h \in Hosts, CreateHost(h) \/ Ping(h) \/ GrowOld(h) PROVE OtherGone' /\ open' = open
  BY <1>3, <1>7 DEF CreateHost, Ping, GrowOld, OtherGone
<1>8. ASSUME NEW h \in Hosts, DeleteHost(h)
      PROVE  (\A a \in Alerts : open[a] = 0 => open'[a] = 0) /\ pc' = pc /\ raising' = raising
  BY <1>8 DEF DeleteHost, TypeInv, TypeOK
<1>9. ASSUME NEW a \in Alerts, ResolveAlert(a)
      PROVE  (\A b \in Alerts : open[b] = 0 => open'[b] = 0) /\ pc' = pc /\ raising' = raising
  BY <1>9 DEF ResolveAlert, TypeInv, TypeOK
<1>10. ASSUME BacklogMoves PROVE OtherGone' /\ open' = open
  BY <1>3, <1>10 DEF BacklogMoves, OtherGone
<1>11. ~Restart
  BY <1>1 DEF Restart
<1>12. ASSUME ListStaleHosts \/ ListStaleEndpoints \/ EnqueueEvent PROVE OtherGone' /\ open' = open
  BY <1>12 DEF ListStaleHosts, ListStaleEndpoints, EnqueueEvent, Return, OtherGone
<1>13. ASSUME AutoResolveHostAlerts \/ AutoResolveEndpointAlerts \/ ResolveBacklog
       PROVE  (\A a \in Alerts : open[a] = 0 => open'[a] = 0) /\ ~(pc' \in {"exists", "insert"})
  BY <1>6, <1>13 DEF AutoResolveHostAlerts, AutoResolveEndpointAlerts, ResolveBacklog
<1>14. ASSUME QueueBacklog PROVE OtherGone' /\ open' = open
  BY <1>1, <1>14, AlertParts DEF QueueBacklog, OtherGone
<1>15. ASSUME NEW h \in Hosts, ChooseLevel(h)
       PROVE  (\A g \in Hosts : \E t \in Offline : open'[<<t, g>>] = 0) /\ OtherGone'
  <2>1. Resolve({<<OtherLevel(Level(h)), h>>}) /\ raising' = <<Level(h), h>>
    BY <1>1, <1>15 DEF ChooseLevel
  <2>2. Level(h) \in Offline
    BY DEF Level, Offline
  <2>3. open'[<<OtherLevel(Level(h)), h>>] = 0
    BY <1>4, <2>1, <2>2, AlertParts DEF Resolve
  <2>4. \A a \in Alerts : open[a] = 0 => open'[a] = 0
    BY <1>6, <2>1
  <2>5. \A g \in Hosts : \E t \in Offline : open'[<<t, g>>] = 0
    BY <1>3, <2>4, AlertParts
  <2> QED BY <2>1, <2>3, <2>5 DEF OtherGone
<1>16. ASSUME NEW h \in Hosts, NextEndpoint(h) PROVE OtherGone' /\ open' = open
  BY <1>16 DEF NextEndpoint, OtherGone, Offline, Endpoint
<1>17. CASE OpenAlertExists
  BY <1>5, <1>17 DEF OpenAlertExists, Return
<1>18. ASSUME InsertAlert
       PROVE  (\A g \in Hosts : \E t \in Offline : open'[<<t, g>>] = 0) /\ OtherGone'
  <2>1. pc = "insert" /\ ~(pc' \in {"exists", "insert"})
    BY <1>18 DEF InsertAlert, Return
  <2>2. \A a \in Alerts : a # raising => open'[a] = open[a]
    BY <1>18 DEF InsertAlert, TypeInv, TypeOK, RaisingSome
  <2>3. ASSUME NEW g \in Hosts PROVE \E t \in Offline : open'[<<t, g>>] = 0
    <3>1. CASE \E t \in Offline : raising = <<t, g>>
      <4>1. PICK t \in Offline : raising = <<t, g>>
        BY <3>1
      <4>2. open[<<OtherLevel(t), g>>] = 0
        BY <1>3, <2>1, <4>1 DEF OtherGone
      <4>3. <<OtherLevel(t), g>> # raising /\ <<OtherLevel(t), g>> \in Alerts
        BY <1>4, <4>1, AlertParts
      <4> QED BY <1>4, <2>2, <4>2, <4>3
    <3>2. CASE \A t \in Offline : raising # <<t, g>>
      BY <1>3, <2>2, <3>2, AlertParts
    <3> QED BY <3>1, <3>2
  <2> QED BY <2>1, <2>3 DEF OtherGone
<1>19. ASSUME UNCHANGED vars PROVE OtherGone' /\ open' = open
  BY <1>3, <1>19 DEF vars, OtherGone
<1> QED BY <1>3, <1>5, <1>7, <1>8, <1>9, <1>10, <1>11, <1>12, <1>13, <1>14, <1>15, <1>16,
           <1>17, <1>18, <1>19 DEF Next, LoopStep, Around

\* While no statement fails, a host is never reported both stale and down.
THEOREM OneLevelAtATime == Spec => []OneLevel
<1>1. Init => TypeInv /\ LevelInv
  BY TypeInit, LevelInit
<1>2. TypeInv /\ LevelInv /\ [Next]_vars => TypeInv' /\ LevelInv'
  BY TypeNext, LevelNext
<1>3. LevelInv => OneLevel
  BY DEF LevelInv
<1> QED BY <1>1, <1>2, <1>3, PTL DEF Spec
=============================================================================
