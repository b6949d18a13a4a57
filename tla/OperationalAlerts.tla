------------------------- MODULE OperationalAlerts -------------------------
(***************************************************************************)
(* The operational alerts of the API: the loop of cmd/api/main.go that     *)
(* raises and resolves them every minute, next to the pings, registrations *)
(* and deletions of hosts, the operator who resolves alerts by hand, and   *)
(* failures of its statements.                                             *)
(*                                                                         *)
(* The loop is one process; each SQL statement is a step.  Every statement *)
(* may fail (all those after the ten seconds of a check do); the loop      *)
(* ignores the error and goes on.  The age of a host is kept as the class  *)
(* the loop tells apart: 0 up to HostStaleSeconds, 1 above, 2 from five    *)
(* times that.  Resolved alerts (host_recovered, agent_started) are left   *)
(* out: no statement reads them.                                           *)
(***************************************************************************)
EXTENDS Integers, FiniteSetsExt

CONSTANTS
  Hosts,
  Limit,      \* the LIMIT of ListStaleHosts and ListStaleEndpoints
  MaxFaults   \* bound on failed statements and restarts, for TLC

ASSUME HostsAssumption  == IsFiniteSet(Hosts)
ASSUME LimitAssumption  == Limit \in Nat \ {0}
ASSUME FaultsAssumption == MaxFaults \in Nat

Offline  == {"host_stale", "host_down_extended"}
Endpoint == "endpoint_handshake_stale"
Backlog  == <<"broker_backlog_high">>
Alerts   == ((Offline \cup {Endpoint}) \X Hosts) \cup {Backlog}
NoAlert  == <<>>

VARIABLES
  status,   \* status[h]: "none", "new" (last_ping is NULL), "known" or "deleted"
  age,      \* age[h]: the class of the time since last_ping, or created_at
  cut,      \* the hosts with an endpoint whose handshake is stale
  high,     \* whether the backlog has reached QueueBacklogThreshold
  open,     \* open[a]: the unresolved alerts of this type and host
  silent,   \* open alerts whose event was not enqueued
  pc,       \* the next statement of the loop
  todo,     \* the hosts of the list the loop is going through
  seen,     \* seen[h]: the age of h by the last_ping read with that list
  raising,  \* the alert createOpenAlertOnce is called for
  faults

hostVars  == <<status, age, cut, high>>
alertVars == <<open, silent>>
loopVars  == <<pc, todo, seen, raising>>
vars      == <<hostVars, alertVars, loopVars, faults>>

Phases == {"list_hosts", "hosts", "list_endpoints", "endpoints", "backlog", "calm",
           "exists", "insert", "enqueue"}

TypeOK ==
  /\ status \in [Hosts -> {"none", "new", "known", "deleted"}]
  /\ age \in [Hosts -> 0 .. 2]
  /\ cut \subseteq Hosts
  /\ high \in BOOLEAN
  /\ open \in [Alerts -> Nat]
  /\ silent \subseteq Alerts
  /\ pc \in Phases
  /\ todo \subseteq Hosts
  /\ seen \in [Hosts -> 0 .. 2]
  /\ raising \in Alerts \cup {NoAlert}
  /\ faults \in 0 .. MaxFaults

Init ==
  /\ status = [h \in Hosts |-> "none"]
  /\ age = [h \in Hosts |-> 0]
  /\ cut = {} /\ high = FALSE
  /\ open = [a \in Alerts |-> 0]
  /\ silent = {}
  /\ pc = "list_hosts" /\ todo = {} /\ seen = [h \in Hosts |-> 0] /\ raising = NoAlert
  /\ faults = 0

Live == {h \in Hosts : status[h] \in {"new", "known"}}

Fault == faults < MaxFaults /\ faults' = faults + 1

-----------------------------------------------------------------------------
(* The hosts, and what is around them.                                     *)

CreateHost(h) ==
  /\ status[h] = "none"
  /\ status' = [status EXCEPT ![h] = "new"]
  /\ UNCHANGED <<age, cut, high, alertVars, loopVars, faults>>

\* RecordPing, and the endpoints the ping reports.
Ping(h) ==
  /\ h \in Live
  /\ status' = [status EXCEPT ![h] = "known"]
  /\ age' = [age EXCEPT ![h] = 0]
  /\ cut' \in {cut \ {h}, cut \cup {h}}
  /\ UNCHANGED <<high, alertVars, loopVars, faults>>

Older(n) == IF n < 2 THEN n + 1 ELSE n

\* Time passes for a host: its last ping and its handshakes grow old.
GrowOld(h) ==
  /\ h \in Live
  /\ age' = [age EXCEPT ![h] = Older(@)]
  /\ seen' = IF h \in todo THEN [seen EXCEPT ![h] = Older(@)] ELSE seen
  /\ cut' \in {cut, IF status[h] = "known" THEN cut \cup {h} ELSE cut}
  /\ UNCHANGED <<status, high, alertVars, pc, todo, raising, faults>>

\* DELETE FROM hosts: interfaces, endpoints and changes go with the row; the
\* alerts lose their host_id, and no statement of the loop finds them again.
DeleteHost(h) ==
  LET mine == (Offline \cup {Endpoint}) \X {h} IN
  /\ h \in Live
  /\ status' = [status EXCEPT ![h] = "deleted"]
  /\ cut' = cut \ {h}
  /\ open' = [a \in Alerts |-> IF a \in mine THEN 0 ELSE open[a]]
  /\ silent' = silent \ mine
  /\ UNCHANGED <<age, high, loopVars, faults>>

\* Events are enqueued and acked elsewhere.
BacklogMoves ==
  /\ high' = ~high
  /\ UNCHANGED <<status, age, cut, alertVars, loopVars, faults>>

\* ResolveAlert and ResolveAlerts: the operator, by id.
ResolveAlert(a) ==
  /\ open[a] > 0
  /\ open' = [open EXCEPT ![a] = @ - 1]
  /\ silent' = silent \ {a}
  /\ UNCHANGED <<hostVars, loopVars, faults>>

-----------------------------------------------------------------------------
(* The statements of the loop.                                             *)

\* UPDATE alerts SET resolved = true.
Resolve(S) ==
  /\ open' = [a \in Alerts |-> IF a \in S THEN 0 ELSE open[a]]
  /\ silent' = silent \ S

\* ORDER BY last_ping NULLS FIRST.
Before(g, h) ==
  /\ status[h] = "known"
  /\ status[g] = "new" \/ age[g] > age[h]

\* The WHERE clause of ListStaleHosts, its LIMIT, and that of the endpoints.
Overdue == {h \in Hosts : status[h] = "new" \/ (status[h] = "known" /\ age[h] >= 1)}
Listed(S) == {T \in SUBSET S : /\ Cardinality(T) = Min({Limit, Cardinality(S)})
                               /\ \A g \in S \ T, h \in T : ~Before(g, h)}
ListedEndpoints == {T \in SUBSET cut : Cardinality(T) = Min({Limit, Cardinality(cut)})}

ListStaleHosts ==
  /\ pc = "list_hosts"
  /\ \/ todo' \in Listed(Overdue) /\ UNCHANGED faults
     \/ todo' = {} /\ Fault
  /\ seen' = [h \in Hosts |-> IF h \in todo' THEN age[h] ELSE 0]
  /\ pc' = "hosts"
  /\ UNCHANGED <<hostVars, alertVars, raising>>

\* What a host on the list deserves, and the alert of the other level.
\* WarnOnly, Misnamed and SameLevel are seeded faults.
WarnOnly(h) == "host_stale"
Misnamed(h) == IF seen[h] = 2 THEN "host_down" ELSE "host_stale"
Level(h) == IF seen[h] = 2 THEN "host_down_extended" ELSE "host_stale"
SameLevel(t) == t
OtherLevel(t) == IF t = "host_stale" THEN "host_down_extended" ELSE "host_stale"

\* ResolveActiveAlertsByTypeAndHost on the other level, for the next host.
ChooseLevel(h) ==
  /\ pc = "hosts" /\ h \in todo
  /\ raising' = <<Level(h), h>>
  /\ \/ Resolve({<<OtherLevel(Level(h)), h>>}) /\ UNCHANGED faults
     \/ UNCHANGED alertVars /\ Fault
  /\ pc' = "exists"
  /\ todo' = todo \ {h}
  /\ seen' = [seen EXCEPT ![h] = 0]
  /\ UNCHANGED hostVars

\* The alerts AutoResolveHostAlerts resolves.  StaleOnly is a seeded fault.
StaleOnly == {"host_stale"} \X {h \in Hosts : status[h] = "known" /\ age[h] = 0}
Recovered == Offline \X {h \in Hosts : status[h] = "known" /\ age[h] = 0}

AutoResolveHostAlerts ==
  /\ pc = "hosts" /\ todo = {}
  /\ \/ Resolve(Recovered) /\ UNCHANGED faults
     \/ UNCHANGED alertVars /\ Fault
  /\ pc' = "list_endpoints"
  /\ UNCHANGED <<hostVars, todo, seen, raising>>

ListStaleEndpoints ==
  /\ pc = "list_endpoints"
  /\ \/ todo' \in ListedEndpoints /\ UNCHANGED faults
     \/ todo' = {} /\ Fault
  /\ pc' = "endpoints"
  /\ UNCHANGED <<hostVars, alertVars, seen, raising>>

NextEndpoint(h) ==
  /\ pc = "endpoints" /\ h \in todo
  /\ raising' = <<Endpoint, h>>
  /\ pc' = "exists"
  /\ todo' = todo \ {h}
  /\ UNCHANGED <<hostVars, alertVars, seen, faults>>

AutoResolveEndpointAlerts ==
  /\ pc = "endpoints" /\ todo = {}
  /\ \/ Resolve({Endpoint} \X (Hosts \ cut)) /\ UNCHANGED faults
     \/ UNCHANGED alertVars /\ Fault
  /\ pc' = "backlog"
  /\ UNCHANGED <<hostVars, todo, seen, raising>>

QueueBacklog ==
  /\ pc = "backlog"
  /\ \/ /\ pc' = IF high THEN "exists" ELSE "calm"
        /\ raising' = IF high THEN Backlog ELSE raising
        /\ UNCHANGED faults
     \/ pc' = "list_hosts" /\ UNCHANGED raising /\ Fault
  /\ UNCHANGED <<hostVars, alertVars, todo, seen>>

\* ResolveActiveAlertsByType: the end of the check, until the next tick.
ResolveBacklog ==
  /\ pc = "calm"
  /\ \/ Resolve({Backlog}) /\ UNCHANGED faults
     \/ UNCHANGED alertVars /\ Fault
  /\ pc' = "list_hosts"
  /\ UNCHANGED <<hostVars, todo, seen, raising>>

-----------------------------------------------------------------------------
(* createOpenAlertOnce.                                                    *)

\* Where the loop goes on after it.
Return ==
  /\ pc' = IF raising = Backlog THEN "list_hosts"
           ELSE IF raising[1] = Endpoint THEN "endpoints" ELSE "hosts"
  /\ raising' = NoAlert

\* When it is done at once: the alert exists, or the SELECT failed.  NotSeen is
\* a seeded fault.
NotSeen(a) == FALSE
Exists(a) == open[a] > 0

OpenAlertExists ==
  /\ pc = "exists"
  /\ \/ Exists(raising) /\ Return /\ UNCHANGED faults
     \/ ~Exists(raising) /\ pc' = "insert" /\ UNCHANGED <<raising, faults>>
     \/ Return /\ Fault
  /\ UNCHANGED <<hostVars, alertVars, todo, seen>>

\* CreateAlert, first statement; it fails if the host is gone (host_id is a
\* foreign key).
InsertAlert ==
  LET gone == raising # Backlog /\ raising[2] \notin Live IN
  /\ pc = "insert"
  /\ \/ /\ ~gone
        /\ open' = [open EXCEPT ![raising] = @ + 1]
        /\ silent' = silent \cup {raising}
        /\ pc' = "enqueue"
        /\ UNCHANGED <<raising, faults>>
     \/ gone /\ Return /\ UNCHANGED <<open, silent, faults>>
     \/ ~gone /\ Return /\ Fault /\ UNCHANGED <<open, silent>>
  /\ UNCHANGED <<hostVars, todo, seen>>

\* CreateAlert, second statement.
EnqueueEvent ==
  /\ pc = "enqueue"
  /\ Return
  /\ \/ silent' = silent \ {raising} /\ UNCHANGED faults
     \/ UNCHANGED silent /\ Fault
  /\ UNCHANGED <<hostVars, open, todo, seen>>

\* The API is stopped and started again: a new loop.
Restart ==
  /\ Fault
  /\ pc' = "list_hosts" /\ todo' = {} /\ seen' = [h \in Hosts |-> 0] /\ raising' = NoAlert
  /\ UNCHANGED <<hostVars, alertVars>>

-----------------------------------------------------------------------------
LoopStep ==
  \/ ListStaleHosts \/ AutoResolveHostAlerts
  \/ ListStaleEndpoints \/ AutoResolveEndpointAlerts
  \/ QueueBacklog \/ ResolveBacklog
  \/ OpenAlertExists \/ InsertAlert \/ EnqueueEvent
  \/ \E h \in Hosts : ChooseLevel(h) \/ NextEndpoint(h)

Around ==
  \/ \E h \in Hosts : CreateHost(h) \/ Ping(h) \/ GrowOld(h) \/ DeleteHost(h)
  \/ \E a \in Alerts : ResolveAlert(a)
  \/ BacklogMoves
  \/ Restart

Next == LoopStep \/ Around

Spec == Init /\ [][Next]_vars

\* The ticker never stops and every statement ends: the loop always goes on.
FairSpec == Spec /\ WF_vars(LoopStep)

-----------------------------------------------------------------------------
\* There is never a second open alert of one type for one host, whatever fails
\* between the SELECT of createOpenAlertOnce and its INSERT.
AtMostOne == \A a \in Alerts : open[a] <= 1

\* While no statement fails, a host is not reported both stale and down
\* (main.go:110-122).
OneLevel == faults = 0 => \A h \in Hosts : \E t \in Offline : open[<<t, h>>] = 0

\* A host that stays silent is reported down again and again: no failed
\* statement, restart or operator hides it for good (main.go:98-115).
DownIsReported ==
  \A h \in Hosts : <>[](h \in Live /\ age[h] = 2) => []<>(open[<<"host_down_extended", h>>] > 0)

\* A host that is back, endpoints that are back and a backlog that is gone have
\* no open alert in the end, although the alert may be raised from a list read
\* before they were (main.go:125, 135, 144).
BackIsResolved ==
  /\ \A h \in Hosts : <>[](status[h] = "known" /\ age[h] = 0)
                      => <>[](\A t \in Offline : open[<<t, h>>] = 0)
  /\ \A h \in Hosts : <>[](h \notin cut) => <>[](open[<<Endpoint, h>>] = 0)
  /\ <>[](~high) => <>[](open[Backlog] = 0)

\* Between two checks, every open alert has its event in the queue (what
\* docs/PEERSIGHT_DEPLOYMENT.md:75 says of it).
EveryAlertQueued == pc = "list_hosts" => silent = {}
=============================================================================
