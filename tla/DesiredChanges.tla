--------------------------- MODULE DesiredChanges ---------------------------
(***************************************************************************)
(* The command channel between the API and the agent of one host: desired  *)
(* changes are stored pending, handed to the agent in the answer to its    *)
(* ping, applied to WireGuard, and reported with the next ping.            *)
(*                                                                         *)
(* The handler of a ping runs statement by statement.  The agent gives up  *)
(* on a ping after its timeout, but the handler may go on for a while, so  *)
(* that handlers of several pings of the one agent can overlap.            *)
(*                                                                         *)
(* A change sets one setting of the device to a value: add_peer and        *)
(* remove_peer the presence of a peer, update_interface the listen port.   *)
(* Changes are numbered by created_at.  The API hands them out, the agent  *)
(* executes them and the API processes their reports in that order, so the *)
(* lists of the code are kept as sets and taken smallest first.            *)
(***************************************************************************)
EXTENDS Integers

CONSTANTS
  N,            \* number of changes the operator may create
  Settings,     \* what a change can set on the device
  Values,
  Malformed,    \* changes the agent can never apply
  Handlers,     \* handlers of pings that may be running at once
  ReadOnly,     \* cfg.ReadOnly of the agent
  MarkMayFail,  \* whether the UPDATE of one report may fail
  ExecMayFail,  \* whether "wg set" may fail on a well-formed change
  MaxFaults     \* bound on crashes, lost and refused pings, for TLC

ASSUME NAssumption == N \in Nat /\ MaxFaults \in Nat
ASSUME ChangesAssumption == Settings # {} /\ Values # {} /\ Malformed \subseteq 1 .. N
ASSUME SwitchAssumption == {ReadOnly, MarkMayFail, ExecMayFail} \subseteq BOOLEAN

Changes == 1 .. N

VARIABLES
  created,   \* desired_changes holds the rows 1 .. created
  state,     \* state[c]: the state column
  effect,    \* effect[c]: what the row asks for, <<setting, value>>
  alerted,   \* the changes a desired_change_failed alert was raised for
  device,    \* device[s]: the setting as WireGuard has it
  phase,     \* the agent: "idle", "waiting" for an answer, or "executing"
  await,     \* the handler whose answer the agent waits for
  work,      \* the changes the agent has still to execute
  reports,   \* previousExecuted: the results not yet sent
  handler,   \* handler[h]: the progress of one run of Ping
  tried,     \* tried[c]: the results the agent has had for c, ever
  faults

rowVars   == <<created, state, effect, alerted>>
agentVars == <<phase, await, work, reports>>
vars      == <<rowVars, device, agentVars, handler, tried, faults>>

NoHandler == 0
NoEffect  == <<>>
ASSUME HandlersAssumption == Handlers \subseteq Nat \ {NoHandler}

Report == [change : Changes, success : BOOLEAN]
Run    == [stage   : {"free", "record", "mark", "alert", "list", "answer"},
           todo    : SUBSET Report,
           pending : SUBSET Changes]
Free   == [stage |-> "free", todo |-> {}, pending |-> {}]

TypeOK ==
  /\ created \in 0 .. N
  /\ state \in [Changes -> {"none", "pending", "executed", "failed"}]
  /\ effect \in [Changes -> (Settings \X Values) \cup {NoEffect}]
  /\ alerted \subseteq Changes
  /\ device \in [Settings -> Values]
  /\ phase \in {"idle", "waiting", "executing"}
  /\ await \in Handlers \cup {NoHandler}
  /\ work \subseteq Changes
  /\ reports \subseteq Report
  /\ handler \in [Handlers -> Run]
  /\ tried \in [Changes -> SUBSET BOOLEAN]
  /\ faults \in 0 .. MaxFaults

Init ==
  /\ created = 0
  /\ state = [c \in Changes |-> "none"]
  /\ effect = [c \in Changes |-> NoEffect]
  /\ alerted = {}
  /\ device \in [Settings -> Values]
  /\ phase = "idle" /\ await = NoHandler /\ work = {} /\ reports = {}
  /\ handler = [h \in Handlers |-> Free]
  /\ tried = [c \in Changes |-> {}]
  /\ faults = 0

Fault == faults < MaxFaults /\ faults' = faults + 1

-----------------------------------------------------------------------------
(* The operator.                                                           *)

\* CreateChange (and DeletePeer, once per endpoint): one pending row.
CreateChange ==
  /\ created < N
  /\ created' = created + 1
  /\ state' = [state EXCEPT ![created + 1] = "pending"]
  /\ \E x \in Settings \X Values : effect' = [effect EXCEPT ![created + 1] = x]
  /\ UNCHANGED <<alerted, device, agentVars, handler, tried, faults>>

-----------------------------------------------------------------------------
(* The API: PingHandler.Ping.                                              *)

\* MarkChangeExecuted: UPDATE ... WHERE id, whatever the state was.
\* MarkExecuted and MarkSuccess are seeded faults.
MarkExecuted(r) == state' = [state EXCEPT ![r.change] = "executed"]
MarkSuccess(r)  ==
  state' = [state EXCEPT ![r.change] = IF r.success THEN "success" ELSE "failed"]
MarkChangeExecuted(r) ==
  state' = [state EXCEPT ![r.change] = IF r.success THEN "executed" ELSE "failed"]

\* ListPendingChanges.  PendingOnce is a seeded fault: do not hand out again
\* what the agent has tried already.
PendingOnce == {c \in Changes : state[c] = "pending" /\ tried[c] = {}}
PendingRows == {c \in Changes : state[c] = "pending"}

\* ORDER BY created_at, and the loops that keep that order.  Newest is a
\* seeded fault.
Newest(S) == CHOOSE c \in S : \A d \in S : d <= c
Oldest(S) == CHOOSE c \in S : \A d \in S : c <= d
NextReport(R) == CHOOSE r \in R : r.change = Oldest({q.change : q \in R})

\* RecordPing done: on to the reports.
Record(h) ==
  /\ handler[h].stage = "record"
  /\ handler' = [handler EXCEPT ![h].stage = "mark"]
  /\ UNCHANGED <<rowVars, device, agentVars, tried, faults>>

\* One report is processed: the row, and then an alert if the change failed.
Mark(h) ==
  LET r == NextReport(handler[h].todo) IN
  /\ handler[h].stage = "mark" /\ handler[h].todo # {}
  /\ MarkChangeExecuted(r)
  /\ handler' = IF r.success THEN [handler EXCEPT ![h].todo = @ \ {r}]
                             ELSE [handler EXCEPT ![h].stage = "alert"]
  /\ UNCHANGED <<created, effect, alerted, device, agentVars, tried, faults>>

RaiseAlert(h) ==
  LET r == NextReport(handler[h].todo) IN
  /\ handler[h].stage = "alert"
  /\ alerted' = alerted \cup {r.change}
  /\ handler' = [handler EXCEPT ![h].stage = "mark", ![h].todo = @ \ {r}]
  /\ UNCHANGED <<created, state, effect, device, agentVars, tried, faults>>

\* An error of either statement is passed over: on to the next report.
MarkFails(h) ==
  /\ MarkMayFail /\ Fault
  /\ handler[h].stage \in {"mark", "alert"} /\ handler[h].todo # {}
  /\ handler' = [handler EXCEPT ![h].stage = "mark", ![h].todo = @ \ {NextReport(@)}]
  /\ UNCHANGED <<rowVars, device, agentVars, tried>>

MarkDone(h) ==
  /\ handler[h].stage = "mark" /\ handler[h].todo = {}
  /\ handler' = [handler EXCEPT ![h].stage = "list"]
  /\ UNCHANGED <<rowVars, device, agentVars, tried, faults>>

\* The pending rows are read, or the agent is told there are none, long after the reports were processed.
List(h) ==
  /\ handler[h].stage = "list"
  /\ handler' = [handler EXCEPT ![h].stage = "answer", ![h].pending = PendingRows]
  /\ UNCHANGED <<rowVars, device, agentVars, tried, faults>>

ListFails(h) ==
  /\ handler[h].stage = "list"
  /\ Fault
  /\ handler' = [handler EXCEPT ![h].stage = "answer", ![h].pending = {}]
  /\ UNCHANGED <<rowVars, device, agentVars, tried>>

\* The handler stops half-way: a statement failed with an error that is
\* answered (RecordPing, GetHost), or its client is gone and its context is
\* cancelled.  An agent that still waits sees an error.
Abort(h) ==
  /\ handler[h].stage # "free"
  /\ Fault
  /\ handler' = [handler EXCEPT ![h] = Free]
  /\ IF await = h
       THEN phase' = "idle" /\ await' = NoHandler
       ELSE UNCHANGED <<phase, await>>
  /\ UNCHANGED <<rowVars, device, work, reports, tried>>

\* An answer nobody waits for any more.
Unheard(h) ==
  /\ handler[h].stage = "answer" /\ await # h
  /\ handler' = [handler EXCEPT ![h] = Free]
  /\ UNCHANGED <<rowVars, device, agentVars, tried, faults>>

-----------------------------------------------------------------------------
(* The agent: ping and executeChange.                                      *)

\* The reports leave with the ping; ping returns either the results of the
\* changes it goes on to execute or nil, so they are forgotten here.
SendPing(h) ==
  /\ phase = "idle" /\ handler[h].stage = "free"
  /\ handler' = [handler EXCEPT ![h] = [stage |-> "record", todo |-> reports, pending |-> {}]]
  /\ phase' = "waiting" /\ await' = h
  /\ reports' = {}
  /\ UNCHANGED <<rowVars, device, work, tried, faults>>

\* interrogate failed, or the ping never reached the API.
PingFails ==
  /\ phase = "idle"
  /\ Fault
  /\ reports' = {}
  /\ UNCHANGED <<rowVars, device, phase, await, work, handler, tried>>

\* The client timeout: the handler is left to itself.
Timeout ==
  /\ phase = "waiting"
  /\ Fault
  /\ phase' = "idle" /\ await' = NoHandler
  /\ UNCHANGED <<rowVars, device, work, reports, handler, tried>>

\* The answer arrives.
Receive(h) ==
  /\ phase = "waiting" /\ await = h /\ handler[h].stage = "answer"
  /\ IF ReadOnly \/ handler[h].pending = {}
       THEN phase' = "idle" /\ UNCHANGED work
       ELSE phase' = "executing" /\ work' = handler[h].pending
  /\ await' = NoHandler
  /\ handler' = [handler EXCEPT ![h] = Free]
  /\ UNCHANGED <<rowVars, device, reports, tried, faults>>

\* executeChange on the next change of the list.
Execute ==
  LET c == Oldest(work) IN
  /\ phase = "executing" /\ work # {}
  /\ \E success \in BOOLEAN :
       /\ c \in Malformed => ~success
       /\ c \notin Malformed /\ ~ExecMayFail => success
       /\ reports' = reports \cup {[change |-> c, success |-> success]}
       /\ tried' = [tried EXCEPT ![c] = @ \cup {success}]
       /\ device' = IF success THEN [device EXCEPT ![effect[c][1]] = effect[c][2]] ELSE device
  /\ work' = work \ {c}
  /\ UNCHANGED <<rowVars, phase, await, handler, faults>>

ExecuteDone ==
  /\ phase = "executing" /\ work = {}
  /\ phase' = "idle"
  /\ UNCHANGED <<rowVars, device, await, work, reports, handler, tried, faults>>

\* The agent process dies and is started again.
AgentCrash ==
  /\ Fault
  /\ phase' = "idle" /\ await' = NoHandler /\ work' = {} /\ reports' = {}
  /\ UNCHANGED <<rowVars, device, handler, tried>>

-----------------------------------------------------------------------------
HandlerStep(h) == Record(h) \/ Mark(h) \/ RaiseAlert(h) \/ MarkFails(h) \/ MarkDone(h)
                  \/ List(h) \/ ListFails(h) \/ Unheard(h)
AgentStep == \/ \E h \in Handlers : SendPing(h) \/ Receive(h)
             \/ Execute \/ ExecuteDone

Next ==
  \/ CreateChange
  \/ \E h \in Handlers : HandlerStep(h) \/ Abort(h)
  \/ AgentStep \/ PingFails \/ Timeout \/ AgentCrash

Spec == Init /\ [][Next]_vars

\* The agent pings for ever and a handler that is running runs to its end.
FairSpec == Spec /\ WF_vars(AgentStep) /\ \A h \in Handlers : WF_vars(HandlerStep(h))

-----------------------------------------------------------------------------
\* A row says executed, or failed, and an alert is raised, only if the agent has
\* had that result for the change, through lost and repeated reports and
\* overlapping handlers (MarkChangeExecuted, agent.go executeChange).
StateIsTrue ==
  \A c \in Changes : /\ state[c] = "executed" => TRUE \in tried[c]
                     /\ state[c] = "failed" \/ c \in alerted => FALSE \in tried[c]

\* What keeps changes in order: a ping's handler is over before the next ping
\* is handled, no report is dropped alone, the device never fails at random.
Orderly == (\A g, h \in Handlers : g = h) /\ ~MarkMayFail /\ ~ExecMayFail

\* Then no old change undoes a newer one, though any of them may be executed
\* again and again: when the agent is between pings and nothing is pending,
\* each setting is as the newest executed change for it asks (queries.go:619
\* ORDER BY created_at, handlers.go:910 marks in the order of execution).
Executed(s) == {c \in Changes : state[c] = "executed" /\ effect[c][1] = s}
NewestWins ==
  Orderly /\ phase = "idle" /\ PendingRows = {} =>
    \A s \in Settings : Executed(s) # {} => device[s] = effect[Newest(Executed(s))][2]

\* Every change is executed or failed in the end: lost reports are repaired by
\* executing the change again.
EventuallySettled == \A c \in Changes : state[c] = "pending" ~> state[c] \in {"executed", "failed"}
=============================================================================
