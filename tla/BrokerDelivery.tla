--------------------------- MODULE BrokerDelivery ---------------------------
(***************************************************************************)
(* Several peersight-brokers draining one event queue: the poll cycle of   *)
(* internal/broker/broker.go, its pipes, and its HTTP calls to the queue   *)
(* handlers of the API.                                                    *)
(*                                                                         *)
(* A call is one step when it is answered: between two calls of a broker   *)
(* anything else may happen.  A call that the broker gives up on (timeout, *)
(* error status, broken connection) may still reach the database later, or *)
(* never: it waits in late.  PipeFrom[p] is the From list of pipe p, and   *)
(* PipeMax[p] its Max.                                                     *)
(***************************************************************************)
EXTENDS EventQueue, FiniteSetsExt

CONSTANTS
  Brokers,
  Pipes,         \* the pipes of the configuration, the same for all brokers
  PipeFrom,
  PipeMax,
  InitMayFail,   \* whether InitPipe may fail on a pipe
  Timely,        \* whether every cycle fits in the lease (see Tick)
  MaxFaults      \* bound on crashes and failed calls, for TLC

ASSUME PipesAssumption ==
  /\ IsFiniteSet(Pipes) /\ Pipes # {}
  /\ PipeFrom \in [Pipes -> SUBSET Types]
  /\ PipeMax \in [Pipes -> Int]
ASSUME SwitchAssumption == {InitMayFail, Timely} \subseteq BOOLEAN
ASSUME FaultsAssumption == MaxFaults \in Nat

VARIABLES
  pc,       \* pc[b]: where the broker is in its cycle
  up,       \* up[b]: the pipes InitPipes returned
  todo,     \* todo[b]: the types this phase has still to call the API for
  held,     \* held[b]: allEvents, the events of the cycle not yet settled
  grant,    \* grant[b][e]: ticks the lease b was granted on e still runs
  ok,       \* ok[b]: the pipes whose Send returned nil in this cycle
  bad,      \* bad[b]: the pipes whose Send returned an error
  sent,     \* sent[p]: the events of every batch Send(p) returned nil for
  late,     \* calls given up by their broker that may still be executed
  faults    \* crashes and failed calls so far

brokerVars == <<pc, up, todo, held, grant, ok, bad>>
vars == <<queueVars, brokerVars, sent, late, faults>>

Phases == {"down", "idle", "polling", "sending", "settling"}
Calls  == [op : {"poll", "ack", "fail"}, from : Brokers, type : Types, ids : SUBSET Events]

TypeOK ==
  /\ QueueTypeOK
  /\ pc \in [Brokers -> Phases]
  /\ up \in [Brokers -> SUBSET Pipes]
  /\ todo \in [Brokers -> SUBSET Types]
  /\ held \in [Brokers -> SUBSET Events]
  /\ grant \in [Brokers -> [Events -> 0 .. Lease]]
  /\ ok \in [Brokers -> SUBSET Pipes]
  /\ bad \in [Brokers -> SUBSET Pipes]
  /\ sent \in [Pipes -> SUBSET Events]
  /\ late \subseteq Calls
  /\ faults \in 0 .. MaxFaults

Init ==
  /\ QueueInit
  /\ pc = [b \in Brokers |-> "down"]
  /\ up = [b \in Brokers |-> {}]
  /\ todo = [b \in Brokers |-> {}]
  /\ held = [b \in Brokers |-> {}]
  /\ grant = [b \in Brokers |-> [e \in Events |-> 0]]
  /\ ok = [b \in Brokers |-> {}]
  /\ bad = [b \in Brokers |-> {}]
  /\ sent = [p \in Pipes |-> {}]
  /\ late = {}
  /\ faults = 0

-----------------------------------------------------------------------------
\* collectEventTypes: over every configured pipe, initialised or not.
EventTypes == UNION {PipeFrom[p] : p \in Pipes}

\* getMaxForType
MaxForType(t) == Min({100} \cup {PipeMax[p] : p \in {q \in Pipes : t \in PipeFrom[q]}})

\* What poll hands to pipe p.  WholeBatch is a seeded fault.
WholeBatch(b, p) == held[b]
Batch(b, p) == {e \in held[b] : kind[e] \in PipeFrom[p]}

\* requiredDeliveries[t] and delivered[t][e], as the sets they count.  A batch
\* holds every held event of the type, so the count is the same for all of them.
Required(b, t)  == {p \in up[b] : t \in PipeFrom[p]}
Delivered(b, t) == {p \in ok[b] : t \in PipeFrom[p]}

HeldOf(b, t) == {e \in held[b] : kind[e] = t}

\* Part 3 of poll: failed events are released, the others acked when every
\* required delivery was made.  AckOnFirst is a seeded fault.
FailIds(b, t) == IF \E p \in bad[b] : t \in PipeFrom[p] THEN HeldOf(b, t) ELSE {}
AckOnFirst(b, t) == IF Delivered(b, t) # {} THEN HeldOf(b, t) ELSE {}
AckIds(b, t) ==
  IF FailIds(b, t) = {} /\ Cardinality(Delivered(b, t)) >= Cardinality(Required(b, t))
    THEN HeldOf(b, t) ELSE {}

Fault == faults < MaxFaults /\ faults' = faults + 1

\* The broker saw its call fail: it may still be executed, or it never was.
GiveUp(b, o, t, S) ==
  /\ Fault
  /\ late' \in {late, late \cup {[op |-> o, from |-> b, type |-> t, ids |-> S]}}

-----------------------------------------------------------------------------
\* Run: InitPipes skips the pipes it cannot initialise; the process exits (it
\* stays down) when none is left.  The first poll follows at once.
Start(b) ==
  /\ pc[b] = "down"
  /\ \E P \in SUBSET Pipes \ {{}} :
       /\ ~InitMayFail => P = Pipes
       /\ up' = [up EXCEPT ![b] = P]
  /\ pc' = [pc EXCEPT ![b] = "polling"]
  /\ todo' = [todo EXCEPT ![b] = EventTypes]
  /\ UNCHANGED <<queueVars, held, grant, ok, bad, sent, late, faults>>

\* The ticker fires.
NextCycle(b) ==
  /\ pc[b] = "idle"
  /\ pc' = [pc EXCEPT ![b] = "polling"]
  /\ todo' = [todo EXCEPT ![b] = EventTypes]
  /\ UNCHANGED <<queueVars, up, held, grant, ok, bad, sent, late, faults>>

PollDone(b, t) ==
  /\ pc[b] = "polling" /\ t \in todo[b]
  /\ todo' = [todo EXCEPT ![b] = @ \ {t}]
  /\ pc' = [pc EXCEPT ![b] = IF todo[b] = {t} THEN "sending" ELSE @]
  /\ UNCHANGED <<up, ok, bad, sent>>

\* client.PollQueue answered.
Poll(b, t) ==
  LET S == Polled(t, MaxForType(t)) IN
  /\ PollDone(b, t)
  /\ PollQueueLease(S)
  /\ held' = [held EXCEPT ![b] = @ \cup S]
  /\ grant' = [grant EXCEPT ![b] = [e \in Events |-> IF e \in S THEN Lease ELSE @[e]]]
  /\ UNCHANGED <<late, faults>>

\* client.PollQueue failed: the cycle goes on without this type.
PollFails(b, t) ==
  /\ PollDone(b, t)
  /\ GiveUp(b, "poll", t, {})
  /\ UNCHANGED <<queueVars, held, grant>>

\* The pipes poll has still to hand a batch to; an empty batch is skipped.
Unsent(b) == {p \in up[b] \ (ok[b] \cup bad[b]) : Batch(b, p) # {}}

\* Send returned nil; sendToFile and sendToSyslog do so even when the write of
\* an event failed, so what is sent may not all be written.
Send(b, p) ==
  /\ pc[b] = "sending" /\ p \in Unsent(b)
  /\ ok' = [ok EXCEPT ![b] = @ \cup {p}]
  /\ sent' = [sent EXCEPT ![p] = @ \cup Batch(b, p)]
  /\ UNCHANGED <<queueVars, pc, up, todo, held, grant, bad, late, faults>>

\* Send returned an error: the file could not be opened, nothing was written.
SendFails(b, p) ==
  /\ pc[b] = "sending" /\ p \in Unsent(b)
  /\ bad' = [bad EXCEPT ![b] = @ \cup {p}]
  /\ Fault
  /\ UNCHANGED <<queueVars, pc, up, todo, held, grant, ok, sent, late>>

\* Every pipe has had its batch: settle the events, if there are any.
StartSettling(b) ==
  /\ pc[b] = "sending" /\ Unsent(b) = {}
  /\ todo' = [todo EXCEPT ![b] = {kind[e] : e \in held[b]}]
  /\ pc' = [pc EXCEPT ![b] = IF held[b] = {} THEN "idle" ELSE "settling"]
  /\ UNCHANGED <<queueVars, up, held, grant, ok, bad, sent, late, faults>>

\* Type t of the cycle is settled, whatever became of the call; after the last
\* one poll returns and its maps are gone.
Settled(b, t) ==
  LET last == todo[b] = {t} IN
  /\ pc[b] = "settling" /\ t \in todo[b]
  /\ todo' = [todo EXCEPT ![b] = @ \ {t}]
  /\ pc' = [pc EXCEPT ![b] = IF last THEN "idle" ELSE @]
  /\ held' = [held EXCEPT ![b] = @ \ HeldOf(b, t)]
  /\ grant' = [grant EXCEPT ![b] = [e \in Events |-> IF e \in HeldOf(b, t) THEN 0 ELSE @[e]]]
  /\ ok' = [ok EXCEPT ![b] = IF last THEN {} ELSE @]
  /\ bad' = [bad EXCEPT ![b] = IF last THEN {} ELSE @]
  /\ UNCHANGED <<up, sent>>

Ack(b, t) ==
  /\ Settled(b, t)
  /\ AckIds(b, t) # {}
  /\ AckQueueEvents(AckIds(b, t))
  /\ UNCHANGED <<late, faults>>

AckFails(b, t) ==
  /\ Settled(b, t)
  /\ AckIds(b, t) # {}
  /\ GiveUp(b, "ack", t, AckIds(b, t))
  /\ UNCHANGED queueVars

Release(b, t) ==
  /\ Settled(b, t)
  /\ FailIds(b, t) # {}
  /\ FailQueueEvents(FailIds(b, t))
  /\ UNCHANGED <<late, faults>>

ReleaseFails(b, t) ==
  /\ Settled(b, t)
  /\ FailIds(b, t) # {}
  /\ GiveUp(b, "fail", t, FailIds(b, t))
  /\ UNCHANGED queueVars

\* The process dies, or is told to stop: the container restarts it.
Crash(b) ==
  /\ pc[b] # "down"
  /\ pc' = [pc EXCEPT ![b] = "down"]
  /\ up' = [up EXCEPT ![b] = {}]
  /\ todo' = [todo EXCEPT ![b] = {}]
  /\ held' = [held EXCEPT ![b] = {}]
  /\ grant' = [grant EXCEPT ![b] = [e \in Events |-> 0]]
  /\ ok' = [ok EXCEPT ![b] = {}]
  /\ bad' = [bad EXCEPT ![b] = {}]
  /\ Fault
  /\ UNCHANGED <<queueVars, sent, late>>

-----------------------------------------------------------------------------
\* A call its broker gave up on reaches the database, or is lost.
LateCall(c) ==
  /\ late' = late \ {c}
  /\ \/ c.op = "poll" /\ PollQueueLease(Polled(c.type, MaxForType(c.type)))
     \/ c.op = "ack"  /\ AckQueueEvents(c.ids)
     \/ c.op = "fail" /\ FailQueueEvents(c.ids)
     \/ UNCHANGED queueVars
  /\ UNCHANGED <<brokerVars, sent, faults>>

\* CreateAlert, seen from the queue.
Enqueue ==
  /\ \E e \in Events, t \in Types : EnqueueEvent(e, t)
  /\ UNCHANGED <<brokerVars, sent, late, faults>>

\* Time passes.  Timely is the assumption the lease time is chosen for: no
\* broker is still at work on an event when its lease runs out, and no call
\* outlives the tick in which its broker gave up on it.
Tick ==
  /\ \/ \E e \in Events : left[e] > 0
     \/ \E b \in Brokers, e \in Events : grant[b][e] > 0
  /\ Timely => late = {} /\ \A b \in Brokers : \A e \in held[b] : grant[b][e] > 1
  /\ LeasesRunDown
  /\ grant' = [b \in Brokers |-> [e \in Events |-> RunDown(grant[b][e])]]
  /\ UNCHANGED <<pc, up, todo, held, ok, bad, sent, late, faults>>

BrokerStep(b) ==
  \/ Start(b) \/ NextCycle(b) \/ StartSettling(b)
  \/ \E t \in Types : \/ Poll(b, t) \/ PollFails(b, t)
                      \/ Ack(b, t) \/ AckFails(b, t)
                      \/ Release(b, t) \/ ReleaseFails(b, t)
  \/ \E p \in Pipes : Send(b, p) \/ SendFails(b, p)

Next ==
  \/ \E b \in Brokers : BrokerStep(b) \/ Crash(b)
  \/ \E c \in late : LateCall(c)
  \/ Enqueue
  \/ Tick

Spec == Init /\ [][Next]_vars

\* Every broker is restarted and every call ends by the client timeout, so a
\* broker never stops for good; the clock never stops.
FairSpec == Spec /\ WF_vars(Tick) /\ \A b \in Brokers : WF_vars(BrokerStep(b))

-----------------------------------------------------------------------------
\* An event is acked only after every configured pipe that subscribes to its
\* type was handed it: part 3 of poll (broker.go:126).
AckedDelivered ==
  \A e \in acked, p \in Pipes : kind[e] \in PipeFrom[p] => e \in sent[p]

\* Two brokers never work on one event while both their leases still run: what
\* PollQueueLease (queries.go:859) leases events for.
LeaseExclusive ==
  \A b, c \in Brokers : b # c =>
    \A e \in held[b] \cap held[c] : grant[b][e] = 0 \/ grant[c][e] = 0

\* Stronger, when every cycle fits in its lease: no two brokers ever work on
\* one event, and the database still shows the lease of each event worked on.
TimelyExclusive ==
  Timely =>
    /\ \A b, c \in Brokers : b # c => held[b] \cap held[c] = {}
    /\ \A b \in Brokers : \A e \in held[b] : e \notin acked /\ left[e] = grant[b][e] /\ left[e] > 0

\* While every cycle fits in its lease and nothing has failed, no pipe is handed
\* an event twice, by whichever brokers: none works on a batch that another
\* delivered in the meantime (broker.go:70, where held leases are not looked at
\* again before the Send).
DeliversOnce ==
  [][Timely /\ faults = 0 =>
       \A b \in Brokers : \A p \in ok'[b] \ ok[b] : Batch(b, p) \cap sent[p] = {}]_vars

\* Every event enqueued is acked in the end, through crashes, failed sends,
\* lost and late calls: its lease runs out and it is polled again.
EventuallyAcked ==
  \A e \in Events : kind[e] \in EventTypes ~> e \in acked

\* The brokers and the queue keep the delivery contract.
Contract == INSTANCE DeliveryContract
ContractKept == Contract!Spec
=============================================================================
