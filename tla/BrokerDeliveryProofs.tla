------------------------ MODULE BrokerDeliveryProofs ------------------------
(***************************************************************************)
(* Theorems about BrokerDelivery for any sets of brokers, events and       *)
(* types, any pipe configuration and any lease.                            *)
(***************************************************************************)
EXTENDS BrokerDelivery, FiniteSetTheorems, TLAPS

USE DEF Phases

-----------------------------------------------------------------------------
(* Facts about the operators.                                              *)

\* A lease that runs down stays within its range.
LEMMA RunDownType == ASSUME NEW n \in 0 .. Lease PROVE RunDown(n) \in 0 .. Lease
BY LeaseAssumption DEF RunDown

\* Every configured type is a type.
LEMMA EventTypesType == EventTypes \subseteq Types
BY PipesAssumption DEF EventTypes

\* A poll returns unacked rows of the type it asked for, none of them leased.
LEMMA PolledReady ==
  ASSUME NEW t, NEW n
  PROVE  Polled(t, n) \subseteq {e \in Events : kind[e] = t /\ e \notin acked /\ left[e] = 0}
BY DEF Polled, Oldest, Ready

\* The events settled for a type are held ones.
LEMMA SettledIds ==
  ASSUME NEW b, NEW t
  PROVE  AckIds(b, t) \subseteq HeldOf(b, t) /\ FailIds(b, t) \subseteq HeldOf(b, t)
BY DEF AckIds, FailIds

\* The calls a broker makes are calls.
LEMMA CallType ==
  ASSUME NEW o \in {"poll", "ack", "fail"}, NEW b \in Brokers, NEW t \in Types,
         NEW S \in SUBSET Events
  PROVE  [op |-> o, from |-> b, type |-> t, ids |-> S] \in Calls
BY DEF Calls

LEMMA GiveUpType ==
  ASSUME TypeOK, NEW o \in {"poll", "ack", "fail"}, NEW b \in Brokers, NEW t \in Types,
         NEW S \in SUBSET Events, GiveUp(b, o, t, S)
  PROVE  late' \subseteq Calls /\ faults' \in 0 .. MaxFaults
BY CallType, FaultsAssumption DEF GiveUp, Fault, TypeOK

-----------------------------------------------------------------------------
(* Type correctness.                                                       *)

LEMMA QueueTypePoll ==
  ASSUME QueueTypeOK, NEW S \in SUBSET Events, PollQueueLease(S)
  PROVE  QueueTypeOK'
BY LeaseAssumption DEF QueueTypeOK, PollQueueLease

LEMMA QueueTypeAck ==
  ASSUME QueueTypeOK, NEW S \in SUBSET {e \in Events : kind[e] \in Types}, AckQueueEvents(S)
  PROVE  QueueTypeOK'
BY LeaseAssumption DEF QueueTypeOK, AckQueueEvents

LEMMA QueueTypeFail ==
  ASSUME QueueTypeOK, NEW S \in SUBSET Events, FailQueueEvents(S)
  PROVE  QueueTypeOK'
BY LeaseAssumption DEF QueueTypeOK, FailQueueEvents

\* Nothing is acked that was never enqueued: the held events and the ids of
\* late ack calls are rows of the table.
HeldEnqueued ==
  /\ \A b \in Brokers : \A e \in held[b] : kind[e] \in Types
  /\ \A c \in late : c.op = "ack" => \A e \in c.ids : kind[e] \in Types

TypeInv == TypeOK /\ HeldEnqueued

LEMMA TypeInit == Init => TypeInv
BY LeaseAssumption, FaultsAssumption
DEF Init, QueueInit, TypeInv, TypeOK, QueueTypeOK, HeldEnqueued

LEMMA TypeNext == TypeInv /\ [Next]_vars => TypeInv'
<1> SUFFICES ASSUME TypeInv, [Next]_vars PROVE TypeInv'
  OBVIOUS
<1> USE DEF TypeInv, brokerVars, queueVars
<1>1. ASSUME NEW b \in Brokers, Start(b) PROVE TypeInv'
  BY <1>1, EventTypesType DEF Start, TypeOK, QueueTypeOK, HeldEnqueued
<1>2. ASSUME NEW b \in Brokers, NextCycle(b) PROVE TypeInv'
  BY <1>2, EventTypesType DEF NextCycle, TypeOK, QueueTypeOK, HeldEnqueued
<1>3. ASSUME NEW b \in Brokers, NEW t \in Types, Poll(b, t) PROVE TypeInv'
  <2> DEFINE S == Polled(t, MaxForType(t))
  <2>1. S \subseteq {e \in Events : kind[e] = t}
    BY PolledReady
  <2>2. QueueTypeOK'
    BY <1>3, <2>1, QueueTypePoll DEF Poll, TypeOK
  <2> HIDE DEF S
  <2>3. TypeOK'
    BY <1>3, <2>1, <2>2, LeaseAssumption DEF Poll, S, PollDone, TypeOK
  <2>4. HeldEnqueued'
    BY <1>3, <2>1 DEF Poll, S, PollQueueLease, TypeOK, HeldEnqueued
  <2> QED BY <2>3, <2>4
<1>4. ASSUME NEW b \in Brokers, NEW t \in Types, PollFails(b, t) PROVE TypeInv'
  <2>1. late' \subseteq Calls /\ faults' \in 0 .. MaxFaults
    BY <1>4, GiveUpType DEF PollFails
  <2>2. TypeOK'
    BY <1>4, <2>1 DEF PollFails, PollDone, TypeOK, QueueTypeOK
  <2>3. HeldEnqueued'
    BY <1>4 DEF PollFails, GiveUp, HeldEnqueued
  <2> QED BY <2>2, <2>3
<1>5. ASSUME NEW b \in Brokers, NEW p \in Pipes, Send(b, p) PROVE TypeInv'
  BY <1>5 DEF Send, Batch, TypeOK, QueueTypeOK, HeldEnqueued
<1>6. ASSUME NEW b \in Brokers, NEW p \in Pipes, SendFails(b, p) PROVE TypeInv'
  BY <1>6, FaultsAssumption DEF SendFails, Fault, TypeOK, QueueTypeOK, HeldEnqueued
<1>7. ASSUME NEW b \in Brokers, StartSettling(b) PROVE TypeInv'
  <2>1. {kind[e] : e \in held[b]} \subseteq Types
    BY DEF HeldEnqueued
  <2> QED BY <1>7, <2>1 DEF StartSettling, TypeOK, QueueTypeOK, HeldEnqueued
<1>8. ASSUME NEW b \in Brokers, NEW t \in Types, Settled(b, t), kind' = kind,
             QueueTypeOK', late' \subseteq Calls, faults' \in 0 .. MaxFaults
      PROVE  TypeOK' /\ \A c \in Brokers : \A e \in held'[c] : kind'[e] \in Types
  <2>1. grant' \in [Brokers -> [Events -> 0 .. Lease]]
    BY <1>8, LeaseAssumption DEF Settled, TypeOK
  <2>2. held' \in [Brokers -> SUBSET Events]
    BY <1>8 DEF Settled, TypeOK
  <2>3. pc' \in [Brokers -> Phases] /\ todo' \in [Brokers -> SUBSET Types]
        /\ ok' \in [Brokers -> SUBSET Pipes] /\ bad' \in [Brokers -> SUBSET Pipes]
    BY <1>8 DEF Settled, TypeOK
  <2>4. TypeOK'
    BY <1>8, <2>1, <2>2, <2>3 DEF Settled, TypeOK
  <2> QED BY <1>8, <2>4 DEF Settled, TypeOK, HeldEnqueued
<1>9. ASSUME NEW b \in Brokers, NEW t \in Types
      PROVE  AckIds(b, t) \subseteq {e \in Events : kind[e] \in Types} /\ FailIds(b, t) \subseteq Events
  BY SettledIds DEF HeldOf, TypeOK, HeldEnqueued
<1>10. ASSUME NEW b \in Brokers, NEW t \in Types, Ack(b, t) PROVE TypeInv'
  <2>1. QueueTypeOK' /\ kind' = kind
    BY <1>9, <1>10, QueueTypeAck DEF Ack, AckQueueEvents, TypeOK
  <2> QED BY <1>8, <1>10, <2>1 DEF Ack, TypeOK, HeldEnqueued
<1>11. ASSUME NEW b \in Brokers, NEW t \in Types, AckFails(b, t) PROVE TypeInv'
  <2>1. late' \subseteq Calls /\ faults' \in 0 .. MaxFaults
    BY <1>9, <1>11, GiveUpType DEF AckFails
  <2>2. QueueTypeOK' /\ kind' = kind
    BY <1>11 DEF AckFails, TypeOK, QueueTypeOK
  <2>3. \A c \in late' : c.op = "ack" => \A e \in c.ids : kind[e] \in Types
    BY <1>9, <1>11 DEF AckFails, GiveUp, HeldEnqueued
  <2> QED BY <1>8, <1>11, <2>1, <2>2, <2>3 DEF AckFails, HeldEnqueued
<1>12. ASSUME NEW b \in Brokers, NEW t \in Types, Release(b, t) PROVE TypeInv'
  <2>1. QueueTypeOK' /\ kind' = kind
    BY <1>9, <1>12, QueueTypeFail DEF Release, FailQueueEvents, TypeOK
  <2> QED BY <1>8, <1>12, <2>1 DEF Release, TypeOK, HeldEnqueued
<1>13. ASSUME NEW b \in Brokers, NEW t \in Types, ReleaseFails(b, t) PROVE TypeInv'
  <2>1. late' \subseteq Calls /\ faults' \in 0 .. MaxFaults
    BY <1>9, <1>13, GiveUpType DEF ReleaseFails
  <2>2. QueueTypeOK' /\ kind' = kind
    BY <1>13 DEF ReleaseFails, TypeOK, QueueTypeOK
  <2>3. \A c \in late' : c.op = "ack" => \A e \in c.ids : kind[e] \in Types
    BY <1>13 DEF ReleaseFails, GiveUp, HeldEnqueued
  <2> QED BY <1>8, <1>13, <2>1, <2>2, <2>3 DEF ReleaseFails, HeldEnqueued
<1>14. ASSUME NEW b \in Brokers, Crash(b) PROVE TypeInv'
  BY <1>14, FaultsAssumption, LeaseAssumption
  DEF Crash, Fault, TypeOK, QueueTypeOK, HeldEnqueued
<1>15. ASSUME NEW c \in late, LateCall(c) PROVE TypeInv'
  <2>1. /\ c \in Calls /\ c.ids \subseteq Events
        /\ c.op = "ack" => c.ids \subseteq {e \in Events : kind[e] \in Types}
    BY DEF TypeOK, Calls, HeldEnqueued
  <2>2. QueueTypeOK'
    <3>1. CASE c.op = "poll" /\ PollQueueLease(Polled(c.type, MaxForType(c.type)))
      BY <3>1, PolledReady, QueueTypePoll DEF TypeOK
    <3>2. CASE c.op = "ack" /\ AckQueueEvents(c.ids)
      BY <2>1, <3>2, QueueTypeAck DEF TypeOK
    <3>3. CASE c.op = "fail" /\ FailQueueEvents(c.ids)
      BY <2>1, <3>3, QueueTypeFail DEF TypeOK
    <3>4. CASE UNCHANGED queueVars
      BY <3>4 DEF TypeOK, QueueTypeOK
    <3> QED BY <1>15, <3>1, <3>2, <3>3, <3>4 DEF LateCall
  <2>3. kind' = kind
    BY <1>15 DEF LateCall, PollQueueLease, AckQueueEvents, FailQueueEvents
  <2> QED BY <1>15, <2>2, <2>3 DEF LateCall, TypeOK, HeldEnqueued
<1>16. ASSUME Enqueue PROVE TypeInv'
  BY <1>16, TypesAssumption DEF Enqueue, EnqueueEvent, TypeOK, QueueTypeOK, HeldEnqueued, Calls
<1>17. ASSUME Tick PROVE TypeInv'
  <2>1. left' \in [Events -> 0 .. Lease]
    BY <1>17, RunDownType DEF Tick, LeasesRunDown, TypeOK, QueueTypeOK
  <2>2. grant' \in [Brokers -> [Events -> 0 .. Lease]]
    BY <1>17, RunDownType DEF Tick, TypeOK
  <2> QED BY <1>17, <2>1, <2>2 DEF Tick, LeasesRunDown, TypeOK, QueueTypeOK, HeldEnqueued
<1>18. CASE UNCHANGED vars
  BY <1>18 DEF vars, TypeOK, QueueTypeOK, HeldEnqueued
<1> QED
  BY <1>1, <1>2, <1>3, <1>4, <1>5, <1>6, <1>7, <1>10, <1>11, <1>12, <1>13, <1>14,
     <1>15, <1>16, <1>17, <1>18 DEF Next, BrokerStep

\* The types hold in every run, and only rows of the table are ever acked.
THEOREM TypeCorrect == Spec => []TypeOK
<1>1. Spec => []TypeInv
  BY TypeInit, TypeNext, PTL DEF Spec
<1> QED BY <1>1, PTL DEF TypeInv

-----------------------------------------------------------------------------
(* No ack before delivery, when every configured pipe was initialised.     *)

\* Every pipe of the configuration that subscribes to e has taken it.
Handed(e) == \A p \in Pipes : kind[e] \in PipeFrom[p] => e \in sent[p]

\* Why AckedDelivered is not inductive by itself: an ack rests on what its
\* broker recorded in ok, possibly long before (LateAcks), so the records of
\* every broker must be true of sent, and complete for the pipes it has up.
AllPipesUp  == \A b \in Brokers : pc[b] # "down" => up[b] = Pipes
CleanStart  == \A b \in Brokers :
  pc[b] \in {"down", "idle", "polling"} \/ (pc[b] = "sending" /\ held[b] = {})
    => ok[b] = {}
RecordsTrue == \A b \in Brokers : \A p \in ok[b] : Batch(b, p) \subseteq sent[p]
LateAcks    == \A c \in late : c.op = "ack" => \A e \in c.ids : Handed(e)

DeliveryInv ==
  /\ TypeInv
  /\ AllPipesUp /\ CleanStart /\ RecordsTrue /\ LateAcks
  /\ AckedDelivered

\* The events a broker acks have been handed to every pipe: enough deliveries
\* are counted only if every pipe that subscribes is among those counted.
LEMMA AckIdsHanded ==
  ASSUME DeliveryInv, NEW b \in Brokers, NEW t \in Types, pc[b] = "settling"
  PROVE  \A e \in AckIds(b, t) : Handed(e)
<1> SUFFICES ASSUME NEW e \in AckIds(b, t), NEW p \in Pipes, kind[e] \in PipeFrom[p]
             PROVE  e \in sent[p]
  BY DEF Handed
<1>1. e \in held[b] /\ kind[e] = t
  BY SettledIds DEF HeldOf
<1>2. Cardinality(Delivered(b, t)) >= Cardinality(Required(b, t))
  BY DEF AckIds
<1>3. up[b] = Pipes
  BY DEF DeliveryInv, AllPipesUp
<1>4. Delivered(b, t) \subseteq Required(b, t) /\ IsFiniteSet(Required(b, t))
  <2>1. ok[b] \subseteq Pipes
    BY DEF DeliveryInv, TypeInv, TypeOK
  <2>2. Required(b, t) \subseteq Pipes
    BY <1>3 DEF Required
  <2> QED BY <2>1, <2>2, <1>3, FS_Subset, PipesAssumption DEF Delivered, Required
<1>5. IsFiniteSet(Delivered(b, t))
  BY <1>4, FS_Subset
<1>6. Cardinality(Delivered(b, t)) \in Nat /\ Cardinality(Required(b, t)) \in Nat
  BY <1>4, <1>5, FS_CardinalityType
<1>7. Delivered(b, t) = Required(b, t)
  BY <1>2, <1>4, <1>6, FS_Subset
<1>8. p \in ok[b]
  BY <1>1, <1>3, <1>7 DEF Delivered, Required
<1> QED BY <1>1, <1>8 DEF DeliveryInv, RecordsTrue, Batch

\* What has been handed stays so, and an enqueued event keeps its type.
LEMMA HandedStable ==
  ASSUME NEW e, Handed(e), kind'[e] = kind[e], \A p \in Pipes : sent[p] \subseteq sent'[p]
  PROVE  Handed(e)'
BY DEF Handed

LEMMA DeliveryInit == Init => DeliveryInv
<1> SUFFICES ASSUME Init PROVE DeliveryInv
  OBVIOUS
<1>1. TypeInv
  BY TypeInit
<1> QED BY <1>1
  DEF Init, QueueInit, DeliveryInv, AllPipesUp, CleanStart, RecordsTrue, LateAcks, AckedDelivered

\* The steps that change neither kind nor acked nor sent, and add no late ack.
LEMMA DeliveryFrame ==
  ASSUME DeliveryInv, TypeInv', UNCHANGED <<kind, acked, sent>>,
         \A c \in late' : c \in late \/ c.op # "ack"
  PROVE  LateAcks' /\ AckedDelivered'
BY DEF DeliveryInv, LateAcks, AckedDelivered, Handed

LEMMA DeliveryNext ==
  ASSUME ~InitMayFail
  PROVE  DeliveryInv /\ [Next]_vars => DeliveryInv'
<1> SUFFICES ASSUME DeliveryInv, [Next]_vars PROVE DeliveryInv'
  OBVIOUS
<1> USE DEF brokerVars, queueVars
<1>0. TypeInv' /\ TypeInv /\ TypeOK
  BY TypeNext DEF DeliveryInv, TypeInv
<1> DEFINE Local == AllPipesUp /\ CleanStart /\ RecordsTrue
<1>1. ASSUME NEW b \in Brokers, Start(b) PROVE DeliveryInv'
  <2>1. Local'
    BY <1>0, <1>1 DEF Start, TypeOK, DeliveryInv, AllPipesUp, CleanStart, RecordsTrue, Batch
  <2> QED BY <1>0, <1>1, <2>1, DeliveryFrame DEF Start, DeliveryInv
<1>2. ASSUME NEW b \in Brokers, NextCycle(b) PROVE DeliveryInv'
  <2>1. Local'
    BY <1>0, <1>2 DEF NextCycle, TypeOK, DeliveryInv, AllPipesUp, CleanStart, RecordsTrue, Batch
  <2> QED BY <1>0, <1>2, <2>1, DeliveryFrame DEF NextCycle, DeliveryInv
<1>3. ASSUME NEW b \in Brokers, NEW t \in Types, Poll(b, t) PROVE DeliveryInv'
  <2>1. pc[b] = "polling" /\ ok[b] = {}
    BY <1>3 DEF Poll, PollDone, DeliveryInv, CleanStart
  <2>2. Local'
    BY <1>0, <1>3, <2>1
    DEF Poll, PollDone, PollQueueLease, TypeOK, DeliveryInv, AllPipesUp, CleanStart, RecordsTrue, Batch
  <2> QED BY <1>0, <1>3, <2>2, DeliveryFrame DEF Poll, PollDone, PollQueueLease, DeliveryInv
<1>4. ASSUME NEW b \in Brokers, NEW t \in Types, PollFails(b, t) PROVE DeliveryInv'
  <2>1. Local'
    BY <1>0, <1>4
    DEF PollFails, PollDone, TypeOK, DeliveryInv, AllPipesUp, CleanStart, RecordsTrue, Batch
  <2>2. \A c \in late' : c \in late \/ c.op # "ack"
    BY <1>4 DEF PollFails, GiveUp
  <2> QED BY <1>0, <1>4, <2>1, <2>2, DeliveryFrame DEF PollFails, PollDone, DeliveryInv
<1>5. ASSUME NEW b \in Brokers, NEW p \in Pipes, Send(b, p) PROVE DeliveryInv'
  <2>1. \A q \in Pipes : sent[q] \subseteq sent'[q]
    BY <1>0, <1>5 DEF Send, TypeOK
  <2>2. RecordsTrue'
    <3> SUFFICES ASSUME NEW c \in Brokers, NEW q \in ok'[c]
                 PROVE  Batch(c, q)' \subseteq sent'[q]
      BY DEF RecordsTrue
    <3>1. q \in Pipes /\ Batch(c, q)' = Batch(c, q)
      BY <1>0, <1>5 DEF Send, Batch, TypeInv, TypeOK
    <3>2. CASE q \in ok[c]
      BY <2>1, <3>1, <3>2 DEF DeliveryInv, RecordsTrue
    <3>3. CASE c = b /\ q = p
      BY <1>0, <1>5, <3>1, <3>3 DEF Send, TypeOK
    <3> QED BY <1>0, <1>5, <3>2, <3>3 DEF Send, TypeOK
  <2>3. AllPipesUp' /\ CleanStart'
    BY <1>0, <1>5 DEF Send, Unsent, Batch, TypeOK, DeliveryInv, AllPipesUp, CleanStart
  <2>4. LateAcks' /\ AckedDelivered'
    BY <1>5, <2>1 DEF Send, DeliveryInv, LateAcks, AckedDelivered, Handed
  <2> QED BY <1>0, <2>2, <2>3, <2>4 DEF DeliveryInv
<1>6. ASSUME NEW b \in Brokers, NEW p \in Pipes, SendFails(b, p) PROVE DeliveryInv'
  <2>1. Local'
    BY <1>0, <1>6 DEF SendFails, TypeOK, DeliveryInv, AllPipesUp, CleanStart, RecordsTrue, Batch
  <2> QED BY <1>0, <1>6, <2>1, DeliveryFrame DEF SendFails, DeliveryInv
<1>7. ASSUME NEW b \in Brokers, StartSettling(b) PROVE DeliveryInv'
  <2>1. Local'
    BY <1>0, <1>7
    DEF StartSettling, TypeOK, DeliveryInv, AllPipesUp, CleanStart, RecordsTrue, Batch
  <2> QED BY <1>0, <1>7, <2>1, DeliveryFrame DEF StartSettling, DeliveryInv
<1>8. ASSUME NEW b \in Brokers, NEW t \in Types, Settled(b, t), kind' = kind PROVE Local'
  BY <1>0, <1>8
  DEF Settled, TypeOK, DeliveryInv, AllPipesUp, CleanStart, RecordsTrue, Batch
<1>9. ASSUME NEW b \in Brokers, NEW t \in Types, Ack(b, t) PROVE DeliveryInv'
  <2>1. \A e \in AckIds(b, t) : Handed(e)
    BY <1>9, AckIdsHanded DEF Ack, Settled
  <2>2. LateAcks' /\ AckedDelivered'
    BY <1>9, <2>1
    DEF Ack, AckQueueEvents, Settled, DeliveryInv, LateAcks, AckedDelivered, Handed
  <2> QED BY <1>0, <1>8, <1>9, <2>2 DEF Ack, AckQueueEvents, DeliveryInv
<1>10. ASSUME NEW b \in Brokers, NEW t \in Types, AckFails(b, t) PROVE DeliveryInv'
  <2>1. \A e \in AckIds(b, t) : Handed(e)
    BY <1>10, AckIdsHanded DEF AckFails, Settled
  <2>2. LateAcks' /\ AckedDelivered'
    BY <1>10, <2>1
    DEF AckFails, GiveUp, Settled, DeliveryInv, LateAcks, AckedDelivered, Handed
  <2> QED BY <1>0, <1>8, <1>10, <2>2 DEF AckFails, DeliveryInv
<1>11. ASSUME NEW b \in Brokers, NEW t \in Types, Release(b, t) PROVE DeliveryInv'
  BY <1>0, <1>8, <1>11, DeliveryFrame DEF Release, FailQueueEvents, Settled, DeliveryInv
<1>12. ASSUME NEW b \in Brokers, NEW t \in Types, ReleaseFails(b, t) PROVE DeliveryInv'
  <2>1. \A c \in late' : c \in late \/ c.op # "ack"
    BY <1>12 DEF ReleaseFails, GiveUp
  <2> QED BY <1>0, <1>8, <1>12, <2>1, DeliveryFrame DEF ReleaseFails, Settled, DeliveryInv
<1>13. ASSUME NEW b \in Brokers, Crash(b) PROVE DeliveryInv'
  <2>1. Local'
    BY <1>0, <1>13 DEF Crash, TypeOK, DeliveryInv, AllPipesUp, CleanStart, RecordsTrue, Batch
  <2> QED BY <1>0, <1>13, <2>1, DeliveryFrame DEF Crash, DeliveryInv
<1>14. ASSUME NEW c \in late, LateCall(c) PROVE DeliveryInv'
  <2>1. kind' = kind /\ sent' = sent /\ late' \subseteq late
    BY <1>14 DEF LateCall, PollQueueLease, AckQueueEvents, FailQueueEvents
  <2>2. \A e \in acked' : e \in acked \/ Handed(e)
    BY <1>14 DEF LateCall, PollQueueLease, AckQueueEvents, FailQueueEvents, DeliveryInv, LateAcks
  <2>3. AckedDelivered' /\ LateAcks'
    BY <2>1, <2>2 DEF DeliveryInv, AckedDelivered, LateAcks, Handed
  <2>4. Local'
    BY <1>14, <2>1 DEF LateCall, DeliveryInv, AllPipesUp, CleanStart, RecordsTrue, Batch
  <2> QED BY <1>0, <2>3, <2>4 DEF DeliveryInv
<1>15. ASSUME Enqueue PROVE DeliveryInv'
  <2>1. \A e \in Events : kind[e] \in Types => kind'[e] = kind[e]
    BY <1>0, <1>15, TypesAssumption DEF Enqueue, EnqueueEvent, TypeOK, QueueTypeOK
  <2>2. /\ \A b \in Brokers : \A e \in held[b] : kind'[e] = kind[e]
        /\ \A c \in late : c.op = "ack" => \A e \in c.ids : kind'[e] = kind[e]
        /\ \A e \in acked : kind'[e] = kind[e]
    BY <1>0, <2>1 DEF TypeInv, HeldEnqueued, TypeOK, QueueTypeOK, Calls
  <2>3. Local'
    BY <1>15, <2>2 DEF Enqueue, DeliveryInv, AllPipesUp, CleanStart, RecordsTrue, Batch
  <2>4. LateAcks' /\ AckedDelivered'
    BY <1>15, <2>2
    DEF Enqueue, EnqueueEvent, DeliveryInv, LateAcks, AckedDelivered, Handed
  <2> QED BY <1>0, <2>3, <2>4 DEF DeliveryInv
<1>16. ASSUME Tick PROVE DeliveryInv'
  <2>1. Local'
    BY <1>16 DEF Tick, LeasesRunDown, DeliveryInv, AllPipesUp, CleanStart, RecordsTrue, Batch
  <2> QED BY <1>0, <1>16, <2>1, DeliveryFrame DEF Tick, LeasesRunDown, DeliveryInv
<1>17. CASE UNCHANGED vars
  <2>1. Local'
    BY <1>17 DEF vars, DeliveryInv, AllPipesUp, CleanStart, RecordsTrue, Batch
  <2> QED BY <1>0, <1>17, <2>1, DeliveryFrame DEF vars, DeliveryInv
<1> QED
  BY <1>1, <1>2, <1>3, <1>4, <1>5, <1>6, <1>7, <1>9, <1>10, <1>11, <1>12, <1>13,
     <1>14, <1>15, <1>16, <1>17 DEF Next, BrokerStep

\* No event is acked before every configured pipe that subscribes to its type
\* was handed it, when the brokers could initialise every pipe: by any number
\* of brokers, with calls executed late and leases lost on the way.
THEOREM NoAckBeforeDelivery == ~InitMayFail => (Spec => []AckedDelivered)
<1> SUFFICES ASSUME ~InitMayFail PROVE Spec => []AckedDelivered
  OBVIOUS
<1>1. Spec => []DeliveryInv
  BY DeliveryInit, DeliveryNext, PTL DEF Spec
<1> QED BY <1>1, PTL DEF DeliveryInv

-----------------------------------------------------------------------------
(* The refinement.                                                         *)

\* An ack keeps the contract when the acked events have been handed over.
LEMMA AckRefines ==
  ASSUME TypeInv, NEW S \in SUBSET Events, AckQueueEvents(S), sent' = sent,
         \A e \in S : kind[e] \in Types /\ Handed(e)
  PROVE  [Contract!Next]_(Contract!vars)
<1>1. S \in SUBSET {e \in Events : kind[e] \in Types}
  OBVIOUS
<1>2. \A p \in Pipes : S \cap Contract!Subscribed(p) \subseteq sent[p]
  BY DEF Contract!Subscribed, Handed
<1> QED BY <1>1, <1>2 DEF AckQueueEvents, Contract!Next, Contract!Acknowledge

LEMMA StepRefines ==
  ASSUME DeliveryInv, [Next]_vars
  PROVE  [Contract!Next]_(Contract!vars)
<1> USE DEF brokerVars, queueVars
<1>0. TypeInv /\ TypeOK
  BY DEF DeliveryInv, TypeInv
<1>1. ASSUME NEW b \in Brokers, NEW p \in Pipes, Send(b, p)
      PROVE  Contract!Next
  <2>1. Batch(b, p) \in SUBSET Contract!Subscribed(p)
    BY <1>0 DEF Batch, Contract!Subscribed, TypeOK
  <2> QED BY <1>1, <2>1 DEF Send, Contract!Next, Contract!Deliver
<1>2. ASSUME NEW b \in Brokers, NEW t \in Types, Ack(b, t)
      PROVE  [Contract!Next]_(Contract!vars)
  <2>1. \A e \in AckIds(b, t) : Handed(e)
    BY <1>2, AckIdsHanded DEF Ack, Settled
  <2>2. AckIds(b, t) \subseteq Events /\ \A e \in AckIds(b, t) : kind[e] \in Types
    BY <1>0, SettledIds DEF HeldOf, TypeInv, TypeOK, HeldEnqueued
  <2> QED BY <1>0, <1>2, <2>1, <2>2, AckRefines DEF Ack, Settled
<1>3. ASSUME NEW c \in late, LateCall(c)
      PROVE  [Contract!Next]_(Contract!vars)
  <2>1. CASE c.op = "ack" /\ AckQueueEvents(c.ids)
    <3>1. \A e \in c.ids : kind[e] \in Types /\ Handed(e)
      BY <2>1 DEF DeliveryInv, LateAcks, TypeInv, HeldEnqueued
    <3>2. c.ids \in SUBSET Events
      BY <1>0 DEF TypeOK, Calls
    <3> QED BY <1>0, <1>3, <2>1, <3>1, <3>2, AckRefines DEF LateCall
  <2>2. CASE UNCHANGED <<kind, acked>>
    BY <1>3, <2>2 DEF LateCall, Contract!vars
  <2> QED BY <1>3, <2>1, <2>2 DEF LateCall, PollQueueLease, FailQueueEvents
<1>4. ASSUME Enqueue PROVE Contract!Next
  BY <1>4 DEF Enqueue, EnqueueEvent, Contract!Next, Contract!Enqueue
<1>5. ASSUME UNCHANGED <<kind, acked, sent>>
      PROVE  [Contract!Next]_(Contract!vars)
  BY <1>5 DEF Contract!vars
<1>6. ASSUME NEW b \in Brokers, BrokerStep(b) PROVE [Contract!Next]_(Contract!vars)
  BY <1>1, <1>2, <1>5, <1>6
  DEF BrokerStep, Start, NextCycle, StartSettling, Poll, PollFails, PollDone, PollQueueLease,
      AckFails, Release, ReleaseFails, FailQueueEvents, Settled, SendFails
<1>7. ASSUME NEW b \in Brokers, Crash(b) PROVE [Contract!Next]_(Contract!vars)
  BY <1>5, <1>7 DEF Crash
<1>8. ASSUME Tick PROVE [Contract!Next]_(Contract!vars)
  BY <1>5, <1>8 DEF Tick, LeasesRunDown
<1> QED BY <1>3, <1>4, <1>5, <1>6, <1>7, <1>8 DEF Next, vars

\* The queue with its leases, the brokers and their calls implement the
\* contract: at-least-once delivery, then one final ack.
THEOREM BrokersKeepContract == ~InitMayFail => (Spec => ContractKept)
<1> SUFFICES ASSUME ~InitMayFail PROVE Spec => ContractKept
  OBVIOUS
<1>1. Init => Contract!Init
  BY DEF Init, QueueInit, Contract!Init
<1>2. Spec => []DeliveryInv
  BY DeliveryInit, DeliveryNext, PTL DEF Spec
<1> QED BY <1>1, <1>2, StepRefines, PTL DEF Spec, ContractKept, Contract!Spec

-----------------------------------------------------------------------------
(* Exclusive work, when every cycle fits in its lease.                     *)

\* Nothing in an ack or a release names the lease it settles, so exclusion
\* rests on which events the calls in flight name: never one that a broker is
\* at work on, never one that two calls name, and none that is ready.
Disjoint  == \A b, c \in Brokers : b # c => held[b] \cap held[c] = {}
LeaseHeld == \A b \in Brokers : \A e \in held[b] :
               e \notin acked /\ left[e] = grant[b][e] /\ left[e] > 0
LateApart ==
  /\ \A c \in late : c.op = "poll" => c.ids = {}
  /\ \A c \in late : \A e \in c.ids :
       /\ \A b \in Brokers : e \notin held[b]
       /\ e \in acked \/ left[e] > 0
  /\ \A c, d \in late : c # d => c.ids \cap d.ids = {}

ExclusiveInv == TypeInv /\ Disjoint /\ LeaseHeld /\ LateApart

\* No event at work or in flight is ready.
LEMMA ReadyFree ==
  ASSUME ExclusiveInv, NEW t, NEW n, NEW e \in Polled(t, n)
  PROVE  /\ \A b \in Brokers : e \notin held[b]
         /\ \A c \in late : e \notin c.ids
BY PolledReady DEF ExclusiveInv, LeaseHeld, LateApart

LEMMA ExclusiveInit == Init => ExclusiveInv
<1> SUFFICES ASSUME Init PROVE ExclusiveInv
  OBVIOUS
<1>1. TypeInv
  BY TypeInit
<1> QED BY <1>1 DEF Init, ExclusiveInv, Disjoint, LeaseHeld, LateApart

\* The steps that leave the leases alone and only let go of events.
LEMMA ExclusiveFrame ==
  ASSUME ExclusiveInv, TypeInv', UNCHANGED <<acked, left, late>>,
         \A b \in Brokers : /\ held'[b] \subseteq held[b]
                            /\ \A e \in held'[b] : grant'[b][e] = grant[b][e]
  PROVE  ExclusiveInv'
BY DEF ExclusiveInv, Disjoint, LeaseHeld, LateApart

\* A broker lets go of S, all of it events it holds, with an ack, a release or
\* a call it gives up on.
LEMMA LetGo ==
  ASSUME ExclusiveInv, NEW b \in Brokers, NEW t \in Types, NEW S \in SUBSET HeldOf(b, t),
         Settled(b, t),
         \A e \in Events \ S : left'[e] = left[e] /\ (e \in acked' <=> e \in acked)
  PROVE  /\ Disjoint' /\ LeaseHeld'
         /\ \A c \in late : \A e \in c.ids :
              /\ \A x \in Brokers : e \notin held'[x]
              /\ e \in acked' \/ left'[e] > 0
<1>0. TypeOK /\ HeldOf(b, t) \subseteq held[b]
  BY DEF ExclusiveInv, TypeInv, HeldOf
<1>1. /\ held'[b] = held[b] \ HeldOf(b, t)
      /\ \A x \in Brokers : x # b => held'[x] = held[x]
  BY <1>0 DEF Settled, TypeOK
<1>2. \A x \in Brokers : \A e \in held'[x] : e \notin S /\ e \in held[x] /\ e \in Events
  BY <1>0, <1>1 DEF ExclusiveInv, Disjoint, TypeOK
<1>3. \A x \in Brokers : \A e \in held'[x] : grant'[x][e] = grant[x][e]
  BY <1>0, <1>1, <1>2 DEF Settled, TypeOK
<1>4. Disjoint'
  BY <1>2 DEF ExclusiveInv, Disjoint
<1>5. LeaseHeld'
  BY <1>2, <1>3 DEF ExclusiveInv, LeaseHeld
<1>6. ASSUME NEW c \in late, NEW e \in c.ids
      PROVE  (\A x \in Brokers : e \notin held'[x]) /\ (e \in acked' \/ left'[e] > 0)
  <2>1. e \in Events /\ e \notin S
    BY <1>0 DEF ExclusiveInv, LateApart, TypeOK, Calls
  <2> QED BY <1>2, <2>1 DEF ExclusiveInv, LateApart
<1> QED BY <1>4, <1>5, <1>6

\* The same, when the call is answered and when it is given up.
LEMMA LetGoAnswered ==
  ASSUME ExclusiveInv, TypeInv', NEW b \in Brokers, NEW t \in Types,
         NEW S \in SUBSET HeldOf(b, t), Settled(b, t), late' = late,
         \A e \in Events \ S : left'[e] = left[e] /\ (e \in acked' <=> e \in acked)
  PROVE  ExclusiveInv'
<1>1. /\ Disjoint' /\ LeaseHeld'
      /\ \A c \in late : \A e \in c.ids :
           /\ \A x \in Brokers : e \notin held'[x]
           /\ e \in acked' \/ left'[e] > 0
  BY LetGo
<1>2. LateApart'
  BY <1>1 DEF ExclusiveInv, LateApart
<1> QED BY <1>1, <1>2 DEF ExclusiveInv

LEMMA LetGoGivenUp ==
  ASSUME ExclusiveInv, TypeInv', NEW b \in Brokers, NEW t \in Types, NEW o \in {"ack", "fail"},
         NEW S \in SUBSET HeldOf(b, t), Settled(b, t), UNCHANGED queueVars, GiveUp(b, o, t, S)
  PROVE  ExclusiveInv'
<1> DEFINE r == [op |-> o, from |-> b, type |-> t, ids |-> S]
<1>1. /\ Disjoint' /\ LeaseHeld'
      /\ \A c \in late : \A e \in c.ids :
           /\ \A x \in Brokers : e \notin held'[x]
           /\ e \in acked' \/ left'[e] > 0
  BY LetGo DEF queueVars
<1>2. late' \in {late, late \cup {r}} /\ r.ids = S /\ r.op # "poll"
  BY DEF GiveUp
<1>3. \A e \in S : e \in held[b] /\ left[e] > 0 /\ \A c \in late : e \notin c.ids
  BY DEF HeldOf, ExclusiveInv, LeaseHeld, LateApart
<1>4. \A e \in S : \A x \in Brokers : e \notin held'[x]
  BY DEF Settled, HeldOf, ExclusiveInv, Disjoint, TypeInv, TypeOK
<1> HIDE DEF r
<1>5. LateApart'
  BY <1>1, <1>2, <1>3, <1>4 DEF ExclusiveInv, LateApart, queueVars
<1> QED BY <1>1, <1>5 DEF ExclusiveInv

LEMMA ExclusiveNext ==
  ASSUME Timely
  PROVE  ExclusiveInv /\ [Next]_vars => ExclusiveInv'
<1> SUFFICES ASSUME ExclusiveInv, [Next]_vars PROVE ExclusiveInv'
  OBVIOUS
<1> USE DEF brokerVars, queueVars
<1>0. TypeInv' /\ TypeInv /\ TypeOK
  BY TypeNext DEF ExclusiveInv, TypeInv
<1>1. ASSUME NEW b \in Brokers, NEW t \in Types, Poll(b, t) PROVE ExclusiveInv'
  <2> DEFINE S == Polled(t, MaxForType(t))
  <2>1. /\ S \subseteq Events /\ \A e \in S : e \notin acked
        /\ \A e \in S : (\A x \in Brokers : e \notin held[x]) /\ \A c \in late : e \notin c.ids
    BY PolledReady, ReadyFree
  <2>2. /\ held' = [held EXCEPT ![b] = held[b] \cup S]
        /\ grant' = [grant EXCEPT ![b] = [e \in Events |-> IF e \in S THEN Lease ELSE grant[b][e]]]
        /\ left' = [e \in Events |-> IF e \in S THEN Lease ELSE left[e]]
        /\ UNCHANGED <<kind, acked, late>>
    BY <1>1 DEF Poll, PollQueueLease
  <2> HIDE DEF S
  <2>3. Disjoint'
    BY <1>0, <2>1, <2>2 DEF ExclusiveInv, Disjoint, TypeOK
  <2>4. LeaseHeld'
    BY <1>0, <2>1, <2>2, LeaseAssumption DEF ExclusiveInv, LeaseHeld, TypeOK, QueueTypeOK
  <2>5. LateApart'
    BY <1>0, <2>1, <2>2, LeaseAssumption DEF ExclusiveInv, LateApart, TypeOK, QueueTypeOK, Calls
  <2> QED BY <1>0, <2>3, <2>4, <2>5 DEF ExclusiveInv
<1>2. ASSUME NEW b \in Brokers, NEW t \in Types, PollFails(b, t) PROVE ExclusiveInv'
  <2>1. late' \in {late, late \cup {[op |-> "poll", from |-> b, type |-> t, ids |-> {}]}}
    BY <1>2 DEF PollFails, GiveUp
  <2>2. LateApart'
    BY <1>2, <2>1 DEF PollFails, ExclusiveInv, LateApart
  <2> QED BY <1>0, <1>2, <2>2 DEF PollFails, ExclusiveInv, Disjoint, LeaseHeld
<1>3. ASSUME NEW b \in Brokers, NEW t \in Types, Ack(b, t) PROVE ExclusiveInv'
  <2>1. AckIds(b, t) \in SUBSET HeldOf(b, t)
    BY SettledIds
  <2> QED BY <1>0, <1>3, <2>1, LetGoAnswered DEF Ack, AckQueueEvents
<1>4. ASSUME NEW b \in Brokers, NEW t \in Types, Release(b, t) PROVE ExclusiveInv'
  <2>1. FailIds(b, t) \in SUBSET HeldOf(b, t)
    BY SettledIds
  <2> QED BY <1>0, <1>4, <2>1, LetGoAnswered DEF Release, FailQueueEvents
<1>5. ASSUME NEW b \in Brokers, NEW t \in Types, AckFails(b, t) PROVE ExclusiveInv'
  <2>1. AckIds(b, t) \in SUBSET HeldOf(b, t)
    BY SettledIds
  <2> QED BY <1>0, <1>5, <2>1, LetGoGivenUp DEF AckFails
<1>6. ASSUME NEW b \in Brokers, NEW t \in Types, ReleaseFails(b, t) PROVE ExclusiveInv'
  <2>1. FailIds(b, t) \in SUBSET HeldOf(b, t)
    BY SettledIds
  <2> QED BY <1>0, <1>6, <2>1, LetGoGivenUp DEF ReleaseFails
<1>7. ASSUME NEW b \in Brokers, Crash(b) PROVE ExclusiveInv'
  BY <1>0, <1>7, ExclusiveFrame DEF Crash, TypeOK
<1>8. ASSUME NEW c \in late, LateCall(c) PROVE ExclusiveInv'
  <2>1. late' = late \ {c} /\ UNCHANGED <<held, grant>>
    BY <1>8 DEF LateCall
  <2>2. ASSUME \A e \in Events \ c.ids : \/ left'[e] = left[e] /\ (e \in acked' <=> e \in acked)
                                         \/ /\ left'[e] > 0 /\ (e \in acked' <=> e \in acked)
                                            /\ \A x \in Brokers : e \notin held[x]
        PROVE  ExclusiveInv'
    <3>1. \A x \in Brokers : \A e \in held[x] : e \in Events /\ e \notin c.ids
      BY <1>0 DEF ExclusiveInv, LateApart, TypeOK
    <3>2. Disjoint' /\ LeaseHeld'
      BY <2>1, <2>2, <3>1 DEF ExclusiveInv, Disjoint, LeaseHeld
    <3>3. \A d \in late' : \A e \in d.ids : e \in Events /\ e \notin c.ids
      BY <1>0, <2>1 DEF ExclusiveInv, LateApart, TypeOK, Calls
    <3>4. LateApart'
      BY <2>1, <2>2, <3>3 DEF ExclusiveInv, LateApart
    <3> QED BY <1>0, <3>2, <3>4 DEF ExclusiveInv
  <2>3. CASE c.op = "poll" /\ PollQueueLease(Polled(c.type, MaxForType(c.type)))
    BY <2>2, <2>3, ReadyFree, LeaseAssumption DEF PollQueueLease
  <2>4. CASE c.op = "ack" /\ AckQueueEvents(c.ids)
    BY <2>2, <2>4 DEF AckQueueEvents
  <2>5. CASE c.op = "fail" /\ FailQueueEvents(c.ids)
    BY <2>2, <2>5 DEF FailQueueEvents
  <2> QED BY <1>8, <2>2, <2>3, <2>4, <2>5 DEF LateCall
<1>9. ASSUME Tick PROVE ExclusiveInv'
  <2>1. late = {} /\ late' = {} /\ \A b \in Brokers : \A e \in held[b] : grant[b][e] > 1
    BY <1>9 DEF Tick
  <2>2. ASSUME NEW b \in Brokers, NEW e \in held[b]
        PROVE  left'[e] = grant'[b][e] /\ left'[e] > 0
    <3>1. e \in Events /\ left[e] = grant[b][e] /\ grant[b][e] > 1
      BY <1>0, <2>1 DEF ExclusiveInv, LeaseHeld, TypeOK
    <3>2. left'[e] = RunDown(left[e])
      BY <1>9, <3>1 DEF Tick, LeasesRunDown
    <3>3. grant'[b][e] = RunDown(grant[b][e])
      BY <1>9, <3>1 DEF Tick
    <3>4. grant[b][e] \in Nat
      BY <1>0, <3>1 DEF TypeOK
    <3> QED BY <3>1, <3>2, <3>3, <3>4 DEF RunDown
  <2>3. UNCHANGED <<held, acked>>
    BY <1>9 DEF Tick, LeasesRunDown
  <2>4. Disjoint' /\ LeaseHeld'
    BY <2>2, <2>3 DEF ExclusiveInv, Disjoint, LeaseHeld
  <2> QED BY <1>0, <2>1, <2>4 DEF ExclusiveInv, LateApart
<1>10. ASSUME UNCHANGED <<acked, left, late, held, grant>> PROVE ExclusiveInv'
  BY <1>0, <1>10, ExclusiveFrame
<1>11. ASSUME NEW b \in Brokers, BrokerStep(b) PROVE ExclusiveInv'
  BY <1>1, <1>2, <1>3, <1>4, <1>5, <1>6, <1>10, <1>11
  DEF BrokerStep, Start, NextCycle, StartSettling, Send, SendFails
<1>12. ASSUME Enqueue PROVE ExclusiveInv'
  BY <1>10, <1>12 DEF Enqueue, EnqueueEvent
<1> QED BY <1>7, <1>8, <1>9, <1>10, <1>11, <1>12 DEF Next, vars

\* While every cycle fits in its lease, no two brokers work on one event.
THEOREM TimelyWorkIsExclusive == Spec => []TimelyExclusive
<1>1. ASSUME Timely PROVE Spec => []TimelyExclusive
  <2>1. ExclusiveInv => TimelyExclusive
    BY DEF ExclusiveInv, Disjoint, LeaseHeld, TimelyExclusive
  <2>2. ExclusiveInv /\ [Next]_vars => ExclusiveInv'
    BY <1>1, ExclusiveNext
  <2> QED BY <2>1, <2>2, ExclusiveInit, PTL DEF Spec
<1>2. ASSUME ~Timely PROVE Spec => []TimelyExclusive
  <2>1. TimelyExclusive
    BY <1>2 DEF TimelyExclusive
  <2> QED BY <2>1, PTL
<1> QED BY <1>1, <1>2

-----------------------------------------------------------------------------
(* One delivery of each event to each pipe, when nothing fails either.     *)

\* Why ExclusiveInv is not enough: what a pipe has taken must still be on
\* record, in the ack or in the ok of the broker at work on it (OnRecord); and
\* a broker that settles acks all it holds (AllTodo), which it does only if the
\* pipes it has up have all taken it (AllSent) and none refused it (NoneBad).
Taken(b, p, e) == e \in held[b] /\ p \in ok[b]
OnRecord == \A p \in Pipes : \A e \in sent[p] :
              e \in acked \/ \E b \in Brokers : Taken(b, p, e)
NoneBad  == late = {} /\ \A b \in Brokers : bad[b] = {}
AllSent  == \A b \in Brokers : pc[b] = "settling" =>
              \A e \in held[b], p \in up[b] : kind[e] \in PipeFrom[p] => p \in ok[b]
AllTodo  == \A b \in Brokers : pc[b] = "settling" => \A e \in held[b] : kind[e] \in todo[b]

Recorded == OnRecord /\ NoneBad /\ AllSent /\ AllTodo
OnceInv == ExclusiveInv /\ (faults = 0 => Recorded)

\* Once every send is made, every pipe that is up has taken what it is to take.
LEMMA SentAll ==
  ASSUME NEW b \in Brokers, Unsent(b) = {}, bad[b] = {}, NEW e \in held[b], NEW p \in up[b],
         kind[e] \in PipeFrom[p]
  PROVE  p \in ok[b]
BY DEF Unsent, Batch

\* A broker that settles acks all it holds of the type, when no pipe refused it.
LEMMA SettlesAll ==
  ASSUME OnceInv, faults = 0, NEW b \in Brokers, NEW t \in Types, pc[b] = "settling"
  PROVE  AckIds(b, t) = HeldOf(b, t) /\ FailIds(b, t) = {}
<1>0. TypeOK /\ NoneBad /\ AllSent
  BY DEF OnceInv, Recorded, ExclusiveInv, TypeInv
<1>1. FailIds(b, t) = {}
  BY <1>0 DEF FailIds, NoneBad
<1>2. ASSUME HeldOf(b, t) # {}
      PROVE  Cardinality(Delivered(b, t)) >= Cardinality(Required(b, t))
  <2>1. Required(b, t) \subseteq Delivered(b, t)
    BY <1>0, <1>2 DEF HeldOf, Required, Delivered, AllSent
  <2>2. IsFiniteSet(Delivered(b, t)) /\ IsFiniteSet(Required(b, t))
    <3>1. Delivered(b, t) \subseteq Pipes /\ Required(b, t) \subseteq Pipes
      BY <1>0 DEF Delivered, Required, TypeOK
    <3> QED BY <3>1, FS_Subset, PipesAssumption
  <2>3. Cardinality(Required(b, t)) <= Cardinality(Delivered(b, t))
    BY <2>1, <2>2, FS_Subset
  <2>4. Cardinality(Delivered(b, t)) \in Nat /\ Cardinality(Required(b, t)) \in Nat
    BY <2>2, FS_CardinalityType
  <2> QED BY <2>3, <2>4
<1> QED BY <1>1, <1>2 DEF AckIds

LEMMA OnceInit == Init => OnceInv
<1> SUFFICES ASSUME Init PROVE OnceInv
  OBVIOUS
<1>1. ExclusiveInv
  BY ExclusiveInit
<1> QED BY <1>1 DEF Init, OnceInv, Recorded, OnRecord, NoneBad, AllSent, AllTodo

\* A failure only counts: what follows it is not looked at.
LEMMA FaultCounts == ASSUME TypeOK, Fault PROVE faults' # 0
BY FaultsAssumption DEF Fault, TypeOK

LEMMA OnceNext ==
  ASSUME Timely
  PROVE  OnceInv /\ [Next]_vars => OnceInv'
<1> SUFFICES ASSUME OnceInv, [Next]_vars PROVE OnceInv'
  OBVIOUS
<1> USE DEF brokerVars, queueVars
<1>0. ExclusiveInv' /\ TypeInv' /\ ExclusiveInv /\ TypeInv /\ TypeOK
  BY ExclusiveNext DEF OnceInv, ExclusiveInv, TypeInv
<1> SUFFICES ASSUME faults' = 0 PROVE Recorded'
  BY <1>0 DEF OnceInv
<1>1. ASSUME faults' = faults PROVE faults = 0 /\ OnRecord /\ NoneBad /\ AllSent /\ AllTodo
  BY <1>1 DEF OnceInv, Recorded
<1>2. ~Fault
  BY <1>0, FaultCounts
<1>3. ASSUME NEW b \in Brokers, Start(b) PROVE Recorded'
  BY <1>0, <1>1, <1>3 DEF Start, TypeOK, OnRecord, Taken, NoneBad, AllSent, AllTodo, Recorded
<1>4. ASSUME NEW b \in Brokers, NextCycle(b) PROVE Recorded'
  BY <1>0, <1>1, <1>4 DEF NextCycle, TypeOK, OnRecord, Taken, NoneBad, AllSent, AllTodo, Recorded
<1>5. ASSUME NEW b \in Brokers, NEW t \in Types, Poll(b, t) PROVE Recorded'
  <2>1. /\ pc[b] = "polling" /\ pc' = [pc EXCEPT ![b] = pc'[b]] /\ pc'[b] # "settling"
        /\ held' = [held EXCEPT ![b] = held[b] \cup Polled(t, MaxForType(t))]
        /\ UNCHANGED <<kind, acked, ok, up, bad, sent, late, faults>>
    BY <1>0, <1>5 DEF Poll, PollDone, PollQueueLease, TypeOK
  <2>2. OnRecord'
    BY <1>0, <1>1, <2>1 DEF OnRecord, Taken, TypeOK
  <2>3. AllSent' /\ AllTodo'
    BY <1>0, <1>1, <1>5, <2>1 DEF Poll, PollDone, AllSent, AllTodo, TypeOK
  <2> QED BY <1>1, <2>1, <2>2, <2>3 DEF NoneBad, Recorded
<1>6. ASSUME NEW b \in Brokers, NEW p \in Pipes, Send(b, p)
      PROVE  Recorded'
  <2>1. /\ pc[b] = "sending" /\ todo' = todo
        /\ ok' = [ok EXCEPT ![b] = ok[b] \cup {p}]
        /\ sent' = [sent EXCEPT ![p] = sent[p] \cup Batch(b, p)]
        /\ UNCHANGED <<kind, acked, pc, held, up, bad, late, faults>>
    BY <1>6 DEF Send
  <2>2. ASSUME NEW q \in Pipes, NEW e \in sent'[q]
        PROVE  e \in acked' \/ \E c \in Brokers : Taken(c, q, e)'
    <3>1. CASE e \in sent[q]
      BY <1>0, <1>1, <2>1, <3>1 DEF OnRecord, Taken, TypeOK
    <3>2. CASE q = p /\ e \in Batch(b, p)
      BY <1>0, <2>1, <3>2 DEF Batch, Taken, TypeOK
    <3> QED BY <1>0, <2>1, <3>1, <3>2 DEF TypeOK
  <2>3. AllSent' /\ AllTodo'
    BY <1>0, <1>1, <2>1 DEF AllSent, AllTodo, TypeOK
  <2> QED BY <1>1, <2>1, <2>2, <2>3 DEF NoneBad, OnRecord, Recorded
<1>7. ASSUME NEW b \in Brokers, StartSettling(b) PROVE Recorded'
  <2>1. /\ Unsent(b) = {} /\ pc' = [pc EXCEPT ![b] = pc'[b]]
        /\ UNCHANGED <<kind, acked, held, ok, bad, sent, up, late, faults>>
    BY <1>0, <1>7 DEF StartSettling, TypeOK
  <2>2. ASSUME NEW c \in Brokers, pc'[c] = "settling", NEW e \in held[c], NEW p \in up[c],
               kind[e] \in PipeFrom[p]
        PROVE  p \in ok[c]
    <3>1. CASE c = b
      BY <1>1, <2>1, <2>2, <3>1, SentAll DEF NoneBad
    <3>2. CASE c # b
      BY <1>0, <1>1, <2>1, <2>2, <3>2 DEF AllSent, TypeOK
    <3> QED BY <3>1, <3>2
  <2>3. AllTodo'
    BY <1>0, <1>1, <1>7 DEF StartSettling, AllTodo, TypeOK
  <2> QED BY <1>1, <2>1, <2>2, <2>3 DEF OnRecord, Taken, NoneBad, AllSent, Recorded
<1>8. ASSUME NEW b \in Brokers, NEW t \in Types, Settled(b, t), UNCHANGED <<late, faults, kind>>,
             acked' = acked \cup HeldOf(b, t)
      PROVE  Recorded'
  <2>1. /\ pc[b] = "settling" /\ pc' = [pc EXCEPT ![b] = pc'[b]]
        /\ held' = [held EXCEPT ![b] = held[b] \ HeldOf(b, t)]
        /\ ok' = [ok EXCEPT ![b] = ok'[b]] /\ bad' = [bad EXCEPT ![b] = bad'[b]]
        /\ pc'[b] # "idle" => ok'[b] = ok[b]
        /\ bad'[b] \subseteq bad[b]
        /\ pc'[b] \in {"settling", "idle"}
        /\ todo' = [todo EXCEPT ![b] = todo[b] \ {t}]
        /\ UNCHANGED <<up, sent>>
    BY <1>0, <1>8 DEF Settled, TypeOK
  <2>2. ASSUME NEW p \in Pipes, NEW e \in sent[p], e \notin acked'
        PROVE  \E c \in Brokers : Taken(c, p, e)'
    <3>1. PICK c \in Brokers : Taken(c, p, e)
      BY <1>1, <1>8, <2>2 DEF OnRecord
    <3>2. CASE c # b
      BY <1>0, <2>1, <3>1, <3>2 DEF Taken, TypeOK
    <3>3. CASE c = b /\ pc'[b] = "settling"
      BY <1>0, <1>8, <2>1, <2>2, <3>1, <3>3 DEF Taken, TypeOK
    <3>4. ASSUME c = b, pc'[b] = "idle" PROVE FALSE
      <4>1. todo[b] = {t}
        BY <1>0, <1>8, <3>4 DEF Settled, TypeOK
      <4>2. e \in HeldOf(b, t)
        BY <1>1, <1>8, <2>1, <3>1, <3>4, <4>1 DEF AllTodo, Taken, HeldOf
      <4> QED BY <1>8, <2>2, <4>2
    <3> QED BY <2>1, <3>2, <3>3, <3>4
  <2>3. OnRecord'
    BY <2>1, <2>2 DEF OnRecord
  <2>4. NoneBad'
    BY <1>0, <1>1, <1>8, <2>1 DEF NoneBad, TypeOK
  <2>5. AllSent'
    BY <1>0, <1>1, <1>8, <2>1 DEF AllSent, TypeOK
  <2>6. AllTodo'
    BY <1>0, <1>1, <1>8, <2>1 DEF AllTodo, HeldOf, TypeOK
  <2> QED BY <2>3, <2>4, <2>5, <2>6 DEF Recorded
<1>9. ASSUME NEW b \in Brokers, NEW t \in Types, Ack(b, t) PROVE Recorded'
  <2>1. faults = 0 /\ AckIds(b, t) = HeldOf(b, t)
    BY <1>1, <1>9, SettlesAll DEF Ack, Settled
  <2> QED BY <1>8, <1>9, <2>1 DEF Ack, AckQueueEvents
<1>10. ASSUME NEW b \in Brokers, NEW t \in Types, Release(b, t) PROVE FALSE
  BY <1>1, <1>10, SettlesAll DEF Release, Settled
<1>11. ASSUME NEW b \in Brokers, BrokerStep(b) PROVE Recorded'
  BY <1>2, <1>3, <1>4, <1>5, <1>6, <1>7, <1>9, <1>10, <1>11
  DEF BrokerStep, PollFails, SendFails, AckFails, ReleaseFails, GiveUp
<1>12. ASSUME NEW b \in Brokers, Crash(b) PROVE FALSE
  BY <1>2, <1>12 DEF Crash
<1>13. ASSUME NEW c \in late, LateCall(c) PROVE FALSE
  BY <1>1, <1>13 DEF LateCall, NoneBad
<1>14. ASSUME Enqueue PROVE Recorded'
  <2>1. \A b \in Brokers : \A e \in held[b] : kind'[e] = kind[e]
    BY <1>0, <1>14, TypesAssumption DEF Enqueue, EnqueueEvent, TypeInv, HeldEnqueued, TypeOK, QueueTypeOK
  <2>2. UNCHANGED <<acked, pc, up, todo, held, ok, bad, sent, late, faults>>
    BY <1>14 DEF Enqueue, EnqueueEvent
  <2> QED BY <1>1, <2>1, <2>2 DEF OnRecord, Taken, NoneBad, AllSent, AllTodo, Recorded
<1>15. ASSUME UNCHANGED <<kind, acked, pc, up, todo, held, ok, bad, sent, late, faults>>
       PROVE  Recorded'
  BY <1>1, <1>15 DEF OnRecord, Taken, NoneBad, AllSent, AllTodo, Recorded
<1>16. ASSUME Tick PROVE Recorded'
  BY <1>15, <1>16 DEF Tick, LeasesRunDown
<1> QED BY <1>11, <1>12, <1>13, <1>14, <1>15, <1>16 DEF Next, vars

\* A pipe a broker has recorded took, in that step, a batch that was its own
\* alone: what it had taken of the batch before would be on this broker's record.
LEMMA RecordsNewBatch ==
  ASSUME OnceInv, Next, faults = 0, NEW b \in Brokers, NEW p \in ok'[b] \ ok[b]
  PROVE  Batch(b, p) \cap sent[p] = {}
<1>0. TypeOK /\ OnRecord /\ Disjoint /\ LeaseHeld
  BY DEF OnceInv, Recorded, ExclusiveInv, TypeInv
<1>1. p \in Pipes
  <2>1. CASE \E c \in Brokers, q \in Pipes : Send(c, q)
    BY <1>0, <2>1 DEF Send, TypeOK
  <2>2. CASE \E c \in Brokers : Crash(c) \/ \E t \in Types : Settled(c, t)
    BY <1>0, <2>2 DEF Crash, Settled, TypeOK
  <2>3. CASE ok' = ok
    BY <2>3
  <2> QED BY <2>1, <2>2, <2>3
    DEF Next, BrokerStep, Start, NextCycle, StartSettling, Poll, PollFails, PollDone, SendFails,
        Ack, AckFails, Release, ReleaseFails, LateCall, Enqueue, Tick, brokerVars
<1> SUFFICES ASSUME NEW e \in Batch(b, p), e \in sent[p] PROVE FALSE
  OBVIOUS
<1>2. e \in held[b] /\ e \notin acked
  BY <1>0 DEF Batch, LeaseHeld
<1>3. PICK c \in Brokers : Taken(c, p, e)
  BY <1>0, <1>1, <1>2 DEF OnRecord
<1>4. c = b
  BY <1>0, <1>2, <1>3 DEF Disjoint, Taken
<1> QED BY <1>3, <1>4 DEF Taken

\* While every cycle fits in its lease and nothing fails, every pipe is handed
\* each event once: a batch never holds what another broker's batch delivered.
THEOREM DeliveredOnce == Spec => DeliversOnce
<1>1. ASSUME Timely PROVE Spec => DeliversOnce
  <2>1. OnceInv /\ [Next]_vars =>
          [Timely /\ faults = 0 =>
             \A b \in Brokers : \A p \in ok'[b] \ ok[b] : Batch(b, p) \cap sent[p] = {}]_vars
    BY RecordsNewBatch
  <2>2. OnceInv /\ [Next]_vars => OnceInv'
    BY <1>1, OnceNext
  <2> QED BY <2>1, <2>2, OnceInit, PTL DEF Spec, DeliversOnce
<1>2. ASSUME ~Timely PROVE Spec => DeliversOnce
  <2>1. [Next]_vars =>
          [Timely /\ faults = 0 =>
             \A b \in Brokers : \A p \in ok'[b] \ ok[b] : Batch(b, p) \cap sent[p] = {}]_vars
    BY <1>2
  <2> QED BY <2>1, PTL DEF Spec, DeliversOnce
<1> QED BY <1>1, <1>2
=============================================================================
