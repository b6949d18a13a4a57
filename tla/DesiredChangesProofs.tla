----------------------- MODULE DesiredChangesProofs -----------------------
(***************************************************************************)
(* Theorems about DesiredChanges for any number of changes, any settings   *)
(* and values, and any number of overlapping ping handlers.                *)
(***************************************************************************)
EXTENDS DesiredChanges, WellFoundedInduction, TLAPS

-----------------------------------------------------------------------------
(* Facts about the operators.                                              *)

\* Every list of changes that is not empty has an oldest one.
LEMMA OldestIn ==
  ASSUME NEW S \in SUBSET Changes, S # {}
  PROVE  Oldest(S) \in S /\ \A d \in S : Oldest(S) <= d
<1>1. S \subseteq Nat
  BY NAssumption DEF Changes
<1>2. PICK c \in S : \A d \in S : ~ (<<d, c>> \in OpToRel(<, Nat))
  BY <1>1, WFMin, NatLessThanWellFounded
<1>3. \A d \in S : d < c => <<d, c>> \in OpToRel(<, Nat)
  BY <1>1, Zenon DEF OpToRel
<1>4. \A d \in S : ~(d < c)
  BY <1>2, <1>3, Zenon
<1>5. \A d \in S : c <= d
  BY <1>1, <1>4
<1> QED BY <1>5 DEF Oldest

\* Every list of reports that is not empty has a next one.
LEMMA NextReportIn ==
  ASSUME NEW R \in SUBSET Report, R # {}
  PROVE  NextReport(R) \in R
<1> DEFINE S == {q.change : q \in R}
<1>1. S \in SUBSET Changes /\ S # {}
  BY DEF Report
<1>2. Oldest(S) \in S
  BY <1>1, OldestIn
<1> QED BY <1>2 DEF NextReport

\* The progress of a handler, changed in one part, is one.
LEMMA RunType ==
  ASSUME NEW u \in Run
  PROVE  /\ u.todo \in SUBSET Report /\ u.pending \in SUBSET Changes
         /\ \A s \in {"free", "record", "mark", "alert", "list", "answer"} :
              [u EXCEPT !.stage = s] \in Run /\ [u EXCEPT !.stage = s].todo = u.todo
         /\ \A T \in SUBSET Report : [u EXCEPT !.todo = T] \in Run
         /\ \A P \in SUBSET Changes : [u EXCEPT !.pending = P] \in Run
BY DEF Run

-----------------------------------------------------------------------------
(* Type correctness.                                                       *)

\* A handler that is about to raise an alert has the report it is about.
AlertDue == \A h \in Handlers : handler[h].stage = "alert" => handler[h].todo # {}

\* Whatever is, or may be, handed to the agent asks for something.
WorkKnown ==
  /\ \A c \in Changes : state[c] = "pending" => effect[c] \in Settings \X Values
  /\ \A c \in work : effect[c] \in Settings \X Values
  /\ \A h \in Handlers : \A c \in handler[h].pending : effect[c] \in Settings \X Values

TypeInv == TypeOK /\ AlertDue /\ WorkKnown

LEMMA TypeInit == Init => TypeInv
BY NAssumption DEF Init, TypeInv, TypeOK, Run, AlertDue, WorkKnown, Free, NoEffect, Report

LEMMA TypeNext == TypeInv /\ [Next]_vars => TypeInv'
<1> SUFFICES ASSUME TypeInv, [Next]_vars PROVE TypeInv'
  OBVIOUS
<1> USE DEF TypeInv, Run, rowVars, agentVars
<1>0. ASSUME NEW h \in Handlers, handler[h].todo # {}
      PROVE  NextReport(handler[h].todo) \in Report
  BY <1>0, NextReportIn DEF TypeOK
<1>1. CASE CreateChange
  <2>1. created + 1 \in Changes /\ created' \in 0 .. N
    BY <1>1, NAssumption DEF CreateChange, Changes, TypeOK
  <2>2. PICK x \in Settings \X Values : effect' = [effect EXCEPT ![created + 1] = x]
    BY <1>1 DEF CreateChange
  <2>3. TypeOK'
    BY <1>1, <2>1, <2>2 DEF CreateChange, TypeOK
  <2>4. \A c \in Changes : effect[c] \in Settings \X Values \/ c = created + 1
                           => effect'[c] \in Settings \X Values
    BY <2>2 DEF TypeOK
  <2>5. WorkKnown'
    BY <1>1, <2>4 DEF CreateChange, TypeOK, WorkKnown
  <2>6. AlertDue'
    BY <1>1 DEF CreateChange, AlertDue
  <2> QED BY <2>3, <2>5, <2>6
<1>2. ASSUME NEW h \in Handlers, Record(h) PROVE TypeInv'
  BY <1>2 DEF Record, TypeOK, AlertDue, WorkKnown
<1>3. ASSUME NEW h \in Handlers, Mark(h) PROVE TypeInv'
  <2> DEFINE r == NextReport(handler[h].todo)
  <2>1. r \in Report
    BY <1>0, <1>3 DEF Mark
  <2> HIDE DEF r
  <2>2. state' \in [Changes -> {"none", "pending", "executed", "failed"}]
    BY <1>3, <2>1 DEF Mark, r, MarkChangeExecuted, Report, TypeOK
  <2>3. handler' \in [Handlers -> Run]
    BY <1>3 DEF Mark, TypeOK
  <2>4. TypeOK'
    BY <1>3, <2>2, <2>3 DEF Mark, TypeOK
  <2>5. AlertDue' /\ WorkKnown'
    BY <1>3, <2>1, <2>2 DEF Mark, r, MarkChangeExecuted, Report, TypeOK, AlertDue, WorkKnown
  <2> QED BY <2>4, <2>5
<1>4. ASSUME NEW h \in Handlers, RaiseAlert(h) PROVE TypeInv'
  <2> DEFINE r == NextReport(handler[h].todo)
  <2>1. r \in Report
    BY <1>0, <1>4 DEF RaiseAlert, AlertDue
  <2> HIDE DEF r
  <2>2. alerted' \subseteq Changes
    BY <1>4, <2>1 DEF RaiseAlert, r, Report, TypeOK
  <2> HIDE DEF Run
  <2>3. handler' \in [Handlers -> Run]
    BY <1>4, RunType DEF RaiseAlert, r, TypeOK
  <2>4. TypeOK'
    BY <1>4, <2>2, <2>3 DEF RaiseAlert, TypeOK
  <2> USE DEF Run
  <2> QED BY <1>4, <2>4 DEF RaiseAlert, TypeOK, AlertDue, WorkKnown
<1>5. ASSUME NEW h \in Handlers, MarkFails(h) PROVE TypeInv'
  <2> HIDE DEF Run
  <2>1. handler' \in [Handlers -> Run]
    BY <1>5, RunType DEF MarkFails, TypeOK
  <2>2. TypeOK'
    BY <1>5, <2>1, NAssumption DEF MarkFails, Fault, TypeOK
  <2> USE DEF Run
  <2> QED BY <1>5, <2>2 DEF MarkFails, TypeOK, AlertDue, WorkKnown
<1>6. ASSUME NEW h \in Handlers, MarkDone(h) PROVE TypeInv'
  BY <1>6 DEF MarkDone, TypeOK, AlertDue, WorkKnown
<1>7. ASSUME NEW h \in Handlers, List(h) PROVE TypeInv'
  <2>1. PendingRows \in SUBSET Changes
    BY DEF PendingRows
  <2> HIDE DEF Run
  <2>2. handler' \in [Handlers -> Run]
    BY <1>7, <2>1, RunType DEF List, TypeOK
  <2>3. TypeOK'
    BY <1>7, <2>2 DEF List, TypeOK
  <2> USE DEF Run
  <2>4. AlertDue' /\ WorkKnown'
    BY <1>7 DEF List, PendingRows, TypeOK, AlertDue, WorkKnown
  <2> QED BY <2>3, <2>4
<1>8. ASSUME NEW h \in Handlers, ListFails(h) PROVE TypeInv'
  <2> HIDE DEF Run
  <2>1. handler' \in [Handlers -> Run]
    BY <1>8, RunType DEF ListFails, TypeOK
  <2>2. TypeOK'
    BY <1>8, <2>1, NAssumption DEF ListFails, Fault, TypeOK
  <2> USE DEF Run
  <2>3. AlertDue' /\ WorkKnown'
    BY <1>8 DEF ListFails, TypeOK, AlertDue, WorkKnown
  <2> QED BY <2>2, <2>3
<1>9. ASSUME NEW h \in Handlers, Abort(h) PROVE TypeInv'
  BY <1>9, NAssumption DEF Abort, Fault, Free, TypeOK, AlertDue, WorkKnown
<1>10. ASSUME NEW h \in Handlers, Unheard(h) PROVE TypeInv'
  BY <1>10 DEF Unheard, Free, TypeOK, AlertDue, WorkKnown
<1>11. ASSUME NEW h \in Handlers, SendPing(h) PROVE TypeInv'
  BY <1>11 DEF SendPing, TypeOK, AlertDue, WorkKnown
<1>12. CASE PingFails
  BY <1>12, NAssumption DEF PingFails, Fault, TypeOK, AlertDue, WorkKnown
<1>13. CASE Timeout
  BY <1>13, NAssumption DEF Timeout, Fault, TypeOK, AlertDue, WorkKnown
<1>14. ASSUME NEW h \in Handlers, Receive(h) PROVE TypeInv'
  BY <1>14 DEF Receive, Free, TypeOK, AlertDue, WorkKnown
<1>15. CASE Execute
  <2> DEFINE c == Oldest(work)
  <2>1. c \in Changes
    BY <1>15, OldestIn DEF Execute, TypeOK
  <2> HIDE DEF c
  <2>2. PICK success \in BOOLEAN :
          /\ reports' = reports \cup {[change |-> c, success |-> success]}
          /\ tried' = [tried EXCEPT ![c] = @ \cup {success}]
          /\ device' = IF success THEN [device EXCEPT ![effect[c][1]] = effect[c][2]] ELSE device
    BY <1>15 DEF Execute, c
  <2>3. reports' \subseteq Report
    BY <2>1, <2>2 DEF Report, TypeOK
  <2>4. effect[c] \in Settings \X Values
    BY <1>15, OldestIn DEF Execute, c, TypeOK, WorkKnown
  <2>5. device' \in [Settings -> Values]
    BY <2>2, <2>4 DEF TypeOK
  <2>6. TypeOK'
    BY <1>15, <2>1, <2>2, <2>3, <2>5 DEF Execute, TypeOK
  <2> QED BY <1>15, <2>6 DEF Execute, AlertDue, WorkKnown
<1>16. CASE ExecuteDone
  BY <1>16 DEF ExecuteDone, TypeOK, AlertDue, WorkKnown
<1>17. CASE AgentCrash
  BY <1>17, NAssumption DEF AgentCrash, Fault, TypeOK, AlertDue, WorkKnown
<1>18. CASE UNCHANGED vars
  BY <1>18 DEF vars, TypeOK, AlertDue, WorkKnown
<1> QED BY <1>1, <1>2, <1>3, <1>4, <1>5, <1>6, <1>7, <1>8, <1>9, <1>10, <1>11, <1>12, <1>13,
           <1>14, <1>15, <1>16, <1>17, <1>18 DEF Next, HandlerStep, AgentStep

\* Every state has the types declared for it, whatever calls are lost, late or
\* overlapping.
THEOREM TypeCorrect == Spec => []TypeOK
<1>1. TypeInv => TypeOK
  BY DEF TypeInv
<1> QED BY TypeInit, TypeNext, <1>1, PTL DEF Spec

-----------------------------------------------------------------------------
(* The record of a change is true.                                         *)

\* A report says what the agent has seen; so does every copy of it a handler,
\* however late, still holds.
ReportsTrue ==
  /\ \A r \in reports : r.success \in tried[r.change]
  /\ \A h \in Handlers : \A r \in handler[h].todo : r.success \in tried[r.change]

\* An alert is raised for a failure.
AlertsTrue ==
  \A h \in Handlers : handler[h].stage = "alert" => ~NextReport(handler[h].todo).success

TruthInv == ReportsTrue /\ AlertsTrue /\ StateIsTrue

LEMMA TruthInit == Init => TruthInv
BY DEF Init, Free, TruthInv, ReportsTrue, AlertsTrue, StateIsTrue

\* Steps that touch no row, and forget reports or hand them on.
LEMMA TruthKept ==
  ASSUME TypeInv, TruthInv, TypeOK',
         tried' = tried, state' = state, alerted' = alerted, reports' \subseteq reports,
         \A h \in Handlers :
           /\ handler'[h].todo \subseteq handler[h].todo \cup reports
           /\ handler'[h].stage = "alert" => handler'[h] = handler[h]
  PROVE  TruthInv'
BY DEF TypeInv, TypeOK, TruthInv, ReportsTrue, AlertsTrue, StateIsTrue

LEMMA TruthNext == TypeInv /\ TypeInv' /\ TruthInv /\ [Next]_vars => TruthInv'
<1> SUFFICES ASSUME TypeInv, TypeInv', TruthInv, [Next]_vars PROVE TruthInv'
  OBVIOUS
<1> USE DEF rowVars, agentVars
<1>0. ASSUME NEW h \in Handlers, handler[h].todo # {}
      PROVE  NextReport(handler[h].todo) \in handler[h].todo \cap Report
  <2>1. handler[h].todo \in SUBSET Report
    BY DEF TypeInv, TypeOK, Run
  <2> QED BY <1>0, <2>1, NextReportIn
<1>1. CASE CreateChange
  BY <1>1 DEF CreateChange, TypeInv, TypeOK, TruthInv, ReportsTrue, AlertsTrue, StateIsTrue
<1>2. ASSUME NEW h \in Handlers, Record(h) \/ MarkDone(h) \/ List(h) \/ ListFails(h)
      PROVE  TruthInv'
  BY <1>2, TruthKept DEF Record, MarkDone, List, ListFails, TypeInv, TypeOK, Run
<1>3. ASSUME NEW h \in Handlers, Mark(h) PROVE TruthInv'
  <2> DEFINE r == NextReport(handler[h].todo)
  <2>1. r \in handler[h].todo /\ r \in Report
    BY <1>0, <1>3 DEF Mark
  <2> HIDE DEF r
  <2>2. r.change \in Changes /\ r.success \in tried[r.change]
    BY <2>1 DEF Report, TruthInv, ReportsTrue
  <2>3. state' = [state EXCEPT ![r.change] = IF r.success THEN "executed" ELSE "failed"]
        /\ tried' = tried /\ alerted' = alerted
    BY <1>3 DEF Mark, r, MarkChangeExecuted
  <2>4. r.success \in BOOLEAN
    BY <2>1 DEF Report
  <2>5. StateIsTrue'
    BY <2>2, <2>3, <2>4 DEF TypeInv, TypeOK, TruthInv, StateIsTrue
  <2>6. ReportsTrue'
    BY <1>3 DEF Mark, TypeInv, TypeOK, Run, TruthInv, ReportsTrue
  <2>7. AlertsTrue'
    BY <1>3 DEF Mark, TypeInv, TypeOK, Run, TruthInv, AlertsTrue
  <2> QED BY <2>5, <2>6, <2>7 DEF TruthInv
<1>4. ASSUME NEW h \in Handlers, RaiseAlert(h) PROVE TruthInv'
  <2> DEFINE r == NextReport(handler[h].todo)
  <2>1. r \in handler[h].todo /\ r \in Report /\ ~r.success
    BY <1>0, <1>4 DEF RaiseAlert, TypeInv, AlertDue, TruthInv, AlertsTrue
  <2> HIDE DEF r
  <2>2. r.change \in Changes /\ FALSE \in tried[r.change]
    BY <2>1 DEF Report, TruthInv, ReportsTrue
  <2>3. StateIsTrue'
    BY <1>4, <2>2 DEF RaiseAlert, r, TruthInv, StateIsTrue
  <2>4. ReportsTrue'
    BY <1>4 DEF RaiseAlert, TypeInv, TypeOK, Run, TruthInv, ReportsTrue
  <2>5. AlertsTrue'
    BY <1>4 DEF RaiseAlert, TypeInv, TypeOK, Run, TruthInv, AlertsTrue
  <2> QED BY <2>3, <2>4, <2>5 DEF TruthInv
<1>5. ASSUME NEW h \in Handlers, MarkFails(h) PROVE TruthInv'
  BY <1>5, TruthKept DEF MarkFails, TypeInv, TypeOK, Run
<1>6. ASSUME NEW h \in Handlers, Abort(h) \/ Unheard(h) \/ Receive(h) PROVE TruthInv'
  BY <1>6, TruthKept DEF Abort, Unheard, Receive, Free, TypeInv, TypeOK, Run
<1>7. ASSUME NEW h \in Handlers, SendPing(h) PROVE TruthInv'
  BY <1>7, TruthKept DEF SendPing, TypeInv, TypeOK, Run
<1>8. CASE PingFails \/ Timeout \/ ExecuteDone \/ AgentCrash
  BY <1>8, TruthKept DEF PingFails, Timeout, ExecuteDone, AgentCrash, TypeInv, TypeOK
<1>9. CASE Execute
  <2> DEFINE c == Oldest(work)
  <2>1. c \in Changes
    BY <1>9, OldestIn DEF Execute, TypeInv, TypeOK
  <2> HIDE DEF c
  <2>2. PICK success \in BOOLEAN :
          /\ reports' = reports \cup {[change |-> c, success |-> success]}
          /\ tried' = [tried EXCEPT ![c] = @ \cup {success}]
    BY <1>9 DEF Execute, c
  <2>3. success \in tried'[c] /\ \A d \in Changes : tried[d] \subseteq tried'[d]
    BY <2>1, <2>2 DEF TypeInv, TypeOK
  <2>4. ReportsTrue'
    BY <1>9, <2>2, <2>3 DEF Execute, TypeInv, TypeOK, Run, Report, TruthInv, ReportsTrue
  <2>5. AlertsTrue' /\ StateIsTrue'
    BY <1>9, <2>3 DEF Execute, TruthInv, AlertsTrue, StateIsTrue
  <2> QED BY <2>4, <2>5 DEF TruthInv
<1>10. CASE UNCHANGED vars
  BY <1>10 DEF vars, TruthInv, ReportsTrue, AlertsTrue, StateIsTrue
<1> QED BY <1>1, <1>2, <1>3, <1>4, <1>5, <1>6, <1>7, <1>8, <1>9, <1>10
        DEF Next, HandlerStep, AgentStep

\* Whatever is lost, repeated or overlapping: a change is recorded as executed
\* or failed, and alerted, only for a result its agent has had.
THEOREM RecordIsTrue == Spec => []StateIsTrue
<1>1. Init => TypeInv /\ TruthInv
  BY TypeInit, TruthInit
<1>2. TypeInv /\ TruthInv /\ [Next]_vars => TypeInv' /\ TruthInv'
  BY TypeNext, TruthNext
<1>3. TruthInv => StateIsTrue
  BY DEF TruthInv
<1> QED BY <1>1, <1>2, <1>3, PTL DEF Spec

-----------------------------------------------------------------------------
(* The newest change wins.                                                 *)

\* Every report on its way: kept by the agent, or held by a handler.
Due      == reports \cup UNION {handler[h].todo : h \in Handlers}
Reported == {c \in Changes : \E r \in Due : r.change = c}

\* The changes of a setting that may have been applied.
Unfailed(s) ==
  {c \in Changes : c \notin Malformed /\ state[c] \in {"pending", "executed"} /\ effect[c][1] = s}

\* Agent and handler take turns.
Turns ==
  /\ phase # "executing" => work = {}
  /\ \A h \in Handlers :
       /\ handler[h].stage # "free" => reports = {} /\ work = {} /\ phase # "executing"
       /\ handler[h].stage \in {"free", "list", "answer"} => handler[h].todo = {}
       /\ handler[h].stage # "answer" => handler[h].pending = {}

\* A report tells a well-formed change from a malformed one, and so does a row.
Verdicts ==
  /\ \A r \in Due : r.success <=> r.change \notin Malformed
  /\ \A c \in Changes : state[c] = "executed" => c \notin Malformed

\* Rows are settled oldest first.
OldestFirst ==
  /\ \A c \in Changes : state[c] = "none" <=> c > created
  /\ \A c, p \in Changes : state[c] \in {"executed", "failed"} /\ state[p] = "pending" => c < p

\* What is reported is pending still, but for the row whose alert is being raised.
DueIsPending ==
  /\ \A r \in reports : state[r.change] = "pending"
  /\ \A h \in Handlers : \A r \in handler[h].todo :
       state[r.change] = IF handler[h].stage = "alert" /\ r = NextReport(handler[h].todo)
                           THEN "failed" ELSE "pending"

\* Reports, the work of the agent and an answer on its way have the oldest of
\* the pending rows, without a gap.
NoGaps ==
  /\ \A c \in Reported, p \in Changes : state[p] = "pending" /\ p < c => p \in Reported
  /\ \A w \in work : state[w] = "pending"
  /\ \A w \in work, p \in Changes : state[p] = "pending" /\ p < w => p \in work \cup Reported
  /\ \A w \in work, r \in reports : r.change < w
  /\ \A h \in Handlers : \A c \in handler[h].pending :
       /\ state[c] = "pending"
       /\ \A p \in Changes : state[p] = "pending" /\ p < c => p \in handler[h].pending

\* Once all that is pending for a setting has been executed, the setting is as
\* the newest asks.
Applied(s) ==
  (\A c \in Unfailed(s) : state[c] = "pending" => c \in Reported)
    => \A c \in Unfailed(s) : (\A d \in Unfailed(s) : d <= c) => device[s] = effect[c][2]

OrderInv == /\ Turns /\ Verdicts /\ OldestFirst /\ DueIsPending /\ NoGaps
            /\ \A s \in Settings : Applied(s)

LEMMA OrderInit == Init /\ TypeOK => OrderInv
<1> SUFFICES ASSUME Init, TypeOK PROVE OrderInv
  OBVIOUS
<1>1. Due = {} /\ Reported = {} /\ \A c \in Changes : state[c] = "none" /\ c > created
  BY DEF Init, Due, Reported, Free, Changes
<1>2. \A s \in Settings : Unfailed(s) = {}
  BY <1>1 DEF Unfailed
<1>3. Turns
  BY DEF Init, Turns, Free
<1>4. Verdicts /\ OldestFirst /\ DueIsPending /\ NoGaps
  BY <1>1 DEF Init, Free, Verdicts, OldestFirst, DueIsPending, NoGaps
<1>5. \A s \in Settings : Applied(s)
  BY <1>2 DEF Applied
<1> QED BY <1>3, <1>4, <1>5 DEF OrderInv

\* With one handler, the reports on their way are the agent's and its own.
LEMMA DueOf ==
  ASSUME Orderly, NEW h \in Handlers
  PROVE  Due = reports \cup handler[h].todo /\ Due' = reports' \cup handler'[h].todo
<1>1. \A g \in Handlers : g = h
  BY DEF Orderly
<1> QED BY <1>1 DEF Due

LEMMA DueTyped == TypeOK => Due \in SUBSET Report
BY DEF TypeOK, Due, Run

\* Steps that touch neither rows nor device, and at most forget what is on its way.
LEMMA OrderKept ==
  ASSUME TypeInv, OrderInv,
         state' = state, created' = created, effect' = effect, device' = device,
         Turns', DueIsPending', Due' = Due \/ Due' = {},
         work' # {} => work' = work /\ reports' = reports /\ Due' = Due,
         \A h \in Handlers : handler'[h].pending \in {handler[h].pending, {}, PendingRows}
  PROVE  OrderInv'
<1> USE DEF OrderInv
<1>1. Reported' = Reported \/ Reported' = {}
  BY DEF Reported
<1>2. work' # {} => Reported' = Reported
  BY DEF Reported
<1>3. Verdicts' /\ OldestFirst'
  BY DEF Verdicts, OldestFirst
<1>4. NoGaps'
  <2>1. \A c \in Reported', p \in Changes : state'[p] = "pending" /\ p < c => p \in Reported'
    BY <1>1 DEF NoGaps
  <2>2. \A w \in work' : state'[w] = "pending"
    BY DEF NoGaps
  <2>3. \A w \in work', p \in Changes : state'[p] = "pending" /\ p < w => p \in work' \cup Reported'
    BY <1>2 DEF NoGaps
  <2>4. \A w \in work', r \in reports' : r.change < w
    BY DEF NoGaps
  <2>5. \A h \in Handlers : \A c \in handler'[h].pending :
          /\ state'[c] = "pending"
          /\ \A p \in Changes : state'[p] = "pending" /\ p < c => p \in handler'[h].pending
    BY DEF NoGaps, PendingRows
  <2> QED BY <2>1, <2>2, <2>3, <2>4, <2>5 DEF NoGaps
<1>5. ASSUME NEW s \in Settings PROVE Applied(s)'
  <2>1. Unfailed(s)' = Unfailed(s)
    BY DEF Unfailed
  <2>2. Applied(s)
    OBVIOUS
  <2> QED BY <1>1, <2>1, <2>2 DEF Applied
<1> QED BY <1>3, <1>4, <1>5

\* A row is settled.
LEMMA OrderMark ==
  ASSUME TypeInv, OrderInv, Orderly, NEW h \in Handlers, Mark(h)
  PROVE  OrderInv'
<1> DEFINE r == NextReport(handler[h].todo)
           c == r.change
           T == {q.change : q \in handler[h].todo}
<1>1. handler[h] \in Run /\ handler[h].todo \in SUBSET Report /\ handler[h].todo # {}
  BY DEF TypeInv, TypeOK, Run, Mark
<1>2. T \in SUBSET Changes /\ T # {}
  BY <1>1 DEF Report
<1>3. r \in handler[h].todo /\ r \in Report /\ c = Oldest(T)
  <2>1. \E q \in handler[h].todo : q.change = Oldest(T)
    BY <1>2, OldestIn
  <2> QED BY <1>1, <2>1, NextReportIn DEF NextReport
<1>4. \A q \in handler[h].todo : c <= q.change
  BY <1>2, <1>3, OldestIn
<1> HIDE DEF r
<1>5. /\ state' = [state EXCEPT ![c] = IF r.success THEN "executed" ELSE "failed"]
      /\ handler[h].stage = "mark"
      /\ handler' = IF r.success THEN [handler EXCEPT ![h].todo = @ \ {r}]
                                 ELSE [handler EXCEPT ![h].stage = "alert"]
      /\ UNCHANGED <<created, effect, device, work, reports, phase>>
  BY DEF Mark, MarkChangeExecuted, agentVars, r
<1>6. reports = {} /\ work = {} /\ phase # "executing" /\ handler[h].pending = {}
  BY <1>5 DEF OrderInv, Turns
<1>7. c \in Changes /\ r.success \in BOOLEAN /\ state[c] = "pending"
  BY <1>3, <1>5 DEF OrderInv, DueIsPending, Report
<1>8. Due = handler[h].todo /\ Due' = handler'[h].todo /\ \A g \in Handlers : g = h
  BY <1>5, <1>6, DueOf DEF Orderly
<1>9. r.success <=> c \notin Malformed
  BY <1>3, <1>8 DEF OrderInv, Verdicts
<1>10. \A q \in handler[h].todo : q.change = c => q = r
  <2>1. ASSUME NEW q \in handler[h].todo, q.change = c PROVE q = r
    <3>1. q \in Report /\ (q.success <=> q.change \notin Malformed)
      BY <1>1, <1>8 DEF OrderInv, Verdicts
    <3> QED BY <1>3, <1>9, <2>1, <3>1 DEF Report
  <2> QED BY <2>1
<1>11. handler'[h].todo = IF r.success THEN handler[h].todo \ {r} ELSE handler[h].todo
  BY <1>1, <1>5 DEF TypeInv, TypeOK, Run
<1>12. handler'[h].stage = (IF r.success THEN "mark" ELSE "alert") /\ handler'[h].pending = {}
  BY <1>1, <1>5, <1>6 DEF TypeInv, TypeOK, Run
<1>13. \A p \in Changes : p # c => state'[p] = state[p]
  BY <1>5, <1>7 DEF TypeInv, TypeOK
<1>14. state'[c] = IF r.success THEN "executed" ELSE "failed"
  BY <1>5, <1>7 DEF TypeInv, TypeOK
<1>15. \A p \in Changes : p \in Reported' => p \in Reported
  BY <1>8, <1>11 DEF Reported
<1>16. \A p \in Reported : p # c => p \in Reported'
  BY <1>3, <1>8, <1>11 DEF Reported
<1>17. c \in Reported
  BY <1>3, <1>7, <1>8 DEF Reported
<1>18. \A p \in Changes : state[p] = "pending" => c <= p
  <2>1. ASSUME NEW p \in Changes, state[p] = "pending", p < c PROVE FALSE
    <3>1. p \in Reported
      BY <1>17, <2>1 DEF OrderInv, NoGaps
    <3>2. PICK q \in handler[h].todo : q.change = p
      BY <1>8, <3>1 DEF Reported
    <3> QED BY <1>4, <1>7, <2>1, <3>2 DEF Changes
  <2> QED BY <1>7, <2>1 DEF Changes
<1>19. Turns'
  BY <1>5, <1>6, <1>8, <1>12 DEF Turns
<1>20. Verdicts'
  <2>1. \A q \in Due' : q.success <=> q.change \notin Malformed
    BY <1>8, <1>11 DEF OrderInv, Verdicts
  <2>2. \A p \in Changes : state'[p] = "executed" => p \notin Malformed
    BY <1>9, <1>13, <1>14 DEF OrderInv, Verdicts
  <2> QED BY <2>1, <2>2 DEF Verdicts
<1>21. OldestFirst'
  <2>1. \A p \in Changes : state'[p] = "none" <=> p > created'
    BY <1>5, <1>7, <1>13, <1>14 DEF OrderInv, OldestFirst
  <2>2. ASSUME NEW d \in Changes, NEW p \in Changes, state'[d] \in {"executed", "failed"},
               state'[p] = "pending"
        PROVE  d < p
    <3>1. p # c /\ state[p] = "pending"
      BY <1>13, <1>14, <2>2
    <3>2. CASE d = c
      BY <1>7, <1>18, <3>1, <3>2 DEF Changes
    <3>3. CASE d # c
      BY <1>13, <2>2, <3>1, <3>3 DEF OrderInv, OldestFirst
    <3> QED BY <3>2, <3>3
  <2> QED BY <2>1, <2>2 DEF OldestFirst
<1>22. DueIsPending'
  <2>1. ASSUME NEW q \in handler'[h].todo
        PROVE  state'[q.change] = IF handler'[h].stage = "alert" /\ q = NextReport(handler'[h].todo)
                                    THEN "failed" ELSE "pending"
    <3>1. q \in handler[h].todo /\ q.change \in Changes /\ state[q.change] = "pending"
      BY <1>1, <1>5, <1>11 DEF OrderInv, DueIsPending, Report
    <3>2. CASE q.change = c
      <4>1. q = r /\ ~r.success
        BY <1>10, <1>11, <3>1, <3>2
      <4> QED BY <1>11, <1>12, <1>14, <4>1 DEF r
    <3>3. CASE q.change # c
      <4>1. ~(handler'[h].stage = "alert" /\ q = NextReport(handler'[h].todo))
        BY <1>11, <1>12, <3>3 DEF r
      <4> QED BY <1>13, <3>1, <3>3, <4>1
    <3> QED BY <3>2, <3>3
  <2>2. reports' = {}
    BY <1>5, <1>6
  <2> QED BY <1>8, <2>1, <2>2 DEF DueIsPending
<1>23. NoGaps'
  <2>1. \A p \in Changes : state'[p] = "pending" => p # c /\ state[p] = "pending"
    BY <1>13, <1>14
  <2>2. \A d \in Reported', p \in Changes : state'[p] = "pending" /\ p < d => p \in Reported'
    <3>1. ASSUME NEW d \in Reported', NEW p \in Changes, state'[p] = "pending", p < d
          PROVE  p \in Reported'
      <4>1. d \in Reported
        BY <1>15 DEF Reported
      <4>2. p \in Reported
        BY <2>1, <3>1, <4>1 DEF OrderInv, NoGaps
      <4> QED BY <1>16, <2>1, <3>1, <4>2
    <3> QED BY <3>1
  <2>3. work' = {} /\ reports' = {} /\ \A g \in Handlers : handler'[g].pending = {}
    BY <1>5, <1>6, <1>8, <1>12
  <2> QED BY <2>2, <2>3 DEF NoGaps
<1>24. ASSUME NEW s \in Settings PROVE Applied(s)'
  <2>1. Unfailed(s)' = Unfailed(s)
    <3>1. \A d \in Changes : d \notin Malformed =>
            (state'[d] \in {"pending", "executed"} <=> state[d] \in {"pending", "executed"})
      BY <1>7, <1>9, <1>13, <1>14
    <3> QED BY <1>5, <3>1 DEF Unfailed
  <2>2. ASSUME \A d \in Unfailed(s)' : state'[d] = "pending" => d \in Reported'
        PROVE  \A d \in Unfailed(s) : state[d] = "pending" => d \in Reported
    BY <1>13, <1>15, <1>17, <2>1, <2>2 DEF Unfailed
  <2>3. Applied(s)
    BY DEF OrderInv
  <2> QED BY <1>5, <2>1, <2>2, <2>3 DEF Applied
<1> QED BY <1>19, <1>20, <1>21, <1>22, <1>23, <1>24 DEF OrderInv

\* The report of a failed row is over.
LEMMA OrderAlert ==
  ASSUME TypeInv, OrderInv, Orderly, NEW h \in Handlers, RaiseAlert(h)
  PROVE  OrderInv'
<1> DEFINE r == NextReport(handler[h].todo)
<1>1. /\ handler[h] \in Run /\ handler[h].todo \in SUBSET Report /\ handler[h].todo # {}
      /\ handler[h].stage = "alert"
  BY DEF TypeInv, TypeOK, Run, RaiseAlert, AlertDue
<1>2. r \in handler[h].todo /\ r \in Report
  BY <1>1, NextReportIn
<1> HIDE DEF r
<1>3. /\ handler' = [handler EXCEPT ![h].stage = "mark", ![h].todo = @ \ {r}]
      /\ UNCHANGED <<created, state, effect, device, work, reports, phase>>
  BY DEF RaiseAlert, agentVars, r
<1>4. reports = {} /\ work = {} /\ phase # "executing" /\ handler[h].pending = {}
  BY <1>1 DEF OrderInv, Turns
<1>5. /\ handler'[h].todo = handler[h].todo \ {r} /\ handler'[h].stage = "mark"
      /\ handler'[h].pending = {}
  BY <1>1, <1>3, <1>4 DEF TypeInv, TypeOK, Run
<1>6. Due = handler[h].todo /\ Due' = handler'[h].todo /\ \A g \in Handlers : g = h
  BY <1>3, <1>4, DueOf DEF Orderly
<1>7. state[r.change] = "failed"
  BY <1>1, <1>2 DEF OrderInv, DueIsPending, r
<1>8. \A q \in handler'[h].todo : state[q.change] = "pending"
  BY <1>1, <1>5 DEF OrderInv, DueIsPending, r
<1>9. \A p \in Changes : p \in Reported' => p \in Reported
  BY <1>5, <1>6 DEF Reported
<1>10. Turns'
  BY <1>3, <1>4, <1>5, <1>6 DEF Turns
<1>11. Verdicts' /\ OldestFirst'
  BY <1>3, <1>5, <1>6 DEF OrderInv, Verdicts, OldestFirst
<1>12. DueIsPending'
  BY <1>3, <1>4, <1>5, <1>6, <1>8 DEF DueIsPending
<1>13. NoGaps'
  <2>1. ASSUME NEW d \in Reported', NEW p \in Changes, state'[p] = "pending", p < d
        PROVE  p \in Reported'
    <3>1. d \in Reported
      BY <1>9 DEF Reported
    <3>2. p \in Reported
      BY <1>3, <2>1, <3>1 DEF OrderInv, NoGaps
    <3>3. PICK q \in handler[h].todo : q.change = p
      BY <1>6, <3>2 DEF Reported
    <3>4. q # r
      BY <1>3, <1>7, <2>1, <3>3
    <3> QED BY <1>5, <1>6, <3>3, <3>4 DEF Reported
  <2>2. work' = {} /\ reports' = {} /\ \A g \in Handlers : handler'[g].pending = {}
    BY <1>3, <1>4, <1>5, <1>6
  <2> QED BY <2>1, <2>2 DEF NoGaps
<1>14. ASSUME NEW s \in Settings PROVE Applied(s)'
  <2>1. Unfailed(s)' = Unfailed(s)
    BY <1>3 DEF Unfailed
  <2>2. Applied(s)
    BY DEF OrderInv
  <2> QED BY <1>3, <1>9, <2>1, <2>2 DEF Applied, Unfailed
<1> QED BY <1>10, <1>11, <1>12, <1>13, <1>14 DEF OrderInv


\* A ping takes the reports along.
LEMMA OrderSend ==
  ASSUME TypeInv, OrderInv, Orderly, NEW h \in Handlers, SendPing(h)
  PROVE  OrderInv'
<1>1. /\ handler' = [handler EXCEPT ![h] = [stage |-> "record", todo |-> reports, pending |-> {}]]
      /\ UNCHANGED <<created, state, effect, device, work>>
      /\ reports' = {} /\ phase = "idle" /\ phase' = "waiting" /\ handler[h].stage = "free"
  BY DEF SendPing, rowVars
<1>2. handler[h].todo = {} /\ work = {} /\ \A g \in Handlers : g = h
  BY <1>1 DEF OrderInv, Turns, Orderly
<1>3. handler'[h] = [stage |-> "record", todo |-> reports, pending |-> {}]
  BY <1>1 DEF TypeInv, TypeOK
<1>4. handler'[h].stage = "record" /\ handler'[h].todo = reports /\ handler'[h].pending = {}
  BY <1>3
<1>5. Due' = Due
  BY <1>1, <1>2, <1>4, DueOf
<1>6. Turns'
  BY <1>1, <1>2, <1>4 DEF Turns
<1>7. DueIsPending'
  BY <1>1, <1>2, <1>4 DEF OrderInv, DueIsPending
<1> QED BY <1>1, <1>2, <1>4, <1>5, <1>6, <1>7, OrderKept

\* The answer becomes the work of the agent.
LEMMA OrderReceive ==
  ASSUME TypeInv, OrderInv, Orderly, NEW h \in Handlers, Receive(h)
  PROVE  OrderInv'
<1>1. /\ handler' = [handler EXCEPT ![h] = Free]
      /\ UNCHANGED <<created, state, effect, device, reports>>
      /\ handler[h].stage = "answer"
      /\ \/ phase' = "idle" /\ work' = work
         \/ phase' = "executing" /\ work' = handler[h].pending
  BY DEF Receive, rowVars
<1>2. handler[h].todo = {} /\ reports = {} /\ work = {} /\ \A g \in Handlers : g = h
  BY <1>1 DEF OrderInv, Turns, Orderly
<1>3. handler'[h] = Free
  BY <1>1 DEF TypeInv, TypeOK
<1>4. handler'[h].stage = "free" /\ handler'[h].todo = {} /\ handler'[h].pending = {}
  BY <1>3 DEF Free
<1>5. Due = {} /\ Due' = {}
  BY <1>1, <1>2, <1>4, DueOf
<1>6. Reported = {} /\ Reported' = {}
  BY <1>5 DEF Reported
<1>7. work' = {} \/ work' = handler[h].pending
  BY <1>1, <1>2
<1>8. Turns'
  BY <1>1, <1>2, <1>4 DEF Turns
<1>9. Verdicts' /\ OldestFirst' /\ DueIsPending'
  BY <1>1, <1>2, <1>4, <1>5 DEF OrderInv, Verdicts, OldestFirst, DueIsPending
<1>10. NoGaps'
  <2>1. \A c \in work' : /\ state'[c] = "pending"
                         /\ \A p \in Changes : state'[p] = "pending" /\ p < c => p \in work'
    BY <1>1, <1>7 DEF OrderInv, NoGaps
  <2>2. reports' = {} /\ \A g \in Handlers : handler'[g].pending = {}
    BY <1>1, <1>2, <1>4
  <2> QED BY <1>6, <2>1, <2>2 DEF NoGaps
<1>11. ASSUME NEW s \in Settings PROVE Applied(s)'
  <2>1. Unfailed(s)' = Unfailed(s)
    BY <1>1 DEF Unfailed
  <2>2. Applied(s)
    BY DEF OrderInv
  <2> QED BY <1>1, <1>6, <2>1, <2>2 DEF Applied
<1> QED BY <1>8, <1>9, <1>10, <1>11 DEF OrderInv

\* A new row is pending and asks for anything.
LEMMA OrderCreate ==
  ASSUME TypeInv, OrderInv, CreateChange
  PROVE  OrderInv'
<1> DEFINE n == created + 1
<1>1. /\ created \in 0 .. N /\ n \in Changes /\ created' = n
      /\ state' = [state EXCEPT ![n] = "pending"]
      /\ UNCHANGED <<device, phase, work, reports, handler>>
  BY NAssumption DEF CreateChange, agentVars, TypeInv, TypeOK, Changes
<1>2. PICK x \in Settings \X Values : effect' = [effect EXCEPT ![n] = x]
  BY DEF CreateChange
<1> HIDE DEF n
<1>3. state'[n] = "pending" /\ effect'[n] = x
      /\ \A c \in Changes : c # n => state'[c] = state[c] /\ effect'[c] = effect[c]
  BY <1>1, <1>2 DEF TypeInv, TypeOK
<1>4. state[n] = "none" /\ \A c \in Changes : state[c] # "none" => c < n
  BY <1>1 DEF OrderInv, OldestFirst, Changes, n
<1>5. Due' = Due /\ Reported' = Reported
  BY <1>1 DEF Due, Reported
<1>6. Due \in SUBSET Report /\ \A r \in Due : r.change \in Changes
  BY DueTyped DEF TypeInv, Report
<1>7. \A r \in Due : state[r.change] # "none"
  BY DEF OrderInv, DueIsPending, Due
<1>8. \A c \in Reported : c \in Changes /\ c < n
  BY <1>4, <1>7 DEF Reported
<1>9. Turns'
  BY <1>1 DEF OrderInv, Turns
<1>10. Verdicts'
  BY <1>3, <1>5 DEF OrderInv, Verdicts
<1>11. OldestFirst'
  <2>1. \A c \in Changes : state'[c] = "none" <=> c > created'
    BY <1>1, <1>3 DEF OrderInv, OldestFirst, n, Changes
  <2>2. \A c, p \in Changes : state'[c] \in {"executed", "failed"} /\ state'[p] = "pending" => c < p
    BY <1>1, <1>3, <1>4 DEF OrderInv, OldestFirst
  <2> QED BY <2>1, <2>2 DEF OldestFirst
<1>12. DueIsPending'
  <2>1. \A r \in Due : state'[r.change] = state[r.change]
    BY <1>3, <1>4, <1>6, <1>7
  <2> QED BY <1>1, <2>1 DEF OrderInv, DueIsPending, Due
<1>13. NoGaps'
  <2>1. \A c \in Changes : state[c] = "pending" =>
          /\ state'[c] = "pending"
          /\ \A p \in Changes : state'[p] = "pending" /\ p < c => state[p] = "pending"
    BY <1>1, <1>3, <1>4 DEF Changes
  <2>2. \A c \in Reported, p \in Changes : state'[p] = "pending" /\ p < c => state[p] = "pending"
    BY <1>1, <1>3, <1>8 DEF Changes
  <2>3. work \in SUBSET Changes /\ \A h \in Handlers : handler[h].pending \in SUBSET Changes
    BY DEF TypeInv, TypeOK, Run
  <2>4. \A c \in Reported', p \in Changes : state'[p] = "pending" /\ p < c => p \in Reported'
    BY <1>5, <2>2 DEF OrderInv, NoGaps
  <2>5. /\ \A w \in work' : state'[w] = "pending"
        /\ \A w \in work', p \in Changes : state'[p] = "pending" /\ p < w => p \in work' \cup Reported'
        /\ \A w \in work', r \in reports' : r.change < w
    BY <1>1, <1>5, <2>1, <2>3 DEF OrderInv, NoGaps
  <2>6. \A h \in Handlers : \A c \in handler'[h].pending :
          /\ state'[c] = "pending"
          /\ \A p \in Changes : state'[p] = "pending" /\ p < c => p \in handler'[h].pending
    BY <1>1, <2>1, <2>3 DEF OrderInv, NoGaps
  <2> QED BY <2>4, <2>5, <2>6 DEF NoGaps
<1>14. ASSUME NEW s \in Settings PROVE Applied(s)'
  <2>1. CASE n \in Unfailed(s)'
    <3>1. n \notin Reported'
      BY <1>1, <1>5, <1>8 DEF Changes
    <3> QED BY <1>3, <2>1, <3>1 DEF Applied
  <2>2. CASE n \notin Unfailed(s)'
    <3>1. Unfailed(s)' = Unfailed(s)
      BY <1>3, <1>4, <2>2 DEF Unfailed
    <3>2. \A c \in Unfailed(s) : c # n /\ c \in Changes
      BY <1>4 DEF Unfailed
    <3>3. \A c \in Unfailed(s) : state'[c] = state[c] /\ effect'[c] = effect[c]
      BY <1>3, <3>2
    <3>4. Applied(s)
      BY DEF OrderInv
    <3> QED BY <1>1, <1>5, <3>1, <3>3, <3>4 DEF Applied
  <2> QED BY <2>1, <2>2
<1> QED BY <1>9, <1>10, <1>11, <1>12, <1>13, <1>14 DEF OrderInv

\* The agent executes the oldest of its work: whatever is pending and newer is
\* not reported yet, so that the setting is as the newest executed asks.
LEMMA OrderExecute ==
  ASSUME TypeInv, OrderInv, Orderly, Execute
  PROVE  OrderInv'
<1> DEFINE c == Oldest(work)
<1>1. work \in SUBSET Changes /\ work # {}
  BY DEF Execute, TypeInv, TypeOK
<1>2. c \in work /\ c \in Changes /\ \A w \in work : c <= w
  BY <1>1, OldestIn
<1>3. PICK success \in BOOLEAN :
        /\ success <=> c \notin Malformed
        /\ reports' = reports \cup {[change |-> c, success |-> success]}
        /\ device' = IF success THEN [device EXCEPT ![effect[c][1]] = effect[c][2]] ELSE device
  BY DEF Execute, Orderly
<1>4. phase = "executing" /\ work' = work \ {c}
      /\ UNCHANGED <<created, state, effect, phase, handler>>
  BY DEF Execute, rowVars
<1> HIDE DEF c
<1>5. \A h \in Handlers :
        handler[h].stage = "free" /\ handler[h].todo = {} /\ handler[h].pending = {}
  BY <1>4 DEF OrderInv, Turns
<1>6. Due = reports /\ Due' = reports'
  BY <1>4, <1>5 DEF Due
<1>7. \A p \in Changes : p \in Reported' <=> p \in Reported \/ p = c
  <2> DEFINE new == [change |-> c, success |-> success]
  <2>1. new.change = c
    OBVIOUS
  <2> HIDE DEF new
  <2>2. Due' = Due \cup {new}
    BY <1>3, <1>6 DEF new
  <2> QED BY <2>1, <2>2 DEF Reported
<1>8. state[c] = "pending"
  BY <1>2 DEF OrderInv, NoGaps
<1>9. \A d \in Reported : d \in Changes /\ d < c
  BY <1>2, <1>6 DEF OrderInv, NoGaps, Reported
<1>10. Turns'
  BY <1>4, <1>5 DEF Turns
<1>11. Verdicts' /\ OldestFirst'
  BY <1>3, <1>4, <1>6 DEF OrderInv, Verdicts, OldestFirst
<1>12. DueIsPending'
  BY <1>3, <1>4, <1>5, <1>8 DEF OrderInv, DueIsPending
<1>13. NoGaps'
  <2>1. \A p \in Changes : state[p] = "pending" /\ p < c => p \in Reported
    BY <1>1, <1>2 DEF OrderInv, NoGaps, Changes
  <2>2. \A d \in Reported', p \in Changes : state'[p] = "pending" /\ p < d => p \in Reported'
    <3>1. ASSUME NEW d \in Reported', NEW p \in Changes, state[p] = "pending", p < d
          PROVE  p \in Reported'
      <4>1. d \in Changes /\ (d \in Reported \/ d = c)
        BY <1>7 DEF Reported
      <4>2. p \in Reported
        BY <2>1, <3>1, <4>1 DEF OrderInv, NoGaps
      <4> QED BY <1>7, <4>2
    <3> QED BY <1>4, <3>1
  <2>3. \A w \in work' : state'[w] = "pending"
    BY <1>4 DEF OrderInv, NoGaps
  <2>4. \A w \in work', p \in Changes : state'[p] = "pending" /\ p < w => p \in work' \cup Reported'
    BY <1>4, <1>7 DEF OrderInv, NoGaps
  <2>5. \A w \in work' : c < w
    BY <1>1, <1>2, <1>4 DEF Changes
  <2>6. \A w \in work', r \in reports' : r.change < w
    BY <1>3, <1>4, <2>5 DEF OrderInv, NoGaps
  <2> QED BY <1>4, <1>5, <2>2, <2>3, <2>4, <2>6 DEF NoGaps
<1>14. ASSUME NEW s \in Settings PROVE Applied(s)'
  <2>1. Unfailed(s)' = Unfailed(s)
    BY <1>4 DEF Unfailed
  <2>2. Applied(s)
    BY DEF OrderInv
  <2>3. CASE c \in Unfailed(s)
    <3>1. success /\ effect[c][1] = s
      BY <1>3, <2>3 DEF Unfailed
    <3>2. device'[s] = effect[c][2]
      BY <1>3, <3>1 DEF TypeInv, TypeOK
    <3>3. ASSUME \A d \in Unfailed(s) : state[d] = "pending" => d \in Reported',
                 NEW d \in Unfailed(s)
          PROVE  d <= c
      <4>1. d \in Changes /\ state[d] \in {"pending", "executed"}
        BY DEF Unfailed
      <4>2. CASE state[d] = "executed"
        BY <1>2, <1>8, <4>1, <4>2 DEF OrderInv, OldestFirst, Changes
      <4>3. CASE state[d] = "pending"
        BY <1>2, <1>7, <1>9, <3>3, <4>1, <4>3 DEF Changes
      <4> QED BY <4>1, <4>2, <4>3
    <3>4. ASSUME \A d \in Unfailed(s) : state[d] = "pending" => d \in Reported',
                 NEW d \in Unfailed(s), \A e \in Unfailed(s) : e <= d
          PROVE  d = c
      <4>1. d \in Changes /\ c <= d
        BY <2>3, <3>4 DEF Unfailed
      <4>2. d <= c
        BY <3>3, <3>4
      <4> QED BY <1>2, <4>1, <4>2 DEF Changes
    <3> QED BY <1>4, <2>1, <3>2, <3>4 DEF Applied
  <2>4. CASE c \notin Unfailed(s)
    <3>1. device'[s] = device[s]
      <4>1. CASE success
        <5>1. effect[c][1] # s
          BY <1>2, <1>3, <1>8, <2>4, <4>1 DEF Unfailed
        <5> QED BY <1>3, <4>1, <5>1 DEF TypeInv, TypeOK
      <4>2. CASE ~success
        BY <1>3, <4>2
      <4> QED BY <4>1, <4>2
    <3>2. \A d \in Unfailed(s) : d \in Changes /\ (d \in Reported' => d \in Reported)
      BY <1>7, <2>4 DEF Unfailed
    <3> QED BY <1>4, <2>1, <2>2, <3>1, <3>2 DEF Applied
  <2> QED BY <2>3, <2>4
<1> QED BY <1>10, <1>11, <1>12, <1>13, <1>14 DEF OrderInv

LEMMA OrderNext == TypeInv /\ OrderInv /\ Orderly /\ [Next]_vars => OrderInv'
<1> SUFFICES ASSUME TypeInv, OrderInv, Orderly, [Next]_vars PROVE OrderInv'
  OBVIOUS
<1> USE DEF rowVars, agentVars
<1>0. OrderInv => Turns /\ DueIsPending
  BY DEF OrderInv
<1>1. CASE CreateChange
  BY <1>1, OrderCreate
<1>2. ASSUME NEW h \in Handlers, Record(h) \/ MarkDone(h) \/ List(h) \/ ListFails(h)
      PROVE  OrderInv'
  <2>1. UNCHANGED <<created, state, effect, device, phase, work, reports>>
    BY <1>2 DEF Record, MarkDone, List, ListFails
  <2>2. \A g \in Handlers : g = h
    BY DEF Orderly
  <2>3. /\ handler[h].stage \in {"record", "mark", "list"}
        /\ handler'[h].stage \in {"mark", "list", "answer"}
        /\ handler'[h].todo = handler[h].todo
        /\ handler'[h].stage # "mark" => handler[h].todo = {}
        /\ handler'[h].stage # "answer" => handler'[h].pending = handler[h].pending
        /\ handler'[h].pending \in {handler[h].pending, {}, PendingRows}
    BY <1>0, <1>2 DEF Record, MarkDone, List, ListFails, Turns, TypeInv, TypeOK, Run
  <2>4. Due' = Due
    BY <2>1, <2>3, DueOf
  <2>5. Turns'
    BY <1>0, <2>1, <2>2, <2>3 DEF Turns
  <2>6. DueIsPending'
    BY <1>0, <2>1, <2>2, <2>3 DEF DueIsPending
  <2> QED BY <2>1, <2>2, <2>3, <2>4, <2>5, <2>6, OrderKept
<1>3. ASSUME NEW h \in Handlers, Mark(h) PROVE OrderInv'
  BY <1>3, OrderMark
<1>4. ASSUME NEW h \in Handlers, RaiseAlert(h) PROVE OrderInv'
  BY <1>4, OrderAlert
<1>5. ASSUME NEW h \in Handlers PROVE ~MarkFails(h)
  BY DEF Orderly, MarkFails
<1>6. ASSUME NEW h \in Handlers, Abort(h) \/ Unheard(h) PROVE OrderInv'
  <2>1. /\ UNCHANGED <<created, state, effect, device, work, reports>>
        /\ handler[h].stage # "free" /\ handler' = [handler EXCEPT ![h] = Free]
        /\ phase' \in {phase, "idle"}
    BY <1>6 DEF Abort, Unheard
  <2>2. reports = {} /\ work = {} /\ phase # "executing" /\ \A g \in Handlers : g = h
    BY <1>0, <2>1 DEF Turns, Orderly
  <2>3. handler'[h] = Free
    BY <2>1 DEF TypeInv, TypeOK
  <2>4. handler'[h].stage = "free" /\ handler'[h].todo = {} /\ handler'[h].pending = {}
    BY <2>3 DEF Free
  <2>5. Due' = {}
    BY <2>1, <2>2, <2>4, DueOf
  <2>6. Turns' /\ DueIsPending'
    BY <2>1, <2>2, <2>4 DEF Turns, DueIsPending
  <2> QED BY <2>1, <2>2, <2>4, <2>5, <2>6, OrderKept
<1>7. ASSUME NEW h \in Handlers, SendPing(h) PROVE OrderInv'
  BY <1>7, OrderSend
<1>8. ASSUME NEW h \in Handlers, Receive(h) PROVE OrderInv'
  BY <1>8, OrderReceive
<1>9. CASE Execute
  BY <1>9, OrderExecute
<1>10. CASE PingFails \/ AgentCrash
  <2>1. /\ UNCHANGED <<created, state, effect, device, handler>>
        /\ reports' = {} /\ work' \in {work, {}} /\ phase' \in {phase, "idle"}
        /\ work' # {} => phase = "idle"
    BY <1>10 DEF PingFails, AgentCrash
  <2>2. work' = {}
    BY <1>0, <2>1 DEF Turns
  <2>3. Due' = Due \/ Due' = {}
    <3>1. (\A h \in Handlers : handler[h].todo = {}) => Due' = {}
      BY <2>1 DEF Due
    <3>2. reports = {} => Due' = Due
      BY <2>1 DEF Due
    <3>3. ASSUME NEW h \in Handlers, handler[h].todo # {} PROVE reports = {}
      BY <1>0, <3>3 DEF Turns
    <3> QED BY <3>1, <3>2, <3>3
  <2>4. Turns' /\ DueIsPending'
    BY <1>0, <2>1, <2>2 DEF Turns, DueIsPending
  <2> QED BY <2>1, <2>2, <2>3, <2>4, OrderKept
<1>11. CASE Timeout \/ ExecuteDone \/ UNCHANGED vars
  <2>1. /\ UNCHANGED <<created, state, effect, device, handler, work, reports>>
        /\ phase' = phase \/ (phase' = "idle" /\ work = {})
    BY <1>0, <1>11 DEF Timeout, ExecuteDone, vars, Turns
  <2>2. Due' = Due /\ Turns' /\ DueIsPending'
    BY <1>0, <2>1 DEF Due, Turns, DueIsPending
  <2> QED BY <2>1, <2>2, OrderKept
<1> QED BY <1>1, <1>2, <1>3, <1>4, <1>5, <1>6, <1>7, <1>8, <1>9, <1>10, <1>11
        DEF Next, HandlerStep, AgentStep

\* Every list of changes that is not empty has a newest one.
LEMMA NewestIn ==
  ASSUME NEW S \in SUBSET Changes, S # {}
  PROVE  Newest(S) \in S /\ \A d \in S : d <= Newest(S)
<1> DEFINE T == {N - d : d \in S}
<1>1. S \subseteq 1 .. N /\ T \subseteq Nat /\ T # {}
  <2>1. \A d \in S : d \in 1 .. N /\ N - d \in Nat
    BY NAssumption DEF Changes
  <2> QED BY <2>1
<1>2. PICK t \in T : \A u \in T : ~ (<<u, t>> \in OpToRel(<, Nat))
  BY <1>1, WFMin, NatLessThanWellFounded
<1>3. \A u \in T : u < t => <<u, t>> \in OpToRel(<, Nat)
  BY <1>1, Zenon DEF OpToRel
<1>4. \A u \in T : ~(u < t)
  BY <1>2, <1>3, Zenon
<1>5. PICK c \in S : t = N - c
  OBVIOUS
<1>6. ASSUME NEW d \in S PROVE d <= c
  <2>1. N - d \in T /\ ~(N - d < t)
    BY <1>4
  <2>2. c \in Nat /\ d \in Nat /\ N \in Nat
    BY <1>1, NAssumption
  <2> QED BY <1>5, <2>1, <2>2
<1> QED BY <1>6 DEF Newest

\* With one handler at a time no old change wins over a newer one, however often
\* reports are lost and changes executed again.
THEOREM NewestChangeWins == Spec => []NewestWins
<1>1. TypeInv /\ OrderInv => NewestWins
  <2> SUFFICES ASSUME TypeInv, OrderInv, PendingRows = {}, NEW s \in Settings, Executed(s) # {}
               PROVE  device[s] = effect[Newest(Executed(s))][2]
    BY DEF NewestWins
  <2>1. Executed(s) = Unfailed(s)
    BY DEF PendingRows, OrderInv, Verdicts, Executed, Unfailed
  <2>2. Newest(Executed(s)) \in Executed(s) /\ \A d \in Executed(s) : d <= Newest(Executed(s))
    BY NewestIn DEF Executed
  <2>3. Applied(s)
    BY DEF OrderInv
  <2> QED BY <2>1, <2>2, <2>3 DEF Applied, PendingRows, Unfailed
<1>2. CASE Orderly
  <2>1. Init => TypeInv /\ OrderInv
    BY TypeInit, OrderInit DEF TypeInv
  <2>2. TypeInv /\ OrderInv /\ [Next]_vars => TypeInv' /\ OrderInv'
    BY <1>2, TypeNext, OrderNext
  <2> QED BY <1>1, <2>1, <2>2, PTL DEF Spec
<1>3. CASE ~Orderly
  <2>1. NewestWins
    BY <1>3 DEF NewestWins
  <2> QED BY <2>1, PTL
<1> QED BY <1>2, <1>3
=============================================================================
