-------------------------- MODULE QmiStartupProofs --------------------------
(***************************************************************************)
(* What holds of the start-up of quectel-CM for any processes, services    *)
(* and bounds.                                                             *)
(***************************************************************************)
EXTENDS QmiStartup, TLAPS

USE ProcsAssumption, StartupSizes DEF ProcsAssumption, StartupSizes

\* Without the modem: before it is opened, and after it is closed.
Idle == {"off", "start", "search", "scan", "kill", "sleep"}

\* What a process is in itself.
Sound(r) ==
  /\ r.pc \in {"get", "release"} => r.svc \in 1 .. Services
  /\ r.sent => r.pc \in Asking
  /\ r.pc \in Idle => r.thread = "none"
  /\ r.pc = "kill" => r.target \in Procs

\* An awaited request is its process's only one, and one for an id names a service.
Queue ==
  /\ \A i \in DOMAIN toModem : toModem[i].msg = "get" => toModem[i].svc # 0
  /\ \A i \in DOMAIN toModem :
       toModem[i].awaited =>
         /\ proc[toModem[i].own].sent
         /\ \A j \in DOMAIN toModem : toModem[j].awaited /\ toModem[j].own = toModem[i].own => j = i
  /\ ~present => toModem = <<>>

\* A process another has found is gone, or about to be killed.
Seen ==
  \A p \in Procs : \A q \in proc[p].saw :
    proc[q].pc = "off" \/ (proc[p].pc = "kill" /\ proc[p].target = q)

\* TypeOK in two parts, the processes with what is on its way, and the rest.
ProcsOK == proc \in [Procs -> Process] /\ toModem \in Seq(Request)
RestOK ==
  /\ driver \in {"wwan", "gobi"} /\ supports \in BOOLEAN /\ present \in BOOLEAN
  /\ used \subseteq Procs \X (1 .. Services)
  /\ disturbed \subseteq Procs
  /\ lives \in 0 .. MaxLives /\ faults \in 0 .. MaxFaults

ProcsInv ==
  /\ ProcsOK
  /\ \A p \in Procs : Sound(proc[p])
  /\ Queue
  /\ Seen

-----------------------------------------------------------------------------
(* One process changes.                                                    *)

LEMMA EndedIsSound == Ended \in Process /\ Sound(Ended)
BY DEF Ended, Process, NoIds, Sound, Phases, Asking, Idle

LEMMA ThenIsProcess ==
  ASSUME NEW r \in Process, NEW phase \in Phases, NEW s \in 0 .. Services
  PROVE  /\ Then(r, phase, s) \in Process
         /\ Then(r, phase, s).pc = phase /\ Then(r, phase, s).svc = s /\ ~Then(r, phase, s).sent
         /\ Then(r, phase, s).thread = r.thread /\ Then(r, phase, s).saw = r.saw
BY DEF Then, Process

\* What comes after r is sound, awaits nothing, and has found nobody else.
Follows(t, r) == t \in Process /\ Sound(t) /\ ~t.sent /\ t.saw = r.saw /\ t.pc \notin {"off", "kill"}

LEMMA ThenFollows ==
  ASSUME NEW r \in Process, NEW phase \in Phases \ Idle, NEW s \in 0 .. Services,
         phase \in {"get", "release"} => s # 0
  PROVE  Follows(Then(r, phase, s), r)
<1> DEFINE t == Then(r, phase, s)
<1>1. /\ t \in Process /\ t.pc = phase /\ t.svc = s /\ ~t.sent /\ t.saw = r.saw
  BY ThenIsProcess
<1> HIDE DEF t
<1>2. Sound(t)
  BY <1>1 DEF Sound, Idle
<1>3. t.pc \notin {"off", "kill"}
  BY <1>1 DEF Idle
<1>4. Follows(t, r)
  BY <1>1, <1>2, <1>3 DEF Follows
<1> QED BY <1>4 DEF t

LEMMA ReleasingFollows ==
  ASSUME NEW r \in Process
  PROVE  Follows(Releasing(r), r)
<1> DEFINE held == {s \in 1 .. Services : r.ids[s] # 0}
           some == CHOOSE s \in held : TRUE
<1>1. CASE held = {}
  <2>1. "join" \in Phases \ Idle /\ 0 \in 0 .. Services /\ "join" \notin {"get", "release"}
    BY DEF Phases, Asking, Idle
  <2>2. Follows(Then(r, "join", 0), r)
    BY <2>1, ThenFollows
  <2> QED BY <1>1, <2>2 DEF Releasing
<1>2. CASE held # {}
  <2>1. some \in 1 .. Services
    <3>1. \E s \in held : TRUE
      BY <1>2
    <3>2. some \in held
      <4> HIDE DEF held
      <4> QED BY <3>1
    <3> QED BY <3>2
  <2>2. Releasing(r) = Then(r, "release", some)
    BY <1>2 DEF Releasing
  <2>3. "release" \in Phases \ Idle
    BY DEF Phases, Asking, Idle
  <2> HIDE DEF some
  <2>4. some \in 0 .. Services /\ some # 0
    BY <2>1
  <2>5. Follows(Then(r, "release", some), r)
    BY <2>3, <2>4, ThenFollows
  <2> QED BY <2>2, <2>5
<1> QED BY <1>1, <1>2

LEMMA AfterFollows ==
  ASSUME NEW r \in Process, Sound(r), r.pc \in Asking, NEW rsp
  PROVE  Follows(After(r, rsp), r)
<1>0. /\ \A phase \in {"sync", "get", "sim", "join"} : phase \in Phases \ Idle
      /\ 0 \in 0 .. Services /\ 1 \in 0 .. Services
  BY DEF Phases, Asking, Idle
<1>1. CASE r.pc = "sync"
  <2>1. After(r, rsp) = IF rsp # "fail" THEN [Then(r, "get", 1) EXCEPT !.syncs = 0]
                        ELSE IF ~InVain(r) THEN [Then(r, "sync", 0) EXCEPT !.syncs = Counted(r)]
                        ELSE Then(r, "join", 0)
    BY <1>1 DEF After
  <2>2. Follows(Then(r, "get", 1), r) /\ Follows(Then(r, "sync", 0), r) /\ Follows(Then(r, "join", 0), r)
    BY <1>0, ThenFollows
  <2>3. ASSUME NEW n \in 0 .. MaxSyncs - 1, NEW u, Follows(u, r)
        PROVE  Follows([u EXCEPT !.syncs = n], r)
    BY <2>3 DEF Process, Follows, Sound
  <2>4. ~InVain(r) => Counted(r) \in 0 .. MaxSyncs - 1
    BY DEF InVain, Counted, Process
  <2>5. 0 \in 0 .. MaxSyncs - 1
    OBVIOUS
  <2> QED BY <2>1, <2>2, <2>3, <2>4, <2>5
<1>2. CASE r.pc = "get"
  <2> DEFINE ids == [r.ids EXCEPT ![r.svc] = Granted(r, rsp)]
             t == [r EXCEPT !.ids = ids]
  <2>1. After(r, rsp) = IF r.svc < Services THEN Then(t, "get", r.svc + 1) ELSE Then(t, "sim", 0)
    BY <1>2 DEF After
  <2>2. ids \in [1 .. Services -> {-1, 0, 1}] /\ r.svc \in 1 .. Services
    BY <1>2 DEF Process, Sound, Granted
  <2>3. t \in Process /\ t.saw = r.saw
    <3> HIDE DEF ids
    <3> QED BY <2>2 DEF Process
  <2> HIDE DEF t
  <2>4. r.svc < Services => r.svc + 1 \in 0 .. Services /\ r.svc + 1 # 0
    BY <2>2
  <2>5. r.svc < Services => Follows(Then(t, "get", r.svc + 1), t)
    BY <1>0, <2>3, <2>4, ThenFollows
  <2>6. Follows(Then(t, "sim", 0), t)
    BY <1>0, <2>3, ThenFollows
  <2> QED BY <2>1, <2>3, <2>5, <2>6 DEF Follows
<1>3. CASE r.pc = "release"
  <2> DEFINE ids == [r.ids EXCEPT ![r.svc] = 0]
             t == [r EXCEPT !.ids = ids]
  <2>1. After(r, rsp) = Releasing(t)
    BY <1>3 DEF After
  <2>2. ids \in [1 .. Services -> {-1, 0, 1}]
    BY DEF Process
  <2>3. t \in Process /\ t.saw = r.saw
    <3> HIDE DEF ids
    <3> QED BY <2>2 DEF Process
  <2> HIDE DEF t
  <2> QED BY <2>1, <2>3, ReleasingFollows DEF Follows
<1> QED BY <1>1, <1>2, <1>3 DEF Asking

\* Whoever r has found is gone or its target, and r does not come back to life.
Meets(p, r) ==
  /\ proc[p].pc = "off" => r.pc = "off"
  /\ \A q \in r.saw : proc[q].pc = "off" \/ (r.pc = "kill" /\ r.target = q)

LEMMA ChangeKeepsProcs ==
  ASSUME ProcsInv, NEW p \in Procs, NEW r \in Process, Sound(r), Meets(p, r), Becomes(p, r)
  PROVE  proc' \in [Procs -> Process] /\ (\A q \in Procs : Sound(proc'[q])) /\ Seen'
<1>1. /\ proc \in [Procs -> Process] /\ (\A q \in Procs : Sound(proc[q])) /\ Seen
      /\ proc' = [proc EXCEPT ![p] = r]
  BY DEF ProcsInv, ProcsOK, Becomes
<1>2. proc' \in [Procs -> Process] /\ proc'[p] = r /\ \A q \in Procs \ {p} : proc'[q] = proc[q]
  BY <1>1
<1>3. \A q \in Procs : proc[q].pc = "off" => proc'[q].pc = "off"
  BY <1>2 DEF Meets
<1>4. \A q \in Procs : proc'[q].saw \subseteq Procs
  BY <1>2 DEF Process
<1>5. Seen'
  <2> SUFFICES ASSUME NEW q \in Procs, NEW s \in proc'[q].saw
               PROVE  proc'[s].pc = "off" \/ (proc'[q].pc = "kill" /\ proc'[q].target = s)
    BY DEF Seen
  <2>1. CASE q = p
    BY <2>1, <1>2, <1>3, <1>4 DEF Meets
  <2>2. CASE q # p
    BY <2>2, <1>1, <1>2, <1>3, <1>4 DEF Seen
  <2> QED BY <2>1, <2>2
<1> QED BY <1>1, <1>2, <1>5

LEMMA ChangeKeepsQueue ==
  ASSUME ProcsInv, NEW p \in Procs, NEW r \in Process, Becomes(p, r), r.sent \/ ~proc[p].sent,
         UNCHANGED <<toModem, present>>
  PROVE  toModem' \in Seq(Request) /\ Queue'
BY DEF ProcsInv, ProcsOK, Queue, Becomes, Request

LEMMA UnawaitedKeepsQueue ==
  ASSUME ProcsInv, NEW p \in Procs, NEW r \in Process, Becomes(p, r), toModem' = Unawaited(p),
         UNCHANGED present
  PROVE  toModem' \in Seq(Request) /\ Queue'
<1> DEFINE Asks(m) == IF m.own = p THEN [m EXCEPT !.awaited = FALSE] ELSE m
<1>1. toModem \in Seq(Request) /\ toModem' = [i \in DOMAIN toModem |-> Asks(toModem[i])]
  BY DEF ProcsInv, ProcsOK, Unawaited
<1>2. \A m \in Request :
        /\ Asks(m) \in Request /\ Asks(m).own = m.own /\ Asks(m).msg = m.msg /\ Asks(m).svc = m.svc
        /\ Asks(m).awaited => m.awaited /\ m.own # p
  BY DEF Request
<1>3. \A i \in DOMAIN toModem : toModem[i] \in Request
  BY <1>1
<1> HIDE DEF Asks
<1>4. toModem' \in Seq(Request) /\ DOMAIN toModem' = DOMAIN toModem
  BY <1>1, <1>2, <1>3
<1>5. \A i \in DOMAIN toModem :
        /\ toModem'[i].own = toModem[i].own /\ toModem'[i].msg = toModem[i].msg
        /\ toModem'[i].svc = toModem[i].svc
        /\ toModem'[i].awaited => toModem[i].awaited /\ toModem[i].own # p
  BY <1>1, <1>2, <1>3
<1>6. \A i \in DOMAIN toModem : toModem[i].own # p => proc'[toModem[i].own] = proc[toModem[i].own]
  BY <1>3 DEF Becomes, ProcsInv, ProcsOK, Request
<1>7. ~present' => toModem' = <<>>
  BY <1>4, <1>1 DEF ProcsInv, Queue
<1> QED BY <1>4, <1>5, <1>6, <1>7 DEF ProcsInv, Queue

\* A change of one process, with its requests unchanged or no longer awaited.
LEMMA Change ==
  ASSUME ProcsInv, NEW p \in Procs, NEW r \in Process, Sound(r), Meets(p, r), Becomes(p, r),
         UNCHANGED present,
         (toModem' = toModem /\ (r.sent \/ ~proc[p].sent)) \/ toModem' = Unawaited(p)
  PROVE  ProcsInv'
<1>1. toModem' \in Seq(Request) /\ Queue'
  BY ChangeKeepsQueue, UnawaitedKeepsQueue
<1>2. proc' \in [Procs -> Process] /\ (\A q \in Procs : Sound(proc'[q])) /\ Seen'
  BY ChangeKeepsProcs
<1> QED BY <1>1, <1>2 DEF ProcsInv, ProcsOK, Sound

\* Nobody else is found, and a target stays one.
LEMMA SameMeets ==
  ASSUME ProcsInv, NEW p \in Procs, NEW r \in Process, r.saw \subseteq proc[p].saw,
         proc[p].pc = "off" => r.pc = "off",
         proc[p].pc = "kill" => r.pc = "kill" /\ r.target = proc[p].target
  PROVE  Meets(p, r)
BY DEF Meets, ProcsInv, Seen

LEMMA EndsKeepsProcs ==
  ASSUME ProcsInv, NEW p \in Procs, Ends(p)
  PROVE  ProcsInv'
<1>1. Meets(p, Ended)
  BY DEF Meets, Ended
<1> QED BY <1>1, EndedIsSound, Change DEF Ends

LEMMA AfterKeepsProcs ==
  ASSUME ProcsInv, NEW p \in Procs, proc[p].pc \in Asking, NEW rsp,
         NEW u \in Process, Sound(u), u.pc = proc[p].pc, u.saw = proc[p].saw
  PROVE  After(u, rsp) \in Process /\ Sound(After(u, rsp)) /\ Meets(p, After(u, rsp)) /\ ~After(u, rsp).sent
<1>1. Follows(After(u, rsp), u)
  BY AfterFollows
<1> DEFINE t == After(u, rsp)
<1>2. t \in Process /\ t.saw = proc[p].saw
  BY <1>1 DEF Follows
<1> HIDE DEF t
<1>3. Meets(p, t)
  BY <1>2, SameMeets DEF Asking
<1> USE DEF t
<1> QED BY <1>1, <1>3 DEF Follows

LEMMA SignalledKeepsProcs ==
  ASSUME ProcsInv, NEW q \in Procs, Becomes(q, Signalled(proc[q])), UNCHANGED <<toModem, present>>
  PROVE  ProcsInv'
<1> DEFINE r == Signalled(proc[q])
<1>0. proc[q] \in Process /\ Sound(proc[q])
  BY DEF ProcsInv, ProcsOK
<1>1. /\ r \in Process /\ r.saw = proc[q].saw /\ r.pc = proc[q].pc /\ r.target = proc[q].target
      /\ r.svc = proc[q].svc /\ r.thread = proc[q].thread /\ r.sent = proc[q].sent
  BY <1>0 DEF Process, Signalled
<1>2. Becomes(q, r)
  OBVIOUS
<1> HIDE DEF r
<1>3. Sound(r)
  BY <1>0, <1>1 DEF Sound
<1>4. Meets(q, r)
  BY <1>1, SameMeets
<1> QED BY <1>1, <1>2, <1>3, <1>4, Change

-----------------------------------------------------------------------------
(* The beginning.                                                          *)

LEMMA StartKeepsProcs ==
  ASSUME ProcsInv, NEW p \in Procs, Start(p)
  PROVE  ProcsInv'
<1>1. PICK l \in BOOLEAN :
        proc' = [q \in Procs |-> IF q = p THEN [Ended EXCEPT !.pc = "start", !.loops = l]
                                 ELSE [proc[q] EXCEPT !.saw = @ \ {p}]]
  BY DEF Start
<1>2. proc \in [Procs -> Process] /\ toModem \in Seq(Request) /\ (\A q \in Procs : Sound(proc[q]))
      /\ Queue /\ Seen
  BY DEF ProcsInv, ProcsOK
<1>3. UNCHANGED <<toModem, present>> /\ proc[p].pc = "off"
  BY DEF Start, modemVars, At
<1>4. \A u \in Process :
        LET v == [u EXCEPT !.saw = @ \ {p}]
        IN /\ v \in Process /\ v.pc = u.pc /\ v.svc = u.svc /\ v.sent = u.sent /\ v.thread = u.thread
           /\ v.target = u.target /\ v.saw = u.saw \ {p}
  BY DEF Process
<1>5. LET v == [Ended EXCEPT !.pc = "start", !.loops = l]
      IN v \in Process /\ v.pc = "start" /\ v.thread = "none" /\ ~v.sent /\ v.saw = {}
  <2>1. \A u \in Process :
          LET v == [u EXCEPT !.pc = "start", !.loops = l]
          IN v \in Process /\ v.pc = "start" /\ v.thread = u.thread /\ v.sent = u.sent /\ v.saw = u.saw
    <3>1. "start" \in Phases
      BY DEF Phases
    <3> QED BY <3>1 DEF Process
  <2>2. Ended \in Process /\ Ended.thread = "none" /\ ~Ended.sent /\ Ended.saw = {}
    BY EndedIsSound DEF Ended
  <2> QED BY <2>1, <2>2
<1>6. /\ proc' \in [Procs -> Process]
      /\ proc'[p].pc = "start" /\ proc'[p].thread = "none" /\ ~proc'[p].sent /\ proc'[p].saw = {}
  BY <1>1, <1>2, <1>4, <1>5
<1>7. \A q \in Procs \ {p} :
        /\ proc'[q].pc = proc[q].pc /\ proc'[q].svc = proc[q].svc /\ proc'[q].sent = proc[q].sent
        /\ proc'[q].thread = proc[q].thread /\ proc'[q].target = proc[q].target
        /\ proc'[q].saw = proc[q].saw \ {p}
  BY <1>1, <1>2, <1>4
<1>8. \A q \in Procs : Sound(proc'[q])
  BY <1>2, <1>6, <1>7 DEF Sound, Idle, Asking
<1>9. Seen'
  <2>1. ASSUME NEW a \in Procs, NEW b \in proc'[a].saw
        PROVE  proc'[b].pc = "off" \/ (proc'[a].pc = "kill" /\ proc'[a].target = b)
    <3>1. a # p /\ b \in proc[a].saw /\ b # p
      BY <1>6, <1>7
    <3>2. proc[a] \in Process
      BY <1>2
    <3>3. b \in Procs
      BY <3>1, <3>2 DEF Process
    <3>4. proc[b].pc = "off" \/ (proc[a].pc = "kill" /\ proc[a].target = b)
      BY <1>2, <3>1 DEF Seen
    <3> QED BY <1>7, <3>1, <3>3, <3>4
  <2> QED BY <2>1 DEF Seen
<1>10. ~proc[p].sent
  BY <1>2, <1>3 DEF Sound, Asking
<1>11. Queue'
  <2>1. \A i \in DOMAIN toModem : toModem[i].own \in Procs
    <3>1. \A i \in DOMAIN toModem : toModem[i] \in Request
      BY <1>2
    <3> QED BY <3>1 DEF Request
  <2>2. ASSUME NEW i \in DOMAIN toModem, toModem[i].awaited
        PROVE  proc'[toModem[i].own].sent
    <3>1. proc[toModem[i].own].sent
      BY <1>2, <2>2 DEF Queue
    <3>2. toModem[i].own \in Procs \ {p}
      BY <2>1, <3>1, <1>10
    <3> QED BY <1>7, <3>1, <3>2
  <2> QED BY <1>2, <1>3, <2>2 DEF Queue
<1> QED BY <1>2, <1>3, <1>6, <1>8, <1>9, <1>11 DEF ProcsInv, ProcsOK, Sound

LEMMA OpenedKeepsProcs ==
  ASSUME ProcsInv, NEW p \in Procs, proc[p].pc = "scan", NEW phase \in {"sync", "sim"},
         NEW ids \in [1 .. Services -> {-1, 0, 1}], Opened(p, ids, phase)
  PROVE  ProcsInv'
<1> DEFINE u == proc[p]
           r1 == [u EXCEPT !.pc = phase, !.thread = "up"]
           r2 == [r1 EXCEPT !.ids = ids, !.syncs = 0, !.checked = {}]
<1>1. u \in Process /\ Sound(u)
  BY DEF ProcsInv, ProcsOK
<1>2. /\ r1 \in Process /\ r1.saw = u.saw /\ r1.pc = phase /\ ~r1.sent
  BY <1>1 DEF Process, Sound, Phases, Asking
<1>3. 0 \in 0 .. MaxSyncs - 1
  OBVIOUS
<1>4. Becomes(p, r2) /\ UNCHANGED <<toModem, present>>
  BY DEF Opened
<1> HIDE DEF r1
<1>5. r2 \in Process /\ r2.saw = u.saw /\ r2.pc = phase /\ ~r2.sent
  BY <1>2, <1>3 DEF Process
<1> HIDE DEF r2
<1>6. Sound(r2)
  BY <1>5 DEF Sound, Idle
<1>7. Meets(p, r2)
  BY <1>5, SameMeets
<1>8. ~proc[p].sent
  BY <1>1 DEF Sound, Asking
<1> QED BY <1>4, <1>5, <1>6, <1>7, <1>8, Change

LEMMA BeginsKeepsProcs ==
  ASSUME ProcsInv, NEW p \in Procs, Begins(p)
  PROVE  ProcsInv'
<1>0. proc[p] \in Process /\ Sound(proc[p])
  BY DEF ProcsInv, ProcsOK
<1>1. CASE Sockets(p)
  <2> DEFINE r == [proc[p] EXCEPT !.pc = "search"]
  <2>1. r \in Process /\ Sound(r) /\ r.saw = proc[p].saw /\ (r.sent \/ ~proc[p].sent)
    BY <1>0, <1>1 DEF Process, Sound, Phases, Asking, Idle, Sockets, At
  <2>2. Becomes(p, r) /\ UNCHANGED <<toModem, present>> /\ proc[p].pc \in {"start", "sleep"}
    BY <1>1 DEF Sockets, Quiet, modemVars, At
  <2> HIDE DEF r
  <2>3. Meets(p, r)
    BY <2>1, <2>2, SameMeets
  <2> QED BY <2>1, <2>2, <2>3, Change
<1>2. CASE Search(p)
  <2> DEFINE r == [proc[p] EXCEPT !.pc = "scan", !.known = TRUE, !.checked = {}, !.saw = {}]
  <2>1. r \in Process /\ Sound(r) /\ r.saw = {} /\ (r.sent \/ ~proc[p].sent)
    BY <1>0, <1>2 DEF Process, Sound, Phases, Asking, Idle, Search, At
  <2>2. Becomes(p, r) /\ UNCHANGED <<toModem, present>> /\ proc[p].pc = "search"
    BY <1>2 DEF Search, Quiet, modemVars, At
  <2> HIDE DEF r
  <2>3. Meets(p, r)
    BY <2>1, <2>2, SameMeets
  <2> QED BY <2>1, <2>2, <2>3, Change
<1>3. CASE Look(p)
  <2>1. PICK q \in Brothers(p) :
          Becomes(p, IF Holds(q)
                       THEN [proc[p] EXCEPT !.pc = "kill", !.target = q, !.saw = @ \cup {q}]
                       ELSE [proc[p] EXCEPT !.checked = @ \cup {q}])
    BY <1>3 DEF Look
  <2>2. q \in Procs /\ proc[p].pc = "scan" /\ UNCHANGED <<toModem, present>>
    BY <1>3 DEF Brothers, Look, Quiet, modemVars, At
  <2>3. CASE Holds(q)
    <3> DEFINE r == [proc[p] EXCEPT !.pc = "kill", !.target = q, !.saw = @ \cup {q}]
    <3>1. /\ r \in Process /\ Sound(r) /\ r.saw = proc[p].saw \cup {q} /\ r.pc = "kill" /\ r.target = q
          /\ (r.sent \/ ~proc[p].sent)
      BY <1>0, <2>2 DEF Process, Sound, Phases, Asking, Idle
    <3>2. Becomes(p, r)
      BY <2>1, <2>3
    <3> HIDE DEF r
    <3>3. Meets(p, r)
      BY <2>2, <3>1 DEF Meets, ProcsInv, Seen
    <3> QED BY <2>2, <3>1, <3>2, <3>3, Change
  <2>4. CASE ~Holds(q)
    <3> DEFINE r == [proc[p] EXCEPT !.checked = @ \cup {q}]
    <3>1. r \in Process /\ Sound(r) /\ r.saw = proc[p].saw /\ (r.sent \/ ~proc[p].sent)
      BY <1>0, <2>2 DEF Process, Sound
    <3>2. Becomes(p, r)
      BY <2>1, <2>4
    <3> HIDE DEF r
    <3>3. Meets(p, r)
      BY <2>2, <3>1, SameMeets
    <3> QED BY <2>2, <3>1, <3>2, <3>3, Change
  <2> QED BY <2>3, <2>4
<1>4. CASE KillBrother(p)
  <2> DEFINE q == proc[p].target
             r == [proc[p] EXCEPT !.pc = "scan", !.checked = @ \cup {q}, !.target = 0]
  <2>0. proc[p].pc = "kill" /\ q \in Procs
    BY <1>0, <1>4 DEF KillBrother, At, Sound
  <2>1. CASE Becomes(q, Signalled(proc[q])) /\ Quiet
    BY <2>0, <2>1, SignalledKeepsProcs DEF Quiet, modemVars
  <2>2. CASE Ends(q)
    BY <2>0, <2>2, EndsKeepsProcs
  <2>3. CASE Gone(q) /\ Becomes(p, r) /\ Quiet
    <3>1. r \in Process /\ Sound(r) /\ r.saw = proc[p].saw /\ (r.sent \/ ~proc[p].sent)
      BY <1>0, <2>0 DEF Process, Sound, Phases, Asking, Idle
    <3>2. Becomes(p, r) /\ UNCHANGED <<toModem, present>> /\ proc[q].pc = "off"
      BY <2>3 DEF Quiet, modemVars, Gone, At
    <3> HIDE DEF r
    <3>3. Meets(p, r)
      BY <2>0, <3>1, <3>2 DEF Meets, ProcsInv, Seen
    <3> QED BY <3>1, <3>2, <3>3, Change
  <2> QED BY <1>4, <2>1, <2>2, <2>3 DEF KillBrother
<1>5. CASE OpenWwan(p)
  <2>1. Opened(p, proc[p].ids, "sync") \/ Ends(p)
    BY <1>5 DEF OpenWwan
  <2>2. proc[p].pc = "scan" /\ proc[p].ids \in [1 .. Services -> {-1, 0, 1}]
    BY <1>0, <1>5 DEF OpenWwan, Ready, At, Process
  <2> QED BY <2>1, <2>2, OpenedKeepsProcs, EndsKeepsProcs
<1>6. CASE OpenGobi(p)
  <2>1. PICK ids \in [1 .. Services -> {-1, 0, 1}] : Ends(p) \/ Opened(p, ids, "sim")
    BY <1>6 DEF OpenGobi
  <2>2. proc[p].pc = "scan"
    BY <1>6 DEF OpenGobi, Ready, At
  <2> QED BY <2>1, <2>2, OpenedKeepsProcs, EndsKeepsProcs
<1> QED BY <1>1, <1>2, <1>3, <1>4, <1>5, <1>6 DEF Begins

-----------------------------------------------------------------------------
(* Requests, and the ways out of the loop.                                 *)

LEMMA FollowsKeepsProcs ==
  ASSUME ProcsInv, NEW p \in Procs, NEW r, Follows(r, proc[p]), proc[p].pc \notin {"off", "kill"},
         Becomes(p, r), UNCHANGED present,
         (toModem' = toModem /\ ~proc[p].sent) \/ toModem' = Unawaited(p)
  PROVE  ProcsInv'
<1>1. r \in Process /\ Sound(r) /\ r.saw = proc[p].saw
  BY DEF Follows
<1>2. Meets(p, r)
  BY <1>1, SameMeets
<1> QED BY <1>1, <1>2, Change

LEMMA CallKeepsProcs ==
  ASSUME ProcsInv, NEW p \in Procs, Call(p)
  PROVE  ProcsInv'
<1> DEFINE u == proc[p]
           r == [u EXCEPT !.sent = TRUE]
           m == [own |-> p, msg |-> u.pc, svc |-> u.svc, awaited |-> TRUE]
<1>1. u \in Process /\ Sound(u) /\ u.pc \in Asking /\ ~u.sent /\ UNCHANGED present
  BY DEF ProcsInv, ProcsOK, Call
<1>2. CASE u.thread # "up"
  <2>1. Becomes(p, After(u, "fail")) /\ UNCHANGED toModem
    BY <1>2 DEF Call
  <2>2. Follows(After(u, "fail"), u)
    BY <1>1, AfterFollows
  <2> QED BY <1>1, <2>1, <2>2, FollowsKeepsProcs DEF Asking
<1>3. CASE u.thread = "up"
  <2>1. Becomes(p, r) /\ toModem' = IF present THEN Append(toModem, m) ELSE toModem
    BY <1>3 DEF Call
  <2>2. r \in Process /\ Sound(r) /\ r.saw = u.saw /\ r.sent
    BY <1>1 DEF Process, Sound
  <2>3. Meets(p, r)
    BY <1>1, <2>2, SameMeets DEF Asking
  <2> HIDE DEF r
  <2>4. CASE ~present
    BY <1>1, <2>1, <2>2, <2>3, <2>4, Change
  <2>5. CASE present
    <3>1. m \in Request /\ m.own = p /\ (m.msg = "get" => m.svc # 0) /\ toModem' = Append(toModem, m) /\ toModem \in Seq(Request)
      BY <1>1, <2>1, <2>5 DEF Request, Process, ProcsInv, ProcsOK, Sound
    <3> HIDE DEF m
    <3>2. proc' \in [Procs -> Process] /\ (\A q \in Procs : Sound(proc'[q])) /\ Seen'
      BY <2>1, <2>2, <2>3, ChangeKeepsProcs
    <3>3. \A q \in Procs : proc[q].sent => proc'[q].sent
      BY <2>1, <2>2 DEF Becomes, ProcsInv, ProcsOK
    <3>4. proc'[p].sent
      BY <2>1, <2>2 DEF Becomes, ProcsInv, ProcsOK
    <3>5. \A i \in DOMAIN toModem :
            /\ toModem[i].own \in Procs
            /\ toModem[i].awaited => toModem[i].own # p /\ proc'[toModem[i].own].sent
      <4>1. \A i \in DOMAIN toModem : toModem[i] \in Request
        BY <3>1
      <4>2. \A i \in DOMAIN toModem : toModem[i].awaited => proc[toModem[i].own].sent
        BY DEF ProcsInv, Queue
      <4> QED BY <1>1, <3>3, <4>1, <4>2 DEF Request
    <3>6. /\ toModem' \in Seq(Request) /\ DOMAIN toModem' = DOMAIN toModem \cup {Len(toModem) + 1}
          /\ toModem'[Len(toModem) + 1] = m
          /\ \A i \in DOMAIN toModem : toModem'[i] = toModem[i] /\ i # Len(toModem) + 1
      BY <3>1
    <3>7. Queue'
      BY <1>1, <2>5, <3>1, <3>4, <3>5, <3>6 DEF Queue, ProcsInv
    <3> QED BY <3>2, <3>6, <3>7 DEF ProcsInv, ProcsOK, Sound
  <2> QED BY <2>4, <2>5
<1> QED BY <1>2, <1>3

LEMMA RequestsKeepsProcs ==
  ASSUME ProcsInv, NEW p \in Procs, Requests(p)
  PROVE  ProcsInv'
<1>0. proc[p] \in Process /\ Sound(proc[p])
  BY DEF ProcsInv, ProcsOK
<1>1. CASE Call(p)
  BY <1>1, CallKeepsProcs
<1>2. CASE GiveUp(p)
  <2>1. /\ proc[p].pc \in Asking /\ UNCHANGED present /\ toModem' = Unawaited(p)
        /\ Becomes(p, After(proc[p], "none")) \/ Becomes(p, After(proc[p], "fail"))
    BY <1>0, <1>2 DEF GiveUp, Sound
  <2>2. Follows(After(proc[p], "none"), proc[p]) /\ Follows(After(proc[p], "fail"), proc[p])
    BY <1>0, <2>1, AfterFollows
  <2>3. proc[p].pc \notin {"off", "kill"}
    BY <2>1 DEF Asking
  <2> QED BY <2>1, <2>2, <2>3, FollowsKeepsProcs
<1>3. CASE SimStatus(p) \/ Setup(p)
  <2>1. PICK phase \in {"setup", "loop"} : Becomes(p, Then(proc[p], phase, 0))
    BY <1>3 DEF SimStatus, Setup
  <2>2. proc[p].pc \in {"sim", "setup"} /\ UNCHANGED <<toModem, present>>
    BY <1>3 DEF SimStatus, Setup, At, Quiet, modemVars
  <2>3. phase \in Phases \ Idle /\ 0 \in 0 .. Services /\ phase \notin {"get", "release"}
    BY DEF Phases, Idle, Asking
  <2>4. Follows(Then(proc[p], phase, 0), proc[p])
    BY <1>0, <2>3, ThenFollows
  <2>5. ~proc[p].sent
    BY <1>0, <2>2 DEF Sound, Asking
  <2> QED BY <2>1, <2>2, <2>4, <2>5, FollowsKeepsProcs
<1>4. CASE BadSim(p)
  BY <1>4, EndsKeepsProcs DEF BadSim
<1> QED BY <1>1, <1>2, <1>3, <1>4 DEF Requests

LEMMA ForgetsIsProcess ==
  ASSUME NEW u \in Process, NEW phase \in {"search", "sleep"}, NEW k \in BOOLEAN, ~u.sent
  PROVE  LET r == [Forgets(u) EXCEPT !.pc = phase, !.known = k]
             t == [Forgets(u) EXCEPT !.pc = phase]
         IN /\ r \in Process /\ Sound(r) /\ ~r.sent /\ r.saw = u.saw
            /\ t \in Process /\ Sound(t) /\ ~t.sent /\ t.saw = u.saw
<1> DEFINE f == Forgets(u)
<1>1. f \in Process /\ ~f.sent /\ f.saw = u.saw /\ f.thread = "none"
  BY DEF Forgets, Process
<1>2. phase \in Phases
  BY DEF Phases
<1> HIDE DEF f
<1> DEFINE r == [f EXCEPT !.pc = phase, !.known = k]
           t == [f EXCEPT !.pc = phase]
<1>3. r \in Process /\ ~r.sent /\ r.saw = u.saw /\ r.thread = "none" /\ r.pc = phase
  BY <1>1, <1>2 DEF Process
<1>4. t \in Process /\ ~t.sent /\ t.saw = u.saw /\ t.thread = "none" /\ t.pc = phase
  BY <1>1, <1>2 DEF Process
<1> HIDE DEF r, t
<1>5. Sound(r) /\ Sound(t)
  BY <1>3, <1>4 DEF Sound
<1> QED BY <1>3, <1>4, <1>5 DEF r, t, f

LEMMA LeavesKeepsProcs ==
  ASSUME ProcsInv, NEW p \in Procs, Leaves(p)
  PROVE  ProcsInv'
<1>0. proc[p] \in Process /\ Sound(proc[p])
  BY DEF ProcsInv, ProcsOK
<1>1. CASE Stop(p)
  <2>1. proc[p].pc = "loop" /\ UNCHANGED <<toModem, present>>
    BY <1>1 DEF Stop, At
  <2>2. ~proc[p].sent
    BY <1>0, <2>1 DEF Sound, Asking
  <2>3. CASE Becomes(p, Releasing(proc[p]))
    BY <1>0, <2>1, <2>2, <2>3, ReleasingFollows, FollowsKeepsProcs
  <2>4. CASE Becomes(p, [proc[p] EXCEPT !.pc = "join", !.ids = NoIds])
    <3> DEFINE r == [proc[p] EXCEPT !.pc = "join", !.ids = NoIds]
    <3>1. NoIds \in [1 .. Services -> {-1, 0, 1}]
      BY DEF NoIds
    <3>2. Becomes(p, r)
      BY <2>4
    <3>3. r \in Process /\ r.saw = proc[p].saw /\ r.sent = proc[p].sent /\ r.pc = "join"
      <4> HIDE DEF NoIds
      <4> QED BY <1>0, <3>1 DEF Process, Phases
    <3> HIDE DEF r
    <3>4. Follows(r, proc[p])
      BY <2>2, <3>3 DEF Follows, Sound, Idle
    <3> QED BY <2>1, <2>2, <3>2, <3>4, FollowsKeepsProcs
  <2> QED BY <1>1, <2>3, <2>4 DEF Stop
<1>2. CASE Disconnected(p)
  <2>1. PICK phase \in {"rejoin", "join"} : Becomes(p, Then(proc[p], phase, 0))
    BY <1>2 DEF Disconnected
  <2>2. proc[p].pc = "loop" /\ UNCHANGED <<toModem, present>>
    BY <1>2 DEF Disconnected, At, Quiet, modemVars
  <2>3. phase \in Phases \ Idle /\ 0 \in 0 .. Services /\ phase \notin {"get", "release"}
    BY DEF Phases, Idle, Asking
  <2>4. Follows(Then(proc[p], phase, 0), proc[p])
    BY <1>0, <2>3, ThenFollows
  <2>5. ~proc[p].sent
    BY <1>0, <2>2 DEF Sound, Asking
  <2> QED BY <2>1, <2>2, <2>4, <2>5, FollowsKeepsProcs
<1>3. CASE Rejoin(p) \/ ModemReset(p)
  <2>1. proc[p].pc \in {"rejoin", "loop"} /\ UNCHANGED <<toModem, present>>
    BY <1>3 DEF Rejoin, ModemReset, At, Quiet, modemVars
  <2>2. ~proc[p].sent
    BY <1>0, <2>1 DEF Sound, Asking
  <2>3. PICK r : /\ Becomes(p, r) /\ r \in Process /\ Sound(r) /\ ~r.sent /\ r.saw = proc[p].saw
    BY <1>0, <1>3, <2>2, ForgetsIsProcess DEF Rejoin, ModemReset
  <2>4. Meets(p, r)
    BY <2>1, <2>3, SameMeets
  <2> QED BY <2>1, <2>2, <2>3, <2>4, Change
<1>4. CASE Join(p)
  BY <1>4, EndsKeepsProcs DEF Join
<1> QED BY <1>1, <1>2, <1>3, <1>4 DEF Leaves

LEMMA ThreadEndsKeepsProcs ==
  ASSUME ProcsInv, NEW p \in Procs, ThreadEnds(p)
  PROVE  ProcsInv'
<1> DEFINE u == proc[p]
           r == [u EXCEPT !.thread = "over", !.ids = IF driver = "gobi" THEN NoIds ELSE @]
<1>0. u \in Process /\ Sound(u) /\ Queue /\ u.thread = "up"
  BY DEF ProcsInv, ProcsOK, ThreadEnds, Holds
<1>1. toModem = <<>> /\ UNCHANGED <<toModem, present>>
  BY <1>0 DEF ThreadEnds, Queue, Quiet, modemVars
<1>2. toModem' = Unawaited(p)
  BY <1>1 DEF Unawaited
<1>3. r \in Process /\ r.saw = u.saw /\ r.sent = u.sent /\ r.svc = u.svc /\ r.target = u.target /\ r.pc = u.pc
      /\ r.thread = "over"
  <2>1. NoIds \in [1 .. Services -> {-1, 0, 1}]
    BY DEF NoIds
  <2> HIDE DEF NoIds
  <2> QED BY <1>0, <2>1 DEF Process
<1>4. Becomes(p, IF r.sent THEN After(r, "none") ELSE r)
  BY DEF ThreadEnds
<1>5. u.pc \notin Idle
  BY <1>0 DEF Sound
<1> HIDE DEF r
<1>6. Sound(r)
  BY <1>0, <1>3, <1>5 DEF Sound
<1>7. CASE ~r.sent
  <2>1. Meets(p, r)
    BY <1>3, SameMeets
  <2> QED BY <1>1, <1>2, <1>3, <1>4, <1>6, <1>7, <2>1, Change
<1>8. CASE r.sent
  <2>1. Follows(After(r, "none"), r)
    BY <1>3, <1>6, <1>8, AfterFollows DEF Sound
  <2>2. Follows(After(r, "none"), u)
    BY <2>1, <1>3 DEF Follows
  <2> QED BY <1>1, <1>2, <1>4, <1>5, <1>8, <2>2, FollowsKeepsProcs DEF Idle
<1> QED BY <1>7, <1>8

-----------------------------------------------------------------------------
(* The modem.                                                              *)

LEMMA ServeKeepsProcs ==
  ASSUME ProcsInv, Serve
  PROVE  ProcsInv'
<1>1. /\ toModem # <<>> /\ toModem \in Seq(Request) /\ toModem' = Tail(toModem) /\ UNCHANGED present
      /\ proc \in [Procs -> Process] /\ (\A q \in Procs : Sound(proc[q])) /\ Queue /\ Seen
  BY DEF Serve, ProcsInv, ProcsOK
<1>2. /\ Now = toModem[1] /\ Now \in Request /\ 1 \in DOMAIN toModem
      /\ toModem' \in Seq(Request) /\ DOMAIN toModem' = 1 .. Len(toModem) - 1
      /\ \A i \in DOMAIN toModem' : i + 1 \in DOMAIN toModem /\ i + 1 # 1 /\ toModem'[i] = toModem[i + 1]
  BY <1>1 DEF Now
<1>3. Now.own \in Procs /\ present
  BY <1>1, <1>2 DEF Request, Queue
<1>4. \A i, j \in DOMAIN toModem' :
        toModem'[i].awaited /\ toModem'[j].awaited /\ toModem'[j].own = toModem'[i].own => j = i
  BY <1>1, <1>2 DEF Queue
<1>5. \A i \in DOMAIN toModem' :
        /\ toModem'[i].own \in Procs
        /\ toModem'[i].msg = "get" => toModem'[i].svc # 0
        /\ toModem'[i].awaited => proc[toModem'[i].own].sent
        /\ toModem'[i].awaited /\ Now.awaited => toModem'[i].own # Now.own
  <2>1. \A i \in DOMAIN toModem : toModem[i] \in Request
    BY <1>1
  <2> QED BY <1>1, <1>2, <2>1 DEF Queue, Request
<1>6. ASSUME NEW rsp, Answer(rsp) PROVE ProcsInv'
  <2>1. CASE UNCHANGED proc
    <3>1. Queue'
      BY <1>1, <1>3, <1>4, <1>5, <2>1 DEF Queue
    <3>2. Seen'
      BY <1>1, <2>1 DEF Seen
    <3> QED BY <1>1, <1>2, <2>1, <3>1, <3>2 DEF ProcsInv, ProcsOK, Sound
  <2>2. CASE Now.awaited /\ Becomes(Now.own, After(proc[Now.own], rsp))
    <3> DEFINE o == Now.own
               r == After(proc[o], rsp)
    <3>1. proc[o] \in Process /\ Sound(proc[o]) /\ proc[o].pc \in Asking
      BY <1>1, <1>2, <1>3, <2>2 DEF Queue, Sound
    <3>2. Follows(r, proc[o])
      BY <3>1, AfterFollows
    <3>3. o \in Procs /\ Becomes(o, r) /\ \A i \in DOMAIN toModem' : toModem'[i].awaited => toModem'[i].own # o
      BY <1>3, <1>5, <2>2
    <3> HIDE DEF o, r
    <3>4. r \in Process /\ Sound(r) /\ Meets(o, r)
      BY <3>1, <3>2, <3>3, SameMeets DEF Follows, Asking
    <3>5. proc' \in [Procs -> Process] /\ (\A q \in Procs : Sound(proc'[q])) /\ Seen'
      BY <3>3, <3>4, ChangeKeepsProcs
    <3>6. \A q \in Procs \ {o} : proc'[q] = proc[q]
      BY <1>1, <3>3 DEF Becomes
    <3>7. Queue'
      BY <1>1, <1>3, <1>4, <1>5, <3>3, <3>6 DEF Queue
    <3> QED BY <1>2, <3>5, <3>7 DEF ProcsInv, ProcsOK, Sound
  <2>3. CASE Becomes(Now.own, proc[Now.own])
    BY <1>1, <1>3, <2>1, <2>3 DEF Becomes
  <2> QED BY <1>6, <2>1, <2>2, <2>3 DEF Answer
<1>7. Answer("ok") \/ Answer("none")
  BY DEF Serve
<1> QED BY <1>6, <1>7

LEMMA ModemKeepsProcs ==
  ASSUME ProcsInv, Unplug \/ Plug \/ Reset
  PROVE  ProcsInv'
<1>1. /\ toModem \in Seq(Request) /\ proc \in [Procs -> Process]
      /\ (\A q \in Procs : Sound(proc[q])) /\ Queue /\ Seen
  BY DEF ProcsInv, ProcsOK
<1>2. CASE Unplug
  <2>1. toModem' = <<>> /\ UNCHANGED proc
    BY <1>2 DEF Unplug
  <2>2. toModem' \in Seq(Request) /\ Queue'
    BY <2>1 DEF Queue
  <2>3. Seen'
    BY <1>1, <2>1 DEF Seen
  <2> QED BY <1>1, <2>1, <2>2, <2>3 DEF ProcsInv, ProcsOK, Sound
<1>3. CASE Plug
  <2>1. UNCHANGED <<toModem, proc>> /\ present' = TRUE
    BY <1>3 DEF Plug
  <2>2. Queue' /\ Seen'
    BY <1>1, <2>1 DEF Queue, Seen
  <2> QED BY <1>1, <2>1, <2>2 DEF ProcsInv, ProcsOK, Sound
<1>4. CASE Reset
  <2>1. PICK p \in Procs : Becomes(p, [proc[p] EXCEPT !.reset = TRUE])
    BY <1>4 DEF Reset
  <2>2. toModem' = <<>>
    BY <1>4 DEF Reset
  <2> DEFINE r == [proc[p] EXCEPT !.reset = TRUE]
  <2>3. /\ r \in Process /\ r.saw = proc[p].saw /\ r.pc = proc[p].pc /\ r.target = proc[p].target
        /\ r.svc = proc[p].svc /\ r.thread = proc[p].thread /\ r.sent = proc[p].sent
    <3>1. proc[p] \in Process
      BY <1>1
    <3> QED BY <3>1 DEF Process
  <2>4. Becomes(p, r)
    BY <2>1
  <2> HIDE DEF r
  <2>5. Sound(r) /\ Meets(p, r)
    BY <1>1, <2>3, SameMeets DEF Sound
  <2>6. proc' \in [Procs -> Process] /\ (\A q \in Procs : Sound(proc'[q])) /\ Seen'
    BY <2>3, <2>4, <2>5, ChangeKeepsProcs
  <2>7. toModem' \in Seq(Request) /\ Queue'
    BY <2>2 DEF Queue
  <2> QED BY <2>6, <2>7 DEF ProcsInv, ProcsOK, Sound
<1> QED BY <1>2, <1>3, <1>4

-----------------------------------------------------------------------------
(* The client ids: what holds of one that holds the modem undisturbed.     *)

Working == {"sim", "setup", "loop"}

\* An id obtained since the synchronisation.
Counts(r, s) == r.ids[s] = 1 /\ ((r.pc = "get" /\ s < r.svc) \/ r.pc \in Working)

Alone(p) == Holds(p) /\ p \notin disturbed

\* Nobody else holds the modem.
HoldsAlone == \A p \in Procs : Alone(p) => Others(p) = {}

\* The modem knows the ids, and no request on its way takes one back.
IdsStay ==
  \A p \in Procs : \A s \in 1 .. Services : Alone(p) /\ Counts(proc[p], s) =>
    /\ present => <<p, s>> \in used
    /\ \A i \in DOMAIN toModem :
         toModem[i].msg # "sync" /\ ~(toModem[i].msg = "release" /\ toModem[i].own = p /\ toModem[i].svc = s)

\* What is awaited is what the process is at; of one that is alone it is the last.
AwaitedLast ==
  \A i \in DOMAIN toModem : toModem[i].awaited =>
    /\ toModem[i].msg = proc[toModem[i].own].pc /\ toModem[i].svc = proc[toModem[i].own].svc
    /\ Alone(toModem[i].own) => i = Len(toModem)

\* GobiNet needs no requests.
NoRequests == driver = "gobi" => toModem = <<>> /\ \A p \in Procs : proc[p].pc \notin Asking

Known == HoldsAlone /\ IdsStay /\ AwaitedLast /\ NoRequests

\* r has come from u without a new id, and without opening the modem.
Loses(u, r) ==
  /\ r.thread = "up" => u.thread = "up"
  /\ driver # "wwan" => \A s \in 1 .. Services : r.ids[s] = 1 => u.ids[s] = 1
  /\ driver = "gobi" => r.pc \notin Asking
  /\ \A s \in 1 .. Services : Counts(r, s) => Counts(u, s)

\* Fewer requests are awaited.
Lessens ==
  /\ DOMAIN toModem' = DOMAIN toModem /\ Len(toModem') = Len(toModem) /\ (toModem = <<>> => toModem' = <<>>)
  /\ \A i \in DOMAIN toModem :
       /\ toModem'[i].own = toModem[i].own /\ toModem'[i].msg = toModem[i].msg /\ toModem'[i].svc = toModem[i].svc
       /\ toModem'[i].awaited => toModem[i].awaited

LEMMA UnawaitedLessens ==
  ASSUME ProcsInv, NEW p \in Procs, toModem' = Unawaited(p)
  PROVE  Lessens /\ \A i \in DOMAIN toModem' : toModem'[i].awaited => toModem'[i].own # p
<1> DEFINE Asks(m) == IF m.own = p THEN [m EXCEPT !.awaited = FALSE] ELSE m
<1>1. toModem \in Seq(Request) /\ toModem' = [i \in DOMAIN toModem |-> Asks(toModem[i])]
  BY DEF ProcsInv, ProcsOK, Unawaited
<1>2. \A m \in Request :
        /\ Asks(m) \in Request /\ Asks(m).own = m.own /\ Asks(m).msg = m.msg /\ Asks(m).svc = m.svc
        /\ Asks(m).awaited => m.awaited /\ m.own # p
  BY DEF Request
<1>3. \A i \in DOMAIN toModem : toModem[i] \in Request
  BY <1>1
<1> HIDE DEF Asks
<1>4. /\ toModem' \in Seq(Request) /\ DOMAIN toModem' = DOMAIN toModem /\ Len(toModem') = Len(toModem)
      /\ toModem = <<>> => toModem' = <<>>
  BY <1>1, <1>2, <1>3
<1> QED BY <1>1, <1>2, <1>3, <1>4 DEF Lessens

\* Of a process that is at no request, none is awaited.
LEMMA NoneAwaited ==
  ASSUME ProcsInv, NEW p \in Procs, ~proc[p].sent
  PROVE  \A i \in DOMAIN toModem : toModem[i].awaited => toModem[i].own # p
BY DEF ProcsInv, Queue

LEMMA OwnersAreProcs ==
  ASSUME ProcsInv
  PROVE  \A i \in DOMAIN toModem : toModem[i] \in Request /\ toModem[i].own \in Procs
<1>1. \A i \in DOMAIN toModem : toModem[i] \in Request
  BY DEF ProcsInv, ProcsOK
<1> QED BY <1>1 DEF Request

LEMMA AwaitedLastNext ==
  ASSUME ProcsInv',
         \A i \in DOMAIN toModem' : \A o \in Procs : toModem'[i].awaited /\ o = toModem'[i].own =>
           /\ toModem'[i].msg = proc'[o].pc /\ toModem'[i].svc = proc'[o].svc
           /\ Alone(o)' => i = Len(toModem')
  PROVE  AwaitedLast'
<1>1. \A i \in DOMAIN toModem' : toModem'[i] \in Request
  BY DEF ProcsInv, ProcsOK
<1>2. \A i \in DOMAIN toModem' : toModem'[i].own \in Procs
  BY <1>1 DEF Request
<1> QED BY <1>2 DEF AwaitedLast, Alone, Holds

LEMMA ChangeKeepsKnown ==
  ASSUME ProcsInv, ProcsInv', Known, NEW p \in Procs, NEW r, Becomes(p, r), Loses(proc[p], r),
         UNCHANGED <<driver, present, disturbed>>,
         \A q \in Procs : \A s \in 1 .. Services :
           <<q, s>> \in used => <<q, s>> \in used' \/ (q = p /\ ~(r.thread = "up" /\ Counts(r, s))),
         \/ toModem' = Unawaited(p)
         \/ toModem' = toModem /\ (~proc[p].sent \/ (r.pc = proc[p].pc /\ r.svc = proc[p].svc))
  PROVE  Known'
<1>1. proc'[p] = r /\ \A q \in Procs \ {p} : proc'[q] = proc[q]
  BY DEF Becomes, ProcsInv, ProcsOK
<1>2. \A q \in Procs : Holds(q)' => Holds(q)
  BY <1>1 DEF Holds, Loses
<1>3. \A q \in Procs : \A s \in 1 .. Services : Counts(proc'[q], s) => Counts(proc[q], s)
  BY <1>1 DEF Loses
<1>4. Lessens /\ \A i \in DOMAIN toModem' : toModem'[i].awaited =>
        proc'[toModem[i].own].pc = proc[toModem[i].own].pc /\ proc'[toModem[i].own].svc = proc[toModem[i].own].svc
  <2>1. CASE toModem' = Unawaited(p)
    <3>1. Lessens /\ \A i \in DOMAIN toModem' : toModem'[i].awaited => toModem'[i].own # p
      BY <2>1, UnawaitedLessens
    <3>2. \A i \in DOMAIN toModem' : toModem'[i].own = toModem[i].own /\ toModem[i].own \in Procs
      BY <3>1, OwnersAreProcs DEF Lessens
    <3>3. \A i \in DOMAIN toModem' : toModem'[i].awaited => toModem[i].own \in Procs \ {p}
      BY <3>1, <3>2
    <3> QED BY <1>1, <3>1, <3>3
  <2>2. CASE toModem' = toModem /\ (~proc[p].sent \/ (r.pc = proc[p].pc /\ r.svc = proc[p].svc))
    BY <1>1, <2>2, NoneAwaited, OwnersAreProcs DEF Lessens
  <2> QED BY <2>1, <2>2
<1>5. HoldsAlone'
  BY <1>2 DEF Known, HoldsAlone, Alone, Others
<1>6. IdsStay'
  <2> SUFFICES ASSUME NEW q \in Procs, NEW s \in 1 .. Services, Alone(q)', Counts(proc'[q], s)
               PROVE  /\ present' => <<q, s>> \in used'
                      /\ \A i \in DOMAIN toModem' :
                           /\ toModem'[i].msg # "sync"
                           /\ ~(toModem'[i].msg = "release" /\ toModem'[i].own = q /\ toModem'[i].svc = s)
    BY DEF IdsStay
  <2>1. Alone(q) /\ Counts(proc[q], s)
    BY <1>2, <1>3 DEF Alone
  <2>2. q = p => r.thread = "up" /\ Counts(r, s)
    BY <1>1 DEF Alone, Holds
  <2> QED BY <1>4, <2>1, <2>2 DEF Known, IdsStay, Lessens
<1>7. AwaitedLast'
  <2>1. ASSUME NEW i \in DOMAIN toModem', toModem'[i].awaited, NEW o \in Procs, o = toModem'[i].own
        PROVE  /\ toModem'[i].msg = proc'[o].pc /\ toModem'[i].svc = proc'[o].svc
               /\ Alone(o)' => i = Len(toModem')
    <3>1. /\ i \in DOMAIN toModem /\ toModem[i].own = o /\ toModem[i].awaited /\ Len(toModem') = Len(toModem)
          /\ toModem'[i].msg = toModem[i].msg /\ toModem'[i].svc = toModem[i].svc
      BY <1>4, <2>1 DEF Lessens
    <3>2. proc'[o].pc = proc[o].pc /\ proc'[o].svc = proc[o].svc
      BY <1>4, <2>1, <3>1
    <3>3. toModem[i].msg = proc[o].pc /\ toModem[i].svc = proc[o].svc /\ (Alone(o) => i = Len(toModem))
      BY <3>1 DEF Known, AwaitedLast
    <3>4. Alone(o)' => Alone(o)
      BY <1>2 DEF Alone
    <3> QED BY <3>1, <3>2, <3>3, <3>4
  <2> QED BY <1>4, <2>1, AwaitedLastNext
<1>8. NoRequests'
  BY <1>1, <1>4 DEF Known, NoRequests, Loses, Lessens
<1> QED BY <1>5, <1>6, <1>7, <1>8 DEF Known

\* A step of main outside its requests that keeps the ids it has.
LEMMA MainKeepsKnown ==
  ASSUME ProcsInv, ProcsInv', Known, NEW p \in Procs, NEW r, Becomes(p, r), UNCHANGED <<modemVars, disturbed>>,
         ~proc[p].sent \/ (r.pc = proc[p].pc /\ r.svc = proc[p].svc),
         r.thread \in {proc[p].thread, "none"}, r.ids = proc[p].ids,
         \/ r.pc \notin Asking \cup Working
         \/ r.pc = proc[p].pc /\ r.svc = proc[p].svc
         \/ r.pc \in Working /\ proc[p].pc \in Working
  PROVE  Known'
<1>1. Loses(proc[p], r)
  BY DEF Loses, Counts, Asking, Working, Known, NoRequests
<1> QED BY <1>1, ChangeKeepsKnown DEF modemVars

LEMMA EndsKeepsKnown ==
  ASSUME ProcsInv, ProcsInv', Known, NEW p \in Procs, Ends(p)
  PROVE  Known'
<1>1. Loses(proc[p], Ended)
  BY DEF Loses, Counts, Ended, NoIds, Asking, Working
<1>2. \A q \in Procs : \A s \in 1 .. Services :
        <<q, s>> \in used => <<q, s>> \in used' \/ (q = p /\ ~(Ended.thread = "up" /\ Counts(Ended, s)))
  BY DEF Ends, Mine, Ended
<1> QED BY <1>1, <1>2, ChangeKeepsKnown DEF Ends

LEMMA SignalledKeepsKnown ==
  ASSUME ProcsInv, ProcsInv', Known, NEW q \in Procs, Becomes(q, Signalled(proc[q])), UNCHANGED <<modemVars, disturbed>>
  PROVE  Known'
<1> DEFINE r == Signalled(proc[q])
<1>1. proc[q] \in Process
  BY DEF ProcsInv, ProcsOK
<1>2. r.thread = proc[q].thread /\ r.ids = proc[q].ids /\ r.pc = proc[q].pc /\ r.svc = proc[q].svc
  BY <1>1 DEF Process, Signalled
<1>3. Becomes(q, r)
  OBVIOUS
<1> HIDE DEF r
<1> QED BY <1>2, <1>3, MainKeepsKnown

\* What an answer, or the lack of one, changes: the id of the service asked for.
LEMMA ThenKeepsIds ==
  ASSUME NEW r \in Process, NEW phase, NEW s
  PROVE  LET t == Then(r, phase, s)
         IN /\ t.ids = r.ids /\ t.thread = r.thread /\ t.pc = phase /\ t.svc = s
            /\ \A n : LET v == [t EXCEPT !.syncs = n]
                    IN v.ids = r.ids /\ v.thread = r.thread /\ v.pc = phase /\ v.svc = s
BY DEF Then, Process

LEMMA ReleasingKeepsThread ==
  ASSUME NEW r \in Process
  PROVE  Releasing(r).thread = r.thread /\ Releasing(r).pc \in {"join", "release"}
BY ThenKeepsIds DEF Releasing

LEMMA AfterCounts ==
  ASSUME NEW r \in Process, Sound(r), r.pc \in Asking, NEW rsp
  PROVE  /\ After(r, rsp).thread = r.thread
         /\ \A s \in 1 .. Services :
              Counts(After(r, rsp), s) => Counts(r, s) \/ (rsp = "ok" /\ r.pc = "get" /\ s = r.svc)
<1>1. CASE r.pc = "sync"
  <2>1. \/ After(r, rsp) = [Then(r, "get", 1) EXCEPT !.syncs = 0]
        \/ After(r, rsp) = [Then(r, "sync", 0) EXCEPT !.syncs = Counted(r)]
        \/ After(r, rsp) = Then(r, "join", 0)
    BY <1>1 DEF After
  <2> DEFINE t == After(r, rsp)
             n == Counted(r)
  <2> HIDE DEF n
  <2>2. /\ t.thread = r.thread
        /\ t.pc \in {"sync", "join"} \/ (t.pc = "get" /\ t.svc = 1)
    <3>1. CASE t = [Then(r, "get", 1) EXCEPT !.syncs = 0]
      BY <3>1, ThenKeepsIds
    <3>2. CASE t = [Then(r, "sync", 0) EXCEPT !.syncs = n]
      BY <3>2, ThenKeepsIds
    <3>3. CASE t = Then(r, "join", 0)
      BY <3>3, ThenKeepsIds
    <3> QED BY <2>1, <3>1, <3>2, <3>3 DEF n
  <2> QED BY <2>2 DEF Counts, Working
<1>2. CASE r.pc = "get"
  <2> DEFINE ids == [r.ids EXCEPT ![r.svc] = Granted(r, rsp)]
             t == [r EXCEPT !.ids = ids]
  <2>1. After(r, rsp) = IF r.svc < Services THEN Then(t, "get", r.svc + 1) ELSE Then(t, "sim", 0)
    BY <1>2 DEF After
  <2>2. ids \in [1 .. Services -> {-1, 0, 1}] /\ r.svc \in 1 .. Services
    BY <1>2 DEF Process, Sound, Granted
  <2>3. \A s \in 1 .. Services : ids[s] = 1 => (s # r.svc /\ r.ids[s] = 1) \/ (s = r.svc /\ rsp = "ok")
    BY <2>2 DEF Process, Granted
  <2> HIDE DEF ids
  <2>4. t \in Process /\ t.thread = r.thread /\ t.ids = ids
    BY <2>2 DEF Process
  <2> HIDE DEF t
  <2>5. CASE r.svc < Services
    <3>1. /\ After(r, rsp).thread = r.thread /\ After(r, rsp).ids = ids
          /\ After(r, rsp).pc = "get" /\ After(r, rsp).svc = r.svc + 1
      BY <2>1, <2>4, <2>5, ThenKeepsIds
    <3> QED BY <1>2, <2>2, <2>3, <3>1 DEF Counts, Working
  <2>6. CASE ~(r.svc < Services)
    <3>1. After(r, rsp).thread = r.thread /\ After(r, rsp).ids = ids
      BY <2>1, <2>4, <2>6, ThenKeepsIds
    <3>2. r.svc = Services
      BY <2>2, <2>6
    <3> QED BY <1>2, <2>2, <2>3, <3>1, <3>2 DEF Counts, Working
  <2> QED BY <2>5, <2>6
<1>3. CASE r.pc = "release"
  <2> DEFINE ids == [r.ids EXCEPT ![r.svc] = 0]
             t == [r EXCEPT !.ids = ids]
  <2>1. After(r, rsp) = Releasing(t)
    BY <1>3 DEF After
  <2>2. ids \in [1 .. Services -> {-1, 0, 1}]
    BY DEF Process
  <2> HIDE DEF ids
  <2>3. t \in Process /\ t.thread = r.thread
    BY <2>2 DEF Process
  <2> HIDE DEF t
  <2>4. After(r, rsp).thread = r.thread /\ After(r, rsp).pc \in {"join", "release"}
    BY <2>1, <2>3, ReleasingKeepsThread
  <2> QED BY <2>4 DEF Counts, Working
<1> QED BY <1>1, <1>2, <1>3 DEF Asking

LEMMA StartKeepsKnown ==
  ASSUME ProcsInv, ProcsInv', Known, NEW p \in Procs, Start(p)
  PROVE  Known'
<1>1. PICK l \in BOOLEAN :
        proc' = [q \in Procs |-> IF q = p THEN [Ended EXCEPT !.pc = "start", !.loops = l]
                                 ELSE [proc[q] EXCEPT !.saw = @ \ {p}]]
  BY DEF Start
<1>2. proc[p].pc = "off" /\ UNCHANGED <<toModem, present, driver, used, disturbed>>
  BY DEF Start, modemVars, At
<1>3. proc'[p].thread = "none" /\ proc'[p].pc = "start"
  BY <1>1 DEF Ended
<1>4. \A q \in Procs \ {p} :
        /\ proc'[q].thread = proc[q].thread /\ proc'[q].ids = proc[q].ids
        /\ proc'[q].pc = proc[q].pc /\ proc'[q].svc = proc[q].svc
  <2>1. \A u \in Process :
          LET v == [u EXCEPT !.saw = @ \ {p}]
          IN v.thread = u.thread /\ v.ids = u.ids /\ v.pc = u.pc /\ v.svc = u.svc
    BY DEF Process
  <2> QED BY <1>1, <2>1 DEF ProcsInv, ProcsOK
<1>5. \A q \in Procs : Holds(q)' => q # p /\ Holds(q)
  BY <1>2, <1>3, <1>4 DEF Holds
<1>6. \A q \in Procs : Alone(q)' => q # p /\ Alone(q)
  BY <1>2, <1>5 DEF Alone
<1>7. HoldsAlone'
  BY <1>5, <1>6 DEF Known, HoldsAlone, Others
<1>8. IdsStay'
  BY <1>2, <1>4, <1>6 DEF Known, IdsStay, Counts
<1>9. ~proc[p].sent
  BY <1>2 DEF ProcsInv, Sound, Asking
<1>10. AwaitedLast'
  <2>1. ASSUME NEW i \in DOMAIN toModem', NEW o \in Procs, toModem'[i].awaited, o = toModem'[i].own
        PROVE  /\ toModem'[i].msg = proc'[o].pc /\ toModem'[i].svc = proc'[o].svc
               /\ Alone(o)' => i = Len(toModem')
    <3>1. o # p
      BY <1>2, <1>9, <2>1, NoneAwaited
    <3> QED BY <1>2, <1>4, <1>6, <2>1, <3>1 DEF Known, AwaitedLast
  <2> QED BY <2>1, AwaitedLastNext
<1>11. NoRequests'
  BY <1>2, <1>3, <1>4 DEF Known, NoRequests, Asking
<1> QED BY <1>7, <1>8, <1>10, <1>11 DEF Known

\* One that opens the modem with another is disturbed, and so are the others; over
\* qmi_wwan it has no ids yet, and GobiNet knows those it has.
LEMMA OpenedKeepsKnown ==
  ASSUME ProcsInv, ProcsInv', Known, NEW p \in Procs, proc[p].pc = "scan", NEW phase \in {"sync", "sim"},
         NEW ids \in [1 .. Services -> {-1, 0, 1}], Opened(p, ids, phase),
         phase = "sync" => driver = "wwan" /\ UNCHANGED used,
         phase = "sim" => driver = "gobi" /\ \A s \in 1 .. Services : ids[s] = 1 => <<p, s>> \in used'
  PROVE  Known'
<1> DEFINE u == proc[p]
           r1 == [u EXCEPT !.pc = phase, !.thread = "up"]
           r2 == [r1 EXCEPT !.ids = ids, !.syncs = 0, !.checked = {}]
<1>1. u \in Process /\ ~u.sent
  BY DEF ProcsInv, ProcsOK, Sound, Asking
<1>2. Becomes(p, r2) /\ UNCHANGED <<toModem, present, driver>>
  BY DEF Opened
<1>3. r1.pc = phase /\ DOMAIN r1 = DOMAIN u
  BY <1>1 DEF Process
<1>4. r2.pc = phase /\ r2.ids = ids
  BY <1>1 DEF Process
<1> HIDE DEF r1, r2
<1>5. /\ proc'[p].pc = phase /\ proc'[p].ids = ids
      /\ \A q \in Procs \ {p} : proc'[q] = proc[q]
  BY <1>2, <1>4 DEF Becomes, ProcsInv, ProcsOK
<1>6. \A q \in Procs \ {p} : Holds(q)' <=> Holds(q)
  BY <1>2, <1>5 DEF Holds
<1>7. \A q \in Procs : Alone(q)' => q = p /\ Others(p) = {}
  <2>1. disturbed' = IF Others(p) = {} THEN disturbed \ {p} ELSE disturbed \cup Others(p) \cup {p}
    BY DEF Opened
  <2> QED BY <1>6, <2>1 DEF Alone, Others
<1>8. HoldsAlone'
  BY <1>6, <1>7 DEF HoldsAlone, Others
<1>9. driver = "gobi" => toModem = <<>>
  BY DEF Known, NoRequests
<1>10. IdsStay'
  <2>1. CASE phase = "sync"
    BY <1>5, <1>7, <2>1 DEF IdsStay, Counts, Working
  <2>2. CASE phase = "sim"
    BY <1>2, <1>5, <1>7, <1>9, <2>2 DEF IdsStay, Counts, Working
  <2> QED BY <2>1, <2>2
<1>11. AwaitedLast'
  <2>1. ASSUME NEW i \in DOMAIN toModem', NEW o \in Procs, toModem'[i].awaited, o = toModem'[i].own
        PROVE  /\ toModem'[i].msg = proc'[o].pc /\ toModem'[i].svc = proc'[o].svc
               /\ Alone(o)' => i = Len(toModem')
    <3>1. o # p
      BY <1>1, <1>2, <2>1, NoneAwaited
    <3> QED BY <1>2, <1>5, <1>7, <2>1, <3>1 DEF Known, AwaitedLast
  <2> QED BY <2>1, AwaitedLastNext
<1>12. NoRequests'
  BY <1>2, <1>5 DEF Known, NoRequests, Asking
<1> QED BY <1>8, <1>10, <1>11, <1>12 DEF Known

LEMMA BeginsKeepsKnown ==
  ASSUME ProcsInv, ProcsInv', Known, NEW p \in Procs, Begins(p)
  PROVE  Known'
<1>0. proc[p] \in Process /\ Sound(proc[p])
  BY DEF ProcsInv, ProcsOK
<1>1. ASSUME NEW r, Becomes(p, r), Quiet, proc[p].pc \notin Asking, r.thread = proc[p].thread, r.ids = proc[p].ids,
             r.pc \in {"search", "scan", "kill"}
      PROVE  Known'
  <2>1. ~proc[p].sent
    BY <1>0, <1>1 DEF Sound
  <2>2. r.pc \notin Asking \cup Working
    BY <1>1 DEF Asking, Working
  <2> QED BY <1>1, <2>1, <2>2, MainKeepsKnown DEF Quiet
<1>2. CASE Sockets(p)
  <2> DEFINE r == [proc[p] EXCEPT !.pc = "search"]
  <2>1. r.thread = proc[p].thread /\ r.ids = proc[p].ids /\ r.pc = "search"
    BY <1>0 DEF Process
  <2>2. Becomes(p, r) /\ Quiet /\ proc[p].pc \notin Asking
    BY <1>2 DEF Sockets, At, Asking
  <2> HIDE DEF r
  <2> QED BY <1>1, <2>1, <2>2
<1>3. CASE Search(p)
  <2> DEFINE r == [proc[p] EXCEPT !.pc = "scan", !.known = TRUE, !.checked = {}, !.saw = {}]
  <2>1. r.thread = proc[p].thread /\ r.ids = proc[p].ids /\ r.pc = "scan"
    BY <1>0 DEF Process
  <2>2. Becomes(p, r) /\ Quiet /\ proc[p].pc \notin Asking
    BY <1>3 DEF Search, At, Asking
  <2> HIDE DEF r
  <2> QED BY <1>1, <2>1, <2>2
<1>4. CASE Look(p)
  <2>1. PICK q : Becomes(p, IF Holds(q)
                             THEN [proc[p] EXCEPT !.pc = "kill", !.target = q, !.saw = @ \cup {q}]
                             ELSE [proc[p] EXCEPT !.checked = @ \cup {q}])
    BY <1>4 DEF Look
  <2>2. Quiet /\ proc[p].pc = "scan" /\ proc[p].pc \notin Asking
    BY <1>4 DEF Look, At, Asking
  <2>3. PICK r : /\ Becomes(p, r) /\ r.thread = proc[p].thread /\ r.ids = proc[p].ids
                 /\ r.pc \in {"scan", "kill"}
    <3> DEFINE k == [proc[p] EXCEPT !.pc = "kill", !.target = q, !.saw = @ \cup {q}]
               n == [proc[p] EXCEPT !.checked = @ \cup {q}]
    <3>1. k.thread = proc[p].thread /\ k.ids = proc[p].ids /\ k.pc = "kill"
      BY <1>0 DEF Process
    <3>2. n.thread = proc[p].thread /\ n.ids = proc[p].ids /\ n.pc = "scan"
      BY <1>0, <2>2 DEF Process
    <3>3. Becomes(p, k) \/ Becomes(p, n)
      BY <2>1
    <3> HIDE DEF k, n
    <3> QED BY <3>1, <3>2, <3>3
  <2> QED BY <1>1, <2>2, <2>3
<1>5. CASE KillBrother(p)
  <2> DEFINE q == proc[p].target
             r == [proc[p] EXCEPT !.pc = "scan", !.checked = @ \cup {q}, !.target = 0]
  <2>0. proc[p].pc = "kill" /\ q \in Procs
    BY <1>0, <1>5 DEF KillBrother, At, Sound
  <2>1. CASE Becomes(q, Signalled(proc[q])) /\ Quiet
    BY <2>0, <2>1, SignalledKeepsKnown DEF Quiet
  <2>2. CASE Ends(q)
    BY <2>0, <2>2, EndsKeepsKnown
  <2>3. CASE Gone(q) /\ Becomes(p, r) /\ Quiet
    <3>1. r.thread = proc[p].thread /\ r.ids = proc[p].ids /\ r.pc = "scan"
      BY <1>0 DEF Process
    <3>2. Becomes(p, r)
      BY <2>3
    <3> HIDE DEF r
    <3>3. proc[p].pc \notin Asking
      BY <2>0 DEF Asking
    <3> QED BY <1>1, <2>3, <3>1, <3>2, <3>3
  <2> QED BY <1>5, <2>1, <2>2, <2>3 DEF KillBrother
<1>6. CASE OpenWwan(p)
  <2>1. Ends(p) \/ (Opened(p, proc[p].ids, "sync") /\ UNCHANGED used)
    BY <1>6 DEF OpenWwan
  <2>2. driver = "wwan" /\ proc[p].pc = "scan" /\ proc[p].ids \in [1 .. Services -> {-1, 0, 1}]
    BY <1>0, <1>6 DEF OpenWwan, Ready, At, Process
  <2> QED BY <2>1, <2>2, OpenedKeepsKnown, EndsKeepsKnown
<1>7. CASE OpenGobi(p)
  <2>1. PICK ids \in [1 .. Services -> {-1, 0, 1}] :
          \/ Ends(p)
          \/ Opened(p, ids, "sim") /\ used' = used \cup {<<p, s>> : s \in {t \in 1 .. Services : ids[t] = 1}}
    BY <1>7 DEF OpenGobi
  <2>2. driver = "gobi" /\ proc[p].pc = "scan"
    BY <1>7 DEF OpenGobi, Ready, At
  <2> QED BY <2>1, <2>2, OpenedKeepsKnown, EndsKeepsKnown
<1> QED BY <1>2, <1>3, <1>4, <1>5, <1>6, <1>7 DEF Begins

LEMMA AfterKeepsKnown ==
  ASSUME ProcsInv, ProcsInv', Known, NEW p \in Procs, NEW rsp \in {"fail", "none"},
         proc[p].pc \in Asking, driver = "wwan", Becomes(p, After(proc[p], rsp)),
         UNCHANGED <<driver, present, disturbed, used>>,
         toModem' = Unawaited(p) \/ (toModem' = toModem /\ ~proc[p].sent)
  PROVE  Known'
<1> DEFINE r == After(proc[p], rsp)
<1>1. proc[p] \in Process /\ Sound(proc[p])
  BY DEF ProcsInv, ProcsOK
<1>2. r.thread = proc[p].thread /\ \A s \in 1 .. Services : Counts(r, s) => Counts(proc[p], s)
  BY <1>1, AfterCounts
<1>3. Becomes(p, r)
  OBVIOUS
<1> HIDE DEF r
<1>4. Loses(proc[p], r)
  BY <1>2 DEF Loses
<1> QED BY <1>3, <1>4, ChangeKeepsKnown

\* A request of one that is alone is the last: the others that wait were disturbed.
LEMMA CallKeepsKnown ==
  ASSUME ProcsInv, ProcsInv', Known, driver \in {"wwan", "gobi"}, NEW p \in Procs, Call(p)
  PROVE  Known'
<1> DEFINE u == proc[p]
           r == [u EXCEPT !.sent = TRUE]
           m == [own |-> p, msg |-> u.pc, svc |-> u.svc, awaited |-> TRUE]
<1>1. u \in Process /\ u.pc \in Asking /\ ~u.sent /\ UNCHANGED <<driver, present, used, disturbed>>
  BY DEF ProcsInv, ProcsOK, Call
<1>2. driver = "wwan"
  BY <1>1 DEF Known, NoRequests
<1>3. CASE u.thread # "up"
  <2>1. Becomes(p, After(u, "fail")) /\ UNCHANGED toModem
    BY <1>3 DEF Call
  <2> QED BY <1>1, <1>2, <2>1, AfterKeepsKnown
<1>4. CASE u.thread = "up"
  <2>1. Becomes(p, r) /\ toModem' = IF present THEN Append(toModem, m) ELSE toModem
    BY <1>4 DEF Call
  <2>2. r.thread = u.thread /\ r.ids = u.ids /\ r.pc = u.pc /\ r.svc = u.svc
    BY <1>1 DEF Process
  <2> HIDE DEF r
  <2>3. CASE ~present
    BY <1>1, <2>1, <2>2, <2>3, MainKeepsKnown DEF modemVars, Call
  <2>4. CASE present
    <3>1. /\ m.own = p /\ m.msg = u.pc /\ m.svc = u.svc /\ m.awaited
          /\ toModem' = Append(toModem, m) /\ toModem \in Seq(Request)
      BY <2>1, <2>4 DEF ProcsInv, ProcsOK
    <3> HIDE DEF m
    <3>2. /\ proc'[p] = r /\ \A q \in Procs \ {p} : proc'[q] = proc[q]
      BY <2>1 DEF Becomes, ProcsInv, ProcsOK
    <3>3. \A q \in Procs : /\ proc'[q].thread = proc[q].thread /\ proc'[q].ids = proc[q].ids
                           /\ proc'[q].pc = proc[q].pc /\ proc'[q].svc = proc[q].svc
      BY <2>2, <3>2
    <3>4. \A q \in Procs : Holds(q)' <=> Holds(q)
      BY <1>1, <3>3 DEF Holds
    <3>5. \A q \in Procs : Alone(q)' => Alone(q) /\ q = p
      <4>1. Holds(p)
        BY <1>2, <1>4 DEF Holds
      <4> QED BY <1>1, <3>4, <4>1 DEF Alone, Known, HoldsAlone, Others
    <3>6. /\ DOMAIN toModem' = DOMAIN toModem \cup {Len(toModem) + 1} /\ Len(toModem') = Len(toModem) + 1
          /\ toModem'[Len(toModem) + 1] = m
          /\ \A i \in DOMAIN toModem : toModem'[i] = toModem[i]
      BY <3>1
    <3>7. HoldsAlone'
      BY <3>4, <3>5 DEF Known, HoldsAlone, Others
    <3>8. IdsStay'
      <4> SUFFICES ASSUME NEW q \in Procs, NEW s \in 1 .. Services, Alone(q)', Counts(proc'[q], s)
                   PROVE  /\ present' => <<q, s>> \in used'
                          /\ \A i \in DOMAIN toModem' :
                               /\ toModem'[i].msg # "sync"
                               /\ ~(toModem'[i].msg = "release" /\ toModem'[i].own = q /\ toModem'[i].svc = s)
        BY DEF IdsStay
      <4>1. Alone(q) /\ q = p /\ Counts(proc[q], s)
        BY <3>3, <3>5 DEF Counts
      <4>2. m.msg = "get"
        BY <1>1, <3>1, <4>1 DEF Counts, Asking, Working
      <4> QED BY <1>1, <3>6, <4>1, <4>2 DEF Known, IdsStay
    <3>9. AwaitedLast'
      <4>1. ASSUME NEW i \in DOMAIN toModem', NEW o \in Procs, toModem'[i].awaited, o = toModem'[i].own
            PROVE  /\ toModem'[i].msg = proc'[o].pc /\ toModem'[i].svc = proc'[o].svc
                   /\ Alone(o)' => i = Len(toModem')
        <5>1. CASE i = Len(toModem) + 1
          BY <3>1, <3>3, <3>6, <4>1, <5>1
        <5>2. CASE i \in DOMAIN toModem
          <6>1. o # p
            BY <1>1, <3>6, <4>1, <5>2, NoneAwaited
          <6> QED BY <3>3, <3>5, <3>6, <4>1, <5>2, <6>1 DEF Known, AwaitedLast
        <5> QED BY <3>6, <5>1, <5>2
      <4> QED BY <4>1, AwaitedLastNext
    <3> QED BY <1>1, <1>2, <3>7, <3>8, <3>9 DEF Known, NoRequests
  <2> QED BY <2>3, <2>4
<1> QED BY <1>3, <1>4

LEMMA RequestsKeepsKnown ==
  ASSUME ProcsInv, ProcsInv', Known, driver \in {"wwan", "gobi"}, NEW p \in Procs, Requests(p)
  PROVE  Known'
<1>0. proc[p] \in Process /\ Sound(proc[p])
  BY DEF ProcsInv, ProcsOK
<1>1. CASE Call(p)
  BY <1>1, CallKeepsKnown
<1>2. CASE GiveUp(p)
  <2>1. /\ proc[p].pc \in Asking /\ toModem' = Unawaited(p) /\ UNCHANGED <<driver, present, disturbed, used>>
        /\ Becomes(p, After(proc[p], "none")) \/ Becomes(p, After(proc[p], "fail"))
    BY <1>0, <1>2 DEF GiveUp, Sound
  <2>2. driver = "wwan"
    BY <2>1 DEF Known, NoRequests
  <2> QED BY <2>1, <2>2, AfterKeepsKnown
<1>3. CASE SimStatus(p) \/ Setup(p)
  <2>1. PICK phase \in {"setup", "loop"} : Becomes(p, Then(proc[p], phase, 0))
    BY <1>3 DEF SimStatus, Setup
  <2>2. proc[p].pc \in {"sim", "setup"} /\ UNCHANGED <<modemVars, disturbed>>
    BY <1>3 DEF SimStatus, Setup, At, Quiet
  <2>3. ~proc[p].sent
    BY <1>0, <2>2 DEF Sound, Asking
  <2> DEFINE r == Then(proc[p], phase, 0)
  <2>4. r.ids = proc[p].ids /\ r.thread = proc[p].thread /\ r.pc \in Working
    BY <1>0, ThenKeepsIds DEF Working
  <2>5. Becomes(p, r)
    BY <2>1
  <2> HIDE DEF r
  <2> QED BY <2>2, <2>3, <2>4, <2>5, MainKeepsKnown DEF Working
<1>4. CASE BadSim(p)
  BY <1>4, EndsKeepsKnown DEF BadSim
<1> QED BY <1>1, <1>2, <1>3, <1>4 DEF Requests

LEMMA LeavesKeepsKnown ==
  ASSUME ProcsInv, ProcsInv', Known, driver \in {"wwan", "gobi"}, NEW p \in Procs, Leaves(p)
  PROVE  Known'
<1>0. proc[p] \in Process /\ Sound(proc[p])
  BY DEF ProcsInv, ProcsOK
<1>1. CASE Stop(p)
  <2>1. proc[p].pc = "loop" /\ UNCHANGED <<toModem, driver, present, disturbed>>
    BY <1>1 DEF Stop, At
  <2>2. ~proc[p].sent
    BY <1>0, <2>1 DEF Sound, Asking
  <2>3. CASE driver # "gobi"
    <3> DEFINE r == Releasing(proc[p])
    <3>1. r.thread = proc[p].thread /\ r.pc \in {"join", "release"}
      BY <1>0, ReleasingKeepsThread
    <3>2. Becomes(p, r) /\ UNCHANGED used
      BY <1>1, <2>3 DEF Stop
    <3> HIDE DEF r
    <3>3. Loses(proc[p], r)
      BY <2>3, <3>1 DEF Loses, Counts, Working
    <3> QED BY <2>1, <2>2, <3>2, <3>3, ChangeKeepsKnown
  <2>4. CASE driver = "gobi"
    <3> DEFINE r == [proc[p] EXCEPT !.pc = "join", !.ids = NoIds]
    <3>1. r.thread = proc[p].thread /\ r.pc = "join" /\ r.ids = NoIds
      BY <1>0 DEF Process
    <3>2. Becomes(p, r) /\ used' = used \ Mine(p)
      BY <1>1, <2>4 DEF Stop
    <3> HIDE DEF r
    <3>3. Loses(proc[p], r) /\ \A s \in 1 .. Services : ~Counts(r, s)
      BY <3>1 DEF Loses, Counts, NoIds, Asking, Working
    <3>4. \A q \in Procs : \A s \in 1 .. Services :
            <<q, s>> \in used => <<q, s>> \in used' \/ (q = p /\ ~(r.thread = "up" /\ Counts(r, s)))
      BY <3>2, <3>3 DEF Mine
    <3> QED BY <2>1, <2>2, <3>2, <3>3, <3>4, ChangeKeepsKnown
  <2> QED BY <2>3, <2>4
<1>2. CASE Disconnected(p)
  <2>1. PICK phase \in {"rejoin", "join"} : Becomes(p, Then(proc[p], phase, 0))
    BY <1>2 DEF Disconnected
  <2>2. proc[p].pc = "loop" /\ UNCHANGED <<modemVars, disturbed>>
    BY <1>2 DEF Disconnected, At, Quiet
  <2>3. ~proc[p].sent
    BY <1>0, <2>2 DEF Sound, Asking
  <2> DEFINE r == Then(proc[p], phase, 0)
  <2>4. r.ids = proc[p].ids /\ r.thread = proc[p].thread /\ r.pc \notin Asking \cup Working
    BY <1>0, ThenKeepsIds DEF Asking, Working
  <2>5. Becomes(p, r)
    BY <2>1
  <2> HIDE DEF r
  <2> QED BY <2>2, <2>3, <2>4, <2>5, MainKeepsKnown
<1>3. CASE Rejoin(p) \/ ModemReset(p)
  <2>1. proc[p].pc \in {"rejoin", "loop"} /\ UNCHANGED <<modemVars, disturbed>>
    BY <1>3 DEF Rejoin, ModemReset, At, Quiet
  <2>2. ~proc[p].sent
    BY <1>0, <2>1 DEF Sound, Asking
  <2>3. PICK r : /\ Becomes(p, r) /\ r.thread = "none" /\ r.ids = proc[p].ids /\ r.pc \in {"search", "sleep"}
    <3> DEFINE f == Forgets(proc[p])
               k == [f EXCEPT !.pc = "search", !.known = FALSE]
               n == [f EXCEPT !.pc = "sleep"]
    <3>1. f \in Process /\ f.thread = "none" /\ f.ids = proc[p].ids
      BY <1>0 DEF Forgets, Process
    <3>2. Becomes(p, k) \/ Becomes(p, n)
      BY <1>3 DEF Rejoin, ModemReset
    <3> HIDE DEF f
    <3>3. k.thread = "none" /\ k.ids = proc[p].ids /\ k.pc = "search"
      BY <3>1 DEF Process
    <3>4. n.thread = "none" /\ n.ids = proc[p].ids /\ n.pc = "sleep"
      BY <3>1 DEF Process
    <3> HIDE DEF k, n
    <3> QED BY <3>2, <3>3, <3>4
  <2>4. r.pc \notin Asking \cup Working
    BY <2>3 DEF Asking, Working
  <2> QED BY <2>1, <2>2, <2>3, <2>4, MainKeepsKnown
<1>4. CASE Join(p)
  BY <1>4, EndsKeepsKnown DEF Join
<1> QED BY <1>1, <1>2, <1>3, <1>4 DEF Leaves

\* The thread ends with the modem, and with it every request.
LEMMA ThreadEndsKeepsKnown ==
  ASSUME ProcsInv, ProcsInv', Known, driver \in {"wwan", "gobi"}, NEW p \in Procs, ThreadEnds(p)
  PROVE  Known'
<1> DEFINE u == proc[p]
           r == [u EXCEPT !.thread = "over", !.ids = IF driver = "gobi" THEN NoIds ELSE @]
<1>0. u \in Process /\ Sound(u) /\ Queue
  BY DEF ProcsInv, ProcsOK
<1>1. toModem = <<>> /\ UNCHANGED <<modemVars, disturbed>>
  BY <1>0 DEF ThreadEnds, Queue, Quiet
<1>2. toModem' = Unawaited(p)
  BY <1>1 DEF Unawaited, modemVars
<1>3. r \in Process /\ r.thread = "over" /\ r.sent = u.sent /\ r.svc = u.svc /\ r.pc = u.pc
      /\ r.ids = IF driver = "gobi" THEN NoIds ELSE u.ids
  <2>1. NoIds \in [1 .. Services -> {-1, 0, 1}]
    BY DEF NoIds
  <2> HIDE DEF NoIds
  <2> QED BY <1>0, <2>1 DEF Process
<1>4. Becomes(p, IF r.sent THEN After(r, "none") ELSE r)
  BY DEF ThreadEnds
<1> HIDE DEF r
<1>5. Sound(r) \/ ~r.sent
  <2>1. r.sent => u.pc \in Asking
    BY <1>0, <1>3 DEF Sound
  <2> QED BY <1>0, <1>3, <2>1 DEF Sound, Asking, Idle
<1>6. \A s \in 1 .. Services : Counts(r, s) => Counts(u, s)
  BY <1>3 DEF Counts, NoIds
<1>7. CASE ~r.sent
  <2>1. Loses(u, r)
    BY <1>3, <1>6 DEF Loses, NoIds, Known, NoRequests
  <2> QED BY <1>1, <1>2, <1>4, <1>7, <2>1, ChangeKeepsKnown DEF modemVars
<1>8. CASE r.sent
  <2> DEFINE t == After(r, "none")
  <2>1. r.pc \in Asking /\ driver = "wwan"
    BY <1>3, <1>5, <1>8 DEF Sound, Known, NoRequests
  <2>2. t.thread = "over" /\ \A s \in 1 .. Services : Counts(t, s) => Counts(u, s)
    BY <1>3, <1>5, <1>6, <1>8, <2>1, AfterCounts
  <2>3. Becomes(p, t)
    BY <1>4, <1>8
  <2> HIDE DEF t
  <2>4. Loses(u, t)
    BY <2>1, <2>2 DEF Loses
  <2> QED BY <1>1, <1>2, <2>3, <2>4, ChangeKeepsKnown DEF modemVars
<1> QED BY <1>7, <1>8

\* The modem's answer: the synchronisation finds nobody alone with ids, a grant is known,
\* and an id given back does not count any more.
LEMMA ServeKeepsKnown ==
  ASSUME ProcsInv, ProcsInv', Known, driver \in {"wwan", "gobi"}, Serve
  PROVE  Known'
<1> DEFINE o == Now.own
<1>1. /\ toModem # <<>> /\ toModem \in Seq(Request) /\ toModem' = Tail(toModem)
      /\ UNCHANGED <<driver, present, disturbed>>
  BY DEF Serve, ProcsInv, ProcsOK
<1>2. /\ Now = toModem[1] /\ Now \in Request /\ 1 \in DOMAIN toModem /\ Len(toModem) \in Nat
      /\ DOMAIN toModem' = 1 .. Len(toModem) - 1 /\ Len(toModem') = Len(toModem) - 1
      /\ \A i \in DOMAIN toModem' : i \in Nat /\ i + 1 \in DOMAIN toModem /\ i + 1 # 1 /\ toModem'[i] = toModem[i + 1]
  BY <1>1 DEF Now
<1>3. o \in Procs /\ driver = "wwan"
  BY <1>1, <1>2 DEF Request, Known, NoRequests
<1>4. Now.awaited => /\ Now.msg = proc[o].pc /\ Now.svc = proc[o].svc /\ proc[o].sent
                     /\ Alone(o) => 1 = Len(toModem)
  BY <1>2 DEF Known, AwaitedLast, ProcsInv, Queue
<1>5. ASSUME NEW i \in DOMAIN toModem', toModem'[i].awaited, Now.awaited
      PROVE  toModem'[i].own # o
  BY <1>2, <1>5 DEF ProcsInv, Queue
<1> HIDE DEF o
\* What an answer rsp does to the processes.
<1>6. ASSUME NEW rsp \in {"ok", "none"}, Answer(rsp)
      PROVE  /\ \A q \in Procs : proc'[q].thread = proc[q].thread
             /\ \A q \in Procs : proc'[q] = proc[q] \/ (q = o /\ Now.awaited)
             /\ \A q \in Procs : \A s \in 1 .. Services :
                  Counts(proc'[q], s) =>
                    \/ Counts(proc[q], s)
                    \/ q = o /\ Now.awaited /\ rsp = "ok" /\ Now.msg = "get" /\ s = Now.svc
  <2>1. CASE UNCHANGED proc
    BY <2>1
  <2>2. CASE Now.awaited /\ Becomes(o, After(proc[o], rsp))
    <3> DEFINE t == After(proc[o], rsp)
    <3>1. proc[o] \in Process /\ Sound(proc[o]) /\ proc[o].pc \in Asking
      BY <1>3, <1>4, <2>2 DEF ProcsInv, ProcsOK, Sound
    <3>2. /\ t.thread = proc[o].thread
          /\ \A s \in 1 .. Services : Counts(t, s) => Counts(proc[o], s) \/ (rsp = "ok" /\ proc[o].pc = "get" /\ s = proc[o].svc)
      BY <3>1, AfterCounts
    <3>3. Becomes(o, t)
      BY <2>2
    <3> HIDE DEF t
    <3>4. proc'[o] = t /\ \A q \in Procs \ {o} : proc'[q] = proc[q]
      BY <1>3, <3>3 DEF Becomes, ProcsInv, ProcsOK
    <3> QED BY <1>4, <2>2, <3>2, <3>4
  <2>3. CASE Becomes(o, proc[o])
    <3>1. \A q \in Procs : proc'[q] = proc[q]
      BY <1>3, <2>3 DEF Becomes, ProcsInv, ProcsOK
    <3> QED BY <3>1
  <2> QED BY <1>6, <2>1, <2>2, <2>3 DEF Answer, o
\* The modem has done with the request.
<1>7. ASSUME NEW rsp \in {"ok", "none"}, Answer(rsp),
             \A q \in Procs : \A s \in 1 .. Services : Alone(q) /\ <<q, s>> \in used /\ Counts(proc[q], s) => <<q, s>> \in used',
             rsp = "ok" /\ Now.msg = "get" => <<o, Now.svc>> \in used'
      PROVE  Known'
  <2>1. \A q \in Procs : Holds(q)' <=> Holds(q)
    BY <1>1, <1>3, <1>6, <1>7 DEF Holds
  <2>2. \A q \in Procs : Alone(q)' <=> Alone(q)
    BY <1>1, <2>1 DEF Alone
  <2>3. HoldsAlone'
    BY <2>1, <2>2 DEF Known, HoldsAlone, Others
  <2>4. IdsStay'
    <3> SUFFICES ASSUME NEW q \in Procs, NEW s \in 1 .. Services, Alone(q)', Counts(proc'[q], s)
                 PROVE  /\ present' => <<q, s>> \in used'
                        /\ \A i \in DOMAIN toModem' :
                             /\ toModem'[i].msg # "sync"
                             /\ ~(toModem'[i].msg = "release" /\ toModem'[i].own = q /\ toModem'[i].svc = s)
      BY DEF IdsStay
    <3>1. Alone(q)
      BY <2>2
    <3>2. CASE Counts(proc[q], s)
      <4>1. /\ present => <<q, s>> \in used
            /\ \A i \in DOMAIN toModem :
                 toModem[i].msg # "sync" /\ ~(toModem[i].msg = "release" /\ toModem[i].own = q /\ toModem[i].svc = s)
        BY <3>1, <3>2 DEF Known, IdsStay
      <4>2. present' => <<q, s>> \in used'
        BY <1>1, <1>7, <3>1, <3>2, <4>1
      <4> QED BY <1>2, <4>1, <4>2
    <3>3. CASE q = o /\ Now.awaited /\ rsp = "ok" /\ Now.msg = "get" /\ s = Now.svc
      <4>1. Alone(o)
        BY <3>1, <3>3
      <4>2. Len(toModem) = 1
        BY <1>4, <3>3, <4>1
      <4>3. DOMAIN toModem' = {}
        BY <1>2, <4>2
      <4> QED BY <1>7, <3>3, <4>3
    <3> QED BY <1>6, <1>7, <3>2, <3>3
  <2>5. AwaitedLast'
    <3>1. ASSUME NEW i \in DOMAIN toModem', NEW w \in Procs, toModem'[i].awaited, w = toModem'[i].own
          PROVE  /\ toModem'[i].msg = proc'[w].pc /\ toModem'[i].svc = proc'[w].svc
                 /\ Alone(w)' => i = Len(toModem')
      <4>1. proc'[w] = proc[w]
        BY <1>5, <1>6, <1>7, <3>1
      <4>2. i + 1 \in DOMAIN toModem /\ toModem'[i] = toModem[i + 1]
        BY <1>2
      <4>3. toModem[i + 1].msg = proc[w].pc /\ toModem[i + 1].svc = proc[w].svc /\ (Alone(w) => i + 1 = Len(toModem))
        BY <3>1, <4>2 DEF Known, AwaitedLast
      <4>4. Alone(w)' => i + 1 = Len(toModem)
        BY <2>2, <4>3
      <4>5. i + 1 = Len(toModem) => i = Len(toModem')
        BY <1>2
      <4> QED BY <4>1, <4>2, <4>3, <4>4, <4>5
    <3> QED BY <3>1, AwaitedLastNext
  <2>6. NoRequests'
    BY <1>1, <1>3 DEF NoRequests
  <2> QED BY <2>3, <2>4, <2>5, <2>6 DEF Known
<1>8. \A q \in Procs : \A s \in 1 .. Services : Alone(q) /\ Counts(proc[q], s) =>
        Now.msg # "sync" /\ ~(Now.msg = "release" /\ o = q /\ Now.svc = s)
  BY <1>2 DEF Known, IdsStay, o
<1>9. CASE Now.msg = "sync" /\ Answer("ok")
  BY <1>7, <1>8, <1>9
<1>10. CASE Now.msg = "get" /\ used' = used \cup {<<o, Now.svc>>} /\ Answer("ok")
  BY <1>7, <1>10
<1>11. CASE Now.msg = "get" /\ UNCHANGED used /\ Answer("none")
  BY <1>7, <1>11
<1>12. CASE Now.msg = "release" /\ used' = used \ {<<o, Now.svc>>} /\ Answer("ok")
  BY <1>7, <1>8, <1>12
<1> QED BY <1>9, <1>10, <1>11, <1>12 DEF Serve, o

LEMMA ModemKeepsKnown ==
  ASSUME ProcsInv, ProcsInv', Known, Unplug \/ Plug \/ Reset
  PROVE  Known'
<1>1. CASE Unplug
  <2>1. present' = FALSE /\ toModem' = <<>> /\ UNCHANGED <<driver, proc, disturbed>>
    BY <1>1 DEF Unplug
  <2>2. HoldsAlone'
    BY <2>1 DEF Known, HoldsAlone, Alone, Others, Holds
  <2>3. IdsStay' /\ AwaitedLast'
    BY <2>1 DEF IdsStay, AwaitedLast
  <2>4. NoRequests'
    BY <2>1 DEF Known, NoRequests
  <2> QED BY <2>2, <2>3, <2>4 DEF Known
<1>2. CASE Plug
  <2>1. (\A p \in Procs : ~Holds(p)) /\ UNCHANGED <<toModem, driver, proc, disturbed>>
    BY <1>2 DEF Plug
  <2>2. toModem = <<>>
    BY <1>2 DEF Plug, ProcsInv, Queue
  <2>3. \A p \in Procs : ~Alone(p)'
    BY <2>1 DEF Alone, Holds
  <2>4. HoldsAlone' /\ IdsStay' /\ AwaitedLast' /\ NoRequests'
    BY <2>1, <2>2, <2>3 DEF Known, HoldsAlone, IdsStay, AwaitedLast, NoRequests
  <2> QED BY <2>4 DEF Known
<1>3. CASE Reset
  <2>1. PICK p \in Procs : Becomes(p, [proc[p] EXCEPT !.reset = TRUE])
    BY <1>3 DEF Reset
  <2>2. toModem' = <<>> /\ driver = "wwan" /\ UNCHANGED driver /\ disturbed' = disturbed \cup {q \in Procs : Holds(q)}
    BY <1>3 DEF Reset
  <2> DEFINE r == [proc[p] EXCEPT !.reset = TRUE]
  <2>3. r.thread = proc[p].thread
    BY DEF ProcsInv, ProcsOK, Process
  <2>4. Becomes(p, r)
    BY <2>1
  <2> HIDE DEF r
  <2>5. \A q \in Procs : proc'[q].thread = proc[q].thread
    BY <2>3, <2>4 DEF Becomes, ProcsInv, ProcsOK
  <2>6. \A q \in Procs : ~Alone(q)'
    BY <2>2, <2>5 DEF Alone, Holds
  <2>7. HoldsAlone' /\ IdsStay'
    BY <2>6 DEF HoldsAlone, IdsStay
  <2>8. AwaitedLast' /\ NoRequests'
    BY <2>2 DEF AwaitedLast, NoRequests
  <2> QED BY <2>7, <2>8 DEF Known
<1> QED BY <1>1, <1>2, <1>3

-----------------------------------------------------------------------------
(* The theorems.                                                           *)

LEMMA StepKeepsProcs ==
  ASSUME ProcsInv, [Next]_vars
  PROVE  ProcsInv'
<1>1. CASE UNCHANGED vars
  BY <1>1 DEF vars, modemVars, ProcsInv, ProcsOK, Sound, Queue, Seen
<1>2. ASSUME NEW p \in Procs, Start(p) \/ Main(p) \/ ThreadEnds(p)
      PROVE  ProcsInv'
  BY <1>2, StartKeepsProcs, BeginsKeepsProcs, RequestsKeepsProcs, LeavesKeepsProcs, ThreadEndsKeepsProcs DEF Main
<1>3. ASSUME NEW p \in Procs, Terminate(p)
      PROVE  ProcsInv'
  BY <1>3, SignalledKeepsProcs DEF Terminate, modemVars
<1>4. ASSUME NEW p \in Procs, Kill(p)
      PROVE  ProcsInv'
  BY <1>4, EndsKeepsProcs DEF Kill
<1>5. CASE Modem
  BY <1>5, ServeKeepsProcs, ModemKeepsProcs DEF Modem
<1>6. CASE Again
  BY <1>1, <1>6 DEF Again
<1> QED BY <1>1, <1>2, <1>3, <1>4, <1>5, <1>6 DEF Next

LEMMA StepKeepsRest ==
  ASSUME ProcsInv, RestOK, [Next]_vars
  PROVE  RestOK'
<1> USE DEF RestOK
<1>0. /\ proc \in [Procs -> Process]
      /\ \A p \in Procs : Mine(p) \subseteq Procs \X (1 .. Services)
      /\ \A p \in Procs : Others(p) \subseteq Procs
  BY DEF ProcsInv, ProcsOK, Mine, Others
<1>1. CASE UNCHANGED vars
  BY <1>1 DEF vars, modemVars
<1>2. ASSUME NEW p \in Procs, Ends(p), (UNCHANGED faults) \/ Fault
      PROVE  RestOK'
  BY <1>2 DEF Ends, Fault
<1>3. ASSUME Quiet
      PROVE  RestOK'
  BY <1>3 DEF Quiet, modemVars
<1>4. ASSUME NEW p \in Procs, Start(p)
      PROVE  RestOK'
  BY <1>4 DEF Start, modemVars
<1>5. ASSUME NEW p \in Procs, Begins(p)
      PROVE  RestOK'
  <2>1. CASE Sockets(p) \/ Search(p) \/ Look(p)
    BY <1>3, <2>1 DEF Sockets, Search, Look
  <2>2. CASE KillBrother(p)
    <3>1. Quiet \/ (Ends(proc[p].target) /\ UNCHANGED faults)
      BY <2>2 DEF KillBrother
    <3>2. proc[p].target \in Procs
      BY <2>2 DEF KillBrother, At, ProcsInv, Sound
    <3> QED BY <1>2, <1>3, <3>1, <3>2
  <2>3. ASSUME NEW ids, NEW phase, Opened(p, ids, phase), used' \subseteq Procs \X (1 .. Services),
               (UNCHANGED faults) \/ Fault
        PROVE  RestOK'
    BY <1>0, <2>3 DEF Opened, Fault
  <2>4. CASE OpenWwan(p)
    BY <1>2, <2>3, <2>4 DEF OpenWwan
  <2>5. CASE OpenGobi(p)
    BY <1>2, <2>3, <2>5 DEF OpenGobi
  <2> QED BY <1>5, <2>1, <2>2, <2>4, <2>5 DEF Begins
<1>6. ASSUME NEW p \in Procs, Requests(p)
      PROVE  RestOK'
  <2>1. CASE Call(p)
    BY <2>1 DEF Call
  <2>2. CASE GiveUp(p)
    BY <2>2 DEF GiveUp, Fault
  <2>3. CASE SimStatus(p)
    BY <2>3 DEF SimStatus, Reaches, Fails, Fault, modemVars
  <2>4. CASE BadSim(p)
    BY <1>2, <2>4 DEF BadSim
  <2>5. CASE Setup(p)
    BY <1>3, <2>5 DEF Setup
  <2> QED BY <1>6, <2>1, <2>2, <2>3, <2>4, <2>5 DEF Requests
<1>7. ASSUME NEW p \in Procs, Leaves(p)
      PROVE  RestOK'
  <2>1. CASE Stop(p)
    BY <2>1 DEF Stop
  <2>2. CASE Disconnected(p) \/ Rejoin(p) \/ ModemReset(p)
    BY <1>3, <2>2 DEF Disconnected, Rejoin, ModemReset
  <2>3. CASE Join(p)
    BY <1>2, <2>3 DEF Join
  <2> QED BY <1>7, <2>1, <2>2, <2>3 DEF Leaves
<1>8. ASSUME NEW p \in Procs, ThreadEnds(p) \/ Terminate(p) \/ Kill(p)
      PROVE  RestOK'
  <2>1. CASE ThreadEnds(p)
    BY <1>3, <2>1 DEF ThreadEnds
  <2>2. CASE Terminate(p)
    BY <2>2 DEF Terminate, Fault, modemVars
  <2>3. CASE Kill(p)
    BY <1>2, <2>3 DEF Kill
  <2> QED BY <1>8, <2>1, <2>2, <2>3
<1>9. CASE Modem
  <2>1. CASE Serve
    <3>1. toModem # <<>> /\ toModem \in Seq(Request)
      BY <2>1 DEF Serve, ProcsInv, ProcsOK
    <3>2. Now = toModem[1] /\ 1 \in DOMAIN toModem /\ Now \in Request
      BY <3>1 DEF Now
    <3>3. Now.own \in Procs /\ Now.svc \in 0 .. Services
      BY <3>2 DEF Request
    <3>4. Now.msg = "get" => Now.svc \in 1 .. Services
      <4>1. toModem[1].msg = "get" => toModem[1].svc # 0
        BY <3>2 DEF ProcsInv, Queue
      <4> QED BY <3>2, <3>3, <4>1
    <3> QED BY <2>1, <3>3, <3>4 DEF Serve, Fault
  <2>2. CASE Unplug \/ Plug
    <3>1. present' \in BOOLEAN
      BY <2>2 DEF Unplug, Plug
    <3>2. /\ used' \subseteq Procs \X (1 .. Services) /\ faults' \in 0 .. MaxFaults
          /\ UNCHANGED <<driver, supports, disturbed, lives>>
      BY <2>2 DEF Unplug, Plug, Fault
    <3> QED BY <3>1, <3>2
  <2>3. CASE Reset
    <3>1. disturbed' \subseteq Procs
      BY <2>3 DEF Reset
    <3>2. used' = {} /\ faults < MaxFaults /\ faults' = faults + 1 /\ UNCHANGED <<driver, supports, present, lives>>
      BY <2>3 DEF Reset, Fault
    <3> QED BY <3>1, <3>2
  <2> QED BY <1>9, <2>1, <2>2, <2>3 DEF Modem
<1>10. CASE Again
  BY <1>1, <1>10 DEF Again
<1> QED BY <1>1, <1>4, <1>5, <1>6, <1>7, <1>8, <1>9, <1>10 DEF Next, Main

LEMMA InitIsSound == Init => ProcsInv /\ RestOK
<1> SUFFICES ASSUME Init PROVE ProcsInv /\ RestOK
  OBVIOUS
<1>1. proc = [p \in Procs |-> Ended] /\ toModem = <<>>
  BY DEF Init
<1>2. ProcsOK /\ (\A p \in Procs : Sound(proc[p]))
  BY <1>1, EndedIsSound DEF ProcsOK, Sound
<1>3. Queue
  BY <1>1 DEF Queue
<1>4. Seen
  BY <1>1 DEF Seen, Ended
<1>5. RestOK
  BY DEF Init, RestOK
<1> QED BY <1>2, <1>3, <1>4, <1>5 DEF ProcsInv

LEMMA Invariance == Spec => [](ProcsInv /\ RestOK)
<1>1. ProcsInv /\ RestOK /\ [Next]_vars => (ProcsInv /\ RestOK)'
  BY StepKeepsProcs, StepKeepsRest
<1> QED BY <1>1, InitIsSound, PTL DEF Spec

LEMMA StepKeepsKnown ==
  ASSUME ProcsInv, RestOK, Known, [Next]_vars
  PROVE  Known'
<1>0. driver \in {"wwan", "gobi"} /\ ProcsInv'
  BY StepKeepsProcs DEF RestOK
<1>1. CASE UNCHANGED vars
  BY <1>1 DEF vars, modemVars, Known, HoldsAlone, IdsStay, AwaitedLast, NoRequests, Alone, Others, Holds, Counts
<1>2. ASSUME NEW p \in Procs, Start(p) \/ Main(p) \/ ThreadEnds(p)
      PROVE  Known'
  BY <1>0, <1>2, StartKeepsKnown, BeginsKeepsKnown, RequestsKeepsKnown, LeavesKeepsKnown, ThreadEndsKeepsKnown DEF Main
<1>3. ASSUME NEW p \in Procs, Terminate(p)
      PROVE  Known'
  BY <1>0, <1>3, SignalledKeepsKnown DEF Terminate
<1>4. ASSUME NEW p \in Procs, Kill(p)
      PROVE  Known'
  BY <1>0, <1>4, EndsKeepsKnown DEF Kill
<1>5. CASE Modem
  BY <1>0, <1>5, ServeKeepsKnown, ModemKeepsKnown DEF Modem
<1>6. CASE Again
  BY <1>1, <1>6 DEF Again
<1> QED BY <1>1, <1>2, <1>3, <1>4, <1>5, <1>6 DEF Next

LEMMA InitIsKnown == Init => Known
<1> SUFFICES ASSUME Init PROVE Known
  OBVIOUS
<1>1. toModem = <<>> /\ \A p \in Procs : proc[p].thread = "none" /\ proc[p].pc = "off"
  BY DEF Init, Ended
<1>2. HoldsAlone /\ IdsStay
  BY <1>1 DEF HoldsAlone, IdsStay, Alone, Holds
<1>3. AwaitedLast /\ NoRequests
  BY <1>1 DEF AwaitedLast, NoRequests, Asking
<1> QED BY <1>2, <1>3 DEF Known

\* The types of the start-up (main.c, QmiWwanCM.c, GobiNetCM.c), for any processes,
\* services and bounds.
THEOREM TypeCorrect == Spec => []TypeOK
<1>1. ProcsInv /\ RestOK => TypeOK
  BY DEF ProcsInv, ProcsOK, RestOK, TypeOK
<1> QED BY <1>1, Invariance, PTL

\* kill_brothers takes the modem over (main.c:228-295), for any number of processes: one
\* it found to hold the modem does not hold it when this one has it.  What was found is
\* gone or about to be killed, and only one that kills goes on.
THEOREM BrothersAreGone == Spec => []TakenOver
<1>1. ProcsInv => TakenOver
  <2> SUFFICES ASSUME ProcsInv, NEW p \in Procs, Holds(p), NEW q \in proc[p].saw
               PROVE  ~Holds(q)
    BY DEF TakenOver
  <2>1. q \in Procs
    BY DEF ProcsInv, ProcsOK, Process
  <2>2. proc[p].pc # "kill"
    BY DEF Holds, ProcsInv, Sound, Idle
  <2>3. proc[q].pc = "off"
    BY <2>2 DEF ProcsInv, Seen
  <2> QED BY <2>1, <2>3 DEF Holds, ProcsInv, Sound, Idle
<1> QED BY <1>1, Invariance, PTL

\* The client ids a process works with are ones the modem knows as its own
\* (QmiWwanCM.c:157-204), for any processes and services.  One that holds the modem
\* undisturbed holds it alone, so that its request is the last on the way: nothing that
\* takes an id back comes after the grant.
THEOREM IdsAreTheirs == Spec => []IdsAreKnown
<1>1. ProcsInv /\ RestOK /\ Known /\ [Next]_vars => Known'
  BY StepKeepsKnown
<1>2. Known => IdsAreKnown
  <2> SUFFICES ASSUME Known, NEW p \in Procs, NEW s \in 1 .. Services, At(p, "loop"), Holds(p), present,
                      proc[p].ids[s] = 1, p \notin disturbed
               PROVE  <<p, s>> \in used
    BY DEF IdsAreKnown
  <2>1. Alone(p) /\ Counts(proc[p], s)
    BY DEF Alone, Counts, Working, At
  <2> QED BY <2>1 DEF Known, IdsStay
<1> QED BY <1>1, <1>2, InitIsKnown, Invariance, PTL DEF Spec


=============================================================================
