----------------------------- MODULE QmiClient -----------------------------
(***************************************************************************)
(* A process of quectel-CM that reaches the modem through the proxy: the   *)
(* requests main makes one at a time (QMIThread.c), the thread that reads  *)
(* the answers (QmiWwanCM.c), and the client ids it obtains and gives back.*)
(*                                                                         *)
(* What main asks of the services once it has its ids is QmiConnection;    *)
(* here it is a request or none.  A request is written, waited for, and    *)
(* its answer, or none, is used before the next one is written.  One       *)
(* request to a service is on its way at a time.                           *)
(***************************************************************************)
EXTENDS QmiTransport

CONSTANT MaxLives   \* how many processes start, for TLC

ASSUME LivesAssumption == MaxLives \in Nat

VARIABLES
  lives,   \* processes that have started
  phase,   \* what main does
  svc,     \* the service it does it for
  step,    \* of the request: to be written, waited for, or over
  rsp,     \* the answer it has
  ctid,    \* the next transaction id of CTL
  mtid,    \* and of services
  tid,     \* the transaction id of the request it waits for, or 0
  ids      \* qmiclientId

runVars    == <<phase, svc, step, rsp, tid, ctid, mtid, ids>>
clientVars == <<lives, runVars>>

NoIds == [s \in 1 .. Services |-> 0]

ClientTypeOK ==
  /\ lives \in 0 .. MaxLives
  /\ phase \in [Clients -> {"off", "version", "get", "idle", "work", "release"}]
  /\ svc \in [Clients -> 0 .. Services]
  /\ step \in [Clients -> {"call", "wait", "got"}]
  /\ rsp \in [Clients -> Message]
  /\ ctid \in [Clients -> 1 .. 2 * Services + 2]
  /\ mtid \in [Clients -> 1 .. MaxTid + 1]
  /\ tid \in [Clients -> 0 .. MaxTid + 2 * Services + 1]
  /\ ids \in [Clients -> [1 .. Services -> 0 .. MaxId]]

ClientInit ==
  /\ lives = 0
  /\ phase = [c \in Clients |-> "off"] /\ svc = [c \in Clients |-> 0]
  /\ step = [c \in Clients |-> "call"]
  /\ rsp = [c \in Clients |-> NoAnswer]
  /\ ctid = [c \in Clients |-> 1] /\ mtid = [c \in Clients |-> 1] /\ tid = [c \in Clients |-> 0]
  /\ ids = [c \in Clients |-> NoIds]

\* qmi_proxy_open: a new process, under the lowest descriptor that is free.
Connect(c) ==
  /\ phase[c] = "off" /\ link[c] = "free"
  /\ \A d \in Clients : d < c => link[d] # "free"
  /\ lives < MaxLives /\ lives' = lives + 1
  /\ Set(link, c, "waiting")
  /\ Set(phase, c, "version")
  /\ UNCHANGED <<up, down, modemVars, odd, faults, svc, step, rsp, ctid, mtid, tid, ids>>

\* GetQMUXTransactionId counts the requests of a process to services, whichever.
Counted(c) == Set(mtid, c, mtid[c] + 1)

\* The request main is at.
Request(c) ==
  LET s == svc[c] IN
  CASE phase[c] = "version" -> Ask(CTL, "version", 0, 0, ctid[c], c)
    [] phase[c] = "get"     -> Ask(CTL, "get", s, 0, ctid[c], c)
    [] phase[c] = "release" -> Ask(CTL, "release", s, ids[c][s], ctid[c], c)
    [] phase[c] = "work"    -> Ask(s, "work", 0, ids[c][s], mtid[c], c)

\* QmiThreadSendQMITimeout: written and waited for; a broken socket takes no request.
Call(c) ==
  /\ phase[c] \notin {"off", "idle"} /\ step[c] = "call"
  /\ phase[c] = "work" => mtid[c] \in 1 .. MaxTid
  /\ IF link[c] = "cut" THEN UNCHANGED up /\ Set(step, c, "got")
     ELSE Set(up, c, Append(up[c], Request(c))) /\ Set(step, c, "wait")
  /\ Set(tid, c, Request(c).tid)
  /\ IF phase[c] = "work" THEN Counted(c) /\ UNCHANGED ctid ELSE Set(ctid, c, ctid[c] + 1) /\ UNCHANGED mtid
  /\ Set(rsp, c, NoAnswer)
  /\ UNCHANGED <<link, down, modemVars, odd, faults, lives, phase, svc, ids>>

\* is_response.  SameService is a seeded fault.
SameService(c, m) == m.svc = (IF phase[c] = "work" THEN svc[c] ELSE CTL)
IsResponse(c, m) ==
  /\ m.tid = tid[c]
  /\ IF phase[c] = "work" THEN m.svc = svc[c] /\ m.id = ids[c][svc[c]] ELSE m.svc = CTL

\* QmiThreadRecvQMI: the answer waited for, or a message nobody cares about.
Receive(c) ==
  /\ phase[c] # "off" /\ link[c] = "up" /\ down[c] # <<>>
  /\ Set(down, c, Tail(down[c]))
  /\ IF step[c] = "wait" /\ IsResponse(c, Head(down[c]))
       THEN Set(rsp, c, Head(down[c])) /\ Set(step, c, "got")
       ELSE UNCHANGED <<rsp, step>>
  /\ UNCHANGED <<link, up, modemVars, odd, faults, lives, phase, svc, ctid, mtid, tid, ids>>

\* What the process wrote or was sent is its own no more.
Forsaken(c) ==
  /\ toModem' = Disown(toModem, c) /\ fromModem' = Disown(fromModem, c)
  /\ UNCHANGED <<present, used>>

\* The wait is over after 30 seconds, or after one without a message once the process
\* has been told to stop.
GiveUp(c) ==
  /\ step[c] = "wait"
  /\ Set(step, c, "got")
  /\ up' = [up EXCEPT ![c] = Disown(@, c)] /\ down' = [down EXCEPT ![c] = Disown(@, c)]
  /\ Forsaken(c)
  /\ UNCHANGED <<link, lives, phase, svc, rsp, ctid, mtid, tid, ids>>

Consumed(c) == step[c] = "got" /\ Set(step, c, "call") /\ Set(rsp, c, NoAnswer) /\ Set(tid, c, 0)
Quiet == UNCHANGED <<transportVars, lives, ctid, mtid>>

Version(c) ==
  /\ phase[c] = "version" /\ Consumed(c)
  /\ Set(phase, c, "get") /\ Set(svc, c, 1)
  /\ UNCHANGED ids /\ Quiet

\* QmiWwanGetClientID: 0 without a good answer, and on to the next service.
\* AnyId is a seeded fault.
AnyId(c) == IF rsp[c].tid = 0 THEN 0 ELSE rsp[c].tid
Granted(c) == IF rsp[c] # NoAnswer /\ rsp[c].ok /\ rsp[c].of = svc[c] THEN rsp[c].id ELSE 0

GetClientId(c) ==
  /\ phase[c] = "get" /\ Consumed(c)
  /\ ids' = [ids EXCEPT ![c][svc[c]] = Granted(c)]
  /\ IF svc[c] < Services THEN Set(svc, c, svc[c] + 1) /\ UNCHANGED phase
     ELSE Set(phase, c, "idle") /\ Set(svc, c, 0)
  /\ Quiet

\* A service without an id takes no request.
Work(c) ==
  /\ phase[c] = "idle" /\ mtid[c] <= MaxTid
  /\ \A q \in {up[c], down[c], toModem, fromModem} : ~OwnedIn(q, c)
  /\ \E s \in 1 .. Services : ids[c][s] # 0 /\ Set(svc, c, s)
  /\ Set(phase, c, "work")
  /\ UNCHANGED <<step, rsp, tid, ids>> /\ Quiet

Worked(c) ==
  /\ phase[c] = "work" /\ Consumed(c)
  /\ Set(phase, c, "idle") /\ Set(svc, c, 0)
  /\ UNCHANGED ids /\ Quiet

\* The process is gone, and its socket closed.
Ends(c) ==
  /\ Set(phase, c, "off") /\ Set(svc, c, 0) /\ Set(step, c, "call") /\ Set(rsp, c, NoAnswer)
  /\ Set(ctid, c, 1) /\ Set(mtid, c, 1) /\ Set(tid, c, 0)
  /\ Set(link, c, IF link[c] = "cut" THEN "free" ELSE "left")
  /\ up' = [up EXCEPT ![c] = IF link[c] = "cut" THEN <<>> ELSE Disown(@, c)] /\ Set(down, c, <<>>)
  /\ Forsaken(c)
  /\ UNCHANGED lives

\* QmiWwanDeInit, told to stop: the ids it holds are released in turn, then it ends.
Release(c) ==
  /\ phase[c] = "idle" \/ (phase[c] = "release" /\ step[c] = "got")
  /\ LET left == IF phase[c] = "idle" THEN ids[c] ELSE [ids[c] EXCEPT ![svc[c]] = 0]
         held == {s \in 1 .. Services : left[s] # 0}
     IN IF held = {} THEN Set(ids, c, NoIds) /\ Ends(c) /\ UNCHANGED <<odd, faults>>
        ELSE /\ Set(ids, c, left)
             /\ Set(phase, c, "release")
             /\ Set(svc, c, CHOOSE s \in held : \A t \in held : s <= t)
             /\ Set(step, c, "call") /\ Set(rsp, c, NoAnswer) /\ Set(tid, c, 0)
             /\ Quiet

\* The thread sees the proxy hang up: the process ends, or starts over.
HangUp(c) ==
  /\ phase[c] # "off" /\ link[c] = "cut"
  /\ Set(ids, c, NoIds) /\ Ends(c)
  /\ UNCHANGED <<odd, faults>>

Kill(c) ==
  /\ phase[c] # "off" /\ Fault
  /\ Set(ids, c, NoIds) /\ Ends(c)
  /\ UNCHANGED odd
=============================================================================
