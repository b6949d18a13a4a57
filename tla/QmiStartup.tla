---------------------------- MODULE QmiStartup ----------------------------
(***************************************************************************)
(* The start-up and the end of quectel-CM in QMI mode, by several          *)
(* processes on one modem without the proxy: finding the modem, ending the *)
(* processes that hold it (kill_brothers), the client ids, the requests    *)
(* before the main loop, and the ways out of the loop.                     *)
(*                                                                         *)
(* Two drivers.  With qmi_wwan main obtains the client ids by requests;    *)
(* with GobiNet they are descriptors the reader thread opens.  Service 1   *)
(* is WDS, service Services stands for the others.  What main does in the  *)
(* loop is QmiConnection.  Requests whose outcome changes nothing are one. *)
(*                                                                         *)
(* The modem serves requests in the order they came.  What a process has   *)
(* not read when it closes the modem is gone (external, the driver).       *)
(***************************************************************************)
EXTENDS Integers, Sequences

CONSTANTS
  Procs,      \* process ids, numbers
  Services,   \* a process obtains ids of 1 .. Services
  MaxSyncs,   \* synchronisations before it gives up (10)
  MaxLives,   \* how many processes start, for TLC
  MaxFaults   \* bound on what may go wrong, for TLC

ASSUME ProcsAssumption == Procs \subseteq Nat \ {0}
ASSUME StartupSizes ==
  Services \in Nat \ {0} /\ MaxSyncs \in Nat \ {0} /\ MaxLives \in Nat /\ MaxFaults \in Nat

VARIABLES
  driver,     \* "wwan" or "gobi"
  supports,   \* the modem answers the query of the SIM
  present,    \* it is on the bus
  toModem,    \* requests it has not served
  used,       \* the client ids it has given out: to whom, of which service
  proc,       \* the processes
  disturbed,  \* history: those that held the modem with another, or when it reset itself
  lives, faults

modemVars == <<driver, supports, present, toModem, used>>
vars == <<modemVars, proc, disturbed, lives, faults>>

Asking   == {"sync", "get", "release"}
Phases   == Asking \cup {"off", "start", "search", "scan", "kill", "sim", "setup", "loop",
                        "rejoin", "sleep", "join"}
Request  == [own : Procs, msg : Asking, svc : 0 .. Services, awaited : BOOLEAN]
Process  ==
  [pc : Phases,
   sent : BOOLEAN,                             \* its request is
   svc : 0 .. Services, syncs : 0 .. MaxSyncs - 1, \* what for, and how often already
   ids : [1 .. Services -> {-1, 0, 1}],        \* qmiclientId: could not be opened, none, has it
   thread : {"none", "up", "over"},            \* over: main has not read of it yet
   known : BOOLEAN,                            \* qmichannel # NULL
   loops : BOOLEAN,                            \* main_loop
   told : BOOLEAN,                             \* SIG_EVENT_STOP is in its sockets
   lost : BOOLEAN,                             \* history: a SIGTERM that came to nothing
   reset : BOOLEAN,                            \* MODEM_REPORT_RESET_EVENT is in them
   checked : SUBSET Procs, target : Procs \cup {0}, \* of kill_brothers
   saw : SUBSET Procs]                         \* history: those found to hold the modem

TypeOK ==
  /\ driver \in {"wwan", "gobi"} /\ supports \in BOOLEAN /\ present \in BOOLEAN
  /\ toModem \in Seq(Request)
  /\ used \subseteq Procs \X (1 .. Services)
  /\ proc \in [Procs -> Process]
  /\ disturbed \subseteq Procs
  /\ lives \in 0 .. MaxLives /\ faults \in 0 .. MaxFaults

NoIds == [s \in 1 .. Services |-> 0]
Ended == [pc |-> "off", sent |-> FALSE, svc |-> 0, syncs |-> 0, ids |-> NoIds, thread |-> "none",
          known |-> TRUE, loops |-> FALSE, told |-> FALSE, lost |-> FALSE, reset |-> FALSE,
          checked |-> {}, target |-> 0, saw |-> {}]

Init ==
  /\ driver \in {"wwan", "gobi"} /\ supports \in BOOLEAN
  /\ present = TRUE /\ toModem = <<>> /\ used = {}
  /\ proc = [p \in Procs |-> Ended]
  /\ disturbed = {} /\ lives = 0 /\ faults = 0

Fault == faults < MaxFaults /\ faults' = faults + 1
At(p, phase) == proc[p].pc = phase
Becomes(p, r) == proc' = [proc EXCEPT ![p] = r]
Unawaited(p) == [i \in DOMAIN toModem |-> IF toModem[i].own = p THEN [toModem[i] EXCEPT !.awaited = FALSE] ELSE toModem[i]]
Mine(p) == {p} \X (1 .. Services)

\* The process holds the modem open.
Holds(p) == proc[p].thread = "up" /\ (driver = "wwan" \/ \E s \in 1 .. Services : proc[p].ids[s] = 1)
Others(p) == {q \in Procs \ {p} : Holds(q)}

\* It is gone.  Descriptors are closed by the system; client ids of the modem are not
\* released.
Ends(p) ==
  /\ Becomes(p, Ended)
  /\ toModem' = Unawaited(p)
  /\ used' = IF driver = "gobi" THEN used \ Mine(p) ELSE used
  /\ UNCHANGED <<driver, supports, present, disturbed, lives>>

Quiet == UNCHANGED <<modemVars, disturbed, lives, faults>>

-----------------------------------------------------------------------------
(* The beginning.                                                          *)

\* The modem is found by its vendor, once its network interface and its device are there.
qmidevice_detect == present

\* main finds the modem, or ends.  A process id comes round again, but not while its
\* bearer is being killed.
Start(p) ==
  /\ At(p, "off") /\ qmidevice_detect
  /\ lives < MaxLives /\ lives' = lives + 1
  /\ \A q \in Procs : ~(At(q, "kill") /\ proc[q].target = p)
  /\ \E l \in BOOLEAN :
       proc' = [q \in Procs |-> IF q = p THEN [Ended EXCEPT !.pc = "start", !.loops = l]
                               ELSE [proc[q] EXCEPT !.saw = @ \ {p}]]
  /\ UNCHANGED <<modemVars, disturbed, faults>>

\* __main_loop: new sockets; at the start, or after the sleep.
Sockets(p) ==
  /\ At(p, "start") \/ At(p, "sleep")
  /\ Becomes(p, [proc[p] EXCEPT !.pc = "search"])
  /\ Quiet

\* Tried without a pause and without a look at main_loop.
Search(p) ==
  /\ At(p, "search") /\ (proc[p].known \/ qmidevice_detect)
  /\ Becomes(p, [proc[p] EXCEPT !.pc = "scan", !.known = TRUE, !.checked = {}, !.saw = {}])
  /\ Quiet

\* is_brother_process, of the lower process ids in turn.
Brothers(p) == {q \in Procs : q < p} \ proc[p].checked
Look(p) ==
  /\ At(p, "scan")
  /\ \E q \in Brothers(p) :
       /\ \A r \in Brothers(p) : q <= r
       /\ Becomes(p, IF Holds(q)
                       THEN [proc[p] EXCEPT !.pc = "kill", !.target = q, !.saw = @ \cup {q}]
                       ELSE [proc[p] EXCEPT !.checked = @ \cup {q}])
  /\ Quiet

\* SIGTERM.  Before the sockets are made, and after they are closed, nobody is told.
Signalled(r) ==
  IF r.pc \in {"start", "sleep"} THEN [r EXCEPT !.loops = FALSE, !.lost = TRUE]
  ELSE [r EXCEPT !.loops = FALSE, !.told = TRUE]
Asked(q) == proc[q].told \/ proc[q].lost

\* From elsewhere.
Terminate(q) ==
  /\ ~At(q, "off") /\ ~proc[q].told
  /\ Fault
  /\ Becomes(q, Signalled(proc[q]))
  /\ UNCHANGED <<modemVars, disturbed, lives>>

\* From kill_brothers: for 15 seconds, then SIGKILL.  Told is a seeded fault.
Told(q) == At(q, "off") \/ proc[q].told
Gone(q) == At(q, "off")

KillBrother(p) ==
  /\ At(p, "kill")
  /\ LET q == proc[p].target IN
     \/ ~Gone(q) /\ Becomes(q, Signalled(proc[q])) /\ Quiet
     \/ ~Gone(q) /\ Asked(q) /\ Ends(q) /\ UNCHANGED faults
     \/ /\ Gone(q)
        /\ Becomes(p, [proc[p] EXCEPT !.pc = "scan", !.checked = @ \cup {q}, !.target = 0])
        /\ Quiet

Ready(p) == At(p, "scan") /\ Brothers(p) = {}
Opened(p, ids, phase) ==
  /\ Becomes(p, [proc[p] EXCEPT !.pc = phase, !.thread = "up", !.ids = ids, !.syncs = 0, !.checked = {}])
  /\ disturbed' = IF Others(p) = {} THEN disturbed \ {p} ELSE disturbed \cup Others(p) \cup {p}
  /\ UNCHANGED <<driver, supports, present, toModem, lives>>

\* QmiWwanThread opens the modem, or main ends.
OpenWwan(p) ==
  /\ driver = "wwan" /\ Ready(p)
  /\ IF present THEN Opened(p, proc[p].ids, "sync") /\ UNCHANGED used ELSE Ends(p)
  /\ UNCHANGED faults

\* GobiNetThread opens it once for each service.  Main ends without an id of WDS, not
\* when it could not be opened.
OpenGobi(p) ==
  /\ driver = "gobi" /\ Ready(p)
  /\ \E ids \in [1 .. Services -> {-1, 0, 1}] :
       /\ IF present THEN IF \A s \in 1 .. Services : ids[s] = 1 THEN UNCHANGED faults ELSE Fault
          ELSE (\A s \in 1 .. Services : ids[s] = -1) /\ UNCHANGED faults
       /\ IF ids[1] = 0 THEN Ends(p)
          ELSE Opened(p, ids, "sim") /\ used' = used \cup {<<p, s>> : s \in {t \in 1 .. Services : ids[t] = 1}}

-----------------------------------------------------------------------------
(* Requests for client ids.                                                *)

\* Without a good answer a service has no id.  Kept is a seeded fault.
Kept(r, rsp) == IF rsp = "ok" THEN 1 ELSE r.ids[r.svc]
Granted(r, rsp) == IF rsp = "ok" THEN 1 ELSE 0

Then(r, phase, s) == [r EXCEPT !.pc = phase, !.svc = s, !.sent = FALSE]

\* deinit of qmi_wwan: the ids are released one after the other, in some order.
Releasing(r) ==
  LET held == {s \in 1 .. Services : r.ids[s] # 0} IN
  IF held = {} THEN Then(r, "join", 0)
  ELSE Then(r, "release", CHOOSE s \in held : TRUE)

\* After ten synchronisations in vain the process ends.  Uncounted and OnceMore are seeded
\* faults.
Uncounted(r) == r.syncs
Counted(r) == r.syncs + 1
OnceMore(r) == Counted(r) > MaxSyncs
InVain(r) == Counted(r) >= MaxSyncs

\* The process after its request has come to rsp: an answer ("ok"), success without one
\* ("none"), or "fail".
After(r, rsp) ==
  CASE r.pc = "sync" ->
         IF rsp # "fail" THEN [Then(r, "get", 1) EXCEPT !.syncs = 0]
         ELSE IF ~InVain(r) THEN [Then(r, "sync", 0) EXCEPT !.syncs = Counted(r)]
         ELSE Then(r, "join", 0)
    [] r.pc = "get" ->
         LET t == [r EXCEPT !.ids[r.svc] = Granted(r, rsp)]
         IN IF r.svc < Services THEN Then(t, "get", r.svc + 1) ELSE Then(t, "sim", 0)
    [] r.pc = "release" -> Releasing([r EXCEPT !.ids[r.svc] = 0])

\* It is sent; without the reader thread it fails at once.
Call(p) ==
  LET r == proc[p] IN
  /\ r.pc \in Asking /\ ~r.sent
  /\ IF r.thread = "up" THEN Becomes(p, [r EXCEPT !.sent = TRUE]) ELSE Becomes(p, After(r, "fail"))
  /\ toModem' = IF r.thread = "up" /\ present
                  THEN Append(toModem, [own |-> p, msg |-> r.pc, svc |-> r.svc, awaited |-> TRUE])
                  ELSE toModem
  /\ UNCHANGED <<driver, supports, present, used, disturbed, lives, faults>>

\* It takes too long; or the process is told to stop, and the thread wakes main after a
\* second without a message.
Underway(p) == \E i \in DOMAIN toModem : toModem[i].own = p /\ toModem[i].awaited
GiveUp(p) ==
  /\ proc[p].sent
  /\ \/ proc[p].told /\ Becomes(p, After(proc[p], "none")) /\ UNCHANGED faults
     \/ Becomes(p, After(proc[p], "fail")) /\ IF Underway(p) THEN Fault ELSE UNCHANGED faults
  /\ toModem' = Unawaited(p)
  /\ UNCHANGED <<driver, supports, present, used, disturbed, lives>>

-----------------------------------------------------------------------------
(* The other requests before the loop, each in one step.                   *)

CanAsk(p) == proc[p].thread = "up" /\ proc[p].ids[Services] = 1 /\ present
Reaches(p) == CanAsk(p) /\ UNCHANGED faults
Fails(p) == IF CanAsk(p) /\ ~proc[p].told /\ Others(p) = {} THEN Fault ELSE UNCHANGED faults

\* requestGetSIMStatus, until the modem supports it.  When it fails SIMStatus is what it
\* was, at first not initialised; the name of SIM_BAD is read past the end of a table.
SimStatus(p) ==
  /\ At(p, "sim")
  /\ (Reaches(p) /\ supports) \/ Fails(p)
  /\ Becomes(p, Then(proc[p], "setup", 0))
  /\ UNCHANGED <<modemVars, disturbed, lives>>

BadSim(p) == At(p, "sim") /\ CanAsk(p) /\ supports /\ Fault /\ Ends(p)

\* The PIN if the SIM wants it, the profile, the registration.
Setup(p) ==
  /\ At(p, "setup") /\ Becomes(p, Then(proc[p], "loop", 0))
  /\ Quiet

-----------------------------------------------------------------------------
(* The ways out of the loop.                                               *)

\* SIG_EVENT_STOP, and deinit.  InLoop is a seeded fault.
InLoop(p) == proc[p].told /\ proc[p].loops
Read(p) == proc[p].told
Stop(p) ==
  /\ At(p, "loop") /\ Read(p)
  /\ IF driver = "gobi"
       THEN Becomes(p, [proc[p] EXCEPT !.pc = "join", !.ids = NoIds]) /\ used' = used \ Mine(p)
       ELSE Becomes(p, Releasing(proc[p])) /\ UNCHANGED used
  /\ UNCHANGED <<driver, supports, present, toModem, disturbed, lives, faults>>

\* The thread has ended: main ends too, or begins anew.
Disconnected(p) ==
  /\ At(p, "loop") /\ proc[p].thread = "over"
  /\ Becomes(p, Then(proc[p], IF proc[p].loops THEN "rejoin" ELSE "join", 0))
  /\ Quiet

\* What is in the old sockets is not read any more.
Forgets(r) == [r EXCEPT !.thread = "none", !.lost = @ \/ r.told, !.told = FALSE, !.reset = FALSE]
Rejoin(p) ==
  /\ At(p, "rejoin")
  /\ Becomes(p, [Forgets(proc[p]) EXCEPT !.pc = "search", !.known = FALSE])
  /\ Quiet

\* MODEM_REPORT_RESET_EVENT: the sockets are closed, which ends the thread.
ModemReset(p) ==
  /\ At(p, "loop") /\ proc[p].reset
  /\ Becomes(p, [Forgets(proc[p]) EXCEPT !.pc = "sleep"])
  /\ Quiet

\* The thread quits, and then the process.
Join(p) == At(p, "join") /\ Ends(p) /\ UNCHANGED faults

Kill(p) == ~At(p, "off") /\ Fault /\ Ends(p)

\* The modem is gone: the reader thread ends, waking main.
ThreadEnds(p) ==
  /\ Holds(p) /\ ~present
  /\ LET r == [proc[p] EXCEPT !.thread = "over", !.ids = IF driver = "gobi" THEN NoIds ELSE @]
     IN Becomes(p, IF r.sent THEN After(r, "none") ELSE r)
  /\ Quiet

-----------------------------------------------------------------------------
(* The modem (external).                                                   *)

Now == Head(toModem)
\* Of two processes that hold it, either may read the answer.
Answer(rsp) ==
  \/ Becomes(Now.own, IF Now.awaited THEN After(proc[Now.own], rsp) ELSE proc[Now.own])
  \/ Others(Now.own) # {} /\ UNCHANGED proc

Serve ==
  /\ toModem # <<>> /\ toModem' = Tail(toModem)
  /\ LET id == <<Now.own, Now.svc>> IN
     \/ Now.msg = "sync" /\ used' = {} /\ Answer("ok") /\ UNCHANGED faults
     \/ Now.msg = "get" /\ used' = used \cup {id} /\ Answer("ok") /\ UNCHANGED faults
     \/ Now.msg = "get" /\ UNCHANGED used /\ Answer("none") /\ Fault
     \/ Now.msg = "release" /\ used' = used \ {id} /\ Answer("ok") /\ UNCHANGED faults
  /\ UNCHANGED <<driver, supports, present, disturbed, lives>>

Unplug ==
  /\ present /\ Fault
  /\ present' = FALSE /\ toModem' = <<>> /\ used' = {}
  /\ UNCHANGED <<driver, supports, proc, disturbed, lives>>

\* The threads have seen the hang-up by then.
Plug ==
  /\ ~present /\ \A p \in Procs : ~Holds(p)
  /\ present' = TRUE
  /\ UNCHANGED <<driver, supports, toModem, used, proc, disturbed, lives, faults>>

\* It starts anew and says so, to one of the processes that read from it.
Reset ==
  /\ driver = "wwan" /\ present /\ Fault
  /\ toModem' = <<>> /\ used' = {}
  /\ LET holders == {p \in Procs : Holds(p)} IN
     /\ disturbed' = disturbed \cup holders
     /\ \E p \in holders : Becomes(p, [proc[p] EXCEPT !.reset = TRUE])
  /\ UNCHANGED <<driver, supports, present, lives>>

-----------------------------------------------------------------------------
Begins(p)   == Sockets(p) \/ Search(p) \/ Look(p) \/ KillBrother(p) \/ OpenWwan(p) \/ OpenGobi(p)
Requests(p) == Call(p) \/ GiveUp(p) \/ SimStatus(p) \/ BadSim(p) \/ Setup(p)
Leaves(p)   == Stop(p) \/ Disconnected(p) \/ Rejoin(p) \/ ModemReset(p) \/ Join(p)
Main(p)     == Begins(p) \/ Requests(p) \/ Leaves(p)

Modem == Serve \/ Unplug \/ Plug \/ Reset

\* It looks for the modem again, asks for the SIM again, has nothing to do in the loop;
\* or no process is left to start.
Waits(p) == (At(p, "search") /\ ~qmidevice_detect) \/ (At(p, "sim") /\ ~supports)
Again ==
  /\ \/ \E p \in Procs : At(p, "loop") \/ Waits(p)
     \/ lives = MaxLives /\ \A p \in Procs : At(p, "off")
  /\ UNCHANGED vars

Next ==
  \/ \E p \in Procs : Start(p) \/ Main(p) \/ ThreadEnds(p) \/ Terminate(p) \/ Kill(p)
  \/ Modem \/ Again

Spec == Init /\ [][Next]_vars

\* Processes run, the reader thread sees a hang-up, the modem serves requests, and
\* SIGKILL comes.
FairSpec ==
  /\ Spec
  /\ WF_vars(Serve)
  /\ \A p \in Procs : WF_vars(Main(p)) /\ WF_vars(ThreadEnds(p))

-----------------------------------------------------------------------------
(* Properties.                                                             *)

\* kill_brothers takes the modem over: a process it found to hold the modem does not
\* hold it when this one has it (main.c:241-268).  Processes that start together, or
\* wake from the sleep after a reset, do not find each other.
TakenOver ==
  \A p \in Procs : Holds(p) => \A q \in proc[p].saw : ~Holds(q)

\* The client ids a process works with are ones the modem knows as its own: whatever
\* other processes left behind, released late or asked for before they were killed, the
\* synchronisation comes after it and the grants after that (QmiWwanCM.c:157-204).
IdsAreKnown ==
  \A p \in Procs : \A s \in 1 .. Services :
    At(p, "loop") /\ Holds(p) /\ present /\ proc[p].ids[s] = 1 /\ p \notin disturbed => <<p, s>> \in used

\* A process that is told to stop ends, wherever it is and whether or not the modem
\* answers; not while it looks for a modem that is not there or one that does not
\* support the query of the SIM, nor when the signal is lost with the sockets.
StopsWhenTold ==
  \A p \in Procs : proc[p].told ~> (At(p, "off") \/ proc[p].lost \/ Waits(p))

\* The start-up ends, in the loop or with the process.
StartupEnds ==
  \A p \in Procs : At(p, "start") ~> (At(p, "loop") \/ At(p, "off") \/ Waits(p))
=============================================================================
