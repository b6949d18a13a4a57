--------------------------- MODULE QmiConnection ---------------------------
(***************************************************************************)
(* The connection manager quectel-CM in QMI mode: the main loop of main.c  *)
(* and the requests of QMIThread.c it makes, against a modem whose network *)
(* attachment, data calls and addresses change under it.                   *)
(*                                                                         *)
(* A request is one step, at the moment the modem serves it; anything may  *)
(* happen between two requests of a handler.  A request may also fail      *)
(* (error, timeout), and once the process is told to stop or the modem is  *)
(* gone it may be aborted: QmiThreadRecvQMI(NULL) wakes the main thread,   *)
(* which sees success without an answer.  The messages of the two socket   *)
(* pairs are kept in order; what the reader thread does between modem and  *)
(* socket is not split.  An address is a number, 0 stands for none.  Of    *)
(* the back-off only whether SetupCallAllowTime is over is kept.           *)
(***************************************************************************)
EXTENDS Integers, Sequences

CONSTANTS
  Families,     \* the enabled ones of "v4" and "v6"
  Addresses,    \* the addresses the network gives out
  MaxSignals,   \* bound on the signals not yet read when the timer expires or
                \* the modem reports its registration, for TLC
  MaxFaults     \* bound on changes of the network and failed requests, for TLC

AllFamilies == {"v4", "v6"}

ASSUME FamiliesAssumption  == Families \subseteq AllFamilies /\ Families # {}
ASSUME AddressesAssumption == Addresses \subseteq Nat \ {0}
ASSUME BoundsAssumption    == MaxSignals \in Nat /\ MaxFaults \in Nat

VARIABLES
  attached,  \* whether the modem is attached to the packet network
  call,      \* call[f]: the address of the modem's data call
  events,    \* qmidevice_control_fd: from the reader thread to main
  signals,   \* signal_control_fd: from main and the signal handlers to main
  pc,        \* where main is
  ready,     \* poll also reported an event
  todo,      \* the families the handler has still to do requests for
  ps,        \* PSAttachedState = 1
  status,    \* IPv4ConnectionStatus, IPv6ConnectionStatus
  held,      \* WdsConnectionIPv4Handle # 0, WdsConnectionIPv6Handle # 0
  profile,   \* profile->ipv4.Address, profile->ipv6.Address
  link,      \* s_link
  iface,     \* iface[f]: the address on the network interface
  aged,      \* history: the families a call was set up for since the interface
             \* last got their address, or none
  kept,      \* history: a check has left the interface up under a status that
             \* is neither up nor down, and it was not taken down since
  allowed,   \* SetupCallAllowTime is over
  armed,     \* alarm() is running
  quitting,  \* told to stop, or the modem is gone: requests may be aborted
  faults

modemVars  == <<attached, call>>
socketVars == <<events, signals>>
callVars   == <<status, held, profile>>
linkVars   == <<link, iface, aged, kept>>
timeVars   == <<allowed, armed>>
vars == <<modemVars, socketVars, pc, ready, todo, ps, callVars, linkVars, timeVars,
          quitting, faults>>

Phases == {"boot", "poll", "event", "registration", "setup", "getip", "query", "checkip",
           "mismatch", "stop", "sleep", "down"}

TypeOK ==
  /\ attached \in BOOLEAN
  /\ call \in [AllFamilies -> Addresses \cup {0}]
  /\ events \in Seq({"nas", "wds", "reset", "gone"})
  /\ signals \in Seq({"START", "CHECK", "STOP"})
  /\ pc \in Phases
  /\ ready \in BOOLEAN
  /\ todo \subseteq Families
  /\ ps \in BOOLEAN
  /\ status \in [AllFamilies -> {"unknown", "connected", "disconnected"}]
  /\ held \in [AllFamilies -> BOOLEAN]
  /\ profile \in [AllFamilies -> Addresses \cup {0}]
  /\ link \in {-1, 0, 1}
  /\ iface \in [AllFamilies -> Addresses \cup {0}]
  /\ aged \subseteq AllFamilies
  /\ kept \in BOOLEAN
  /\ allowed \in BOOLEAN
  /\ armed \in BOOLEAN
  /\ quitting \in BOOLEAN
  /\ faults \in 0 .. MaxFaults

None == [f \in AllFamilies |-> 0]

\* A new process; its first QMICTL_SYNC has made the modem drop the calls of
\* earlier clients.
Boot ==
  /\ call' = None
  /\ events' = <<>> /\ signals' = <<>>
  /\ pc' = "boot" /\ ready' = FALSE /\ todo' = {}
  /\ status' = [f \in AllFamilies |-> "unknown"]
  /\ held' = [f \in AllFamilies |-> FALSE]
  /\ profile' = None
  /\ link' = -1
  /\ allowed' = TRUE /\ armed' = FALSE
  /\ quitting' = FALSE

Init ==
  /\ attached \in BOOLEAN
  /\ call = None
  /\ events = <<>> /\ signals = <<>>
  /\ pc = "boot" /\ ready = FALSE /\ todo = {}
  /\ ps \in BOOLEAN
  /\ status = [f \in AllFamilies |-> "unknown"]
  /\ held = [f \in AllFamilies |-> FALSE]
  /\ profile = None
  /\ link = -1 /\ iface = None /\ aged = {} /\ kept = FALSE
  /\ allowed = TRUE /\ armed = FALSE
  /\ quitting = FALSE
  /\ faults = 0

Fault == faults < MaxFaults /\ faults' = faults + 1

-----------------------------------------------------------------------------
(* The modem, the network, and the signals of the process.                 *)

Running == pc # "down"
Gone    == \E i \in DOMAIN events : events[i] = "gone"

\* The reader thread passes an indication on, in order.
Tell(e) == events' = IF Running /\ pc # "sleep" /\ ~Gone THEN Append(events, e) ELSE events

\* The network drops a call.
Drop(f) ==
  /\ call[f] # 0
  /\ Fault
  /\ call' = [call EXCEPT ![f] = 0]
  /\ Tell("wds")
  /\ UNCHANGED <<attached, signals, pc, ready, todo, ps, callVars, linkVars, timeVars, quitting>>

\* It gives the call another address; the modem does not say so.  (Not the one
\* the profile has: a call that gets it back, when DHCP has seen another, passes
\* every check.)
Readdress(f) ==
  /\ call[f] # 0
  /\ Fault
  /\ \E a \in Addresses \ {call[f], profile[f]} : call' = [call EXCEPT ![f] = a]
  /\ UNCHANGED <<attached, socketVars, pc, ready, todo, ps, callVars, linkVars, timeVars, quitting>>

\* The modem attaches; or it detaches, and its calls are gone.
AttachMoves ==
  /\ Fault
  /\ attached' = ~attached
  /\ call' = IF attached THEN None ELSE call
  /\ Tell("nas")
  /\ UNCHANGED <<signals, pc, ready, todo, ps, callVars, linkVars, timeVars, quitting>>

\* The modem reports its registration unasked (signal, cell or technology moved).
Indicate ==
  /\ Running /\ pc # "sleep" /\ events = <<>> /\ Len(signals) < MaxSignals
  /\ events' = <<"nas">>
  /\ UNCHANGED <<modemVars, signals, pc, ready, todo, ps, callVars, linkVars, timeVars,
                 quitting, faults>>

\* QMICTL_REVOKE_CLIENT_ID_IND: the modem has reset itself.
ModemResets ==
  /\ Running /\ pc # "sleep" /\ ~Gone
  /\ Fault
  /\ call' = None
  /\ Tell("reset")
  /\ UNCHANGED <<attached, signals, pc, ready, todo, ps, callVars, linkVars, timeVars, quitting>>

\* The modem leaves the bus: the reader thread ends, waking main.
Unplug ==
  /\ Running /\ pc # "sleep" /\ ~Gone
  /\ Fault
  /\ call' = None
  /\ Tell("gone")
  /\ quitting' = TRUE
  /\ UNCHANGED <<attached, signals, pc, ready, todo, ps, callVars, linkVars, timeVars>>

\* SIGALRM.  While main sleeps off a reset, the sockets are closed.
Alarm ==
  /\ armed /\ Running /\ Len(signals) < MaxSignals
  /\ armed' = FALSE
  /\ signals' = IF pc = "sleep" THEN signals ELSE Append(signals, "START")
  /\ UNCHANGED <<modemVars, events, pc, ready, todo, ps, callVars, linkVars, allowed,
                 quitting, faults>>

\* SIGTERM: main is told, and the reader thread, lest main waits for an answer.
\* (In the sleep after a reset nobody hears it.)
Terminate ==
  /\ Running /\ pc # "sleep" /\ ~quitting
  /\ Fault
  /\ signals' = Append(signals, "STOP")
  /\ quitting' = TRUE
  /\ UNCHANGED <<modemVars, events, pc, ready, todo, ps, callVars, linkVars, timeVars>>

\* SIGKILL.
Kill ==
  /\ Running
  /\ Fault
  /\ pc' = "down"
  /\ UNCHANGED <<modemVars, socketVars, ready, todo, ps, callVars, linkVars, timeVars, quitting>>

\* wwan.service starts the process again.
Restart ==
  /\ pc = "down"
  /\ Boot
  /\ ps' \in BOOLEAN
  /\ UNCHANGED <<attached, iface, aged, kept, faults>>

TimePasses ==
  /\ ~allowed
  /\ allowed' = TRUE
  /\ UNCHANGED <<modemVars, socketVars, pc, ready, todo, ps, callVars, linkVars, armed,
                 quitting, faults>>

-----------------------------------------------------------------------------
(* What becomes of a request.                                              *)

\* It fails: at no cost if the modem is gone or cannot serve it now.
Fails(unable) == IF unable \/ Gone THEN UNCHANGED faults ELSE Fault

\* It is aborted: success, and no answer.
Aborted == quitting /\ UNCHANGED faults

\* The family whose turn it is: IPv4 first.
Current == IF "v4" \in todo THEN "v4" ELSE "v6"

\* main goes on to the event poll reported with the signal, or polls again.
Done ==
  /\ pc' = IF ready THEN "event" ELSE "poll"
  /\ ready' = FALSE
  /\ todo' = {}

\* requestDeactivateDefaultPDP: nothing to do without a handle.
Deactivate(f) ==
  \/ /\ held[f] /\ ~Gone /\ call[f] # 0
     /\ call' = [call EXCEPT ![f] = 0]
     /\ held' = [held EXCEPT ![f] = FALSE]
     /\ Tell("wds")
     /\ UNCHANGED faults
  \/ /\ IF held[f] THEN Fails(call[f] = 0) \/ Aborted ELSE UNCHANGED faults
     /\ UNCHANGED <<call, held, events>>

\* usbnet_link_change.  Coming up, the interface gets its IPv4 address by DHCP,
\* from the modem, and its IPv6 address from the profile; each only if the
\* profile has one.
Configured ==
  [f \in AllFamilies |-> IF profile[f] = 0 THEN iface[f] ELSE IF f = "v4" THEN call[f] ELSE profile[f]]
LinkChange(l) ==
  /\ link' = l
  /\ iface' = IF l = link THEN iface ELSE IF l = 1 THEN Configured ELSE None
  /\ aged' = IF l = link THEN aged ELSE IF l = 1 THEN {f \in aged : profile[f] = 0} ELSE {}
  /\ kept' = (l = link /\ l = 1 /\ (kept \/ \E f \in Families : status[f] = "unknown"))

-----------------------------------------------------------------------------
(* SIG_EVENT_START.                                                        *)

\* poll has reported a signal, and main reads it: alarm(0).
Read(s) ==
  /\ pc = "poll" /\ signals # <<>> /\ Head(signals) = s
  /\ signals' = Tail(signals)

\* Back to poll, or to the event that was reported too.
Ignored ==
  /\ pc' = IF events # <<>> THEN "event" ELSE "poll"
  /\ UNCHANGED <<ready, todo>>

\* The families to set up.  EveryFamily is a seeded fault.
EveryFamily == {f \in AllFamilies : status[f] # "connected"}
Disconnected == {f \in Families : status[f] # "connected"}

ReadStart ==
  /\ Read("START")
  /\ \/ ps /\ allowed /\ armed' = FALSE /\ pc' = "setup"
        /\ todo' = Disconnected /\ ready' = (events # <<>>)
     \/ ps /\ ~allowed /\ armed' = TRUE /\ Ignored
     \/ ~ps /\ armed' = FALSE /\ Ignored
  /\ UNCHANGED <<modemVars, events, ps, callVars, linkVars, allowed, quitting, faults>>

\* requestSetupDataCall.  The call may come up after the request has timed out.
Setup(f) ==
  /\ pc = "setup" /\ todo # {} /\ f = Current
  /\ \/ /\ attached /\ ~Gone /\ call[f] = 0
        /\ \E a \in Addresses : call' = [call EXCEPT ![f] = a]
        /\ aged' = aged \cup {f}
        /\ Tell("wds")
        /\ \/ held' = [held EXCEPT ![f] = TRUE] /\ pc' = "getip" /\ UNCHANGED <<todo, faults>>
           \/ UNCHANGED held /\ pc' = "getip" /\ UNCHANGED todo /\ Aborted
           \/ UNCHANGED <<held, pc>> /\ todo' = todo \ {f} /\ Fault
     \/ /\ UNCHANGED <<call, events, held, aged>>
        /\ \/ UNCHANGED pc /\ todo' = todo \ {f} /\ Fails(~attached \/ call[f] # 0)
           \/ pc' = "getip" /\ UNCHANGED todo /\ Aborted
  /\ UNCHANGED <<attached, signals, ready, ps, status, profile, link, iface, kept, timeVars, quitting>>

\* requestGetIPAddress: the profile is cleared first.  Without a handle it
\* succeeds at that.
GetIp(f) ==
  /\ pc = "getip" /\ f = Current
  /\ \/ /\ held[f] /\ ~Gone /\ call[f] # 0
        /\ profile' = [profile EXCEPT ![f] = call[f]]
        /\ status' = [status EXCEPT ![f] = "connected"]
        /\ UNCHANGED faults
     \/ /\ profile' = [profile EXCEPT ![f] = 0]
        /\ \/ held[f] /\ Fails(call[f] = 0) /\ UNCHANGED status
           \/ /\ status' = [status EXCEPT ![f] = "connected"]
              /\ IF held[f] THEN Aborted ELSE UNCHANGED faults
  /\ pc' = "setup" /\ todo' = todo \ {f}
  /\ UNCHANGED <<modemVars, socketVars, ready, ps, held, linkVars, timeVars, quitting>>

\* Some family is still down: try again after the back-off.
Dialed ==
  /\ pc = "setup" /\ todo = {}
  /\ IF \E f \in Families : status[f] = "disconnected"
       THEN allowed' = FALSE /\ armed' = TRUE
       ELSE /\ allowed' = (allowed \/ \E f \in AllFamilies : status[f] = "connected")
            /\ UNCHANGED armed
  /\ Done
  /\ UNCHANGED <<modemVars, socketVars, ps, callVars, linkVars, quitting, faults>>

-----------------------------------------------------------------------------
(* SIG_EVENT_CHECK.                                                        *)

Silence == pc = "poll" /\ signals = <<>> /\ events = <<>>

\* poll has waited 15 seconds for nothing.
Idle ==
  /\ Silence
  /\ signals' = <<"CHECK">>
  /\ UNCHANGED <<modemVars, events, pc, ready, todo, ps, callVars, linkVars, timeVars,
                 quitting, faults>>

ReadCheck ==
  /\ Read("CHECK")
  /\ armed' = FALSE
  /\ pc' = "query" /\ todo' = Families /\ ready' = (events # <<>>)
  /\ status' = [f \in AllFamilies |-> IF f \in Families THEN status[f] ELSE "disconnected"]
  /\ UNCHANGED <<modemVars, events, ps, held, profile, linkVars, allowed, quitting, faults>>

\* requestQueryDataCall.  The modem may say of a call that it has to be set up
\* anew, or that it is suspended, authenticating or of unknown status.
Query(f) ==
  /\ pc = "query" /\ todo # {} /\ f = Current
  /\ \/ /\ ~Gone
        /\ status' = [status EXCEPT ![f] = IF call[f] # 0 THEN "connected" ELSE "disconnected"]
        /\ held' = [held EXCEPT ![f] = @ /\ call[f] # 0]
        /\ UNCHANGED faults
     \/ /\ ~Gone /\ call[f] # 0 /\ Fault
        /\ status' = [status EXCEPT ![f] = "disconnected"]
        /\ held' = [held EXCEPT ![f] = FALSE]
     \/ /\ ~Gone /\ call[f] # 0 /\ Fault
        /\ status' = [status EXCEPT ![f] = "unknown"]
        /\ UNCHANGED held
     \/ UNCHANGED <<status, held>> /\ (Fails(FALSE) \/ Aborted)
  /\ IF f = "v4" /\ status'[f] = "connected"
       THEN pc' = "checkip" /\ UNCHANGED todo
       ELSE todo' = todo \ {f} /\ UNCHANGED pc
  /\ UNCHANGED <<modemVars, socketVars, ready, ps, profile, linkVars, timeVars, quitting>>

\* check_ipv4_address: whether the address just read is that of the profile.
\* Unchecked is a seeded fault.
Unchecked(a) == TRUE
Same(a) == a = profile["v4"]

CheckIp ==
  /\ pc = "checkip"
  /\ \E same \in BOOLEAN :
       /\ \/ held["v4"] /\ ~Gone /\ call["v4"] # 0 /\ same = Same(call["v4"]) /\ UNCHANGED faults
          \/ held["v4"] /\ same = FALSE /\ Fails(call["v4"] = 0)
          \/ held["v4"] /\ same = Same(0) /\ Aborted
          \/ ~held["v4"] /\ same = Same(0) /\ UNCHANGED faults
       /\ pc' = IF same THEN "query" ELSE "mismatch"
       /\ todo' = IF same THEN todo \ {"v4"} ELSE todo
  /\ UNCHANGED <<modemVars, socketVars, ready, ps, callVars, linkVars, timeVars, quitting>>

Mismatch ==
  /\ pc = "mismatch"
  /\ Deactivate("v4")
  /\ status' = [status EXCEPT !["v4"] = "disconnected"]
  /\ pc' = "query" /\ todo' = todo \ {"v4"}
  /\ UNCHANGED <<attached, signals, ready, ps, profile, linkVars, timeVars, quitting>>

\* The link CHECK asks for.  NeverDown is a seeded fault.
Up == \E f \in AllFamilies : status[f] = "connected"
NeverDown == IF Up THEN 1 ELSE link
LinkWanted ==
  IF \A f \in AllFamilies : status[f] = "disconnected" THEN 0
  ELSE IF Up THEN 1 ELSE link

Checked ==
  /\ pc = "query" /\ todo = {}
  /\ LinkChange(LinkWanted)
  /\ signals' = IF \E f \in Families : status[f] = "disconnected"
                  THEN Append(signals, "START") ELSE signals
  /\ Done
  /\ UNCHANGED <<modemVars, events, ps, callVars, timeVars, quitting, faults>>

-----------------------------------------------------------------------------
(* SIG_EVENT_STOP, and the events of the reader thread.                    *)

ReadStop ==
  /\ Read("STOP")
  /\ armed' = FALSE
  /\ pc' = "stop" /\ todo' = {f \in Families : status[f] = "connected"}
  /\ UNCHANGED <<modemVars, events, ready, ps, callVars, linkVars, allowed, quitting, faults>>

StopCall(f) ==
  /\ pc = "stop" /\ todo # {} /\ f = Current
  /\ Deactivate(f)
  /\ todo' = todo \ {f}
  /\ UNCHANGED <<attached, signals, pc, ready, ps, status, profile, linkVars, timeVars, quitting>>

\* deinit releases the clients, and with them their calls.
Quit ==
  /\ pc = "stop" /\ todo = {}
  /\ LinkChange(0)
  /\ call' = None
  /\ pc' = "down"
  /\ UNCHANGED <<attached, socketVars, ready, todo, ps, callVars, timeVars, quitting, faults>>

Event(e) ==
  /\ events # <<>> /\ Head(events) = e
  /\ pc = "event" \/ (pc = "poll" /\ signals = <<>>)
  /\ events' = Tail(events)

NetworkMoved ==
  /\ Event("nas")
  /\ pc' = "registration"
  /\ UNCHANGED <<modemVars, signals, ready, todo, ps, callVars, linkVars, timeVars, quitting, faults>>

\* requestRegistrationState: the variant for the older modems leaves
\* PSAttachedState as it was when the request fails, the other clears it.
Registration ==
  \/ ~Gone /\ ps' = attached /\ UNCHANGED faults
  \/ ps' \in {FALSE, ps} /\ (Fails(FALSE) \/ Aborted)

Registered ==
  /\ pc = "registration"
  /\ Registration
  /\ signals' = IF ps' /\ \E f \in Families : status[f] = "disconnected"
                  THEN Append(signals, "START") ELSE signals
  /\ allowed' = (allowed \/ ~ps')
  /\ pc' = "poll"
  /\ UNCHANGED <<modemVars, events, ready, todo, callVars, linkVars, armed, quitting>>

\* main starts, or starts over, with the registration and a check.
Started ==
  /\ pc = "boot"
  /\ Registration
  /\ signals' = Append(signals, "CHECK")
  /\ pc' = "poll"
  /\ UNCHANGED <<modemVars, events, ready, todo, callVars, linkVars, timeVars, quitting>>

CallMoved ==
  /\ Event("wds")
  /\ allowed' = (allowed /\ \A f \in AllFamilies : status[f] # "connected")
  /\ signals' = Append(signals, "CHECK")
  /\ pc' = "poll"
  /\ UNCHANGED <<modemVars, ready, todo, ps, callVars, linkVars, armed, quitting, faults>>

\* MODEM_REPORT_RESET_EVENT: s_link is cleared, the interface left alone, the
\* sockets are closed; a SIGTERM among
\* what they held is lost; what main knows of its calls stays.
ModemReset ==
  /\ events # <<>> /\ Head(events) = "reset"
  /\ pc = "event" \/ (pc = "poll" /\ signals = <<>>)
  /\ link' = 0
  /\ events' = <<>> /\ signals' = <<>>
  /\ pc' = "sleep"
  /\ quitting' = FALSE
  /\ UNCHANGED <<modemVars, ready, todo, ps, callVars, iface, aged, kept, timeVars, faults>>

\* 20 seconds later: a new reader thread, and qmi_ops->init, which may fail.
Woken ==
  /\ pc = "sleep"
  /\ \/ pc' = "boot" /\ call' = None /\ UNCHANGED faults
     \/ pc' = "down" /\ UNCHANGED call /\ Fault
  /\ UNCHANGED <<attached, socketVars, ready, todo, ps, callVars, linkVars, timeVars, quitting>>

ModemGone ==
  /\ Event("gone")
  /\ LinkChange(0)
  /\ pc' = "down"
  /\ UNCHANGED <<modemVars, signals, ready, todo, ps, callVars, timeVars, quitting, faults>>

-----------------------------------------------------------------------------
Work ==
  \/ ReadStart \/ Dialed \/ ReadCheck \/ CheckIp \/ Mismatch \/ Checked
  \/ ReadStop \/ Quit \/ NetworkMoved \/ Registered \/ Started \/ CallMoved
  \/ ModemReset \/ Woken \/ ModemGone
  \/ \E f \in Families : Setup(f) \/ GetIp(f) \/ Query(f) \/ StopCall(f)

Around ==
  \/ \E f \in Families : Drop(f) \/ Readdress(f)
  \/ AttachMoves \/ Indicate \/ ModemResets \/ Unplug
  \/ Alarm \/ Terminate \/ Kill \/ Restart \/ TimePasses

Next == Work \/ Idle \/ Around

Spec == Init /\ [][Next]_vars

\* main never stops working, the timers run, systemd restarts the process.  Of
\* the modem: again and again it is silent, for 15 seconds, and again and again
\* it reports its registration.  (While it is never silent, no check runs.)
FairSpec ==
  /\ Spec /\ []<>Silence
  /\ WF_vars(Work) /\ WF_vars(Alarm) /\ WF_vars(TimePasses) /\ WF_vars(Restart)
  /\ SF_vars(Idle) /\ SF_vars(Indicate)

-----------------------------------------------------------------------------
\* With one family enabled, the interface main has up and has an address for is
\* not left with that of an earlier call.
AddressIsNew ==
  Families # AllFamilies =>
    \A f \in Families : link = 1 /\ profile[f] # 0 => f \notin aged

\* Through drops, redials and restarts the address of each call is put on the
\* interface after the call was set up, also when the modem reset itself and
\* s_link alone was cleared (main.c:585-590, 653-671).  Not after a check whose
\* status is neither up nor down (kept): it leaves s_link as it was, and a START
\* still queued then dials under an interface that is up.
NoStaleAddress == ~kept => AddressIsNew

\* Once the modem stays attached and faults end, the interface is up with the
\* address of the call, for good: through dropped and readdressed calls, failed
\* requests, resets, restarts, and whatever they left in the queues, the
\* handles and the profile (QMIThread.c:1706-1865, main.c:460-673).  Not covered
\* are a call that came up after its request had timed out, which main has no
\* handle to read the address of or to end, until the modem drops it; and one set
\* up under an interface that was kept up, until that goes down.
Reachable(f) == (call[f] # 0 => held[f]) /\ ~(kept /\ f \in aged)
UplinkComesUp ==
  <>[](attached /\ \A f \in Families : Reachable(f)) => <>[](\A f \in Families : call[f] # 0 /\ iface[f] = call[f])
=============================================================================
