--------------------------- MODULE MbimConnection ---------------------------
(***************************************************************************)
(* The connection manager quectel-CM in MBIM mode (mbim-cm.c): the loop of *)
(* mbim_main, the thread that reads the modem, and the modem.              *)
(*                                                                         *)
(* A request of main is four steps: it is written, the modem serves it,    *)
(* the reader thread hands the answer over, main takes it and only then    *)
(* stores what it says; indications the reader stores itself may come in   *)
(* between.  What the reader knows of the network and the activation state *)
(* is shared without a lock, and the condition variable main sleeps on     *)
(* remembers no signal.                                                    *)
(*                                                                         *)
(* Abstracted: the layout of the messages, the texts logged, the old       *)
(* copies of the states (they are only logged), IPv6 beside IPv4 (a        *)
(* session has one address), and time: a timed wait may end at any moment. *)
(***************************************************************************)
EXTENDS Naturals, Sequences

CONSTANTS
  Addresses,   \* the addresses the network gives out
  MaxId,       \* transaction ids run from 1 to MaxId and round again, for TLC
  MaxFaults    \* bound on what the network, the modem and signals do, for TLC

ASSUME BoundsAssumption == MaxId \in Nat \ {0, 1, 2} /\ MaxFaults \in Nat

\* What main asks for before it connects, in this order.
Stages == <<"sim", "reg", "ps">>
Order  == Stages \o <<"query", "connect">>

StageNames  == {"sim", "reg", "ps"}
Commands    == StageNames \cup {"caps", "attach", "query", "connect", "ipconf", "xconnect"}
Kinds       == Commands \cup {"open", "close"}
Activations == {"unknown", "activated", "activating", "deactivated"}
Refused     == "refused"    \* a status other than success, and no information
NotOpened   == "notopened"  \* MBIM_FUNCTION_ERROR_MSG, MBIM_ERROR_NOT_OPENED
None        == "none"
Junk        == "junk"       \* an address read from beyond the end of a message
Found       == {"yes", "no", "other"}
Values      == Found \cup Activations \cup Addresses \cup {Refused, NotOpened}

ASSUME AddressesAssumption ==
  Addresses \cap (Found \cup Activations \cup {Refused, NotOpened, None, Junk}) = {}

VARIABLES
  gone,      \* the modem has left the bus
  opened,    \* the modem takes commands
  level,     \* 0: no SIM, 1: not registered, 2: detached, 3: attached
  session,   \* the address of its session
  dialing,   \* it is activating one
  inbox,     \* requests it has not served
  wire,      \* messages the reader thread has not handled
  reader,    \* mbim_read_thread; "gone" is read_tid = 0
  quit,      \* mbim_quit
  known,     \* ReadyState, RegisterState, PacketServiceState
  act,       \* ActivationState
  open,      \* mbim_open_state
  tid,       \* TransactionId
  pc,        \* where main is: a request, or a phase of the loop
  step,      \* how far the request is
  rsp,       \* mbim_pResponse, then what main does with it
  soon,      \* wait_time is 30 seconds, not a day
  iface,     \* the address on the interface
  missed,    \* history: why main may not know the address, since it asked last:
             \* the activation was told in an indication, which an answer may have
             \* overtaken; it was found by the query; the address was refused
  faults

modemVars  == <<gone, opened, level, session, dialing>>
readerVars == <<wire, reader, quit>>
stateVars  == <<known, act>>
callVars   == <<tid, step, rsp>>
vars == <<modemVars, inbox, readerVars, stateVars, open, pc, callVars, soon, iface, missed, faults>>

Message == [kind : Kinds, id : 1 .. MaxId, val : Values, live : BOOLEAN]
Notice  == [kind : StageNames \cup {"act"}, id : {0}, val : Values, live : {FALSE}]
Request == [kind : Kinds, id : 1 .. MaxId, live : BOOLEAN]
Excuses == {"told", "overtaken", "found", "refused"}
NoAnswer == [kind |-> None, id |-> 0, val |-> None, live |-> FALSE]

TypeOK ==
  /\ gone \in BOOLEAN /\ opened \in BOOLEAN /\ dialing \in BOOLEAN
  /\ level \in 0 .. 3
  /\ session \in Addresses \cup {None}
  /\ inbox \in Seq(Request)
  /\ wire \in Seq(Message \cup Notice)
  /\ reader \in {"poll", "busy", "stuck", "gone"}
  /\ quit \in BOOLEAN
  /\ known \in [StageNames -> Found]
  /\ act \in Activations
  /\ open \in BOOLEAN
  /\ tid \in 1 .. MaxId
  /\ pc \in Kinds \cup {"top", "idle", "wait", "settle", "exit", "kill", "join",
                        "ended", "crashed", "stuck"}
  /\ step \in {"call", "wait", "woken", "got"}
  /\ rsp \in Message \cup {NoAnswer}
  /\ soon \in BOOLEAN
  /\ iface \in Addresses \cup {None, Junk}
  /\ missed \subseteq Excuses
  /\ faults \in 0 .. MaxFaults

\* A new process; the modem may be in any state, even with a session.
Init ==
  /\ gone = FALSE /\ opened \in BOOLEAN /\ dialing = FALSE
  /\ level \in 0 .. 3
  /\ session \in IF opened /\ level = 3 THEN Addresses \cup {None} ELSE {None}
  /\ inbox = <<>> /\ wire = <<>>
  /\ reader = "poll" /\ quit = FALSE
  /\ known = [s \in StageNames |-> "other"] /\ act = "unknown"
  /\ open = FALSE /\ tid = 1
  /\ pc = "top" /\ step = "call" /\ rsp = NoAnswer
  /\ soon = FALSE
  /\ iface \in Addresses \cup {None}
  /\ missed = {}
  /\ faults = 0

Fault == faults < MaxFaults /\ faults' = faults + 1

Over == pc \in {"ended", "crashed"}

-----------------------------------------------------------------------------
(* The modem (external).                                                   *)

StageLevel == [sim |-> 1, reg |-> 2, ps |-> 3]
State == IF session # None THEN "activated" ELSE IF dialing THEN "activating" ELSE "deactivated"

Note(k, v) == [kind |-> k, id |-> 0, val |-> v, live |-> FALSE]
Tell(notes) == wire' = IF opened THEN wire \o notes ELSE wire

\* Of each stage that changes it sends an indication, and of the session it loses.
NetworkMoves ==
  /\ ~gone /\ Fault
  /\ \E l \in (0 .. 3) \ {level} :
       LET stages == IF l > level THEN SubSeq(Stages, level + 1, l) ELSE SubSeq(Stages, l + 1, level)
           notes == [i \in DOMAIN stages |-> Note(stages[i], IF l > level THEN "yes" ELSE "no")]
       IN /\ level' = l
          /\ Tell(IF l < 3 /\ State # "deactivated"
                    THEN Append(notes, Note("act", "deactivated")) ELSE notes)
          /\ session' = IF l < 3 THEN None ELSE session
          /\ dialing' = (dialing /\ l = 3)
  /\ UNCHANGED <<gone, opened, inbox, reader, quit, stateVars, open, pc, callVars, soon, iface, missed>>

Drop ==
  /\ ~gone /\ session # None /\ Fault
  /\ session' = None
  /\ Tell(<<Note("act", "deactivated")>>)
  /\ UNCHANGED <<gone, opened, level, dialing, inbox, reader, quit, stateVars, open, pc, callVars,
                 soon, iface, missed>>

\* An activation it has begun, or one the network begins, is done.
Activates ==
  /\ ~gone /\ opened /\ level = 3 /\ session = None
  /\ IF dialing THEN UNCHANGED faults ELSE Fault
  /\ session' \in Addresses /\ dialing' = FALSE
  /\ Tell(<<Note("act", "activated")>>)
  /\ UNCHANGED <<gone, opened, level, inbox, reader, quit, stateVars, open, pc, callVars,
                 soon, iface, missed>>

\* It forgets that it was opened (suspend and resume), and says nothing.
Suspends ==
  /\ ~gone /\ opened /\ Fault
  /\ opened' = FALSE /\ session' = None /\ dialing' = FALSE
  /\ UNCHANGED <<gone, level, inbox, readerVars, stateVars, open, pc, callVars, soon, iface, missed>>

Unplug ==
  /\ ~gone /\ Fault
  /\ gone' = TRUE
  /\ UNCHANGED <<opened, level, session, dialing, inbox, readerVars, stateVars, open, pc, callVars,
                 soon, iface, missed>>

Served == inbox # <<>> /\ ~gone /\ inbox' = Tail(inbox)
Kind == Head(inbox).kind
Answer(v) == wire' = Append(wire, [kind |-> Kind, id |-> Head(inbox).id, val |-> v,
                                   live |-> Head(inbox).live])

ServeClosed ==
  /\ Served /\ ~opened /\ Kind # "open"
  /\ Answer(NotOpened)
  /\ UNCHANGED <<modemVars, faults>>

\* Opened again, it may keep its session.
ServeOpen ==
  /\ Served /\ Kind = "open"
  /\ opened' = TRUE /\ session' \in {session, None}
  /\ Answer("yes")
  /\ UNCHANGED <<gone, level, dialing, faults>>

ServeClose ==
  /\ Served /\ opened /\ Kind = "close"
  /\ opened' = FALSE /\ session' = None /\ dialing' = FALSE
  /\ Answer("yes")
  /\ UNCHANGED <<gone, level, faults>>

\* An attachment under way is reported as neither attached nor detached.
ServeQuery ==
  /\ Served /\ opened
  /\ \/ Kind = "caps" /\ Answer("yes")
     \/ Kind \in StageNames
        /\ \E v \in IF level >= StageLevel[Kind] THEN {"yes"}
                    ELSE IF Kind = "ps" /\ level = 2 THEN {"no", "other"} ELSE {"no"} : Answer(v)
     \/ Kind = "query" /\ Answer(State)
     \/ Kind = "ipconf" /\ Answer(IF session # None THEN session ELSE Refused)
  /\ UNCHANGED <<modemVars, faults>>

ServeAttach ==
  /\ Served /\ opened /\ Kind = "attach"
  /\ IF level >= 2 THEN level' = 3 /\ Answer("yes") ELSE UNCHANGED level /\ Answer(Refused)
  /\ UNCHANGED <<gone, opened, session, dialing, faults>>

\* The session comes up at once, or is on its way.
ServeConnect ==
  /\ Served /\ opened /\ Kind = "connect"
  /\ \/ level = 3 /\ session' \in (IF session = None THEN Addresses ELSE {session})
        /\ dialing' = FALSE /\ Answer("activated")
     \/ level = 3 /\ session = None /\ dialing' = TRUE /\ UNCHANGED session /\ Answer("activating")
     \/ level < 3 /\ UNCHANGED <<session, dialing>> /\ Answer(Refused)
  /\ UNCHANGED <<gone, opened, level, faults>>

ServeDisconnect ==
  /\ Served /\ opened /\ Kind = "xconnect"
  /\ session' = None /\ dialing' = FALSE
  /\ Answer("deactivated")
  /\ UNCHANGED <<gone, opened, level, faults>>

\* It refuses what it could do, or its answer is lost.
ServeFails ==
  /\ Served /\ Fault
  /\ Answer(Refused) \/ UNCHANGED wire
  /\ UNCHANGED modemVars

Serve ==
  /\ \/ ServeClosed \/ ServeOpen \/ ServeClose \/ ServeQuery \/ ServeAttach
     \/ ServeConnect \/ ServeDisconnect \/ ServeFails
  /\ UNCHANGED <<reader, quit, stateVars, open, pc, callVars, soon, iface, missed>>

-----------------------------------------------------------------------------
(* The reader thread, and the signals of the process.                      *)

\* _notify_state_chage: heard only by a main that is waiting.
Notify == pc' = IF pc = "wait" THEN "settle" ELSE pc

ReaderTakes ==
  /\ reader = "poll" /\ wire # <<>> /\ ~Over
  /\ reader' = "busy"
  /\ UNCHANGED <<modemVars, inbox, wire, quit, stateVars, open, pc, callVars, soon, iface, missed, faults>>

\* mbim_pRequest is set, with this transaction id.  AnyAnswer is a seeded fault.
AnyAnswer(id) == step \in {"wait", "woken"}
Awaited(id) == step \in {"wait", "woken"} /\ tid = id

Deliver(m) ==
  /\ rsp' = m /\ step' = "woken"
  /\ UNCHANGED <<stateVars, pc, missed>>

\* An answer with an older activation state is still on its way to main.
Overtakes(m) == m.kind = "act" /\ pc \in {"query", "connect"} /\ step \in {"woken", "got"} /\ rsp # NoAnswer

Indication(m) ==
  /\ IF m.kind = "act"
       THEN act' = m.val /\ UNCHANGED known
       ELSE known' = [known EXCEPT ![m.kind] = m.val] /\ UNCHANGED act
  /\ IF stateVars' # stateVars THEN Notify ELSE UNCHANGED pc
  /\ missed' = missed \cup (IF Overtakes(m) THEN {"overtaken"} ELSE {})
                    \cup (IF m.val = "activated" THEN {"told"} ELSE {})
  /\ UNCHANGED <<rsp, step>>

\* mbim_recv_command.
ReaderHandles ==
  /\ reader = "busy" /\ ~Over
  /\ wire' = Tail(wire) /\ reader' = "poll"
  /\ LET m == Head(wire)
     IN IF m.id # 0 /\ Awaited(m.id) THEN Deliver(m)
        ELSE IF m.id = 0 THEN Indication(m)
        ELSE UNCHANGED <<rsp, step, stateVars, pc, missed>>
  /\ UNCHANGED <<modemVars, inbox, quit, open, tid, soon, iface, faults>>

\* The end of the thread wakes main, in a request (without an answer) or asleep.
ReaderEnds ==
  /\ reader' = "gone" /\ quit' = TRUE
  /\ step' = IF step = "wait" THEN "woken" ELSE step
  /\ UNCHANGED <<wire, rsp>>

HangUp ==
  /\ gone /\ reader = "poll" /\ ~Over
  /\ ReaderEnds
  /\ Notify
  /\ UNCHANGED <<modemVars, inbox, stateVars, open, tid, soon, iface, missed, faults>>

\* SIGTERM, in the main thread or in the reader.  The handler takes a mutex: in a
\* thread that holds it, for ever.  It ends poll, and with it the reader.
Signal ==
  /\ ~quit /\ ~Over /\ Fault
  /\ quit' = TRUE
  /\ \/ Notify /\ UNCHANGED <<wire, reader, step, rsp>>
     \/ pc \in {"idle", "settle"} /\ pc' = "stuck" /\ UNCHANGED <<wire, reader, step, rsp>>
     \/ reader = "poll" /\ Notify /\ ReaderEnds
     \/ reader = "busy" /\ Head(wire).id = 0 /\ reader' = "stuck"
        /\ UNCHANGED <<pc, wire, step, rsp>>
  /\ UNCHANGED <<modemVars, inbox, stateVars, open, tid, soon, iface, missed>>

-----------------------------------------------------------------------------
(* A request of main: mbim_send_command.                                   *)

Send(k) ==
  /\ pc = k /\ step = "call" /\ reader # "stuck"
  /\ IF gone
       THEN step' = "got" /\ UNCHANGED inbox
       ELSE step' = "wait" /\ inbox' = Append(inbox, [kind |-> k, id |-> tid, live |-> TRUE])
  /\ rsp' = NoAnswer
  /\ missed' = IF k = "ipconf" THEN {} ELSE missed
  /\ UNCHANGED <<modemVars, readerVars, stateVars, open, pc, tid, soon, iface, faults>>

InFlight == \E q \in {inbox, wire} : \E i \in DOMAIN q : q[i].live
Abandon(q) == [i \in DOMAIN q |-> [q[i] EXCEPT !.live = FALSE]]

Timeout ==
  /\ step = "wait" /\ reader # "stuck"
  /\ IF InFlight /\ ~gone /\ reader # "gone" THEN Fault ELSE UNCHANGED faults
  /\ step' = "got" /\ rsp' = NoAnswer
  /\ inbox' = Abandon(inbox) /\ wire' = Abandon(wire)
  /\ UNCHANGED <<modemVars, reader, quit, stateVars, open, pc, tid, soon, iface, missed>>

Wake ==
  /\ step = "woken" /\ reader # "stuck"
  /\ step' = "got"
  /\ UNCHANGED <<modemVars, inbox, readerVars, stateVars, open, pc, tid, rsp, soon, iface, missed, faults>>

-----------------------------------------------------------------------------
(* The loop of mbim_main.                                                  *)

Needed(k) ==
  CASE k \in StageNames -> known'[k] # "yes"
    [] k = "query"      -> act' = "unknown"
    [] k = "connect"    -> act' \notin {"activated", "activating"}

\* The first request needed from place i of the order on.
From(i) ==
  LET wanted == {j \in i .. Len(Order) : Needed(Order[j])}
  IN IF wanted = {} THEN "idle" ELSE Order[CHOOSE j \in wanted : \A k \in wanted : j <= k]

\* The loop is over.  Deaf is a seeded fault.
Deaf == reader = "gone"
Stop == quit \/ reader = "gone"

Top ==
  /\ pc = "top"
  /\ soon' = FALSE
  /\ UNCHANGED stateVars
  /\ IF Stop THEN pc' = "exit" /\ UNCHANGED <<iface, tid>>
     ELSE IF ~open THEN pc' = "open" /\ iface' = None /\ tid' = 1
     ELSE pc' = From(1) /\ UNCHANGED <<iface, tid>>
  /\ UNCHANGED <<modemVars, inbox, readerVars, open, step, rsp, missed, faults>>

NextId == IF tid = MaxId THEN 1 ELSE tid + 1

\* main is done with the answer; the next request has the next id.
Used == step' = "call" /\ rsp' = NoAnswer /\ tid' = NextId

\* What an answer says of a state; one that is too short says anything.
\* Verbatim is a seeded fault.
Verbatim(v, old, values) == {v}
Says(v, old, values) ==
  IF rsp.val = NotOpened THEN {old} \cup values ELSE IF rsp.val = Refused THEN {old} ELSE {v}

\* mbim_status_code: the modem is to be opened again, at the next round.
\* Unnoticed is a seeded fault.
Unnoticed == open
StillOpen == open /\ rsp.val # NotOpened

\* No answer, or the open refused, is the end; in the exit it is nothing.
Failed ==
  /\ step = "got" /\ (rsp = NoAnswer \/ (pc = "open" /\ rsp.val # "yes"))
  /\ pc \notin {"xconnect", "close"}
  /\ pc' = "exit"
  /\ Used
  /\ UNCHANGED <<modemVars, inbox, readerVars, stateVars, open, soon, iface, missed, faults>>

Take(k) == pc = k /\ step = "got" /\ rsp # NoAnswer /\ Used
Taken == UNCHANGED <<modemVars, inbox, readerVars, soon, faults>> /\ open' = StillOpen

Opened ==
  /\ Take("open") /\ rsp.val = "yes"
  /\ open' = TRUE
  /\ known' = [s \in StageNames |-> "other"] /\ act' = "unknown" /\ missed' = {}
  /\ pc' = "caps"
  /\ UNCHANGED <<modemVars, inbox, readerVars, soon, iface, faults>>

Caps ==
  /\ Take("caps")
  /\ UNCHANGED <<stateVars, iface, missed>>
  /\ pc' = From(1)
  /\ Taken

Place(k) == CHOOSE i \in DOMAIN Order : Order[i] = k

Stage(s) ==
  /\ Take(s)
  /\ \E v \in Says(rsp.val, known[s], Found) : known' = [known EXCEPT ![s] = v]
  /\ UNCHANGED <<act, iface, missed>>
  /\ pc' = IF known'[s] = "yes" THEN From(Place(s) + 1)
           ELSE IF s = "ps" /\ known'[s] = "no" THEN "attach" ELSE "idle"
  /\ Taken

Attach ==
  /\ Take("attach")
  /\ \E v \in Says(rsp.val, known["ps"], Found) : known' = [known EXCEPT !["ps"] = v]
  /\ UNCHANGED <<act, iface, missed>>
  /\ pc' = IF known'["ps"] = "yes" THEN From(Place("query")) ELSE "idle"
  /\ Taken

QueryConnect ==
  /\ Take("query")
  /\ act' \in Says(rsp.val, act, Activations)
  /\ missed' = IF act' = "activated" THEN missed \cup {"found"} ELSE missed
  /\ UNCHANGED <<known, iface>>
  /\ pc' = From(Place("connect"))
  /\ Taken

\* With a session main asks for its address.  NoAddress is a seeded fault.
NoAddress == "idle"
Configure == "ipconf"

Connect ==
  /\ Take("connect")
  /\ act' \in Says(rsp.val, act, Activations)
  /\ soon' = (act' # "activated")
  /\ pc' = IF act' = "activated" THEN Configure ELSE "idle"
  /\ open' = StillOpen
  /\ UNCHANGED <<modemVars, inbox, readerVars, known, iface, missed, faults>>

\* mbim_ip_config and mbim_ifconfig.
IpConfig ==
  /\ Take("ipconf")
  /\ \/ iface' \in Says(rsp.val, iface, {Junk}) /\ pc' = "idle"
     \/ rsp.val = NotOpened /\ pc' = "crashed" /\ UNCHANGED iface
  /\ missed' = IF rsp.val = Refused THEN missed \cup {"refused"} ELSE missed
  /\ UNCHANGED stateVars
  /\ Taken

\* wait_state_change(wait_time), after the tests of the loop.
Sleep ==
  /\ pc = "idle" /\ reader # "stuck"
  /\ pc' = "wait"
  /\ UNCHANGED <<modemVars, inbox, readerVars, stateVars, open, callVars, soon, iface, missed, faults>>

WaitEnds ==
  /\ pc = "wait" /\ reader # "stuck"
  /\ pc' = "settle"
  /\ UNCHANGED <<modemVars, inbox, readerVars, stateVars, open, callVars, soon, iface, missed, faults>>

\* A second without a signal, or told to stop.
Settle ==
  /\ pc = "settle" /\ reader # "stuck"
  /\ pc' = "top"
  /\ UNCHANGED <<modemVars, inbox, readerVars, stateVars, open, callVars, soon, iface, missed, faults>>

-----------------------------------------------------------------------------
(* The exit of mbim_main.                                                  *)

Believed == act \in {"activated", "activating"}

Exit ==
  /\ pc = "exit"
  /\ pc' = IF reader = "gone" THEN "ended" ELSE IF Believed THEN "xconnect" ELSE "close"
  /\ UNCHANGED <<modemVars, inbox, readerVars, stateVars, open, callVars, soon, iface, missed, faults>>

Disconnect ==
  /\ pc = "xconnect" /\ step = "got" /\ Used
  /\ IF rsp = NoAnswer THEN UNCHANGED <<act, open>>
     ELSE act' \in Says(rsp.val, act, Activations) /\ open' = StillOpen
  /\ pc' = "close"
  /\ UNCHANGED <<modemVars, inbox, readerVars, known, soon, iface, missed, faults>>

Close ==
  /\ pc = "close" /\ step = "got" /\ Used
  /\ open' = IF rsp = NoAnswer THEN open ELSE StillOpen
  /\ pc' = "kill"
  /\ UNCHANGED <<modemVars, inbox, readerVars, stateVars, soon, iface, missed, faults>>

\* pthread_kill and pthread_join take the id from read_tid, which the reader
\* clears when it ends: 0 is no thread.  A reader that is not in poll goes back
\* to it, and there is nothing to join.
KillReader ==
  /\ pc = "kill"
  /\ IF reader = "poll" THEN ReaderEnds ELSE UNCHANGED <<wire, reader, quit, step, rsp>>
  /\ \/ reader # "gone" /\ pc' = "join"
     \/ reader' = "gone" /\ pc' = "crashed"
  /\ UNCHANGED <<modemVars, inbox, stateVars, open, tid, soon, iface, missed, faults>>

Join ==
  /\ pc = "join" /\ reader = "gone"
  /\ iface' = None
  /\ pc' = "ended"
  /\ UNCHANGED <<modemVars, inbox, readerVars, stateVars, open, callVars, soon, missed, faults>>

Finished == (Over \/ pc = "stuck" \/ reader = "stuck" \/ pc = "join") /\ UNCHANGED vars

MainStep ==
  \/ Top \/ Timeout \/ Wake \/ Failed \/ Opened \/ Caps \/ Attach \/ QueryConnect \/ Connect
  \/ IpConfig \/ Sleep \/ WaitEnds \/ Settle \/ Exit \/ Disconnect \/ Close \/ KillReader \/ Join
  \/ \E k \in Kinds : Send(k)
  \/ \E s \in StageNames : Stage(s)

Next ==
  \/ MainStep \/ ReaderTakes \/ ReaderHandles \/ HangUp \/ Signal
  \/ NetworkMoves \/ Drop \/ Activates \/ Suspends \/ Unplug \/ Serve
  \/ Finished

Spec == Init /\ [][Next]_vars

Reader == ReaderTakes \/ ReaderHandles \/ HangUp

\* The threads are scheduled, every timed wait ends, and the modem serves requests.
FairSpec == Spec /\ WF_vars(MainStep) /\ WF_vars(Reader) /\ WF_vars(Serve)

-----------------------------------------------------------------------------
(* Properties.                                                             *)

\* The answer main takes is the answer to the request it waits for, though the ids
\* begin anew with every opening, and whatever else is still on its way: indications,
\* and the answer to a request main gave up on its way out (mbim-cm.c:1755-1763).
Pending == IF step \in {"wait", "woken"} THEN pc ELSE None
Held == IF step # "got" \/ rsp = NoAnswer THEN None ELSE IF rsp.live THEN rsp.kind ELSE "stale"
Contract == INSTANCE RequestContract
              WITH Requests <- Kinds, Nothing <- None, pending <- Pending, answer <- Held
AnswersAreOwn == Contract!Spec

\* Told to stop, or without its modem, main gets to its end, but for the windows in
\* which a signal leaves a thread with its own mutex, or main joins a reader that
\* missed its signal.
Hung == pc \in {"stuck", "join"} \/ reader = "stuck"
EndsWhenTold == (quit \/ gone) ~> (Over \/ Hung)

\* If the network stays there and the modem stays open, the interface comes to
\* have the session's address and keeps it: main hears of it in the end, even if
\* it misses the signal.  Four things main may meet after it last asked for the
\* address are excused, as main then does not ask for it (mbim-cm.c:1732-1744):
\* an indication that says the session is activated, or that is overtaken by an
\* older answer; a session its own query finds activated, as after a restart on
\* an open modem; and an address refused.
StableBut(excused) ==
  level = 3 /\ opened /\ ~dialing /\ missed \subseteq excused /\ ~(quit \/ gone \/ Over \/ Hung) /\ pc # "exit"
Configured == session # None /\ iface = session
GetsItsAddress == <>[]StableBut({}) => <>[]Configured

\* The same without the third excuse: a session that is found activated is
\* configured too.  The code does not do so (MCMbimFound.cfg).
FoundIsConfigured == <>[]StableBut({"found"}) => <>[]Configured

\* A modem that answers that it is not open is opened again, if only at the next
\* round of the loop.
ReopensModem == (step = "got" /\ rsp.val = NotOpened) ~> (pc = "open" \/ quit \/ gone \/ Over \/ pc = "exit" \/ Hung)

\* mbim-cm.c:1748: a connect that did not activate the session is tried again
\* 30 seconds later.
Unready == \E s \in StageNames : known[s] # "yes"
RetriesConnect ==
  (pc = "wait" /\ soon) ~> (pc = "connect" \/ act = "activated" \/ Unready \/ ~open \/ quit \/ gone \/ Over \/ pc = "exit")
=============================================================================
