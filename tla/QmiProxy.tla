------------------------------ MODULE QmiProxy ------------------------------
(***************************************************************************)
(* quectel-qmi-proxy: main opens the modem, prepares it and starts the     *)
(* server; the loop thread polls modem, server and connections.            *)
(*                                                                         *)
(* CTL requests go to the modem one at a time, in a queue; an answer that  *)
(* comes is the head's.  Messages of services are passed on by client id.  *)
(***************************************************************************)
EXTENDS QmiTransport

CONSTANTS
  MaxSyncs,  \* synchronisations in one preparation (10)
  MaxTries,  \* preparations after the first (5)
  MaxDown    \* how far a client may lag behind in reading, for TLC

ASSUME TriesAssumption == MaxSyncs \in Nat \ {0} /\ MaxTries \in Nat /\ MaxDown \in Nat \ {0}

VARIABLES
  mode,     \* main: "open", "init", waiting for the loop to end ("join"), "ended"
  server,   \* qmi_proxy_server_fd is open
  loop,     \* the loop thread runs
  stage,    \* of qmi_proxy_init; 5 is past it
  sent,     \* requests it has sent, TransactionId
  waiting,  \* s_pCtlReq is set
  got,      \* s_pCtlRsq
  tries,    \* retry_times
  quit,     \* qmi_proxy_quit
  resetFlag,
  queue,    \* qmi_proxy_ctl_msg: descriptor and message
  reg       \* client_qnode: service and id of the clients of a connection

FirstTid == 200   \* of the preparation; clients count from 1

initVars  == <<stage, sent, waiting, got, tries>>
proxyVars == <<mode, server, loop, initVars, quit, resetFlag, queue, reg>>

ProxyTypeOK ==
  /\ mode \in {"open", "init", "join", "ended"}
  /\ server \in BOOLEAN /\ loop \in BOOLEAN
  /\ stage \in 1 .. 5 /\ sent \in 0 .. MaxSyncs + 3 /\ tries \in 0 .. MaxTries
  /\ waiting \in BOOLEAN /\ got \in Message
  /\ quit \in BOOLEAN /\ resetFlag \in BOOLEAN
  /\ queue \in Seq([fd : Clients, m : Message])
  /\ reg \in [Clients -> SUBSET ((1 .. WDA) \X (1 .. MaxId))]

ProxyInit ==
  /\ mode = "open" /\ server = FALSE /\ loop = FALSE
  /\ stage = 1 /\ sent = 0 /\ waiting = FALSE /\ got = NoAnswer /\ tries = 0
  /\ quit = FALSE /\ resetFlag = FALSE
  /\ queue = <<>>
  /\ reg = [c \in Clients |-> {}]

-----------------------------------------------------------------------------
(* main.                                                                   *)

Open ==
  /\ mode = "open" /\ present /\ ~quit
  /\ mode' = "init" /\ loop' = TRUE
  /\ stage' = 1 /\ sent' = 0
  /\ UNCHANGED <<transportVars, server, waiting, got, tries, quit, resetFlag, queue, reg>>

\* The client id of WDA is the answer to the third request.
Preparation ==
  LET tid == FirstTid + sent IN
  CASE stage = 1 -> Ask(CTL, "sync", 0, 0, tid, Proxy)
    [] stage = 2 -> Ask(CTL, "version", 0, 0, tid, Proxy)
    [] stage = 3 -> Ask(CTL, "get", WDA, 0, tid, Proxy)
    [] stage = 4 -> Ask(WDA, "format", 0, got.id, tid, Proxy)

\* send_qmi_timeout
Prepare ==
  /\ mode = "init" /\ stage < 5 /\ ~waiting
  /\ waiting' = TRUE /\ got' = NoAnswer /\ sent' = sent + 1
  /\ toModem' = IF present /\ loop THEN Append(toModem, Preparation) ELSE toModem
  /\ UNCHANGED <<link, up, down, present, fromModem, used, odd, faults, mode, server, loop, stage,
                 tries, quit, resetFlag, queue, reg>>

\* Tried anew, unless the modem is gone or it has been tried too often: then the
\* server is started all the same.
InitFails ==
  /\ got' = NoAnswer
  /\ IF tries < MaxTries /\ present
       THEN tries' = tries + 1 /\ stage' = 1 /\ sent' = 0
       ELSE stage' = 5 /\ UNCHANGED <<tries, sent>>

Prepared ==
  /\ mode = "init" /\ waiting /\ got # NoAnswer
  /\ waiting' = FALSE
  /\ IF got.ok \/ stage = 1 THEN stage' = stage + 1 /\ UNCHANGED <<sent, got, tries>> ELSE InitFails
  /\ UNCHANGED <<transportVars, mode, server, loop, quit, resetFlag, queue, reg>>

Underway == OwnedIn(toModem, Proxy) \/ OwnedIn(fromModem, Proxy)

\* A synchronisation is sent again, anything else fails.
PrepareTimesOut ==
  /\ mode = "init" /\ waiting
  /\ IF loop /\ (Underway \/ got # NoAnswer) THEN Fault ELSE UNCHANGED faults
  /\ waiting' = FALSE
  /\ toModem' = Disown(toModem, Proxy) /\ fromModem' = Disown(fromModem, Proxy)
  /\ IF stage = 1 /\ sent < MaxSyncs THEN got' = NoAnswer /\ UNCHANGED <<stage, sent, tries>> ELSE InitFails
  /\ UNCHANGED <<link, up, down, present, used, odd, mode, server, loop, quit, resetFlag, queue, reg>>

\* qmi_start_server
StartServer ==
  /\ mode = "init" /\ stage = 5
  /\ mode' = "join" /\ server' = TRUE /\ tries' = 0
  /\ UNCHANGED <<transportVars, loop, stage, sent, waiting, got, quit, resetFlag, queue, reg>>

\* The loop has ended: server and modem are closed, with the connections nobody has
\* accepted, and opened again.
Join ==
  /\ mode = "join" /\ ~loop
  /\ mode' = "open" /\ server' = FALSE
  /\ link' = [c \in Clients |-> IF link[c] = "waiting" THEN "cut" ELSE IF link[c] = "left" THEN "free" ELSE link[c]]
  /\ up' = [c \in Clients |-> IF link[c] = "left" THEN <<>> ELSE up[c]]
  /\ toModem' = <<>> /\ fromModem' = <<>>
  /\ UNCHANGED <<down, present, used, odd, faults, loop, initVars, quit, resetFlag, queue, reg>>

Interrupt ==
  /\ ~quit /\ Fault
  /\ quit' = TRUE
  /\ UNCHANGED <<link, up, down, modemVars, odd, mode, server, loop, initVars, resetFlag, queue, reg>>

Exit ==
  /\ mode = "open" /\ quit
  /\ mode' = "ended"
  /\ UNCHANGED <<transportVars, server, loop, initVars, quit, resetFlag, queue, reg>>

-----------------------------------------------------------------------------
(* The loop thread.                                                        *)

Connected(c) == link[c] \in {"up", "left"}

Accept(c) ==
  /\ loop /\ server /\ link[c] = "waiting"
  /\ Set(link, c, "up")
  /\ UNCHANGED <<up, down, modemVars, odd, faults, proxyVars>>

Queued(c) == \E i \in DOMAIN queue : queue[i].fd = c
FirstOf(c) == CHOOSE i \in DOMAIN queue : queue[i].fd = c /\ \A j \in 1 .. i - 1 : queue[j].fd # c
Without(q, i) == SubSeq(q, 1, i - 1) \o SubSeq(q, i + 1, Len(q))

\* cleanup_qmi_connection: it takes the first message of the connection from the
\* queue, though that may be at the modem, or another may be left.
Cleanup(c) ==
  /\ loop /\ link[c] = "left"
  /\ Set(link, c, "free") /\ Set(up, c, <<>>)
  /\ Set(reg, c, {})
  /\ IF Queued(c)
       THEN /\ queue' = Without(queue, FirstOf(c))
            /\ odd' = odd \cup {"slip"}
       ELSE UNCHANGED <<queue, odd>>
  /\ UNCHANGED <<down, modemVars, faults, mode, server, loop, initVars, quit, resetFlag>>

\* send_qmi: a CTL request waits behind others.  AtOnce is a seeded fault.
AtOnce(m) == TRUE
Goes(m) == m.svc # CTL \/ queue = <<>>

SendQmi(c, m) ==
  /\ toModem' = IF Goes(m) /\ present THEN Append(toModem, m) ELSE toModem
  /\ queue' = IF m.svc = CTL THEN Append(queue, [fd |-> c, m |-> m]) ELSE queue
  /\ UNCHANGED odd

\* What a read finds must be one message; more than one are dropped.
ReadClient(c) ==
  /\ loop /\ Connected(c) /\ up[c] # <<>>
  /\ Set(up, c, <<>>)
  /\ IF Len(up[c]) = 1 THEN SendQmi(c, Head(up[c]))
     ELSE odd' = odd \cup {"lost"} /\ UNCHANGED <<toModem, queue>>
  /\ UNCHANGED <<link, down, present, fromModem, used, faults, mode, server, loop, initVars, quit,
                 resetFlag, reg>>

\* Swapped is a seeded fault.
Swapped(m) == m.flag = "ind" /\ queue # <<>>
Popped(m) == m.flag = "rsp" /\ queue # <<>>
Receiver == Head(queue).fd

\* get_client_id and release_client_id.  Unasked and ForLastAsked are seeded faults.
ForLastAsked(m) ==
  IF m.msg = "get" /\ m.ok THEN [reg EXCEPT ![queue[Len(queue)].fd] = @ \cup {<<m.of, m.id>>}] ELSE reg
Unasked(m) == IF m.msg = "get" THEN [reg EXCEPT ![Receiver] = @ \cup {<<m.of, m.id>>}] ELSE reg
Registration(m) ==
  CASE m.msg = "get" /\ m.ok -> [reg EXCEPT ![Receiver] = @ \cup {<<m.of, m.id>>}]
    [] m.msg \in {"release", "revoke"} /\ m.ok -> [reg EXCEPT ![Receiver] = @ \ {<<m.of, m.id>>}]
    [] OTHER -> reg

\* recv_qmi, of CTL: an answer goes to the head of the queue, whose it may not be;
\* whatever came, the next head is sent.
RecvCtl(m) ==
  LET next == IF Popped(m) THEN Tail(queue) ELSE queue IN
  /\ IF Popped(m) /\ Connected(Receiver)
       THEN /\ down' = [down EXCEPT ![Receiver] = Append(@, m)]
            /\ reg' = Registration(m)
            /\ resetFlag' = (resetFlag \/ m.msg = "revoke")
       ELSE UNCHANGED <<down, reg, resetFlag>>
  /\ queue' = next
  /\ toModem' = IF next # <<>> /\ Connected(Head(next).fd) /\ present
                  THEN Append(toModem, Head(next).m) ELSE toModem
  /\ odd' = IF queue # <<>> /\ (m.flag = "ind" \/ m.tid >= FirstTid) THEN odd \cup {"slip"} ELSE odd

\* recv_qmi, of a service: by its client id.
Concerns(m, c) == Connected(c) /\ \E r \in reg[c] : r[1] = m.svc /\ m.id \in {0, r[2]}

RecvService(m) ==
  /\ down' = [c \in Clients |-> IF Concerns(m, c) THEN Append(down[c], m) ELSE down[c]]
  /\ UNCHANGED <<toModem, odd, queue, reg, resetFlag>>

\* recv_qmi, before the server is there: the answer main waits for.
RecvInit(m) ==
  /\ got' = IF waiting /\ m.tid = FirstTid + sent - 1 THEN m ELSE got
  /\ UNCHANGED <<down, toModem, odd, queue, reg, resetFlag>>

\* The connections recv_qmi writes the message to.
Addressees(m) ==
  IF m.svc = CTL THEN {c \in Clients : Popped(m) /\ Connected(c) /\ c = Receiver}
  ELSE {c \in Clients : Concerns(m, c)}

\* The modem is looked at first in a round of poll: a connection to be written to may
\* have hung up and not be cleaned up yet.
Breaks == server /\ fromModem # <<>> /\ \E c \in Addressees(Head(fromModem)) : link[c] = "left"

\* The end of the loop: every connection is cleaned up.
Ending ==
  /\ loop' = FALSE
  /\ link' = [c \in Clients |-> IF link[c] = "up" THEN "cut" ELSE IF link[c] = "left" THEN "free" ELSE link[c]]
  /\ up' = [c \in Clients |-> IF Connected(c) THEN <<>> ELSE up[c]]

RecvQmi ==
  /\ loop /\ fromModem # <<>> /\ ~Breaks
  /\ \A c \in Clients : Len(down[c]) < MaxDown
  /\ fromModem' = Tail(fromModem)
  /\ LET m == Head(fromModem)
     IN IF ~server THEN RecvInit(m)
        ELSE /\ IF m.svc = CTL THEN RecvCtl(m) ELSE RecvService(m)
             /\ UNCHANGED got
  /\ UNCHANGED <<present, used, faults, mode, server, stage, sent, waiting, tries, quit>>

\* The flag, once set, ends the loop after every message.
Receives ==
  /\ RecvQmi
  /\ ~resetFlag'
  /\ UNCHANGED <<link, up, loop>>

\* The head of the queue that is still sent after that message (690-699) is left
\* out: main closes the modem next, so that nobody reads its answer.
LoopReset ==
  /\ loop /\ fromModem # <<>> /\ ~Breaks
  /\ fromModem' = Tail(fromModem)
  /\ LET m == Head(fromModem)
     IN /\ resetFlag \/ (server /\ m.svc = CTL /\ m.msg = "revoke" /\ Popped(m) /\ Connected(Receiver))
        /\ IF server THEN UNCHANGED got ELSE got' = IF waiting /\ m.tid = FirstTid + sent - 1 THEN m ELSE got
  /\ resetFlag' = TRUE
  /\ Ending
  /\ down' = [c \in Clients |-> <<>>] /\ reg' = [c \in Clients |-> {}] /\ queue' = <<>>
  /\ UNCHANGED <<present, toModem, used, odd, faults, mode, server, stage, sent, waiting, tries, quit>>

\* The modem is gone, or the proxy told to quit.
LoopEnds ==
  /\ loop /\ (~present \/ quit)
  /\ Ending
  /\ down' = [c \in Clients |-> <<>>] /\ reg' = [c \in Clients |-> {}] /\ queue' = <<>>
  /\ UNCHANGED <<modemVars, odd, faults, mode, server, initVars, quit, resetFlag>>

\* send_qmi_to_client writes to a socket that has hung up, and nothing handles the
\* SIGPIPE: the proxy is gone, and what it had open closed.
BrokenPipe ==
  /\ loop /\ Breaks
  /\ mode' = "ended" /\ server' = FALSE /\ loop' = FALSE
  /\ link' = [c \in Clients |-> IF link[c] \in {"waiting", "up"} THEN "cut" ELSE IF link[c] = "left" THEN "free" ELSE link[c]]
  /\ up' = [c \in Clients |-> IF Connected(c) THEN <<>> ELSE up[c]]
  /\ down' = [c \in Clients |-> <<>>] /\ reg' = [c \in Clients |-> {}] /\ queue' = <<>>
  /\ toModem' = <<>> /\ fromModem' = <<>>
  /\ UNCHANGED <<present, used, odd, faults, initVars, quit, resetFlag>>

ProxyMain == Open \/ Prepare \/ Prepared \/ PrepareTimesOut \/ StartServer \/ Join \/ Exit
ProxyLoop ==
  \/ Receives \/ LoopReset \/ LoopEnds \/ BrokenPipe
  \/ \E c \in Clients : Accept(c) \/ Cleanup(c) \/ ReadClient(c)
=============================================================================
