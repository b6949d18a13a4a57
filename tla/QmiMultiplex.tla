---------------------------- MODULE QmiMultiplex ----------------------------
(***************************************************************************)
(* Several processes of quectel-CM share one modem through                 *)
(* quectel-qmi-proxy: the clients, the proxy and the modem together.       *)
(***************************************************************************)
EXTENDS QmiClient, QmiProxy, FiniteSets

\* A process never comes as far as the transaction ids of the preparation.
ASSUME TidsAssumption == 2 * Services + 1 < FirstTid
ASSUME OwnersAssumption == NoOne \notin Clients

vars == <<transportVars, clientVars, proxyVars>>

TypeOK == TransportTypeOK /\ ClientTypeOK /\ ProxyTypeOK

Init == TransportInit /\ ClientInit /\ ProxyInit

\* A request its sender gives up is nobody's, in the queue too.
Abandons(c) ==
  /\ queue' = [i \in DOMAIN queue |-> IF queue[i].m.own = c THEN [queue[i] EXCEPT !.m.own = NoOne] ELSE queue[i]]
  /\ UNCHANGED <<mode, server, loop, initVars, quit, resetFlag, reg>>

\* The request is on its way, or behind one that is.
Moving(c) ==
  \/ \E q \in {up[c], down[c], toModem, fromModem} : OwnedIn(q, c)
  \/ /\ \E i \in DOMAIN queue : queue[i].m.own = c
     /\ \E q \in {toModem, fromModem} : \E i \in DOMAIN q : q[i].svc = CTL

GivesUp(c) ==
  /\ GiveUp(c)
  /\ IF Moving(c) /\ link[c] # "cut" THEN Fault /\ odd' = odd \cup {"late"}
     ELSE UNCHANGED <<faults, odd>>
  /\ Abandons(c)

Leaves(c) == (Release(c) \/ HangUp(c) \/ Kill(c)) /\ Abandons(c)

ClientStep(c) ==
  \/ /\ \/ server /\ Connect(c)
        \/ Call(c) \/ Receive(c) \/ Version(c) \/ GetClientId(c) \/ Work(c) \/ Worked(c)
     /\ UNCHANGED proxyVars
  \/ GivesUp(c) \/ Leaves(c)

ProxyStep == (ProxyMain \/ ProxyLoop \/ Interrupt) /\ UNCHANGED clientVars

Replug == ~loop /\ Plug
ModemActs == (ModemStep \/ Replug) /\ UNCHANGED <<clientVars, proxyVars>>

\* The proxy has ended, or no process is left to start.
Finished ==
  /\ mode = "ended" \/ lives = MaxLives
  /\ \A c \in Clients : phase[c] = "off"
  /\ UNCHANGED vars

Next == (\E c \in Clients : ClientStep(c)) \/ ProxyStep \/ ModemActs \/ Finished

Spec == Init /\ [][Next]_vars

\* A process goes on with what it has begun, but need not ask, end or start.
Proceeds(c) ==
  \/ (Call(c) \/ Receive(c) \/ Version(c) \/ GetClientId(c) \/ Worked(c)) /\ UNCHANGED proxyVars
  \/ GivesUp(c)
  \/ HangUp(c) /\ Abandons(c)

\* Processes and threads are scheduled, every round of poll looks at all that is
\* ready, and the modem serves requests.
FairSpec ==
  /\ Spec
  /\ WF_vars(ProxyMain /\ UNCHANGED clientVars)
  /\ WF_vars((Receives \/ LoopReset \/ LoopEnds \/ BrokenPipe) /\ UNCHANGED clientVars)
  /\ WF_vars((Serve \/ Replug) /\ UNCHANGED <<clientVars, proxyVars>>)
  /\ \A c \in Clients :
       /\ WF_vars(Proceeds(c))
       /\ WF_vars((Accept(c) \/ Cleanup(c) \/ ReadClient(c)) /\ UNCHANGED clientVars)

-----------------------------------------------------------------------------
(* Properties.                                                             *)

Live(c) == phase[c] # "off" /\ link[c] = "up"
Uses(c, s) == Live(c) /\ phase[c] # "release" /\ ids[c][s] # 0

\* No two processes ever use the same client id of a service, whatever answers go
\* astray, unless the modem forgot the ids it gave out.
NoSharedClientId ==
  \A c, d \in Clients : \A s \in 1 .. Services :
    c # d /\ Uses(c, s) /\ Uses(d, s) /\ ids[c][s] = ids[d][s] => "reset" \in odd

\* Answers reach a process: the ids it holds are those the proxy passes on to it,
\* whatever requests are lost or answers go astray.  Only when answers go astray and
\* the modem has given an id out twice can the release of one holder end the other's.
HeldIsRegistered ==
  \A c \in Clients : \A s \in 1 .. Services :
    Uses(c, s) /\ ("reset" \in odd => odd \subseteq {"late", "reset"}) => <<s, ids[c][s]>> \in reg[c]

\* Between the queue and the modem there is one CTL request, the head of the queue,
\* until a process leaves its request behind or an indication comes in between.
Undisturbed == odd \subseteq {"late"}
OfClient(m) == m.svc = CTL /\ m.flag # "ind" /\ m.tid < FirstTid
InFlight == ({"to"} \X {i \in DOMAIN toModem : OfClient(toModem[i])})
            \cup ({"from"} \X {i \in DOMAIN fromModem : OfClient(fromModem[i])})
InSync ==
  loop /\ server /\ present /\ Undisturbed => Cardinality(InFlight) = IF queue = <<>> THEN 0 ELSE 1

\* The answer a process has is the answer to the request it waits for: the proxy and
\* its client refine the contract of a request, as long as the queue is in step.
Pending(c) == IF step[c] = "wait" THEN <<phase[c], svc[c]>> ELSE <<"none", 0>>
Held(c) ==
  IF step[c] # "got" \/ rsp[c] = NoAnswer THEN <<"none", 0>>
  ELSE IF rsp[c].own = c \/ ~Undisturbed THEN <<phase[c], svc[c]>> ELSE <<"stale", 0>>
Requests == {"version", "get", "work", "release"} \X (0 .. Services)
Contract(c) == INSTANCE RequestContract WITH Nothing <- <<"none", 0>>, pending <- Pending(c), answer <- Held(c)
AnswersAreOwn ==
  /\ \A c \in Clients : Contract(c)!Init
  /\ [][\A c \in Clients : [Contract(c)!Next]_(Contract(c)!vars)]_vars

\* A process that connects comes to hold the ids it asked for, unless it or the
\* proxy ends, the modem refuses it one, or something came between requests.
Registered(c) == phase[c] = "idle" /\ \A s \in 1 .. Services : Uses(c, s)
Refused(c) == phase[c] = "get" /\ rsp[c].msg = "get" /\ ~rsp[c].ok
Excused(c) == odd # {} \/ quit \/ ~present \/ Refused(c)
EveryoneRegisters ==
  \A c \in Clients : (phase[c] = "version") ~> (Registered(c) \/ phase[c] = "off" \/ Excused(c))

\* quectel-qmi-proxy.c:1292: the proxy starts again when the modem has reset itself.
Announced == \E i \in DOMAIN fromModem : fromModem[i].msg = "revoke"
RestartsAfterReset == (loop /\ server /\ Announced) ~> (mode = "init" \/ quit)
=============================================================================
