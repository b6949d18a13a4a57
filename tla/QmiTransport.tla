---------------------------- MODULE QmiTransport ----------------------------
(***************************************************************************)
(* What lies between the processes of quectel-CM, quectel-qmi-proxy and    *)
(* the modem: a socket to each client, the modem's control channel, and    *)
(* the modem itself (external).                                            *)
(*                                                                         *)
(* A client is named by the descriptor the proxy's accept gives its        *)
(* connection, the lowest that is free; a later process takes it over.     *)
(* Service 0 is CTL.  Layout and contents of the messages are left out.    *)
(***************************************************************************)
EXTENDS Naturals, Sequences

CONSTANTS
  Clients,    \* descriptors, numbers
  Services,   \* a client obtains ids of the services 1 .. Services, in this order
  MaxId,      \* the modem gives out the client ids 1 .. MaxId of each service
  MaxTid,     \* requests of a process to services, for TLC (ids begin anew after 65535)
  MaxFaults   \* bound on what may go wrong, for TLC

ASSUME SizesAssumption ==
  /\ Clients \subseteq Nat \ {0}
  /\ Services \in Nat \ {0} /\ MaxId \in Nat \ {0} /\ MaxTid \in Nat \ {0} /\ MaxFaults \in Nat

VARIABLES
  link,       \* a client's socket: "waiting" to be accepted, "up", closed by the
              \* client ("left") or by the proxy ("cut")
  up, down,   \* what is on it, to the proxy and to the client
  present,    \* the modem is on the bus
  toModem, fromModem,
  used,       \* the client ids the modem has given out, of each service
  odd,        \* history: what came between requests and their answers
  faults

modemVars == <<present, toModem, fromModem, used>>
transportVars == <<link, up, down, modemVars, odd, faults>>

Proxy == 0      \* owner of the proxy's own requests
NoOne == 100    \* owner of a message whose sender waits for it no more
CTL   == 0
WDA   == Services + 1
Tids  == Nat

Message == [svc : 0 .. WDA, msg : {"sync", "version", "get", "release", "format", "work", "revoke"},
            of : 0 .. WDA, id : 0 .. MaxId, tid : Tids, ok : BOOLEAN,
            flag : {"req", "rsp", "ind"}, own : Clients \cup {Proxy, NoOne}]

Ask(svc, msg, of, id, tid, own) ==
  [svc |-> svc, msg |-> msg, of |-> of, id |-> id, tid |-> tid, ok |-> TRUE, flag |-> "req", own |-> own]

TransportTypeOK ==
  /\ link \in [Clients -> {"free", "waiting", "up", "left", "cut"}]
  /\ up \in [Clients -> Seq(Message)] /\ down \in [Clients -> Seq(Message)]
  /\ present \in BOOLEAN
  /\ toModem \in Seq(Message) /\ fromModem \in Seq(Message)
  /\ used \in [1 .. Services -> SUBSET (1 .. MaxId)]
  /\ odd \subseteq {"slip", "lost", "reset", "late"}
  /\ faults \in 0 .. MaxFaults

TransportInit ==
  /\ link = [c \in Clients |-> "free"]
  /\ up = [c \in Clients |-> <<>>] /\ down = [c \in Clients |-> <<>>]
  /\ present = TRUE
  /\ toModem = <<>> /\ fromModem = <<>>
  /\ used = [s \in 1 .. Services |-> {}]
  /\ odd = {} /\ faults = 0

Fault == faults < MaxFaults /\ faults' = faults + 1

NoAnswer == Ask(CTL, "sync", 0, 0, 0, NoOne)
Set(f, c, v) == f' = [f EXCEPT ![c] = v]

\* The messages of owner o are waited for no more.
Disown(q, o) == [i \in DOMAIN q |-> IF q[i].own = o THEN [q[i] EXCEPT !.own = NoOne] ELSE q[i]]
OwnedIn(q, o) == \E i \in DOMAIN q : q[i].own = o

-----------------------------------------------------------------------------
(* The modem (external).                                                   *)

Served == present /\ toModem # <<>> /\ toModem' = Tail(toModem)
Now == Head(toModem)
Answer(ok, id) == fromModem' = Append(fromModem, [Now EXCEPT !.ok = ok, !.id = id, !.flag = "rsp"])

Free(s) == (1 .. MaxId) \ used[s]

\* A synchronisation takes all client ids back.
ServeSync ==
  /\ Served /\ Now.msg = "sync"
  /\ used' = [s \in 1 .. Services |-> {}]
  /\ Answer(TRUE, 0)

ServePlain ==
  /\ Served /\ Now.msg \in {"version", "format"}
  /\ Answer(Now.msg = "version" \/ Now.id # 0, Now.id)
  /\ UNCHANGED used

\* WDA gives every client the id 1.
ServeGet ==
  /\ Served /\ Now.msg = "get"
  /\ IF Now.of = WDA THEN Answer(TRUE, 1) /\ UNCHANGED used
     ELSE IF Free(Now.of) = {} THEN Answer(FALSE, 0) /\ UNCHANGED used
     ELSE LET i == CHOOSE i \in Free(Now.of) : \A j \in Free(Now.of) : i <= j
          IN used' = [used EXCEPT ![Now.of] = @ \cup {i}] /\ Answer(TRUE, i)

ServeRelease ==
  /\ Served /\ Now.msg = "release"
  /\ used' = [used EXCEPT ![Now.of] = @ \ {Now.id}]
  /\ Answer(TRUE, Now.id)

ServeWork ==
  /\ Served /\ Now.msg = "work"
  /\ Answer(Now.id \in used[Now.svc], Now.id)
  /\ UNCHANGED used

Serve ==
  /\ ServeSync \/ ServePlain \/ ServeGet \/ ServeRelease \/ ServeWork
  /\ UNCHANGED <<link, up, down, present, odd, faults>>

\* A request is lost, or the write to the modem failed.
Lose ==
  /\ Served /\ Fault
  /\ odd' = IF Now.svc = CTL THEN odd \cup {"lost"} ELSE odd
  /\ UNCHANGED <<link, up, down, present, fromModem, used>>

Notice(msg, flag) == [Ask(CTL, msg, 0, 0, 0, NoOne) EXCEPT !.flag = flag]

\* An indication of CTL nobody asked for.
Announce ==
  /\ present /\ Fault
  /\ fromModem' = Append(fromModem, Notice("sync", "ind"))
  /\ UNCHANGED <<link, up, down, present, toModem, used, odd>>

\* It starts anew, without the ids, and says so; with which flag is not known.
Reset ==
  /\ present /\ Fault
  /\ toModem' = <<>>
  /\ \E flag \in {"rsp", "ind"} : fromModem' = Append(fromModem, Notice("revoke", flag))
  /\ used' = [s \in 1 .. Services |-> {}]
  /\ odd' = odd \cup {"reset"}
  /\ UNCHANGED <<link, up, down, present>>

Unplug ==
  /\ present /\ Fault
  /\ present' = FALSE
  /\ toModem' = <<>> /\ fromModem' = <<>>
  /\ used' = [s \in 1 .. Services |-> {}]
  /\ UNCHANGED <<link, up, down, odd>>

\* It comes back, under the name it had.
Plug ==
  /\ ~present
  /\ present' = TRUE
  /\ UNCHANGED <<link, up, down, toModem, fromModem, used, odd, faults>>

ModemStep == Serve \/ Lose \/ Announce \/ Reset \/ Unplug
=============================================================================
