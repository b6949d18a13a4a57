------------------------ MODULE QmiConnectionProofs ------------------------
(***************************************************************************)
(* What holds of the connection manager for any addresses, any families    *)
(* and any bounds.                                                         *)
(***************************************************************************)
EXTENDS QmiConnection, TLAPS

USE FamiliesAssumption, AddressesAssumption, BoundsAssumption
USE DEF AllFamilies

Names  == {"nas", "wds", "reset", "gone"}
Orders == {"START", "CHECK", "STOP"}
Stats  == {"unknown", "connected", "disconnected"}

\* TypeOK in three parts: the flags, what is queued, and the rest.
FlagsOK ==
  /\ attached \in BOOLEAN /\ ready \in BOOLEAN /\ ps \in BOOLEAN
  /\ allowed \in BOOLEAN /\ armed \in BOOLEAN /\ quitting \in BOOLEAN

QueuesOK == events \in Seq(Names) /\ signals \in Seq(Orders)

CallsOK ==
  /\ call \in [AllFamilies -> Addresses \cup {0}]
  /\ pc \in Phases
  /\ todo \subseteq Families
  /\ status \in [AllFamilies -> Stats]
  /\ held \in [AllFamilies -> BOOLEAN]
  /\ profile \in [AllFamilies -> Addresses \cup {0}]
  /\ link \in {-1, 0, 1}
  /\ iface \in [AllFamilies -> Addresses \cup {0}]
  /\ aged \subseteq AllFamilies
  /\ kept \in BOOLEAN
  /\ faults \in 0 .. MaxFaults

-----------------------------------------------------------------------------
(* Queues.                                                                 *)

LEMMA TellKeepsType ==
  ASSUME NEW e \in Names, events \in Seq(Names), Tell(e)
  PROVE  events' \in Seq(Names)
BY DEF Tell

LEMMA AppendKeepsType ==
  ASSUME NEW S, NEW q \in Seq(S), NEW x \in S
  PROVE  Append(q, x) \in Seq(S)
OBVIOUS

LEMMA TailKeepsType ==
  ASSUME NEW S, NEW q \in Seq(S), q # <<>>
  PROVE  Tail(q) \in Seq(S)
OBVIOUS

LEMMA QueuesInit == Init => QueuesOK
BY DEF Init, QueuesOK

LEMMA StepKeepsQueues == QueuesOK /\ [Next]_vars => QueuesOK'
<1> SUFFICES ASSUME QueuesOK, [Next]_vars PROVE QueuesOK'
  OBVIOUS
<1> USE DEF QueuesOK, socketVars
<1>1. CASE UNCHANGED vars
  BY <1>1 DEF vars
<1>2. CASE Around
  <2>1. CASE \E f \in Families : Drop(f) \/ Readdress(f)
    BY <2>1, TellKeepsType DEF Drop, Readdress, Names
  <2>2. CASE AttachMoves
    BY <2>2, TellKeepsType DEF AttachMoves, Names
  <2>3. CASE Indicate
    BY <2>3 DEF Indicate, Names
  <2>4. CASE ModemResets
    BY <2>4, TellKeepsType DEF ModemResets, Names
  <2>5. CASE Unplug
    BY <2>5, TellKeepsType DEF Unplug, Names
  <2>6. CASE Alarm
    BY <2>6, AppendKeepsType DEF Alarm, Orders
  <2>7. CASE Terminate
    BY <2>7, AppendKeepsType DEF Terminate, Orders
  <2>8. CASE Kill
    BY <2>8 DEF Kill
  <2>9. CASE Restart
    BY <2>9 DEF Restart, Boot
  <2>10. CASE TimePasses
    BY <2>10 DEF TimePasses
  <2> QED
    BY <1>2, <2>1, <2>2, <2>3, <2>4, <2>5, <2>6, <2>7, <2>8, <2>9, <2>10 DEF Around
<1>3. CASE Idle
  BY <1>3 DEF Idle, Orders
<1>4. CASE Work
  <2>1. CASE ReadStart \/ ReadCheck \/ ReadStop
    BY <2>1, TailKeepsType DEF ReadStart, ReadCheck, ReadStop, Read
  <2>2. CASE Dialed \/ CheckIp
    BY <2>2 DEF Dialed, CheckIp
  <2>3. ASSUME NEW f, Deactivate(f) PROVE events' \in Seq(Names)
    BY <2>3, TellKeepsType DEF Deactivate, Names
  <2>4. CASE Mismatch
    BY <2>3, <2>4 DEF Mismatch
  <2>5. CASE Checked \/ Registered \/ Started
    BY <2>5, AppendKeepsType DEF Checked, Registered, Started, Orders
  <2>6. CASE Quit
    BY <2>6 DEF Quit
  <2>7. CASE NetworkMoved \/ ModemGone
    BY <2>7, TailKeepsType DEF NetworkMoved, ModemGone, Event
  <2>8. CASE CallMoved
    BY <2>8, TailKeepsType, AppendKeepsType DEF CallMoved, Event, Orders
  <2>9. CASE ModemReset \/ Woken
    <3>1. CASE ModemReset BY <3>1 DEF ModemReset
    <3>2. CASE Woken      BY <3>2 DEF Woken
    <3> QED BY <2>9, <3>1, <3>2
  <2>10. ASSUME NEW f \in Families, Setup(f) PROVE QueuesOK'
    BY <2>10, TellKeepsType DEF Setup, Names
  <2>11. ASSUME NEW f \in Families, GetIp(f) \/ Query(f) PROVE QueuesOK'
    BY <2>11 DEF GetIp, Query
  <2>12. ASSUME NEW f \in Families, StopCall(f) PROVE QueuesOK'
    BY <2>3, <2>12 DEF StopCall
  <2> QED
    BY <1>4, <2>1, <2>2, <2>4, <2>5, <2>6, <2>7, <2>8, <2>9, <2>10, <2>11, <2>12 DEF Work
<1> QED BY <1>1, <1>2, <1>3, <1>4 DEF Next

-----------------------------------------------------------------------------
(* Flags.                                                                  *)

LEMMA FlagsInit == Init => FlagsOK
BY DEF Init, FlagsOK

LEMMA StepKeepsFlags == FlagsOK /\ [Next]_vars => FlagsOK'
<1> SUFFICES ASSUME FlagsOK, [Next]_vars PROVE FlagsOK'
  OBVIOUS
<1> USE DEF FlagsOK, modemVars, timeVars
<1>1. CASE UNCHANGED vars
  BY <1>1, Zenon DEF vars
<1>2. CASE Around
  BY <1>2, Zenon DEF Around, Drop, Readdress, AttachMoves, Indicate, ModemResets, Unplug,
     Alarm, Terminate, Kill, Restart, Boot, TimePasses
<1>3. CASE Idle
  BY <1>3, Zenon DEF Idle
<1>4. CASE ReadStart \/ ReadCheck \/ ReadStop
  BY <1>4, Zenon DEF ReadStart, Ignored, ReadCheck, ReadStop
<1>5. CASE Dialed \/ Checked
  BY <1>5, Zenon DEF Dialed, Checked, Done
<1>6. CASE CheckIp \/ Mismatch \/ Quit \/ NetworkMoved \/ ModemGone
  BY <1>6, Zenon DEF CheckIp, Mismatch, Quit, NetworkMoved, ModemGone
<1>7. CASE Registered \/ Started
  BY <1>7, Zenon DEF Registered, Started, Registration
<1>8. CASE CallMoved \/ ModemReset \/ Woken
  BY <1>8, Zenon DEF CallMoved, ModemReset, Woken
<1>9. CASE \E f \in Families : Setup(f) \/ GetIp(f) \/ Query(f) \/ StopCall(f)
  BY <1>9, Zenon DEF Setup, GetIp, Query, StopCall
<1> QED
  BY <1>1, <1>2, <1>3, <1>4, <1>5, <1>6, <1>7, <1>8, <1>9 DEF Next, Work
-----------------------------------------------------------------------------
(* Calls, the interface, and where main is.                                *)

LEMMA FaultKeepsType ==
  ASSUME faults \in 0 .. MaxFaults, Fault \/ UNCHANGED faults
  PROVE  faults' \in 0 .. MaxFaults
BY DEF Fault

\* A request that fails or is aborted costs at most one fault.
LEMMA RequestFaults ==
  ASSUME NEW u, Fails(u) \/ Aborted
  PROVE  Fault \/ UNCHANGED faults
BY DEF Fails, Aborted

LEMMA DeactivateKeepsType ==
  ASSUME NEW f \in AllFamilies, CallsOK, Deactivate(f)
  PROVE  /\ call' \in [AllFamilies -> Addresses \cup {0}]
         /\ held' \in [AllFamilies -> BOOLEAN]
         /\ faults' \in 0 .. MaxFaults
<1>1. faults' \in 0 .. MaxFaults
  BY RequestFaults, FaultKeepsType DEF Deactivate, CallsOK
<1>2. call' = call \/ call' = [call EXCEPT ![f] = 0]
  BY DEF Deactivate
<1>3. held' = held \/ held' = [held EXCEPT ![f] = FALSE]
  BY DEF Deactivate
<1>4. call' \in [AllFamilies -> Addresses \cup {0}]
  BY <1>2 DEF CallsOK
<1>5. held' \in [AllFamilies -> BOOLEAN]
  BY <1>3 DEF CallsOK
<1> QED BY <1>1, <1>4, <1>5

LEMMA LinkChangeKeepsType ==
  ASSUME CallsOK, NEW l \in {0, 1, link}, LinkChange(l)
  PROVE  /\ link' \in {-1, 0, 1} /\ iface' \in [AllFamilies -> Addresses \cup {0}]
         /\ aged' \subseteq AllFamilies /\ kept' \in BOOLEAN
BY DEF LinkChange, Configured, None, CallsOK

LEMMA CallsInit == Init => CallsOK
<1> SUFFICES ASSUME Init PROVE CallsOK
  OBVIOUS
<1>1. faults \in 0 .. MaxFaults /\ link \in {-1, 0, 1} /\ todo \subseteq Families
  BY BoundsAssumption DEF Init
<1>2. kept \in BOOLEAN /\ aged \subseteq AllFamilies
  BY DEF Init
<1> QED BY <1>1, <1>2 DEF Init, CallsOK, None, Phases, Stats

LEMMA AroundKeepsCalls == ASSUME CallsOK, Around PROVE CallsOK'
<1> USE DEF CallsOK, Phases, callVars, linkVars, modemVars, None
<1>1. ASSUME NEW f \in Families, Drop(f) PROVE CallsOK'
  BY <1>1, FaultKeepsType DEF Drop
<1>2. ASSUME NEW f \in Families, Readdress(f) PROVE CallsOK'
  BY <1>2, FaultKeepsType DEF Readdress
<1>3. CASE AttachMoves
  BY <1>3, FaultKeepsType DEF AttachMoves
<1>4. CASE Indicate
  BY <1>4 DEF Indicate
<1>5. CASE ModemResets
  BY <1>5, FaultKeepsType DEF ModemResets
<1>6. CASE Unplug
  BY <1>6, FaultKeepsType DEF Unplug
<1>7. CASE Alarm
  BY <1>7 DEF Alarm
<1>8. CASE Terminate
  BY <1>8, FaultKeepsType DEF Terminate
<1>9. CASE Kill
  BY <1>9, FaultKeepsType DEF Kill
<1>10. CASE Restart
  BY <1>10 DEF Restart, Boot, Stats
<1>11. CASE TimePasses
  BY <1>11 DEF TimePasses
<1> QED
  BY <1>1, <1>2, <1>3, <1>4, <1>5, <1>6, <1>7, <1>8, <1>9, <1>10, <1>11 DEF Around

LEMMA RequestsKeepCalls ==
  ASSUME CallsOK, NEW f \in Families, Setup(f) \/ GetIp(f) \/ Query(f) \/ StopCall(f)
  PROVE  CallsOK'
<1>1. CASE Setup(f)
  <2>1. faults' \in 0 .. MaxFaults
    BY <1>1, RequestFaults, FaultKeepsType DEF Setup, CallsOK
  <2>2. call' = call \/ \E a \in Addresses : call' = [call EXCEPT ![f] = a]
    BY <1>1 DEF Setup
  <2>3. held' = held \/ held' = [held EXCEPT ![f] = TRUE]
    BY <1>1 DEF Setup
  <2>4. pc' \in Phases /\ todo' \subseteq Families
    BY <1>1 DEF Setup, CallsOK, Phases
  <2>5. call' \in [AllFamilies -> Addresses \cup {0}] /\ held' \in [AllFamilies -> BOOLEAN]
    <3>1. call' \in [AllFamilies -> Addresses \cup {0}]
      BY <2>2 DEF CallsOK
    <3>2. held' \in [AllFamilies -> BOOLEAN]
      BY <2>3 DEF CallsOK
    <3> QED BY <3>1, <3>2
  <2>6. UNCHANGED <<status, profile, link, iface, kept>> /\ aged' \subseteq AllFamilies
    BY <1>1 DEF Setup, CallsOK
  <2> QED BY <2>1, <2>4, <2>5, <2>6 DEF CallsOK
<1>2. CASE GetIp(f)
  <2>1. faults' \in 0 .. MaxFaults
    BY <1>2, RequestFaults, FaultKeepsType DEF GetIp, CallsOK
  <2>2. profile' \in [AllFamilies -> Addresses \cup {0}]
    BY <1>2 DEF GetIp, CallsOK
  <2>3. status' = status \/ status' = [status EXCEPT ![f] = "connected"]
    BY <1>2 DEF GetIp
  <2> QED BY <1>2, <2>1, <2>2, <2>3 DEF GetIp, CallsOK, Phases, Stats, linkVars, modemVars
<1>3. CASE Query(f)
  <2>1. faults' \in 0 .. MaxFaults
    BY <1>3, RequestFaults, FaultKeepsType DEF Query, CallsOK
  <2>2. status' \in [AllFamilies -> Stats]
    <3>1. \/ UNCHANGED status
          \/ status' = [status EXCEPT ![f] = "connected"]
          \/ status' = [status EXCEPT ![f] = "disconnected"]
          \/ status' = [status EXCEPT ![f] = "unknown"]
      BY <1>3, Zenon DEF Query
    <3> QED BY <3>1 DEF CallsOK, Stats
  <2>4. held' \in [AllFamilies -> BOOLEAN]
    <3>1. \/ UNCHANGED held
          \/ held' = [held EXCEPT ![f] = held[f] /\ call[f] # 0]
          \/ held' = [held EXCEPT ![f] = FALSE]
      BY <1>3, Zenon DEF Query
    <3>2. (held[f] /\ call[f] # 0) \in BOOLEAN
      OBVIOUS
    <3> QED BY <3>1, <3>2, Zenon DEF CallsOK
  <2>3. pc' \in Phases /\ todo' \subseteq Families
    BY <1>3 DEF Query, CallsOK, Phases
  <2> QED BY <1>3, <2>1, <2>2, <2>3, <2>4 DEF Query, CallsOK, linkVars, modemVars
<1>4. CASE StopCall(f)
  BY <1>4, DeactivateKeepsType DEF StopCall, CallsOK, linkVars
<1> QED BY <1>1, <1>2, <1>3, <1>4

LEMMA HandlersKeepCalls ==
  ASSUME CallsOK,
         \/ ReadStart \/ Dialed \/ ReadCheck \/ CheckIp \/ Mismatch \/ Checked
         \/ ReadStop \/ Quit
  PROVE  CallsOK'
<1> USE DEF Phases, callVars, linkVars, modemVars
<1>1. CASE ReadStart
  BY <1>1 DEF ReadStart, Read, Ignored, Disconnected, CallsOK
<1>2. CASE Dialed
  BY <1>2 DEF Dialed, Done, CallsOK
<1>3. CASE ReadCheck
  BY <1>3 DEF ReadCheck, CallsOK, Stats
<1>4. CASE CheckIp
  <2>1. faults' \in 0 .. MaxFaults
    BY <1>4, RequestFaults, FaultKeepsType DEF CheckIp, CallsOK
  <2> QED BY <1>4, <2>1 DEF CheckIp, CallsOK
<1>5. CASE Mismatch
  BY <1>5, DeactivateKeepsType DEF Mismatch, CallsOK, Stats
<1>6. CASE Checked
  <2>1. /\ link' \in {-1, 0, 1} /\ iface' \in [AllFamilies -> Addresses \cup {0}]
        /\ aged' \subseteq AllFamilies /\ kept' \in BOOLEAN
    BY <1>6, LinkChangeKeepsType DEF Checked, LinkWanted
  <2> QED BY <1>6, <2>1 DEF Checked, Done, CallsOK
<1>7. CASE ReadStop
  BY <1>7 DEF ReadStop, CallsOK
<1>8. CASE Quit
  <2>1. /\ link' \in {-1, 0, 1} /\ iface' \in [AllFamilies -> Addresses \cup {0}]
        /\ aged' \subseteq AllFamilies /\ kept' \in BOOLEAN
    BY <1>8, LinkChangeKeepsType DEF Quit
  <2> QED BY <1>8, <2>1 DEF Quit, None, CallsOK
<1> QED BY <1>1, <1>2, <1>3, <1>4, <1>5, <1>6, <1>7, <1>8

LEMMA EventsKeepCalls ==
  ASSUME CallsOK,
         \/ NetworkMoved \/ Registered \/ Started \/ CallMoved \/ ModemReset \/ Woken
         \/ ModemGone
  PROVE  CallsOK'
<1> USE DEF Phases, callVars, linkVars, modemVars
<1>1. CASE NetworkMoved
  BY <1>1 DEF NetworkMoved, CallsOK
<1>2. ASSUME Registration PROVE faults' \in 0 .. MaxFaults
  BY <1>2, RequestFaults, FaultKeepsType DEF Registration, CallsOK
<1>3. CASE Registered
  BY <1>2, <1>3 DEF Registered, CallsOK
<1>4. CASE Started
  BY <1>2, <1>4 DEF Started, CallsOK
<1>5. CASE CallMoved
  BY <1>5 DEF CallMoved, CallsOK
<1>6. CASE ModemReset
  BY <1>6 DEF ModemReset, CallsOK
<1>7. CASE Woken
  BY <1>7, FaultKeepsType DEF Woken, None, CallsOK
<1>8. CASE ModemGone
  <2>1. /\ link' \in {-1, 0, 1} /\ iface' \in [AllFamilies -> Addresses \cup {0}]
        /\ aged' \subseteq AllFamilies /\ kept' \in BOOLEAN
    BY <1>8, LinkChangeKeepsType DEF ModemGone
  <2> QED BY <1>8, <2>1 DEF ModemGone, CallsOK
<1> QED BY <1>1, <1>3, <1>4, <1>5, <1>6, <1>7, <1>8

LEMMA StepKeepsCalls == CallsOK /\ [Next]_vars => CallsOK'
<1> SUFFICES ASSUME CallsOK, [Next]_vars PROVE CallsOK'
  OBVIOUS
<1>1. CASE UNCHANGED vars
  BY <1>1 DEF vars, callVars, linkVars, modemVars, CallsOK
<1>2. CASE Idle
  BY <1>2 DEF Idle, callVars, linkVars, modemVars, CallsOK
<1> QED
  BY <1>1, <1>2, AroundKeepsCalls, RequestsKeepCalls, HandlersKeepCalls, EventsKeepCalls
  DEF Next, Work

-----------------------------------------------------------------------------
\* The status words, queues and addresses of main.c stay within their types.
THEOREM TypeCorrect == Spec => []TypeOK
<1>1. FlagsOK /\ QueuesOK /\ CallsOK => TypeOK
  BY DEF FlagsOK, QueuesOK, CallsOK, TypeOK, Names, Orders, Stats
<1> QED
  BY <1>1, FlagsInit, StepKeepsFlags, QueuesInit, StepKeepsQueues, CallsInit,
     StepKeepsCalls, PTL DEF Spec

-----------------------------------------------------------------------------
(* The interface.                                                          *)

Checks == {"query", "checkip", "mismatch"}

\* Why NoStaleAddress is not inductive: that no call is set up, and none has its
\* address read, under an interface that is up rests on what main believes of
\* its calls.  Only enabled families are connected, and a check starts by saying
\* so.  With one family enabled, and unless a check has left the interface up
\* without knowing (kept), the family is connected between checks as long as the
\* interface is up; and it is only set up when it is not connected.
LinkInv ==
  /\ \A f \in AllFamilies \ Families :
       /\ status[f] # "connected"
       /\ pc \in Checks => status[f] = "disconnected"
  /\ Families # AllFamilies =>
       /\ link = 1 /\ ~kept /\ pc \notin Checks \cup {"down"} =>
            \A f \in Families : status[f] = "connected"
       /\ pc \in {"setup", "getip"} => \A f \in todo : status[f] # "connected"
       /\ pc = "getip" => todo # {}

Inv == CallsOK /\ LinkInv /\ NoStaleAddress

LEMMA InvInit == Init => Inv
BY CallsInit DEF Init, Inv, LinkInv, Checks, NoStaleAddress, AddressIsNew

LEMMA RequestsKeepLink ==
  ASSUME Inv, NEW f \in Families, Setup(f) \/ GetIp(f) \/ Query(f) \/ StopCall(f)
  PROVE  LinkInv'
<1> USE DEF Inv, CallsOK, LinkInv, Checks, linkVars
<1>1. CASE Setup(f)
  <2>1. /\ UNCHANGED <<status, link, kept>> /\ pc = "setup" /\ pc' \in {"setup", "getip"}
        /\ todo' \subseteq todo /\ (pc' = "getip" => todo' # {})
    BY <1>1 DEF Setup
  <2> QED BY <2>1
<1>2. CASE GetIp(f)
  <2>1. status' = status \/ status' = [status EXCEPT ![f] = "connected"]
    BY <1>2 DEF GetIp
  <2>2. UNCHANGED <<link, kept>> /\ pc = "getip" /\ pc' = "setup" /\ todo' = todo \ {f}
    BY <1>2 DEF GetIp
  <2> QED BY <2>1, <2>2
<1>3. CASE Query(f)
  <2>1. status' = status \/ \E x \in Stats : status' = [status EXCEPT ![f] = x]
    BY <1>3, Zenon DEF Query, Stats
  <2>2. UNCHANGED <<link, kept>> /\ pc = "query" /\ pc' \in Checks
    BY <1>3 DEF Query
  <2> QED BY <2>1, <2>2
<1>4. CASE StopCall(f)
  BY <1>4 DEF StopCall
<1> QED BY <1>1, <1>2, <1>3, <1>4

LEMMA OneFamily ==
  ASSUME Families # AllFamilies
  PROVE  \E g \in AllFamilies : Families = {g}
<1>1. CASE "v4" \in Families
  <2>1. Families = {"v4"} BY <1>1
  <2> QED BY <2>1
<1>2. CASE "v4" \notin Families
  <2>1. Families = {"v6"} BY <1>2
  <2> QED BY <2>1
<1> QED BY <1>1, <1>2

LEMMA CheckKeepsLink ==
  ASSUME Inv, ReadCheck \/ CheckIp \/ Mismatch \/ Checked
  PROVE  LinkInv'
<1> USE DEF Inv, CallsOK, LinkInv, Checks, callVars, linkVars
<1>1. CASE ReadCheck
  BY <1>1 DEF ReadCheck, Read
<1>2. CASE CheckIp
  BY <1>2 DEF CheckIp
<1>3. CASE Mismatch
  <2>1. status' = [status EXCEPT !["v4"] = "disconnected"] /\ UNCHANGED <<link, kept>>
        /\ pc = "mismatch" /\ pc' = "query"
    BY <1>3 DEF Mismatch
  <2> QED BY <2>1
<1>4. CASE Checked
  <2>1. UNCHANGED status /\ pc = "query" /\ pc' \in {"poll", "event"} /\ link' = LinkWanted
        /\ (link' = 1 /\ link = 1 /\ ~kept' => \A f \in Families : status[f] # "unknown")
    BY <1>4 DEF Checked, Done, LinkChange
  <2>2. ASSUME Families # AllFamilies, link' = 1, ~kept'
        PROVE  \A f \in Families : status[f] = "connected"
    <3>1. PICK g \in AllFamilies : Families = {g}
      BY <2>2, OneFamily
    <3>2. \A f \in AllFamilies : f # g => status[f] = "disconnected"
      BY <2>1, <3>1
    <3>3. Up \/ (link = 1 /\ status[g] # "disconnected")
      BY <2>1, <2>2, <3>2 DEF LinkWanted
    <3>4. CASE Up
      BY <3>1, <3>2, <3>4 DEF Up
    <3>5. CASE link = 1 /\ status[g] # "disconnected"
      BY <2>1, <2>2, <3>1, <3>5 DEF Stats
    <3> QED BY <2>2, <3>3, <3>4, <3>5
  <2> QED BY <2>1, <2>2
<1> QED BY <1>1, <1>2, <1>3, <1>4

LEMMA HandlersKeepLink ==
  ASSUME Inv,
         \/ ReadStart \/ Dialed \/ ReadStop \/ Quit \/ NetworkMoved \/ Registered
         \/ Started \/ CallMoved \/ ModemReset \/ Woken \/ ModemGone \/ Idle
  PROVE  LinkInv'
<1> USE DEF Inv, CallsOK, LinkInv, Checks, callVars, linkVars
<1>1. CASE ReadStart
  BY <1>1 DEF ReadStart, Read, Ignored, Disconnected
<1>2. CASE Dialed
  BY <1>2 DEF Dialed, Done
<1>3. CASE ReadStop \/ NetworkMoved \/ Registered \/ Started \/ CallMoved \/ Idle
  <2>1. UNCHANGED <<status, link, kept>> /\ pc \notin Checks \cup {"down"}
        /\ pc' \in {"stop", "registration", "poll"}
    BY <1>3 DEF ReadStop, Read, NetworkMoved, Event, Registered, Started, CallMoved, Idle,
       Silence
  <2> QED BY <2>1
<1>4. CASE Quit \/ ModemReset \/ ModemGone
  <2>1. UNCHANGED status /\ link' = 0 /\ pc' \in {"down", "sleep"}
    BY <1>4 DEF Quit, ModemReset, ModemGone, LinkChange
  <2> QED BY <2>1
<1>5. CASE Woken
  <2>1. UNCHANGED <<status, link, kept>> /\ pc = "sleep" /\ pc' \in {"boot", "down"}
    BY <1>5 DEF Woken
  <2> QED BY <2>1
<1> QED BY <1>1, <1>2, <1>3, <1>4, <1>5

LEMMA AroundKeepsLink ==
  ASSUME Inv, Around
  PROVE  LinkInv'
<1> USE DEF Inv, CallsOK, LinkInv, Checks, callVars, linkVars
<1>1. CASE Restart
  BY <1>1 DEF Restart, Boot
<1>2. CASE Kill
  BY <1>2 DEF Kill
<1>3. ASSUME UNCHANGED <<status, link, kept, pc, todo>> PROVE LinkInv'
  BY <1>3
<1>4. CASE ~Restart /\ ~Kill
  <2>1. UNCHANGED <<status, link, kept, pc, todo>>
    BY <1>4 DEF Around, Drop, Readdress, AttachMoves, Indicate, ModemResets, Unplug,
       Alarm, Terminate, TimePasses
  <2> QED BY <1>3, <2>1
<1> QED BY <1>1, <1>2, <1>4

\* A request is made for a family the handler has still to do.
LEMMA CurrentTodo == ASSUME CallsOK, todo # {} PROVE Current \in todo
BY DEF CallsOK, Current

\* While calls are set up and their addresses read, the interface is not up, or
\* was kept up.
LEMMA DialsUnderNoLink ==
  ASSUME Inv, Families # AllFamilies, todo # {}, pc \in {"setup", "getip"}
  PROVE  link # 1 \/ kept
<1>1. Current \in todo /\ Current \in Families
  BY CurrentTodo DEF Inv, CallsOK
<1>2. status[Current] # "connected"
  BY <1>1 DEF Inv, LinkInv
<1>3. pc \notin Checks \cup {"down"}
  BY DEF Checks
<1> QED BY <1>1, <1>2, <1>3 DEF Inv, LinkInv

\* The interface comes up with the addresses of the profile; taken down, it has
\* none.
LEMMA LinkChangeKeepsFresh ==
  ASSUME Inv, NEW l, LinkChange(l), UNCHANGED profile
  PROVE  NoStaleAddress'
BY DEF Inv, NoStaleAddress, AddressIsNew, LinkChange

LEMMA StepKeepsFresh ==
  ASSUME Inv, [Next]_vars
  PROVE  NoStaleAddress'
<1> USE DEF callVars, linkVars
<1>1. ASSUME NEW f \in Families, Setup(f) PROVE NoStaleAddress'
  <2>1. UNCHANGED <<link, kept, profile>> /\ pc = "setup" /\ todo # {}
    BY <1>1 DEF Setup
  <2> QED BY <2>1, DialsUnderNoLink DEF NoStaleAddress, AddressIsNew
<1>2. ASSUME NEW f \in Families, GetIp(f) PROVE NoStaleAddress'
  <2>1. UNCHANGED <<link, kept>> /\ pc = "getip"
    BY <1>2 DEF GetIp
  <2>2. Families # AllFamilies => todo # {}
    BY <2>1 DEF Inv, LinkInv
  <2> QED BY <2>1, <2>2, DialsUnderNoLink DEF NoStaleAddress, AddressIsNew
<1>3. CASE Checked \/ Quit \/ ModemGone
  BY <1>3, LinkChangeKeepsFresh DEF Checked, Quit, ModemGone
<1>4. CASE ModemReset
  BY <1>4 DEF ModemReset, NoStaleAddress, AddressIsNew
<1>5. CASE Restart
  BY <1>5 DEF Restart, Boot, NoStaleAddress, AddressIsNew
<1>6. ASSUME UNCHANGED <<link, kept, profile, aged>> PROVE NoStaleAddress'
  BY <1>6 DEF Inv, NoStaleAddress, AddressIsNew
<1>7. CASE Around
  BY <1>5, <1>6, <1>7 DEF Around, Drop, Readdress, AttachMoves, Indicate, ModemResets, Unplug,
     Alarm, Terminate, Kill, TimePasses
<1>8. CASE UNCHANGED vars \/ Idle
  BY <1>6, <1>8 DEF vars, Idle
<1>9. ASSUME NEW f \in Families, Query(f) \/ StopCall(f) PROVE NoStaleAddress'
  BY <1>6, <1>9 DEF Query, StopCall
<1>10. CASE \/ ReadStart \/ Dialed \/ ReadCheck \/ CheckIp \/ Mismatch \/ ReadStop
            \/ NetworkMoved \/ Registered \/ Started \/ CallMoved \/ Woken
  BY <1>6, <1>10 DEF ReadStart, Dialed, ReadCheck, CheckIp, Mismatch, ReadStop,
     NetworkMoved, Registered, Started, CallMoved, Woken
<1> QED BY <1>1, <1>2, <1>3, <1>4, <1>7, <1>8, <1>9, <1>10 DEF Next, Work

LEMMA StepKeepsInv == Inv /\ [Next]_vars => Inv'
<1> SUFFICES ASSUME Inv, [Next]_vars PROVE LinkInv'
  BY StepKeepsCalls, StepKeepsFresh DEF Inv
<1>1. CASE UNCHANGED vars
  BY <1>1 DEF vars, callVars, linkVars, Inv, LinkInv
<1> QED
  BY <1>1, RequestsKeepLink, CheckKeepsLink, HandlersKeepLink, AroundKeepsLink DEF Next, Work

-----------------------------------------------------------------------------
\* For any bounds and addresses: with one family enabled, and unless a check has
\* left it up under a status neither up nor down, the interface main has up is
\* not left with the address of an earlier call (main.c:585-590, 653-671).
THEOREM NoEarlierAddress == Spec => []NoStaleAddress
<1>1. Inv => NoStaleAddress
  BY DEF Inv
<1>2. Inv /\ [Next]_vars => Inv'
  BY StepKeepsInv
<1> QED BY InvInit, <1>1, <1>2, PTL DEF Spec
=============================================================================
