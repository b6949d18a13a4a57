------------------------- MODULE QmiMultiplexProofs -------------------------
(***************************************************************************)
(* Theorems about QmiMultiplex for any number of processes, services and   *)
(* client ids.                                                             *)
(***************************************************************************)
EXTENDS QmiMultiplex, WellFoundedInduction, SequenceTheorems, FiniteSetTheorems, TLAPS

-----------------------------------------------------------------------------
(* What travels.                                                           *)

\* The transaction id of a process's CTL request tells which request it is.
OfProcess(m) ==
  /\ m.own # Proxy
  /\ \/ m.msg = "version" /\ m.svc = CTL /\ m.tid = 1
     \/ m.msg = "get" /\ m.svc = CTL /\ m.of \in 1 .. Services /\ m.tid = m.of + 1
     \/ m.msg = "release" /\ m.svc = CTL /\ m.of \in 1 .. Services /\ m.id # 0
        /\ m.tid \in Services + 2 .. 2 * Services + 1
     \/ m.msg = "work" /\ m.svc \in 1 .. Services /\ m.id # 0

OfProxy(m) ==
  /\ m.own \in {Proxy, NoOne} /\ m.tid >= FirstTid
  /\ \/ m.msg \in {"sync", "version"} /\ m.svc = CTL
     \/ m.msg = "get" /\ m.svc = CTL /\ m.of = WDA
     \/ m.msg = "format" /\ m.svc = WDA

FromProcess == {m \in Message : m.flag = "req" /\ OfProcess(m)}
FromProxy   == {m \in Message : m.flag = "req" /\ OfProxy(m)}
Asked   == FromProcess \cup FromProxy
Answers == {m \in Message : /\ m.flag = "rsp" /\ (OfProcess(m) \/ OfProxy(m))
                            /\ m.msg = "get" /\ m.ok => m.id # 0}
Notices == {m \in Message : /\ m.own = NoOne /\ m.svc = CTL /\ m.tid = 0
                            /\ \/ m.msg = "sync" /\ m.flag = "ind"
                               \/ m.msg = "revoke" /\ m.flag \in {"rsp", "ind"} /\ m.of = 0}
Told    == Answers \cup Notices
Entry   == [fd : Clients, m : {m \in FromProcess : m.svc = CTL}]

Traffic ==
  /\ up \in [Clients -> Seq(FromProcess)] /\ down \in [Clients -> Seq(Told)]
  /\ toModem \in Seq(Asked) /\ fromModem \in Seq(Told)
  /\ queue \in Seq(Entry)

-----------------------------------------------------------------------------
(* The processes and the proxy.                                            *)

\* How far a process has come tells how many requests it has made, and which ids
\* it can hold.
Started(st) == IF st = "call" THEN 0 ELSE 1
Fine(ph, sv, st, n, t, x) ==
  /\ ph \in {"get", "work", "release"} <=> sv # 0
  /\ ph \in {"off", "idle"} => st = "call"
  /\ ph \in {"off", "version"} => n = 1 + Started(st) /\ x = NoIds
  /\ ph = "get" => n = sv + 1 + Started(st) /\ \A s \in 1 .. Services : s >= sv => x[s] = 0
  /\ ph \in {"idle", "work"} => n = Services + 2
  /\ ph = "work" => x[sv] # 0
  /\ ph = "release" => /\ n \in Services + 2 + Started(st) .. Services + 1 + sv + Started(st)
                       /\ x[sv] # 0 /\ \A s \in 1 .. Services : s < sv => x[s] = 0
  /\ st # "call" /\ ph # "work" => t = n - 1

Phases == {"off", "version", "get", "idle", "work", "release"}
Steps  == {"call", "wait", "got"}
IdSets == [1 .. Services -> 0 .. MaxId]

Processes ==
  /\ lives \in 0 .. MaxLives
  /\ phase \in [Clients -> Phases]
  /\ svc \in [Clients -> 0 .. Services]
  /\ step \in [Clients -> Steps]
  /\ rsp \in [Clients -> Told \cup {NoAnswer}]
  /\ ctid \in [Clients -> Nat]
  /\ tid \in [Clients -> 0 .. MaxTid + 2 * Services + 1]
  /\ ids \in [Clients -> IdSets]
  /\ \A c \in Clients : Fine(phase[c], svc[c], step[c], ctid[c], tid[c], ids[c])

\* Requests of the preparation up to a stage.
Preparing ==
  /\ sent <= MaxSyncs + stage - 2 + (IF waiting THEN 1 ELSE 0)
  /\ waiting => mode = "init" /\ stage < 5
  /\ mode = "join" => stage = 5
  /\ server <=> mode = "join"

Prepares ==
  /\ mode \in {"open", "init", "join", "ended"}
  /\ server \in BOOLEAN /\ loop \in BOOLEAN
  /\ stage \in 1 .. 5 /\ sent \in Nat /\ tries \in 0 .. MaxTries
  /\ waiting \in BOOLEAN /\ got \in Told \cup {NoAnswer}
  /\ quit \in BOOLEAN /\ resetFlag \in BOOLEAN
  /\ reg \in [Clients -> SUBSET ((1 .. WDA) \X (1 .. MaxId))]
  /\ Preparing

Bus ==
  /\ link \in [Clients -> {"free", "waiting", "up", "left", "cut"}]
  /\ present \in BOOLEAN
  /\ used \in [1 .. Services -> SUBSET (1 .. MaxId)]
  /\ odd \subseteq {"slip", "lost", "reset", "late"}
  /\ faults \in 0 .. MaxFaults

TypeInv == Traffic /\ Processes /\ Prepares /\ Bus

-----------------------------------------------------------------------------
(* Facts about messages and sequences.                                     *)

LEMMA MessageTypes ==
  /\ Asked \subseteq Message /\ Told \subseteq Message /\ FromProcess \subseteq Asked
  /\ \A e \in Entry : e.fd \in Clients /\ e.m \in FromProcess /\ e.m.svc = CTL
  /\ NoAnswer \in Message
BY SizesAssumption DEF SizesAssumption, Asked, Told, FromProcess, FromProxy, Answers, Notices, Entry, Message, NoAnswer, Ask, CTL, Proxy,
       NoOne, Tids, WDA

LEMMA AskIsMessage ==
  ASSUME NEW sv \in 0 .. WDA, NEW k \in {"sync", "version", "get", "release", "format", "work", "revoke"},
         NEW of \in 0 .. WDA, NEW id \in 0 .. MaxId, NEW t \in Nat,
         NEW o \in Clients \cup {Proxy, NoOne}
  PROVE  /\ Ask(sv, k, of, id, t, o) \in Message
         /\ Ask(sv, k, of, id, t, o).svc = sv /\ Ask(sv, k, of, id, t, o).msg = k
         /\ Ask(sv, k, of, id, t, o).of = of /\ Ask(sv, k, of, id, t, o).id = id
         /\ Ask(sv, k, of, id, t, o).tid = t /\ Ask(sv, k, of, id, t, o).own = o
         /\ Ask(sv, k, of, id, t, o).flag = "req" /\ Ask(sv, k, of, id, t, o).ok
BY DEF Ask, Message, Tids

\* A message that is nobody's any more is otherwise the same.
Orphan(m) == [m EXCEPT !.own = NoOne]

LEMMA OrphanIsMessage ==
  ASSUME NEW m \in Message
  PROVE  /\ Orphan(m) \in Message /\ Orphan(m).own = NoOne
         /\ Orphan(m).svc = m.svc /\ Orphan(m).msg = m.msg /\ Orphan(m).of = m.of
         /\ Orphan(m).id = m.id /\ Orphan(m).tid = m.tid /\ Orphan(m).ok = m.ok
         /\ Orphan(m).flag = m.flag
BY DEF Message, Orphan

LEMMA OrphanTypes ==
  /\ \A m \in FromProcess : Orphan(m) \in FromProcess
  /\ \A m \in Asked : Orphan(m) \in Asked
  /\ \A m \in Told : Orphan(m) \in Told
<1>1. ASSUME NEW m \in FromProcess PROVE Orphan(m) \in FromProcess
  BY OrphanIsMessage DEF FromProcess, OfProcess, NoOne, Proxy
<1>2. ASSUME NEW m \in Asked PROVE Orphan(m) \in Asked
  BY <1>1, OrphanIsMessage DEF FromProxy, OfProxy, Asked
<1>3. ASSUME NEW m \in Told PROVE Orphan(m) \in Told
  <2>1. CASE m \in Answers
    BY <2>1, OrphanIsMessage DEF Answers, Told, OfProcess, OfProxy, NoOne, Proxy
  <2>2. CASE m \in Notices
    BY <2>2, OrphanIsMessage DEF Notices, Told
  <2> QED BY <2>1, <2>2 DEF Told
<1> QED BY <1>1, <1>2, <1>3

LEMMA DisownSeq ==
  ASSUME NEW S, NEW q \in Seq(S), NEW o, \A m \in S : Orphan(m) \in S
  PROVE  /\ Disown(q, o) \in Seq(S) /\ Len(Disown(q, o)) = Len(q)
         /\ DOMAIN Disown(q, o) = 1 .. Len(q) /\ DOMAIN q = 1 .. Len(q)
         /\ \A i \in 1 .. Len(q) :
              Disown(q, o)[i] = IF q[i].own = o THEN Orphan(q[i]) ELSE q[i]
<1> DEFINE f(m) == IF m.own = o THEN Orphan(m) ELSE m
<1>1. Disown(q, o) = [i \in 1 .. Len(q) |-> f(q[i])]
  BY DEF Disown, Orphan
<1>2. \A i \in 1 .. Len(q) : q[i] \in S /\ f(q[i]) \in S
  OBVIOUS
<1> HIDE DEF f
<1>3. Disown(q, o) \in Seq(S) /\ Len(Disown(q, o)) = Len(q)
  BY <1>1, <1>2
<1>4. \A i \in 1 .. Len(q) : Disown(q, o)[i] = f(q[i])
  BY <1>1
<1> QED BY <1>1, <1>3, <1>4 DEF f

LEMMA AppendSeq ==
  ASSUME NEW S, NEW q \in Seq(S), NEW x \in S
  PROVE  /\ Append(q, x) \in Seq(S) /\ Len(Append(q, x)) = Len(q) + 1
         /\ DOMAIN Append(q, x) = 1 .. Len(q) + 1 /\ DOMAIN q = 1 .. Len(q)
         /\ \A i \in 1 .. Len(q) : Append(q, x)[i] = q[i]
         /\ Append(q, x)[Len(q) + 1] = x
         /\ Len(q) \in Nat
OBVIOUS

LEMMA TailSeq ==
  ASSUME NEW S, NEW q \in Seq(S), q # <<>>
  PROVE  /\ Tail(q) \in Seq(S) /\ Head(q) \in S /\ Head(q) = q[1]
         /\ Len(q) \in Nat \ {0} /\ Len(Tail(q)) = Len(q) - 1
         /\ DOMAIN Tail(q) = 1 .. Len(q) - 1 /\ DOMAIN q = 1 .. Len(q)
         /\ \A i \in 1 .. Len(q) - 1 : Tail(q)[i] = q[i + 1]
OBVIOUS

-----------------------------------------------------------------------------
(* Type correctness: a process.                                            *)

\* What a process is.
Is(c) ==
  /\ phase[c] \in Phases /\ svc[c] \in 0 .. Services /\ step[c] \in Steps
  /\ rsp[c] \in Told \cup {NoAnswer} /\ ctid[c] \in Nat
  /\ tid[c] \in 0 .. MaxTid + 2 * Services + 1 /\ ids[c] \in IdSets
  /\ Fine(phase[c], svc[c], step[c], ctid[c], tid[c], ids[c])

LEMMA ProcessIs == ASSUME Processes, NEW c \in Clients PROVE Is(c)
BY DEF Processes, Is

\* No process but this one changes.
Only(c) ==
  /\ phase' = [phase EXCEPT ![c] = phase'[c]] /\ svc' = [svc EXCEPT ![c] = svc'[c]]
  /\ step' = [step EXCEPT ![c] = step'[c]] /\ rsp' = [rsp EXCEPT ![c] = rsp'[c]]
  /\ ctid' = [ctid EXCEPT ![c] = ctid'[c]] /\ tid' = [tid EXCEPT ![c] = tid'[c]]
  /\ ids' = [ids EXCEPT ![c] = ids'[c]]

LEMMA OneProcess ==
  ASSUME Processes, lives' \in 0 .. MaxLives, NEW c \in Clients, Only(c), Is(c)'
  PROVE  Processes'
<1>1. ASSUME NEW d \in Clients
      PROVE  Fine(phase'[d], svc'[d], step'[d], ctid'[d], tid'[d], ids'[d])
  <2>1. CASE d = c
    BY <2>1 DEF Is
  <2>2. CASE d # c
    <3>1. /\ phase'[d] = phase[d] /\ svc'[d] = svc[d] /\ step'[d] = step[d]
          /\ ctid'[d] = ctid[d] /\ tid'[d] = tid[d] /\ ids'[d] = ids[d]
      BY <2>2 DEF Processes, Only
    <3> QED BY <3>1 DEF Processes
  <2> QED BY <2>1, <2>2
<1>2. /\ phase' \in [Clients -> Phases] /\ svc' \in [Clients -> 0 .. Services]
      /\ step' \in [Clients -> Steps] /\ rsp' \in [Clients -> Told \cup {NoAnswer}]
  BY DEF Processes, Only, Is
<1>3. /\ ctid' \in [Clients -> Nat] /\ tid' \in [Clients -> 0 .. MaxTid + 2 * Services + 1]
      /\ ids' \in [Clients -> IdSets]
  BY DEF Processes, Only, Is
<1> QED BY <1>1, <1>2, <1>3 DEF Processes

\* The request of a process is one.
LEMMA RequestIn ==
  ASSUME TypeInv, NEW c \in Clients, phase[c] \notin {"off", "idle"}, step[c] = "call",
         phase[c] = "work" => mtid[c] \in 1 .. MaxTid
  PROVE  /\ Request(c) \in FromProcess /\ Request(c).own = c
         /\ Request(c).tid \in 0 .. MaxTid + 2 * Services + 1
         /\ phase[c] # "work" => Request(c).tid = ctid[c] /\ Request(c).svc = CTL
         /\ phase[c] = "work" => Request(c).svc = svc[c] /\ Request(c).id = ids[c][svc[c]]
         /\ Request(c).msg = phase[c]
         /\ phase[c] = "release" => Request(c).of = svc[c] /\ Request(c).id = ids[c][svc[c]]
         /\ phase[c] = "get" => Request(c).of = svc[c]
<1> USE SizesAssumption DEF SizesAssumption
<1>1. /\ phase[c] \in {"version", "get", "work", "release"}
      /\ svc[c] \in 0 .. Services /\ ctid[c] \in Nat /\ ids[c] \in [1 .. Services -> 0 .. MaxId]
      /\ Fine(phase[c], svc[c], step[c], ctid[c], tid[c], ids[c]) /\ Started(step[c]) = 0
      /\ c # Proxy /\ c \in Clients \cup {Proxy, NoOne} /\ WDA = Services + 1
  BY ProcessIs DEF TypeInv, Is, Started, Proxy, WDA, Phases, IdSets
<1>2. CASE phase[c] = "version"
  <2>1. Request(c) = Ask(CTL, "version", 0, 0, ctid[c], c)
    BY <1>2 DEF Request
  <2>2. ctid[c] = 1
    BY <1>1, <1>2 DEF Fine
  <2>3. CTL \in 0 .. WDA /\ 0 \in 0 .. WDA /\ 0 \in 0 .. MaxId
    BY <1>1 DEF CTL
  <2>4. /\ Request(c) \in Message /\ Request(c).own = c /\ Request(c).flag = "req"
        /\ Request(c).svc = CTL /\ Request(c).msg = "version" /\ Request(c).of = 0
        /\ Request(c).id = 0 /\ Request(c).tid = ctid[c]
    <3>1. Request(c) \in Message
      BY <1>1, <2>1, <2>2, <2>3 DEF Ask, Message, Tids
    <3> QED BY <2>1, <3>1 DEF Ask
  <2>5. Request(c) \in FromProcess
    BY <1>1, <2>2, <2>4 DEF FromProcess, OfProcess
  <2> QED BY <1>1, <1>2, <2>2, <2>4, <2>5
<1>3. CASE phase[c] = "get"
  <2>1. Request(c) = Ask(CTL, "get", svc[c], 0, ctid[c], c)
    BY <1>3 DEF Request
  <2>2. svc[c] \in 1 .. Services /\ ctid[c] = svc[c] + 1
    BY <1>1, <1>3 DEF Fine
  <2>3. CTL \in 0 .. WDA /\ svc[c] \in 0 .. WDA /\ 0 \in 0 .. MaxId
    BY <1>1 DEF CTL
  <2>4. /\ Request(c) \in Message /\ Request(c).own = c /\ Request(c).flag = "req"
        /\ Request(c).svc = CTL /\ Request(c).msg = "get" /\ Request(c).of = svc[c]
        /\ Request(c).id = 0 /\ Request(c).tid = ctid[c]
    <3>1. Request(c) \in Message
      BY <1>1, <2>1, <2>2, <2>3 DEF Ask, Message, Tids
    <3> QED BY <2>1, <3>1 DEF Ask
  <2>5. Request(c) \in FromProcess
    BY <1>1, <2>2, <2>4 DEF FromProcess, OfProcess
  <2> QED BY <1>1, <1>3, <2>2, <2>4, <2>5
<1>4. CASE phase[c] = "release"
  <2>1. Request(c) = Ask(CTL, "release", svc[c], ids[c][svc[c]], ctid[c], c)
    BY <1>4 DEF Request
  <2>2. /\ svc[c] \in 1 .. Services /\ ctid[c] \in Services + 2 .. 2 * Services + 1
        /\ ids[c][svc[c]] \in 1 .. MaxId
    <3>1. svc[c] \in 1 .. Services /\ ids[c] \in [1 .. Services -> 0 .. MaxId] /\ ids[c][svc[c]] # 0
      BY <1>1, <1>4 DEF Fine
    <3>2. ctid[c] \in Services + 2 .. Services + 1 + svc[c]
      BY <1>1, <1>4 DEF Fine, Started
    <3>3. ids[c][svc[c]] \in 0 .. MaxId
      BY <3>1
    <3>4. ids[c][svc[c]] \in 1 .. MaxId
      BY <3>1, <3>3
    <3>5. Services \in Nat /\ ctid[c] \in Services + 2 .. 2 * Services + 1
      BY <3>1, <3>2, SizesAssumption DEF SizesAssumption
    <3> QED BY <3>1, <3>4, <3>5
  <2>3. CTL \in 0 .. WDA /\ svc[c] \in 0 .. WDA
    BY <1>1 DEF CTL
  <2>4. /\ Request(c) \in Message /\ Request(c).own = c /\ Request(c).flag = "req"
        /\ Request(c).svc = CTL /\ Request(c).msg = "release" /\ Request(c).of = svc[c]
        /\ Request(c).id = ids[c][svc[c]] /\ Request(c).tid = ctid[c]
    <3>1. Request(c) \in Message
      BY <1>1, <2>1, <2>2, <2>3 DEF Ask, Message, Tids
    <3> QED BY <2>1, <3>1 DEF Ask
  <2>5. Request(c) \in FromProcess
    <3>1. c # Proxy /\ ids[c][svc[c]] # 0
      BY <1>1, <2>2, SizesAssumption DEF Proxy, SizesAssumption
    <3> QED BY <2>2, <2>4, <3>1 DEF FromProcess, OfProcess
  <2> QED BY <1>1, <1>4, <2>2, <2>4, <2>5
<1>5. CASE phase[c] = "work"
  <2>1. Request(c) = Ask(svc[c], "work", 0, ids[c][svc[c]], mtid[c], c)
    BY <1>5 DEF Request
  <2>2. /\ svc[c] \in 1 .. Services /\ ids[c][svc[c]] \in 1 .. MaxId
        /\ mtid[c] \in 1 .. MaxTid
    BY <1>1, <1>5 DEF Fine
  <2>3. svc[c] \in 0 .. WDA /\ 0 \in 0 .. WDA
    BY <1>1
  <2>4. /\ Request(c) \in Message /\ Request(c).own = c /\ Request(c).flag = "req"
        /\ Request(c).svc = svc[c] /\ Request(c).msg = "work" /\ Request(c).of = 0
        /\ Request(c).id = ids[c][svc[c]] /\ Request(c).tid = mtid[c]
    <3>1. Request(c) \in Message
      BY <1>1, <2>1, <2>2, <2>3 DEF Ask, Message, Tids
    <3> QED BY <2>1, <3>1 DEF Ask
  <2>5. Request(c) \in FromProcess
    BY <1>1, <2>2, <2>4 DEF FromProcess, OfProcess
  <2> QED BY <1>1, <1>5, <2>2, <2>4, <2>5
<1> QED BY <1>1, <1>2, <1>3, <1>4, <1>5

LEMMA PreparesKept == Prepares /\ UNCHANGED <<mode, server, loop, initVars, quit, resetFlag, reg>> => Prepares'
BY DEF Prepares, Preparing, initVars

LEMMA TrafficKept == Traffic /\ UNCHANGED <<up, down, toModem, fromModem, queue>> => Traffic'
BY DEF Traffic

LEMMA ConnectType ==
  ASSUME TypeInv, NEW c \in Clients, Connect(c), UNCHANGED proxyVars
  PROVE  TypeInv'
<1>0. Processes /\ Traffic /\ Prepares /\ Bus /\ Is(c)
  BY ProcessIs DEF TypeInv
<1>1. /\ phase[c] = "off" /\ phase' = [phase EXCEPT ![c] = "version"]
      /\ link' = [link EXCEPT ![c] = "waiting"] /\ lives' \in 0 .. MaxLives
      /\ UNCHANGED <<up, down, modemVars, odd, faults, svc, step, rsp, ctid, tid, ids>>
  BY <1>0, LivesAssumption DEF Connect, Set, Processes, LivesAssumption
<1>2. Only(c) /\ phase'[c] = "version"
  BY <1>0, <1>1 DEF Only, Processes
<1>3. Is(c)'
  BY <1>0, <1>1, <1>2 DEF Is, Fine, Started, Phases
<1>4. Traffic' /\ Prepares'
  BY <1>0, <1>1, TrafficKept, PreparesKept DEF proxyVars, modemVars
<1>5. Bus'
  BY <1>0, <1>1 DEF Bus, modemVars
<1> QED BY <1>0, <1>1, <1>2, <1>3, <1>4, <1>5, OneProcess DEF TypeInv

LEMMA CallType ==
  ASSUME TypeInv, NEW c \in Clients, Call(c), UNCHANGED proxyVars
  PROVE  TypeInv'
<1> DEFINE m == Request(c)
<1>0. Processes /\ Traffic /\ Prepares /\ Bus /\ Is(c)
  BY ProcessIs DEF TypeInv
<1>1. /\ phase[c] \notin {"off", "idle"} /\ step[c] = "call"
      /\ phase[c] = "work" => mtid[c] \in 1 .. MaxTid
      /\ \/ up' = up /\ step' = [step EXCEPT ![c] = "got"]
         \/ up' = [up EXCEPT ![c] = Append(up[c], m)] /\ step' = [step EXCEPT ![c] = "wait"]
      /\ tid' = [tid EXCEPT ![c] = m.tid]
      /\ \/ phase[c] = "work" /\ ctid' = ctid
         \/ phase[c] # "work" /\ ctid' = [ctid EXCEPT ![c] = ctid[c] + 1]
      /\ rsp' = [rsp EXCEPT ![c] = NoAnswer]
      /\ UNCHANGED <<link, down, modemVars, odd, faults, lives, phase, svc, ids>>
  BY DEF Call, Set
<1>2. /\ m \in FromProcess /\ m.tid \in 0 .. MaxTid + 2 * Services + 1
      /\ phase[c] # "work" => m.tid = ctid[c]
  BY <1>1, RequestIn
<1> HIDE DEF m
<1>3. up' \in [Clients -> Seq(FromProcess)]
  <2>1. up \in [Clients -> Seq(FromProcess)]
    BY <1>0 DEF Traffic
  <2>2. Append(up[c], m) \in Seq(FromProcess)
    BY <1>2, <2>1
  <2> QED BY <1>1, <2>1, <2>2
<1>4. Traffic' /\ Prepares' /\ Bus'
  BY <1>0, <1>1, <1>3, PreparesKept DEF Traffic, Bus, proxyVars, modemVars
<1>5. /\ step'[c] \in {"wait", "got"} /\ tid'[c] = m.tid /\ rsp'[c] = NoAnswer
      /\ phase[c] # "work" => ctid'[c] = ctid[c] + 1
      /\ phase[c] = "work" => ctid'[c] = ctid[c]
      /\ phase'[c] = phase[c] /\ svc'[c] = svc[c] /\ ids'[c] = ids[c]
  BY <1>0, <1>1 DEF Processes
<1>6. Only(c)
  BY <1>0, <1>1, <1>5 DEF Only, Processes
<1>7. Is(c)'
  <2>1. /\ phase'[c] \in Phases /\ svc'[c] \in 0 .. Services /\ step'[c] \in Steps
        /\ rsp'[c] \in Told \cup {NoAnswer} /\ ctid'[c] \in Nat
        /\ tid'[c] \in 0 .. MaxTid + 2 * Services + 1 /\ ids'[c] \in IdSets
    BY <1>0, <1>2, <1>5 DEF Is, Steps
  <2>2. Fine(phase[c], svc[c], step'[c], ctid'[c], m.tid, ids[c])
    <3>1. /\ Started(step[c]) = 0 /\ Started(step'[c]) = 1 /\ phase[c] \in Phases
          /\ Fine(phase[c], svc[c], step[c], ctid[c], tid[c], ids[c])
          /\ svc[c] \in 0 .. Services /\ ctid[c] \in Nat
      BY <1>0, <1>1, <1>5 DEF Is, Started
    <3>2. CASE phase[c] = "work"
      BY <1>5, <3>1, <3>2 DEF Fine
    <3>3. CASE phase[c] = "release"
      BY <1>2, <1>5, <3>1, <3>3, SizesAssumption DEF Fine, SizesAssumption
    <3>4. CASE phase[c] \in {"version", "get"}
      BY <1>2, <1>5, <3>1, <3>4 DEF Fine
    <3> QED BY <1>1, <3>1, <3>2, <3>3, <3>4 DEF Phases
  <2> QED BY <1>5, <2>1, <2>2 DEF Is
<1> QED BY <1>0, <1>1, <1>4, <1>6, <1>7, OneProcess DEF TypeInv, Processes

LEMMA ReceiveType ==
  ASSUME TypeInv, NEW c \in Clients, Receive(c), UNCHANGED proxyVars
  PROVE  TypeInv'
<1>0. Processes /\ Traffic /\ Prepares /\ Bus /\ Is(c)
  BY ProcessIs DEF TypeInv
<1>1. /\ phase[c] # "off" /\ down[c] # <<>> /\ down' = [down EXCEPT ![c] = Tail(down[c])]
      /\ \/ /\ step[c] = "wait" /\ rsp' = [rsp EXCEPT ![c] = Head(down[c])]
            /\ step' = [step EXCEPT ![c] = "got"]
         \/ UNCHANGED <<rsp, step>>
      /\ UNCHANGED <<link, up, modemVars, odd, faults, lives, phase, svc, ctid, tid, ids>>
  BY DEF Receive, Set
<1>2. Tail(down[c]) \in Seq(Told) /\ Head(down[c]) \in Told
  BY <1>0, <1>1, TailSeq DEF Traffic
<1>3. Traffic' /\ Prepares' /\ Bus'
  BY <1>0, <1>1, <1>2, PreparesKept DEF Traffic, Bus, proxyVars, modemVars
<1>4. Only(c) /\ Is(c)'
  <2>1. CASE UNCHANGED <<rsp, step>>
    <3>1. Only(c)
      BY <1>0, <1>1, <2>1 DEF Only, Processes
    <3> QED BY <1>0, <1>1, <2>1, <3>1 DEF Is
  <2>2. CASE /\ step[c] = "wait" /\ rsp' = [rsp EXCEPT ![c] = Head(down[c])]
             /\ step' = [step EXCEPT ![c] = "got"]
    <3>1. Only(c) /\ rsp'[c] = Head(down[c]) /\ step'[c] = "got"
      BY <1>0, <1>1, <2>2 DEF Only, Processes
    <3>2. Fine(phase[c], svc[c], "got", ctid[c], tid[c], ids[c])
      BY <1>0, <2>2 DEF Is, Fine, Started
    <3> QED BY <1>0, <1>1, <1>2, <3>1, <3>2 DEF Is, Steps
  <2> QED BY <1>1, <2>1, <2>2
<1> QED BY <1>0, <1>1, <1>3, <1>4, OneProcess DEF TypeInv, Processes

\* A request is over and the next one is due.
LEMMA NextRequestType ==
  ASSUME TypeInv, NEW c \in Clients, Version(c) \/ GetClientId(c) \/ Work(c) \/ Worked(c),
         UNCHANGED proxyVars
  PROVE  TypeInv'
<1>0. Processes /\ Traffic /\ Prepares /\ Bus /\ Is(c)
  BY ProcessIs DEF TypeInv
<1>1. UNCHANGED <<transportVars, lives, ctid>>
  BY DEF Version, GetClientId, Work, Worked, Quiet
<1>2. Traffic' /\ Prepares' /\ Bus'
  BY <1>0, <1>1, TrafficKept, PreparesKept DEF transportVars, modemVars, proxyVars, Bus
<1>3. ASSUME Consumed(c)
      PROVE  /\ step[c] = "got" /\ step' = [step EXCEPT ![c] = "call"]
             /\ rsp' = [rsp EXCEPT ![c] = NoAnswer] /\ tid' = [tid EXCEPT ![c] = 0]
             /\ Started(step[c]) = 1 /\ Started("call") = 0
             /\ step'[c] = "call" /\ rsp'[c] = NoAnswer /\ tid'[c] = 0
  BY <1>0, <1>3 DEF Consumed, Set, Started, Processes
<1>4. Granted(c) \in 0 .. MaxId
  <2>1. rsp[c] \in Message
    BY <1>0, MessageTypes DEF Is
  <2> QED BY <2>1, SizesAssumption DEF Granted, Message, SizesAssumption
<1>5. /\ Services \in Nat \ {0} /\ 0 \in 0 .. MaxTid + 2 * Services + 1 /\ "call" \in Steps
      /\ "get" \in Phases /\ "work" \in Phases /\ "idle" \in Phases
  BY SizesAssumption DEF SizesAssumption, Phases, Steps
<1>r. ASSUME Only(c), phase'[c] \in Phases, svc'[c] \in 0 .. Services, step'[c] \in Steps,
             rsp'[c] \in Told \cup {NoAnswer}, tid'[c] \in 0 .. MaxTid + 2 * Services + 1,
             ids'[c] \in IdSets, Fine(phase'[c], svc'[c], step'[c], ctid[c], tid'[c], ids'[c])
      PROVE  TypeInv'
  <2>1. ctid'[c] = ctid[c] /\ ctid[c] \in Nat /\ lives' \in 0 .. MaxLives
    BY <1>0, <1>1 DEF Is, Processes
  <2>2. Is(c)'
    BY <2>1, <1>r DEF Is
  <2>3. Processes'
    BY <1>0, <2>1, <2>2, <1>r, OneProcess
  <2> QED BY <1>2, <2>3 DEF TypeInv
<1>6. CASE Version(c)
  <2>1. /\ phase[c] = "version" /\ Consumed(c) /\ UNCHANGED ids
        /\ phase' = [phase EXCEPT ![c] = "get"] /\ svc' = [svc EXCEPT ![c] = 1]
    BY <1>6 DEF Version, Set
  <2>2. Only(c) /\ phase'[c] = "get" /\ svc'[c] = 1
    BY <1>0, <1>1, <1>3, <2>1 DEF Only, Processes
  <2>3. Fine("get", 1, "call", ctid[c], 0, ids[c])
    <3>1. ctid[c] = 2 /\ ids[c] = NoIds
      BY <1>0, <1>3, <2>1 DEF Is, Fine
    <3>2. \A s \in 1 .. Services : ids[c][s] = 0
      BY <3>1 DEF NoIds
    <3> QED BY <1>3, <2>1, <3>1, <3>2 DEF Fine
  <2>4. ids'[c] = ids[c] /\ ids[c] \in IdSets
    BY <1>0, <2>1 DEF Is
  <2> QED BY <1>3, <1>5, <1>r, <2>1, <2>2, <2>3, <2>4
<1>7. CASE GetClientId(c)
  <2>1. /\ phase[c] = "get" /\ Consumed(c)
        /\ ids' = [ids EXCEPT ![c][svc[c]] = Granted(c)]
        /\ \/ /\ svc[c] < Services /\ svc' = [svc EXCEPT ![c] = svc[c] + 1] /\ UNCHANGED phase
           \/ /\ ~(svc[c] < Services) /\ svc' = [svc EXCEPT ![c] = 0]
              /\ phase' = [phase EXCEPT ![c] = "idle"]
    BY <1>7 DEF GetClientId, Set
  <2>2. /\ svc[c] \in 1 .. Services /\ ctid[c] = svc[c] + 2
        /\ \A s \in 1 .. Services : s >= svc[c] => ids[c][s] = 0
    BY <1>0, <1>3, <2>1 DEF Is, Fine
  <2>3. ids'[c] = [ids[c] EXCEPT ![svc[c]] = Granted(c)]
    BY <1>0, <2>1 DEF Processes
  <2>4. ids'[c] \in IdSets
    BY <1>0, <1>4, <2>3 DEF Is, IdSets
  <2>5. \A s \in 1 .. Services : s > svc[c] => ids'[c][s] = 0
    BY <1>0, <2>2, <2>3 DEF Is, IdSets
  <2>6. Only(c)
    BY <1>0, <1>1, <1>3, <2>1, <2>3 DEF Only, Processes
  <2>7. CASE svc[c] < Services
    <3>1. phase'[c] = "get" /\ svc'[c] = svc[c] + 1 /\ svc'[c] \in 1 .. Services
      BY <1>0, <1>5, <2>1, <2>2, <2>7 DEF Processes
    <3>2. Fine("get", svc'[c], "call", ctid[c], 0, ids'[c])
      <4>1. svc[c] \in Nat /\ svc'[c] \in Nat /\ ctid[c] = svc'[c] + 1 /\ svc'[c] # 0
        BY <1>5, <2>2, <3>1
      <4>2. \A s \in 1 .. Services : s >= svc'[c] => ids'[c][s] = 0
        BY <1>5, <2>2, <2>5, <3>1
      <4> QED BY <1>3, <2>1, <4>1, <4>2 DEF Fine
    <3> QED BY <1>3, <1>5, <1>r, <2>1, <2>4, <2>6, <3>1, <3>2
  <2>8. CASE ~(svc[c] < Services)
    <3>1. phase'[c] = "idle" /\ svc'[c] = 0 /\ svc[c] = Services
      BY <1>0, <1>5, <2>1, <2>2, <2>8 DEF Processes
    <3>2. Fine("idle", 0, "call", ctid[c], 0, ids'[c])
      BY <1>3, <2>1, <2>2, <3>1 DEF Fine
    <3> QED BY <1>3, <1>5, <1>r, <2>1, <2>4, <2>6, <3>1, <3>2
  <2> QED BY <2>7, <2>8
<1>8. CASE Work(c)
  <2>1. PICK s \in 1 .. Services : ids[c][s] # 0 /\ svc' = [svc EXCEPT ![c] = s]
    BY <1>8 DEF Work, Set
  <2>2. /\ phase[c] = "idle" /\ phase' = [phase EXCEPT ![c] = "work"]
        /\ UNCHANGED <<step, rsp, tid, ids>>
    BY <1>8 DEF Work, Set
  <2>3. Only(c) /\ phase'[c] = "work" /\ svc'[c] = s
    BY <1>0, <1>1, <2>1, <2>2 DEF Only, Processes
  <2>4. Fine("work", s, step[c], ctid[c], tid[c], ids[c])
    BY <1>0, <2>1, <2>2 DEF Is, Fine, Started
  <2>5. /\ step'[c] = step[c] /\ tid'[c] = tid[c] /\ rsp'[c] = rsp[c] /\ ids'[c] = ids[c]
        /\ step[c] \in Steps /\ tid[c] \in 0 .. MaxTid + 2 * Services + 1
        /\ rsp[c] \in Told \cup {NoAnswer} /\ ids[c] \in IdSets
    BY <1>0, <2>2 DEF Is
  <2> QED BY <1>5, <1>r, <2>1, <2>3, <2>4, <2>5
<1>9. CASE Worked(c)
  <2>1. /\ phase[c] = "work" /\ Consumed(c) /\ UNCHANGED ids
        /\ phase' = [phase EXCEPT ![c] = "idle"] /\ svc' = [svc EXCEPT ![c] = 0]
    BY <1>9 DEF Worked, Set
  <2>2. Only(c) /\ phase'[c] = "idle" /\ svc'[c] = 0
    BY <1>0, <1>1, <1>3, <2>1 DEF Only, Processes
  <2>3. Fine("idle", 0, "call", ctid[c], 0, ids[c])
    BY <1>0, <1>3, <2>1 DEF Is, Fine
  <2>4. ids'[c] = ids[c] /\ ids[c] \in IdSets
    BY <1>0, <2>1 DEF Is
  <2> QED BY <1>3, <1>5, <1>r, <2>1, <2>2, <2>3, <2>4
<1> QED BY <1>6, <1>7, <1>8, <1>9

\* A request of the queue that is nobody's any more.
Left(e) == [e EXCEPT !.m.own = NoOne]

LEMMA LeftEntry ==
  ASSUME NEW e \in Entry
  PROVE  Left(e) \in Entry /\ Left(e).fd = e.fd /\ Left(e).m = Orphan(e.m)
<1>1. e = [fd |-> e.fd, m |-> e.m] /\ e.fd \in Clients /\ e.m \in FromProcess /\ e.m.svc = CTL
  BY DEF Entry
<1>2. e.m \in Message
  BY <1>1, MessageTypes
<1>3. Left(e) = [fd |-> e.fd, m |-> Orphan(e.m)]
  BY <1>1 DEF Left, Orphan
<1>4. Orphan(e.m) \in FromProcess /\ Orphan(e.m).svc = CTL
  BY <1>1, <1>2, OrphanTypes, OrphanIsMessage
<1> QED BY <1>1, <1>3, <1>4 DEF Entry

LEMMA QueueLeft ==
  ASSUME queue \in Seq(Entry), NEW c \in Clients, Abandons(c)
  PROVE  /\ queue' \in Seq(Entry) /\ Len(queue') = Len(queue) /\ Len(queue) \in Nat
         /\ \A i \in 1 .. Len(queue) :
              queue'[i] = IF queue[i].m.own = c THEN Left(queue[i]) ELSE queue[i]
<1> DEFINE f(e) == IF e.m.own = c THEN Left(e) ELSE e
<1>1. queue' = [i \in 1 .. Len(queue) |-> f(queue[i])]
  BY DEF Abandons, Left
<1>2. \A i \in 1 .. Len(queue) : queue[i] \in Entry /\ f(queue[i]) \in Entry
  BY LeftEntry
<1> HIDE DEF f
<1>3. queue' \in Seq(Entry) /\ Len(queue') = Len(queue)
  BY <1>1, <1>2
<1>4. \A i \in 1 .. Len(queue) : queue'[i] = f(queue[i])
  BY <1>1
<1> QED BY <1>3, <1>4 DEF f

LEMMA AbandonsType ==
  ASSUME TypeInv, NEW c \in Clients, Abandons(c), Forsaken(c)
  PROVE  /\ toModem' \in Seq(Asked) /\ fromModem' \in Seq(Told) /\ queue' \in Seq(Entry)
         /\ Disown(up[c], c) \in Seq(FromProcess) /\ Disown(down[c], c) \in Seq(Told)
         /\ Prepares' /\ UNCHANGED <<present, used>>
<1>1. /\ up[c] \in Seq(FromProcess) /\ down[c] \in Seq(Told) /\ toModem \in Seq(Asked)
      /\ fromModem \in Seq(Told) /\ queue \in Seq(Entry)
  BY DEF TypeInv, Traffic
<1>2. Disown(up[c], c) \in Seq(FromProcess)
  BY <1>1, OrphanTypes, DisownSeq
<1>3. Disown(down[c], c) \in Seq(Told) /\ Disown(fromModem, c) \in Seq(Told)
  BY <1>1, OrphanTypes, DisownSeq
<1>4. Disown(toModem, c) \in Seq(Asked)
  BY <1>1, OrphanTypes, DisownSeq
<1>5. Prepares'
  BY PreparesKept DEF Abandons, TypeInv
<1> QED BY <1>1, <1>2, <1>3, <1>4, <1>5, QueueLeft DEF Forsaken

LEMMA GivesUpType ==
  ASSUME TypeInv, NEW c \in Clients, GivesUp(c)
  PROVE  TypeInv'
<1>0. Processes /\ Traffic /\ Bus /\ Is(c)
  BY ProcessIs DEF TypeInv
<1>1. /\ step[c] = "wait" /\ step' = [step EXCEPT ![c] = "got"]
      /\ up' = [up EXCEPT ![c] = Disown(up[c], c)] /\ down' = [down EXCEPT ![c] = Disown(down[c], c)]
      /\ Forsaken(c) /\ Abandons(c)
      /\ UNCHANGED <<link, lives, phase, svc, rsp, ctid, tid, ids>>
  BY DEF GivesUp, GiveUp, Set
<1>2. /\ odd' \subseteq {"slip", "lost", "reset", "late"} /\ faults' \in 0 .. MaxFaults
  <2>1. CASE UNCHANGED <<faults, odd>>
    BY <1>0, <2>1 DEF Bus
  <2>2. CASE Fault /\ odd' = odd \cup {"late"}
    BY <1>0, <2>2, SizesAssumption DEF Bus, Fault, SizesAssumption
  <2> QED BY <2>1, <2>2 DEF GivesUp
<1>3. /\ toModem' \in Seq(Asked) /\ fromModem' \in Seq(Told) /\ queue' \in Seq(Entry)
      /\ Disown(up[c], c) \in Seq(FromProcess) /\ Disown(down[c], c) \in Seq(Told)
      /\ Prepares' /\ UNCHANGED <<present, used>>
  BY <1>1, AbandonsType
<1>4. Traffic'
  BY <1>0, <1>1, <1>3 DEF Traffic
<1>5. Bus'
  BY <1>0, <1>1, <1>2, <1>3 DEF Bus
<1>6. Only(c) /\ step'[c] = "got"
  BY <1>0, <1>1 DEF Only, Processes
<1>7. Fine(phase[c], svc[c], "got", ctid[c], tid[c], ids[c])
  BY <1>0, <1>1 DEF Is, Fine, Started
<1>8. Is(c)'
  BY <1>0, <1>1, <1>6, <1>7 DEF Is, Steps
<1>9. lives' \in 0 .. MaxLives
  BY <1>0, <1>1 DEF Processes
<1> QED BY <1>0, <1>3, <1>4, <1>5, <1>6, <1>8, <1>9, OneProcess DEF TypeInv

LEMMA EndsType ==
  ASSUME TypeInv, NEW c \in Clients, Ends(c), Abandons(c), ids' = [ids EXCEPT ![c] = NoIds],
         odd' = odd, faults' \in 0 .. MaxFaults
  PROVE  TypeInv'
<1>0. Processes /\ Traffic /\ Bus /\ Is(c)
  BY ProcessIs DEF TypeInv
<1>1. /\ phase' = [phase EXCEPT ![c] = "off"] /\ svc' = [svc EXCEPT ![c] = 0]
      /\ step' = [step EXCEPT ![c] = "call"] /\ rsp' = [rsp EXCEPT ![c] = NoAnswer]
      /\ ctid' = [ctid EXCEPT ![c] = 1] /\ tid' = [tid EXCEPT ![c] = 0]
      /\ \E l \in {"free", "left"} : link' = [link EXCEPT ![c] = l]
      /\ \/ up' = [up EXCEPT ![c] = <<>>]
         \/ up' = [up EXCEPT ![c] = Disown(up[c], c)]
      /\ down' = [down EXCEPT ![c] = <<>>]
      /\ Forsaken(c) /\ UNCHANGED lives
  BY DEF Ends, Set
<1>2. /\ toModem' \in Seq(Asked) /\ fromModem' \in Seq(Told) /\ queue' \in Seq(Entry)
      /\ Disown(up[c], c) \in Seq(FromProcess) /\ Prepares' /\ UNCHANGED <<present, used>>
  BY <1>1, AbandonsType
<1>3. Traffic'
  <2>1. <<>> \in Seq(FromProcess) /\ <<>> \in Seq(Told)
    OBVIOUS
  <2> QED BY <1>0, <1>1, <1>2, <2>1 DEF Traffic
<1>4. Bus'
  BY <1>0, <1>1, <1>2 DEF Bus
<1>5. /\ phase'[c] = "off" /\ svc'[c] = 0 /\ step'[c] = "call" /\ rsp'[c] = NoAnswer
      /\ ctid'[c] = 1 /\ tid'[c] = 0 /\ ids'[c] = NoIds
  BY <1>0, <1>1 DEF Processes
<1>6. Only(c)
  BY <1>0, <1>1, <1>5 DEF Only, Processes
<1>7. Fine("off", 0, "call", 1, 0, NoIds)
  BY DEF Fine, Started
<1>8. NoIds \in IdSets /\ 0 \in 0 .. MaxTid + 2 * Services + 1 /\ 0 \in 0 .. Services
  BY SizesAssumption DEF NoIds, IdSets, SizesAssumption
<1>9. Is(c)'
  BY <1>5, <1>7, <1>8 DEF Is, Phases, Steps
<1>10. lives' \in 0 .. MaxLives
  BY <1>0, <1>1 DEF Processes
<1> QED BY <1>0, <1>2, <1>3, <1>4, <1>6, <1>9, <1>10, OneProcess DEF TypeInv

\* There is a least service whose id is held.
LEMMA LeastHeld ==
  ASSUME NEW held \in SUBSET (1 .. Services), held # {}
  PROVE  LET s == CHOOSE s \in held : \A t \in held : s <= t
         IN  s \in held /\ \A t \in held : s <= t
<1>1. held \subseteq Nat
  BY SizesAssumption DEF SizesAssumption
<1>2. PICK s \in held : \A u \in held : ~ (<<u, s>> \in OpToRel(<, Nat))
  BY <1>1, WFMin, NatLessThanWellFounded
<1>3. \A u \in held : u < s => <<u, s>> \in OpToRel(<, Nat)
  BY <1>1, Zenon DEF OpToRel
<1>4. \A u \in held : ~(u < s)
  BY <1>2, <1>3, Zenon
<1>5. \A u \in held : s <= u
  BY <1>1, <1>4
<1> QED BY <1>5

LEMMA LeavesType ==
  ASSUME TypeInv, NEW c \in Clients, Leaves(c)
  PROVE  TypeInv'
<1>0. Processes /\ Traffic /\ Bus /\ Is(c)
  BY ProcessIs DEF TypeInv
<1>1. Abandons(c)
  BY DEF Leaves
<1>2. CASE HangUp(c)
  BY <1>0, <1>1, <1>2, EndsType DEF HangUp, Set, Bus
<1>3. CASE Kill(c)
  <2>1. faults' \in 0 .. MaxFaults
    BY <1>0, <1>3, SizesAssumption DEF Kill, Fault, Bus, SizesAssumption
  <2> QED BY <1>1, <1>3, <2>1, EndsType DEF Kill, Set
<1>4. CASE Release(c)
  <2> DEFINE left == IF phase[c] = "idle" THEN ids[c] ELSE [ids[c] EXCEPT ![svc[c]] = 0]
             held == {s \in 1 .. Services : left[s] # 0}
             s    == CHOOSE s \in held : \A t \in held : s <= t
  <2>1. phase[c] = "idle" \/ (phase[c] = "release" /\ step[c] = "got")
    BY <1>4 DEF Release
  <2>2. CASE held = {}
    <3>1. Set(ids, c, NoIds) /\ Ends(c) /\ UNCHANGED <<odd, faults>>
      BY <1>4, <2>2 DEF Release
    <3> QED BY <1>0, <1>1, <3>1, EndsType DEF Set, Bus
  <2>3. CASE held # {}
    <3>1. /\ ids' = [ids EXCEPT ![c] = left] /\ phase' = [phase EXCEPT ![c] = "release"]
          /\ svc' = [svc EXCEPT ![c] = s]
          /\ step' = [step EXCEPT ![c] = "call"] /\ rsp' = [rsp EXCEPT ![c] = NoAnswer]
          /\ tid' = [tid EXCEPT ![c] = 0] /\ UNCHANGED <<transportVars, lives, ctid>>
      BY <1>4, <2>3 DEF Release, Set, Quiet
    <3>2. s \in held /\ \A t \in held : s <= t
      BY <2>3, LeastHeld
    <3>3. left \in IdSets
      <4>1. ids[c] \in [1 .. Services -> 0 .. MaxId] /\ 0 \in 0 .. MaxId
        BY <1>0, SizesAssumption DEF Is, IdSets, SizesAssumption
      <4>2. [ids[c] EXCEPT ![svc[c]] = 0] \in [1 .. Services -> 0 .. MaxId]
        BY <4>1
      <4> QED BY <4>1, <4>2 DEF IdSets
    <3> HIDE DEF s, left
    <3>4. left[s] # 0 /\ s \in 1 .. Services /\ \A t \in 1 .. Services : t < s => left[t] = 0
      BY <3>2, SizesAssumption DEF SizesAssumption
    <3>5. /\ ids'[c] = left /\ phase'[c] = "release" /\ svc'[c] = s /\ step'[c] = "call"
          /\ rsp'[c] = NoAnswer /\ tid'[c] = 0 /\ ctid'[c] = ctid[c] /\ lives' \in 0 .. MaxLives
      BY <1>0, <3>1 DEF Processes
    <3>6. Only(c)
      BY <1>0, <3>1, <3>5 DEF Only, Processes
    <3>7. ctid[c] \in Services + 2 .. Services + 1 + s
      <4>1. /\ Fine(phase[c], svc[c], step[c], ctid[c], tid[c], ids[c]) /\ ctid[c] \in Nat
            /\ svc[c] \in 0 .. Services /\ ids[c] \in IdSets
        BY <1>0 DEF Is
      <4>2. CASE phase[c] = "idle"
        BY <3>4, <4>1, <4>2, SizesAssumption DEF Fine, SizesAssumption
      <4> USE DEF left
      <4>3. CASE phase[c] = "release" /\ step[c] = "got"
        <5>1. /\ ctid[c] \in Services + 3 .. Services + 2 + svc[c] /\ svc[c] \in 1 .. Services
              /\ \A t \in 1 .. Services : t < svc[c] => ids[c][t] = 0
          BY <4>1, <4>3, SizesAssumption DEF Fine, Started, SizesAssumption
        <5>2. s > svc[c]
          <6>1. left[svc[c]] = 0 /\ \A t \in 1 .. Services : t # svc[c] => left[t] = ids[c][t]
            BY <4>1, <4>3, <5>1 DEF IdSets
          <6> HIDE DEF left
          <6>2. s # svc[c] /\ ~(s < svc[c])
            BY <3>4, <5>1, <6>1
          <6> QED BY <3>4, <5>1, <6>2
        <5> QED BY <3>4, <5>1, <5>2, SizesAssumption DEF SizesAssumption
      <4> QED BY <2>1, <4>2, <4>3
    <3> HIDE DEF left
    <3>8. Fine("release", s, "call", ctid[c], 0, left)
      BY <3>4, <3>7, SizesAssumption DEF Fine, Started, SizesAssumption
    <3>9. 0 \in 0 .. MaxTid + 2 * Services + 1 /\ ctid[c] \in Nat /\ s \in 0 .. Services
      BY <1>0, <3>4, SizesAssumption DEF Is, SizesAssumption
    <3>10. Is(c)'
      BY <3>3, <3>5, <3>8, <3>9 DEF Is, Phases, Steps
    <3>11. Processes'
      BY <1>0, <3>5, <3>6, <3>10, OneProcess
    <3>12. Traffic' /\ Bus' /\ Prepares'
      <4>1. queue' \in Seq(Entry)
        BY <1>0, <1>1, QueueLeft DEF Traffic
      <4>2. Prepares'
        BY <1>1, PreparesKept DEF Abandons, TypeInv
      <4> QED BY <1>0, <3>1, <4>1, <4>2 DEF Traffic, Bus, transportVars, modemVars
    <3> QED BY <3>11, <3>12 DEF TypeInv
  <2> QED BY <2>2, <2>3
<1> QED BY <1>2, <1>3, <1>4 DEF Leaves

-----------------------------------------------------------------------------
(* Type correctness: main of the proxy.                                    *)

LEMMA ProcessesKept == Processes /\ UNCHANGED clientVars => Processes'
BY DEF Processes, clientVars, runVars

LEMMA PreparationType ==
  ASSUME TypeInv, stage < 5
  PROVE  Preparation \in FromProxy /\ Preparation.tid = FirstTid + sent /\ Preparation.own = Proxy
<1> DEFINE t == FirstTid + sent
<1>1. /\ stage \in 1 .. 4 /\ t \in Nat /\ t >= FirstTid /\ got.id \in 0 .. MaxId
      /\ CTL \in 0 .. WDA /\ WDA \in 0 .. WDA /\ 0 \in 0 .. WDA /\ 0 \in 0 .. MaxId
      /\ Proxy \in Clients \cup {Proxy, NoOne} /\ CTL = 0
  <2>1. got \in Message /\ stage \in 1 .. 5 /\ sent \in Nat
    BY MessageTypes DEF TypeInv, Prepares
  <2>2. got.id \in 0 .. MaxId
    BY <2>1 DEF Message
  <2> QED BY <2>1, <2>2, SizesAssumption DEF SizesAssumption, FirstTid, CTL, WDA
<1> HIDE DEF t
<1>2. CASE stage = 1
  <2>1. Preparation = Ask(CTL, "sync", 0, 0, t, Proxy)
    BY <1>2 DEF Preparation, t
  <2> QED BY <1>1, <2>1, AskIsMessage DEF FromProxy, OfProxy, t
<1>3. CASE stage = 2
  <2>1. Preparation = Ask(CTL, "version", 0, 0, t, Proxy)
    BY <1>3 DEF Preparation, t
  <2> QED BY <1>1, <2>1, AskIsMessage DEF FromProxy, OfProxy, t
<1>4. CASE stage = 3
  <2>1. Preparation = Ask(CTL, "get", WDA, 0, t, Proxy)
    BY <1>4 DEF Preparation, t
  <2> QED BY <1>1, <2>1, AskIsMessage DEF FromProxy, OfProxy, t
<1>5. CASE stage = 4
  <2>1. Preparation = Ask(WDA, "format", 0, got.id, t, Proxy)
    BY <1>5 DEF Preparation, t
  <2> QED BY <1>1, <2>1, AskIsMessage DEF FromProxy, OfProxy, t
<1> QED BY <1>1, <1>2, <1>3, <1>4, <1>5

LEMMA InitFailsType ==
  ASSUME Prepares, InitFails, mode = "init"
  PROVE  /\ stage' \in 1 .. 5 /\ sent' \in Nat /\ tries' \in 0 .. MaxTries
         /\ got' = NoAnswer
         /\ waiting' = FALSE => sent' <= MaxSyncs + stage' - 2
<1>1. /\ stage \in 1 .. 5 /\ sent \in Nat /\ tries \in 0 .. MaxTries /\ MaxSyncs \in Nat \ {0}
      /\ MaxTries \in Nat /\ (waiting => stage < 5)
      /\ sent <= MaxSyncs + stage - 2 + (IF waiting THEN 1 ELSE 0)
  BY TriesAssumption DEF Prepares, Preparing, TriesAssumption
<1>2. CASE tries < MaxTries /\ present
  BY <1>1, <1>2 DEF InitFails
<1>3. CASE ~(tries < MaxTries /\ present)
  BY <1>1, <1>3 DEF InitFails
<1> QED BY <1>2, <1>3

LEMMA MainType ==
  ASSUME TypeInv, ProxyMain \/ Interrupt, UNCHANGED clientVars
  PROVE  TypeInv'
<1>0. Processes' /\ Traffic /\ Prepares /\ Bus
  BY ProcessesKept DEF TypeInv
<1>1. CASE Open
  <2>1. Prepares'
    BY <1>0, <1>1, TriesAssumption DEF Open, Prepares, Preparing, TriesAssumption
  <2> QED BY <1>0, <1>1, <2>1 DEF TypeInv, Traffic, Bus, Open, transportVars, modemVars
<1>2. CASE Prepare
  <2>1. Prepares'
    BY <1>0, <1>2, TriesAssumption DEF Prepare, Prepares, Preparing, TriesAssumption
  <2>2. toModem' \in Seq(Asked)
    <3>1. toModem \in Seq(Asked) /\ stage < 5
      BY <1>0, <1>2 DEF Traffic, Prepare
    <3>2. Preparation \in Asked
      BY <3>1, PreparationType DEF Asked
    <3>3. Append(toModem, Preparation) \in Seq(Asked)
      BY <3>1, <3>2
    <3> QED BY <1>2, <3>1, <3>3 DEF Prepare
  <2> QED BY <1>0, <1>2, <2>1, <2>2 DEF TypeInv, Traffic, Bus, Prepare
<1>k. ASSUME mode = "init", waiting' = FALSE, stage' \in 1 .. 5, sent' \in Nat,
             tries' \in 0 .. MaxTries, got' \in Told \cup {NoAnswer},
             sent' <= MaxSyncs + stage' - 2,
             UNCHANGED <<mode, server, loop, quit, resetFlag, reg>>
      PROVE  Prepares'
  <2>1. MaxSyncs \in Nat
    BY TriesAssumption DEF TriesAssumption
  <2>2. ~waiting' /\ waiting' \in BOOLEAN
    BY <1>k
  <2>3. sent' <= MaxSyncs + stage' - 2 + (IF waiting' THEN 1 ELSE 0)
    <3>1. (IF waiting' THEN 1 ELSE 0) = 0
      BY <2>2
    <3>2. MaxSyncs + stage' - 2 + 0 = MaxSyncs + stage' - 2
      BY <1>k, <2>1
    <3> QED BY <1>k, <3>1, <3>2
  <2>4. mode' = "init" /\ (server' <=> mode' = "join")
    BY <1>0, <1>k DEF Prepares, Preparing
  <2>5. Preparing'
    BY <2>2, <2>3, <2>4 DEF Preparing
  <2> QED BY <1>0, <1>k, <2>2, <2>5 DEF Prepares
<1>n. /\ stage \in 1 .. 5 /\ sent \in Nat /\ tries \in 0 .. MaxTries /\ MaxSyncs \in Nat
      /\ got \in Told \cup {NoAnswer}
      /\ waiting => stage < 5 /\ sent <= MaxSyncs + stage - 1
  BY <1>0, TriesAssumption DEF Prepares, Preparing, TriesAssumption
<1>3. CASE Prepared
  <2>1. Prepares'
    <3>0. mode = "init" /\ waiting /\ waiting' = FALSE /\ UNCHANGED <<mode, server, loop, quit, resetFlag, reg>>
      BY <1>3 DEF Prepared
    <3>1. CASE got.ok \/ stage = 1
      <4>1. stage' = stage + 1 /\ UNCHANGED <<sent, got, tries>>
        BY <1>3, <3>1 DEF Prepared
      <4>2. /\ stage' \in 1 .. 5 /\ sent' \in Nat /\ tries' \in 0 .. MaxTries
            /\ got' \in Told \cup {NoAnswer} /\ sent' <= MaxSyncs + stage' - 2
        BY <1>n, <3>0, <4>1
      <4> QED BY <1>k, <3>0, <4>2
    <3>2. CASE ~(got.ok \/ stage = 1)
      <4>1. InitFails
        BY <1>3, <3>2 DEF Prepared
      <4> QED BY <1>0, <1>k, <3>0, <4>1, InitFailsType
    <3> QED BY <3>1, <3>2
  <2> QED BY <1>0, <1>3, <2>1 DEF TypeInv, Traffic, Bus, Prepared, transportVars, modemVars
<1>4. CASE PrepareTimesOut
  <2>1. Prepares'
    <3>0. mode = "init" /\ waiting /\ waiting' = FALSE /\ UNCHANGED <<mode, server, loop, quit, resetFlag, reg>>
      BY <1>4 DEF PrepareTimesOut
    <3>1. CASE stage = 1 /\ sent < MaxSyncs
      <4>1. got' = NoAnswer /\ UNCHANGED <<stage, sent, tries>>
        BY <1>4, <3>1 DEF PrepareTimesOut
      <4>2. /\ stage' \in 1 .. 5 /\ sent' \in Nat /\ tries' \in 0 .. MaxTries
            /\ got' \in Told \cup {NoAnswer} /\ sent' <= MaxSyncs + stage' - 2
        BY <1>n, <3>0, <3>1, <4>1
      <4> QED BY <1>k, <3>0, <4>2
    <3>2. CASE ~(stage = 1 /\ sent < MaxSyncs)
      <4>1. InitFails
        BY <1>4, <3>2 DEF PrepareTimesOut
      <4> QED BY <1>0, <1>k, <3>0, <4>1, InitFailsType
    <3> QED BY <3>1, <3>2
  <2>2. faults' \in 0 .. MaxFaults
    BY <1>0, <1>4, SizesAssumption DEF PrepareTimesOut, Fault, Bus, SizesAssumption
  <2>3. toModem' \in Seq(Asked) /\ fromModem' \in Seq(Told)
    <3>1. Disown(toModem, Proxy) \in Seq(Asked)
      BY <1>0, OrphanTypes, DisownSeq DEF Traffic
    <3>2. Disown(fromModem, Proxy) \in Seq(Told)
      BY <1>0, OrphanTypes, DisownSeq DEF Traffic
    <3> QED BY <1>4, <3>1, <3>2 DEF PrepareTimesOut
  <2> QED BY <1>0, <1>4, <2>1, <2>2, <2>3 DEF TypeInv, Traffic, Bus, PrepareTimesOut
<1>5. CASE StartServer
  <2>1. Prepares'
    BY <1>0, <1>5, TriesAssumption DEF StartServer, Prepares, Preparing, TriesAssumption
  <2> QED BY <1>0, <1>5, <2>1 DEF TypeInv, Traffic, Bus, StartServer, transportVars, modemVars
<1>6. CASE Join
  <2>1. Prepares'
    BY <1>0, <1>6 DEF Join, Prepares, Preparing, initVars
  <2>2. Traffic'
    <3>1. <<>> \in Seq(FromProcess) /\ <<>> \in Seq(Asked) /\ <<>> \in Seq(Told)
      OBVIOUS
    <3> QED BY <1>0, <1>6, <3>1 DEF Join, Traffic
  <2>3. Bus'
    BY <1>0, <1>6 DEF Join, Bus
  <2> QED BY <1>0, <2>1, <2>2, <2>3 DEF TypeInv
<1>7. CASE Exit
  <2>1. Prepares'
    BY <1>0, <1>7 DEF Exit, Prepares, Preparing, initVars
  <2> QED BY <1>0, <1>7, <2>1 DEF TypeInv, Traffic, Bus, Exit, transportVars, modemVars
<1>8. CASE Interrupt
  <2>1. Prepares'
    BY <1>0, <1>8 DEF Interrupt, Prepares, Preparing, initVars
  <2>2. faults' \in 0 .. MaxFaults
    BY <1>0, <1>8, SizesAssumption DEF Interrupt, Fault, Bus, SizesAssumption
  <2> QED BY <1>0, <1>8, <2>1, <2>2 DEF TypeInv, Traffic, Bus, Interrupt, modemVars
<1> QED BY <1>1, <1>2, <1>3, <1>4, <1>5, <1>6, <1>7, <1>8 DEF ProxyMain

-----------------------------------------------------------------------------
(* Type correctness: the loop thread.                                      *)

LEMMA WithoutSeq ==
  ASSUME NEW S, NEW q \in Seq(S), NEW i \in 1 .. Len(q)
  PROVE  /\ Without(q, i) \in Seq(S) /\ Len(Without(q, i)) = Len(q) - 1
         /\ \A j \in 1 .. Len(q) - 1 : Without(q, i)[j] = IF j < i THEN q[j] ELSE q[j + 1]
<1>1. /\ Len(q) \in Nat /\ i \in Int /\ i - 1 \in Int /\ i + 1 \in Int /\ 1 \in Int
      /\ i >= 1 /\ i <= Len(q)
  OBVIOUS
<1>2. \A j \in 1 .. Len(q) : q[j] \in S
  OBVIOUS
<1>3. \A j \in 1 .. i - 1 : q[j] \in S
  BY <1>1, <1>2
<1>4. \A j \in i + 1 .. Len(q) : q[j] \in S
  BY <1>1, <1>2
<1>5. /\ SubSeq(q, 1, i - 1) \in Seq(S) /\ Len(SubSeq(q, 1, i - 1)) = i - 1
      /\ \A j \in 1 .. i - 1 : SubSeq(q, 1, i - 1)[j] = q[j]
  <2>1. /\ SubSeq(q, 1, i - 1) \in Seq(S)
        /\ Len(SubSeq(q, 1, i - 1)) = IF 1 <= i - 1 THEN i - 1 - 1 + 1 ELSE 0
        /\ \A j \in 1 .. i - 1 - 1 + 1 : SubSeq(q, 1, i - 1)[j] = q[1 + j - 1]
    BY <1>1, <1>3, SubSeqProperties
  <2> QED BY <1>1, <2>1
<1>6. /\ SubSeq(q, i + 1, Len(q)) \in Seq(S) /\ Len(SubSeq(q, i + 1, Len(q))) = Len(q) - i
      /\ \A j \in 1 .. Len(q) - i : SubSeq(q, i + 1, Len(q))[j] = q[i + j]
  <2>1. /\ SubSeq(q, i + 1, Len(q)) \in Seq(S)
        /\ Len(SubSeq(q, i + 1, Len(q))) = IF i + 1 <= Len(q) THEN Len(q) - (i + 1) + 1 ELSE 0
        /\ \A j \in 1 .. Len(q) - (i + 1) + 1 : SubSeq(q, i + 1, Len(q))[j] = q[i + 1 + j - 1]
    BY <1>1, <1>4, SubSeqProperties
  <2> QED BY <1>1, <2>1
<1> DEFINE a == SubSeq(q, 1, i - 1)
           b == SubSeq(q, i + 1, Len(q))
<1>7. /\ a \o b \in Seq(S) /\ Len(a \o b) = i - 1 + (Len(q) - i)
      /\ \A j \in 1 .. i - 1 + (Len(q) - i) : (a \o b)[j] = IF j <= i - 1 THEN a[j] ELSE b[j - (i - 1)]
  <2>1. a \in Seq(S) /\ b \in Seq(S) /\ Len(a) = i - 1 /\ Len(b) = Len(q) - i
    BY <1>5, <1>6
  <2> HIDE DEF a, b
  <2>2. /\ a \o b \in Seq(S)
        /\ Len(a \o b) = Len(a) + Len(b)
        /\ \A j \in 1 .. Len(a) + Len(b) : (a \o b)[j] = IF j <= Len(a) THEN a[j] ELSE b[j - Len(a)]
    BY <2>1, ConcatProperties, Zenon
  <2> QED BY <2>1, <2>2
<1>8. Without(q, i) = a \o b
  BY DEF Without
<1>9. ASSUME NEW j \in 1 .. Len(q) - 1
      PROVE  (a \o b)[j] = IF j < i THEN q[j] ELSE q[j + 1]
  <2>1. CASE j < i
    <3>1. j \in 1 .. i - 1 /\ j \in 1 .. i - 1 + (Len(q) - i) /\ j <= i - 1
      BY <1>1, <2>1
    <3>2. (a \o b)[j] = a[j]
      BY <1>7, <3>1, Zenon
    <3> QED BY <1>5, <2>1, <3>1, <3>2
  <2>2. CASE ~(j < i)
    <3>1. /\ ~(j <= i - 1) /\ j \in 1 .. i - 1 + (Len(q) - i) /\ j - (i - 1) \in 1 .. Len(q) - i
          /\ i + (j - (i - 1)) = j + 1
      BY <1>1, <2>2
    <3> QED BY <1>6, <1>7, <2>2, <3>1
  <2> QED BY <2>1, <2>2
<1> HIDE DEF a, b
<1> QED BY <1>1, <1>7, <1>8, <1>9

\* The first message of a connection.
LEMMA FirstOfIn ==
  ASSUME queue \in Seq(Entry), NEW c \in Clients, Queued(c)
  PROVE  /\ FirstOf(c) \in 1 .. Len(queue) /\ queue[FirstOf(c)].fd = c
         /\ \A j \in 1 .. FirstOf(c) - 1 : queue[j].fd # c
<1> DEFINE S == {i \in 1 .. Len(queue) : queue[i].fd = c}
<1>1. DOMAIN queue = 1 .. Len(queue) /\ Len(queue) \in Nat
  OBVIOUS
<1>2. S \subseteq Nat /\ S # {}
  BY <1>1 DEF Queued
<1>3. PICK t \in S : \A u \in S : ~ (<<u, t>> \in OpToRel(<, Nat))
  BY <1>2, WFMin, NatLessThanWellFounded
<1>4. \A u \in S : u < t => <<u, t>> \in OpToRel(<, Nat)
  BY <1>2, Zenon DEF OpToRel
<1>5. \A u \in S : ~(u < t)
  BY <1>3, <1>4, Zenon
<1>6. \A j \in 1 .. t - 1 : queue[j].fd # c
  <2> SUFFICES ASSUME NEW j \in 1 .. t - 1, queue[j].fd = c PROVE FALSE
    OBVIOUS
  <2>1. j \in S /\ j < t
    BY <1>1, <1>2
  <2> QED BY <1>5, <2>1
<1>7. \E i \in DOMAIN queue : queue[i].fd = c /\ \A j \in 1 .. i - 1 : queue[j].fd # c
  BY <1>1, <1>3, <1>6
<1> QED BY <1>1, <1>7 DEF FirstOf

LEMMA AcceptType ==
  ASSUME TypeInv, NEW c \in Clients, Accept(c), UNCHANGED clientVars
  PROVE  TypeInv'
<1>1. /\ link' = [link EXCEPT ![c] = "up"]
      /\ UNCHANGED <<up, down, modemVars, odd, faults, proxyVars>>
  BY DEF Accept, Set
<1> QED BY <1>1, ProcessesKept, PreparesKept, TrafficKept DEF TypeInv, Bus, proxyVars, modemVars

LEMMA CleanupType ==
  ASSUME TypeInv, NEW c \in Clients, Cleanup(c), UNCHANGED clientVars
  PROVE  TypeInv'
<1>0. Processes' /\ Traffic /\ Prepares /\ Bus
  BY ProcessesKept DEF TypeInv
<1>1. /\ link' = [link EXCEPT ![c] = "free"] /\ up' = [up EXCEPT ![c] = <<>>]
      /\ reg' = [reg EXCEPT ![c] = {}]
      /\ \/ Queued(c) /\ queue' = Without(queue, FirstOf(c)) /\ odd' = odd \cup {"slip"}
         \/ UNCHANGED <<queue, odd>>
      /\ UNCHANGED <<down, modemVars, faults, mode, server, loop, initVars, quit, resetFlag>>
  BY DEF Cleanup, Set
<1>2. queue' \in Seq(Entry)
  <2>1. queue \in Seq(Entry)
    BY <1>0 DEF Traffic
  <2>2. Queued(c) => Without(queue, FirstOf(c)) \in Seq(Entry)
    BY <2>1, FirstOfIn, WithoutSeq
  <2> QED BY <1>1, <2>1, <2>2
<1>3. Traffic'
  <2>1. <<>> \in Seq(FromProcess)
    OBVIOUS
  <2> QED BY <1>0, <1>1, <1>2, <2>1 DEF Traffic, modemVars
<1>4. Prepares'
  BY <1>0, <1>1 DEF Prepares, Preparing, initVars
<1>5. Bus'
  BY <1>0, <1>1 DEF Bus, modemVars
<1> QED BY <1>0, <1>3, <1>4, <1>5 DEF TypeInv

LEMMA ReadClientType ==
  ASSUME TypeInv, NEW c \in Clients, ReadClient(c), UNCHANGED clientVars
  PROVE  TypeInv'
<1> DEFINE m == Head(up[c])
           e == [fd |-> c, m |-> m]
<1>0. Processes' /\ Traffic /\ Prepares /\ Bus
  BY ProcessesKept DEF TypeInv
<1>1. /\ up[c] # <<>> /\ up' = [up EXCEPT ![c] = <<>>]
      /\ \/ toModem' = toModem
         \/ toModem' = Append(toModem, m)
      /\ \/ queue' = queue
         \/ m.svc = CTL /\ queue' = Append(queue, e)
      /\ odd' \in {odd, odd \cup {"lost"}}
      /\ UNCHANGED <<link, down, present, fromModem, used, faults, mode, server, loop, initVars, quit,
                 resetFlag, reg>>
  BY DEF ReadClient, Set, SendQmi
<1>2. m \in FromProcess
  BY <1>0, <1>1, TailSeq DEF Traffic
<1> HIDE DEF m
<1>3. toModem' \in Seq(Asked) /\ queue' \in Seq(Entry)
  <2>1. toModem \in Seq(Asked) /\ queue \in Seq(Entry) /\ m \in Asked
    BY <1>0, <1>2 DEF Traffic, Asked
  <2>2. Append(toModem, m) \in Seq(Asked)
    BY <2>1
  <2>3. m.svc = CTL => e \in Entry
    BY <1>2 DEF Entry
  <2> HIDE DEF e
  <2>4. m.svc = CTL => Append(queue, e) \in Seq(Entry)
    BY <2>1, <2>3
  <2> QED BY <1>1, <2>1, <2>2, <2>4
<1>4. Traffic'
  <2>1. <<>> \in Seq(FromProcess)
    OBVIOUS
  <2> QED BY <1>0, <1>1, <1>3, <2>1 DEF Traffic
<1>5. Prepares'
  BY <1>0, <1>1 DEF Prepares, Preparing, initVars
<1>6. Bus'
  BY <1>0, <1>1 DEF Bus
<1> QED BY <1>0, <1>4, <1>5, <1>6 DEF TypeInv

\* What the end of the loop leaves behind.
LEMMA EndingType ==
  ASSUME TypeInv, Ending
  PROVE  /\ loop' \in BOOLEAN /\ link' \in [Clients -> {"free", "waiting", "up", "left", "cut"}]
         /\ up' \in [Clients -> Seq(FromProcess)]
         /\ [c \in Clients |-> <<>>] \in [Clients -> Seq(Told)]
         /\ [c \in Clients |-> {}] \in [Clients -> SUBSET ((1 .. WDA) \X (1 .. MaxId))]
<1>1. /\ link \in [Clients -> {"free", "waiting", "up", "left", "cut"}]
      /\ up \in [Clients -> Seq(FromProcess)]
  BY DEF TypeInv, Traffic, Bus
<1>2. <<>> \in Seq(FromProcess) /\ <<>> \in Seq(Told)
  OBVIOUS
<1> QED BY <1>1, <1>2 DEF Ending

\* What was on its way is lost with the proxy.
LEMMA BrokenPipeType ==
  ASSUME TypeInv, BrokenPipe, UNCHANGED clientVars
  PROVE  TypeInv'
<1>0. Processes' /\ Traffic /\ Prepares /\ Bus
  BY ProcessesKept DEF TypeInv
<1>1. /\ <<>> \in Seq(FromProcess) /\ <<>> \in Seq(Told) /\ <<>> \in Seq(Asked) /\ <<>> \in Seq(Entry)
  OBVIOUS
<1>2. Traffic'
  BY <1>0, <1>1 DEF BrokenPipe, Traffic
<1>3. mode = "join"
  BY <1>0 DEF BrokenPipe, Breaks, Prepares, Preparing
<1>4. Prepares'
  BY <1>0, <1>3 DEF BrokenPipe, Prepares, Preparing, initVars
<1>5. Bus'
  BY <1>0 DEF BrokenPipe, Bus
<1> QED BY <1>0, <1>2, <1>4, <1>5 DEF TypeInv

LEMMA LoopEndsType ==
  ASSUME TypeInv, LoopReset \/ LoopEnds, UNCHANGED clientVars
  PROVE  TypeInv'
<1>0. Processes' /\ Traffic /\ Prepares /\ Bus
  BY ProcessesKept DEF TypeInv
<1>1. /\ loop' \in BOOLEAN /\ link' \in [Clients -> {"free", "waiting", "up", "left", "cut"}]
      /\ up' \in [Clients -> Seq(FromProcess)] /\ down' \in [Clients -> Seq(Told)]
      /\ reg' \in [Clients -> SUBSET ((1 .. WDA) \X (1 .. MaxId))] /\ queue' = <<>>
  <2>1. Ending /\ down' = [c \in Clients |-> <<>>] /\ reg' = [c \in Clients |-> {}] /\ queue' = <<>>
    BY DEF LoopReset, LoopEnds
  <2> QED BY <2>1, EndingType
<1>2. /\ UNCHANGED <<toModem, present, used, odd, faults, mode, server, stage, sent, waiting, tries, quit>>
      /\ fromModem' = fromModem \/ (fromModem # <<>> /\ fromModem' = Tail(fromModem))
      /\ got' = got \/ (fromModem # <<>> /\ got' = Head(fromModem))
      /\ resetFlag' = TRUE \/ resetFlag' = resetFlag
  BY DEF LoopReset, LoopEnds, modemVars, initVars
<1>3. fromModem' \in Seq(Told) /\ got' \in Told \cup {NoAnswer}
  <2>1. fromModem \in Seq(Told) /\ got \in Told \cup {NoAnswer}
    BY <1>0 DEF Traffic, Prepares
  <2>2. fromModem # <<>> => Tail(fromModem) \in Seq(Told) /\ Head(fromModem) \in Told
    BY <2>1, TailSeq
  <2> QED BY <1>2, <2>1, <2>2
<1>4. Traffic'
  <2>1. <<>> \in Seq(Entry)
    OBVIOUS
  <2> QED BY <1>0, <1>1, <1>2, <1>3, <2>1 DEF Traffic
<1>5. Prepares'
  BY <1>0, <1>1, <1>2, <1>3 DEF Prepares, Preparing
<1>6. Bus'
  BY <1>0, <1>1, <1>2 DEF Bus
<1> QED BY <1>0, <1>4, <1>5, <1>6 DEF TypeInv

\* The client ids of an answer are ids of the modem.
LEMMA RegistrationType ==
  ASSUME TypeInv, NEW m \in Told, queue # <<>>
  PROVE  Registration(m) \in [Clients -> SUBSET ((1 .. WDA) \X (1 .. MaxId))]
<1>1. reg \in [Clients -> SUBSET ((1 .. WDA) \X (1 .. MaxId))]
  BY DEF TypeInv, Prepares
<1>2. CASE m.msg = "get" /\ m.ok
  <2>1. <<m.of, m.id>> \in (1 .. WDA) \X (1 .. MaxId)
    <3>1. m \in Answers
      BY <1>2 DEF Told, Notices
    <3>2. m.id \in 1 .. MaxId
      BY <1>2, <3>1, SizesAssumption DEF Answers, Message, SizesAssumption
    <3>3. m.of \in 1 .. WDA
      BY <1>2, <3>1, SizesAssumption DEF Answers, OfProcess, OfProxy, WDA, SizesAssumption
    <3> QED BY <3>2, <3>3
  <2>2. Registration(m) = [reg EXCEPT ![Receiver] = @ \cup {<<m.of, m.id>>}]
    BY <1>2 DEF Registration
  <2> DEFINE S == (1 .. WDA) \X (1 .. MaxId)
             x == <<m.of, m.id>>
  <2>3. x \in S /\ reg \in [Clients -> SUBSET S] /\ Registration(m) = [reg EXCEPT ![Receiver] = @ \cup {x}]
    BY <1>1, <2>1, <2>2
  <2> HIDE DEF Receiver, S, x
  <2>4. \A c \in Clients : reg[c] \cup {x} \in SUBSET S
    BY <2>3
  <2>5. Registration(m) \in [Clients -> SUBSET S]
    BY <2>3, <2>4
  <2> QED BY <2>5 DEF S
<1>3. CASE m.msg \in {"release", "revoke"} /\ m.ok
  <2>1. Registration(m) = [reg EXCEPT ![Receiver] = @ \ {<<m.of, m.id>>}]
    BY <1>3 DEF Registration
  <2> QED BY <1>1, <2>1
<1>4. CASE ~(m.msg = "get" /\ m.ok) /\ ~(m.msg \in {"release", "revoke"} /\ m.ok)
  <2>1. Registration(m) = reg
    BY <1>4 DEF Registration
  <2> QED BY <1>1, <2>1
<1> QED BY <1>2, <1>3, <1>4

LEMMA ReceivesType ==
  ASSUME TypeInv, Receives, UNCHANGED clientVars
  PROVE  TypeInv'
<1> DEFINE m == Head(fromModem)
<1>0. Processes' /\ Traffic /\ Prepares /\ Bus
  BY ProcessesKept DEF TypeInv
<1>1. /\ fromModem # <<>> /\ fromModem' = Tail(fromModem)
      /\ \/ ~server /\ RecvInit(m)
         \/ server /\ m.svc = CTL /\ RecvCtl(m) /\ got' = got
         \/ server /\ m.svc # CTL /\ RecvService(m) /\ got' = got
      /\ UNCHANGED <<present, used, faults, mode, server, stage, sent, waiting, tries, quit, link, up, loop>>
  BY DEF Receives, RecvQmi
<1>2. m \in Told /\ fromModem' \in Seq(Told)
  BY <1>0, <1>1, TailSeq DEF Traffic
<1>3. /\ up \in [Clients -> Seq(FromProcess)] /\ down \in [Clients -> Seq(Told)]
      /\ toModem \in Seq(Asked) /\ queue \in Seq(Entry)
      /\ reg \in [Clients -> SUBSET ((1 .. WDA) \X (1 .. MaxId))] /\ resetFlag \in BOOLEAN
      /\ got \in Told \cup {NoAnswer} /\ odd \subseteq {"slip", "lost", "reset", "late"}
  BY <1>0 DEF Traffic, Prepares, Bus
<1> HIDE DEF m
<1>4. /\ down' \in [Clients -> Seq(Told)] /\ toModem' \in Seq(Asked) /\ queue' \in Seq(Entry)
      /\ reg' \in [Clients -> SUBSET ((1 .. WDA) \X (1 .. MaxId))] /\ resetFlag' \in BOOLEAN
      /\ got' \in Told \cup {NoAnswer} /\ odd' \subseteq {"slip", "lost", "reset", "late"}
  <2>1. CASE RecvInit(m)
    BY <1>2, <1>3, <2>1 DEF RecvInit
  <2>2. CASE RecvService(m) /\ got' = got
    <3>1. \A c \in Clients : Append(down[c], m) \in Seq(Told)
      BY <1>2, <1>3
    <3> QED BY <1>2, <1>3, <2>2, <3>1 DEF RecvService
  <2>3. CASE RecvCtl(m) /\ got' = got
    <3> DEFINE next == IF Popped(m) THEN Tail(queue) ELSE queue
    <3>1. next \in Seq(Entry)
      BY <1>3, TailSeq DEF Popped
    <3>2. /\ queue' = next /\ toModem' \in {toModem, Append(toModem, Head(next).m)}
          /\ next = <<>> => toModem' = toModem
      BY <2>3 DEF RecvCtl
    <3> HIDE DEF next
    <3>3. toModem' \in Seq(Asked)
      <4>1. CASE next = <<>>
        BY <1>3, <3>2, <4>1
      <4>2. CASE next # <<>>
        <5>1. Head(next) \in Entry
          BY <3>1, <4>2, TailSeq
        <5>2. Head(next).m \in Asked
          BY <5>1, MessageTypes
        <5>3. Append(toModem, Head(next).m) \in Seq(Asked)
          BY <1>3, <5>2
        <5> QED BY <1>3, <3>2, <5>3
      <4> QED BY <4>1, <4>2
    <3>4. down' \in [Clients -> Seq(Told)]
      <4>1. down' \in {down, [down EXCEPT ![Receiver] = Append(down[Receiver], m)]}
        BY <2>3 DEF RecvCtl
      <4>2. Receiver \in Clients => Append(down[Receiver], m) \in Seq(Told)
        BY <1>2, <1>3
      <4> HIDE DEF Receiver
      <4> QED BY <1>3, <4>1, <4>2
    <3>5. reg' \in [Clients -> SUBSET ((1 .. WDA) \X (1 .. MaxId))] /\ resetFlag' \in BOOLEAN
      <4>1. \/ queue # <<>> /\ reg' = Registration(m) /\ resetFlag' = (resetFlag \/ m.msg = "revoke")
            \/ reg' = reg /\ resetFlag' = resetFlag
        BY <2>3 DEF RecvCtl, Popped
      <4>2. queue # <<>> => Registration(m) \in [Clients -> SUBSET ((1 .. WDA) \X (1 .. MaxId))]
        BY <1>2, RegistrationType
      <4>3. (resetFlag \/ m.msg = "revoke") \in BOOLEAN
        OBVIOUS
      <4> QED BY <1>3, <4>1, <4>2, <4>3
    <3>6. odd' \subseteq {"slip", "lost", "reset", "late"}
      BY <1>3, <2>3 DEF RecvCtl
    <3> QED BY <1>3, <2>3, <3>1, <3>2, <3>3, <3>4, <3>5, <3>6, Zenon
  <2> QED BY <1>1, <2>1, <2>2, <2>3
<1>5. Traffic'
  BY <1>1, <1>2, <1>3, <1>4 DEF Traffic
<1>6. Prepares'
  BY <1>0, <1>1, <1>4 DEF Prepares, Preparing
<1>7. Bus'
  BY <1>0, <1>1, <1>4 DEF Bus
<1> QED BY <1>0, <1>5, <1>6, <1>7 DEF TypeInv

LEMMA LoopType ==
  ASSUME TypeInv, ProxyLoop, UNCHANGED clientVars
  PROVE  TypeInv'
BY AcceptType, CleanupType, ReadClientType, LoopEndsType, BrokenPipeType, ReceivesType DEF ProxyLoop

-----------------------------------------------------------------------------
(* Type correctness: the modem.                                            *)

\* What the modem answers.
Reply(m, ok, id) == [m EXCEPT !.ok = ok, !.id = id, !.flag = "rsp"]

LEMMA ReplyType ==
  ASSUME NEW m \in Asked, NEW ok \in BOOLEAN, NEW id \in 0 .. MaxId,
         m.msg \in {"release", "work"} => id # 0, m.msg = "get" /\ ok => id # 0
  PROVE  /\ Reply(m, ok, id) \in Told
         /\ Reply(m, ok, id).svc = m.svc /\ Reply(m, ok, id).msg = m.msg /\ Reply(m, ok, id).of = m.of
         /\ Reply(m, ok, id).id = id /\ Reply(m, ok, id).tid = m.tid /\ Reply(m, ok, id).ok = ok
         /\ Reply(m, ok, id).flag = "rsp" /\ Reply(m, ok, id).own = m.own
<1> DEFINE r == Reply(m, ok, id)
<1>1. m \in Message /\ (OfProcess(m) \/ OfProxy(m))
  BY DEF Asked, FromProcess, FromProxy
<1>2. r \in Message
  BY <1>1 DEF Message, Reply
<1>3. /\ r.svc = m.svc /\ r.msg = m.msg /\ r.of = m.of
      /\ r.id = id /\ r.tid = m.tid /\ r.ok = ok
      /\ r.flag = "rsp" /\ r.own = m.own
  BY <1>1 DEF Message, Reply
<1> HIDE DEF r
<1>4. OfProcess(r) \/ OfProxy(r)
  <2>1. OfProcess(m) => OfProcess(r)
    BY <1>3 DEF OfProcess
  <2>2. OfProxy(m) => OfProxy(r)
    BY <1>3 DEF OfProxy
  <2> QED BY <1>1, <2>1, <2>2
<1>5. r \in Told
  BY <1>2, <1>3, <1>4 DEF Told, Answers
<1> QED BY <1>3, <1>5 DEF r

\* The modem gives out the least id that is free.
LEMMA FreeType ==
  ASSUME NEW F \in SUBSET (1 .. MaxId), F # {}
  PROVE  LET i == CHOOSE i \in F : \A j \in F : i <= j
         IN  i \in F /\ \A j \in F : i <= j
<1>1. F \subseteq Nat
  BY SizesAssumption DEF SizesAssumption
<1>2. PICK s \in F : \A u \in F : ~ (<<u, s>> \in OpToRel(<, Nat))
  BY <1>1, WFMin, NatLessThanWellFounded
<1>3. \A u \in F : u < s => <<u, s>> \in OpToRel(<, Nat)
  BY <1>1, Zenon DEF OpToRel
<1>4. \A u \in F : ~(u < s)
  BY <1>2, <1>3, Zenon
<1>5. \A u \in F : s <= u
  BY <1>1, <1>4
<1> QED BY <1>5

\* What the modem makes of a request.
Yields(ok, id) ==
  /\ fromModem' = Append(fromModem, Reply(Now, ok, id))
  /\ Now.msg \in {"release", "work"} => id = Now.id
  /\ Now.msg = "get" /\ ok => id # 0
  /\ Now.msg = "get" /\ ok /\ Now.of # WDA => id \notin used[Now.of]
  /\ used' = CASE Now.msg = "sync" -> [s \in 1 .. Services |-> {}]
               [] Now.msg = "get" /\ ok /\ Now.of # WDA -> [used EXCEPT ![Now.of] = @ \cup {id}]
               [] Now.msg = "release" -> [used EXCEPT ![Now.of] = @ \ {id}]
               [] OTHER -> used

LEMMA ServeIs ==
  ASSUME TypeInv, Serve
  PROVE  /\ toModem # <<>> /\ present /\ Now \in Asked /\ toModem' = Tail(toModem)
         /\ \E ok \in BOOLEAN, id \in 0 .. MaxId : Yields(ok, id)
<1>1. /\ toModem # <<>> /\ present /\ toModem' = Tail(toModem)
  BY DEF Serve, ServeSync, ServePlain, ServeGet, ServeRelease, ServeWork, Served
<1>2. Now \in Asked /\ Now \in Message
  BY <1>1, TailSeq, MessageTypes DEF TypeInv, Traffic, Now
<1>3. /\ Now.id \in 0 .. MaxId /\ 0 \in 0 .. MaxId /\ 1 \in 0 .. MaxId
      /\ used \in [1 .. Services -> SUBSET (1 .. MaxId)]
  BY <1>2, SizesAssumption DEF Message, SizesAssumption, TypeInv, Bus
<1>4. \A ok, id : Answer(ok, id) => fromModem' = Append(fromModem, Reply(Now, ok, id))
  BY DEF Answer, Reply
<1>5. CASE ServeSync
  <2>1. Now.msg = "sync" /\ used' = [s \in 1 .. Services |-> {}] /\ Answer(TRUE, 0)
    BY <1>5 DEF ServeSync
  <2>2. Yields(TRUE, 0)
    BY <1>4, <2>1 DEF Yields
  <2> QED BY <1>1, <1>2, <1>3, <2>2
<1>6. CASE ServePlain
  <2>1. /\ Now.msg \in {"version", "format"} /\ used' = used
        /\ Answer(Now.msg = "version" \/ Now.id # 0, Now.id)
    BY <1>6 DEF ServePlain
  <2>2. Yields(Now.msg = "version" \/ Now.id # 0, Now.id)
    BY <1>4, <2>1 DEF Yields
  <2>3. (Now.msg = "version" \/ Now.id # 0) \in BOOLEAN
    OBVIOUS
  <2> QED BY <1>1, <1>2, <1>3, <2>2, <2>3
<1>7. CASE ServeGet
  <2>0. Now.msg = "get"
    BY <1>7 DEF ServeGet
  <2>1. CASE Now.of = WDA
    <3>1. Answer(TRUE, 1) /\ used' = used
      BY <1>7, <2>1 DEF ServeGet
    <3>2. Yields(TRUE, 1)
      <4>1. fromModem' = Append(fromModem, Reply(Now, TRUE, 1))
        BY <1>4, <3>1
      <4>2. /\ Now.msg # "sync" /\ Now.msg # "release" /\ ~(Now.msg = "get" /\ TRUE /\ Now.of # WDA)
            /\ Now.msg \notin {"release", "work"} /\ 1 # 0
        BY <2>0, <2>1
      <4> QED BY <3>1, <4>1, <4>2 DEF Yields
    <3> QED BY <1>1, <1>2, <1>3, <3>2
  <2>2. CASE Now.of # WDA /\ Free(Now.of) = {}
    <3>1. Answer(FALSE, 0) /\ used' = used
      BY <1>7, <2>2 DEF ServeGet
    <3>2. Yields(FALSE, 0)
      BY <1>4, <2>0, <2>2, <3>1 DEF Yields
    <3> QED BY <1>1, <1>2, <1>3, <3>2
  <2>3. CASE Now.of # WDA /\ Free(Now.of) # {}
    <3> DEFINE i == CHOOSE i \in Free(Now.of) : \A j \in Free(Now.of) : i <= j
    <3>1. used' = [used EXCEPT ![Now.of] = @ \cup {i}] /\ Answer(TRUE, i)
      BY <1>7, <2>3 DEF ServeGet
    <3>2. i \in Free(Now.of)
      <4>1. Free(Now.of) \in SUBSET (1 .. MaxId)
        BY DEF Free
      <4> QED BY <2>3, <4>1, FreeType
    <3> HIDE DEF i
    <3>3. i \in 0 .. MaxId /\ i # 0 /\ i \notin used[Now.of]
      BY <3>2 DEF Free
    <3>4. Yields(TRUE, i)
      BY <1>4, <2>0, <2>3, <3>1, <3>3 DEF Yields
    <3> QED BY <1>1, <1>2, <3>3, <3>4
  <2> QED BY <2>1, <2>2, <2>3
<1>8. CASE ServeRelease
  <2>1. Now.msg = "release" /\ used' = [used EXCEPT ![Now.of] = @ \ {Now.id}] /\ Answer(TRUE, Now.id)
    BY <1>8 DEF ServeRelease
  <2>2. Yields(TRUE, Now.id)
    BY <1>4, <2>1 DEF Yields
  <2> QED BY <1>1, <1>2, <1>3, <2>2
<1>9. CASE ServeWork
  <2>1. Now.msg = "work" /\ used' = used /\ Answer(Now.id \in used[Now.svc], Now.id)
    BY <1>9 DEF ServeWork
  <2>2. Yields(Now.id \in used[Now.svc], Now.id)
    BY <1>4, <2>1 DEF Yields
  <2>3. (Now.id \in used[Now.svc]) \in BOOLEAN
    OBVIOUS
  <2> QED BY <1>1, <1>2, <1>3, <2>2, <2>3
<1> QED BY <1>5, <1>6, <1>7, <1>8, <1>9 DEF Serve

LEMMA NoticeType ==
  ASSUME NEW msg \in {"sync", "revoke"}, NEW flag \in {"rsp", "ind"}, msg = "sync" => flag = "ind"
  PROVE  /\ Notice(msg, flag) \in Told /\ Notice(msg, flag).msg = msg /\ Notice(msg, flag).flag = flag
         /\ Notice(msg, flag).svc = CTL /\ Notice(msg, flag).own = NoOne /\ Notice(msg, flag).tid = 0
         /\ Notice(msg, flag).id = 0 /\ Notice(msg, flag).of = 0
<1> DEFINE a == Ask(CTL, msg, 0, 0, 0, NoOne)
           n == Notice(msg, flag)
<1>1. /\ a \in Message /\ a.svc = CTL /\ a.msg = msg /\ a.of = 0 /\ a.id = 0 /\ a.tid = 0 /\ a.own = NoOne
  BY SizesAssumption DEF Ask, Message, Tids, CTL, WDA, SizesAssumption
<1>2. n = [a EXCEPT !.flag = flag]
  BY DEF Notice
<1> HIDE DEF a, n
<1>3. /\ n \in Message /\ n.svc = CTL /\ n.msg = msg /\ n.of = 0 /\ n.id = 0 /\ n.tid = 0 /\ n.own = NoOne
      /\ n.flag = flag
  BY <1>1, <1>2 DEF Message
<1>4. n \in Told
  BY <1>3 DEF Told, Notices
<1> QED BY <1>3, <1>4 DEF n

LEMMA ModemType ==
  ASSUME TypeInv, ModemActs
  PROVE  TypeInv'
<1>0. Processes' /\ Traffic /\ Prepares /\ Bus /\ UNCHANGED <<proxyVars, clientVars>>
  BY ProcessesKept DEF TypeInv, ModemActs
<1>1. Prepares'
  BY <1>0, PreparesKept DEF proxyVars
<1>2. /\ toModem \in Seq(Asked) /\ fromModem \in Seq(Told)
      /\ <<>> \in Seq(Asked) /\ <<>> \in Seq(Told)
      /\ used \in [1 .. Services -> SUBSET (1 .. MaxId)]
      /\ [s \in 1 .. Services |-> {}] \in [1 .. Services -> SUBSET (1 .. MaxId)]
  BY <1>0 DEF Traffic, Bus
<1>3. CASE Serve
  <2>0. PICK ok \in BOOLEAN, id \in 0 .. MaxId : Yields(ok, id)
    BY <1>3, ServeIs
  <2>1. /\ fromModem' = Append(fromModem, Reply(Now, ok, id))
        /\ Now.msg \in {"release", "work"} => id = Now.id
        /\ Now.msg = "get" /\ ok => id # 0
        /\ used' = CASE Now.msg = "sync" -> [s \in 1 .. Services |-> {}]
                     [] Now.msg = "get" /\ ok /\ Now.of # WDA -> [used EXCEPT ![Now.of] = @ \cup {id}]
                     [] Now.msg = "release" -> [used EXCEPT ![Now.of] = @ \ {id}]
                     [] OTHER -> used
    BY <2>0 DEF Yields
  <2>2. toModem # <<>> /\ toModem' = Tail(toModem) /\ Now \in Asked
    BY <1>3, ServeIs
  <2>3. Now.msg \in {"release", "work"} => Now.id # 0
    BY <2>2 DEF Asked, FromProcess, FromProxy, OfProcess, OfProxy
  <2>4. Reply(Now, ok, id) \in Told
    BY <2>1, <2>2, <2>3, ReplyType
  <2>5. toModem' \in Seq(Asked)
    BY <1>2, <2>2, TailSeq
  <2>6. fromModem' \in Seq(Told)
    BY <1>2, <2>1, <2>4
  <2>7. used' \in [1 .. Services -> SUBSET (1 .. MaxId)]
    <3>1. CASE Now.msg = "sync"
      BY <1>2, <2>1, <3>1
    <3>2. CASE Now.msg = "get" /\ ok /\ Now.of # WDA
      <4>1. id \in 1 .. MaxId
        BY <2>1, <3>2
      <4>2. used' = [used EXCEPT ![Now.of] = @ \cup {id}]
        BY <2>1, <3>2
      <4> QED BY <1>2, <4>1, <4>2
    <3>3. CASE Now.msg = "release"
      BY <1>2, <2>1, <3>3
    <3>4. CASE Now.msg # "sync" /\ ~(Now.msg = "get" /\ ok /\ Now.of # WDA) /\ Now.msg # "release"
      BY <1>2, <2>1, <3>4
    <3> QED BY <3>1, <3>2, <3>3, <3>4
  <2>8. UNCHANGED <<link, up, down, present, odd, faults>>
    BY <1>3 DEF Serve
  <2> QED BY <1>0, <1>1, <2>5, <2>6, <2>7, <2>8 DEF TypeInv, Traffic, Bus, proxyVars
<1>4. CASE ModemStep /\ ~Serve
  <2>0. faults' \in 0 .. MaxFaults
    BY <1>0, <1>4, SizesAssumption DEF ModemStep, Lose, Announce, Reset, Unplug, Fault, Bus, SizesAssumption
  <2>1. CASE Lose
    <3>1. /\ toModem # <<>> /\ toModem' = Tail(toModem) /\ odd' \in {odd, odd \cup {"lost"}}
          /\ UNCHANGED <<link, up, down, present, fromModem, used>>
      BY <2>1 DEF Lose, Served
    <3>2. toModem' \in Seq(Asked)
      BY <1>2, <3>1, TailSeq
    <3> QED BY <1>0, <1>1, <2>0, <3>1, <3>2 DEF TypeInv, Traffic, Bus, proxyVars
  <2>2. CASE Announce
    <3>1. /\ fromModem' = Append(fromModem, Notice("sync", "ind"))
          /\ UNCHANGED <<link, up, down, present, toModem, used, odd>>
      BY <2>2 DEF Announce
    <3>2. Notice("sync", "ind") \in Told
      BY NoticeType
    <3>3. fromModem' \in Seq(Told)
      BY <1>2, <3>1, <3>2
    <3> QED BY <1>0, <1>1, <2>0, <3>1, <3>3 DEF TypeInv, Traffic, Bus, proxyVars
  <2>3. CASE Reset
    <3>1. PICK flag \in {"rsp", "ind"} : fromModem' = Append(fromModem, Notice("revoke", flag))
      BY <2>3 DEF Reset
    <3>2. /\ toModem' = <<>> /\ used' = [s \in 1 .. Services |-> {}] /\ odd' = odd \cup {"reset"}
          /\ UNCHANGED <<link, up, down, present>>
      BY <2>3 DEF Reset
    <3>3. Notice("revoke", flag) \in Told
      BY NoticeType
    <3>4. fromModem' \in Seq(Told)
      BY <1>2, <3>1, <3>3
    <3> QED BY <1>0, <1>1, <1>2, <2>0, <3>2, <3>4 DEF TypeInv, Traffic, Bus, proxyVars
  <2>4. CASE Unplug
    <3>1. /\ present' = FALSE /\ toModem' = <<>> /\ fromModem' = <<>>
          /\ used' = [s \in 1 .. Services |-> {}] /\ UNCHANGED <<link, up, down, odd>>
      BY <2>4 DEF Unplug
    <3> QED BY <1>0, <1>1, <1>2, <2>0, <3>1 DEF TypeInv, Traffic, Bus, proxyVars
  <2> QED BY <1>4, <2>1, <2>2, <2>3, <2>4 DEF ModemStep
<1>5. CASE Replug
  <2>1. present' = TRUE /\ UNCHANGED <<link, up, down, toModem, fromModem, used, odd, faults>>
    BY <1>5 DEF Replug, Plug
  <2> QED BY <1>0, <1>1, <2>1 DEF TypeInv, Traffic, Bus, proxyVars
<1> QED BY <1>3, <1>4, <1>5 DEF ModemActs

-----------------------------------------------------------------------------
(* Type correctness.                                                       *)

LEMMA TypeInit == Init => TypeInv
<1> SUFFICES ASSUME Init PROVE TypeInv
  OBVIOUS
<1> USE DEF Init, TransportInit, ClientInit, ProxyInit
<1>1. Traffic
  <2>1. <<>> \in Seq(FromProcess) /\ <<>> \in Seq(Told) /\ <<>> \in Seq(Asked) /\ <<>> \in Seq(Entry)
    OBVIOUS
  <2> QED BY <2>1 DEF Traffic
<1>2. Processes
  <2>1. Fine("off", 0, "call", 1, 0, NoIds)
    BY DEF Fine, Started
  <2>2. /\ NoIds \in IdSets /\ 0 \in 0 .. MaxTid + 2 * Services + 1 /\ 0 \in 0 .. Services
        /\ 0 \in 0 .. MaxLives
    BY SizesAssumption, LivesAssumption DEF NoIds, IdSets, SizesAssumption, LivesAssumption
  <2> QED BY <2>1, <2>2 DEF Processes, Phases, Steps
<1>3. Prepares
  <2>1. /\ 0 \in 0 .. MaxTries /\ MaxSyncs + 1 - 2 + 0 >= 0
        /\ 1 \in 1 .. 5 /\ 0 \in Nat
    BY TriesAssumption DEF TriesAssumption
  <2>2. ~waiting /\ (IF waiting THEN 1 ELSE 0) = 0
    OBVIOUS
  <2>3. Preparing
    BY <2>1, <2>2 DEF Preparing
  <2>4. reg \in [Clients -> SUBSET ((1 .. WDA) \X (1 .. MaxId))]
    OBVIOUS
  <2> QED BY <2>1, <2>3, <2>4 DEF Prepares
<1>4. Bus
  BY SizesAssumption DEF Bus, SizesAssumption
<1> QED BY <1>1, <1>2, <1>3, <1>4 DEF TypeInv

LEMMA TypeKept ==
  ASSUME TypeInv, [Next]_vars
  PROVE  TypeInv'
<1>1. CASE UNCHANGED vars
  BY <1>1, ProcessesKept, TrafficKept, PreparesKept
  DEF TypeInv, Bus, vars, transportVars, modemVars, proxyVars
<1>2. ASSUME NEW c \in Clients, ClientStep(c)
      PROVE  TypeInv'
  BY <1>2, ConnectType, CallType, ReceiveType, NextRequestType, GivesUpType, LeavesType DEF ClientStep
<1>3. CASE ProxyStep
  BY <1>3, MainType, LoopType DEF ProxyStep
<1>4. CASE ModemActs
  BY <1>4, ModemType
<1> QED BY <1>1, <1>2, <1>3, <1>4 DEF Next, Finished

\* The requests to services a process has made.
Numbers == mtid \in [Clients -> 1 .. MaxTid + 1]

LEMMA NumbersKept ==
  ASSUME Numbers, [Next]_vars
  PROVE  Numbers'
<1> USE SizesAssumption DEF SizesAssumption
<1>1. CASE UNCHANGED mtid
  BY <1>1 DEF Numbers
<1>2. ASSUME NEW c \in Clients, mtid' = [mtid EXCEPT ![c] = 1]
      PROVE  Numbers'
  BY <1>2 DEF Numbers
<1>3. ASSUME NEW c \in Clients, ClientStep(c)
      PROVE  Numbers'
  <2>1. CASE Call(c)
    BY <1>1, <2>1 DEF Call, Counted, Set, Numbers
  <2>2. CASE Connect(c) \/ Receive(c) \/ Version(c) \/ GetClientId(c) \/ Work(c) \/ Worked(c) \/ GivesUp(c)
    BY <1>1, <2>2 DEF Connect, Receive, Version, GetClientId, Work, Worked, GivesUp, GiveUp, Quiet
  <2>3. CASE Leaves(c)
    BY <1>1, <1>2, <2>3 DEF Leaves, Release, HangUp, Kill, Ends, Quiet, Set
  <2> QED BY <1>3, <2>1, <2>2, <2>3 DEF ClientStep
<1>4. UNCHANGED vars \/ ProxyStep \/ ModemActs => UNCHANGED mtid
  BY DEF vars, ProxyStep, ModemActs, clientVars, runVars
<1> QED BY <1>1, <1>3, <1>4 DEF Next, Finished

LEMMA TypeInvIsTypeOK == TypeInv /\ Numbers => TypeOK
<1> SUFFICES ASSUME TypeInv, Numbers PROVE TypeOK
  OBVIOUS
<1>0. Processes /\ Traffic /\ Prepares /\ Bus
  BY DEF TypeInv
<1>1. /\ FromProcess \subseteq Message /\ Asked \subseteq Message /\ Told \subseteq Message
      /\ NoAnswer \in Message
  BY MessageTypes
<1>2. TransportTypeOK
  <2>1. up \in [Clients -> Seq(Message)] /\ down \in [Clients -> Seq(Message)]
    <3>1. \A c \in Clients : up[c] \in Seq(Message) /\ down[c] \in Seq(Message)
      <4> SUFFICES ASSUME NEW c \in Clients
                   PROVE  up[c] \in Seq(Message) /\ down[c] \in Seq(Message)
        OBVIOUS
      <4>1. up[c] \in Seq(FromProcess) /\ down[c] \in Seq(Told)
        BY <1>0 DEF Traffic
      <4> QED BY <1>1, <4>1, SeqMonotonic
    <3> QED BY <1>0, <3>1 DEF Traffic
  <2>2. toModem \in Seq(Message) /\ fromModem \in Seq(Message)
    <3>1. toModem \in Seq(Asked) /\ fromModem \in Seq(Told)
      BY <1>0 DEF Traffic
    <3> QED BY <1>1, <3>1, SeqMonotonic
  <2> QED BY <1>0, <2>1, <2>2 DEF TransportTypeOK, Bus
<1>3. ClientTypeOK
  <2>1. rsp \in [Clients -> Message]
    BY <1>0, <1>1 DEF Processes
  <2>2. ASSUME NEW c \in Clients PROVE ctid[c] \in 1 .. 2 * Services + 2
    <3>1. Is(c)
      BY <1>0, ProcessIs
    <3>2. CASE phase[c] \in {"off", "version"}
      BY <3>1, <3>2, SizesAssumption DEF Is, Fine, Started, SizesAssumption
    <3>3. CASE phase[c] = "get"
      BY <3>1, <3>3, SizesAssumption DEF Is, Fine, Started, SizesAssumption
    <3>4. CASE phase[c] \in {"idle", "work"}
      BY <3>1, <3>4, SizesAssumption DEF Is, Fine, Started, SizesAssumption
    <3>5. CASE phase[c] = "release"
      BY <3>1, <3>5, SizesAssumption DEF Is, Fine, Started, SizesAssumption
    <3> QED BY <3>1, <3>2, <3>3, <3>4, <3>5 DEF Is, Phases
  <2> QED BY <1>0, <2>1, <2>2 DEF ClientTypeOK, Processes, Phases, Steps, IdSets, Numbers
<1>4. ProxyTypeOK
  <2>1. sent \in 0 .. MaxSyncs + 3
    BY <1>0, TriesAssumption DEF Prepares, Preparing, TriesAssumption
  <2>2. Entry \subseteq [fd : Clients, m : Message]
    BY <1>1 DEF Entry
  <2>3. queue \in Seq([fd : Clients, m : Message])
    BY <1>0, <2>2, SeqMonotonic DEF Traffic
  <2>4. got \in Message
    BY <1>0, <1>1 DEF Prepares
  <2> QED BY <1>0, <2>1, <2>3, <2>4 DEF ProxyTypeOK, Prepares
<1> QED BY <1>2, <1>3, <1>4 DEF TypeOK

\* A process that is gone holds nothing, a process has made the requests its phase
\* tells, and what travels between processes, proxy and modem are requests, answers
\* and notices of the right shape, however many processes and services there are.
THEOREM TypeCorrect == Spec => []TypeOK
<1>1. TypeInv /\ [Next]_vars => TypeInv'
  BY TypeKept
<1>2. Numbers /\ [Next]_vars => Numbers'
  BY NumbersKept
<1>3. Init => Numbers
  BY SizesAssumption DEF Init, ClientInit, Numbers, SizesAssumption
<1> QED BY <1>1, <1>2, <1>3, TypeInit, TypeInvIsTypeOK, PTL DEF Spec

-----------------------------------------------------------------------------
(* The queue and the modem are in step.                                    *)

\* A CTL request of a process, or its answer.
Ours(m)    == OfClient(m) /\ m.msg # "revoke"
Has(q)     == \E i \in DOMAIN q : Ours(q[i])
Lone(q)    == \A i, j \in DOMAIN q : Ours(q[i]) /\ Ours(q[j]) => i = j
Revoked(q) == \E i \in DOMAIN q : q[i].msg = "revoke"

\* What the sockets and the queue are worth when a part of the system is down.
Wired ==
  /\ \A c \in Clients : phase[c] = "off" <=> link[c] \in {"free", "left"}
  /\ ~server => \A c \in Clients : link[c] \in {"free", "cut"}
  /\ ~loop => \A c \in Clients : link[c] # "up"
  /\ ~(loop /\ server) => queue = <<>>
  /\ ~present => toModem = <<>> /\ fromModem = <<>>
  /\ ~server => ~Has(toModem) /\ ~Has(fromModem)
  /\ "reset" \notin odd => ~Revoked(fromModem)

\* What is at the modem is the head of the queue, or the modem has begun anew.
Calm == odd \subseteq {"late", "reset"}
Manned == \A i \in DOMAIN queue : Connected(queue[i].fd)
Aligned ==
  Calm => /\ Manned
          /\ Lone(toModem) /\ Lone(fromModem) /\ ~(Has(toModem) /\ Has(fromModem))
          /\ loop /\ server /\ present =>
               /\ queue = <<>> => ~Has(toModem) /\ ~Has(fromModem)
               /\ queue # <<>> => Has(toModem) \/ Has(fromModem) \/ Revoked(fromModem)

InStep == TypeInv /\ Wired /\ Aligned

LEMMA OursAppend ==
  ASSUME NEW S, NEW q \in Seq(S), NEW x \in S
  PROVE  /\ Has(Append(q, x)) <=> Has(q) \/ Ours(x)
         /\ Lone(q) /\ ~(Has(q) /\ Ours(x)) => Lone(Append(q, x))
         /\ Revoked(Append(q, x)) <=> Revoked(q) \/ x.msg = "revoke"
<1>1. /\ DOMAIN Append(q, x) = 1 .. Len(q) + 1 /\ DOMAIN q = 1 .. Len(q) /\ Len(q) \in Nat
      /\ \A i \in 1 .. Len(q) : Append(q, x)[i] = q[i]
      /\ Append(q, x)[Len(q) + 1] = x
  BY AppendSeq
<1>2. \A i : i \in 1 .. Len(q) + 1 <=> i \in 1 .. Len(q) \/ i = Len(q) + 1
  BY <1>1
<1> HIDE DEF Ours
<1>3. Has(Append(q, x)) <=> Has(q) \/ Ours(x)
  BY <1>1, <1>2 DEF Has
<1>4. Lone(q) /\ ~(Has(q) /\ Ours(x)) => Lone(Append(q, x))
  BY <1>1, <1>2 DEF Has, Lone
<1>5. Revoked(Append(q, x)) <=> Revoked(q) \/ x.msg = "revoke"
  BY <1>1, <1>2 DEF Revoked
<1> QED BY <1>3, <1>4, <1>5

LEMMA OursTail ==
  ASSUME NEW S, NEW q \in Seq(S), q # <<>>
  PROVE  /\ Has(q) <=> Ours(Head(q)) \/ Has(Tail(q))
         /\ Lone(q) => Lone(Tail(q)) /\ ~(Ours(Head(q)) /\ Has(Tail(q)))
         /\ Revoked(q) <=> Head(q).msg = "revoke" \/ Revoked(Tail(q))
<1>1. /\ Head(q) = q[1] /\ Len(q) \in Nat \ {0}
      /\ DOMAIN Tail(q) = 1 .. Len(q) - 1 /\ DOMAIN q = 1 .. Len(q)
      /\ \A i \in 1 .. Len(q) - 1 : Tail(q)[i] = q[i + 1]
  BY TailSeq
<1>2. /\ 1 \in 1 .. Len(q)
      /\ \A i \in 1 .. Len(q) - 1 : i + 1 \in 1 .. Len(q) /\ i + 1 # 1
      /\ \A i \in 1 .. Len(q) : i = 1 \/ (i - 1 \in 1 .. Len(q) - 1 /\ i - 1 + 1 = i)
      /\ \A i, j \in 1 .. Len(q) - 1 : i + 1 = j + 1 => i = j
  BY <1>1
<1>r. \A i \in DOMAIN q : q[i] = Head(q) \/ \E j \in DOMAIN Tail(q) : q[i] = Tail(q)[j]
  <2> SUFFICES ASSUME NEW i \in DOMAIN q, i # 1 PROVE \E j \in DOMAIN Tail(q) : q[i] = Tail(q)[j]
    BY <1>1
  <2>1. i - 1 \in DOMAIN Tail(q) /\ Tail(q)[i - 1] = q[i]
    BY <1>1, <1>2
  <2> QED BY <2>1
<1>f. \A i \in DOMAIN Tail(q) : \E j \in DOMAIN q : Tail(q)[i] = q[j]
  BY <1>1, <1>2
<1>h. \E j \in DOMAIN q : q[j] = Head(q)
  BY <1>1, <1>2
<1> HIDE DEF Ours
<1>3. Has(q) <=> Ours(Head(q)) \/ Has(Tail(q))
  BY <1>r, <1>f, <1>h DEF Has
<1>4. Lone(q) => Lone(Tail(q)) /\ ~(Ours(Head(q)) /\ Has(Tail(q)))
  BY <1>1, <1>2 DEF Lone, Has
<1>5. Revoked(q) <=> Head(q).msg = "revoke" \/ Revoked(Tail(q))
  BY <1>r, <1>f, <1>h DEF Revoked
<1> QED BY <1>3, <1>4, <1>5

LEMMA OursDisown ==
  ASSUME NEW S, S \subseteq Message, NEW q \in Seq(S), NEW o, \A m \in S : Orphan(m) \in S
  PROVE  /\ Has(Disown(q, o)) <=> Has(q)
         /\ Lone(q) => Lone(Disown(q, o))
         /\ Revoked(Disown(q, o)) <=> Revoked(q)
<1> DEFINE p == Disown(q, o)
<1>1. /\ DOMAIN p = 1 .. Len(q) /\ DOMAIN q = 1 .. Len(q)
      /\ \A i \in 1 .. Len(q) : p[i] = IF q[i].own = o THEN Orphan(q[i]) ELSE q[i]
  BY DisownSeq
<1>2. \A i \in 1 .. Len(q) : q[i] \in Message
  OBVIOUS
<1>3. \A i \in 1 .. Len(q) : (Ours(p[i]) <=> Ours(q[i])) /\ p[i].msg = q[i].msg
  <2> SUFFICES ASSUME NEW i \in 1 .. Len(q)
               PROVE  (Ours(p[i]) <=> Ours(q[i])) /\ p[i].msg = q[i].msg
    OBVIOUS
  <2>1. /\ Orphan(q[i]).svc = q[i].svc /\ Orphan(q[i]).msg = q[i].msg
        /\ Orphan(q[i]).tid = q[i].tid /\ Orphan(q[i]).flag = q[i].flag
    BY <1>2, OrphanIsMessage
  <2>2. Ours(Orphan(q[i])) <=> Ours(q[i])
    BY <2>1 DEF Ours, OfClient
  <2> QED BY <1>1, <2>1, <2>2
<1> HIDE DEF p
<1> QED BY <1>1, <1>3 DEF Has, Lone, Revoked, p

LEMMA OursEmpty == ~Has(<<>>) /\ Lone(<<>>) /\ ~Revoked(<<>>)
BY DEF Has, Lone, Revoked

\* Requests of a process to CTL are ours, those of the proxy and of services are not.
LEMMA OursAre ==
  /\ \A m \in FromProcess : Ours(m) <=> m.svc = CTL
  /\ \A m \in FromProxy : ~Ours(m)
  /\ \A m \in Asked : m.msg # "revoke"
  /\ \A m \in Told : Ours(m) => m.msg \in {"version", "get", "release"} /\ m.flag = "rsp"
  /\ \A m \in Told : m.svc = CTL /\ ~Ours(m) => m.flag = "ind" \/ m.tid >= FirstTid \/ m.msg = "revoke"
<1>1. /\ Services \in Nat \ {0} /\ 2 * Services + 1 < FirstTid /\ 2 * Services + 1 \in Nat
      /\ FirstTid \in Nat /\ CTL = 0 /\ Services + 1 < FirstTid /\ 1 < FirstTid
  BY SizesAssumption, TidsAssumption DEF SizesAssumption, TidsAssumption, FirstTid, CTL
<1>2. ASSUME NEW m \in Message, OfProcess(m)
      PROVE  (m.svc = CTL => m.tid < FirstTid) /\ m.msg \in {"version", "get", "release", "work"}
             /\ (m.svc = CTL => m.msg # "work")
  BY <1>1, <1>2, SizesAssumption DEF OfProcess, SizesAssumption
<1>3. ASSUME NEW m \in Message, OfProxy(m)
      PROVE  m.tid >= FirstTid /\ ~(m.tid < FirstTid) /\ m.msg # "revoke"
  BY <1>1, <1>3 DEF OfProxy, Message, Tids
<1>4. \A m \in FromProcess : Ours(m) <=> m.svc = CTL
  BY <1>2 DEF FromProcess, Ours, OfClient
<1>5. \A m \in FromProxy : ~Ours(m) /\ m.msg # "revoke"
  BY <1>3 DEF FromProxy, Ours, OfClient
<1>6. \A m \in FromProcess : m.msg # "revoke"
  BY <1>2 DEF FromProcess
<1>7. ASSUME NEW m \in Told
      PROVE  /\ Ours(m) => m.msg \in {"version", "get", "release"} /\ m.flag = "rsp"
             /\ m.svc = CTL /\ ~Ours(m) => m.flag = "ind" \/ m.tid >= FirstTid \/ m.msg = "revoke"
  <2>1. CASE m \in Answers
    <3>1. m \in Message /\ m.flag = "rsp" /\ (OfProcess(m) \/ OfProxy(m))
      BY <2>1 DEF Answers
    <3>2. CASE OfProcess(m)
      BY <1>2, <3>1, <3>2 DEF Ours, OfClient
    <3>3. CASE OfProxy(m)
      BY <1>3, <3>1, <3>3 DEF Ours, OfClient
    <3> QED BY <3>1, <3>2, <3>3
  <2>2. CASE m \in Notices
    BY <2>2 DEF Notices, Ours, OfClient
  <2> QED BY <2>1, <2>2 DEF Told
<1> QED BY <1>4, <1>5, <1>6, <1>7 DEF Asked

LEMMA InStepFrame ==
  ASSUME InStep, \A c \in Clients : phase'[c] = "off" <=> phase[c] = "off",
         UNCHANGED <<link, server, loop, present, toModem, fromModem, queue, odd>>
  PROVE  Wired' /\ Aligned'
BY DEF InStep, Wired, Aligned, Calm, Manned, Connected

\* The connections of the queue stay connected.
LEMMA MannedKept ==
  ASSUME TypeInv, Manned, \A c \in Clients : Connected(c) => Connected(c)',
         \A i \in DOMAIN queue' : \E j \in DOMAIN queue : queue'[i].fd = queue[j].fd
  PROVE  Manned'
<1>1. \A j \in DOMAIN queue : queue[j].fd \in Clients
  BY MessageTypes DEF TypeInv, Traffic
<1> SUFFICES ASSUME NEW i \in DOMAIN queue' PROVE Connected(queue[i].fd)'
  BY DEF Manned
<1>2. PICK j \in DOMAIN queue : queue'[i].fd = queue[j].fd
  OBVIOUS
<1>3. Connected(queue[j].fd)
  BY DEF Manned
<1> QED BY <1>1, <1>2, <1>3 DEF Connected

LEMMA EmptyIs == \A S : \A q \in Seq(S) : Len(q) = 0 => q = <<>>
BY EmptySeq

\* Requests given up change neither the queue's order nor what is at the modem.
LEMMA InStepDisown ==
  ASSUME InStep, NEW o, toModem' = Disown(toModem, o), fromModem' = Disown(fromModem, o),
         queue' = <<>> <=> queue = <<>>,
         \A i \in DOMAIN queue' : i \in DOMAIN queue /\ queue'[i].fd = queue[i].fd,
         UNCHANGED <<server, loop, present>>, odd' \in {odd, odd \cup {"late"}},
         \A c \in Clients : /\ phase'[c] = "off" <=> link'[c] \in {"free", "left"}
                            /\ Connected(c) => Connected(c)'
                            /\ link[c] \in {"free", "cut"} => link'[c] \in {"free", "cut"}
                            /\ link'[c] = "up" => link[c] = "up"
  PROVE  Wired' /\ Aligned'
<1>0. TypeInv /\ Wired /\ Aligned
  BY DEF InStep
<1>1. toModem \in Seq(Asked) /\ fromModem \in Seq(Told) /\ queue \in Seq(Entry)
  BY <1>0 DEF TypeInv, Traffic
<1>2. /\ Has(toModem') <=> Has(toModem)
      /\ Lone(toModem) => Lone(toModem')
  BY <1>1, MessageTypes, OrphanTypes, OursDisown
<1>3. /\ Has(fromModem') <=> Has(fromModem)
      /\ Lone(fromModem) => Lone(fromModem')
      /\ Revoked(fromModem') <=> Revoked(fromModem)
  BY <1>1, MessageTypes, OrphanTypes, OursDisown
<1>4. /\ toModem = <<>> => toModem' = <<>>
      /\ fromModem = <<>> => fromModem' = <<>>
  BY DEF Disown
<1>5. \A i \in DOMAIN queue : queue[i].fd \in Clients
  BY <1>1, MessageTypes
<1>6. Calm' => Calm
  BY DEF Calm
<1>7. Wired'
  BY <1>0, <1>2, <1>3, <1>4 DEF Wired
<1>8. ASSUME Calm
      PROVE  Manned'
  BY <1>0, <1>8, MannedKept DEF Aligned
<1>9. Aligned'
  BY <1>0, <1>2, <1>3, <1>6, <1>8 DEF Aligned
<1> QED BY <1>7, <1>9

LEMMA ConnectInStep ==
  ASSUME InStep, NEW c \in Clients, server, Connect(c), UNCHANGED proxyVars
  PROVE  Wired' /\ Aligned'
<1>1. /\ phase[c] = "off" /\ link[c] = "free"
      /\ phase' = [phase EXCEPT ![c] = "version"] /\ link' = [link EXCEPT ![c] = "waiting"]
      /\ UNCHANGED <<server, loop, present, toModem, fromModem, queue, odd>>
  BY DEF Connect, Set, modemVars, proxyVars
<1>2. /\ phase \in [Clients -> Phases] /\ link \in [Clients -> {"free", "waiting", "up", "left", "cut"}]
      /\ queue \in Seq(Entry)
  BY DEF InStep, TypeInv, Processes, Bus, Traffic
<1>3. Wired'
  BY <1>1, <1>2 DEF InStep, Wired
<1>4. \A d \in Clients : Connected(d) => Connected(d)'
  BY <1>1, <1>2 DEF Connected
<1>5. \A i \in DOMAIN queue : queue[i].fd \in Clients
  BY <1>2, MessageTypes
<1>6. Aligned'
  <2>1. ASSUME Calm PROVE Manned'
    BY <1>1, <1>4, <2>1, MannedKept DEF InStep, Aligned
  <2> QED BY <1>1, <2>1 DEF InStep, Aligned, Calm
<1> QED BY <1>3, <1>6

LEMMA QueueLeftFds ==
  ASSUME InStep, NEW c \in Clients, Abandons(c)
  PROVE  /\ queue' = <<>> <=> queue = <<>>
         /\ \A i \in DOMAIN queue' : i \in DOMAIN queue /\ queue'[i].fd = queue[i].fd
         /\ UNCHANGED <<mode, server, loop, initVars, quit, resetFlag, reg>>
<1>1. /\ queue \in Seq(Entry) /\ queue' \in Seq(Entry) /\ Len(queue') = Len(queue)
      /\ \A i \in 1 .. Len(queue) :
           queue'[i] = IF queue[i].m.own = c THEN Left(queue[i]) ELSE queue[i]
  BY QueueLeft DEF InStep, TypeInv, Traffic
<1>2. DOMAIN queue = 1 .. Len(queue) /\ DOMAIN queue' = 1 .. Len(queue)
  BY <1>1
<1>3. \A i \in 1 .. Len(queue) : Left(queue[i]).fd = queue[i].fd
  BY <1>1, LeftEntry
<1>4. queue' = <<>> <=> queue = <<>>
  BY <1>1, EmptySeq
<1> QED BY <1>1, <1>2, <1>3, <1>4 DEF Abandons

LEMMA GivesUpInStep ==
  ASSUME InStep, NEW c \in Clients, GivesUp(c)
  PROVE  Wired' /\ Aligned'
<1>1. /\ toModem' = Disown(toModem, c) /\ fromModem' = Disown(fromModem, c) /\ Abandons(c)
      /\ UNCHANGED <<present, link, phase>> /\ odd' \in {odd, odd \cup {"late"}}
  BY DEF GivesUp, GiveUp, Forsaken
<1>2. /\ queue' = <<>> <=> queue = <<>>
      /\ \A i \in DOMAIN queue' : i \in DOMAIN queue /\ queue'[i].fd = queue[i].fd
      /\ UNCHANGED <<server, loop>>
  BY <1>1, QueueLeftFds
<1>3. \A d \in Clients : /\ phase'[d] = "off" <=> link'[d] \in {"free", "left"}
                         /\ Connected(d) => Connected(d)'
                         /\ link[d] \in {"free", "cut"} => link'[d] \in {"free", "cut"}
                         /\ link'[d] = "up" => link[d] = "up"
  BY <1>1 DEF InStep, Wired, Connected
<1> QED BY <1>1, <1>2, <1>3, InStepDisown

LEMMA LeavesInStep ==
  ASSUME InStep, NEW c \in Clients, Leaves(c)
  PROVE  Wired' /\ Aligned'
<1>0. /\ phase \in [Clients -> Phases] /\ link \in [Clients -> {"free", "waiting", "up", "left", "cut"}]
      /\ Abandons(c)
  BY DEF InStep, TypeInv, Processes, Bus, Leaves
<1>1. /\ queue' = <<>> <=> queue = <<>>
      /\ \A i \in DOMAIN queue' : i \in DOMAIN queue /\ queue'[i].fd = queue[i].fd
      /\ UNCHANGED <<server, loop>>
  BY <1>0, QueueLeftFds
<1>2. ASSUME Ends(c), UNCHANGED odd, phase[c] # "off"
      PROVE  Wired' /\ Aligned'
  <2>1. /\ phase' = [phase EXCEPT ![c] = "off"]
        /\ link' = [link EXCEPT ![c] = IF link[c] = "cut" THEN "free" ELSE "left"]
        /\ toModem' = Disown(toModem, c) /\ fromModem' = Disown(fromModem, c) /\ UNCHANGED present
    BY <1>2 DEF Ends, Set, Forsaken
  <2>2. link[c] \in {"waiting", "up", "cut"}
    BY <1>0, <1>2 DEF InStep, Wired
  <2>3. \A d \in Clients : /\ phase'[d] = "off" <=> link'[d] \in {"free", "left"}
                           /\ Connected(d) => Connected(d)'
                           /\ link[d] \in {"free", "cut"} => link'[d] \in {"free", "cut"}
                           /\ link'[d] = "up" => link[d] = "up"
    BY <1>0, <2>1, <2>2 DEF InStep, Wired, Connected
  <2> QED BY <1>1, <1>2, <2>1, <2>3, InStepDisown
<1>3. CASE HangUp(c)
  BY <1>2, <1>3 DEF HangUp
<1>4. CASE Kill(c)
  BY <1>2, <1>4 DEF Kill
<1>5. CASE Release(c)
  <2>1. phase[c] # "off"
    BY <1>5 DEF Release
  <2>2. CASE Ends(c) /\ UNCHANGED <<odd, faults>>
    BY <1>2, <2>1, <2>2
  <2>3. CASE Set(phase, c, "release") /\ Quiet
    <3>1. /\ phase' = [phase EXCEPT ![c] = "release"]
          /\ UNCHANGED <<link, present, toModem, fromModem, odd>>
      BY <2>3 DEF Set, Quiet, transportVars, modemVars
    <3>2. \A d \in Clients : phase'[d] = "off" <=> phase[d] = "off"
      BY <1>0, <2>1, <3>1
    <3>3. \A i \in DOMAIN queue : queue[i].fd \in Clients
      BY MessageTypes DEF InStep, TypeInv, Traffic
    <3>4. ASSUME Calm PROVE Manned'
      BY <1>1, <3>1, <3>3, <3>4, MannedKept DEF InStep, Aligned, Connected
    <3>5. Wired'
      BY <1>1, <3>1, <3>2 DEF InStep, Wired
    <3>6. Aligned'
      BY <1>1, <3>1, <3>4 DEF InStep, Aligned, Calm
    <3> QED BY <3>5, <3>6
  <2> QED BY <1>5, <2>2, <2>3 DEF Release
<1> QED BY <1>3, <1>4, <1>5 DEF Leaves

\* The steps of a process.
LEMMA ClientInStep ==
  ASSUME InStep, NEW c \in Clients, ClientStep(c)
  PROVE  Wired' /\ Aligned'
<1>0. phase \in [Clients -> Phases]
  BY DEF InStep, TypeInv, Processes
<1>1. ASSUME Call(c) \/ Receive(c) \/ Version(c) \/ GetClientId(c) \/ Work(c) \/ Worked(c),
             UNCHANGED proxyVars
      PROVE  Wired' /\ Aligned'
  <2>1. UNCHANGED <<link, server, loop, present, toModem, fromModem, queue, odd>>
    BY <1>1 DEF Call, Receive, Version, GetClientId, Work, Worked, Quiet, transportVars, modemVars, proxyVars
  <2>2. \A d \in Clients : phase'[d] = "off" <=> phase[d] = "off"
    <3>1. CASE Call(c) \/ Receive(c)
      BY <3>1 DEF Call, Receive
    <3>2. CASE Version(c) \/ GetClientId(c) \/ Work(c) \/ Worked(c)
      <4>1. phase[c] # "off" /\ \E p \in {"get", "idle", "work"} : phase' \in {phase, [phase EXCEPT ![c] = p]}
        BY <3>2 DEF Version, GetClientId, Work, Worked, Set
      <4> QED BY <1>0, <4>1
    <3> QED BY <1>1, <3>1, <3>2
  <2> QED BY <2>1, <2>2, InStepFrame
<1> QED BY <1>1, ConnectInStep, GivesUpInStep, LeavesInStep DEF ClientStep

LEMMA MainInStep ==
  ASSUME InStep, ProxyMain \/ Interrupt, UNCHANGED clientVars
  PROVE  Wired' /\ Aligned'
<1>0. /\ TypeInv /\ Wired /\ Aligned /\ Prepares /\ Preparing
      /\ toModem \in Seq(Asked) /\ UNCHANGED phase
      /\ link \in [Clients -> {"free", "waiting", "up", "left", "cut"}]
  BY DEF InStep, TypeInv, Prepares, Traffic, Bus, clientVars, runVars
<1>1. CASE Open
  <2>1. /\ loop' = TRUE /\ UNCHANGED <<link, server, present, toModem, fromModem, queue, odd>>
        /\ ~server
    BY <1>0, <1>1 DEF Open, transportVars, modemVars, Preparing
  <2>2. Manned => Manned'
    BY <2>1 DEF Manned, Connected
  <2> QED BY <1>0, <2>1, <2>2 DEF Wired, Aligned, Calm
<1>2. CASE Prepare
  <2>1. /\ toModem' \in {toModem, Append(toModem, Preparation)} /\ (~present => toModem' = toModem)
        /\ UNCHANGED <<link, server, loop, present, fromModem, queue, odd>> /\ stage < 5
    BY <1>2 DEF Prepare
  <2>2. Preparation \in Asked /\ ~Ours(Preparation)
    BY <1>0, <2>1, PreparationType, OursAre DEF Asked
  <2>3. /\ Has(toModem') <=> Has(toModem)
        /\ Lone(toModem) => Lone(toModem')
    BY <1>0, <2>1, <2>2, OursAppend
  <2>4. Manned => Manned'
    BY <2>1 DEF Manned, Connected
  <2> QED BY <1>0, <2>1, <2>3, <2>4 DEF Wired, Aligned, Calm
<1>3. CASE Prepared \/ Exit \/ Interrupt
  <2>1. UNCHANGED <<link, server, loop, present, toModem, fromModem, queue, odd>>
    BY <1>3 DEF Prepared, Exit, Interrupt, transportVars, modemVars
  <2> QED BY <1>0, <2>1, InStepFrame
<1>4. CASE PrepareTimesOut
  <2>1. /\ toModem' = Disown(toModem, Proxy) /\ fromModem' = Disown(fromModem, Proxy)
        /\ UNCHANGED <<link, server, loop, present, queue, odd>>
    BY <1>4 DEF PrepareTimesOut
  <2>2. \A d \in Clients : /\ phase'[d] = "off" <=> link'[d] \in {"free", "left"}
                           /\ Connected(d) => Connected(d)'
                           /\ link[d] \in {"free", "cut"} => link'[d] \in {"free", "cut"}
                           /\ link'[d] = "up" => link[d] = "up"
    BY <1>0, <2>1 DEF Wired, Connected
  <2> QED BY <2>1, <2>2, InStepDisown
<1>5. CASE StartServer
  <2>1. /\ server' = TRUE /\ UNCHANGED <<link, loop, present, toModem, fromModem, queue, odd>>
        /\ ~server
    BY <1>0, <1>5 DEF StartServer, transportVars, modemVars, Preparing
  <2>2. Manned => Manned'
    BY <2>1 DEF Manned, Connected
  <2> QED BY <1>0, <2>1, <2>2 DEF Wired, Aligned, Calm
<1>6. CASE Join
  <2>1. /\ ~loop /\ server' = FALSE /\ toModem' = <<>> /\ fromModem' = <<>>
        /\ link' = [c \in Clients |-> IF link[c] = "waiting" THEN "cut" ELSE IF link[c] = "left" THEN "free" ELSE link[c]]
        /\ UNCHANGED <<present, odd, loop, queue>>
    BY <1>6 DEF Join
  <2>2. queue = <<>> /\ Manned'
    BY <1>0, <2>1 DEF Wired, Manned
  <2>3. \A c \in Clients : /\ link'[c] \in {"free", "cut"}
                           /\ link'[c] = "free" <=> link[c] \in {"free", "left"}
    BY <1>0, <2>1 DEF Wired
  <2>4. Wired'
    BY <1>0, <2>1, <2>2, <2>3, OursEmpty DEF Wired
  <2> QED BY <2>1, <2>2, <2>4, OursEmpty DEF Aligned
<1> QED BY <1>1, <1>2, <1>3, <1>4, <1>5, <1>6 DEF ProxyMain

LEMMA AcceptInStep ==
  ASSUME InStep, NEW c \in Clients, Accept(c), UNCHANGED clientVars
  PROVE  Wired' /\ Aligned'
<1>0. /\ TypeInv /\ Wired /\ Aligned /\ UNCHANGED phase
      /\ link \in [Clients -> {"free", "waiting", "up", "left", "cut"}]
  BY DEF InStep, TypeInv, Bus, clientVars, runVars
<1>1. /\ loop /\ server /\ link[c] = "waiting" /\ link' = [link EXCEPT ![c] = "up"]
      /\ UNCHANGED <<server, loop, present, toModem, fromModem, queue, odd>>
  BY DEF Accept, Set, modemVars, proxyVars
<1>2. Manned => Manned'
  <2>1. \A d \in Clients : Connected(d) => Connected(d)'
    BY <1>0, <1>1 DEF Connected
  <2> QED BY <1>0, <1>1, <2>1, MannedKept
<1>3. Wired'
  BY <1>0, <1>1 DEF Wired
<1> QED BY <1>0, <1>1, <1>2, <1>3 DEF Aligned, Calm

LEMMA CleanupInStep ==
  ASSUME InStep, NEW c \in Clients, Cleanup(c), UNCHANGED clientVars
  PROVE  Wired' /\ Aligned'
<1>0. /\ TypeInv /\ Wired /\ Aligned /\ UNCHANGED phase
      /\ link \in [Clients -> {"free", "waiting", "up", "left", "cut"}] /\ queue \in Seq(Entry)
  BY DEF InStep, TypeInv, Bus, Traffic, clientVars, runVars
<1>1. /\ loop /\ link[c] = "left" /\ link' = [link EXCEPT ![c] = "free"]
      /\ UNCHANGED <<server, loop, present, toModem, fromModem>>
  BY DEF Cleanup, Set, modemVars
<1>2. server
  BY <1>0, <1>1 DEF Wired
<1>3. /\ "reset" \in odd' <=> "reset" \in odd
      /\ \/ Queued(c) /\ "slip" \in odd'
         \/ ~Queued(c) /\ UNCHANGED <<queue, odd>>
  BY DEF Cleanup
<1>4. Wired'
  BY <1>0, <1>1, <1>2, <1>3 DEF Wired
<1>5. ASSUME Manned, ~Queued(c), UNCHANGED queue PROVE Manned'
  <2>1. \A i \in DOMAIN queue : queue[i].fd \in Clients /\ queue[i].fd # c
    BY <1>0, <1>5, MessageTypes DEF Queued
  <2> QED BY <1>0, <1>1, <1>5, <2>1 DEF Manned, Connected
<1>6. Aligned'
  BY <1>0, <1>1, <1>3, <1>5 DEF Aligned, Calm
<1> QED BY <1>4, <1>6

LEMMA ReadClientInStep ==
  ASSUME InStep, NEW c \in Clients, ReadClient(c), UNCHANGED clientVars
  PROVE  Wired' /\ Aligned'
<1> DEFINE m == Head(up[c])
           e == [fd |-> c, m |-> m]
<1>0. /\ TypeInv /\ Wired /\ Aligned /\ UNCHANGED phase
      /\ up[c] \in Seq(FromProcess) /\ queue \in Seq(Entry) /\ toModem \in Seq(Asked)
  BY DEF InStep, TypeInv, Traffic, clientVars, runVars
<1>1. /\ loop /\ Connected(c) /\ up[c] # <<>>
      /\ UNCHANGED <<link, server, loop, present, fromModem>>
      /\ \/ /\ toModem' = IF Goes(m) /\ present THEN Append(toModem, m) ELSE toModem
            /\ queue' = IF m.svc = CTL THEN Append(queue, e) ELSE queue
            /\ UNCHANGED odd
         \/ odd' = odd \cup {"lost"} /\ UNCHANGED <<toModem, queue>>
  BY DEF ReadClient, SendQmi
<1>2. server
  BY <1>0, <1>1 DEF Wired, Connected
<1>3. m \in FromProcess /\ m \in Asked /\ (Ours(m) <=> m.svc = CTL)
  BY <1>0, <1>1, TailSeq, OursAre, MessageTypes
<1> HIDE DEF m
<1>4. CASE odd' = odd \cup {"lost"} /\ UNCHANGED <<toModem, queue>>
  BY <1>0, <1>1, <1>4 DEF Wired, Aligned, Calm
<1>5. CASE /\ toModem' = IF Goes(m) /\ present THEN Append(toModem, m) ELSE toModem
           /\ queue' = IF m.svc = CTL THEN Append(queue, e) ELSE queue
           /\ UNCHANGED odd
  <2>1. Wired'
    BY <1>0, <1>1, <1>2, <1>5 DEF Wired
  <2>2. CASE m.svc = CTL
    <3>1. e \in Entry /\ e.fd = c
      BY <1>3, <2>2 DEF Entry
    <3> HIDE DEF e
    <3>2. /\ queue' = Append(queue, e) /\ queue' \in Seq(Entry) /\ queue' # <<>>
          /\ \A i \in DOMAIN queue' : (i \in DOMAIN queue /\ queue'[i] = queue[i]) \/ queue'[i] = e
      <4>1. queue' = Append(queue, e)
        BY <1>5, <2>2
      <4>2. /\ DOMAIN Append(queue, e) = 1 .. Len(queue) + 1 /\ DOMAIN queue = 1 .. Len(queue)
            /\ \A i \in 1 .. Len(queue) : Append(queue, e)[i] = queue[i]
            /\ Append(queue, e)[Len(queue) + 1] = e /\ Len(queue) \in Nat
            /\ Append(queue, e) \in Seq(Entry) /\ Len(Append(queue, e)) = Len(queue) + 1
        BY <1>0, <3>1, AppendSeq
      <4>3. Append(queue, e) # <<>>
        BY <4>2
      <4> QED BY <4>1, <4>2, <4>3
    <3>3. ASSUME Manned PROVE Manned'
      <4> SUFFICES ASSUME NEW i \in DOMAIN queue' PROVE Connected(queue[i].fd)'
        BY DEF Manned
      <4>1. CASE i \in DOMAIN queue /\ queue'[i] = queue[i]
        BY <1>1, <3>3, <4>1 DEF Manned, Connected
      <4>2. CASE queue'[i] = e
        BY <1>1, <3>1, <4>2 DEF Connected
      <4> QED BY <3>2, <4>1, <4>2
    <3>4. /\ Has(Append(toModem, m)) /\ (Lone(toModem) /\ ~Has(toModem) => Lone(Append(toModem, m)))
      BY <1>0, <1>3, <2>2, OursAppend
    <3>5. CASE queue = <<>> /\ present
      <4>1. toModem' = Append(toModem, m)
        BY <1>5, <3>5 DEF Goes
      <4> QED BY <1>0, <1>1, <1>2, <1>5, <2>1, <3>2, <3>3, <3>4, <3>5, <4>1 DEF Aligned, Calm
    <3>6. CASE ~(queue = <<>> /\ present)
      <4>1. toModem' = toModem
        BY <1>5, <2>2, <3>6 DEF Goes
      <4> QED BY <1>0, <1>1, <1>2, <1>5, <2>1, <3>2, <3>3, <3>6, <4>1 DEF Aligned, Calm
    <3> QED BY <3>5, <3>6
  <2>3. CASE m.svc # CTL
    <3>1. /\ Has(toModem') <=> Has(toModem)
          /\ Lone(toModem) => Lone(toModem')
      BY <1>0, <1>3, <1>5, <2>3, OursAppend
    <3>2. queue' = queue /\ (Manned => Manned')
      BY <1>1, <1>5, <2>3 DEF Manned, Connected
    <3> QED BY <1>0, <1>1, <1>5, <2>1, <3>1, <3>2 DEF Aligned, Calm
  <2> QED BY <2>2, <2>3
<1> QED BY <1>1, <1>4, <1>5

LEMMA BrokenPipeInStep ==
  ASSUME InStep, BrokenPipe, UNCHANGED clientVars
  PROVE  Wired' /\ Aligned'
<1>0. /\ TypeInv /\ Wired /\ UNCHANGED phase
      /\ link \in [Clients -> {"free", "waiting", "up", "left", "cut"}]
  BY DEF InStep, TypeInv, Bus, clientVars, runVars
<1>1. /\ server' = FALSE /\ loop' = FALSE /\ queue' = <<>> /\ toModem' = <<>> /\ fromModem' = <<>>
      /\ link' = [c \in Clients |-> IF link[c] \in {"waiting", "up"} THEN "cut" ELSE IF link[c] = "left" THEN "free" ELSE link[c]]
  BY DEF BrokenPipe
<1>2. \A c \in Clients : /\ link'[c] \in {"free", "cut"}
                         /\ link'[c] = "free" <=> link[c] \in {"free", "left"}
  BY <1>0, <1>1
<1>3. ~Has(<<>>) /\ Lone(<<>>) /\ ~Revoked(<<>>) /\ Manned'
  BY <1>1 DEF Has, Lone, Revoked, Manned
<1>4. ~Has(toModem)' /\ ~Has(fromModem)' /\ Lone(toModem)' /\ Lone(fromModem)' /\ ~Revoked(fromModem)'
  BY <1>1, <1>3
<1>5. Wired'
  BY <1>0, <1>1, <1>2, <1>4 DEF Wired
<1> QED BY <1>1, <1>3, <1>4, <1>5 DEF Aligned

LEMMA LoopEndsInStep ==
  ASSUME InStep, LoopReset \/ LoopEnds, UNCHANGED clientVars
  PROVE  Wired' /\ Aligned'
<1>0. /\ TypeInv /\ Wired /\ Aligned /\ UNCHANGED phase
      /\ link \in [Clients -> {"free", "waiting", "up", "left", "cut"}]
      /\ fromModem \in Seq(Told)
  BY DEF InStep, TypeInv, Bus, Traffic, clientVars, runVars
<1>1. /\ loop' = FALSE /\ queue' = <<>> /\ UNCHANGED <<server, present, toModem, odd>>
      /\ link' = [c \in Clients |-> IF link[c] = "up" THEN "cut" ELSE IF link[c] = "left" THEN "free" ELSE link[c]]
      /\ \/ fromModem' = fromModem
         \/ fromModem # <<>> /\ fromModem' = Tail(fromModem)
  BY DEF LoopReset, LoopEnds, Ending, modemVars
<1>2. \A c \in Clients : /\ link'[c] \in {"free", "waiting", "cut"}
                         /\ link'[c] = "free" <=> link[c] \in {"free", "left"}
                         /\ link[c] \in {"free", "cut"} => link'[c] \in {"free", "cut"}
  BY <1>0, <1>1
<1>3. /\ Has(fromModem') => Has(fromModem)
      /\ Lone(fromModem) => Lone(fromModem')
      /\ Revoked(fromModem') => Revoked(fromModem)
  BY <1>0, <1>1, OursTail
<1>4. Manned'
  BY <1>1 DEF Manned
<1>5. Wired'
  BY <1>0, <1>1, <1>2, <1>3 DEF Wired
<1> QED BY <1>0, <1>1, <1>3, <1>4, <1>5 DEF Aligned, Calm

\* An answer is the one the head of the queue waits for, or the queue has slipped.
LEMMA ReceivesInStep ==
  ASSUME InStep, Receives, UNCHANGED clientVars
  PROVE  Wired' /\ Aligned'
<1> DEFINE m == Head(fromModem)
           next == IF Popped(m) THEN Tail(queue) ELSE queue
<1>0. /\ TypeInv /\ Wired /\ Aligned /\ UNCHANGED phase
      /\ fromModem \in Seq(Told) /\ toModem \in Seq(Asked) /\ queue \in Seq(Entry)
  BY DEF InStep, TypeInv, Traffic, clientVars, runVars
<1>1. /\ loop /\ fromModem # <<>> /\ fromModem' = Tail(fromModem) /\ ~resetFlag'
      /\ \/ ~server /\ RecvInit(m)
         \/ server /\ m.svc = CTL /\ RecvCtl(m)
         \/ server /\ m.svc # CTL /\ RecvService(m)
      /\ UNCHANGED <<link, server, loop, present>>
  BY DEF Receives, RecvQmi
<1>2. present
  BY <1>0, <1>1 DEF Wired
<1>3. m \in Told
  BY <1>0, <1>1, TailSeq
<1>4. /\ Has(fromModem) <=> Ours(m) \/ Has(fromModem')
      /\ Lone(fromModem) => Lone(fromModem') /\ ~(Ours(m) /\ Has(fromModem'))
      /\ Revoked(fromModem) <=> m.msg = "revoke" \/ Revoked(fromModem')
  BY <1>0, <1>1, OursTail
<1> HIDE DEF m
<1>5. CASE (~server /\ RecvInit(m)) \/ (m.svc # CTL /\ RecvService(m))
  <2>1. UNCHANGED <<toModem, odd, queue>> /\ (Manned => Manned')
    BY <1>1, <1>5 DEF RecvInit, RecvService, Manned, Connected
  <2>2. ~server \/ (~Ours(m) /\ m.msg # "revoke")
    <3>1. ~server \/ m.svc # CTL
      BY <1>5
    <3>2. m.svc # CTL => ~Ours(m)
      BY DEF Ours, OfClient
    <3>3. m.msg = "revoke" => m.svc = CTL
      BY <1>3 DEF Told, Answers, Notices, OfProcess, OfProxy
    <3> QED BY <3>1, <3>2, <3>3
  <2> QED BY <1>0, <1>1, <1>2, <1>4, <2>1, <2>2 DEF Wired, Aligned, Calm
<1>6. CASE server /\ m.svc = CTL /\ RecvCtl(m)
  <2>1. /\ queue' = next
        /\ toModem' = IF next # <<>> /\ Connected(Head(next).fd) /\ present
                        THEN Append(toModem, Head(next).m) ELSE toModem
        /\ odd' = IF queue # <<>> /\ (m.flag = "ind" \/ m.tid >= FirstTid) THEN odd \cup {"slip"} ELSE odd
        /\ Popped(m) /\ Connected(Receiver) /\ m.msg = "revoke" => resetFlag'
    BY <1>6 DEF RecvCtl
  <2>2. Wired'
    BY <1>0, <1>1, <1>2, <1>4, <1>6, <2>1 DEF Wired
  <2>3. CASE queue = <<>>
    <3>1. next = <<>> /\ toModem' = toModem /\ odd' = odd
      BY <2>1, <2>3 DEF Popped
    <3>2. Manned'
      BY <2>1, <3>1 DEF Manned
    <3> QED BY <1>0, <1>1, <1>2, <1>4, <1>6, <2>1, <2>2, <2>3, <3>1, <3>2 DEF Aligned, Calm
  <2>4. CASE queue # <<>> /\ Calm'
    <3>1. /\ m.flag # "ind" /\ ~(m.tid >= FirstTid) /\ odd' = odd /\ Calm
      BY <2>1, <2>4 DEF Calm
    <3>2. Manned
      BY <1>0, <3>1 DEF Aligned
    <3>3. /\ Head(queue) \in Entry /\ Head(queue) = queue[1] /\ 1 \in DOMAIN queue
          /\ Tail(queue) \in Seq(Entry)
          /\ \A i \in DOMAIN Tail(queue) : \E j \in DOMAIN queue : Tail(queue)[i] = queue[j]
      <4>1. /\ Tail(queue) \in Seq(Entry) /\ Head(queue) \in Entry /\ Head(queue) = queue[1]
            /\ Len(queue) \in Nat \ {0}
            /\ DOMAIN Tail(queue) = 1 .. Len(queue) - 1 /\ DOMAIN queue = 1 .. Len(queue)
            /\ \A i \in 1 .. Len(queue) - 1 : Tail(queue)[i] = queue[i + 1]
        BY <1>0, <2>4, TailSeq
      <4>2. \A i \in 1 .. Len(queue) - 1 : i + 1 \in 1 .. Len(queue)
        BY <4>1
      <4> QED BY <4>1, <4>2
    <3>4. Connected(Receiver)
      BY <3>2, <3>3 DEF Manned, Receiver
    <3>5. m.flag = "rsp"
      BY <1>3, <3>1 DEF Told, Answers, Notices
    <3>6. Popped(m) /\ next = Tail(queue)
      BY <2>4, <3>5 DEF Popped
    <3>7. Ours(m)
      BY <1>1, <1>3, <1>6, <2>1, <3>1, <3>4, <3>6, OursAre
    <3>8. ~Has(fromModem') /\ ~Has(toModem) /\ Lone(fromModem') /\ Lone(toModem)
      BY <1>0, <1>4, <3>1, <3>7 DEF Aligned
    <3>9. Manned'
      <4>1. \A i \in DOMAIN queue' : \E j \in DOMAIN queue : queue'[i].fd = queue[j].fd
        BY <2>1, <3>3, <3>6
      <4> QED BY <1>0, <1>1, <3>2, <4>1, MannedKept DEF Connected
    <3>10. CASE next = <<>>
      <4>1. toModem' = toModem /\ queue' = <<>>
        BY <2>1, <3>10
      <4> QED BY <1>1, <2>2, <3>8, <3>9, <4>1 DEF Aligned
    <3>11. CASE next # <<>>
      <4>1. Head(next) \in Entry /\ Head(next) = next[1] /\ 1 \in DOMAIN next
        <5>1. Tail(queue) # <<>>
          BY <3>6, <3>11
        <5>2. /\ Head(Tail(queue)) \in Entry /\ Head(Tail(queue)) = Tail(queue)[1]
              /\ 1 \in DOMAIN Tail(queue)
          BY <3>3, <5>1, TailSeq
        <5> QED BY <3>6, <5>2
      <4>2. Connected(Head(next).fd)
        BY <2>1, <1>1, <3>9, <4>1 DEF Manned, Connected
      <4>3. Head(next).m \in Asked /\ Ours(Head(next).m)
        BY <4>1, MessageTypes, OursAre
      <4> HIDE DEF next
      <4>4. toModem' = Append(toModem, Head(next).m) /\ queue' # <<>>
        BY <1>2, <2>1, <3>11, <4>2
      <4>5. Has(toModem') /\ Lone(toModem')
        BY <1>0, <3>8, <4>3, <4>4, OursAppend
      <4> QED BY <1>1, <2>2, <3>8, <3>9, <4>4, <4>5 DEF Aligned
    <3> QED BY <3>10, <3>11
  <2>5. CASE ~Calm'
    BY <2>2, <2>5 DEF Aligned
  <2> QED BY <2>3, <2>4, <2>5
<1> QED BY <1>1, <1>5, <1>6

LEMMA LoopInStep ==
  ASSUME InStep, ProxyLoop, UNCHANGED clientVars
  PROVE  Wired' /\ Aligned'
BY AcceptInStep, CleanupInStep, ReadClientInStep, LoopEndsInStep, BrokenPipeInStep, ReceivesInStep DEF ProxyLoop

LEMMA ModemInStep ==
  ASSUME InStep, ModemActs
  PROVE  Wired' /\ Aligned'
<1>0. /\ TypeInv /\ Wired /\ Aligned /\ UNCHANGED <<phase, server, loop, queue>>
      /\ toModem \in Seq(Asked) /\ fromModem \in Seq(Told)
  BY DEF InStep, TypeInv, Traffic, ModemActs, clientVars, runVars, proxyVars
<1>1. CASE Serve
  <2>1. PICK ok \in BOOLEAN, id \in 0 .. MaxId : Yields(ok, id)
    BY <1>0, <1>1, ServeIs
  <2>2. /\ toModem # <<>> /\ present /\ Now \in Asked /\ toModem' = Tail(toModem)
    BY <1>0, <1>1, ServeIs
  <2> DEFINE r == Reply(Now, ok, id)
  <2>3. /\ r \in Told /\ (Ours(r) <=> Ours(Now)) /\ r.msg # "revoke"
    <3>1. /\ Now.msg \in {"release", "work"} => id # 0
          /\ Now.msg = "get" /\ ok => id # 0
      BY <2>1, <2>2 DEF Yields, Asked, FromProcess, FromProxy, OfProcess, OfProxy
    <3>2. r \in Told /\ r.svc = Now.svc /\ r.msg = Now.msg /\ r.tid = Now.tid /\ r.flag = "rsp"
      BY <2>2, <3>1, ReplyType
    <3>3. Now.flag = "req" /\ Now.msg # "revoke"
      BY <2>2, OursAre DEF Asked, FromProcess, FromProxy
    <3> HIDE DEF r
    <3> QED BY <3>2, <3>3 DEF Ours, OfClient
  <2>4. fromModem' = Append(fromModem, r)
    BY <2>1 DEF Yields
  <2> HIDE DEF r
  <2>5. /\ Has(fromModem') <=> Has(fromModem) \/ Ours(Now)
        /\ Lone(fromModem) /\ ~(Has(fromModem) /\ Ours(Now)) => Lone(fromModem')
        /\ Revoked(fromModem') <=> Revoked(fromModem)
    BY <1>0, <2>3, <2>4, OursAppend
  <2>6. /\ Has(toModem) <=> Ours(Now) \/ Has(toModem')
        /\ Lone(toModem) => Lone(toModem') /\ ~(Ours(Now) /\ Has(toModem'))
    BY <1>0, <2>2, OursTail DEF Now
  <2>7. UNCHANGED <<link, present, odd>> /\ (Manned => Manned')
    BY <1>0, <1>1 DEF Serve, Manned, Connected
  <2> QED BY <1>0, <2>2, <2>5, <2>6, <2>7 DEF Wired, Aligned, Calm
<1>2. CASE Lose
  <2>1. /\ toModem # <<>> /\ toModem' = Tail(toModem) /\ present
        /\ odd' = IF Now.svc = CTL THEN odd \cup {"lost"} ELSE odd
        /\ UNCHANGED <<link, present, fromModem>>
    BY <1>2 DEF Lose, Served
  <2>2. /\ Has(toModem) <=> Ours(Now) \/ Has(toModem')
        /\ Lone(toModem) => Lone(toModem')
    BY <1>0, <2>1, OursTail DEF Now
  <2>3. Ours(Now) => ~Calm'
    BY <2>1 DEF Ours, OfClient, Calm
  <2>4. Manned => Manned'
    BY <1>0, <2>1 DEF Manned, Connected
  <2> QED BY <1>0, <2>1, <2>2, <2>3, <2>4 DEF Wired, Aligned, Calm
<1>3. CASE Announce
  <2>1. /\ present /\ fromModem' = Append(fromModem, Notice("sync", "ind"))
        /\ UNCHANGED <<link, present, toModem, odd>>
    BY <1>3 DEF Announce
  <2>2. /\ Notice("sync", "ind") \in Told /\ ~Ours(Notice("sync", "ind"))
        /\ Notice("sync", "ind").msg # "revoke"
    BY NoticeType DEF Ours, OfClient
  <2>3. /\ Has(fromModem') <=> Has(fromModem)
        /\ Lone(fromModem) => Lone(fromModem')
        /\ Revoked(fromModem') <=> Revoked(fromModem)
    BY <1>0, <2>1, <2>2, OursAppend
  <2>4. Manned => Manned'
    BY <1>0, <2>1 DEF Manned, Connected
  <2> QED BY <1>0, <2>1, <2>3, <2>4 DEF Wired, Aligned, Calm
<1>4. CASE Reset
  <2>1. PICK flag \in {"rsp", "ind"} : fromModem' = Append(fromModem, Notice("revoke", flag))
    BY <1>4 DEF Reset
  <2>2. present /\ toModem' = <<>> /\ odd' = odd \cup {"reset"} /\ UNCHANGED <<link, present>>
    BY <1>4 DEF Reset
  <2>3. /\ Notice("revoke", flag) \in Told /\ ~Ours(Notice("revoke", flag))
        /\ Notice("revoke", flag).msg = "revoke"
    BY NoticeType DEF Ours
  <2>4. /\ Has(fromModem') <=> Has(fromModem)
        /\ Lone(fromModem) => Lone(fromModem')
        /\ Revoked(fromModem')
    BY <1>0, <2>1, <2>3, OursAppend
  <2>5. Manned => Manned'
    BY <1>0, <2>2 DEF Manned, Connected
  <2> QED BY <1>0, <2>2, <2>4, <2>5, OursEmpty DEF Wired, Aligned, Calm
<1>5. CASE Unplug
  <2>1. present' = FALSE /\ toModem' = <<>> /\ fromModem' = <<>> /\ UNCHANGED <<link, odd>>
    BY <1>5 DEF Unplug
  <2>2. Manned => Manned'
    BY <1>0, <2>1 DEF Manned, Connected
  <2> QED BY <1>0, <2>1, <2>2, OursEmpty DEF Wired, Aligned, Calm
<1>6. CASE Replug
  <2>1. ~loop /\ present' = TRUE /\ UNCHANGED <<link, toModem, fromModem, odd>>
    BY <1>6 DEF Replug, Plug
  <2>2. Manned => Manned'
    BY <1>0, <2>1 DEF Manned, Connected
  <2> QED BY <1>0, <2>1, <2>2 DEF Wired, Aligned, Calm
<1> QED BY <1>1, <1>2, <1>3, <1>4, <1>5, <1>6 DEF ModemActs, ModemStep

LEMMA InitInStep == Init => InStep
<1> SUFFICES ASSUME Init PROVE Wired /\ Aligned
  BY TypeInit DEF InStep
<1>1. /\ link = [c \in Clients |-> "free"] /\ phase = [c \in Clients |-> "off"]
      /\ toModem = <<>> /\ fromModem = <<>> /\ queue = <<>> /\ ~loop /\ ~server /\ present
  BY DEF Init, TransportInit, ClientInit, ProxyInit
<1>2. Manned
  BY <1>1 DEF Manned
<1> QED BY <1>1, <1>2, OursEmpty DEF Wired, Aligned

LEMMA InStepKept ==
  ASSUME InStep, [Next]_vars
  PROVE  InStep'
<1>1. TypeInv'
  BY TypeKept DEF InStep
<1>2. CASE UNCHANGED vars
  <2>1. UNCHANGED <<phase, link, server, loop, present, toModem, fromModem, queue, odd>>
    BY <1>2 DEF vars, transportVars, modemVars, clientVars, runVars, proxyVars
  <2> QED BY <1>1, <2>1, InStepFrame DEF InStep
<1>3. ASSUME NEW c \in Clients, ClientStep(c)
      PROVE  InStep'
  BY <1>1, <1>3, ClientInStep DEF InStep
<1>4. CASE ProxyStep
  BY <1>1, <1>4, MainInStep, LoopInStep DEF ProxyStep, InStep
<1>5. CASE ModemActs
  BY <1>1, <1>5, ModemInStep DEF InStep
<1> QED BY <1>2, <1>3, <1>4, <1>5 DEF Next, Finished

\* One CTL request between the queue and the modem: none with an empty queue.
LEMMA InStepIsInSync == InStep => InSync
<1> SUFFICES ASSUME InStep, loop, server, present, Undisturbed
             PROVE  Cardinality(InFlight) = IF queue = <<>> THEN 0 ELSE 1
  BY DEF InSync
<1>1. /\ toModem \in Seq(Asked) /\ fromModem \in Seq(Told) /\ Wired /\ Aligned
      /\ Calm /\ ~Revoked(fromModem)
  BY DEF InStep, TypeInv, Traffic, Wired, Undisturbed, Calm
<1>2. \A i \in DOMAIN toModem : OfClient(toModem[i]) <=> Ours(toModem[i])
  BY <1>1, OursAre, ElementOfSeq DEF Ours
<1>3. \A i \in DOMAIN fromModem : OfClient(fromModem[i]) <=> Ours(fromModem[i])
  BY <1>1 DEF Ours, Revoked
<1>4. Lone(toModem) /\ Lone(fromModem) /\ ~(Has(toModem) /\ Has(fromModem))
  BY <1>1 DEF Aligned
<1>5. CASE queue = <<>>
  <2>1. ~Has(toModem) /\ ~Has(fromModem)
    BY <1>1, <1>5 DEF Aligned
  <2>2. InFlight = {}
    BY <1>2, <1>3, <2>1 DEF InFlight, Has
  <2> QED BY <1>5, <2>2, FS_EmptySet
<1>6. CASE queue # <<>>
  <2>1. Has(toModem) \/ Has(fromModem)
    BY <1>1, <1>6 DEF Aligned
  <2>2. \E x : InFlight = {x}
    <3>1. CASE Has(toModem)
      <4>1. PICK i \in DOMAIN toModem : Ours(toModem[i])
        BY <3>1 DEF Has
      <4>2. {j \in DOMAIN toModem : OfClient(toModem[j])} = {i}
        BY <1>2, <1>4, <4>1 DEF Lone
      <4>3. {j \in DOMAIN fromModem : OfClient(fromModem[j])} = {}
        BY <1>3, <1>4, <3>1 DEF Has
      <4>4. InFlight = {<<"to", i>>}
        BY <4>2, <4>3 DEF InFlight
      <4> QED BY <4>4
    <3>2. CASE Has(fromModem)
      <4>1. PICK i \in DOMAIN fromModem : Ours(fromModem[i])
        BY <3>2 DEF Has
      <4>2. {j \in DOMAIN fromModem : OfClient(fromModem[j])} = {i}
        BY <1>3, <1>4, <4>1 DEF Lone
      <4>3. {j \in DOMAIN toModem : OfClient(toModem[j])} = {}
        BY <1>2, <1>4, <3>2 DEF Has
      <4>4. InFlight = {<<"from", i>>}
        BY <4>2, <4>3 DEF InFlight
      <4> QED BY <4>4
    <3> QED BY <2>1, <3>1, <3>2
  <2>3. Cardinality(InFlight) = 1
    BY <2>2, FS_Singleton
  <2> QED BY <1>6, <2>3
<1> QED BY <1>5, <1>6

\* While the modem is there and nothing but a request left behind has come between
\* requests and their answers, one CTL request of the processes is at the modem or on
\* its way back exactly when the queue is not empty, so an answer that comes is the
\* head's, however the processes, the threads and the modem interleave.
THEOREM QueueInStep == Spec => []InSync
<1>1. InStep /\ [Next]_vars => InStep'
  BY InStepKept
<1> QED BY <1>1, InitInStep, InStepIsInSync, PTL DEF Spec

-----------------------------------------------------------------------------
(* Kinds of messages in a sequence: whether there is one, only one, and in *)
(* which order.                                                            *)

In(q, A)        == \E i \in DOMAIN q : q[i] \in A
Once(q, A)      == \A i, j \in DOMAIN q : q[i] \in A /\ q[j] \in A => i = j
Before(q, A, B) == \A i, j \in DOMAIN q : q[i] \in A /\ q[j] \in B => i < j
\* None of B comes between two of A.
Apart(q, A, B)  == \A i, j, k \in DOMAIN q : i < k /\ k < j => ~(q[i] \in A /\ q[k] \in B /\ q[j] \in A)
\* Where r has something of A, q has.
Agree(q, r, A)  == DOMAIN r = DOMAIN q /\ \A i \in DOMAIN q : r[i] \in A <=> q[i] \in A

LEMMA KindsAgree ==
  ASSUME NEW q, NEW r, NEW A, NEW B, Agree(q, r, A), Agree(q, r, B)
  PROVE  /\ In(r, A) <=> In(q, A)
         /\ Once(q, A) => Once(r, A)
         /\ Before(q, A, B) => Before(r, A, B)
         /\ Apart(q, A, B) => Apart(r, A, B)
BY DEF Agree, In, Once, Before, Apart

LEMMA KindsAppend ==
  ASSUME NEW S, NEW q \in Seq(S), NEW x \in S, NEW A, NEW B
  PROVE  /\ In(Append(q, x), A) <=> In(q, A) \/ x \in A
         /\ Once(q, A) /\ ~(In(q, A) /\ x \in A) => Once(Append(q, x), A)
         /\ Before(q, A, B) /\ ~(In(q, B) /\ x \in A) /\ ~(x \in A /\ x \in B) => Before(Append(q, x), A, B)
         /\ Apart(q, A, B) /\ (x \in A => Before(q, B, A)) => Apart(Append(q, x), A, B)
<1>1. /\ DOMAIN Append(q, x) = 1 .. Len(q) + 1 /\ DOMAIN q = 1 .. Len(q) /\ Len(q) \in Nat
      /\ \A i \in 1 .. Len(q) : Append(q, x)[i] = q[i]
      /\ Append(q, x)[Len(q) + 1] = x
  BY AppendSeq
<1>2. \A i : i \in 1 .. Len(q) + 1 <=> i \in 1 .. Len(q) \/ i = Len(q) + 1
  BY <1>1
<1>3. \A i \in 1 .. Len(q) : i < Len(q) + 1 /\ ~(Len(q) + 1 < i)
  BY <1>1
<1>4. ~(Len(q) + 1 < Len(q) + 1)
  BY <1>1
<1> DEFINE p == Append(q, x)
           n == Len(q) + 1
<1>5. /\ DOMAIN p = DOMAIN q \cup {n} /\ n \notin DOMAIN q
      /\ \A i \in DOMAIN q : p[i] = q[i] /\ i < n /\ ~(n < i)
      /\ p[n] = x /\ ~(n < n)
  BY <1>1, <1>2, <1>3, <1>4
<1> HIDE DEF p, n
<1>6. In(p, A) <=> In(q, A) \/ x \in A
  BY <1>5 DEF In
<1>7. Once(q, A) /\ ~(In(q, A) /\ x \in A) => Once(p, A)
  BY <1>5 DEF In, Once
<1>8. Before(q, A, B) /\ ~(In(q, B) /\ x \in A) /\ ~(x \in A /\ x \in B) => Before(p, A, B)
  BY <1>5 DEF In, Before
<1>9. ASSUME Apart(q, A, B), x \in A => Before(q, B, A) PROVE Apart(p, A, B)
  <2> SUFFICES ASSUME NEW i \in DOMAIN p, NEW j \in DOMAIN p, NEW k \in DOMAIN p, i < k, k < j,
                      p[i] \in A, p[k] \in B, p[j] \in A
               PROVE  FALSE
    BY DEF Apart
  <2>1. i \in DOMAIN q /\ k \in DOMAIN q
    BY <1>5
  <2>2. CASE j \in DOMAIN q
    BY <1>5, <1>9, <2>1, <2>2 DEF Apart
  <2>3. CASE j = n
    <3>1. k < i
      BY <1>5, <1>9, <2>1, <2>3 DEF Before
    <3> QED BY <1>1, <2>1, <3>1
  <2> QED BY <1>5, <2>2, <2>3
<1> QED BY <1>6, <1>7, <1>8, <1>9 DEF p

LEMMA KindsTail ==
  ASSUME NEW S, NEW q \in Seq(S), q # <<>>, NEW A, NEW B
  PROVE  /\ In(q, A) <=> Head(q) \in A \/ In(Tail(q), A)
         /\ Once(q, A) => Once(Tail(q), A) /\ ~(Head(q) \in A /\ In(Tail(q), A))
         /\ Before(q, A, B) => Before(Tail(q), A, B) /\ ~(Head(q) \in B /\ In(q, A))
         /\ Apart(q, A, B) => Apart(Tail(q), A, B)
         /\ Apart(q, A, B) /\ Head(q) \in A /\ A \cap B = {} => Before(Tail(q), A, B)
<1>1. /\ Head(q) = q[1] /\ Len(q) \in Nat \ {0}
      /\ DOMAIN Tail(q) = 1 .. Len(q) - 1 /\ DOMAIN q = 1 .. Len(q)
      /\ \A i \in 1 .. Len(q) - 1 : Tail(q)[i] = q[i + 1]
  BY TailSeq
<1> DEFINE p == Tail(q)
<1>2. /\ 1 \in DOMAIN q /\ DOMAIN p \subseteq Int
      /\ \A i \in DOMAIN p : i + 1 \in DOMAIN q /\ 1 < i + 1 /\ i + 1 # 1 /\ p[i] = q[i + 1]
      /\ \A i \in DOMAIN q : i = 1 \/ \E j \in DOMAIN p : i = j + 1
      /\ \A i \in DOMAIN q : ~(i < 1)
      /\ \A i, j \in DOMAIN p : (i + 1 = j + 1 => i = j) /\ (i + 1 < j + 1 <=> i < j)
  <2>1. \A i \in 1 .. Len(q) - 1 : i + 1 \in 1 .. Len(q) /\ 1 < i + 1
    BY <1>1
  <2>2. \A i \in 1 .. Len(q) : i = 1 \/ (i - 1 \in 1 .. Len(q) - 1 /\ i = (i - 1) + 1)
    BY <1>1
  <2>3. \A i \in DOMAIN p : i + 1 \in DOMAIN q /\ 1 < i + 1 /\ i + 1 # 1 /\ p[i] = q[i + 1]
    BY <1>1, <2>1
  <2>4. \A i \in DOMAIN q : i = 1 \/ \E j \in DOMAIN p : i = j + 1
    BY <1>1, <2>2
  <2>5. 1 \in DOMAIN q /\ DOMAIN p \subseteq Int /\ \A i \in DOMAIN q : ~(i < 1)
    BY <1>1
  <2>6. \A i, j \in DOMAIN p : (i + 1 = j + 1 => i = j) /\ (i + 1 < j + 1 <=> i < j)
    BY <2>5
  <2> HIDE DEF p
  <2> QED BY <2>3, <2>4, <2>5, <2>6
<1>3. Head(q) = q[1]
  BY <1>1
<1> HIDE DEF p
<1>4. In(q, A) <=> Head(q) \in A \/ In(p, A)
  BY <1>2, <1>3 DEF In
<1>5. Once(q, A) => Once(p, A) /\ ~(Head(q) \in A /\ In(p, A))
  BY <1>2, <1>3 DEF In, Once
<1>6. Before(q, A, B) => Before(p, A, B) /\ ~(Head(q) \in B /\ In(q, A))
  BY <1>2, <1>3 DEF In, Before
<1>7. Apart(q, A, B) => Apart(p, A, B)
  BY <1>2 DEF Apart
<1>8. ASSUME Apart(q, A, B), Head(q) \in A, A \cap B = {} PROVE Before(p, A, B)
  <2> SUFFICES ASSUME NEW j \in DOMAIN p, NEW k \in DOMAIN p, p[j] \in A, p[k] \in B
               PROVE  j < k
    BY DEF Before
  <2>1. ~(k < j)
    BY <1>2, <1>3, <1>8 DEF Apart
  <2>2. j # k
    BY <1>8
  <2> QED BY <1>2, <2>1, <2>2
<1> QED BY <1>4, <1>5, <1>6, <1>7, <1>8 DEF p

LEMMA KindsEmpty ==
  ASSUME NEW A, NEW B
  PROVE  ~In(<<>>, A) /\ Once(<<>>, A) /\ Before(<<>>, A, B) /\ Apart(<<>>, A, B)
BY DEF In, Once, Before, Apart

-----------------------------------------------------------------------------
(* Who holds a client id: t stands for a service and an id of it.          *)

Tokens     == (1 .. Services) \X (1 .. MaxId)
Gifts(t)   == {m \in Message : m.msg = "get" /\ m.flag = "rsp" /\ m.ok /\ m.of = t[1] /\ m.id = t[2]}
Returns(t) == {m \in Message : m.msg = "release" /\ m.of = t[1] /\ m.id = t[2]}
Wishes(t)  == {m \in Message : m.msg = "get" /\ m.flag = "req" /\ m.of = t[1]}
Syncs      == {m \in Message : m.msg = "sync" /\ m.flag = "req"}
Kinds(t)   == {Gifts(t), Returns(t), Wishes(t), Syncs}
Entries(t) == {e \in Entry : e.m \in Returns(t)}

\* A process has the id, or the answer that gives it, or that is on its socket.
Keeps(c, t)  == /\ link[c] = "up" /\ ids[c][t[1]] = t[2]
                /\ ~(phase[c] = "release" /\ svc[c] = t[1] /\ step[c] # "call")
Got(c, t)    == link[c] = "up" /\ rsp[c] \in Gifts(t)
Coming(c, t) == link[c] = "up" /\ In(down[c], Gifts(t))
Holds(c, t)  == Keeps(c, t) \/ Got(c, t) \/ Coming(c, t)
Single(c, t) == /\ Once(down[c], Gifts(t))
                /\ ~(Keeps(c, t) /\ Got(c, t)) /\ ~(Keeps(c, t) /\ Coming(c, t))
                /\ ~(Got(c, t) /\ Coming(c, t))
Given(t) == t[2] \in used[t[1]]
Out(t)   == In(fromModem, Gifts(t)) \/ \E c \in Clients : Holds(c, t)

\* A release of it is on a socket, in the queue or at the modem.  A queue that has
\* slipped sends a release twice.
Back(c, t) == link[c] \in {"up", "left"} /\ In(up[c], Returns(t))
Later(t)   == queue # <<>> /\ In(Tail(queue), Entries(t))
Owing(t)   == (\E c \in Clients : Back(c, t)) \/ In(queue, Entries(t)) \/ In(toModem, Returns(t))

OneHolder(t) ==
  /\ Once(fromModem, Gifts(t)) /\ \A c \in Clients : Single(c, t)
  /\ \A c, d \in Clients : Holds(c, t) /\ Holds(d, t) => c = d
  /\ In(fromModem, Gifts(t)) => \A c \in Clients : ~Holds(c, t)
NotFree(t) == Out(t) /\ present => Given(t)
NotOwed(t) == Owing(t) => ~Out(t)
Answered(t) ==
  /\ Before(fromModem, Returns(t), Gifts(t))
  /\ In(fromModem, Returns(t)) => \A c \in Clients : ~Holds(c, t)
\* A release the modem has served already comes to it before it can give the id again.
Repeated(t) ==
  Owing(t) /\ present /\ ~Given(t) =>
    /\ \A c \in Clients : ~Back(c, t)
    /\ In(queue, Entries(t)) => ~In(toModem, Wishes(t))
    /\ Before(toModem, Returns(t), Wishes(t))
OneDebt(t) ==
  /\ \A c \in Clients : Back(c, t) =>
       /\ Once(up[c], Returns(t)) /\ ~In(queue, Entries(t)) /\ ~In(toModem, Returns(t))
       /\ \A d \in Clients : Back(d, t) => c = d
  /\ Once(queue, Entries(t))
  /\ Later(t) => ~In(toModem, Returns(t)) /\ (present => Given(t))
Spaced(t) ==
  /\ Apart(toModem, Returns(t), Wishes(t))
  /\ In(queue, Entries(t)) => Before(toModem, Wishes(t), Returns(t))
Synced(t) ==
  In(toModem, Syncs) => ~Out(t) /\ ~Owing(t) /\ Before(toModem, Syncs, Wishes(t))
Known(t) == \A c \in Clients : Holds(c, t) => t \in reg[c]

Safe(t) == /\ OneHolder(t) /\ NotFree(t) /\ NotOwed(t) /\ Answered(t) /\ Repeated(t)
           /\ OneDebt(t) /\ Spaced(t) /\ Synced(t) /\ Known(t)

\* A socket that is not up holds nothing, one that waits has seen no release; the
\* answer a process has is to the request it has made.
Fresh(c) ==
  /\ rsp[c] # NoAnswer /\ phase[c] # "work" => rsp[c].svc = CTL /\ rsp[c].tid = tid[c]
  /\ link[c] # "up" => down[c] = <<>>
  /\ link[c] = "free" => up[c] = <<>>
  /\ phase[c] = "off" => rsp[c] = NoAnswer
  /\ link[c] = "waiting" => ids[c] = NoIds /\ rsp[c] = NoAnswer
  /\ link[c] = "waiting" \/ (link[c] = "left" /\ ~loop) => \A t \in Tokens : ~In(up[c], Returns(t))

Books == InStep /\ (\A c \in Clients : Fresh(c)) /\ ("reset" \notin odd => \A t \in Tokens : Safe(t))

-----------------------------------------------------------------------------
(* Most steps add nothing.                                                 *)

Thins(q, p, t) ==
  \A A, B \in Kinds(t) : /\ In(p, A) => In(q, A)
                         /\ Once(q, A) => Once(p, A)
                         /\ Before(q, A, B) => Before(p, A, B)
                         /\ Apart(q, A, B) => Apart(p, A, B)

LEMMA ThinSame == \A q, t : Thins(q, q, t)
BY DEF Thins

LEMMA ThinEmpty == \A q, t : Thins(q, <<>>, t)
BY KindsEmpty DEF Thins

LEMMA ThinTail ==
  ASSUME NEW S, NEW q \in Seq(S), q # <<>>, NEW t
  PROVE  Thins(q, Tail(q), t)
BY KindsTail DEF Thins

LEMMA ThinAppend ==
  ASSUME NEW S, NEW q \in Seq(S), NEW x \in S, NEW t, \A A \in Kinds(t) : x \notin A
  PROVE  Thins(q, Append(q, x), t)
BY KindsAppend DEF Thins

LEMMA ThinAgree ==
  ASSUME NEW q, NEW p, NEW t, \A A \in Kinds(t) : Agree(q, p, A)
  PROVE  Thins(q, p, t) /\ Thins(p, q, t)
<1>1. \A A \in Kinds(t) : Agree(p, q, A)
  BY DEF Agree
<1> QED BY <1>1, KindsAgree DEF Thins

\* Whose a message is does not change its kind.
LEMMA DisownAgree ==
  ASSUME NEW S, S \subseteq Message, NEW q \in Seq(S), NEW o, \A m \in S : Orphan(m) \in S, NEW t
  PROVE  \A A \in Kinds(t) : Agree(q, Disown(q, o), A)
<1> DEFINE p == Disown(q, o)
<1>1. /\ DOMAIN p = 1 .. Len(q) /\ DOMAIN q = 1 .. Len(q)
      /\ \A i \in 1 .. Len(q) : p[i] = IF q[i].own = o THEN Orphan(q[i]) ELSE q[i]
  BY DisownSeq
<1>2. \A i \in 1 .. Len(q) : q[i] \in Message
  OBVIOUS
<1>3. ASSUME NEW m \in Message, NEW A \in Kinds(t)
      PROVE  Orphan(m) \in A <=> m \in A
  BY OrphanIsMessage DEF Kinds, Gifts, Returns, Wishes, Syncs
<1> HIDE DEF p
<1>4. ASSUME NEW A \in Kinds(t), NEW i \in 1 .. Len(q)
      PROVE  p[i] \in A <=> q[i] \in A
  BY <1>1, <1>2, <1>3
<1> QED BY <1>1, <1>4 DEF Agree, p

LEMMA ThinDisown ==
  ASSUME NEW S, S \subseteq Message, NEW q \in Seq(S), NEW o, \A m \in S : Orphan(m) \in S, NEW t
  PROVE  Thins(q, Disown(q, o), t)
BY DisownAgree, ThinAgree

\* Nothing of t is added to a process, or anywhere.
Lessens(c, t) ==
  /\ Holds(c, t)' => Holds(c, t)
  /\ Single(c, t) => Single(c, t)'
  /\ Holds(c, t)' /\ t \in reg[c] => t \in reg'[c]
  /\ Back(c, t)' => Back(c, t)
  /\ Back(c, t)' /\ Once(up[c], Returns(t)) => Once(up'[c], Returns(t))
Less(t) ==
  /\ \A c \in Clients : Lessens(c, t)
  /\ Thins(toModem, toModem', t) /\ Thins(fromModem, fromModem', t)
  /\ In(queue', Entries(t)) => In(queue, Entries(t))
  /\ Once(queue, Entries(t)) => Once(queue', Entries(t))
  /\ Later(t)' => Later(t)
  /\ present' = present /\ (Given(t)' <=> Given(t))

\* Who holds it depends on nothing that is on its way to the modem.
HeldByOne(t) == OneHolder(t) /\ NotFree(t) /\ Answered(t) /\ Known(t)

LessHeld(t) ==
  /\ \A c \in Clients : Lessens(c, t)
  /\ Thins(fromModem, fromModem', t)
  /\ present' = present /\ (Given(t)' <=> Given(t))

LEMMA HoldersLess ==
  ASSUME NEW t, Safe(t), LessHeld(t)
  PROVE  HeldByOne(t)' /\ (Out(t)' => Out(t))
<1>0. Gifts(t) \in Kinds(t) /\ Returns(t) \in Kinds(t)
  BY DEF Kinds
<1>1. /\ In(fromModem', Gifts(t)) => In(fromModem, Gifts(t))
      /\ In(fromModem', Returns(t)) => In(fromModem, Returns(t))
      /\ Once(fromModem, Gifts(t)) => Once(fromModem', Gifts(t))
      /\ Before(fromModem, Returns(t), Gifts(t)) => Before(fromModem', Returns(t), Gifts(t))
  BY <1>0 DEF LessHeld, Thins
<1>2. /\ \A c \in Clients : /\ Holds(c, t)' => Holds(c, t)
                            /\ Single(c, t) => Single(c, t)'
                            /\ Holds(c, t)' /\ t \in reg[c] => t \in reg'[c]
      /\ present' = present /\ (Given(t)' <=> Given(t))
  BY DEF LessHeld, Lessens
<1>3. Out(t)' => Out(t)
  BY <1>1, <1>2 DEF Out
<1>4. OneHolder(t)'
  BY <1>1, <1>2 DEF Safe, OneHolder
<1>5. NotFree(t)'
  BY <1>2, <1>3 DEF Safe, NotFree
<1>6. Answered(t)'
  BY <1>1, <1>2 DEF Safe, Answered
<1>7. Known(t)'
  BY <1>2 DEF Safe, Known
<1> QED BY <1>3, <1>4, <1>5, <1>6, <1>7 DEF HeldByOne

LEMMA LessIsSafe ==
  ASSUME NEW t, Safe(t), Less(t)
  PROVE  Safe(t)'
<1>0. Returns(t) \in Kinds(t) /\ Wishes(t) \in Kinds(t) /\ Syncs \in Kinds(t)
  BY DEF Kinds
<1>1. /\ In(toModem', Returns(t)) => In(toModem, Returns(t))
      /\ In(toModem', Wishes(t)) => In(toModem, Wishes(t))
      /\ In(toModem', Syncs) => In(toModem, Syncs)
      /\ Before(toModem, Returns(t), Wishes(t)) => Before(toModem', Returns(t), Wishes(t))
      /\ Before(toModem, Wishes(t), Returns(t)) => Before(toModem', Wishes(t), Returns(t))
      /\ Before(toModem, Syncs, Wishes(t)) => Before(toModem', Syncs, Wishes(t))
      /\ Apart(toModem, Returns(t), Wishes(t)) => Apart(toModem', Returns(t), Wishes(t))
  BY <1>0 DEF Less, Thins
<1>2. HeldByOne(t)' /\ (Out(t)' => Out(t))
  BY HoldersLess DEF Less, LessHeld
<1>3. /\ \A c \in Clients : /\ Back(c, t)' => Back(c, t)
                            /\ Back(c, t)' /\ Once(up[c], Returns(t)) => Once(up'[c], Returns(t))
      /\ In(queue', Entries(t)) => In(queue, Entries(t))
      /\ Once(queue, Entries(t)) => Once(queue', Entries(t))
      /\ Later(t)' => Later(t)
      /\ present' = present /\ (Given(t)' <=> Given(t))
  BY DEF Less, Lessens
<1>4. Owing(t)' => Owing(t)
  BY <1>1, <1>3 DEF Owing
<1>5. NotOwed(t)'
  BY <1>2, <1>4 DEF Safe, NotOwed
<1>6. Repeated(t)'
  BY <1>1, <1>3, <1>4 DEF Safe, Repeated
<1>7. OneDebt(t)'
  BY <1>1, <1>3 DEF Safe, OneDebt
<1>8. Spaced(t)'
  BY <1>1, <1>3 DEF Safe, Spaced
<1>9. Synced(t)'
  BY <1>1, <1>2, <1>4 DEF Safe, Synced
<1> QED BY <1>2, <1>5, <1>6, <1>7, <1>8, <1>9 DEF Safe, HeldByOne

\* A step of a process concerns its own socket.
OnlySocket(c) ==
  /\ link' = [link EXCEPT ![c] = link'[c]]
  /\ up' = [up EXCEPT ![c] = up'[c]] /\ down' = [down EXCEPT ![c] = down'[c]]

LEMMA OthersSame ==
  ASSUME TypeInv, NEW c \in Clients, Only(c), OnlySocket(c), UNCHANGED <<reg, loop>>,
         NEW d \in Clients, d # c
  PROVE  (Fresh(d) => Fresh(d)') /\ \A t : Lessens(d, t)
<1>1. /\ phase'[d] = phase[d] /\ svc'[d] = svc[d] /\ step'[d] = step[d] /\ rsp'[d] = rsp[d]
      /\ ids'[d] = ids[d] /\ tid'[d] = tid[d]
  BY DEF TypeInv, Processes, Only
<1>2. /\ link'[d] = link[d] /\ up'[d] = up[d] /\ down'[d] = down[d]
  BY DEF TypeInv, Traffic, Bus, OnlySocket
<1>3. Fresh(d) => Fresh(d)'
  BY <1>1, <1>2 DEF Fresh
<1>4. ASSUME NEW t
      PROVE  Lessens(d, t)
  <2>1. /\ Keeps(d, t)' <=> Keeps(d, t)
        /\ Got(d, t)' <=> Got(d, t)
        /\ Coming(d, t)' <=> Coming(d, t)
        /\ Back(d, t)' <=> Back(d, t)
    BY <1>1, <1>2 DEF Keeps, Got, Coming, Back
  <2>2. Single(d, t) => Single(d, t)'
    BY <1>2, <2>1 DEF Single
  <2> QED BY <1>2, <2>1, <2>2 DEF Lessens, Holds
<1> QED BY <1>3, <1>4

\* A process that is on its way to an answer, or makes use of one, or gives it up.
LEMMA ClientOnly ==
  ASSUME TypeInv, NEW c \in Clients,
         \/ Connect(c) \/ Call(c) \/ Receive(c) \/ Version(c) \/ GetClientId(c) \/ Work(c) \/ Worked(c)
         \/ GiveUp(c)
  PROVE  Only(c) /\ OnlySocket(c)
<1>0. Processes /\ Traffic /\ Bus
  BY DEF TypeInv
<1>1. CASE Connect(c)
  BY <1>0, <1>1 DEF Connect, Set, Only, OnlySocket, Processes, Traffic, Bus
<1>2. CASE Call(c)
  BY <1>0, <1>2 DEF Call, Set, Only, OnlySocket, Processes, Traffic, Bus
<1>3. CASE Receive(c)
  BY <1>0, <1>3 DEF Receive, Set, Only, OnlySocket, Processes, Traffic, Bus
<1>4. CASE Version(c)
  BY <1>0, <1>4 DEF Version, Consumed, Quiet, transportVars, Set, Only, OnlySocket, Processes, Traffic, Bus
<1>5. CASE GetClientId(c)
  <2>1. ids' = [ids EXCEPT ![c] = ids'[c]]
    BY <1>0, <1>5 DEF GetClientId, Processes
  <2> QED BY <1>0, <1>5, <2>1
          DEF GetClientId, Consumed, Quiet, transportVars, Set, Only, OnlySocket, Processes, Traffic, Bus
<1>6. CASE Work(c)
  BY <1>0, <1>6 DEF Work, Quiet, transportVars, Set, Only, OnlySocket, Processes, Traffic, Bus
<1>7. CASE Worked(c)
  BY <1>0, <1>7 DEF Worked, Consumed, Quiet, transportVars, Set, Only, OnlySocket, Processes, Traffic, Bus
<1>8. CASE GiveUp(c)
  BY <1>0, <1>8 DEF GiveUp, Set, Only, OnlySocket, Processes, Traffic, Bus
<1> QED BY <1>1, <1>2, <1>3, <1>4, <1>5, <1>6, <1>7, <1>8

\* Nothing changes but what processes have and what is on the sockets.
LEMMA SocketsLess ==
  ASSUME NEW t, \A c \in Clients : Lessens(c, t), UNCHANGED <<toModem, fromModem, queue, present, used>>
  PROVE  Less(t)
BY ThinSame DEF Less, Later, Given

LEMMA GiftsAre ==
  /\ \A t \in Tokens : /\ t[1] \in 1 .. Services /\ t[2] \in 1 .. MaxId /\ t = <<t[1], t[2]>>
                       /\ NoAnswer \notin Gifts(t) /\ t[2] # 0
  /\ \A t \in Tokens : NoIds[t[1]] = 0
<1>1. ASSUME NEW t \in Tokens
      PROVE  t[1] \in 1 .. Services /\ t[2] \in 1 .. MaxId /\ t = <<t[1], t[2]>>
  BY DEF Tokens
<1>2. \A t \in Tokens : t[2] # 0
  BY <1>1, SizesAssumption DEF SizesAssumption
<1>3. NoAnswer.msg = "sync"
  BY DEF NoAnswer, Ask
<1>4. \A t \in Tokens : NoAnswer \notin Gifts(t)
  BY <1>3 DEF Gifts
<1>5. \A t \in Tokens : NoIds[t[1]] = 0
  BY <1>1 DEF NoIds
<1> QED BY <1>1, <1>2, <1>4, <1>5

LEMMA ConnectLess ==
  ASSUME TypeInv, NEW c \in Clients, Fresh(c), Connect(c)
  PROVE  Fresh(c)' /\ \A t \in Tokens : Lessens(c, t)
<1>0. Is(c) /\ Processes /\ Bus
  BY ProcessIs DEF TypeInv
<1>1. /\ phase[c] = "off" /\ link[c] = "free" /\ link'[c] = "waiting" /\ phase'[c] = "version"
      /\ UNCHANGED <<up, down, rsp, tid, ids>>
  BY <1>0 DEF Connect, Set, Processes, Bus
<1>2. up[c] = <<>> /\ down[c] = <<>> /\ rsp[c] = NoAnswer /\ ids[c] = NoIds
  BY <1>0, <1>1 DEF Fresh, Is, Fine
<1>3. Fresh(c)'
  BY <1>1, <1>2, KindsEmpty DEF Fresh
<1>4. ASSUME NEW t \in Tokens
      PROVE  Lessens(c, t)
  <2>1. ~Keeps(c, t)' /\ ~Got(c, t)' /\ ~Coming(c, t)' /\ ~Back(c, t)'
    BY <1>1 DEF Keeps, Got, Coming, Back
  <2>2. Single(c, t)'
    BY <1>1, <1>2, <2>1, KindsEmpty DEF Single
  <2> QED BY <2>1, <2>2 DEF Lessens, Holds
<1> QED BY <1>3, <1>4

LEMMA ReceiveLess ==
  ASSUME TypeInv, NEW c \in Clients, Fresh(c), Receive(c), UNCHANGED <<reg, loop>>
  PROVE  Fresh(c)' /\ \A t \in Tokens : Lessens(c, t)
<1>0. Is(c) /\ Processes /\ Traffic /\ Bus /\ down[c] \in Seq(Told)
  BY ProcessIs DEF TypeInv, Traffic
<1>1. /\ phase[c] # "off" /\ link[c] = "up" /\ down[c] # <<>> /\ down'[c] = Tail(down[c])
      /\ \/ step[c] = "wait" /\ step'[c] = "got" /\ rsp'[c] = Head(down[c]) /\ IsResponse(c, rsp'[c])
         \/ step'[c] = step[c] /\ rsp'[c] = rsp[c]
      /\ UNCHANGED <<link, up, phase, svc, tid, ids>>
  BY <1>0 DEF Receive, Set, Processes, Traffic
<1>2. Fresh(c)'
  BY <1>1 DEF Fresh, IsResponse
<1>3. ASSUME NEW t \in Tokens
      PROVE  Lessens(c, t)
  <2> DEFINE A == Gifts(t)
  <2>1. /\ In(down[c], A) <=> Head(down[c]) \in A \/ In(Tail(down[c]), A)
        /\ Once(down[c], A) => Once(Tail(down[c]), A) /\ ~(Head(down[c]) \in A /\ In(Tail(down[c]), A))
    BY <1>0, <1>1, KindsTail
  <2>2. Keeps(c, t)' <=> Keeps(c, t)
    BY <1>1 DEF Keeps
  <2>3. /\ Coming(c, t)' <=> In(Tail(down[c]), A)
        /\ Coming(c, t) <=> In(down[c], A)
        /\ Got(c, t)' <=> rsp'[c] \in A
        /\ Got(c, t) <=> rsp[c] \in A
        /\ Back(c, t)' <=> Back(c, t)
    BY <1>1 DEF Coming, Got, Back
  <2> HIDE DEF A
  <2>4. Holds(c, t)' => Holds(c, t)
    BY <1>1, <2>1, <2>2, <2>3 DEF Holds
  <2>5. Once(down[c], A) => Once(down'[c], A)
    BY <1>1, <2>1
  <2>6. ASSUME Single(c, t) PROVE Single(c, t)'
    <3>1. Once(down[c], A) /\ Once(down'[c], A)
      BY <2>5, <2>6 DEF Single, A
    <3>2. CASE rsp'[c] = Head(down[c])
      BY <1>1, <2>1, <2>2, <2>3, <2>6, <3>1, <3>2 DEF Single, A
    <3>3. CASE rsp'[c] = rsp[c]
      BY <1>1, <2>1, <2>2, <2>3, <2>6, <3>1, <3>3 DEF Single, A
    <3> QED BY <1>1, <3>2, <3>3
  <2> QED BY <1>1, <2>3, <2>4, <2>6 DEF Lessens
<1> QED BY <1>2, <1>3

\* Only the request of a release adds something: the id is given back.
LEMMA CallLess ==
  ASSUME TypeInv, Wired, NEW c \in Clients, Fresh(c), Call(c), UNCHANGED <<reg, loop>>,
         phase[c] = "release" => link[c] = "cut"
  PROVE  Fresh(c)' /\ \A t \in Tokens : Lessens(c, t)
<1>0. Is(c) /\ Processes /\ Traffic /\ Bus /\ up[c] \in Seq(FromProcess)
  BY ProcessIs DEF TypeInv, Traffic
<1>1. /\ phase[c] # "off" /\ rsp'[c] = NoAnswer /\ UNCHANGED <<link, down, phase, svc, ids>>
      /\ \/ link[c] = "cut" /\ up'[c] = up[c]
         \/ link[c] # "cut" /\ up'[c] = Append(up[c], Request(c)) /\ phase[c] # "release"
  BY <1>0 DEF Call, Set, Processes, Traffic
<1>2. link[c] \notin {"free", "left"}
  BY <1>1 DEF Wired
<1>3. Request(c) \in FromProcess /\ Request(c).msg = phase[c]
  BY RequestIn DEF Call
<1>4. ASSUME NEW t \in Tokens
      PROVE  /\ In(up'[c], Returns(t)) /\ link[c] # "cut" => In(up[c], Returns(t))
             /\ Once(up[c], Returns(t)) /\ link[c] # "cut" => Once(up'[c], Returns(t))
  <2>1. CASE link[c] = "cut"
    BY <2>1
  <2>2. CASE link[c] # "cut"
    <3>1. up'[c] = Append(up[c], Request(c)) /\ Request(c) \notin Returns(t)
      BY <1>1, <1>3, <2>2 DEF Returns
    <3> QED BY <1>0, <1>3, <3>1, KindsAppend
  <2> QED BY <2>1, <2>2
<1>5. Fresh(c)'
  BY <1>1, <1>2, <1>4 DEF Fresh
<1>6. ASSUME NEW t \in Tokens
      PROVE  Lessens(c, t)
  <2>1. Keeps(c, t)' => Keeps(c, t)
    BY <1>1 DEF Keeps
  <2>2. ~Got(c, t)' /\ (Coming(c, t)' <=> Coming(c, t))
    BY <1>1, GiftsAre DEF Got, Coming
  <2>3. /\ Back(c, t)' => Back(c, t)
        /\ Back(c, t)' /\ Once(up[c], Returns(t)) => Once(up'[c], Returns(t))
    BY <1>1, <1>4 DEF Back
  <2>4. Single(c, t) => Single(c, t)'
    BY <1>1, <2>1, <2>2 DEF Single
  <2> QED BY <1>1, <2>1, <2>2, <2>3, <2>4 DEF Lessens, Holds
<1> QED BY <1>5, <1>6

\* A process that asks for an id takes no other answer for the one it asked for.
LEMMA GrantedIsGift ==
  ASSUME TypeInv, NEW c \in Clients, Fresh(c), phase[c] = "get", step[c] = "got", NEW t \in Tokens,
         svc[c] = t[1], Granted(c) = t[2]
  PROVE  rsp[c] \in Gifts(t)
<1>1. /\ rsp[c] # NoAnswer /\ rsp[c].ok /\ rsp[c].of = t[1] /\ rsp[c].id = t[2]
  BY GiftsAre DEF Granted
<1>2. Is(c)
  BY ProcessIs DEF TypeInv
<1>3. /\ Services \in Nat \ {0} /\ 2 * Services + 1 < FirstTid /\ FirstTid \in Nat
      /\ svc[c] \in 1 .. Services
  BY <1>2, SizesAssumption, TidsAssumption, GiftsAre DEF SizesAssumption, TidsAssumption, FirstTid
<1>4. tid[c] = svc[c] + 1
  BY <1>2, <1>3 DEF Is, Fine, Started
<1>5. rsp[c] \in Told /\ rsp[c].svc = CTL /\ rsp[c].tid = svc[c] + 1
  BY <1>1, <1>2, <1>4 DEF Is, Fresh
<1>6. rsp[c] \in Answers
  BY <1>3, <1>5 DEF Told, Notices
<1>7. rsp[c] \in Message /\ rsp[c].flag = "rsp" /\ (OfProcess(rsp[c]) \/ OfProxy(rsp[c]))
  BY <1>6 DEF Answers
<1>8. ~OfProxy(rsp[c])
  BY <1>3, <1>5 DEF OfProxy
<1>9. rsp[c].msg = "get"
  BY <1>3, <1>5, <1>7, <1>8 DEF OfProcess, CTL
<1> QED BY <1>1, <1>7, <1>9 DEF Gifts

LEMMA NextRequestLess ==
  ASSUME TypeInv, NEW c \in Clients, Fresh(c), Version(c) \/ GetClientId(c) \/ Work(c) \/ Worked(c),
         UNCHANGED <<reg, loop>>
  PROVE  Fresh(c)' /\ \A t \in Tokens : Lessens(c, t)
<1>0. Is(c) /\ Processes
  BY ProcessIs DEF TypeInv
<1>1. UNCHANGED <<link, up, down>> /\ phase[c] # "off" /\ phase[c] # "release" /\ phase'[c] # "off"
      /\ phase'[c] # "release"
  BY <1>0 DEF Version, GetClientId, Work, Worked, Quiet, transportVars, Set, Processes
<1>2. CASE Version(c) \/ Worked(c)
  <2>1. rsp'[c] = NoAnswer /\ ids' = ids
    BY <1>0, <1>2 DEF Version, Worked, Consumed, Set, Processes
  <2>2. Fresh(c)'
    BY <1>1, <2>1 DEF Fresh
  <2>3. ASSUME NEW t \in Tokens
        PROVE  Lessens(c, t)
    <3>1. /\ ~Got(c, t)' /\ (Keeps(c, t)' <=> Keeps(c, t)) /\ (Coming(c, t)' <=> Coming(c, t))
          /\ Back(c, t)' <=> Back(c, t)
      BY <1>1, <2>1, GiftsAre DEF Got, Keeps, Coming, Back
    <3> QED BY <1>1, <3>1 DEF Lessens, Holds, Single
  <2> QED BY <2>2, <2>3
<1>3. CASE Work(c)
  <2>1. UNCHANGED <<rsp, ids, tid>> /\ phase'[c] = "work"
    BY <1>0, <1>3 DEF Work, Set, Processes
  <2>2. Fresh(c)'
    BY <1>1, <2>1 DEF Fresh
  <2>3. ASSUME NEW t \in Tokens
        PROVE  Lessens(c, t)
    <3>1. /\ Got(c, t)' <=> Got(c, t)
          /\ (Keeps(c, t)' <=> Keeps(c, t)) /\ (Coming(c, t)' <=> Coming(c, t))
          /\ Back(c, t)' <=> Back(c, t)
      BY <1>1, <2>1 DEF Got, Keeps, Coming, Back
    <3> QED BY <1>1, <3>1 DEF Lessens, Holds, Single
  <2> QED BY <2>2, <2>3
<1>4. CASE GetClientId(c)
  <2>1. /\ phase[c] = "get" /\ step[c] = "got" /\ rsp'[c] = NoAnswer
        /\ ids' = [ids EXCEPT ![c][svc[c]] = Granted(c)]
    BY <1>0, <1>4 DEF GetClientId, Consumed, Set, Processes
  <2>2. svc[c] \in 1 .. Services /\ ids[c] \in [1 .. Services -> 0 .. MaxId] /\ ids[c][svc[c]] = 0
    <3>1. svc[c] \in 1 .. Services /\ ids[c] \in [1 .. Services -> 0 .. MaxId]
      BY <1>0, <2>1, SizesAssumption DEF Is, Fine, IdSets, SizesAssumption
    <3>2. svc[c] >= svc[c]
      BY <3>1
    <3> QED BY <1>0, <2>1, <3>1, <3>2 DEF Is, Fine
  <2>3. ids'[c] = [ids[c] EXCEPT ![svc[c]] = Granted(c)]
    BY <1>0, <2>1 DEF Processes
  <2>4. Fresh(c)'
    <3>1. CASE link[c] = "waiting"
      <4>1. rsp[c] = NoAnswer /\ ids[c] = NoIds
        BY <3>1 DEF Fresh
      <4>2. Granted(c) = 0
        BY <4>1 DEF Granted
      <4>3. ids'[c] = NoIds
        BY <2>2, <2>3, <4>1, <4>2 DEF NoIds
      <4> QED BY <1>1, <2>1, <4>3 DEF Fresh
    <3>2. CASE link[c] # "waiting"
      BY <1>1, <2>1, <3>2 DEF Fresh
    <3> QED BY <3>1, <3>2
  <2>5. ASSUME NEW t \in Tokens
        PROVE  Lessens(c, t)
    <3>1. /\ ~Got(c, t)' /\ (Coming(c, t)' <=> Coming(c, t)) /\ (Back(c, t)' <=> Back(c, t))
      BY <1>1, <2>1, GiftsAre DEF Got, Coming, Back
    <3>2. Keeps(c, t)' => Keeps(c, t) \/ Got(c, t)
      <4>1. CASE t[1] # svc[c]
        BY <1>1, <2>2, <2>3, <4>1, GiftsAre DEF Keeps
      <4>2. CASE t[1] = svc[c]
        <5>1. ids'[c][t[1]] = Granted(c)
          BY <2>2, <2>3, <4>2
        <5> QED BY <1>1, <2>1, <4>2, <5>1, GrantedIsGift DEF Keeps, Got
      <4> QED BY <4>1, <4>2
    <3> QED BY <1>1, <3>1, <3>2 DEF Lessens, Holds, Single
  <2> QED BY <2>4, <2>5
<1> QED BY <1>2, <1>3, <1>4

LEMMA AbandonsLess ==
  ASSUME queue \in Seq(Entry), NEW c \in Clients, Abandons(c), NEW t
  PROVE  /\ In(queue', Entries(t)) => In(queue, Entries(t))
         /\ Once(queue, Entries(t)) => Once(queue', Entries(t))
         /\ Later(t)' => Later(t)
<1>1. /\ queue' \in Seq(Entry) /\ Len(queue') = Len(queue) /\ Len(queue) \in Nat
      /\ \A i \in 1 .. Len(queue) : queue'[i] = IF queue[i].m.own = c THEN Left(queue[i]) ELSE queue[i]
  BY QueueLeft
<1>2. \A e \in Entry : Left(e) \in Entries(t) <=> e \in Entries(t)
  <2> SUFFICES ASSUME NEW e \in Entry PROVE Left(e) \in Entries(t) <=> e \in Entries(t)
    OBVIOUS
  <2>1. Left(e) \in Entry /\ Left(e).m = Orphan(e.m) /\ e.m \in Message
    BY LeftEntry, MessageTypes
  <2>2. Orphan(e.m) \in Returns(t) <=> e.m \in Returns(t)
    BY <2>1, OrphanIsMessage DEF Returns
  <2> QED BY <2>1, <2>2 DEF Entries
<1>3. \A i \in 1 .. Len(queue) : queue'[i] \in Entries(t) <=> queue[i] \in Entries(t)
  BY <1>1, <1>2
<1>4. Agree(queue, queue', Entries(t))
  BY <1>1, <1>3 DEF Agree
<1>5. Later(t)' => Later(t)
  <2> SUFFICES ASSUME queue' # <<>>, In(Tail(queue'), Entries(t))
               PROVE  queue # <<>> /\ In(Tail(queue), Entries(t))
    BY DEF Later
  <2>1. queue # <<>>
    BY <1>1, EmptyIs
  <2>2. /\ DOMAIN Tail(queue') = 1 .. Len(queue) - 1
        /\ \A i \in 1 .. Len(queue) - 1 : Tail(queue')[i] = queue'[i + 1]
    BY <1>1, TailSeq
  <2>3. /\ DOMAIN Tail(queue) = 1 .. Len(queue) - 1
        /\ \A i \in 1 .. Len(queue) - 1 : Tail(queue)[i] = queue[i + 1]
    BY <2>1, TailSeq
  <2>4. \A i \in 1 .. Len(queue) - 1 : i + 1 \in 1 .. Len(queue)
    BY <1>1
  <2> QED BY <1>3, <2>1, <2>2, <2>3, <2>4 DEF In
<1> QED BY <1>4, <1>5, KindsAgree

LEMMA ForsakenLess ==
  ASSUME TypeInv, NEW c \in Clients, Forsaken(c), Abandons(c), NEW t,
         \A d \in Clients : Lessens(d, t)
  PROVE  Less(t)
<1>1. /\ toModem \in Seq(Asked) /\ fromModem \in Seq(Told) /\ queue \in Seq(Entry)
      /\ toModem' = Disown(toModem, c) /\ fromModem' = Disown(fromModem, c) /\ UNCHANGED <<present, used>>
  BY DEF Forsaken, TypeInv, Traffic
<1>2. Thins(toModem, toModem', t)
  BY <1>1, MessageTypes, OrphanTypes, ThinDisown
<1>3. Thins(fromModem, fromModem', t)
  BY <1>1, MessageTypes, OrphanTypes, ThinDisown
<1> QED BY <1>1, <1>2, <1>3, AbandonsLess DEF Less, Given

LEMMA GivesUpLess ==
  ASSUME TypeInv, NEW c \in Clients, Fresh(c), GiveUp(c), UNCHANGED <<reg, loop>>
  PROVE  Fresh(c)' /\ \A t \in Tokens : Lessens(c, t)
<1>0. /\ Is(c) /\ Processes /\ Traffic /\ up[c] \in Seq(FromProcess) /\ down[c] \in Seq(Told)
      /\ FromProcess \subseteq Message /\ Told \subseteq Message
  BY ProcessIs, MessageTypes DEF TypeInv, Traffic
<1>1. /\ step[c] = "wait" /\ step'[c] = "got" /\ UNCHANGED <<link, phase, svc, rsp, tid, ids>>
      /\ up'[c] = Disown(up[c], c) /\ down'[c] = Disown(down[c], c)
  BY <1>0 DEF GiveUp, Set, Processes, Traffic
<1>2. ASSUME NEW t
      PROVE  /\ In(up'[c], Returns(t)) => In(up[c], Returns(t))
             /\ Once(up[c], Returns(t)) => Once(up'[c], Returns(t))
             /\ In(down'[c], Gifts(t)) => In(down[c], Gifts(t))
             /\ Once(down[c], Gifts(t)) => Once(down'[c], Gifts(t))
  <2>1. Thins(up[c], up'[c], t)
    BY <1>0, <1>1, OrphanTypes, ThinDisown
  <2>2. Thins(down[c], down'[c], t)
    BY <1>0, <1>1, OrphanTypes, ThinDisown
  <2>3. Returns(t) \in Kinds(t) /\ Gifts(t) \in Kinds(t)
    BY DEF Kinds
  <2> QED BY <2>1, <2>2, <2>3 DEF Thins
<1>3. /\ up[c] = <<>> => up'[c] = <<>>
      /\ down[c] = <<>> => down'[c] = <<>>
  BY <1>1 DEF Disown
<1>4. Fresh(c)'
  BY <1>1, <1>2, <1>3 DEF Fresh
<1>5. ASSUME NEW t \in Tokens
      PROVE  Lessens(c, t)
  <2>1. /\ Keeps(c, t)' <=> Keeps(c, t)
        /\ Got(c, t)' <=> Got(c, t)
        /\ Coming(c, t)' => Coming(c, t)
        /\ Back(c, t)' => Back(c, t)
    BY <1>1, <1>2 DEF Keeps, Got, Coming, Back
  <2>2. Single(c, t) => Single(c, t)'
    BY <1>2, <2>1 DEF Single
  <2> QED BY <1>1, <1>2, <2>1, <2>2 DEF Lessens, Holds
<1> QED BY <1>4, <1>5

LEMMA EndsLess ==
  ASSUME TypeInv, Wired, NEW c \in Clients, Fresh(c), phase[c] # "off", Ends(c),
         ids' = [ids EXCEPT ![c] = NoIds], UNCHANGED <<reg, loop>>
  PROVE  Only(c) /\ OnlySocket(c) /\ Fresh(c)' /\ \A t \in Tokens : Lessens(c, t)
<1>0. /\ Is(c) /\ Processes /\ Traffic /\ Bus /\ up[c] \in Seq(FromProcess)
      /\ FromProcess \subseteq Message
  BY ProcessIs, MessageTypes DEF TypeInv, Traffic
<1>1. /\ phase'[c] = "off" /\ rsp'[c] = NoAnswer /\ down'[c] = <<>>
      /\ link'[c] = IF link[c] = "cut" THEN "free" ELSE "left"
      /\ up'[c] = IF link[c] = "cut" THEN <<>> ELSE Disown(up[c], c)
  BY <1>0 DEF Ends, Set, Processes, Traffic, Bus
<1>2. Only(c) /\ OnlySocket(c)
  BY <1>0 DEF Ends, Set, Only, OnlySocket, Processes, Traffic, Bus
<1>3. link[c] \in {"waiting", "up", "cut"} /\ (~loop => link[c] # "up")
  BY <1>0 DEF Wired, Bus
<1>4. ASSUME NEW t, link[c] # "cut"
      PROVE  /\ In(up'[c], Returns(t)) => In(up[c], Returns(t))
             /\ Once(up[c], Returns(t)) => Once(up'[c], Returns(t))
  <2>1. Thins(up[c], up'[c], t)
    BY <1>0, <1>1, <1>4, OrphanTypes, ThinDisown
  <2> QED BY <2>1 DEF Thins, Kinds
<1>5. Fresh(c)'
  BY <1>1, <1>3, <1>4 DEF Fresh
<1>6. ASSUME NEW t \in Tokens
      PROVE  Lessens(c, t)
  <2>1. ~Keeps(c, t)' /\ ~Got(c, t)' /\ ~Coming(c, t)'
    BY <1>1 DEF Keeps, Got, Coming
  <2>2. Single(c, t)'
    BY <1>1, <2>1, KindsEmpty DEF Single
  <2>3. Back(c, t)' => Back(c, t)
    BY <1>1, <1>3, <1>4 DEF Back, Fresh
  <2>4. Back(c, t)' /\ Once(up[c], Returns(t)) => Once(up'[c], Returns(t))
    BY <1>1, <1>4 DEF Back
  <2> QED BY <2>1, <2>2, <2>3, <2>4 DEF Lessens, Holds
<1> QED BY <1>2, <1>5, <1>6

LEMMA ReleaseNextLess ==
  ASSUME TypeInv, Wired, NEW c \in Clients, Fresh(c), Release(c), phase'[c] = "release",
         UNCHANGED <<reg, loop>>
  PROVE  /\ Only(c) /\ OnlySocket(c) /\ Fresh(c)' /\ UNCHANGED transportVars
         /\ \A t \in Tokens : Lessens(c, t)
<1> DEFINE left == IF phase[c] = "idle" THEN ids[c] ELSE [ids[c] EXCEPT ![svc[c]] = 0]
           held == {s \in 1 .. Services : left[s] # 0}
           s == CHOOSE s \in held : \A t \in held : s <= t
<1>0. Is(c) /\ Processes /\ Traffic /\ Bus
  BY ProcessIs DEF TypeInv
<1>1. phase[c] = "idle" \/ (phase[c] = "release" /\ step[c] = "got")
  BY DEF Release
<1>2. held # {}
  <2>1. Ends(c) => phase'[c] = "off"
    BY <1>0 DEF Ends, Set, Processes
  <2> QED BY <2>1 DEF Release
<1>3. /\ ids' = [ids EXCEPT ![c] = left] /\ phase' = [phase EXCEPT ![c] = "release"]
      /\ svc' = [svc EXCEPT ![c] = s]
      /\ step' = [step EXCEPT ![c] = "call"] /\ rsp' = [rsp EXCEPT ![c] = NoAnswer]
      /\ tid' = [tid EXCEPT ![c] = 0] /\ UNCHANGED <<transportVars, lives, ctid>>
  BY <1>2 DEF Release, Set, Quiet
<1>4. /\ ids'[c] = left /\ step'[c] = "call" /\ rsp'[c] = NoAnswer
      /\ UNCHANGED <<link, up, down>>
  BY <1>0, <1>3 DEF Processes, transportVars
<1>5. Only(c) /\ OnlySocket(c)
  <2>1. OnlySocket(c)
    BY <1>0, <1>4 DEF OnlySocket, Traffic, Bus
  <2> HIDE DEF left, s
  <2> QED BY <1>0, <1>3, <2>1 DEF Only, Processes
<1>6. ids[c] \in [1 .. Services -> 0 .. MaxId] /\ svc[c] \in 0 .. Services
  BY <1>0 DEF Is, IdSets
<1>7. \A x \in 1 .. Services : left[x] # 0 => left[x] = ids[c][x] /\ (phase[c] = "release" => x # svc[c])
  BY <1>1, <1>6
<1>8. link[c] = "waiting" => FALSE
  <2> SUFFICES ASSUME link[c] = "waiting" PROVE FALSE
    OBVIOUS
  <2>1. \A x \in 1 .. Services : ids[c][x] = 0
    BY DEF Fresh, NoIds
  <2> HIDE DEF left
  <2> QED BY <1>2, <1>7, <2>1
<1> HIDE DEF left, held, s
<1>9. Fresh(c)'
  BY <1>1, <1>4, <1>8 DEF Fresh
<1>10. ASSUME NEW t \in Tokens
       PROVE  Lessens(c, t)
  <2>1. Keeps(c, t)' => Keeps(c, t)
    <3> SUFFICES ASSUME Keeps(c, t)' PROVE Keeps(c, t)
      OBVIOUS
    <3>1. left[t[1]] = t[2] /\ link[c] = "up" /\ t[2] # 0 /\ t[1] \in 1 .. Services
      BY <1>4, GiftsAre DEF Keeps
    <3>2. ids[c][t[1]] = t[2] /\ (phase[c] = "release" => t[1] # svc[c])
      BY <1>7, <3>1
    <3> QED BY <3>1, <3>2 DEF Keeps
  <2>2. ~Got(c, t)' /\ (Coming(c, t)' <=> Coming(c, t)) /\ (Back(c, t)' <=> Back(c, t))
    BY <1>4, GiftsAre DEF Got, Coming, Back
  <2> QED BY <1>4, <2>1, <2>2 DEF Lessens, Holds, Single
<1> QED BY <1>3, <1>5, <1>9, <1>10

\* A process that leaves ends, or asks for the next release.
LEMMA LeavesHow ==
  ASSUME Processes, NEW c \in Clients, Leaves(c)
  PROVE  /\ phase[c] # "off" /\ Abandons(c) /\ UNCHANGED <<reg, loop>>
         /\ \/ Ends(c) /\ ids' = [ids EXCEPT ![c] = NoIds]
            \/ Release(c) /\ phase'[c] = "release"
<1>1. Abandons(c) /\ UNCHANGED <<reg, loop>> /\ phase[c] # "off"
  BY DEF Leaves, Abandons, Release, HangUp, Kill
<1>2. ASSUME Release(c)
      PROVE  \/ Ends(c) /\ ids' = [ids EXCEPT ![c] = NoIds]
             \/ phase'[c] = "release"
  <2> DEFINE left == IF phase[c] = "idle" THEN ids[c] ELSE [ids[c] EXCEPT ![svc[c]] = 0]
             held == {s \in 1 .. Services : left[s] # 0}
  <2>1. CASE held = {}
    BY <1>2, <2>1 DEF Release, Set
  <2>2. CASE held # {}
    <3>1. phase' = [phase EXCEPT ![c] = "release"]
      BY <1>2, <2>2 DEF Release, Set
    <3> QED BY <3>1 DEF Processes
  <2> QED BY <2>1, <2>2
<1> QED BY <1>1, <1>2 DEF Leaves, HangUp, Kill, Set

LEMMA LeavesLess ==
  ASSUME TypeInv, Wired, \A d \in Clients : Fresh(d), NEW c \in Clients, Leaves(c)
  PROVE  (\A d \in Clients : Fresh(d)') /\ \A t \in Tokens : Less(t)
<1>1. Abandons(c) /\ UNCHANGED <<reg, loop>> /\ phase[c] # "off" /\ Processes
  BY DEF Leaves, Abandons, Release, HangUp, Kill, TypeInv
<1>2. CASE Ends(c) /\ ids' = [ids EXCEPT ![c] = NoIds]
  <2>1. Only(c) /\ OnlySocket(c) /\ Fresh(c)' /\ \A t \in Tokens : Lessens(c, t)
    BY <1>1, <1>2, EndsLess
  <2>2. ASSUME NEW d \in Clients
        PROVE  Fresh(d)' /\ \A t \in Tokens : Lessens(d, t)
    BY <1>1, <2>1, OthersSame
  <2>3. Forsaken(c)
    BY <1>2 DEF Ends
  <2> QED BY <1>1, <2>2, <2>3, ForsakenLess
<1>3. CASE Release(c) /\ phase'[c] = "release"
  <2>1. /\ Only(c) /\ OnlySocket(c) /\ Fresh(c)' /\ UNCHANGED transportVars
        /\ \A t \in Tokens : Lessens(c, t)
    BY <1>1, <1>3, ReleaseNextLess
  <2>2. ASSUME NEW d \in Clients
        PROVE  Fresh(d)' /\ \A t \in Tokens : Lessens(d, t)
    BY <1>1, <2>1, OthersSame
  <2>3. UNCHANGED <<toModem, fromModem, present, used>> /\ queue \in Seq(Entry)
    BY <2>1 DEF transportVars, modemVars, TypeInv, Traffic
  <2>4. \A t \in Tokens : Less(t)
    BY <1>1, <2>2, <2>3, AbandonsLess, ThinSame DEF Less, Given
  <2> QED BY <2>2, <2>4
<1> QED BY <1>1, <1>2, <1>3, LeavesHow

\* The request of a release: what the process held is on its way back.
LEMMA ReturnSafe ==
  ASSUME TypeInv, Wired, NEW c \in Clients, Fresh(c), Call(c), UNCHANGED proxyVars,
         phase[c] = "release", link[c] # "cut", NEW t \in Tokens, Safe(t)
  PROVE  Safe(t)'
<1> DEFINE r == Request(c)
           A == Returns(t)
<1>0. Is(c) /\ Processes /\ Traffic /\ Bus /\ up[c] \in Seq(FromProcess)
  BY ProcessIs DEF TypeInv, Traffic
<1>1. /\ step[c] = "call" /\ step'[c] = "wait" /\ rsp'[c] = NoAnswer /\ up'[c] = Append(up[c], r)
      /\ UNCHANGED <<link, down, phase, svc, ids, toModem, fromModem, queue, present, used, reg, loop>>
  BY <1>0 DEF Call, Set, Processes, Traffic, proxyVars, modemVars
<1>2. Only(c) /\ OnlySocket(c)
  BY ClientOnly
<1>3. \A d \in Clients : d # c => Lessens(d, t)
  BY <1>1, <1>2, OthersSame
<1>4. link[c] = "up"
  <2>1. ids[c][svc[c]] # 0 /\ svc[c] \in 1 .. Services
    BY <1>0 DEF Is, Fine
  <2> QED BY <1>0, <2>1 DEF Wired, Bus, Fresh, NoIds
<1>5. r \in FromProcess /\ r \in Message /\ r.msg = "release" /\ r.of = svc[c] /\ r.id = ids[c][svc[c]]
  BY RequestIn, MessageTypes DEF Call
<1> HIDE DEF r
<1>6. /\ In(up'[c], A) <=> In(up[c], A) \/ r \in A
      /\ Once(up[c], A) /\ ~(In(up[c], A) /\ r \in A) => Once(up'[c], A)
  <2>1. /\ In(Append(up[c], r), A) <=> In(up[c], A) \/ r \in A
        /\ Once(up[c], A) /\ ~(In(up[c], A) /\ r \in A) => Once(Append(up[c], r), A)
    BY <1>0, <1>5, KindsAppend
  <2> QED BY <1>1, <2>1
<1>7. ~Got(c, t)' /\ (Coming(c, t)' <=> Coming(c, t)) /\ (Keeps(c, t)' => Keeps(c, t))
  BY <1>1, GiftsAre DEF Got, Coming, Keeps
<1>8. CASE r \notin A
  <2>1. Lessens(c, t)
    <3>1. Single(c, t) => Single(c, t)'
      BY <1>1, <1>7 DEF Single
    <3> QED BY <1>1, <1>6, <1>7, <1>8, <3>1 DEF Lessens, Holds, Back
  <2> QED BY <1>1, <1>3, <2>1, SocketsLess, LessIsSafe
<1>9. CASE r \in A
  <2>1. Keeps(c, t) /\ ~Keeps(c, t)'
    BY <1>1, <1>4, <1>5, <1>9 DEF Keeps, Returns
  <2>2. Holds(c, t) /\ Out(t)
    BY <2>1 DEF Holds, Out
  <2>3. ~Owing(t) /\ (present => Given(t))
    BY <2>2 DEF Safe, NotOwed, NotFree
  <2>4. \A d \in Clients : ~Holds(d, t)'
    <3>1. ~Holds(c, t)'
      BY <1>7, <2>1 DEF Holds, Safe, OneHolder, Single
    <3>2. \A d \in Clients : d # c => ~Holds(d, t)
      BY <2>2 DEF Safe, OneHolder
    <3> QED BY <1>3, <3>1, <3>2 DEF Lessens
  <2>5. ~In(fromModem, Gifts(t)) /\ ~Out(t)'
    BY <1>1, <2>2, <2>4 DEF Safe, OneHolder, Out
  <2>6. OneHolder(t)'
    <3>1. Single(c, t)'
      BY <1>1, <1>7, <2>1 DEF Safe, OneHolder, Single
    <3>2. \A d \in Clients : Single(d, t)'
      BY <1>3, <3>1 DEF Safe, OneHolder, Lessens
    <3> QED BY <1>1, <2>4, <2>5, <3>2 DEF Safe, OneHolder
  <2>7. NotFree(t)' /\ NotOwed(t)' /\ Answered(t)' /\ Known(t)'
    BY <1>1, <2>4, <2>5 DEF Safe, NotFree, NotOwed, Answered, Known
  <2>8. Repeated(t)'
    BY <1>1, <2>3 DEF Repeated, Given
  <2>9. OneDebt(t)'
    <3>1. Once(up'[c], A)
      BY <1>4, <1>6, <2>3, KindsEmpty DEF Owing, Back, In, Once
    <3>2. \A d \in Clients : Back(d, t)' => d = c
      BY <1>3, <2>3 DEF Lessens, Owing
    <3> QED BY <1>1, <2>3, <3>1, <3>2 DEF Safe, OneDebt, Owing, Later, Given
  <2>10. Spaced(t)' /\ Synced(t)'
    BY <1>1, <2>2 DEF Safe, Spaced, Synced
  <2> QED BY <2>6, <2>7, <2>8, <2>9, <2>10 DEF Safe
<1> QED BY <1>8, <1>9

LEMMA CallFresh ==
  ASSUME TypeInv, Wired, NEW c \in Clients, Fresh(c), Call(c), UNCHANGED <<reg, loop>>
  PROVE  Fresh(c)'
<1>1. CASE phase[c] = "release" /\ link[c] # "cut"
  <2>0. Is(c) /\ Processes /\ Traffic /\ Bus
    BY ProcessIs DEF TypeInv
  <2>1. rsp'[c] = NoAnswer /\ UNCHANGED <<link, down, phase, ids>>
    BY <2>0 DEF Call, Set, Processes
  <2>2. link[c] = "up"
    <3>1. ids[c][svc[c]] # 0 /\ svc[c] \in 1 .. Services
      BY <1>1, <2>0 DEF Is, Fine
    <3> QED BY <1>1, <2>0, <3>1 DEF Wired, Bus, Fresh, NoIds
  <2> QED BY <1>1, <2>1, <2>2 DEF Fresh
<1>2. CASE ~(phase[c] = "release" /\ link[c] # "cut")
  BY <1>2, CallLess
<1> QED BY <1>1, <1>2

LEMMA ClientBooks ==
  ASSUME TypeInv, Wired, \A d \in Clients : Fresh(d), NEW c \in Clients, ClientStep(c)
  PROVE  /\ \A d \in Clients : Fresh(d)'
         /\ \A t \in Tokens : Safe(t) => Safe(t)'
<1>1. CASE Leaves(c)
  BY <1>1, LeavesLess, LessIsSafe
<1>2. CASE GivesUp(c)
  <2>1. GiveUp(c) /\ Abandons(c) /\ UNCHANGED <<reg, loop>> /\ Forsaken(c)
    BY <1>2 DEF GivesUp, Abandons, GiveUp
  <2>2. Only(c) /\ OnlySocket(c) /\ Fresh(c)' /\ \A t \in Tokens : Lessens(c, t)
    BY <2>1, ClientOnly, GivesUpLess
  <2>3. ASSUME NEW d \in Clients
        PROVE  Fresh(d)' /\ \A t \in Tokens : Lessens(d, t)
    BY <2>1, <2>2, OthersSame
  <2> QED BY <2>1, <2>3, ForsakenLess, LessIsSafe
<1>3. CASE /\ Connect(c) \/ Call(c) \/ Receive(c) \/ Version(c) \/ GetClientId(c) \/ Work(c) \/ Worked(c)
           /\ UNCHANGED proxyVars
  <2>1. /\ UNCHANGED <<reg, loop, queue, toModem, fromModem, present, used>>
        /\ Only(c) /\ OnlySocket(c)
    <3>1. UNCHANGED modemVars
      BY <1>3 DEF Connect, Call, Receive, Version, GetClientId, Work, Worked, Quiet, transportVars
    <3>2. Only(c) /\ OnlySocket(c)
      BY <1>3, ClientOnly
    <3> QED BY <1>3, <3>1, <3>2 DEF proxyVars, modemVars
  <2>2. CASE ~(Call(c) /\ phase[c] = "release" /\ link[c] # "cut")
    <3>1. Fresh(c)' /\ \A t \in Tokens : Lessens(c, t)
      BY <1>3, <2>1, <2>2, ConnectLess, CallLess, ReceiveLess, NextRequestLess
    <3>2. ASSUME NEW d \in Clients
          PROVE  Fresh(d)' /\ \A t \in Tokens : Lessens(d, t)
      BY <2>1, <3>1, OthersSame
    <3> QED BY <2>1, <3>2, SocketsLess, LessIsSafe
  <2>3. CASE Call(c) /\ phase[c] = "release" /\ link[c] # "cut"
    <3>1. Fresh(c)'
      BY <2>1, <2>3, CallFresh
    <3>2. \A d \in Clients : Fresh(d)'
      BY <2>1, <3>1, OthersSame
    <3> QED BY <1>3, <2>3, <3>2, ReturnSafe
  <2> QED BY <2>2, <2>3
<1> QED BY <1>1, <1>2, <1>3 DEF ClientStep

-----------------------------------------------------------------------------
(* The proxy and the modem: what adds nothing.                             *)

\* A connection the step does not touch, and one that is no more.
LEMMA SocketSame ==
  ASSUME UNCHANGED runVars, NEW d \in Clients, link'[d] = link[d], up'[d] = up[d], down'[d] = down[d],
         reg'[d] = reg[d], loop' \/ loop' = loop
  PROVE  (Fresh(d) => Fresh(d)') /\ \A t : Lessens(d, t)
<1>1. /\ phase'[d] = phase[d] /\ svc'[d] = svc[d] /\ step'[d] = step[d] /\ rsp'[d] = rsp[d]
      /\ ids'[d] = ids[d] /\ tid'[d] = tid[d]
  BY DEF runVars
<1>2. Fresh(d) => Fresh(d)'
  BY <1>1 DEF Fresh
<1>3. ASSUME NEW t
      PROVE  Lessens(d, t)
  <2>1. /\ Keeps(d, t)' <=> Keeps(d, t)
        /\ Got(d, t)' <=> Got(d, t)
        /\ Coming(d, t)' <=> Coming(d, t)
        /\ Back(d, t)' <=> Back(d, t)
    BY <1>1 DEF Keeps, Got, Coming, Back
  <2>2. Single(d, t) => Single(d, t)'
    BY <2>1 DEF Single
  <2> QED BY <2>1, <2>2 DEF Lessens, Holds
<1> QED BY <1>2, <1>3

LEMMA SocketGone ==
  ASSUME NEW d \in Clients, Fresh(d), link'[d] # "up", down'[d] \in {down[d], <<>>},
         link'[d] = "left" => link[d] \in {"up", "left"} /\ up'[d] \in {up[d], <<>>},
         NEW t
  PROVE  Lessens(d, t)
<1>1. ~Keeps(d, t)' /\ ~Got(d, t)' /\ ~Coming(d, t)' /\ (Back(d, t)' => link'[d] = "left")
  BY DEF Keeps, Got, Coming, Back
<1>2. Single(d, t) => Single(d, t)'
  BY <1>1, KindsEmpty DEF Single
<1>3. Back(d, t)' => Back(d, t)
  BY <1>1, KindsEmpty DEF Back
<1>4. Back(d, t)' /\ Once(up[d], Returns(t)) => Once(up'[d], Returns(t))
  BY <1>1, KindsEmpty
<1> QED BY <1>1, <1>2, <1>3, <1>4 DEF Lessens, Holds

LEMMA MainLess ==
  ASSUME TypeInv, Wired, \A d \in Clients : Fresh(d), ProxyMain \/ Interrupt, UNCHANGED clientVars,
         ~Prepare
  PROVE  (\A d \in Clients : Fresh(d)') /\ \A t \in Tokens : Less(t)
<1>0. UNCHANGED runVars /\ Traffic /\ Bus
  BY DEF clientVars, TypeInv
<1>1. CASE Open \/ Prepared \/ StartServer \/ Exit \/ Interrupt
  <2>1. UNCHANGED <<link, up, down, modemVars, queue, reg>> /\ (loop' \/ loop' = loop)
    BY <1>1 DEF Open, Prepared, StartServer, Exit, Interrupt, transportVars
  <2>2. ASSUME NEW d \in Clients
        PROVE  Fresh(d)' /\ \A t \in Tokens : Lessens(d, t)
    BY <1>0, <2>1, SocketSame
  <2> QED BY <2>1, <2>2, SocketsLess DEF modemVars
<1>2. CASE PrepareTimesOut
  <2>1. /\ UNCHANGED <<link, up, down, present, used, queue, reg, loop>>
        /\ toModem' = Disown(toModem, Proxy) /\ fromModem' = Disown(fromModem, Proxy)
    BY <1>2 DEF PrepareTimesOut
  <2>2. ASSUME NEW d \in Clients
        PROVE  Fresh(d)' /\ \A t \in Tokens : Lessens(d, t)
    BY <1>0, <2>1, SocketSame
  <2>3. ASSUME NEW t
        PROVE  Thins(toModem, toModem', t) /\ Thins(fromModem, fromModem', t)
    <3>1. toModem \in Seq(Asked) /\ fromModem \in Seq(Told)
      BY <1>0 DEF Traffic
    <3>2. Thins(toModem, toModem', t)
      BY <2>1, <3>1, MessageTypes, OrphanTypes, ThinDisown
    <3>3. Thins(fromModem, fromModem', t)
      BY <2>1, <3>1, MessageTypes, OrphanTypes, ThinDisown
    <3> QED BY <3>2, <3>3
  <2> QED BY <2>1, <2>2, <2>3 DEF Less, Later, Given
<1>3. CASE Join
  <2>1. /\ ~loop /\ toModem' = <<>> /\ fromModem' = <<>>
        /\ UNCHANGED <<down, present, used, loop, queue, reg>>
        /\ link' = [c \in Clients |-> IF link[c] = "waiting" THEN "cut" ELSE IF link[c] = "left" THEN "free" ELSE link[c]]
        /\ up' = [c \in Clients |-> IF link[c] = "left" THEN <<>> ELSE up[c]]
    BY <1>3 DEF Join
  <2>2. ASSUME NEW d \in Clients
        PROVE  Fresh(d)' /\ \A t \in Tokens : Lessens(d, t)
    <3>1. link[d] # "up" /\ Fresh(d) /\ link'[d] \in {"free", "cut"}
      BY <1>0, <2>1 DEF Wired, Bus
    <3>2. /\ phase'[d] = phase[d] /\ rsp'[d] = rsp[d] /\ tid'[d] = tid[d] /\ down'[d] = down[d]
          /\ link'[d] = "free" => up'[d] = <<>>
      BY <1>0, <2>1 DEF runVars, Fresh
    <3>3. Fresh(d)'
      BY <3>1, <3>2 DEF Fresh
    <3>4. \A t \in Tokens : Lessens(d, t)
      BY <3>1, <3>2, SocketGone
    <3> QED BY <3>3, <3>4
  <2> QED BY <2>1, <2>2, ThinEmpty DEF Less, Later, Given
<1> QED BY <1>1, <1>2, <1>3 DEF ProxyMain

LEMMA WithoutLess ==
  ASSUME queue \in Seq(Entry), NEW i \in 1 .. Len(queue), queue' = Without(queue, i), NEW t
  PROVE  /\ In(queue', Entries(t)) => In(queue, Entries(t))
         /\ Once(queue, Entries(t)) => Once(queue', Entries(t))
         /\ Later(t)' => Later(t)
<1> DEFINE E == Entries(t)
           p == queue'
           at(j) == IF j < i THEN j ELSE j + 1
<1>1. /\ p \in Seq(Entry) /\ Len(p) = Len(queue) - 1 /\ Len(queue) \in Nat /\ Len(queue) >= 1
      /\ \A j \in 1 .. Len(queue) - 1 : p[j] = IF j < i THEN queue[j] ELSE queue[j + 1]
  <2>1. queue # <<>>
    OBVIOUS
  <2>2. Len(queue) \in Nat /\ Len(queue) >= 1
    BY <2>1
  <2> QED BY <2>2, WithoutSeq
<1>2. /\ \A j \in 1 .. Len(queue) - 1 : at(j) \in 1 .. Len(queue) /\ p[j] = queue[at(j)] /\ at(j) >= j
      /\ \A j, k \in 1 .. Len(queue) - 1 : at(j) = at(k) => j = k
  BY <1>1
<1>3. DOMAIN p = 1 .. Len(queue) - 1 /\ DOMAIN queue = 1 .. Len(queue)
  BY <1>1
<1> HIDE DEF E, p, at
<1>4. In(p, E) => In(queue, E)
  BY <1>2, <1>3 DEF In
<1>5. Once(queue, E) => Once(p, E)
  BY <1>2, <1>3 DEF Once
<1>6. ASSUME p # <<>>, In(Tail(p), E)
      PROVE  queue # <<>> /\ In(Tail(queue), E)
  <2>1. queue # <<>>
    BY <1>1, EmptyIs
  <2>2. /\ DOMAIN Tail(p) = 1 .. Len(p) - 1
        /\ \A j \in 1 .. Len(p) - 1 : Tail(p)[j] = p[j + 1]
    BY <1>1, <1>6, TailSeq
  <2>3. /\ DOMAIN Tail(queue) = 1 .. Len(queue) - 1
        /\ \A j \in 1 .. Len(queue) - 1 : Tail(queue)[j] = queue[j + 1]
    BY <1>1, <2>1, TailSeq
  <2>4. PICK j \in 1 .. Len(p) - 1 : p[j + 1] \in E
    BY <1>6, <2>2 DEF In
  <2>5. j + 1 \in 1 .. Len(queue) - 1 /\ j \in Int /\ j >= 1
    BY <1>1, <2>4
  <2>6. at(j + 1) \in 1 .. Len(queue) /\ queue[at(j + 1)] \in E /\ at(j + 1) >= j + 1
    BY <1>2, <2>4, <2>5
  <2>7. at(j + 1) - 1 \in 1 .. Len(queue) - 1 /\ (at(j + 1) - 1) + 1 = at(j + 1)
    BY <1>1, <2>5, <2>6
  <2>8. Tail(queue)[at(j + 1) - 1] = queue[at(j + 1)]
    BY <2>3, <2>7
  <2> QED BY <2>1, <2>3, <2>6, <2>7, <2>8 DEF In
<1>7. Later(t)' => Later(t)
  BY <1>6 DEF Later, p, E
<1> QED BY <1>4, <1>5, <1>7 DEF p, E

-----------------------------------------------------------------------------
(* The loop of the proxy.                                                  *)

LEMMA AcceptLess ==
  ASSUME TypeInv, \A d \in Clients : Fresh(d), NEW c \in Clients, Accept(c), UNCHANGED clientVars
  PROVE  (\A d \in Clients : Fresh(d)') /\ \A t \in Tokens : Less(t)
<1>0. UNCHANGED runVars /\ Bus
  BY DEF clientVars, TypeInv
<1>1. /\ link[c] = "waiting" /\ link' = [link EXCEPT ![c] = "up"]
      /\ UNCHANGED <<up, down, toModem, fromModem, present, used, queue, reg, loop>>
  BY DEF Accept, Set, modemVars, proxyVars
<1>2. /\ link'[c] = "up" /\ down[c] = <<>> /\ ids[c] = NoIds /\ rsp[c] = NoAnswer
      /\ \A t \in Tokens : ~In(up[c], Returns(t))
  BY <1>0, <1>1 DEF Fresh, Bus
<1>3. Fresh(c)'
  BY <1>0, <1>2 DEF Fresh, runVars
<1>4. ASSUME NEW t \in Tokens
      PROVE  Lessens(c, t)
  <2>1. ~Keeps(c, t)' /\ ~Got(c, t)' /\ ~Coming(c, t)' /\ ~Back(c, t)'
    BY <1>0, <1>1, <1>2, GiftsAre, KindsEmpty DEF Keeps, Got, Coming, Back, runVars
  <2>2. Single(c, t)'
    BY <1>1, <1>2, <2>1, KindsEmpty DEF Single
  <2> QED BY <2>1, <2>2 DEF Lessens, Holds
<1>5. ASSUME NEW d \in Clients
      PROVE  Fresh(d)' /\ \A t \in Tokens : Lessens(d, t)
  <2>1. CASE d = c
    BY <1>3, <1>4, <2>1
  <2>2. CASE d # c
    <3>1. link'[d] = link[d]
      BY <1>0, <1>1, <2>2 DEF Bus
    <3> QED BY <1>0, <1>1, <3>1, SocketSame
  <2> QED BY <2>1, <2>2
<1> QED BY <1>1, <1>5, SocketsLess

LEMMA CleanupLess ==
  ASSUME TypeInv, \A d \in Clients : Fresh(d), NEW c \in Clients, Cleanup(c), UNCHANGED clientVars
  PROVE  (\A d \in Clients : Fresh(d)') /\ \A t \in Tokens : Less(t)
<1>0. UNCHANGED runVars /\ Bus /\ Traffic /\ Prepares
  BY DEF clientVars, TypeInv
<1>1. /\ link[c] = "left" /\ link' = [link EXCEPT ![c] = "free"] /\ up' = [up EXCEPT ![c] = <<>>]
      /\ reg' = [reg EXCEPT ![c] = {}]
      /\ UNCHANGED <<down, toModem, fromModem, present, used, loop>>
      /\ \/ queue' = queue
         \/ Queued(c) /\ queue' = Without(queue, FirstOf(c))
  BY DEF Cleanup, Set, modemVars
<1>2. link'[c] = "free" /\ up'[c] = <<>> /\ down'[c] = <<>>
  BY <1>0, <1>1 DEF Fresh, Bus, Traffic
<1>3. Fresh(c)'
  BY <1>0, <1>2 DEF Fresh, runVars
<1>4. \A t \in Tokens : Lessens(c, t)
  BY <1>2, SocketGone
<1>5. ASSUME NEW d \in Clients
      PROVE  Fresh(d)' /\ \A t \in Tokens : Lessens(d, t)
  <2>1. CASE d = c
    BY <1>3, <1>4, <2>1
  <2>2. CASE d # c
    <3>1. link'[d] = link[d] /\ up'[d] = up[d] /\ reg'[d] = reg[d]
      BY <1>0, <1>1, <2>2 DEF Bus, Traffic, Prepares
    <3> QED BY <1>0, <1>1, <3>1, SocketSame
  <2> QED BY <2>1, <2>2
<1>6. ASSUME NEW t
      PROVE  /\ In(queue', Entries(t)) => In(queue, Entries(t))
             /\ Once(queue, Entries(t)) => Once(queue', Entries(t))
             /\ Later(t)' => Later(t)
  <2>1. CASE queue' = queue
    BY <2>1 DEF Later
  <2>2. CASE Queued(c) /\ queue' = Without(queue, FirstOf(c))
    BY <1>0, <2>2, FirstOfIn, WithoutLess DEF Traffic
  <2> QED BY <1>1, <2>1, <2>2
<1> QED BY <1>1, <1>5, <1>6, ThinSame DEF Less, Given

LEMMA BrokenPipeLess ==
  ASSUME TypeInv, \A d \in Clients : Fresh(d), BrokenPipe, UNCHANGED clientVars
  PROVE  (\A d \in Clients : Fresh(d)') /\ \A t \in Tokens : Less(t)
<1>0. UNCHANGED runVars /\ Bus /\ Traffic
  BY DEF clientVars, TypeInv
<1>1. /\ queue' = <<>> /\ toModem' = <<>> /\ fromModem' = <<>> /\ UNCHANGED <<present, used>>
      /\ down' = [c \in Clients |-> <<>>]
      /\ link' = [c \in Clients |-> IF link[c] \in {"waiting", "up"} THEN "cut" ELSE IF link[c] = "left" THEN "free" ELSE link[c]]
      /\ up' = [c \in Clients |-> IF Connected(c) THEN <<>> ELSE up[c]]
  BY DEF BrokenPipe
<1>2. ASSUME NEW d \in Clients
      PROVE  Fresh(d)' /\ \A t \in Tokens : Lessens(d, t)
  <2>1. /\ down'[d] = <<>> /\ link'[d] \in {"free", "cut"}
        /\ link'[d] = "free" => link[d] = "free" \/ up'[d] = <<>>
        /\ link[d] = "free" => up'[d] = up[d]
    BY <1>0, <1>1 DEF Bus, Connected
  <2>2. Fresh(d)'
    BY <1>0, <2>1 DEF Fresh, runVars
  <2>3. \A t \in Tokens : Lessens(d, t)
    BY <2>1, SocketGone
  <2> QED BY <2>2, <2>3
<1> QED BY <1>1, <1>2, ThinEmpty, KindsEmpty DEF Less, Later, Given

LEMMA LoopEndsLess ==
  ASSUME TypeInv, \A d \in Clients : Fresh(d), LoopReset \/ LoopEnds, UNCHANGED clientVars
  PROVE  (\A d \in Clients : Fresh(d)') /\ \A t \in Tokens : Less(t)
<1>0. UNCHANGED runVars /\ Bus /\ Traffic
  BY DEF clientVars, TypeInv
<1>1. /\ loop' = FALSE /\ queue' = <<>> /\ UNCHANGED <<present, toModem, used>>
      /\ down' = [c \in Clients |-> <<>>]
      /\ link' = [c \in Clients |-> IF link[c] = "up" THEN "cut" ELSE IF link[c] = "left" THEN "free" ELSE link[c]]
      /\ up' = [c \in Clients |-> IF Connected(c) THEN <<>> ELSE up[c]]
      /\ \/ fromModem' = fromModem
         \/ fromModem # <<>> /\ fromModem' = Tail(fromModem)
  BY DEF LoopReset, LoopEnds, Ending, modemVars
<1>2. ASSUME NEW d \in Clients
      PROVE  Fresh(d)' /\ \A t \in Tokens : Lessens(d, t)
  <2>1. /\ down'[d] = <<>> /\ link'[d] \notin {"up", "left"} /\ link[d] \in {"free", "waiting", "up", "left", "cut"}
        /\ link'[d] = "free" => link[d] = "free" \/ up'[d] = <<>>
        /\ link[d] = "free" => up'[d] = up[d]
        /\ link'[d] = "waiting" => link[d] = "waiting" /\ up'[d] = up[d]
    BY <1>0, <1>1 DEF Bus, Connected
  <2>2. Fresh(d)'
    BY <1>0, <2>1 DEF Fresh, runVars
  <2>3. \A t \in Tokens : Lessens(d, t)
    BY <2>1, SocketGone
  <2> QED BY <2>2, <2>3
<1>3. ASSUME NEW t
      PROVE  /\ Thins(fromModem, fromModem', t)
             /\ ~In(queue', Entries(t)) /\ Once(queue', Entries(t)) /\ ~Later(t)'
  BY <1>0, <1>1, ThinSame, ThinTail, KindsEmpty DEF Later, Traffic
<1> QED BY <1>1, <1>2, <1>3, ThinSame DEF Less, Given

\* What comes to the end of the queue is later than its head.
LEMMA AppendLater ==
  ASSUME NEW S, NEW q \in Seq(S), NEW x \in S, NEW A
  PROVE  /\ Append(q, x) # <<>>
         /\ q = <<>> => ~In(Tail(Append(q, x)), A)
         /\ q # <<>> => (In(Tail(Append(q, x)), A) <=> In(Tail(q), A) \/ x \in A)
<1> DEFINE p == Append(q, x)
           n == Len(q)
<1>1. /\ p \in Seq(S) /\ Len(p) = n + 1 /\ n \in Nat /\ p[n + 1] = x
      /\ \A i \in 1 .. n : p[i] = q[i]
  BY AppendSeq
<1>2. p # <<>>
  BY <1>1
<1>3. /\ DOMAIN Tail(p) = 1 .. n
      /\ \A i \in 1 .. n : Tail(p)[i] = p[i + 1]
  <2>1. Len(p) - 1 = n
    BY <1>1
  <2> QED BY <1>1, <1>2, <2>1, TailSeq
<1>4. q = <<>> => n = 0
  OBVIOUS
<1>5. ASSUME q # <<>>
      PROVE  In(Tail(p), A) <=> In(Tail(q), A) \/ x \in A
  <2>1. /\ n \in Nat \ {0} /\ DOMAIN Tail(q) = 1 .. n - 1
        /\ \A i \in 1 .. n - 1 : Tail(q)[i] = q[i + 1]
    BY <1>5, TailSeq
  <2> HIDE DEF p, n
  <2>2. \A i : i \in 1 .. n <=> i \in 1 .. n - 1 \/ i = n
    BY <2>1
  <2>3. \A i \in 1 .. n - 1 : i + 1 \in 1 .. n /\ p[i + 1] = q[i + 1]
    BY <1>1, <2>1
  <2>4. \A i \in 1 .. n - 1 : Tail(p)[i] = Tail(q)[i]
    BY <1>3, <2>1, <2>2, <2>3
  <2>5. Tail(p)[n] = x /\ n \in 1 .. n
    BY <1>1, <1>3, <2>1
  <2> QED BY <1>3, <2>1, <2>2, <2>4, <2>5 DEF In
<1> HIDE DEF p, n
<1>6. q = <<>> => ~In(Tail(p), A)
  <2>1. q = <<>> => DOMAIN Tail(p) = {}
    BY <1>3, <1>4
  <2> QED BY <2>1 DEF In
<1> QED BY <1>2, <1>5, <1>6 DEF p

LEMMA KindsAre ==
  ASSUME NEW m \in FromProcess, NEW t
  PROVE  /\ m \in Message /\ m \notin Gifts(t) /\ m \notin Syncs
         /\ ~(m \in Returns(t) /\ m \in Wishes(t))
         /\ m \in Returns(t) \/ m \in Wishes(t) => m.svc = CTL /\ Ours(m)
<1>1. m \in Message /\ m.flag = "req" /\ OfProcess(m)
  BY DEF FromProcess
<1>2. m.svc = CTL => Ours(m)
  BY OursAre
<1> QED BY <1>1, <1>2 DEF OfProcess, Gifts, Syncs, Returns, Wishes

LEMMA ReadClientSafe ==
  ASSUME TypeInv, \A d \in Clients : Fresh(d), NEW c \in Clients, ReadClient(c), UNCHANGED clientVars
  PROVE  (\A d \in Clients : Fresh(d)') /\ \A t \in Tokens : Safe(t) => Safe(t)'
<1> DEFINE m == Head(up[c])
           e == [fd |-> c, m |-> m]
<1>0. /\ UNCHANGED runVars /\ Bus /\ Traffic
      /\ up[c] \in Seq(FromProcess) /\ toModem \in Seq(Asked) /\ queue \in Seq(Entry)
  BY DEF clientVars, TypeInv, Traffic
<1>1. /\ link[c] \in {"up", "left"} /\ up[c] # <<>> /\ up' = [up EXCEPT ![c] = <<>>]
      /\ UNCHANGED <<link, down, fromModem, present, used, reg, loop>>
      /\ \/ UNCHANGED <<toModem, queue>>
         \/ /\ toModem' = IF Goes(m) /\ present THEN Append(toModem, m) ELSE toModem
            /\ queue' = IF m.svc = CTL THEN Append(queue, e) ELSE queue
  BY DEF ReadClient, SendQmi, Connected, Set
<1>2. up'[c] = <<>> /\ m \in FromProcess /\ m \in Asked
  BY <1>0, <1>1, TailSeq, MessageTypes DEF Traffic
<1>3. ASSUME NEW d \in Clients
      PROVE  Fresh(d)' /\ (\A t \in Tokens : Lessens(d, t)) /\ \A t : Back(d, t)' => d # c
  <2>1. CASE d = c
    <3>1. Fresh(c)'
      BY <1>0, <1>1, <1>2, KindsEmpty DEF Fresh, runVars
    <3>2. ASSUME NEW t \in Tokens PROVE Lessens(c, t) /\ ~Back(c, t)'
      <4>1. /\ Keeps(c, t)' <=> Keeps(c, t)
            /\ Got(c, t)' <=> Got(c, t)
            /\ Coming(c, t)' <=> Coming(c, t)
        BY <1>0, <1>1 DEF Keeps, Got, Coming, runVars
      <4>2. ~Back(c, t)'
        BY <1>2, KindsEmpty DEF Back
      <4> QED BY <1>1, <4>1, <4>2 DEF Lessens, Holds, Single
    <3>3. \A t : ~Back(c, t)'
      BY <1>2, KindsEmpty DEF Back
    <3> QED BY <2>1, <3>1, <3>2, <3>3
  <2>2. CASE d # c
    <3>1. up'[d] = up[d]
      BY <1>0, <1>1, <2>2 DEF Traffic
    <3> QED BY <1>0, <1>1, <2>2, <3>1, SocketSame
  <2> QED BY <2>1, <2>2
<1>4. ASSUME NEW t \in Tokens, Safe(t)
      PROVE  Safe(t)'
  <2> DEFINE R == Returns(t)
             W == Wishes(t)
             E == Entries(t)
  <2>0. \A d \in Clients : Lessens(d, t)
    BY <1>3
  <2>1. CASE UNCHANGED <<toModem, queue>>
    BY <1>1, <1>4, <2>0, <2>1, SocketsLess, LessIsSafe
  <2>2. CASE /\ toModem' = IF Goes(m) /\ present THEN Append(toModem, m) ELSE toModem
             /\ queue' = IF m.svc = CTL THEN Append(queue, e) ELSE queue
    <3>1. /\ m \in Message /\ m \notin Gifts(t) /\ m \notin Syncs /\ ~(m \in R /\ m \in W)
          /\ m \in R \/ m \in W => m.svc = CTL
      BY <1>2, KindsAre
    <3> HIDE DEF m
    <3>2. m.svc = CTL => e \in Entry /\ (e \in E <=> m \in R)
      BY <1>2 DEF Entry, Entries
    <3> HIDE DEF e, R, W, E
    <3>3. LessHeld(t)
      BY <1>1, <2>0, ThinSame DEF LessHeld, Given
    <3>4. HeldByOne(t)' /\ (Out(t)' => Out(t)) /\ present' = present /\ (Given(t)' <=> Given(t))
      BY <1>4, <3>3, HoldersLess DEF LessHeld
    <3>5. \A d \in Clients : /\ Back(d, t)' => Back(d, t) /\ d # c
                             /\ Back(d, t)' /\ Once(up[d], R) => Once(up'[d], R)
      BY <1>3, <2>0 DEF Lessens, R
    <3>6. /\ In(queue', E) => In(queue, E) \/ m \in R
          /\ Once(queue, E) /\ ~(In(queue, E) /\ m \in R) => Once(queue', E)
          /\ Later(t)' => queue # <<>> /\ (Later(t) \/ m \in R)
      <4>1. CASE m.svc = CTL
        <5>1. queue' = Append(queue, e)
          BY <2>2, <4>1
        <5>2. /\ In(Append(queue, e), E) <=> In(queue, E) \/ e \in E
              /\ Once(queue, E) /\ ~(In(queue, E) /\ e \in E) => Once(Append(queue, e), E)
          BY <1>0, <3>2, <4>1, KindsAppend
        <5>3. /\ queue = <<>> => ~In(Tail(Append(queue, e)), E)
              /\ queue # <<>> => (In(Tail(Append(queue, e)), E) <=> In(Tail(queue), E) \/ e \in E)
          BY <1>0, <3>2, <4>1, AppendLater
        <5> QED BY <3>2, <4>1, <5>1, <5>2, <5>3 DEF Later, E
      <4>2. CASE m.svc # CTL
        <5>1. queue' = queue
          BY <2>2, <4>2
        <5> QED BY <5>1 DEF Later
      <4> QED BY <4>1, <4>2
    <3>7. CASE m \notin R /\ m \notin W
      <4>1. Thins(toModem, toModem', t)
        <5>1. \A A \in Kinds(t) : m \notin A
          BY <3>1, <3>7 DEF Kinds, R, W
        <5> QED BY <1>0, <1>2, <2>2, <5>1, ThinAppend, ThinSame
      <4> QED BY <1>1, <1>4, <2>0, <3>4, <3>6, <3>7, <4>1, ThinSame, LessIsSafe DEF Less, E, R
    <3>8. CASE m \in W
      <4>0. m.svc = CTL /\ m \notin R /\ (toModem' = toModem \/ queue = <<>>)
        BY <2>2, <3>1, <3>8 DEF Goes
      <4>1. toModem' = toModem \/ toModem' = Append(toModem, m)
        BY <2>2
      <4>2. /\ In(Append(toModem, m), R) <=> In(toModem, R)
            /\ In(Append(toModem, m), Syncs) <=> In(toModem, Syncs)
            /\ Before(toModem, R, W) => Before(Append(toModem, m), R, W)
            /\ Before(toModem, Syncs, W) => Before(Append(toModem, m), Syncs, W)
            /\ Apart(toModem, R, W) => Apart(Append(toModem, m), R, W)
        BY <1>0, <1>2, <3>1, <4>0, KindsAppend
      <4>3. /\ In(toModem', R) <=> In(toModem, R)
            /\ In(toModem', Syncs) <=> In(toModem, Syncs)
            /\ Before(toModem, R, W) => Before(toModem', R, W)
            /\ Before(toModem, Syncs, W) => Before(toModem', Syncs, W)
            /\ Apart(toModem, R, W) => Apart(toModem', R, W)
        BY <4>1, <4>2
      <4>4. In(queue', E) => In(queue, E) /\ toModem' = toModem
        <5>1. queue = <<>> => ~In(queue, E)
          BY KindsEmpty
        <5> QED BY <3>6, <4>0, <5>1
      <4>5. Owing(t)' => Owing(t)
        BY <3>5, <4>3, <4>4 DEF Owing, R, E
      <4>6. NotOwed(t)' /\ Synced(t)'
        BY <1>4, <3>4, <4>3, <4>5 DEF Safe, NotOwed, Synced, R, W
      <4>7. Repeated(t)'
        BY <1>4, <3>4, <3>5, <4>3, <4>4, <4>5 DEF Safe, Repeated, R, W, E
      <4>8. OneDebt(t)'
        BY <1>4, <3>4, <3>5, <3>6, <4>0, <4>3, <4>4 DEF Safe, OneDebt, R, E
      <4>9. Spaced(t)'
        BY <1>4, <4>3, <4>4 DEF Safe, Spaced, R, W, E
      <4> QED BY <3>4, <4>6, <4>7, <4>8, <4>9 DEF Safe, HeldByOne
    <3>9. CASE m \in R
      <4>0. m.svc = CTL /\ m \notin W /\ Back(c, t) /\ Owing(t)
        <5>1. In(up[c], R)
          BY <1>0, <1>1, <3>9, KindsTail DEF m
        <5> QED BY <1>1, <3>1, <3>9, <5>1 DEF Back, Owing, R
      <4>1. /\ ~In(queue, E) /\ ~In(toModem, R) /\ ~Out(t) /\ (present => Given(t))
            /\ \A d \in Clients : Back(d, t) => d = c
        BY <1>4, <4>0 DEF Safe, OneDebt, NotOwed, Repeated, R, E
      <4>2. \A d \in Clients : ~Back(d, t)'
        BY <3>5, <4>1
      <4>3. ~In(toModem, Syncs)
        BY <1>4, <4>0 DEF Safe, Synced
      <4>4. /\ Before(toModem, W, R)
            /\ Before(Append(toModem, m), W, R)
            /\ Apart(toModem, R, W) => Apart(Append(toModem, m), R, W)
            /\ ~In(Append(toModem, m), Syncs)
        <5>1. Before(toModem, W, R)
          BY <4>1 DEF Before, In
        <5> QED BY <1>0, <1>2, <3>1, <4>0, <4>3, <5>1, KindsAppend
      <4>5. toModem' = toModem \/ (toModem' = Append(toModem, m) /\ queue = <<>>)
        BY <2>2, <4>0 DEF Goes
      <4>6. NotOwed(t)' /\ Synced(t)'
        BY <3>4, <4>1, <4>3, <4>4, <4>5 DEF NotOwed, Synced
      <4>7. Repeated(t)'
        BY <3>4, <4>1 DEF Repeated
      <4>8. OneDebt(t)'
        BY <1>4, <3>4, <3>6, <4>1, <4>2, <4>5 DEF Safe, OneDebt, R, E
      <4>9. Spaced(t)'
        BY <1>4, <4>4, <4>5 DEF Safe, Spaced, R, W
      <4> QED BY <3>4, <4>6, <4>7, <4>8, <4>9 DEF Safe, HeldByOne
    <3> QED BY <3>7, <3>8, <3>9
  <2> QED BY <1>1, <2>1, <2>2
<1> QED BY <1>3, <1>4

\* The head of what is left in the queue may go to the modem, even if it has been
\* there.
LEMMA SendsNext ==
  ASSUME TypeInv, NEW t, Safe(t), queue' = queue \/ (queue # <<>> /\ queue' = Tail(queue)),
         toModem' = toModem \/ (queue' # <<>> /\ toModem' = Append(toModem, Head(queue').m)),
         up' = up, link' = link, Out(t)' => Out(t), present' = present, Given(t)' <=> Given(t)
  PROVE  NotOwed(t)' /\ Repeated(t)' /\ OneDebt(t)' /\ Spaced(t)' /\ Synced(t)'
<1> DEFINE R == Returns(t)
           W == Wishes(t)
           E == Entries(t)
           h == Head(queue').m
<1>0. toModem \in Seq(Asked) /\ queue \in Seq(Entry) /\ queue' \in Seq(Entry)
  BY TailSeq DEF TypeInv, Traffic
<1>1. /\ \A d \in Clients : Back(d, t)' <=> Back(d, t)
      /\ Out(t)' => Out(t)
      /\ present' = present /\ (Given(t)' <=> Given(t))
  BY DEF Back
<1>2. /\ In(queue', E) => In(queue, E)
      /\ Once(queue, E) => Once(queue', E)
  <2>1. CASE queue' = queue
    BY <2>1
  <2>2. CASE queue # <<>> /\ queue' = Tail(queue)
    <3>1. /\ In(queue, E) <=> Head(queue) \in E \/ In(Tail(queue), E)
          /\ Once(queue, E) => Once(Tail(queue), E)
      BY <1>0, <2>2, KindsTail
    <3> QED BY <2>2, <3>1
  <2> QED BY <2>1, <2>2
<1>3. Later(t)' => Later(t)
  <2>1. CASE queue' = queue
    BY <2>1 DEF Later
  <2>2. CASE queue # <<>> /\ queue' = Tail(queue)
    <3>1. queue' # <<>> /\ In(Tail(queue'), E) => In(queue', E)
      BY <1>0, KindsTail
    <3> QED BY <2>2, <3>1 DEF Later
  <2> QED BY <2>1, <2>2
<1>4. CASE toModem' = toModem
  <2>1. Owing(t)' => Owing(t)
    BY <1>1, <1>2, <1>4 DEF Owing
  <2> QED BY <1>1, <1>2, <1>3, <1>4, <2>1 DEF Safe, NotOwed, Repeated, OneDebt, Spaced, Synced
<1>5. CASE queue' # <<>> /\ toModem' = Append(toModem, h)
  <2>1. Head(queue') \in Entry /\ h \in FromProcess /\ h \in Asked
    BY <1>0, <1>5, TailSeq, MessageTypes
  <2>2. h \notin Gifts(t) /\ h \notin Syncs /\ ~(h \in R /\ h \in W)
    BY <2>1, KindsAre
  <2>3. Head(queue') \in E <=> h \in R
    BY <2>1 DEF Entries
  <2>4. /\ In(queue', E) <=> Head(queue') \in E \/ In(Tail(queue'), E)
        /\ Once(queue', E) => ~(Head(queue') \in E /\ In(Tail(queue'), E))
    BY <1>0, <1>5, KindsTail
  <2>5. In(queue', E) /\ h \notin R => Later(t)
    <3>1. CASE queue' = queue
      BY <1>5, <2>3, <2>4, <3>1 DEF Later
    <3>2. CASE queue # <<>> /\ queue' = Tail(queue)
      BY <3>2 DEF Later
    <3> QED BY <3>1, <3>2
  <2> HIDE DEF R, W, E, h
  <2>6. /\ In(Append(toModem, h), R) <=> In(toModem, R) \/ h \in R
        /\ In(Append(toModem, h), W) <=> In(toModem, W) \/ h \in W
        /\ In(Append(toModem, h), Syncs) <=> In(toModem, Syncs)
    BY <1>0, <2>1, <2>2, KindsAppend
  <2>7. /\ Before(toModem, R, W) /\ h \notin R => Before(Append(toModem, h), R, W)
        /\ Before(toModem, W, R) /\ ~(In(toModem, R) /\ h \in W) => Before(Append(toModem, h), W, R)
        /\ Before(toModem, Syncs, W) => Before(Append(toModem, h), Syncs, W)
        /\ Apart(toModem, R, W) /\ (h \in R => Before(toModem, W, R)) => Apart(Append(toModem, h), R, W)
    BY <1>0, <2>1, <2>2, KindsAppend
  <2>8. /\ h \in R => In(queue, E)
        /\ Owing(t)' => Owing(t)
    <3>1. h \in R => In(queue, E)
      BY <1>2, <2>3, <2>4
    <3> QED BY <1>1, <1>2, <1>5, <2>6, <3>1 DEF Owing, R, E
  <2>9. NotOwed(t)' /\ Synced(t)'
    BY <1>1, <1>5, <2>6, <2>7, <2>8 DEF Safe, NotOwed, Synced, W
  <2>10. CASE h \in R
    <3>1. h \notin W /\ In(queue, E) /\ Before(toModem, W, R)
      BY <2>2, <2>8, <2>10 DEF Safe, Spaced, R, W, E
    <3>2. \A d \in Clients : ~Back(d, t)
      BY <3>1 DEF Safe, OneDebt, E
    <3>3. ~Later(t)'
      BY <1>2, <2>3, <2>4, <2>10 DEF Safe, OneDebt, Later, E
    <3>4. Repeated(t)'
      <4> SUFFICES ASSUME Owing(t)', present', ~Given(t)'
                   PROVE  /\ In(queue', E) => ~In(toModem', W)
                          /\ Before(toModem', R, W)
        BY <1>1, <3>2 DEF Repeated, R, W, E
      <4>1. ~In(toModem, W)
        BY <1>1, <2>8, <3>1 DEF Safe, Repeated, W, E
      <4>2. ~In(toModem', W)
        BY <1>5, <2>6, <3>1, <4>1
      <4> QED BY <4>2 DEF Before, In
    <3>5. OneDebt(t)'
      BY <1>1, <1>2, <3>2, <3>3 DEF Safe, OneDebt, E
    <3>6. Spaced(t)'
      BY <1>5, <2>7, <3>1 DEF Safe, Spaced, R, W
    <3> QED BY <2>9, <3>4, <3>5, <3>6
  <2>11. CASE h \notin R
    <3>1. In(queue', E) => ~In(toModem, R) /\ (present => Given(t))
      BY <2>5, <2>11 DEF Safe, OneDebt, R
    <3>2. Repeated(t)'
      BY <1>1, <1>5, <2>6, <2>7, <2>8, <2>11, <3>1 DEF Safe, Repeated, R, W, E
    <3>3. OneDebt(t)'
      BY <1>1, <1>2, <1>3, <1>5, <2>6, <2>11 DEF Safe, OneDebt, R, E
    <3>4. Spaced(t)'
      BY <1>2, <1>5, <2>7, <2>11, <3>1 DEF Safe, Spaced, R, W, E
    <3> QED BY <2>9, <3>2, <3>3, <3>4
  <2> QED BY <2>10, <2>11
<1> QED BY <1>4, <1>5

\* A message is received only if every connection it is written to is still up.
LEMMA WrittenUp ==
  ASSUME Receives, server
  PROVE  /\ Head(fromModem).svc # CTL => \A c \in Clients : Concerns(Head(fromModem), c) => link[c] = "up"
         /\ Head(fromModem).svc = CTL /\ Popped(Head(fromModem)) /\ Receiver \in Clients /\ Connected(Receiver)
              => link[Receiver] = "up"
<1> DEFINE m == Head(fromModem)
<1>1. fromModem # <<>> /\ \A c \in Addressees(m) : link[c] # "left"
  BY DEF Receives, RecvQmi, Breaks
<1>2. \A c \in Clients : Connected(c) /\ link[c] # "left" => link[c] = "up"
  BY DEF Connected
<1> HIDE DEF m
<1>3. m.svc # CTL => \A c \in Clients : Concerns(m, c) => c \in Addressees(m) /\ Connected(c)
  BY DEF Addressees, Concerns
<1>4. m.svc = CTL /\ Popped(m) /\ Receiver \in Clients /\ Connected(Receiver) => Receiver \in Addressees(m)
  BY DEF Addressees
<1> QED BY <1>1, <1>2, <1>3, <1>4 DEF m

\* What the modem says to main or to services, which gives and takes no id.
LEMMA RecvOtherLess ==
  ASSUME TypeInv, \A d \in Clients : Fresh(d), Receives, UNCHANGED clientVars,
         ~server \/ Head(fromModem).svc # CTL
  PROVE  (\A d \in Clients : Fresh(d)') /\ \A t \in Tokens : Less(t)
<1> DEFINE m == Head(fromModem)
<1>0. UNCHANGED runVars /\ Bus /\ Traffic /\ fromModem \in Seq(Told)
  BY DEF clientVars, TypeInv, Traffic
<1>1. /\ fromModem # <<>> /\ fromModem' = Tail(fromModem)
      /\ (~server /\ RecvInit(m)) \/ (server /\ m.svc # CTL /\ RecvService(m))
      /\ UNCHANGED <<link, up, loop, present, used>>
  BY DEF Receives, RecvQmi
<1>7. server /\ m.svc # CTL => \A c \in Clients : Concerns(m, c) => link[c] = "up"
  BY WrittenUp
<1>2. UNCHANGED <<toModem, queue, reg>>
  BY <1>1 DEF RecvInit, RecvService
<1>3. m \in Told
  BY <1>0, <1>1, TailSeq
<1> HIDE DEF m
<1>4. \A t : m.svc # CTL => m \notin Gifts(t)
  BY <1>3 DEF Told, Answers, Notices, OfProcess, OfProxy, Gifts
<1>5. ASSUME NEW d \in Clients
      PROVE  Fresh(d)' /\ \A t \in Tokens : Lessens(d, t)
  <2>1. CASE down'[d] = down[d]
    BY <1>0, <1>1, <1>2, <2>1, SocketSame
  <2>2. CASE m.svc # CTL /\ link[d] = "up" /\ down'[d] = Append(down[d], m)
    <3>1. /\ phase'[d] = phase[d] /\ svc'[d] = svc[d] /\ step'[d] = step[d] /\ rsp'[d] = rsp[d]
          /\ ids'[d] = ids[d] /\ tid'[d] = tid[d] /\ down[d] \in Seq(Told)
      BY <1>0 DEF runVars, Traffic
    <3>2. Fresh(d)'
      BY <1>1, <2>2, <3>1 DEF Fresh
    <3>3. ASSUME NEW t \in Tokens PROVE Lessens(d, t)
      <4>1. /\ In(down'[d], Gifts(t)) <=> In(down[d], Gifts(t))
            /\ Once(down[d], Gifts(t)) => Once(down'[d], Gifts(t))
        <5>1. /\ In(Append(down[d], m), Gifts(t)) <=> In(down[d], Gifts(t)) \/ m \in Gifts(t)
              /\ Once(down[d], Gifts(t)) /\ ~(In(down[d], Gifts(t)) /\ m \in Gifts(t))
                 => Once(Append(down[d], m), Gifts(t))
          BY <1>3, <3>1, KindsAppend
        <5> QED BY <1>4, <2>2, <5>1
      <4>2. /\ Keeps(d, t)' <=> Keeps(d, t)
            /\ Got(d, t)' <=> Got(d, t)
            /\ Coming(d, t)' <=> Coming(d, t)
            /\ Back(d, t)' <=> Back(d, t)
        BY <1>1, <3>1, <4>1 DEF Keeps, Got, Coming, Back
      <4>3. Single(d, t) => Single(d, t)'
        BY <4>1, <4>2 DEF Single
      <4> QED BY <1>1, <1>2, <4>2, <4>3 DEF Lessens, Holds
    <3> QED BY <3>2, <3>3
  <2>3. down'[d] = down[d] \/ (m.svc # CTL /\ link[d] = "up" /\ down'[d] = Append(down[d], m))
    BY <1>1, <1>7 DEF RecvInit, RecvService
  <2> QED BY <2>1, <2>2, <2>3
<1>6. \A t : Thins(fromModem, fromModem', t)
  BY <1>0, <1>1, ThinTail
<1> QED BY <1>1, <1>2, <1>5, <1>6, ThinSame DEF Less, Later, Given

\* An answer of the modem to a process, or to one that was there.
LEMMA RecvCtlSafe ==
  ASSUME TypeInv, \A d \in Clients : Fresh(d), Receives, UNCHANGED clientVars,
         server, Head(fromModem).svc = CTL
  PROVE  (\A d \in Clients : Fresh(d)') /\ \A t \in Tokens : Safe(t) => Safe(t)'
<1> DEFINE m == Head(fromModem)
           next == IF Popped(m) THEN Tail(queue) ELSE queue
           to == Popped(m) /\ Connected(Receiver)
<1>0. /\ UNCHANGED runVars /\ Bus /\ Traffic /\ Prepares /\ fromModem \in Seq(Told) /\ queue \in Seq(Entry)
  BY DEF clientVars, TypeInv, Traffic
<1>1. /\ fromModem # <<>> /\ fromModem' = Tail(fromModem) /\ RecvCtl(m)
      /\ UNCHANGED <<link, up, loop, present, used>>
  BY DEF Receives, RecvQmi
<1>2. /\ down' = IF to THEN [down EXCEPT ![Receiver] = Append(@, m)] ELSE down
      /\ reg' = IF to THEN Registration(m) ELSE reg
      /\ queue' = next
      /\ toModem' = toModem \/ (next # <<>> /\ toModem' = Append(toModem, Head(next).m))
  BY <1>1 DEF RecvCtl
<1>3. m \in Told
  BY <1>0, <1>1, TailSeq
<1>4. /\ queue' = queue \/ (queue # <<>> /\ queue' = Tail(queue))
      /\ to => Receiver \in Clients /\ queue # <<>> /\ link[Receiver] = "up"
  <2>1. queue # <<>> => Receiver \in Clients
    BY <1>0, TailSeq, MessageTypes DEF Receiver
  <2>2. m.svc = CTL /\ Popped(m) /\ Receiver \in Clients /\ Connected(Receiver) => link[Receiver] = "up"
    BY WrittenUp
  <2> QED BY <1>2, <2>1, <2>2 DEF Popped
<1>5. toModem' = toModem \/ (queue' # <<>> /\ toModem' = Append(toModem, Head(queue').m))
  BY <1>2
<1> HIDE DEF m, next
<1>6. ASSUME NEW d \in Clients
      PROVE  /\ \/ down'[d] = down[d]
                \/ to /\ d = Receiver /\ link[d] = "up" /\ down'[d] = Append(down[d], m)
             /\ to /\ link[Receiver] = "up" /\ d = Receiver => down'[d] = Append(down[d], m)
             /\ reg'[d] = IF to THEN Registration(m)[d] ELSE reg[d]
             /\ phase'[d] = phase[d] /\ svc'[d] = svc[d] /\ step'[d] = step[d] /\ rsp'[d] = rsp[d]
             /\ ids'[d] = ids[d] /\ tid'[d] = tid[d] /\ down[d] \in Seq(Told)
  <2>1. /\ phase'[d] = phase[d] /\ svc'[d] = svc[d] /\ step'[d] = step[d] /\ rsp'[d] = rsp[d]
        /\ ids'[d] = ids[d] /\ tid'[d] = tid[d] /\ down[d] \in Seq(Told)
    BY <1>0 DEF runVars, Traffic
  <2>2. reg'[d] = IF to THEN Registration(m)[d] ELSE reg[d]
    BY <1>2
  <2> HIDE DEF to
  <2>3. CASE to /\ link[Receiver] = "up" /\ d = Receiver
    BY <1>0, <1>2, <2>1, <2>2, <2>3 DEF Traffic
  <2>4. CASE ~(to /\ link[Receiver] = "up" /\ d = Receiver)
    BY <1>0, <1>2, <1>4, <2>1, <2>2, <2>4 DEF Traffic
  <2> QED BY <2>3, <2>4
<1> HIDE DEF to
<1>7. ASSUME NEW d \in Clients
      PROVE  Fresh(d)'
  BY <1>1, <1>6 DEF Fresh
<1>8. ASSUME NEW t \in Tokens, Safe(t)
      PROVE  HeldByOne(t)' /\ (Out(t)' => Out(t))
  <2> DEFINE G == Gifts(t)
             R == Returns(t)
  <2>1. /\ In(fromModem, G) <=> m \in G \/ In(fromModem', G)
        /\ In(fromModem, R) <=> m \in R \/ In(fromModem', R)
        /\ Once(fromModem, G) => Once(fromModem', G) /\ ~(m \in G /\ In(fromModem', G))
        /\ Before(fromModem, R, G) => Before(fromModem', R, G) /\ ~(m \in G /\ In(fromModem, R))
    BY <1>0, <1>1, KindsTail DEF m
  <2>2. ASSUME NEW d \in Clients
        PROVE  /\ In(Append(down[d], m), G) <=> In(down[d], G) \/ m \in G
               /\ Once(down[d], G) /\ ~(In(down[d], G) /\ m \in G) => Once(Append(down[d], m), G)
    BY <1>3, <1>6, KindsAppend
  <2>3. ASSUME NEW d \in Clients
        PROVE  /\ Keeps(d, t)' <=> Keeps(d, t)
               /\ Got(d, t)' <=> Got(d, t)
               /\ Back(d, t)' <=> Back(d, t)
    BY <1>1, <1>6 DEF Keeps, Got, Back
  <2>4. CASE m \notin G
    <3>1. ASSUME NEW d \in Clients
          PROVE  Lessens(d, t)
      <4>1. /\ In(down'[d], G) <=> In(down[d], G)
            /\ Once(down[d], G) => Once(down'[d], G)
        BY <1>6, <2>2, <2>4
      <4>2. Coming(d, t)' <=> Coming(d, t)
        BY <1>1, <4>1 DEF Coming
      <4>3. Single(d, t) => Single(d, t)'
        BY <2>3, <4>1, <4>2 DEF Single
      <4>4. Holds(d, t) /\ t \in reg[d] => t \in reg'[d]
        <5> SUFFICES ASSUME Holds(d, t), t \in reg[d], to PROVE t \in Registration(m)[d]
          BY <1>6
        <5>1. m \notin R
          BY <1>8, <2>1 DEF Safe, Answered
        <5>2. m.msg \in {"release", "revoke"} => <<m.of, m.id>> # t
          <6>1. t = <<t[1], t[2]>> /\ t[1] # 0
            BY GiftsAre, SizesAssumption DEF SizesAssumption
          <6>2. m.msg = "revoke" => m.of = 0
            BY <1>3 DEF Told, Answers, Notices, OfProcess, OfProxy
          <6>3. m \in Message
            BY <1>3, MessageTypes
          <6> QED BY <5>1, <6>1, <6>2, <6>3 DEF Returns
        <5>3. CASE m.msg = "get" /\ m.ok
          BY <1>0, <1>4, <5>3 DEF Registration, Prepares
        <5>4. CASE m.msg \in {"release", "revoke"} /\ m.ok
          BY <1>0, <1>4, <5>2, <5>4 DEF Registration, Prepares
        <5>5. CASE ~(m.msg = "get" /\ m.ok) /\ ~(m.msg \in {"release", "revoke"} /\ m.ok)
          BY <5>5 DEF Registration
        <5> QED BY <5>3, <5>4, <5>5
      <4> QED BY <1>1, <2>3, <4>2, <4>3, <4>4 DEF Lessens, Holds
    <3>2. LessHeld(t)
      BY <1>0, <1>1, <3>1, ThinTail DEF LessHeld, Given
    <3> QED BY <1>8, <3>2, HoldersLess
  <2>5. CASE m \in G
    <3>1. /\ In(fromModem, G) /\ ~In(fromModem', G) /\ ~In(fromModem', R) /\ Before(fromModem', R, G)
          /\ Once(fromModem', G) /\ Out(t)
          /\ \A d \in Clients : ~Holds(d, t) /\ Single(d, t)
      BY <1>8, <2>1, <2>5 DEF Safe, OneHolder, Answered, Out
    <3>2. ASSUME NEW d \in Clients
          PROVE  /\ Holds(d, t)' => to /\ d = Receiver
                 /\ Single(d, t)'
      <4>1. ~Keeps(d, t)' /\ ~Got(d, t)' /\ ~Coming(d, t) /\ Once(down[d], G)
        BY <2>3, <3>1 DEF Holds, Single
      <4>2. Once(down'[d], G)
        BY <1>6, <2>2, <4>1 DEF Coming
      <4>3. Coming(d, t)' => to /\ d = Receiver
        BY <1>1, <1>6, <4>1 DEF Coming
      <4> QED BY <4>1, <4>2, <4>3 DEF Holds, Single
    <3>3. ASSUME NEW d \in Clients, Holds(d, t)'
          PROVE  t \in reg'[d]
      <4>1. m.msg = "get" /\ m.ok /\ <<m.of, m.id>> = t
        BY <2>5, GiftsAre DEF Gifts
      <4>2. to /\ d = Receiver
        BY <3>2, <3>3
      <4> QED BY <1>0, <1>6, <4>1, <4>2 DEF Registration, Prepares
    <3>4. OneHolder(t)' /\ Answered(t)' /\ Known(t)'
      BY <3>1, <3>2, <3>3 DEF OneHolder, Answered, Known
    <3>5. NotFree(t)'
      BY <1>1, <1>8, <3>1 DEF Safe, NotFree, Given
    <3> QED BY <3>1, <3>4, <3>5 DEF HeldByOne
  <2> QED BY <2>4, <2>5
<1>9. ASSUME NEW t \in Tokens, Safe(t)
      PROVE  Safe(t)'
  <2>1. HeldByOne(t)' /\ (Out(t)' => Out(t)) /\ (Given(t)' <=> Given(t))
    BY <1>1, <1>8, <1>9 DEF Given
  <2>2. NotOwed(t)' /\ Repeated(t)' /\ OneDebt(t)' /\ Spaced(t)' /\ Synced(t)'
    BY <1>1, <1>4, <1>5, <1>9, <2>1, SendsNext
  <2> QED BY <2>1, <2>2 DEF Safe, HeldByOne
<1> QED BY <1>7, <1>9

LEMMA LoopBooks ==
  ASSUME TypeInv, \A d \in Clients : Fresh(d), ProxyLoop, UNCHANGED clientVars
  PROVE  (\A d \in Clients : Fresh(d)') /\ \A t \in Tokens : Safe(t) => Safe(t)'
<1>1. CASE Receives
  BY <1>1, RecvOtherLess, RecvCtlSafe, LessIsSafe
<1>2. CASE LoopReset \/ LoopEnds
  BY <1>2, LoopEndsLess, LessIsSafe
<1>4. CASE BrokenPipe
  BY <1>4, BrokenPipeLess, LessIsSafe
<1>3. ASSUME NEW c \in Clients, Accept(c) \/ Cleanup(c) \/ ReadClient(c)
      PROVE  (\A d \in Clients : Fresh(d)') /\ \A t \in Tokens : Safe(t) => Safe(t)'
  BY <1>3, AcceptLess, CleanupLess, ReadClientSafe, LessIsSafe
<1> QED BY <1>1, <1>2, <1>3, <1>4 DEF ProxyLoop

-----------------------------------------------------------------------------
(* The modem, and the preparation.                                         *)

\* What gives or takes an id of the processes is ours.
LEMMA KindsOurs ==
  ASSUME NEW t \in Tokens
  PROVE  /\ \A m \in Told : m \in Gifts(t) => Ours(m)
         /\ \A m \in Asked : m \in Returns(t) \/ m \in Wishes(t) => Ours(m)
         /\ \A m \in FromProxy : m \notin Gifts(t) /\ m \notin Returns(t) /\ m \notin Wishes(t)
<1>1. /\ t[1] \in 1 .. Services /\ Services \in Nat \ {0} /\ WDA = Services + 1
      /\ 2 * Services + 1 < FirstTid /\ FirstTid \in Nat
  BY GiftsAre, SizesAssumption, TidsAssumption DEF SizesAssumption, TidsAssumption, WDA, FirstTid
<1>2. ASSUME NEW m \in Told, m \in Gifts(t) PROVE Ours(m)
  <2>1. m.msg = "get" /\ m.flag = "rsp" /\ m.of = t[1] /\ (OfProcess(m) \/ OfProxy(m))
    BY <1>2 DEF Gifts, Told, Answers, Notices
  <2>2. OfProcess(m)
    BY <1>1, <2>1 DEF OfProxy
  <2>3. m.svc = CTL /\ m.tid = m.of + 1
    BY <2>1, <2>2 DEF OfProcess
  <2> QED BY <1>1, <2>1, <2>3 DEF Ours, OfClient
<1>3. ASSUME NEW m \in FromProxy PROVE m \notin Gifts(t) /\ m \notin Returns(t) /\ m \notin Wishes(t)
  BY <1>1, <1>3 DEF FromProxy, OfProxy, Gifts, Returns, Wishes
<1>4. ASSUME NEW m \in Asked, m \in Returns(t) \/ m \in Wishes(t) PROVE Ours(m)
  BY <1>3, <1>4, KindsAre DEF Asked
<1> QED BY <1>2, <1>3, <1>4

LEMMA PrepareSafe ==
  ASSUME TypeInv, Wired, \A d \in Clients : Fresh(d), Prepare, UNCHANGED clientVars
  PROVE  (\A d \in Clients : Fresh(d)') /\ \A t \in Tokens : Safe(t) => Safe(t)'
<1>0. /\ UNCHANGED runVars /\ Bus /\ Traffic /\ Prepares
      /\ toModem \in Seq(Asked) /\ fromModem \in Seq(Told)
  BY DEF clientVars, TypeInv, Traffic
<1>1. /\ mode = "init" /\ stage < 5
      /\ toModem' = toModem \/ toModem' = Append(toModem, Preparation)
      /\ UNCHANGED <<link, up, down, fromModem, present, used, queue, reg, loop>>
  BY DEF Prepare
<1>2. ~server /\ Preparation \in FromProxy /\ Preparation \in Asked
  BY <1>0, <1>1, PreparationType DEF Prepares, Preparing, Asked
<1>3. /\ \A d \in Clients : link[d] \in {"free", "cut"}
      /\ queue = <<>> /\ ~Has(toModem) /\ ~Has(fromModem)
  BY <1>2 DEF Wired
<1>4. ASSUME NEW d \in Clients
      PROVE  Fresh(d)' /\ \A t \in Tokens : Lessens(d, t)
  BY <1>0, <1>1, SocketSame
<1>5. ASSUME NEW t \in Tokens, Safe(t)
      PROVE  Safe(t)'
  <2> DEFINE x == Preparation
  <2>1. x \notin Gifts(t) /\ x \notin Returns(t) /\ x \notin Wishes(t)
    BY <1>2, KindsOurs
  <2>2. ~In(toModem, Returns(t)) /\ ~In(toModem, Wishes(t)) /\ ~In(fromModem, Gifts(t))
    BY <1>0, <1>3, KindsOurs, ElementOfSeq DEF In, Has
  <2>3. \A d \in Clients : ~Holds(d, t) /\ ~Back(d, t) /\ ~Back(d, t)'
    BY <1>1, <1>3 DEF Holds, Keeps, Got, Coming, Back
  <2>4. ~In(queue, Entries(t))
    BY <1>3, KindsEmpty
  <2> HIDE DEF x
  <2>5. /\ ~In(toModem', Returns(t)) /\ ~In(toModem', Wishes(t))
        /\ Apart(toModem, Returns(t), Wishes(t)) => Apart(toModem', Returns(t), Wishes(t))
    <3>1. /\ In(Append(toModem, x), Returns(t)) <=> In(toModem, Returns(t)) \/ x \in Returns(t)
          /\ In(Append(toModem, x), Wishes(t)) <=> In(toModem, Wishes(t)) \/ x \in Wishes(t)
          /\ Apart(toModem, Returns(t), Wishes(t)) /\ x \notin Returns(t)
             => Apart(Append(toModem, x), Returns(t), Wishes(t))
      BY <1>0, <1>2, KindsAppend DEF x
    <3> QED BY <1>1, <2>1, <2>2, <3>1 DEF x
  <2>6. ~Out(t) /\ ~Owing(t)'
    BY <1>1, <2>2, <2>3, <2>4, <2>5 DEF Out, Owing
  <2>7. HeldByOne(t)' /\ (Out(t)' => Out(t))
    <3>1. LessHeld(t)
      BY <1>1, <1>4, ThinSame DEF LessHeld, Given
    <3> QED BY <1>5, <3>1, HoldersLess
  <2>8. NotOwed(t)' /\ Repeated(t)' /\ Synced(t)'
    BY <2>5, <2>6, <2>7 DEF NotOwed, Repeated, Synced, Before, In
  <2>9. OneDebt(t)' /\ Spaced(t)'
    BY <1>1, <1>3, <1>5, <2>3, <2>4, <2>5 DEF Safe, OneDebt, Spaced, Later
  <2> QED BY <2>7, <2>8, <2>9 DEF Safe, HeldByOne
<1> QED BY <1>4, <1>5

LEMMA UnplugSafe ==
  ASSUME TypeInv, NEW t, Safe(t), Unplug, UNCHANGED <<clientVars, proxyVars>>
  PROVE  Safe(t)'
<1>1. /\ present' = FALSE /\ toModem' = <<>> /\ fromModem' = <<>>
      /\ UNCHANGED <<link, up, down, queue, reg, loop, runVars>>
  BY DEF Unplug, clientVars, proxyVars
<1>2. \A d \in Clients : /\ Holds(d, t)' <=> Holds(d, t)
                         /\ Single(d, t)' <=> Single(d, t)
                         /\ Back(d, t)' <=> Back(d, t)
  BY <1>1 DEF Holds, Single, Keeps, Got, Coming, Back, runVars
<1>3. /\ ~In(toModem', Returns(t)) /\ ~In(toModem', Syncs) /\ ~In(fromModem', Returns(t))
      /\ ~In(fromModem', Gifts(t)) /\ Once(fromModem', Gifts(t))
      /\ Before(fromModem', Returns(t), Gifts(t)) /\ Before(toModem', Wishes(t), Returns(t))
      /\ Apart(toModem', Returns(t), Wishes(t))
  BY <1>1, KindsEmpty
<1>4. (Out(t)' => Out(t)) /\ (Owing(t)' => Owing(t))
  BY <1>1, <1>2, <1>3 DEF Out, Owing
<1>5. OneHolder(t)' /\ Answered(t)' /\ Known(t)'
  BY <1>1, <1>2, <1>3 DEF Safe, OneHolder, Answered, Known
<1>6. NotFree(t)' /\ NotOwed(t)' /\ Repeated(t)' /\ Synced(t)'
  BY <1>1, <1>3, <1>4 DEF Safe, NotFree, NotOwed, Repeated, Synced
<1>7. OneDebt(t)' /\ Spaced(t)'
  BY <1>1, <1>2, <1>3 DEF Safe, OneDebt, Spaced
<1> QED BY <1>5, <1>6, <1>7 DEF Safe

LEMMA ReplugSafe ==
  ASSUME TypeInv, Wired, \A d \in Clients : Fresh(d), NEW t \in Tokens, Safe(t), Replug,
         UNCHANGED <<clientVars, proxyVars>>
  PROVE  Safe(t)'
<1>1. /\ ~loop /\ ~present
      /\ UNCHANGED <<link, up, down, toModem, fromModem, used, queue, reg, runVars>>
  BY DEF Replug, Plug, clientVars, proxyVars
<1>2. /\ queue = <<>> /\ toModem = <<>> /\ fromModem = <<>> /\ \A d \in Clients : link[d] # "up"
  BY <1>1 DEF Wired
<1>3. \A d \in Clients : ~Holds(d, t)' /\ ~Back(d, t)' /\ (Single(d, t)' <=> Single(d, t))
  BY <1>1, <1>2 DEF Holds, Single, Keeps, Got, Coming, Back, runVars, Fresh
<1>4. ~Out(t)' /\ ~Owing(t)' /\ ~In(queue', Entries(t)) /\ ~In(toModem', Syncs) /\ ~In(fromModem', Gifts(t))
  BY <1>1, <1>2, <1>3, KindsEmpty DEF Out, Owing
<1>5. OneHolder(t)' /\ Answered(t)' /\ Known(t)'
  BY <1>1, <1>3, <1>4 DEF Safe, OneHolder, Answered, Known
<1>6. NotFree(t)' /\ NotOwed(t)' /\ Repeated(t)' /\ Synced(t)'
  BY <1>4 DEF NotFree, NotOwed, Repeated, Synced
<1>7. OneDebt(t)' /\ Spaced(t)'
  BY <1>1, <1>2, <1>3, <1>4 DEF Safe, OneDebt, Spaced, Later
<1> QED BY <1>5, <1>6, <1>7 DEF Safe

\* What an answer gives or takes, and what serving the request does to the ids.
LEMMA ServeKinds ==
  ASSUME TypeInv, Serve, NEW t \in Tokens, NEW ok \in BOOLEAN, NEW id \in 0 .. MaxId, Yields(ok, id)
  PROVE  LET r == Reply(Now, ok, id)
         IN  /\ r \in Told /\ r \notin Wishes(t) /\ r \notin Syncs
             /\ r \in Gifts(t) => Now \in Wishes(t) /\ r \notin Returns(t) /\ ~Given(t) /\ Given(t)'
             /\ r \in Returns(t) <=> Now \in Returns(t)
             /\ Now \in Returns(t) => ~Given(t)'
             /\ Now \in Syncs => r \notin Gifts(t) /\ Now \notin Returns(t) /\ ~Given(t)'
             /\ r \notin Gifts(t) /\ Now \notin Returns(t) /\ Now \notin Syncs => (Given(t)' <=> Given(t))
<1> DEFINE r == Reply(Now, ok, id)
<1>0. Now \in Asked /\ Now \in Message /\ Now.flag = "req"
  BY ServeIs, MessageTypes DEF Asked, FromProcess, FromProxy
<1>1. /\ Now.msg \in {"release", "work"} => Now.id # 0 /\ id = Now.id
      /\ Now.msg = "get" /\ ok => id # 0
      /\ Now.msg = "get" /\ ok /\ Now.of # WDA => id \notin used[Now.of]
  BY <1>0 DEF Yields, Asked, FromProcess, FromProxy, OfProcess, OfProxy
<1>2. /\ r \in Told /\ r.msg = Now.msg /\ r.of = Now.of /\ r.id = id /\ r.ok = ok /\ r.flag = "rsp"
      /\ r \in Message
  BY <1>0, <1>1, ReplyType, MessageTypes
<1> HIDE DEF r
<1>3. /\ t[1] \in 1 .. Services /\ t[2] \in 1 .. MaxId /\ t[1] # WDA
      /\ used \in [1 .. Services -> SUBSET (1 .. MaxId)]
  BY GiftsAre, SizesAssumption DEF SizesAssumption, WDA, TypeInv, Bus
<1>4. r \notin Wishes(t) /\ r \notin Syncs
  BY <1>2 DEF Wishes, Syncs
<1>5. r \in Gifts(t) <=> Now.msg = "get" /\ ok /\ Now.of = t[1] /\ id = t[2]
  BY <1>2 DEF Gifts
<1>6. Now \in Returns(t) <=> Now.msg = "release" /\ Now.of = t[1] /\ Now.id = t[2]
  BY <1>0 DEF Returns
<1>7. r \in Returns(t) <=> Now \in Returns(t)
  BY <1>1, <1>2, <1>6 DEF Returns
<1>8. Now \in Syncs <=> Now.msg = "sync"
  BY <1>0 DEF Syncs
<1>9. used' = CASE Now.msg = "sync" -> [s \in 1 .. Services |-> {}]
                [] Now.msg = "get" /\ ok /\ Now.of # WDA -> [used EXCEPT ![Now.of] = @ \cup {id}]
                [] Now.msg = "release" -> [used EXCEPT ![Now.of] = @ \ {id}]
                [] OTHER -> used
  BY DEF Yields
<1>10. CASE Now.msg = "sync"
  <2>1. used' = [s \in 1 .. Services |-> {}]
    BY <1>9, <1>10
  <2>2. ~Given(t)'
    BY <1>3, <2>1 DEF Given
  <2> QED BY <1>2, <1>4, <1>5, <1>6, <1>7, <1>8, <1>10, <2>2 DEF r
<1>11. CASE Now.msg = "get" /\ ok /\ Now.of # WDA
  <2>1. used' = [used EXCEPT ![Now.of] = @ \cup {id}]
    BY <1>9, <1>11
  <2>2. Given(t)' <=> Given(t) \/ (Now.of = t[1] /\ id = t[2])
    BY <1>3, <2>1 DEF Given
  <2>3. r \in Gifts(t) => Now \in Wishes(t) /\ ~Given(t)
    BY <1>0, <1>1, <1>5, <1>11 DEF Wishes, Given
  <2> QED BY <1>2, <1>4, <1>5, <1>6, <1>7, <1>8, <1>11, <2>2, <2>3 DEF r
<1>12. CASE Now.msg = "release"
  <2>1. used' = [used EXCEPT ![Now.of] = @ \ {id}] /\ id = Now.id
    BY <1>1, <1>9, <1>12
  <2>2. Given(t)' <=> Given(t) /\ ~(Now.of = t[1] /\ Now.id = t[2])
    BY <1>3, <2>1 DEF Given
  <2> QED BY <1>2, <1>4, <1>5, <1>6, <1>7, <1>8, <1>12, <2>2 DEF r
<1>13. CASE Now.msg # "sync" /\ ~(Now.msg = "get" /\ ok /\ Now.of # WDA) /\ Now.msg # "release"
  <2>1. used' = used
    BY <1>9, <1>13
  <2>2. Given(t)' <=> Given(t)
    BY <2>1 DEF Given
  <2> QED BY <1>2, <1>3, <1>4, <1>5, <1>6, <1>7, <1>8, <1>13, <2>2 DEF r
<1> QED BY <1>10, <1>11, <1>12, <1>13

LEMMA ServeSafe ==
  ASSUME TypeInv, NEW t \in Tokens, Safe(t), Serve, UNCHANGED <<clientVars, proxyVars>>
  PROVE  Safe(t)'
<1> DEFINE G == Gifts(t)
           R == Returns(t)
           W == Wishes(t)
           E == Entries(t)
<1>1. PICK ok \in BOOLEAN, id \in 0 .. MaxId : Yields(ok, id)
  BY ServeIs
<1> DEFINE r == Reply(Now, ok, id)
<1>2. /\ toModem # <<>> /\ present /\ toModem' = Tail(toModem) /\ fromModem' = Append(fromModem, r)
      /\ toModem \in Seq(Asked) /\ fromModem \in Seq(Told)
      /\ UNCHANGED <<link, up, down, present, queue, reg, loop, runVars>>
  BY <1>1, ServeIs DEF Yields, TypeInv, Traffic, Serve, clientVars, proxyVars
<1>3. /\ r \in Told /\ r \notin W /\ r \notin Syncs
      /\ r \in G => Now \in W /\ r \notin R /\ ~Given(t) /\ Given(t)'
      /\ r \in R <=> Now \in R
      /\ Now \in R => ~Given(t)'
      /\ Now \in Syncs => r \notin G /\ Now \notin R /\ ~Given(t)'
      /\ r \notin G /\ Now \notin R /\ Now \notin Syncs => (Given(t)' <=> Given(t))
  BY <1>1, ServeKinds
<1>4. Now \in R => r \notin G
  BY <1>3 DEF Returns, Wishes
<1> HIDE DEF r
<1>5. ASSUME NEW d \in Clients
      PROVE  Lessens(d, t)
  BY <1>2, SocketSame
<1>6. Thins(toModem, toModem', t)
  BY <1>2, ThinTail
<1>7. /\ In(toModem', R) => In(toModem, R)
      /\ In(toModem', Syncs) => In(toModem, Syncs)
      /\ In(toModem', W) => In(toModem, W)
      /\ Before(toModem, W, R) => Before(toModem', W, R)
      /\ Apart(toModem, R, W) => Apart(toModem', R, W)
  BY <1>6 DEF Thins, Kinds
<1>8. /\ \A d \in Clients : /\ Holds(d, t)' <=> Holds(d, t)
                            /\ Single(d, t)' <=> Single(d, t)
                            /\ Back(d, t)' <=> Back(d, t)
      /\ Later(t)' <=> Later(t)
  BY <1>2 DEF Holds, Single, Keeps, Got, Coming, Back, Later, runVars
<1>9. /\ In(fromModem', G) <=> In(fromModem, G) \/ r \in G
      /\ Once(fromModem, G) /\ ~In(fromModem, G) => Once(fromModem', G)
      /\ Once(fromModem, G) /\ r \notin G => Once(fromModem', G)
      /\ Before(fromModem, R, G) /\ ~(In(fromModem, G) /\ r \in R) /\ ~(r \in R /\ r \in G)
         => Before(fromModem', R, G)
  <2>1. /\ In(Append(fromModem, r), G) <=> In(fromModem, G) \/ r \in G
        /\ Once(fromModem, G) /\ ~(In(fromModem, G) /\ r \in G) => Once(Append(fromModem, r), G)
        /\ Before(fromModem, R, G) /\ ~(In(fromModem, G) /\ r \in R) /\ ~(r \in R /\ r \in G)
           => Before(Append(fromModem, r), R, G)
    BY <1>2, <1>3, KindsAppend
  <2> QED BY <1>2, <2>1
<1>10. Known(t)'
  BY <1>2, <1>8 DEF Safe, Known
<1>11. Owing(t)' => Owing(t)
  BY <1>2, <1>7, <1>8 DEF Owing
<1>12. Spaced(t)'
  BY <1>2, <1>7 DEF Safe, Spaced
<1>13. CASE r \in G
  <2>1. Now \in W /\ ~Given(t) /\ Given(t)' /\ r \notin R
    BY <1>3, <1>13
  <2>2. ~Out(t)
    BY <1>2, <2>1 DEF Safe, NotFree
  <2>3. /\ Before(toModem, R, W) => ~In(toModem, R)
        /\ Before(toModem, Syncs, W) => ~In(toModem, Syncs)
        /\ In(toModem, W)
    BY <1>2, <2>1, KindsTail DEF Now
  <2>4. ~Owing(t)
    BY <1>2, <2>1, <2>3 DEF Safe, Repeated, Owing
  <2>5. ~In(toModem, Syncs)
    BY <2>3 DEF Safe, Synced
  <2>6. ~In(fromModem, G) /\ \A d \in Clients : ~Holds(d, t)'
    BY <1>8, <2>2 DEF Out
  <2>7. OneHolder(t)' /\ Answered(t)'
    BY <1>8, <1>9, <2>1, <2>6 DEF Safe, OneHolder, Answered
  <2>8. NotFree(t)' /\ NotOwed(t)' /\ Repeated(t)'
    BY <1>11, <2>1, <2>4 DEF NotFree, NotOwed, Repeated
  <2>9. OneDebt(t)'
    BY <1>2, <1>7, <1>8, <2>1 DEF Safe, OneDebt
  <2>10. Synced(t)'
    BY <1>7, <2>5 DEF Synced
  <2> QED BY <1>10, <1>12, <2>7, <2>8, <2>9, <2>10 DEF Safe
<1>14. CASE Now \in R
  <2>1. ~Given(t)' /\ r \in R /\ r \notin G
    BY <1>3, <1>4, <1>14
  <2>2. In(toModem, R) /\ (Before(toModem, W, R) => ~In(toModem, W))
    BY <1>2, <1>14, KindsTail DEF Now
  <2>3. R \cap W = {}
    BY DEF Returns, Wishes
  <2>4. Apart(toModem, R, W) => Before(toModem', R, W)
    BY <1>2, <1>14, <2>3, KindsTail DEF Now
  <2>5. Owing(t) /\ ~Out(t)
    BY <2>2 DEF Owing, Safe, NotOwed
  <2>6. ~In(fromModem, G) /\ \A d \in Clients : ~Holds(d, t)'
    BY <1>8, <2>5 DEF Out
  <2>7. OneHolder(t)' /\ Answered(t)' /\ ~Out(t)'
    BY <1>8, <1>9, <2>1, <2>6 DEF Safe, OneHolder, Answered, Out
  <2>8. ~Later(t) /\ \A d \in Clients : ~Back(d, t)
    BY <2>2 DEF Safe, OneDebt
  <2>9. Repeated(t)'
    BY <1>2, <1>7, <1>8, <2>2, <2>4, <2>8 DEF Safe, Spaced, Repeated
  <2>10. OneDebt(t)'
    BY <1>2, <1>8, <2>8 DEF Safe, OneDebt
  <2>11. NotFree(t)' /\ NotOwed(t)' /\ Synced(t)'
    BY <1>7, <2>5, <2>7 DEF NotFree, NotOwed, Safe, Synced
  <2> QED BY <1>10, <1>12, <2>7, <2>9, <2>10, <2>11 DEF Safe
<1>15. CASE Now \in Syncs
  <2>1. r \notin G /\ r \notin R
    BY <1>3, <1>15
  <2>2. In(toModem, Syncs)
    BY <1>2, <1>15, KindsTail DEF Now
  <2>3. ~Out(t) /\ ~Owing(t)
    BY <2>2 DEF Safe, Synced
  <2>4. ~In(fromModem, G) /\ \A d \in Clients : ~Holds(d, t)'
    BY <1>8, <2>3 DEF Out
  <2>5. OneHolder(t)' /\ Answered(t)' /\ ~Out(t)'
    BY <1>8, <1>9, <2>1, <2>4 DEF Safe, OneHolder, Answered, Out
  <2>6. NotFree(t)' /\ NotOwed(t)' /\ Repeated(t)'
    BY <1>11, <2>3, <2>5 DEF NotFree, NotOwed, Repeated
  <2>7. ~Later(t) /\ \A d \in Clients : ~Back(d, t)
    <3>1. Later(t) => In(queue, E)
      BY KindsTail DEF Later, TypeInv, Traffic
    <3> QED BY <2>3, <3>1 DEF Owing
  <2>8. OneDebt(t)'
    BY <1>2, <1>8, <2>7 DEF Safe, OneDebt
  <2>9. Synced(t)'
    <3>1. Synced(t) => ~Out(t)' /\ ~Owing(t)' /\ (Before(toModem, Syncs, W) => Before(toModem', Syncs, W))
      BY <1>6, <1>11, <2>3, <2>5 DEF Thins, Kinds
    <3> QED BY <2>2, <3>1 DEF Safe, Synced
  <2> QED BY <1>10, <1>12, <2>5, <2>6, <2>8, <2>9 DEF Safe
<1>16. CASE r \notin G /\ Now \notin R /\ Now \notin Syncs
  <2>1. \A A \in Kinds(t) : r \notin A
    BY <1>3, <1>16 DEF Kinds
  <2>2. Thins(fromModem, Append(fromModem, r), t)
    BY <1>2, <1>3, <2>1, ThinAppend
  <2>3. Given(t)' <=> Given(t)
    BY <1>3, <1>16
  <2>4. Less(t)
    BY <1>2, <1>5, <1>6, <1>8, <2>2, <2>3 DEF Less
  <2> QED BY <2>4, LessIsSafe
<1> QED BY <1>13, <1>14, <1>15, <1>16

LEMMA ModemBooks ==
  ASSUME TypeInv, Wired, \A d \in Clients : Fresh(d), ModemActs
  PROVE  /\ \A d \in Clients : Fresh(d)'
         /\ "reset" \notin odd' => \A t \in Tokens : Safe(t) => Safe(t)'
<1>0. /\ UNCHANGED <<clientVars, proxyVars>> /\ toModem \in Seq(Asked) /\ fromModem \in Seq(Told)
      /\ UNCHANGED <<runVars, queue, reg, loop>>
  BY DEF ModemActs, clientVars, proxyVars, TypeInv, Traffic
<1>1. UNCHANGED <<link, up, down>>
  BY DEF ModemActs, ModemStep, Serve, Lose, Announce, Reset, Unplug, Replug, Plug
<1>2. ASSUME NEW d \in Clients
      PROVE  Fresh(d)' /\ \A t : Lessens(d, t)
  BY <1>0, <1>1, SocketSame
<1>3. CASE Lose
  <2>1. toModem # <<>> /\ toModem' = Tail(toModem) /\ UNCHANGED <<present, fromModem, used>>
    BY <1>3 DEF Lose, Served
  <2>2. ASSUME NEW t \in Tokens
        PROVE  Less(t)
    BY <1>0, <1>2, <2>1, ThinTail, ThinSame DEF Less, Later, Given
  <2> QED BY <1>2, <2>2, LessIsSafe
<1>4. CASE Announce
  <2> DEFINE n == Notice("sync", "ind")
  <2>1. fromModem' = Append(fromModem, n) /\ UNCHANGED <<present, toModem, used>>
    BY <1>4 DEF Announce
  <2>2. n \in Told /\ n.msg = "sync" /\ n.flag = "ind"
    BY NoticeType
  <2> HIDE DEF n
  <2>3. ASSUME NEW t \in Tokens
        PROVE  Less(t)
    <3>1. \A A \in Kinds(t) : n \notin A
      BY <2>2 DEF Kinds, Gifts, Returns, Wishes, Syncs
    <3>2. Thins(fromModem, Append(fromModem, n), t)
      BY <1>0, <2>2, <3>1, ThinAppend
    <3> QED BY <1>0, <1>2, <2>1, <3>2, ThinSame DEF Less, Later, Given
  <2> QED BY <1>2, <2>3, LessIsSafe
<1>5. CASE Reset
  BY <1>2, <1>5 DEF Reset
<1>6. CASE Serve \/ Unplug \/ Replug
  BY <1>0, <1>2, <1>6, ServeSafe, UnplugSafe, ReplugSafe
<1> QED BY <1>3, <1>4, <1>5, <1>6 DEF ModemActs, ModemStep

-----------------------------------------------------------------------------
(* No two processes use the same client id.                                *)

\* What came between requests and answers is never forgotten.
LEMMA OddGrows ==
  ASSUME [Next]_vars
  PROVE  odd \subseteq odd'
<1>1. CASE UNCHANGED vars
  BY <1>1 DEF vars, transportVars
<1>2. ASSUME NEW c \in Clients, ClientStep(c) PROVE odd \subseteq odd'
  <2>1. CASE GivesUp(c)
    BY <2>1 DEF GivesUp
  <2>2. CASE Leaves(c)
    BY <2>2 DEF Leaves, Release, HangUp, Kill, Quiet, transportVars, Call
  <2>3. CASE Connect(c) \/ Call(c) \/ Receive(c) \/ Version(c) \/ GetClientId(c) \/ Work(c) \/ Worked(c)
    BY <2>3 DEF Connect, Call, Receive, Version, GetClientId, Work, Worked, Quiet, transportVars
  <2> QED BY <1>2, <2>1, <2>2, <2>3 DEF ClientStep
<1>3. CASE ProxyStep
  <2>1. CASE ProxyMain \/ Interrupt
    BY <2>1 DEF ProxyMain, Open, Prepare, Prepared, PrepareTimesOut, StartServer, Join, Exit, Interrupt, transportVars
  <2>2. CASE Receives
    BY <2>2 DEF Receives, RecvQmi, RecvInit, RecvCtl, RecvService
  <2>3. CASE LoopReset \/ LoopEnds \/ BrokenPipe
    BY <2>3 DEF LoopReset, LoopEnds, BrokenPipe
  <2>4. ASSUME NEW c \in Clients, Accept(c) \/ Cleanup(c) \/ ReadClient(c) PROVE odd \subseteq odd'
    BY <2>4 DEF Accept, Cleanup, ReadClient, SendQmi
  <2> QED BY <1>3, <2>1, <2>2, <2>3, <2>4 DEF ProxyStep, ProxyLoop
<1>4. CASE ModemActs
  BY <1>4 DEF ModemActs, ModemStep, Serve, Lose, Announce, Reset, Unplug, Replug, Plug
<1> QED BY <1>1, <1>2, <1>3, <1>4 DEF Next, Finished

LEMMA InitBooks == Init => Books
<1> SUFFICES ASSUME Init
             PROVE  (\A c \in Clients : Fresh(c)) /\ \A t \in Tokens : Safe(t)
  BY InitInStep DEF Books
<1>1. /\ link = [c \in Clients |-> "free"] /\ up = [c \in Clients |-> <<>>] /\ down = [c \in Clients |-> <<>>]
      /\ phase = [c \in Clients |-> "off"] /\ rsp = [c \in Clients |-> NoAnswer]
      /\ toModem = <<>> /\ fromModem = <<>> /\ queue = <<>>
  BY DEF Init, TransportInit, ClientInit, ProxyInit
<1>2. \A c \in Clients : Fresh(c)
  BY <1>1, KindsEmpty DEF Fresh
<1>3. ASSUME NEW t \in Tokens
      PROVE  Safe(t)
  <2>1. \A c \in Clients : ~Holds(c, t) /\ ~Back(c, t) /\ Single(c, t)
    BY <1>1, KindsEmpty DEF Holds, Single, Keeps, Got, Coming, Back
  <2>2. ~Out(t) /\ ~Owing(t) /\ ~Later(t) /\ ~In(queue, Entries(t)) /\ ~In(toModem, Syncs)
    BY <1>1, <2>1, KindsEmpty DEF Out, Owing, Later
  <2>3. /\ ~In(fromModem, Gifts(t)) /\ ~In(fromModem, Returns(t)) /\ Once(fromModem, Gifts(t))
        /\ Before(fromModem, Returns(t), Gifts(t)) /\ Once(queue, Entries(t))
        /\ Apart(toModem, Returns(t), Wishes(t))
    BY <1>1, KindsEmpty
  <2>4. OneHolder(t) /\ NotFree(t) /\ NotOwed(t) /\ Answered(t) /\ Repeated(t)
    BY <2>1, <2>2, <2>3 DEF OneHolder, NotFree, NotOwed, Answered, Repeated
  <2>5. OneDebt(t) /\ Spaced(t) /\ Synced(t) /\ Known(t)
    BY <2>1, <2>2, <2>3 DEF OneDebt, Spaced, Synced, Known
  <2> QED BY <2>4, <2>5 DEF Safe
<1> QED BY <1>2, <1>3

LEMMA BooksKept ==
  ASSUME Books, [Next]_vars
  PROVE  Books'
<1>0. /\ InStep' /\ TypeInv /\ Wired /\ (\A d \in Clients : Fresh(d))
      /\ "reset" \notin odd' => \A t \in Tokens : Safe(t)
  BY InStepKept, OddGrows DEF Books, InStep
<1> SUFFICES /\ \A d \in Clients : Fresh(d)'
             /\ "reset" \notin odd' => \A t \in Tokens : Safe(t) => Safe(t)'
  BY <1>0 DEF Books, Tokens
<1>1. CASE UNCHANGED vars
  <2>1. UNCHANGED <<link, up, down, toModem, fromModem, present, used, queue, reg, loop, runVars>>
    BY <1>1 DEF vars, transportVars, modemVars, clientVars, proxyVars
  <2>2. ASSUME NEW d \in Clients
        PROVE  Fresh(d)' /\ \A t : Lessens(d, t)
    BY <1>0, <2>1, SocketSame
  <2> QED BY <2>1, <2>2, SocketsLess, LessIsSafe
<1>2. ASSUME NEW c \in Clients, ClientStep(c)
      PROVE  (\A d \in Clients : Fresh(d)') /\ \A t \in Tokens : Safe(t) => Safe(t)'
  BY <1>0, <1>2, ClientBooks
<1>3. CASE ProxyStep
  <2>1. CASE Prepare
    BY <1>0, <1>3, <2>1, PrepareSafe DEF ProxyStep
  <2>2. CASE ~Prepare /\ (ProxyMain \/ Interrupt)
    BY <1>0, <1>3, <2>2, MainLess, LessIsSafe DEF ProxyStep
  <2>3. CASE ProxyLoop
    BY <1>0, <1>3, <2>3, LoopBooks DEF ProxyStep
  <2> QED BY <1>3, <2>1, <2>2, <2>3 DEF ProxyStep
<1>4. CASE ModemActs
  BY <1>0, <1>4, ModemBooks
<1> QED BY <1>1, <1>2, <1>3, <1>4 DEF Next, Finished

LEMMA BooksAreKept ==
  ASSUME Books
  PROVE  NoSharedClientId
<1> SUFFICES ASSUME NEW c \in Clients, NEW d \in Clients, NEW s \in 1 .. Services,
                    c # d, Uses(c, s), Uses(d, s), ids[c][s] = ids[d][s], "reset" \notin odd
             PROVE  FALSE
  BY DEF NoSharedClientId
<1> DEFINE t == <<s, ids[c][s]>>
<1>1. t \in Tokens
  <2>1. ids[c][s] \in 0 .. MaxId /\ ids[c][s] # 0
    BY DEF Books, InStep, TypeInv, Processes, IdSets, Uses
  <2> QED BY <2>1 DEF Tokens
<1>2. Holds(c, t) /\ Holds(d, t)
  BY DEF Holds, Keeps, Uses, Live
<1>3. Safe(t)
  BY <1>1 DEF Books
<1> HIDE DEF t
<1> QED BY <1>2, <1>3 DEF Safe, OneHolder

\* However the processes, the proxy's two threads and the modem interleave, whatever
\* requests are lost, given up or answered to the wrong process, two processes never
\* use the same client id of a service, as long as the modem remembers what it gave.
THEOREM NobodyShares == Spec => []NoSharedClientId
<1>1. Books /\ [Next]_vars => Books'
  BY BooksKept
<1> QED BY <1>1, InitBooks, BooksAreKept, PTL DEF Spec

-----------------------------------------------------------------------------
(* What a process holds is registered.                                     *)

\* The CTL request at the modem, or its answer, is of the kind the queue says.
AllAre(q, k) == \A i \in DOMAIN q : Ours(q[i]) => q[i].msg = k
Matched == Calm /\ loop /\ server /\ present /\ queue # <<>> =>
             AllAre(toModem, Head(queue).m.msg) /\ AllAre(fromModem, Head(queue).m.msg)

\* Only a process that is about to end has sent a release.
Backed(c) ==
  link[c] = "up" /\ phase[c] # "release" =>
    /\ \A i \in DOMAIN up[c] : up[c][i].msg # "release"
    /\ Calm => \A i \in DOMAIN queue : queue[i].fd = c => queue[i].m.msg # "release"

\* What a process holds before that is registered.
Listed(c, t) == Holds(c, t) /\ phase[c] # "release" => t \in reg[c]

Rolls == /\ Books /\ Matched /\ (\A c \in Clients : Backed(c))
         /\ Calm => \A c \in Clients, t \in Tokens : Listed(c, t)

LEMMA KindAppend ==
  ASSUME NEW S, NEW q \in Seq(S), NEW x \in S, NEW k
  PROVE  AllAre(q, k) /\ (Ours(x) => x.msg = k) => AllAre(Append(q, x), k)
<1>1. /\ DOMAIN Append(q, x) = 1 .. Len(q) + 1 /\ DOMAIN q = 1 .. Len(q) /\ Len(q) \in Nat
      /\ \A i \in 1 .. Len(q) : Append(q, x)[i] = q[i]
      /\ Append(q, x)[Len(q) + 1] = x
  BY AppendSeq
<1>2. \A i : i \in 1 .. Len(q) + 1 <=> i \in 1 .. Len(q) \/ i = Len(q) + 1
  BY <1>1
<1> HIDE DEF Ours
<1> QED BY <1>1, <1>2 DEF AllAre

LEMMA KindTail ==
  ASSUME NEW S, NEW q \in Seq(S), q # <<>>, NEW k
  PROVE  /\ AllAre(q, k) => AllAre(Tail(q), k) /\ (Ours(Head(q)) => Head(q).msg = k)
<1>1. /\ Head(q) = q[1] /\ Len(q) \in Nat \ {0}
      /\ DOMAIN Tail(q) = 1 .. Len(q) - 1 /\ DOMAIN q = 1 .. Len(q)
      /\ \A i \in 1 .. Len(q) - 1 : Tail(q)[i] = q[i + 1]
  BY TailSeq
<1>2. 1 \in 1 .. Len(q) /\ \A i \in 1 .. Len(q) - 1 : i + 1 \in 1 .. Len(q)
  BY <1>1
<1> HIDE DEF Ours
<1> QED BY <1>1, <1>2 DEF AllAre

LEMMA KindNone ==
  ASSUME NEW q, NEW k, ~Has(q)
  PROVE  AllAre(q, k)
BY DEF Has, AllAre

LEMMA KindDisown ==
  ASSUME NEW S, S \subseteq Message, NEW q \in Seq(S), NEW o, \A m \in S : Orphan(m) \in S,
         NEW k, AllAre(q, k)
  PROVE  AllAre(Disown(q, o), k)
<1>1. /\ DOMAIN Disown(q, o) = 1 .. Len(q) /\ DOMAIN q = 1 .. Len(q)
      /\ \A i \in 1 .. Len(q) : Disown(q, o)[i] = IF q[i].own = o THEN Orphan(q[i]) ELSE q[i]
  BY DisownSeq
<1>0. \A i \in 1 .. Len(q) : q[i] \in Message
  OBVIOUS
<1>2. \A i \in 1 .. Len(q) : /\ Orphan(q[i]).svc = q[i].svc /\ Orphan(q[i]).msg = q[i].msg
                             /\ Orphan(q[i]).tid = q[i].tid /\ Orphan(q[i]).flag = q[i].flag
  BY <1>0, OrphanIsMessage
<1>3. \A i \in 1 .. Len(q) : (Ours(Orphan(q[i])) <=> Ours(q[i])) /\ Orphan(q[i]).msg = q[i].msg
  BY <1>2 DEF Ours, OfClient
<1> HIDE DEF Ours, Orphan
<1> QED BY <1>1, <1>3 DEF AllAre

LEMMA MatchedSame ==
  ASSUME Matched, queue' = queue, Calm' => Calm, loop' => loop, server' => server, present' => present,
         \A k : AllAre(toModem, k) => AllAre(toModem', k),
         \A k : AllAre(fromModem, k) => AllAre(fromModem', k)
  PROVE  Matched'
BY DEF Matched

\* A step of a process leaves the kinds of the queue and of the modem alone.
Undone(c) ==
  /\ queue' = <<>> <=> queue = <<>>
  /\ \A i \in DOMAIN queue' : /\ i \in DOMAIN queue
                              /\ queue'[i].fd = queue[i].fd /\ queue'[i].m.msg = queue[i].m.msg
  /\ queue # <<>> => Head(queue').m.msg = Head(queue).m.msg
  /\ \A k : AllAre(toModem, k) => AllAre(toModem', k)
  /\ \A k : AllAre(fromModem, k) => AllAre(fromModem', k)
  /\ UNCHANGED <<present, server, loop, reg>>

LEMMA ClientUndone ==
  ASSUME InStep, NEW c \in Clients, ClientStep(c)
  PROVE  Undone(c)
<1>0. toModem \in Seq(Asked) /\ fromModem \in Seq(Told) /\ queue \in Seq(Entry)
  BY DEF InStep, TypeInv, Traffic
<1>1. CASE UNCHANGED <<proxyVars, modemVars>>
  BY <1>1 DEF Undone, proxyVars, modemVars
<1>2. CASE Abandons(c) /\ present' = present /\ (Forsaken(c) \/ UNCHANGED <<toModem, fromModem>>)
  <2>1. /\ queue' = <<>> <=> queue = <<>>
        /\ UNCHANGED <<server, loop, reg>>
    BY <1>2, QueueLeftFds
  <2>2. /\ queue' \in Seq(Entry) /\ Len(queue') = Len(queue) /\ Len(queue) \in Nat
        /\ \A i \in 1 .. Len(queue) :
             queue'[i] = IF queue[i].m.own = c THEN Left(queue[i]) ELSE queue[i]
    BY <1>0, <1>2, QueueLeft
  <2>3. \A i \in 1 .. Len(queue) : Left(queue[i]).fd = queue[i].fd /\ Left(queue[i]).m.msg = queue[i].m.msg
    <3> SUFFICES ASSUME NEW i \in 1 .. Len(queue)
                 PROVE  Left(queue[i]).fd = queue[i].fd /\ Left(queue[i]).m.msg = queue[i].m.msg
      OBVIOUS
    <3>1. queue[i] \in Entry /\ queue[i].m \in Message
      BY <1>0, MessageTypes
    <3> QED BY <3>1, LeftEntry, OrphanIsMessage
  <2>4. DOMAIN queue = 1 .. Len(queue) /\ DOMAIN queue' = 1 .. Len(queue)
    BY <1>0, <2>2
  <2>5. \A i \in DOMAIN queue' : /\ i \in DOMAIN queue
                                 /\ queue'[i].fd = queue[i].fd /\ queue'[i].m.msg = queue[i].m.msg
    BY <2>2, <2>3, <2>4
  <2>6. queue # <<>> => Head(queue').m.msg = Head(queue).m.msg
    <3>1. queue # <<>> => Head(queue') = queue'[1] /\ Head(queue) = queue[1] /\ 1 \in DOMAIN queue'
      BY <1>0, <2>1, <2>2, TailSeq
    <3> QED BY <2>5, <3>1
  <2>7. /\ \A k : AllAre(toModem, k) => AllAre(toModem', k)
        /\ \A k : AllAre(fromModem, k) => AllAre(fromModem', k)
    BY <1>0, <1>2, MessageTypes, OrphanTypes, KindDisown DEF Forsaken
  <2> QED BY <1>2, <2>1, <2>5, <2>6, <2>7 DEF Undone
<1>3. CASE GivesUp(c)
  BY <1>2, <1>3 DEF GivesUp, GiveUp, Forsaken
<1>4. CASE Leaves(c)
  <2>1. CASE Ends(c)
    BY <1>2, <1>4, <2>1 DEF Leaves, Ends, Forsaken
  <2>2. CASE Quiet
    BY <1>2, <1>4, <2>2 DEF Leaves, Quiet, transportVars, modemVars
  <2> QED BY <1>4, <2>1, <2>2 DEF Leaves, Release, HangUp, Kill
<1>5. CASE /\ Connect(c) \/ Call(c) \/ Receive(c) \/ Version(c) \/ GetClientId(c) \/ Work(c) \/ Worked(c)
           /\ UNCHANGED proxyVars
  BY <1>1, <1>5 DEF Connect, Call, Receive, Version, GetClientId, Work, Worked, Quiet, transportVars
<1> QED BY <1>3, <1>4, <1>5 DEF ClientStep

LEMMA ClientMatched ==
  ASSUME InStep, Matched, NEW c \in Clients, ClientStep(c), Calm' => Calm
  PROVE  Matched'
<1>1. Undone(c)
  BY ClientUndone
<1> QED BY <1>1 DEF Undone, Matched

LEMMA MainMatched ==
  ASSUME InStep, Matched, ProxyMain \/ Interrupt, UNCHANGED clientVars
  PROVE  Matched'
<1>0. TypeInv /\ Wired /\ Prepares /\ Preparing /\ toModem \in Seq(Asked) /\ fromModem \in Seq(Told)
  BY DEF InStep, TypeInv, Prepares, Traffic
<1>1. queue' = queue /\ odd' = odd
  BY DEF ProxyMain, Open, Prepare, Prepared, PrepareTimesOut, StartServer, Join, Exit, Interrupt, transportVars
<1>2. CASE Open \/ StartServer \/ Join
  <2>1. queue = <<>>
    BY <1>0, <1>2 DEF Wired, Preparing, Open, StartServer, Join
  <2> QED BY <1>1, <2>1 DEF Matched
<1>3. CASE Prepared \/ Exit \/ Interrupt \/ Prepare \/ PrepareTimesOut
  <2>1. UNCHANGED <<server, loop, present>>
    BY <1>3 DEF Prepared, Exit, Interrupt, Prepare, PrepareTimesOut, transportVars, modemVars
  <2>2. Calm' => Calm
    BY <1>1 DEF Calm
  <2>3. /\ \A k : AllAre(toModem, k) => AllAre(toModem', k)
        /\ \A k : AllAre(fromModem, k) => AllAre(fromModem', k)
    <3>1. CASE Prepared \/ Exit \/ Interrupt
      BY <3>1 DEF Prepared, Exit, Interrupt, transportVars, modemVars
    <3>2. CASE Prepare
      <4>1. toModem' \in {toModem, Append(toModem, Preparation)} /\ fromModem' = fromModem
            /\ stage < 5
        BY <3>2 DEF Prepare
      <4>2. Preparation \in Asked /\ ~Ours(Preparation)
        BY <1>0, <4>1, PreparationType, OursAre DEF Asked
      <4> QED BY <1>0, <4>1, <4>2, KindAppend
    <3>3. CASE PrepareTimesOut
      BY <1>0, <3>3, MessageTypes, OrphanTypes, KindDisown DEF PrepareTimesOut
    <3> QED BY <1>3, <3>1, <3>2, <3>3
  <2> QED BY <1>1, <2>1, <2>2, <2>3, MatchedSame
<1> QED BY <1>2, <1>3 DEF ProxyMain

LEMMA ReadClientMatched ==
  ASSUME InStep, Matched, NEW c \in Clients, ReadClient(c)
  PROVE  Matched'
<1> DEFINE m == Head(up[c])
           e == [fd |-> c, m |-> m]
<1>0. /\ Aligned /\ Wired /\ up[c] \in Seq(FromProcess) /\ queue \in Seq(Entry) /\ toModem \in Seq(Asked)
  BY DEF InStep, TypeInv, Traffic
<1>1. /\ up[c] # <<>> /\ UNCHANGED <<server, loop, present, fromModem>>
      /\ \/ /\ toModem' = IF Goes(m) /\ present THEN Append(toModem, m) ELSE toModem
            /\ queue' = IF m.svc = CTL THEN Append(queue, e) ELSE queue
            /\ UNCHANGED odd
         \/ odd' = odd \cup {"lost"} /\ UNCHANGED <<toModem, queue>>
  BY DEF ReadClient, SendQmi
<1>2. m \in FromProcess /\ m \in Asked /\ (Ours(m) <=> m.svc = CTL)
  BY <1>0, <1>1, TailSeq, OursAre, MessageTypes
<1>3. e.m = m /\ (m.svc = CTL => e \in Entry)
  BY <1>2 DEF Entry
<1> HIDE DEF m, e
<1>4. CASE odd' = odd \cup {"lost"} /\ UNCHANGED <<toModem, queue>>
  BY <1>4 DEF Matched, Calm
<1>5. CASE /\ toModem' = IF Goes(m) /\ present THEN Append(toModem, m) ELSE toModem
           /\ queue' = IF m.svc = CTL THEN Append(queue, e) ELSE queue
           /\ UNCHANGED odd
  <2> SUFFICES ASSUME Calm, loop, server, present, queue' # <<>>
               PROVE  AllAre(toModem', Head(queue').m.msg) /\ AllAre(fromModem, Head(queue').m.msg)
    BY <1>1, <1>5 DEF Matched, Calm
  <2>1. CASE queue = <<>>
    <3>1. m.svc = CTL /\ queue' = Append(queue, e) /\ toModem' = Append(toModem, m)
      BY <1>5, <2>1 DEF Goes
    <3>2. Head(queue') = e
      <4>1. Append(queue, e) = <<e>>
        BY <2>1
      <4> QED BY <3>1, <4>1
    <3>3. ~Has(toModem) /\ ~Has(fromModem)
      BY <1>0, <2>1 DEF Aligned
    <3> QED BY <1>0, <1>2, <1>3, <3>1, <3>2, <3>3, KindNone, KindAppend
  <2>2. CASE queue # <<>>
    <3>1. Head(queue') = Head(queue)
      <4>1. CASE m.svc = CTL
        <5>1. Head(Append(queue, e)) = Head(queue)
          <6>1. /\ Append(queue, e) \in Seq(Entry) /\ Append(queue, e) # <<>> /\ Len(queue) \in Nat \ {0}
                /\ \A i \in 1 .. Len(queue) : Append(queue, e)[i] = queue[i]
            BY <1>0, <1>3, <1>5, <2>2, <4>1, AppendSeq, TailSeq
          <6>2. Head(Append(queue, e)) = Append(queue, e)[1] /\ Head(queue) = queue[1]
            BY <1>0, <2>2, <6>1, TailSeq
          <6> QED BY <6>1, <6>2
        <5> QED BY <1>5, <4>1, <5>1
      <4>2. CASE m.svc # CTL
        BY <1>5, <4>2
      <4> QED BY <4>1, <4>2
    <3>2. toModem' = toModem \/ (~Ours(m) /\ toModem' = Append(toModem, m))
      BY <1>2, <1>5, <2>2 DEF Goes
    <3>3. AllAre(toModem, Head(queue).m.msg) /\ AllAre(fromModem, Head(queue).m.msg)
      BY <2>2 DEF Matched
    <3> QED BY <1>0, <1>2, <3>1, <3>2, <3>3, KindAppend
  <2> QED BY <2>1, <2>2
<1> QED BY <1>1, <1>4, <1>5

\* The answer that comes is of the kind of the head's request, or the queue slips.
LEMMA AnswerMatches ==
  ASSUME InStep, Matched, Receives, server, Head(fromModem).svc = CTL, Calm', queue # <<>>
  PROVE  LET m == Head(fromModem)
         IN  /\ Calm /\ Popped(m) /\ Ours(m) /\ m.msg = Head(queue).m.msg
             /\ ~Has(toModem) /\ ~Has(fromModem')
<1> DEFINE m == Head(fromModem)
<1>0. /\ Aligned /\ Wired /\ fromModem \in Seq(Told) /\ queue \in Seq(Entry)
  BY DEF InStep, TypeInv, Traffic
<1>1. /\ loop /\ fromModem # <<>> /\ fromModem' = Tail(fromModem) /\ ~resetFlag' /\ RecvCtl(m)
  BY DEF Receives, RecvQmi
<1>2. m \in Told /\ present
  BY <1>0, <1>1, TailSeq DEF Wired
<1>3. /\ Has(fromModem) <=> Ours(m) \/ Has(fromModem')
      /\ Lone(fromModem) => ~(Ours(m) /\ Has(fromModem'))
      /\ \A k : AllAre(fromModem, k) /\ Ours(m) => m.msg = k
  BY <1>0, <1>1, OursTail, KindTail
<1> HIDE DEF m
<1>4. /\ odd' = IF queue # <<>> /\ (m.flag = "ind" \/ m.tid >= FirstTid) THEN odd \cup {"slip"} ELSE odd
      /\ Popped(m) /\ Connected(Receiver) /\ m.msg = "revoke" => resetFlag'
  BY <1>1 DEF RecvCtl
<1>5. /\ m.flag # "ind" /\ ~(m.tid >= FirstTid) /\ odd' = odd /\ Calm
  BY <1>4 DEF Calm
<1>6. Connected(Receiver)
  <2>1. Head(queue) = queue[1] /\ 1 \in DOMAIN queue
    BY <1>0, TailSeq
  <2> QED BY <1>0, <1>5, <2>1 DEF Aligned, Manned, Receiver
<1>7. m.flag = "rsp" /\ Popped(m)
  BY <1>2, <1>5 DEF Told, Answers, Notices, Popped
<1>8. Ours(m)
  <2>1. m.svc = CTL
    BY DEF m
  <2> QED BY <1>1, <1>2, <1>4, <1>5, <1>6, <1>7, <2>1, OursAre
<1>9. ~Has(toModem) /\ ~Has(fromModem')
  BY <1>0, <1>3, <1>5, <1>8 DEF Aligned
<1>10. m.msg = Head(queue).m.msg
  BY <1>1, <1>2, <1>3, <1>5, <1>8 DEF Matched
<1> QED BY <1>5, <1>7, <1>8, <1>9, <1>10 DEF m

LEMMA ReceivesMatched ==
  ASSUME InStep, Matched, Receives
  PROVE  Matched'
<1> DEFINE m == Head(fromModem)
           next == IF Popped(m) THEN Tail(queue) ELSE queue
<1>0. /\ Aligned /\ Wired /\ fromModem \in Seq(Told) /\ queue \in Seq(Entry) /\ toModem \in Seq(Asked)
  BY DEF InStep, TypeInv, Traffic
<1>1. /\ fromModem # <<>> /\ fromModem' = Tail(fromModem)
      /\ \/ ~server /\ RecvInit(m)
         \/ server /\ m.svc = CTL /\ RecvCtl(m)
         \/ server /\ m.svc # CTL /\ RecvService(m)
      /\ UNCHANGED <<server, loop, present>>
  BY DEF Receives, RecvQmi
<1>2. \A k : AllAre(fromModem, k) => AllAre(fromModem', k)
  BY <1>0, <1>1, KindTail
<1>3. CASE ~(server /\ m.svc = CTL)
  <2>1. UNCHANGED <<toModem, odd, queue>>
    BY <1>1, <1>3 DEF RecvInit, RecvService
  <2> QED BY <1>1, <1>2, <2>1, MatchedSame DEF Calm
<1>4. CASE server /\ m.svc = CTL
  <2>1. /\ queue' = next
        /\ toModem' \in {toModem, Append(toModem, Head(next).m)} /\ (next = <<>> => toModem' = toModem)
    BY <1>1, <1>4 DEF RecvCtl
  <2> SUFFICES ASSUME Calm', queue' # <<>>
               PROVE  AllAre(toModem, Head(queue).m.msg)' /\ AllAre(fromModem, Head(queue).m.msg)'
    BY DEF Matched
  <2>2. queue # <<>>
    BY <2>1 DEF Popped
  <2>3. Popped(m) /\ ~Has(toModem) /\ ~Has(fromModem')
    BY <1>4, <2>2, AnswerMatches DEF m
  <2>4. Head(queue').m \in Asked
    <3>1. queue' \in Seq(Entry)
      BY <1>0, <2>1, <2>2, TailSeq
    <3> QED BY <3>1, TailSeq, MessageTypes
  <2>5. toModem' \in {toModem, Append(toModem, Head(queue').m)}
    BY <2>1
  <2> HIDE DEF m, next
  <2>6. AllAre(toModem', Head(queue').m.msg)
    <3> DEFINE x == Head(queue').m
    <3>1. AllAre(toModem, x.msg)
      BY <2>3, KindNone
    <3> HIDE DEF x
    <3>2. AllAre(Append(toModem, x), x.msg)
      BY <1>0, <2>4, <3>1, KindAppend DEF x
    <3> QED BY <2>5, <3>1, <3>2 DEF x
  <2>7. AllAre(fromModem', Head(queue').m.msg)
    BY <2>3, KindNone
  <2> QED BY <2>6, <2>7
<1> QED BY <1>3, <1>4

LEMMA LoopMatched ==
  ASSUME InStep, Matched, ProxyLoop
  PROVE  Matched'
<1>1. CASE LoopReset \/ LoopEnds \/ BrokenPipe
  BY <1>1 DEF LoopReset, LoopEnds, BrokenPipe, Matched
<1>2. ASSUME NEW c \in Clients, Accept(c)
      PROVE  Matched'
  BY <1>2, MatchedSame DEF Accept, proxyVars, modemVars, Calm
<1>3. ASSUME NEW c \in Clients, Cleanup(c)
      PROVE  Matched'
  <2>1. /\ \/ UNCHANGED <<queue, odd>>
           \/ "slip" \in odd'
        /\ UNCHANGED <<toModem, fromModem, present, server, loop>>
    BY <1>3 DEF Cleanup, modemVars
  <2>2. CASE UNCHANGED <<queue, odd>>
    BY <2>1, <2>2, MatchedSame DEF Calm
  <2>3. CASE "slip" \in odd'
    BY <2>3 DEF Matched, Calm
  <2> QED BY <2>1, <2>2, <2>3
<1> QED BY <1>1, <1>2, <1>3, ReadClientMatched, ReceivesMatched DEF ProxyLoop

LEMMA ModemMatched ==
  ASSUME InStep, Matched, ModemActs
  PROVE  Matched'
<1>0. /\ TypeInv /\ Wired /\ queue' = queue /\ UNCHANGED <<server, loop>>
      /\ toModem \in Seq(Asked) /\ fromModem \in Seq(Told)
  BY DEF InStep, TypeInv, Traffic, ModemActs, proxyVars
<1>1. CASE Serve
  <2>1. PICK ok \in BOOLEAN, id \in 0 .. MaxId : Yields(ok, id)
    BY <1>0, <1>1, ServeIs
  <2>2. /\ toModem # <<>> /\ present /\ Now \in Asked /\ toModem' = Tail(toModem)
    BY <1>0, <1>1, ServeIs
  <2> DEFINE r == Reply(Now, ok, id)
  <2>3. /\ r \in Told /\ (Ours(r) => Ours(Now)) /\ r.msg = Now.msg
    <3>1. /\ Now.msg \in {"release", "work"} => id # 0
          /\ Now.msg = "get" /\ ok => id # 0
      BY <2>1, <2>2 DEF Yields, Asked, FromProcess, FromProxy, OfProcess, OfProxy
    <3>2. r \in Told /\ r.svc = Now.svc /\ r.msg = Now.msg /\ r.tid = Now.tid /\ r.flag = "rsp"
      BY <2>2, <3>1, ReplyType
    <3>3. Now.flag = "req" /\ Now.msg # "revoke"
      BY <2>2, OursAre DEF Asked, FromProcess, FromProxy
    <3> HIDE DEF r
    <3> QED BY <3>2, <3>3 DEF Ours, OfClient
  <2>4. fromModem' = Append(fromModem, r)
    BY <2>1 DEF Yields
  <2> HIDE DEF r
  <2>5. \A k : AllAre(toModem, k) => AllAre(toModem', k) /\ (Ours(Now) => Now.msg = k)
    BY <1>0, <2>2, KindTail DEF Now
  <2>6. \A k : AllAre(fromModem, k) /\ (Ours(r) => r.msg = k) => AllAre(fromModem', k)
    BY <1>0, <2>3, <2>4, KindAppend
  <2>7. UNCHANGED <<present, odd>>
    BY <1>1 DEF Serve
  <2> QED BY <1>0, <2>3, <2>5, <2>6, <2>7 DEF Matched, Calm
<1>2. CASE Lose
  <2>1. /\ toModem # <<>> /\ toModem' = Tail(toModem) /\ odd \subseteq odd' /\ UNCHANGED <<present, fromModem>>
    BY <1>2 DEF Lose, Served
  <2> QED BY <1>0, <2>1, KindTail, MatchedSame DEF Calm
<1>3. CASE Announce \/ Reset
  <2>1. PICK n : /\ fromModem' = Append(fromModem, n) /\ n \in Told /\ ~Ours(n)
    <3>1. CASE Announce
      <4>1. /\ Notice("sync", "ind") \in Told /\ ~Ours(Notice("sync", "ind"))
        BY NoticeType DEF Ours, OfClient
      <4> QED BY <3>1, <4>1 DEF Announce
    <3>2. CASE Reset
      <4>1. PICK flag \in {"rsp", "ind"} : fromModem' = Append(fromModem, Notice("revoke", flag))
        BY <3>2 DEF Reset
      <4>2. /\ Notice("revoke", flag) \in Told /\ ~Ours(Notice("revoke", flag))
        BY NoticeType DEF Ours
      <4> QED BY <4>1, <4>2
    <3> QED BY <1>3, <3>1, <3>2
  <2>2. toModem' \in {toModem, <<>>} /\ odd \subseteq odd' /\ present' = present
    BY <1>3 DEF Announce, Reset
  <2>3. \A k : AllAre(fromModem, k) => AllAre(fromModem', k)
    BY <1>0, <2>1, KindAppend
  <2>4. \A k : AllAre(toModem, k) => AllAre(toModem', k)
    BY <2>2 DEF AllAre
  <2> QED BY <1>0, <2>2, <2>3, <2>4, MatchedSame DEF Calm
<1>4. CASE Unplug
  BY <1>4 DEF Unplug, Matched
<1>5. CASE Replug
  BY <1>0, <1>5 DEF Replug, Plug, Matched
<1> QED BY <1>1, <1>2, <1>3, <1>4, <1>5 DEF ModemActs, ModemStep

NoneSent(c)   == \A i \in DOMAIN up[c] : up[c][i].msg # "release"
NoneQueued(c) == \A i \in DOMAIN queue : queue[i].fd = c => queue[i].m.msg # "release"

LEMMA BackedSame ==
  ASSUME NEW d, Backed(d), Calm' => Calm,
         link'[d] = "up" /\ phase'[d] # "release" =>
           /\ link[d] = "up" /\ phase[d] # "release"
           /\ NoneSent(d) => NoneSent(d)'
           /\ NoneSent(d) /\ NoneQueued(d) /\ Calm' => NoneQueued(d)'
  PROVE  Backed(d)'
BY DEF Backed, NoneSent, NoneQueued

LEMMA DisownSent ==
  ASSUME NEW S, S \subseteq Message, NEW q \in Seq(S), NEW o, \A m \in S : Orphan(m) \in S,
         \A i \in DOMAIN q : q[i].msg # "release"
  PROVE  \A i \in DOMAIN Disown(q, o) : Disown(q, o)[i].msg # "release"
<1>1. /\ DOMAIN Disown(q, o) = 1 .. Len(q) /\ DOMAIN q = 1 .. Len(q)
      /\ \A i \in 1 .. Len(q) : Disown(q, o)[i] = IF q[i].own = o THEN Orphan(q[i]) ELSE q[i]
  BY DisownSeq
<1>2. \A i \in 1 .. Len(q) : Orphan(q[i]).msg = q[i].msg
  BY OrphanIsMessage, <1>1, ElementOfSeq
<1> HIDE DEF Orphan
<1> QED BY <1>1, <1>2

\* A step of a process concerns it alone.
LEMMA ClientAlone ==
  ASSUME InStep, NEW c \in Clients, Fresh(c), ClientStep(c)
  PROVE  Only(c) /\ OnlySocket(c)
<1>0. TypeInv /\ Wired /\ Processes
  BY DEF InStep, TypeInv
<1>1. CASE Leaves(c)
  BY <1>0, <1>1, LeavesHow, EndsLess, ReleaseNextLess
<1>2. CASE GivesUp(c)
  BY <1>0, <1>2, ClientOnly DEF GivesUp
<1> QED BY <1>0, <1>1, <1>2, ClientOnly DEF ClientStep

\* A process sends a release when it is about to end.
LEMMA ClientBacked ==
  ASSUME InStep, NEW c \in Clients, Fresh(c), ClientStep(c), Calm' => Calm, NEW d \in Clients, Backed(d)
  PROVE  Backed(d)'
<1>0. /\ Undone(c) /\ Processes /\ Traffic /\ Bus /\ Wired'
  BY ClientUndone, ClientInStep DEF InStep, TypeInv
<1>1. NoneQueued(d) => NoneQueued(d)'
  BY <1>0 DEF Undone, NoneQueued
<1>2. CASE Call(c) /\ d = c
  <2>1. link' = link /\ phase' = phase /\ (up'[c] = up[c] \/ up'[c] = Append(up[c], Request(c)))
    BY <1>0, <1>2 DEF Call, Set, Traffic
  <2>2. ASSUME phase[c] # "release", NoneSent(c) PROVE NoneSent(c)'
    <3>1. Request(c) \in FromProcess /\ Request(c).msg # "release"
      BY <1>2, <2>2, RequestIn DEF Call, InStep
    <3> DEFINE r == Request(c)
               q == up[c]
    <3>2. q \in Seq(FromProcess) /\ r \in FromProcess /\ r.msg # "release"
          /\ \A i \in DOMAIN q : q[i].msg # "release"
      BY <1>0, <2>2, <3>1 DEF Traffic, NoneSent
    <3> HIDE DEF r, q
    <3>3. \A i \in DOMAIN Append(q, r) : Append(q, r)[i].msg # "release"
      <4>1. /\ DOMAIN Append(q, r) = 1 .. Len(q) + 1 /\ DOMAIN q = 1 .. Len(q) /\ Len(q) \in Nat
            /\ \A i \in 1 .. Len(q) : Append(q, r)[i] = q[i]
            /\ Append(q, r)[Len(q) + 1] = r
        BY <3>2, AppendSeq
      <4>2. \A i : i \in 1 .. Len(q) + 1 <=> i \in 1 .. Len(q) \/ i = Len(q) + 1
        BY <4>1
      <4> QED BY <3>2, <4>1, <4>2
    <3> QED BY <2>1, <2>2, <3>3 DEF NoneSent, r, q
  <2> QED BY <1>1, <1>2, <2>1, <2>2, BackedSame
<1>3. CASE GivesUp(c) /\ d = c
  <2>1. link' = link /\ phase' = phase /\ up'[c] = Disown(up[c], c)
    BY <1>0, <1>3 DEF GivesUp, GiveUp, Traffic
  <2>2. NoneSent(c) => NoneSent(c)'
    BY <1>0, <2>1, DisownSent, MessageTypes, OrphanTypes DEF NoneSent, Traffic
  <2> QED BY <1>1, <1>3, <2>1, <2>2, BackedSame
<1>4. CASE d = c /\ (Connect(c) \/ Leaves(c))
  <2>1. link'[c] # "up" \/ phase'[c] = "release"
    <3>1. CASE Connect(c)
      BY <1>0, <3>1 DEF Connect, Set, Bus
    <3>2. CASE Ends(c)
      BY <1>0, <3>2 DEF Ends, Set, Bus
    <3>3. CASE Set(phase, c, "release")
      BY <1>0, <3>3 DEF Set, Processes
    <3> QED BY <1>4, <3>1, <3>2, <3>3 DEF Leaves, Release, HangUp, Kill
  <2> QED BY <1>4, <2>1 DEF Backed
<1>5. CASE d = c /\ (Receive(c) \/ Version(c) \/ GetClientId(c) \/ Work(c) \/ Worked(c))
  <2>1. up' = up /\ link' = link
    BY <1>5 DEF Receive, Version, GetClientId, Work, Worked, Quiet, transportVars
  <2>2. phase[c] # "release" \/ phase' = phase
    BY <1>5 DEF Receive, Version, GetClientId, Work, Worked
  <2> QED BY <1>1, <1>5, <2>1, <2>2, BackedSame DEF NoneSent
<1>6. CASE d # c
  <2>1. up'[d] = up[d] /\ link'[d] = link[d] /\ phase'[d] = phase[d]
    <3>1. Only(c) /\ OnlySocket(c)
      BY ClientAlone
    <3> QED BY <1>0, <1>6, <3>1 DEF Only, OnlySocket, Processes, Traffic, Bus
  <2> QED BY <1>1, <2>1, BackedSame DEF NoneSent
<1> QED BY <1>2, <1>3, <1>4, <1>5, <1>6 DEF ClientStep

\* A connection that waits to be accepted has seen no release.
LEMMA WaitsClean ==
  ASSUME Traffic, NEW c \in Clients, Fresh(c), link[c] = "waiting"
  PROVE  NoneSent(c)
<1> SUFFICES ASSUME NEW i \in DOMAIN up[c], up[c][i].msg = "release"
             PROVE  FALSE
  BY DEF NoneSent
<1> DEFINE m == up[c][i]
           t == <<m.of, m.id>>
<1>1. m \in FromProcess
  BY DEF Traffic
<1>2. t \in Tokens /\ m \in Returns(t)
  BY <1>1 DEF FromProcess, OfProcess, Message, Tokens, Returns
<1> QED BY <1>2 DEF Fresh, In

LEMMA TailQueued ==
  ASSUME queue \in Seq(Entry), queue # <<>>, queue' = Tail(queue), NEW d, NoneQueued(d)
  PROVE  NoneQueued(d)'
<1>1. /\ DOMAIN Tail(queue) = 1 .. Len(queue) - 1 /\ DOMAIN queue = 1 .. Len(queue)
      /\ \A i \in 1 .. Len(queue) - 1 : Tail(queue)[i] = queue[i + 1]
      /\ Len(queue) \in Nat
  BY TailSeq
<1>2. \A i \in 1 .. Len(queue) - 1 : i + 1 \in 1 .. Len(queue)
  BY <1>1
<1> QED BY <1>1, <1>2 DEF NoneQueued

LEMMA AppendQueued ==
  ASSUME queue \in Seq(Entry), NEW e \in Entry, queue' = Append(queue, e), NEW d, NoneQueued(d),
         e.fd = d => e.m.msg # "release"
  PROVE  NoneQueued(d)'
<1>1. /\ DOMAIN Append(queue, e) = 1 .. Len(queue) + 1 /\ DOMAIN queue = 1 .. Len(queue)
      /\ \A i \in 1 .. Len(queue) : Append(queue, e)[i] = queue[i]
      /\ Append(queue, e)[Len(queue) + 1] = e /\ Len(queue) \in Nat
  BY AppendSeq
<1>2. \A i : i \in 1 .. Len(queue) + 1 <=> i \in 1 .. Len(queue) \/ i = Len(queue) + 1
  BY <1>1
<1> QED BY <1>1, <1>2 DEF NoneQueued

LEMMA ReadClientBacked ==
  ASSUME InStep, NEW c \in Clients, ReadClient(c), UNCHANGED clientVars, NEW d \in Clients,
         Backed(d), Calm' => Calm
  PROVE  Backed(d)'
<1> DEFINE m == Head(up[c])
           e == [fd |-> c, m |-> m]
<1>0. /\ Traffic /\ up[c] \in Seq(FromProcess) /\ queue \in Seq(Entry) /\ UNCHANGED phase
  BY DEF InStep, TypeInv, Traffic, clientVars, runVars
<1>1. /\ up[c] # <<>> /\ UNCHANGED link /\ up' = [up EXCEPT ![c] = <<>>]
      /\ \/ queue' = queue
         \/ m.svc = CTL /\ queue' = Append(queue, e)
  BY DEF ReadClient, SendQmi, Set
<1>2. m \in FromProcess /\ m = up[c][1] /\ 1 \in DOMAIN up[c] /\ (m.svc = CTL => e \in Entry)
  BY <1>0, <1>1, TailSeq DEF Entry
<1>3. NoneSent(d) => NoneSent(d)'
  BY <1>0, <1>1 DEF NoneSent, Traffic
<1>4. ASSUME NoneSent(d), NoneQueued(d) PROVE NoneQueued(d)'
  <2>1. CASE queue' = queue
    BY <1>4, <2>1 DEF NoneQueued
  <2>2. CASE m.svc = CTL /\ queue' = Append(queue, e)
    <3>1. e.fd = d => e.m.msg # "release"
      BY <1>2, <1>4 DEF NoneSent
    <3> HIDE DEF e
    <3> QED BY <1>0, <1>2, <1>4, <2>2, <3>1, AppendQueued
  <2> QED BY <1>1, <2>1, <2>2
<1> QED BY <1>0, <1>1, <1>3, <1>4, BackedSame

LEMMA ProxyBacked ==
  ASSUME InStep, \A d \in Clients : Fresh(d), ProxyStep, Calm' => Calm, NEW d \in Clients, Backed(d)
  PROVE  Backed(d)'
<1>0. /\ Wired /\ Aligned /\ Traffic /\ Bus /\ queue \in Seq(Entry) /\ UNCHANGED clientVars /\ UNCHANGED phase
  BY DEF InStep, TypeInv, Traffic, ProxyStep, clientVars, runVars
<1>1. CASE Open \/ Prepare \/ Prepared \/ PrepareTimesOut \/ StartServer \/ Exit \/ Interrupt
  <2>1. UNCHANGED <<link, up, queue>>
    BY <1>1 DEF Open, Prepare, Prepared, PrepareTimesOut, StartServer, Exit, Interrupt, transportVars
  <2> QED BY <1>0, <2>1, BackedSame DEF NoneSent, NoneQueued
<1>2. CASE Join \/ LoopReset \/ LoopEnds \/ BrokenPipe
  <2>1. link'[d] # "up"
    BY <1>0, <1>2 DEF Join, LoopReset, LoopEnds, Ending, BrokenPipe, Wired, Bus
  <2> QED BY <2>1 DEF Backed
<1>3. CASE Receives
  <2>1. UNCHANGED <<link, up>> /\ (queue' = queue \/ (queue # <<>> /\ queue' = Tail(queue)))
    BY <1>3 DEF Receives, RecvQmi, RecvInit, RecvCtl, RecvService, Popped
  <2>2. NoneQueued(d) => NoneQueued(d)'
    BY <1>0, <2>1, TailQueued DEF NoneQueued
  <2> QED BY <1>0, <2>1, <2>2, BackedSame DEF NoneSent
<1>4. ASSUME NEW c \in Clients, Accept(c) PROVE Backed(d)'
  <2>1. link[c] = "waiting" /\ link' = [link EXCEPT ![c] = "up"] /\ UNCHANGED <<up, queue>>
    BY <1>4 DEF Accept, Set, proxyVars
  <2>2. CASE d = c
    <3>1. NoneSent(c)
      BY <1>0, <2>1, WaitsClean
    <3>2. Calm => NoneQueued(c)
      BY <1>0, <2>1 DEF Aligned, Manned, Connected, NoneQueued
    <3> QED BY <2>1, <2>2, <3>1, <3>2 DEF Backed, NoneSent, NoneQueued
  <2>3. CASE d # c
    <3>1. link'[d] = link[d]
      BY <1>0, <2>1, <2>3 DEF Bus
    <3> QED BY <1>0, <2>1, <3>1, BackedSame DEF NoneSent, NoneQueued
  <2> QED BY <2>2, <2>3
<1>5. ASSUME NEW c \in Clients, Cleanup(c) PROVE Backed(d)'
  <2>1. /\ link' = [link EXCEPT ![c] = "free"] /\ up' = [up EXCEPT ![c] = <<>>]
        /\ queue' = queue \/ "slip" \in odd'
    BY <1>5 DEF Cleanup, Set
  <2>2. CASE d = c
    BY <1>0, <2>1, <2>2 DEF Backed, Bus
  <2>3. CASE d # c
    <3>1. link'[d] = link[d] /\ up'[d] = up[d] /\ (Calm' => queue' = queue)
      BY <1>0, <2>1, <2>3 DEF Bus, Traffic, Calm
    <3> QED BY <1>0, <3>1, BackedSame DEF NoneSent, NoneQueued
  <2> QED BY <2>2, <2>3
<1> QED BY <1>0, <1>1, <1>2, <1>3, <1>4, <1>5, ReadClientBacked DEF ProxyStep, ProxyMain, ProxyLoop

LEMMA ModemBacked ==
  ASSUME ModemActs, Calm' => Calm, NEW d \in Clients, Backed(d)
  PROVE  Backed(d)'
<1>1. UNCHANGED <<link, up, queue, phase>>
  BY DEF ModemActs, ModemStep, Serve, Lose, Announce, Reset, Unplug, Replug, Plug,
         clientVars, runVars, proxyVars
<1> QED BY <1>1, BackedSame DEF NoneSent, NoneQueued

LEMMA SameListed ==
  ASSUME UNCHANGED <<link, down, runVars, reg>>, NEW d, NEW t, Listed(d, t)
  PROVE  Listed(d, t)'
<1>1. UNCHANGED <<link, down, reg, phase, svc, step, rsp, ids>>
  BY DEF runVars
<1>2. Holds(d, t)' <=> Holds(d, t)
  BY <1>1 DEF Holds, Keeps, Got, Coming
<1> QED BY <1>1, <1>2 DEF Listed

LEMMA LessListed ==
  ASSUME NEW d, NEW t, Lessens(d, t), phase[d] = "release" => phase'[d] = "release", Listed(d, t)
  PROVE  Listed(d, t)'
BY DEF Lessens, Listed

\* No step of a process adds to what it holds, but its request of a release.
LEMMA ClientLess ==
  ASSUME TypeInv, Wired, \A d \in Clients : Fresh(d), NEW c \in Clients, ClientStep(c),
         ~(Call(c) /\ phase[c] = "release" /\ link[c] # "cut")
  PROVE  \A t \in Tokens : Lessens(c, t)
<1>1. CASE Leaves(c)
  BY <1>1, LeavesLess DEF Less
<1>2. CASE GivesUp(c)
  <2>1. GiveUp(c) /\ UNCHANGED <<reg, loop>>
    BY <1>2 DEF GivesUp, Abandons
  <2> QED BY <2>1, GivesUpLess
<1>3. CASE /\ Connect(c) \/ Call(c) \/ Receive(c) \/ Version(c) \/ GetClientId(c) \/ Work(c) \/ Worked(c)
           /\ UNCHANGED proxyVars
  <2>1. UNCHANGED <<reg, loop>>
    BY <1>3 DEF proxyVars
  <2> QED BY <1>3, <2>1, ConnectLess, CallLess, ReceiveLess, NextRequestLess
<1> QED BY <1>1, <1>2, <1>3 DEF ClientStep

LEMMA ClientListed ==
  ASSUME InStep, \A d \in Clients : Fresh(d), NEW c \in Clients, ClientStep(c),
         NEW d \in Clients, NEW t \in Tokens, Listed(d, t)
  PROVE  Listed(d, t)'
<1>0. TypeInv /\ Wired /\ Processes /\ Bus /\ Only(c) /\ OnlySocket(c)
  BY ClientAlone DEF InStep, TypeInv
<1>1. UNCHANGED <<reg, loop>>
  BY DEF ClientStep, GivesUp, Leaves, Abandons, proxyVars
<1>2. CASE d # c
  <2>1. Lessens(d, t)
    BY <1>0, <1>1, <1>2, OthersSame
  <2>2. phase'[d] = phase[d]
    BY <1>0, <1>2 DEF Only, Processes
  <2> QED BY <2>1, <2>2, LessListed
<1>3. CASE d = c /\ Call(c) /\ phase[c] = "release"
  BY <1>3 DEF Call, Listed
<1>4. CASE d = c /\ ~(Call(c) /\ phase[c] = "release")
  <2>1. Lessens(c, t)
    BY <1>0, <1>4, ClientLess
  <2>2. CASE Leaves(c)
    <3>1. CASE Ends(c)
      <4>1. link'[c] # "up"
        BY <1>0, <3>1 DEF Ends, Set, Bus
      <4> QED BY <1>4, <4>1 DEF Listed, Holds, Keeps, Got, Coming
    <3>2. CASE phase'[c] = "release"
      BY <1>4, <3>2 DEF Listed
    <3> QED BY <1>0, <2>2, <3>1, <3>2, LeavesHow
  <2>3. CASE ~Leaves(c)
    <3>1. phase[c] = "release" => phase'[c] = "release"
      BY <1>4, <2>3 DEF ClientStep, GivesUp, Connect, Call, Receive, Version, GetClientId, Work, Worked, GiveUp
    <3> QED BY <1>4, <2>1, <3>1, LessListed
  <2> QED BY <2>2, <2>3
<1> QED BY <1>2, <1>3, <1>4

\* An answer that gives an id is registered when it is passed on; one that takes an
\* id is passed on to a process that has asked for that.
LEMMA RecvCtlListed ==
  ASSUME InStep, Matched, Receives, UNCHANGED clientVars, server, Head(fromModem).svc = CTL, Calm',
         NEW d \in Clients, Backed(d), NEW t \in Tokens, Listed(d, t)
  PROVE  Listed(d, t)'
<1> DEFINE m == Head(fromModem)
<1>0. /\ UNCHANGED runVars /\ Traffic /\ Prepares /\ fromModem \in Seq(Told) /\ queue \in Seq(Entry) /\ Aligned
  BY DEF clientVars, InStep, TypeInv, Traffic
<1>1. /\ fromModem # <<>> /\ RecvCtl(m) /\ UNCHANGED link
  BY DEF Receives, RecvQmi
<1>2. CASE queue = <<>>
  <2>1. UNCHANGED <<down, reg>>
    BY <1>1, <1>2 DEF RecvCtl, Popped
  <2> QED BY <1>0, <1>1, <2>1, SameListed
<1>3. CASE queue # <<>>
  <2>1. Calm /\ Popped(m) /\ Ours(m) /\ m.msg = Head(queue).m.msg
    BY <1>3, AnswerMatches
  <2>2. m \in Told
    BY <1>0, <1>1, TailSeq
  <2>8. Popped(m) /\ Receiver \in Clients /\ Connected(Receiver) => link[Receiver] = "up"
    BY WrittenUp
  <2> HIDE DEF m
  <2>3. Head(queue) = queue[1] /\ 1 \in DOMAIN queue /\ Receiver \in Clients /\ Connected(Receiver)
    <3>1. Head(queue) = queue[1] /\ 1 \in DOMAIN queue /\ Head(queue) \in Entry
      BY <1>0, <1>3, TailSeq
    <3> QED BY <1>0, <2>1, <3>1 DEF Aligned, Manned, Receiver, Entry
  <2>4. /\ down' = IF link[Receiver] = "up" THEN [down EXCEPT ![Receiver] = Append(@, m)] ELSE down
        /\ reg' = Registration(m)
    BY <1>1, <2>1, <2>3, <2>8 DEF RecvCtl
  <2>5. /\ phase'[d] = phase[d] /\ svc'[d] = svc[d] /\ step'[d] = step[d] /\ rsp'[d] = rsp[d]
        /\ ids'[d] = ids[d] /\ link'[d] = link[d]
    BY <1>0, <1>1 DEF runVars
  <2>6. CASE d # Receiver
    <3>1. down'[d] = down[d]
      BY <1>0, <2>3, <2>4, <2>6 DEF Traffic
    <3>2. reg'[d] = reg[d]
      BY <1>0, <2>3, <2>4, <2>6 DEF Registration, Prepares
    <3>3. Holds(d, t)' <=> Holds(d, t)
      BY <2>5, <3>1 DEF Holds, Keeps, Got, Coming
    <3> QED BY <2>5, <3>2, <3>3 DEF Listed
  <2>7. CASE d = Receiver
    <3> SUFFICES ASSUME Holds(d, t)', phase[d] # "release"
                 PROVE  t \in reg'[d]
      BY <2>5 DEF Listed
    <3>1. link[d] = "up"
      BY <2>5 DEF Holds, Keeps, Got, Coming
    <3>2. m.msg # "release" /\ m.msg # "revoke"
      BY <2>1, <2>3, <2>7, <3>1 DEF Backed, Receiver, Ours
    <3>3. /\ down'[d] = Append(down[d], m) /\ down[d] \in Seq(Told)
          /\ reg[d] \subseteq reg'[d] /\ (m.msg = "get" /\ m.ok => <<m.of, m.id>> \in reg'[d])
      <4>1. down'[d] = Append(down[d], m) /\ down[d] \in Seq(Told)
        BY <1>0, <2>4, <2>7, <3>1 DEF Traffic
      <4>2. reg[d] \subseteq reg'[d] /\ (m.msg = "get" /\ m.ok => <<m.of, m.id>> \in reg'[d])
        BY <1>0, <2>4, <2>7, <3>2 DEF Registration, Prepares
      <4> QED BY <4>1, <4>2
    <3>4. In(Append(down[d], m), Gifts(t)) <=> In(down[d], Gifts(t)) \/ m \in Gifts(t)
      BY <2>2, <3>3, KindsAppend
    <3>5. Holds(d, t) \/ m \in Gifts(t)
      BY <2>5, <3>1, <3>3, <3>4 DEF Holds, Keeps, Got, Coming
    <3>6. m \in Gifts(t) => m.msg = "get" /\ m.ok /\ <<m.of, m.id>> = t
      BY GiftsAre DEF Gifts
    <3> QED BY <3>3, <3>5, <3>6 DEF Listed
  <2> QED BY <2>6, <2>7
<1> QED BY <1>2, <1>3

LEMMA ProxyListed ==
  ASSUME InStep, \A d \in Clients : Fresh(d), Matched, ProxyStep, Calm',
         NEW d \in Clients, Backed(d), NEW t \in Tokens, Listed(d, t)
  PROVE  Listed(d, t)'
<1>0. TypeInv /\ Wired /\ UNCHANGED clientVars /\ UNCHANGED runVars /\ UNCHANGED phase
  BY DEF InStep, ProxyStep, clientVars, runVars
<1>1. CASE Prepare
  BY <1>0, <1>1, SameListed DEF Prepare
<1>2. CASE ~Prepare /\ (ProxyMain \/ Interrupt)
  BY <1>0, <1>2, MainLess, LessListed DEF Less
<1>3. CASE Receives
  <2>1. CASE server /\ Head(fromModem).svc = CTL
    BY <1>0, <1>3, <2>1, RecvCtlListed
  <2>2. CASE ~server \/ Head(fromModem).svc # CTL
    BY <1>0, <1>3, <2>2, RecvOtherLess, LessListed DEF Less
  <2> QED BY <2>1, <2>2
<1>4. CASE LoopReset \/ LoopEnds \/ BrokenPipe
  BY <1>0, <1>4, LoopEndsLess, BrokenPipeLess, LessListed DEF Less
<1>5. ASSUME NEW c \in Clients, Accept(c) \/ Cleanup(c) PROVE Listed(d, t)'
  BY <1>0, <1>5, AcceptLess, CleanupLess, LessListed DEF Less
<1>6. ASSUME NEW c \in Clients, ReadClient(c) PROVE Listed(d, t)'
  BY <1>0, <1>6, SameListed DEF ReadClient
<1> QED BY <1>1, <1>2, <1>3, <1>4, <1>5, <1>6 DEF ProxyStep, ProxyLoop

LEMMA InitRolls == Init => Rolls
<1> SUFFICES ASSUME Init PROVE Rolls
  OBVIOUS
<1>1. Books
  BY InitBooks
<1>2. link = [c \in Clients |-> "free"] /\ queue = <<>>
  BY DEF Init, TransportInit, ProxyInit
<1>3. Matched /\ \A c \in Clients : Backed(c) /\ \A t : ~Holds(c, t)
  BY <1>2 DEF Matched, Backed, Holds, Keeps, Got, Coming
<1> QED BY <1>1, <1>3 DEF Rolls, Listed

LEMMA RollsKept ==
  ASSUME Rolls, [Next]_vars
  PROVE  Rolls'
<1>0. /\ InStep /\ TypeInv /\ Wired /\ (\A d \in Clients : Fresh(d)) /\ Matched
      /\ \A d \in Clients : Backed(d)
      /\ Calm' => Calm /\ \A d \in Clients, t \in Tokens : Listed(d, t)
  BY OddGrows DEF Rolls, Books, InStep, Calm
<1>1. Books'
  BY BooksKept DEF Rolls
<1>2. CASE UNCHANGED vars
  <2>1. /\ UNCHANGED <<link, up, down, toModem, fromModem, present, queue, reg, loop, server, odd, phase, runVars>>
    BY <1>2 DEF vars, transportVars, modemVars, clientVars, runVars, proxyVars
  <2>2. Matched'
    BY <1>0, <2>1 DEF Matched, Calm
  <2>3. \A d \in Clients : Backed(d)'
    BY <1>0, <2>1, BackedSame DEF NoneSent, NoneQueued
  <2>4. Calm' => \A d \in Clients, t \in Tokens : Listed(d, t)'
    BY <1>0, <2>1, SameListed
  <2> QED BY <1>1, <2>2, <2>3, <2>4 DEF Rolls, Tokens
<1>3. ASSUME NEW c \in Clients, ClientStep(c) PROVE Rolls'
  <2>1. Matched'
    BY <1>0, <1>3, ClientMatched
  <2>2. \A d \in Clients : Backed(d)'
    BY <1>0, <1>3, ClientBacked
  <2>3. Calm' => \A d \in Clients, t \in Tokens : Listed(d, t)'
    BY <1>0, <1>3, ClientListed
  <2> QED BY <1>1, <2>1, <2>2, <2>3 DEF Rolls, Tokens
<1>4. CASE ProxyStep
  <2>1. Matched'
    BY <1>0, <1>4, MainMatched, LoopMatched DEF ProxyStep
  <2>2. \A d \in Clients : Backed(d)'
    BY <1>0, <1>4, ProxyBacked
  <2>3. Calm' => \A d \in Clients, t \in Tokens : Listed(d, t)'
    BY <1>0, <1>4, ProxyListed
  <2> QED BY <1>1, <2>1, <2>2, <2>3 DEF Rolls, Tokens
<1>5. CASE ModemActs
  <2>1. Matched'
    BY <1>0, <1>5, ModemMatched
  <2>2. \A d \in Clients : Backed(d)'
    BY <1>0, <1>5, ModemBacked
  <2>3. UNCHANGED <<link, down, runVars, reg>>
    BY <1>5 DEF ModemActs, ModemStep, Serve, Lose, Announce, Reset, Unplug, Replug, Plug, clientVars, proxyVars
  <2>4. Calm' => \A d \in Clients, t \in Tokens : Listed(d, t)'
    BY <1>0, <2>3, SameListed
  <2> QED BY <1>1, <2>1, <2>2, <2>4 DEF Rolls, Tokens
<1> QED BY <1>2, <1>3, <1>4, <1>5 DEF Next, Finished

LEMMA RollsAreKept ==
  ASSUME Rolls
  PROVE  HeldIsRegistered
<1> SUFFICES ASSUME NEW c \in Clients, NEW s \in 1 .. Services, Uses(c, s),
                    "reset" \in odd => odd \subseteq {"late", "reset"}
             PROVE  <<s, ids[c][s]>> \in reg[c]
  BY DEF HeldIsRegistered
<1> DEFINE t == <<s, ids[c][s]>>
<1>1. t \in Tokens
  <2>1. ids \in [Clients -> IdSets]
    BY DEF Rolls, Books, InStep, TypeInv, Processes
  <2>2. ids[c][s] \in 0 .. MaxId /\ ids[c][s] # 0
    BY <2>1 DEF IdSets, Uses
  <2> QED BY <2>2 DEF Tokens
<1>2. Holds(c, t) /\ phase[c] # "release"
  BY DEF Holds, Keeps, Uses, Live
<1> HIDE DEF t
<1>3. CASE "reset" \notin odd
  BY <1>1, <1>2, <1>3 DEF Rolls, Books, Safe, Known, t
<1>4. CASE "reset" \in odd
  BY <1>1, <1>2, <1>4 DEF Rolls, Calm, Listed, t
<1> QED BY <1>3, <1>4

\* A process that uses a client id is registered with it, so that what the modem sends
\* for that id reaches it: whatever requests are lost, given up or answered to another,
\* and also when the modem has started anew, as long as the queue has not slipped then.
THEOREM HolderIsKnown == Spec => []HeldIsRegistered
<1>1. Rolls /\ [Next]_vars => Rolls'
  BY RollsKept
<1> QED BY <1>1, InitRolls, RollsAreKept, PTL DEF Spec
=============================================================================
