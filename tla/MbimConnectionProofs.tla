------------------------ MODULE MbimConnectionProofs ------------------------
(***************************************************************************)
(* What holds of the main loop over MBIM for any addresses, transaction    *)
(* ids and bounds: its types, and that a request gets its own answer.      *)
(***************************************************************************)
EXTENDS MbimConnection, SequenceTheorems, TLAPS

USE BoundsAssumption DEF BoundsAssumption

Prev(t) == IF t = 1 THEN MaxId ELSE t - 1

\* The ids of requests given up whose answers may still come.  Outside the exit the
\* first one given up is the last.
Older ==
  CASE pc \in {"exit", "xconnect"} -> {Prev(tid)}
    [] pc = "close" -> {Prev(tid), Prev(Prev(tid))}
    [] pc \in {"kill", "join", "ended", "crashed"} -> 1 .. MaxId
    [] OTHER -> {}
Stale == Older \cup (IF step = "got" /\ rsp = NoAnswer THEN {tid} ELSE {})

\* An answer says something its request can be answered, an indication something of its
\* state.
Sayable(k) ==
  CASE k \in StageNames \cup {"attach"} -> Found
    [] k \in {"query", "connect", "xconnect", "act"} -> Activations
    [] k = "ipconf" -> Addresses
    [] OTHER -> {"yes"}
Fits(m) == m.val \in Sayable(m.kind) \/ (m.id # 0 /\ m.val \in {Refused, NotOpened})

\* A request, or its answer, is waited for, or was given up; st, id and k are the step, the
\* id and the kind of main's request, old the ids given up.
Expected(m, st, id, k, old) ==
  /\ m.live => st = "wait" /\ m.id = id /\ m.kind = k
  /\ m.id # 0 /\ ~m.live => m.id \in old

\* Every one of a queue is, and at most one is waited for.
Box(q, st, id, k, old) ==
  /\ \A i \in DOMAIN q : Expected(q[i], st, id, k, old)
  /\ \A i, j \in DOMAIN q : q[i].live /\ q[j].live => i = j
NoneOf(q) == \A i \in DOMAIN q : ~q[i].live

Mail ==
  reader # "gone" =>
    /\ Box(inbox, step, tid, pc, Stale) /\ Box(wire, step, tid, pc, Stale)
    /\ NoneOf(inbox) \/ NoneOf(wire)

\* The answer main has is its own.
Own ==
  /\ step # "call" => pc \in Kinds
  /\ step \in {"call", "wait"} => rsp = NoAnswer
  /\ rsp # NoAnswer => rsp.live /\ rsp.kind = pc /\ Fits(rsp)

Inv ==
  /\ TypeOK
  /\ \A i \in DOMAIN wire : Fits(wire[i])
  /\ reader = "busy" => wire # <<>>
  /\ Own
  /\ Mail

\* Inv without the types of what is not about requests.
Rest ==
  /\ \A i \in DOMAIN wire : Fits(wire[i])
  /\ reader = "busy" => wire # <<>>
  /\ Own
  /\ Mail

-----------------------------------------------------------------------------
(* What main does next.                                                    *)

MainKinds == Kinds \ {"xconnect", "close"}
Places == {"sim", "reg", "ps", "query", "connect", "idle"}

LEMMA OrderIs ==
  /\ Len(Order) = 5 /\ \A i \in 1 .. 5 : Order[i] \in Places
  /\ DOMAIN Order = 1 .. 5
BY DEF Order, Stages, Places

LEMMA FromIsPlace == ASSUME NEW i \in Nat \ {0} PROVE From(i) \in Places
<1> DEFINE wanted == {j \in i .. Len(Order) : Needed(Order[j])}
<1> DEFINE first == CHOOSE j \in wanted : \A k \in wanted : j <= k
<1>1. From(i) = IF wanted = {} THEN "idle" ELSE Order[first]
  BY DEF From
<1>2. wanted \subseteq 1 .. 5
  BY OrderIs
<1>3. wanted # {} => first \in wanted
  <2> HIDE DEF wanted
  <2>1. \A j \in wanted : j \in {1, 2, 3, 4, 5}
    BY <1>2
  <2>2. \/ 1 \in wanted
        \/ 1 \notin wanted /\ 2 \in wanted
        \/ {1, 2} \cap wanted = {} /\ 3 \in wanted
        \/ {1, 2, 3} \cap wanted = {} /\ 4 \in wanted
        \/ {1, 2, 3, 4} \cap wanted = {} /\ 5 \in wanted
        \/ wanted = {}
    BY <2>1
  <2>3. wanted # {} => \E j \in wanted : \A k \in wanted : j <= k
    BY <2>1, <2>2
  <2> QED BY <2>3
<1> HIDE DEF wanted, first
<1>4. CASE wanted = {}
  BY <1>1, <1>4 DEF Places
<1>5. CASE wanted # {}
  BY <1>1, <1>2, <1>3, <1>5, OrderIs
<1> QED BY <1>4, <1>5

LEMMA PlaceOf == \A k \in {"sim", "reg", "ps", "query", "connect"} : Place(k) \in 1 .. 5
BY OrderIs DEF Place, Order, Stages

\* What an answer says of a state leaves it what it can be.
LEMMA SaysWhat ==
  ASSUME NEW values, NEW old \in values, rsp.val \in values \cup {Refused, NotOpened}
  PROVE  Says(rsp.val, old, values) \subseteq values
BY DEF Says

-----------------------------------------------------------------------------
(* Queues.                                                                 *)

LEMMA BoxTail ==
  ASSUME NEW S, NEW q \in Seq(S), q # <<>>, NEW st, NEW id, NEW k, NEW old, Box(q, st, id, k, old)
  PROVE  /\ Box(Tail(q), st, id, k, old)
         /\ NoneOf(q) \/ Head(q).live => NoneOf(Tail(q))
         /\ Expected(Head(q), st, id, k, old)
         /\ NoneOf(q) => ~Head(q).live
<1>1. \A i \in DOMAIN Tail(q) : i + 1 \in DOMAIN q /\ Tail(q)[i] = q[i + 1]
  OBVIOUS
<1>2. 1 \in DOMAIN q /\ Head(q) = q[1] /\ \A i \in DOMAIN Tail(q) : i \in Nat \ {0}
  OBVIOUS
<1>3. \A i \in DOMAIN Tail(q) : Expected(Tail(q)[i], st, id, k, old)
  BY <1>1 DEF Box
<1>4. \A i, j \in DOMAIN Tail(q) : Tail(q)[i].live /\ Tail(q)[j].live => i = j
  <2> TAKE i, j \in DOMAIN Tail(q)
  <2>1. q[i + 1].live /\ q[j + 1].live => i + 1 = j + 1
    BY <1>1 DEF Box
  <2> QED BY <1>1, <1>2, <2>1
<1>5. NoneOf(q) \/ Head(q).live => NoneOf(Tail(q))
  <2> SUFFICES ASSUME NoneOf(q) \/ Head(q).live, NEW i \in DOMAIN Tail(q), Tail(q)[i].live
               PROVE  FALSE
    BY DEF NoneOf
  <2>1. q[i + 1].live /\ i + 1 # 1 /\ i + 1 \in DOMAIN q
    BY <1>1, <1>2
  <2> QED BY <1>2, <2>1 DEF NoneOf, Box
<1> QED BY <1>2, <1>3, <1>4, <1>5 DEF Box, NoneOf

LEMMA BoxAppend ==
  ASSUME NEW S, NEW q \in Seq(S), NEW m \in S, NEW st, NEW id, NEW k, NEW old,
         Box(q, st, id, k, old), Expected(m, st, id, k, old), NoneOf(q) \/ ~m.live
  PROVE  /\ Box(Append(q, m), st, id, k, old)
         /\ NoneOf(q) /\ ~m.live => NoneOf(Append(q, m))
<1> DEFINE r == Append(q, m)
<1>1. \A i \in DOMAIN r : (i \in DOMAIN q /\ r[i] = q[i]) \/ (i = Len(q) + 1 /\ r[i] = m)
  OBVIOUS
<1> HIDE DEF r
<1>2. \A i \in DOMAIN r : Expected(r[i], st, id, k, old)
  BY <1>1 DEF Box
<1>3. \A i, j \in DOMAIN r : r[i].live /\ r[j].live => i = j
  BY <1>1 DEF Box, NoneOf
<1>4. NoneOf(q) /\ ~m.live => NoneOf(r)
  BY <1>1 DEF NoneOf
<1> QED BY <1>2, <1>3, <1>4 DEF Box, r

\* With indications, of which nobody waits for one.
LEMMA BoxConcat ==
  ASSUME NEW S, NEW q \in Seq(S), NEW notes \in Seq(S), NEW st, NEW id, NEW k, NEW old,
         Box(q, st, id, k, old), \A i \in DOMAIN notes : notes[i].id = 0 /\ ~notes[i].live
  PROVE  /\ Box(q \o notes, st, id, k, old)
         /\ NoneOf(q) => NoneOf(q \o notes)
<1> DEFINE r == q \o notes
<1>1. \A i \in DOMAIN r : (i \in DOMAIN q /\ r[i] = q[i]) \/ (r[i].id = 0 /\ ~r[i].live)
  <2> TAKE i \in DOMAIN r
  <2>1. CASE i <= Len(q)
    BY <2>1
  <2>2. CASE i > Len(q)
    <3>1. i - Len(q) \in DOMAIN notes /\ r[i] = notes[i - Len(q)]
      BY <2>2
    <3> QED BY <3>1
  <2> QED BY <2>1, <2>2
<1> HIDE DEF r
<1>2. \A i \in DOMAIN r : Expected(r[i], st, id, k, old)
  BY <1>1 DEF Box, Expected
<1>3. \A i, j \in DOMAIN r : r[i].live /\ r[j].live => i = j
  BY <1>1 DEF Box
<1>4. NoneOf(q) => NoneOf(r)
  BY <1>1 DEF NoneOf
<1> QED BY <1>2, <1>3, <1>4 DEF Box, r

\* When nothing of it is waited for, only the ids given up matter.
LEMMA BoxMoves ==
  ASSUME NEW q, NEW st, NEW id, NEW k, NEW old, NEW st2, NEW id2, NEW k2, NEW old2,
         Box(q, st, id, k, old), st # "wait" \/ NoneOf(q), old \subseteq old2
  PROVE  Box(q, st2, id2, k2, old2) /\ NoneOf(q)
BY DEF Box, Expected, NoneOf

\* The request waited for is given up.
LEMMA BoxAbandoned ==
  ASSUME NEW q, q \in Seq(Request) \/ q \in Seq(Message \cup Notice),
         NEW id, NEW k, NEW k2, NEW old, Box(q, "wait", id, k, old)
  PROVE  /\ Box(Abandon(q), "got", id, k2, old \cup {id}) /\ NoneOf(Abandon(q))
         /\ DOMAIN Abandon(q) = DOMAIN q
         /\ \A i \in DOMAIN q : Abandon(q)[i] = [q[i] EXCEPT !.live = FALSE]
<1>1. \A i \in DOMAIN q : q[i] \in Request \cup Message \cup Notice
  OBVIOUS
<1>2. \A m \in Request \cup Message \cup Notice :
        [m EXCEPT !.live = FALSE].id = m.id /\ ~[m EXCEPT !.live = FALSE].live
  BY DEF Request, Message, Notice
<1>3. DOMAIN Abandon(q) = DOMAIN q /\ \A i \in DOMAIN q : Abandon(q)[i] = [q[i] EXCEPT !.live = FALSE]
  BY DEF Abandon
<1> DEFINE r == Abandon(q)
<1>4. \A i \in DOMAIN r : r[i].id = q[i].id /\ ~r[i].live
  <2> TAKE i \in DOMAIN r
  <2>1. i \in DOMAIN q /\ r[i] = [q[i] EXCEPT !.live = FALSE]
    BY <1>3
  <2>2. q[i] \in Request \cup Message \cup Notice
    BY <1>1, <2>1
  <2> HIDE DEF r
  <2> QED BY <1>2, <2>1, <2>2
<1> HIDE DEF r
<1>5. \A i \in DOMAIN r : Expected(r[i], "got", id, k2, old \cup {id})
  BY <1>3, <1>4 DEF Box, Expected, r
<1> QED BY <1>3, <1>4, <1>5 DEF Box, NoneOf, r

-----------------------------------------------------------------------------
(* The modem.                                                              *)

LEMMA Told ==
  ASSUME Inv, NEW notes \in Seq(Notice), \A i \in DOMAIN notes : Fits(notes[i]),
         wire' = wire \/ wire' = wire \o notes, UNCHANGED <<inbox, reader, pc, step, tid, rsp>>
  PROVE  wire' \in Seq(Message \cup Notice) /\ Rest'
<1>1. CASE wire' = wire
  BY <1>1 DEF Inv, TypeOK, Rest, Own, Mail, Stale, Older
<1>2. CASE wire' = wire \o notes
  <2> DEFINE S == Message \cup Notice
  <2>1. wire \in Seq(S) /\ notes \in Seq(S)
    BY DEF Inv, TypeOK
  <2>2. \A i \in DOMAIN notes : notes[i].id = 0 /\ ~notes[i].live
    <3>1. \A m \in Notice : m.id = 0 /\ ~m.live
      BY DEF Notice
    <3> QED BY <3>1
  <2>3. Stale' = Stale
    BY DEF Stale, Older
  <2>4. Mail'
    <3> HIDE DEF S
    <3> QED BY <1>2, <2>1, <2>2, <2>3, BoxConcat DEF Inv, Mail
  <2>5. \A i \in DOMAIN wire' : Fits(wire'[i])
    <3> TAKE i \in DOMAIN wire'
    <3>1. CASE i <= Len(wire)
      BY <1>2, <2>1, <3>1 DEF Inv
    <3>2. CASE i > Len(wire)
      <4>1. i - Len(wire) \in DOMAIN notes /\ wire'[i] = notes[i - Len(wire)]
        BY <1>2, <2>1, <3>2
      <4> QED BY <4>1
    <3>3. i \in Nat /\ Len(wire) \in Nat
      BY <1>2, <2>1
    <3> QED BY <3>1, <3>2, <3>3
  <2>6. wire' \in Seq(S) /\ (wire # <<>> => wire' # <<>>)
    BY <1>2, <2>1
  <2> QED BY <2>4, <2>5, <2>6 DEF Inv, Rest, Own
<1> QED BY <1>1, <1>2

\* The modem serves the first request, and may answer it.
Reply(v) == [kind |-> Head(inbox).kind, id |-> Head(inbox).id, val |-> v, live |-> Head(inbox).live]

LEMMA ServedWith ==
  ASSUME Inv, Serve
  PROVE  /\ inbox # <<>> /\ inbox' = Tail(inbox)
         /\ \/ wire' = wire
            \/ \E v \in Values : Fits(Reply(v)) /\ wire' = Append(wire, Reply(v))
<1> DEFINE k == Head(inbox).kind
<1> DEFINE Replies(v) == v \in Values /\ Fits(Reply(v)) /\ wire' = Append(wire, Reply(v))
<1>1. inbox # <<>> /\ inbox' = Tail(inbox)
  BY DEF Serve, Served, ServeClosed, ServeOpen, ServeClose, ServeQuery, ServeAttach, ServeConnect,
         ServeDisconnect, ServeFails
<1>2. Head(inbox) \in Request
  BY <1>1 DEF Inv, TypeOK
<1>3. k \in Kinds /\ Head(inbox).id \in 1 .. MaxId
  BY <1>2 DEF Request
<1>4. \A v : Answer(v) <=> wire' = Append(wire, Reply(v))
  BY DEF Answer, Reply, Kind
<1>5. \A v : v \in Sayable(k) => Fits(Reply(v))
  BY DEF Fits, Reply
<1>6. Fits(Reply(Refused)) /\ Fits(Reply(NotOpened))
  BY <1>3 DEF Fits, Reply
<1>7. /\ Refused \in Values /\ NotOpened \in Values /\ "yes" \in Values
      /\ Found \subseteq Values /\ Activations \subseteq Values /\ Addresses \subseteq Values
  BY DEF Values, Found
<1>8. State \in Activations
  BY DEF State, Activations
<1> HIDE DEF k
<1>9. CASE ServeClosed
  <2>1. Replies(NotOpened)
    BY <1>4, <1>6, <1>7, <1>9 DEF ServeClosed
  <2> QED BY <1>1, <2>1
<1>10. CASE ServeOpen \/ ServeClose
  <2>1. "yes" \in Sayable(k)
    BY <1>10 DEF ServeOpen, ServeClose, Sayable, Kind, StageNames, k
  <2>2. Replies("yes")
    BY <1>4, <1>5, <1>7, <1>10, <2>1 DEF ServeOpen, ServeClose
  <2> QED BY <1>1, <2>2
<1>11. CASE ServeQuery
  <2>1. CASE k = "caps" /\ Answer("yes")
    <3>1. Replies("yes")
      BY <1>4, <1>5, <1>7, <2>1 DEF Sayable, StageNames
    <3> QED BY <1>1, <3>1
  <2>2. CASE k \in StageNames /\ \E v \in Found : Answer(v)
    <3>1. PICK v \in Found : Answer(v)
      BY <2>2
    <3>2. Sayable(k) = Found
      BY <2>2 DEF Sayable, StageNames
    <3>3. Replies(v)
      BY <1>4, <1>5, <1>7, <3>1, <3>2
    <3> QED BY <1>1, <3>3
  <2>3. CASE k = "query" /\ Answer(State)
    <3>1. Replies(State)
      BY <1>4, <1>5, <1>7, <1>8, <2>3 DEF Sayable, StageNames
    <3> QED BY <1>1, <3>1
  <2>4. CASE k = "ipconf" /\ Answer(IF session # None THEN session ELSE Refused)
    <3>1. session # None => Replies(session)
      BY <1>4, <1>5, <1>7, <2>4 DEF Sayable, StageNames, Inv, TypeOK
    <3>2. session = None => Replies(Refused)
      BY <1>4, <1>6, <1>7, <2>4
    <3> QED BY <1>1, <3>1, <3>2
  <2> QED BY <1>11, <2>1, <2>2, <2>3, <2>4 DEF ServeQuery, Kind, k, Found
<1>12. CASE ServeAttach
  <2>1. k = "attach"
    BY <1>12 DEF ServeAttach, Kind, k
  <2>2. Replies("yes") \/ Replies(Refused)
    BY <1>4, <1>5, <1>6, <1>7, <1>12, <2>1 DEF ServeAttach, Sayable, Found, StageNames
  <2> QED BY <1>1, <2>2
<1>13. CASE ServeConnect
  <2>1. k = "connect"
    BY <1>13 DEF ServeConnect, Kind, k
  <2>2. \E v \in {"activated", "activating", Refused} : Answer(v)
    BY <1>13 DEF ServeConnect
  <2>3. PICK v \in {"activated", "activating", Refused} : Answer(v)
    BY <2>2
  <2>4. Replies(v)
    BY <1>4, <1>5, <1>6, <1>7, <2>1, <2>3 DEF Sayable, Activations, StageNames
  <2> QED BY <1>1, <2>4
<1>14. CASE ServeDisconnect
  <2>1. k = "xconnect"
    BY <1>14 DEF ServeDisconnect, Kind, k
  <2>2. Replies("deactivated")
    BY <1>4, <1>5, <1>7, <1>14, <2>1 DEF ServeDisconnect, Sayable, Activations, StageNames
  <2> QED BY <1>1, <2>2
<1>15. CASE ServeFails
  <2>1. wire' = wire \/ Replies(Refused)
    BY <1>4, <1>6, <1>7, <1>15 DEF ServeFails
  <2> QED BY <1>1, <2>1
<1> QED BY <1>9, <1>10, <1>11, <1>12, <1>13, <1>14, <1>15 DEF Serve

LEMMA ServeKeeps ==
  ASSUME Inv, Serve
  PROVE  inbox' \in Seq(Request) /\ wire' \in Seq(Message \cup Notice) /\ Rest'
<1> DEFINE S == Message \cup Notice
<1> DEFINE m == Head(inbox)
<1> DEFINE Of(q) == Box(q, step, tid, pc, Stale)
<1>1. inbox \in Seq(Request) /\ wire \in Seq(S) /\ inbox # <<>> /\ inbox' = Tail(inbox)
  BY ServedWith DEF Inv, TypeOK
<1>2. m \in Request /\ inbox' \in Seq(Request)
  BY <1>1
<1>3. \A v \in Values : /\ Reply(v) \in S
                       /\ Reply(v).kind = m.kind /\ Reply(v).id = m.id /\ Reply(v).live = m.live
  BY <1>2 DEF Reply, Request, Message
<1>4. UNCHANGED <<reader, pc, step, tid, rsp>> /\ Stale' = Stale
  BY DEF Serve, callVars, Stale, Older
<1> HIDE DEF S
<1>5. CASE wire' = wire
  <2>1. Mail'
    <3> SUFFICES ASSUME reader # "gone" PROVE Of(Tail(inbox)) /\ Of(wire) /\ (NoneOf(Tail(inbox)) \/ NoneOf(wire))
      BY <1>1, <1>4, <1>5 DEF Mail
    <3>1. Of(inbox) /\ Of(wire) /\ (NoneOf(inbox) \/ NoneOf(wire))
      BY DEF Inv, Mail
    <3> QED BY <1>1, <3>1, BoxTail
  <2> QED BY <1>1, <1>2, <1>4, <1>5, <2>1 DEF Inv, Rest, Own, S
<1>6. ASSUME NEW v \in Values, Fits(Reply(v)), wire' = Append(wire, Reply(v))
      PROVE  wire' \in Seq(S) /\ Rest'
  <2> DEFINE r == Reply(v)
  <2> HIDE DEF r
  <2>1. wire' = Append(wire, r) /\ Fits(r) /\ r \in S
    BY <1>3, <1>6 DEF r
  <2>2. r.kind = m.kind /\ r.id = m.id /\ r.live = m.live
    BY <1>3 DEF r
  <2>3. Mail'
    <3> SUFFICES ASSUME reader # "gone"
                 PROVE  Of(Tail(inbox)) /\ Of(Append(wire, r)) /\ (NoneOf(Tail(inbox)) \/ NoneOf(Append(wire, r)))
      BY <1>1, <1>4, <2>1 DEF Mail
    <3>1. Of(inbox) /\ Of(wire) /\ (NoneOf(inbox) \/ NoneOf(wire))
      BY DEF Inv, Mail
    <3>2. /\ Of(Tail(inbox)) /\ Expected(m, step, tid, pc, Stale)
          /\ NoneOf(inbox) \/ m.live => NoneOf(Tail(inbox))
          /\ NoneOf(inbox) => ~m.live
      BY <1>1, <3>1, BoxTail
    <3>3. Expected(r, step, tid, pc, Stale)
      BY <2>2, <3>2 DEF Expected
    <3>4. NoneOf(wire) \/ ~r.live
      BY <2>2, <3>1, <3>2
    <3>5. Of(Append(wire, r)) /\ (NoneOf(wire) /\ ~r.live => NoneOf(Append(wire, r)))
      BY <1>1, <2>1, <3>1, <3>3, <3>4, BoxAppend
    <3> QED BY <2>2, <3>1, <3>2, <3>5
  <2>4. \A i \in DOMAIN wire' : Fits(wire'[i])
    <3>1. \A i \in DOMAIN wire' : (i \in DOMAIN wire /\ wire'[i] = wire[i]) \/ wire'[i] = r
      BY <1>1, <2>1
    <3> QED BY <2>1, <3>1 DEF Inv
  <2>5. wire' \in Seq(S) /\ wire' # <<>>
    BY <1>1, <2>1
  <2> QED BY <1>4, <2>3, <2>4, <2>5 DEF Inv, Rest, Own
<1> QED BY <1>1, <1>2, <1>5, <1>6, ServedWith DEF S

-----------------------------------------------------------------------------
(* The reader thread.                                                      *)

\* A message less.
LEMMA Handled ==
  ASSUME Inv, wire # <<>>, wire' = Tail(wire)
  PROVE  /\ wire' \in Seq(Message \cup Notice) /\ Head(wire) \in Message \cup Notice
         /\ Fits(Head(wire))
         /\ \A i \in DOMAIN wire' : Fits(wire'[i])
<1>1. wire \in Seq(Message \cup Notice)
  BY DEF Inv, TypeOK
<1>2. \A i \in DOMAIN wire' : i + 1 \in DOMAIN wire /\ wire'[i] = wire[i + 1]
  BY <1>1
<1>3. 1 \in DOMAIN wire /\ Head(wire) = wire[1]
  BY <1>1
<1> QED BY <1>1, <1>2, <1>3 DEF Inv

\* The answer delivered is the one main waits for: an answer to a request given up has
\* another id.
LEMMA Delivered ==
  ASSUME Inv, reader = "busy", Head(wire).id # 0, Awaited(Head(wire).id)
  PROVE  /\ Head(wire).live /\ Head(wire).kind = pc /\ step = "wait" /\ pc \in Kinds
         /\ NoneOf(Tail(wire)) /\ NoneOf(inbox)
<1>1. wire \in Seq(Message \cup Notice) /\ wire # <<>> /\ tid \in 1 .. MaxId
  BY DEF Inv, TypeOK
<1>2. pc \in Kinds /\ step \in {"wait", "woken"} /\ tid = Head(wire).id
  BY DEF Inv, Own, Awaited
<1>3. tid \notin Stale
  <2>1. Prev(tid) # tid /\ Prev(Prev(tid)) # tid
    BY <1>1 DEF Prev
  <2>2. pc \notin {"exit", "kill", "join", "ended", "crashed"}
    BY <1>2 DEF Kinds, Commands, StageNames
  <2>3. tid \notin Older
    BY <2>1, <2>2, Zenon DEF Older
  <2> QED BY <1>2, <2>3 DEF Stale
<1>4. Box(wire, step, tid, pc, Stale) /\ (NoneOf(inbox) \/ NoneOf(wire))
  BY DEF Inv, Mail
<1>5. /\ Expected(Head(wire), step, tid, pc, Stale)
      /\ NoneOf(wire) => ~Head(wire).live
      /\ Head(wire).live => NoneOf(Tail(wire))
  BY <1>1, <1>4, BoxTail
<1> QED BY <1>2, <1>3, <1>4, <1>5 DEF Expected

\* A signal on the condition variable moves a main that sleeps, and no request.
LEMMA Notified ==
  ASSUME Inv, Notify
  PROVE  /\ pc' = pc \/ (pc = "wait" /\ pc' = "settle" /\ step = "call" /\ rsp = NoAnswer)
         /\ step # "call" => pc' = pc /\ pc' \in Kinds
BY DEF Inv, Own, Notify, Kinds, Commands, StageNames

\* Rest is of the queues, the request and where main is; while no request is waited for,
\* main may move on if it forgets no request given up.
LEMMA RestMoves ==
  ASSUME Inv, UNCHANGED <<inbox, wire, reader>>, step # "wait", Stale \subseteq Stale', Own'
  PROVE  Rest'
<1>1. Mail'
  <2> SUFFICES ASSUME reader # "gone"
               PROVE  /\ Box(inbox, step', tid', pc', Stale') /\ Box(wire, step', tid', pc', Stale')
                      /\ NoneOf(inbox) \/ NoneOf(wire)
    BY DEF Mail
  <2>1. Box(inbox, step, tid, pc, Stale) /\ Box(wire, step, tid, pc, Stale)
    BY DEF Inv, Mail
  <2> QED BY <2>1, BoxMoves
<1> QED BY <1>1 DEF Inv, Rest

\* The end of the reader: no answer is delivered any more.
LEMMA RestEnds ==
  ASSUME Inv, ReaderEnds, step # "call" => pc' = pc
  PROVE  Rest'
BY DEF Inv, Rest, ReaderEnds, Own, Mail

LEMMA TakesKeeps == ASSUME Inv, ReaderTakes PROVE Rest'
BY DEF Inv, Rest, ReaderTakes, Own, Mail, Stale, Older, callVars

LEMMA HandlesKeeps == ASSUME Inv, ReaderHandles PROVE Rest'
<1> DEFINE m == Head(wire)
<1>1. reader = "busy" /\ reader' = "poll" /\ wire # <<>> /\ wire' = Tail(wire) /\ UNCHANGED <<inbox, tid>>
  BY DEF ReaderHandles, Inv
<1>2. wire \in Seq(Message \cup Notice) /\ Fits(m) /\ \A i \in DOMAIN wire' : Fits(wire'[i])
  BY <1>1, Handled DEF Inv, TypeOK
<1>3. /\ Box(inbox, step, tid, pc, Stale) /\ Box(Tail(wire), step, tid, pc, Stale)
      /\ NoneOf(inbox) \/ NoneOf(Tail(wire))
  <2>1. /\ Box(inbox, step, tid, pc, Stale) /\ Box(wire, step, tid, pc, Stale)
        /\ NoneOf(inbox) \/ NoneOf(wire)
    BY <1>1 DEF Inv, Mail
  <2> QED BY <1>1, <1>2, <2>1, BoxTail
<1>4. CASE m.id # 0 /\ Awaited(m.id)
  <2>1. rsp' = m /\ step' = "woken" /\ pc' = pc
    BY <1>4 DEF ReaderHandles, Deliver
  <2>2. m.live /\ m.kind = pc /\ step = "wait" /\ pc \in Kinds /\ NoneOf(Tail(wire)) /\ NoneOf(inbox)
    BY <1>1, <1>4, Delivered
  <2>3. Stale' = Stale
    BY <1>1, <2>1, <2>2 DEF Stale, Older
  <2>4. Mail'
    BY <1>1, <1>3, <2>2, <2>3, BoxMoves DEF Mail
  <2>5. Own'
    BY <1>2, <2>1, <2>2 DEF Own, Fits, Sayable
  <2> QED BY <1>1, <1>2, <2>4, <2>5 DEF Rest
<1>5. CASE ~(m.id # 0 /\ Awaited(m.id))
  <2>1. UNCHANGED <<rsp, step>> /\ (Notify \/ UNCHANGED pc)
    BY <1>5 DEF ReaderHandles, Indication
  <2>2. pc' = pc \/ (pc = "wait" /\ pc' = "settle" /\ step = "call" /\ rsp = NoAnswer)
    BY <2>1, Notified
  <2>3. Stale' = Stale /\ Own'
    BY <1>1, <2>1, <2>2 DEF Stale, Older, Inv, Own
  <2>4. Mail'
    <3>1. CASE pc' = pc
      BY <1>1, <1>3, <2>1, <2>3, <3>1 DEF Mail
    <3>2. CASE step = "call"
      BY <1>1, <1>3, <2>1, <2>3, <3>2, BoxMoves DEF Mail
    <3> QED BY <2>2, <3>1, <3>2
  <2> QED BY <1>1, <1>2, <2>3, <2>4 DEF Rest
<1> QED BY <1>4, <1>5

LEMMA HangUpKeeps == ASSUME Inv, HangUp PROVE Rest'
BY RestEnds, Notified DEF HangUp

LEMMA SignalKeeps == ASSUME Inv, Signal PROVE Rest'
<1>1. CASE reader = "poll" /\ Notify /\ ReaderEnds
  BY <1>1, RestEnds, Notified
<1>2. CASE UNCHANGED <<inbox, wire, step, rsp, tid>> /\ (reader' = reader \/ (reader = "busy" /\ reader' = "stuck"))
           /\ (Notify \/ UNCHANGED pc \/ (pc \in {"idle", "settle"} /\ pc' = "stuck"))
  <2>1. \/ pc' = pc
        \/ pc \in {"wait", "idle", "settle"} /\ pc' \in {"settle", "stuck"} /\ step = "call" /\ rsp = NoAnswer
    BY <1>2, Notified DEF Inv, Own, Kinds, Commands, StageNames
  <2>2. Stale' = Stale /\ Own'
    BY <1>2, <2>1 DEF Stale, Older, Inv, Own
  <2>3. Mail'
    <3>1. CASE pc' = pc
      BY <1>2, <2>2, <3>1 DEF Mail, Inv
    <3>2. CASE step = "call"
      BY <1>2, <2>2, <3>2, BoxMoves DEF Mail, Inv
    <3> QED BY <2>1, <3>1, <3>2
  <2> QED BY <1>2, <2>2, <2>3 DEF Rest, Inv
<1> QED BY <1>1, <1>2 DEF Signal

-----------------------------------------------------------------------------
(* A request of main.                                                      *)

LEMMA SendKeeps ==
  ASSUME Inv, NEW k \in Kinds, Send(k)
  PROVE  inbox' \in Seq(Request) /\ Rest'
<1>1. /\ pc = k /\ step = "call" /\ rsp' = NoAnswer /\ UNCHANGED <<wire, reader, pc, tid>>
      /\ inbox \in Seq(Request) /\ tid \in 1 .. MaxId
  BY DEF Send, readerVars, Inv, TypeOK
<1>2. CASE gone
  <2>1. step' = "got" /\ inbox' = inbox
    BY <1>2 DEF Send
  <2>2. Stale \subseteq Stale' /\ Own'
    BY <1>1, <2>1 DEF Stale, Older, Inv, Own
  <2> QED BY <1>1, <2>1, <2>2, RestMoves
<1>3. CASE ~gone
  <2> DEFINE r == [kind |-> k, id |-> tid, live |-> TRUE]
  <2>1. step' = "wait" /\ inbox' = Append(inbox, r)
    BY <1>3 DEF Send
  <2>2. r \in Request /\ r.live /\ r.id = tid /\ r.kind = pc
    BY <1>1 DEF Request
  <2> HIDE DEF r
  <2>3. Stale' = Stale /\ Own'
    BY <1>1, <2>1 DEF Stale, Older, Inv, Own
  <2>4. Mail'
    <3> SUFFICES ASSUME reader # "gone"
                 PROVE  /\ Box(Append(inbox, r), "wait", tid, pc, Stale) /\ Box(wire, "wait", tid, pc, Stale)
                        /\ NoneOf(wire)
      BY <1>1, <2>1, <2>3 DEF Mail
    <3>1. Box(inbox, "wait", tid, pc, Stale) /\ Box(wire, "wait", tid, pc, Stale) /\ NoneOf(inbox) /\ NoneOf(wire)
      BY <1>1, BoxMoves DEF Inv, Mail
    <3>2. Expected(r, "wait", tid, pc, Stale)
      BY <2>2 DEF Expected
    <3> QED BY <1>1, <2>2, <3>1, <3>2, BoxAppend
  <2>5. inbox' \in Seq(Request)
    BY <1>1, <2>1, <2>2
  <2> QED BY <1>1, <2>3, <2>4, <2>5 DEF Rest, Inv
<1> QED BY <1>2, <1>3

GivenUp(m) == [m EXCEPT !.live = FALSE]

LEMMA TimeoutKeeps ==
  ASSUME Inv, Timeout
  PROVE  inbox' \in Seq(Request) /\ wire' \in Seq(Message \cup Notice) /\ Rest'
<1> DEFINE S == Message \cup Notice
<1>1. /\ step = "wait" /\ step' = "got" /\ rsp' = NoAnswer /\ UNCHANGED <<reader, pc, tid>>
      /\ inbox' = Abandon(inbox) /\ wire' = Abandon(wire)
      /\ inbox \in Seq(Request) /\ wire \in Seq(S)
  BY DEF Timeout, Inv, TypeOK
<1>2. Stale' = Stale \cup {tid} /\ Own'
  BY <1>1 DEF Stale, Older, Inv, Own
<1>3. \A m \in Request : GivenUp(m) \in Request
  BY DEF Request, GivenUp
<1>4. \A m \in S : GivenUp(m) \in S /\ (Fits(m) => Fits(GivenUp(m)))
  BY DEF Message, Notice, Fits, GivenUp
<1> HIDE DEF S
<1>5. inbox' \in Seq(Request)
  <2>1. inbox' = [i \in 1 .. Len(inbox) |-> GivenUp(inbox[i])]
    BY <1>1 DEF Abandon, GivenUp
  <2> QED BY <1>1, <1>3, <2>1
<1>6. wire' \in Seq(S) /\ DOMAIN wire' = DOMAIN wire /\ \A i \in DOMAIN wire : wire'[i] = GivenUp(wire[i])
  <2>1. wire' = [i \in 1 .. Len(wire) |-> GivenUp(wire[i])]
    BY <1>1 DEF Abandon, GivenUp
  <2> QED BY <1>1, <1>4, <2>1
<1>7. \A i \in DOMAIN wire' : Fits(wire'[i])
  <2> TAKE i \in DOMAIN wire'
  <2>1. wire[i] \in S /\ Fits(wire[i])
    BY <1>1, <1>6 DEF Inv
  <2> QED BY <1>4, <1>6, <2>1
<1>8. Mail'
  BY <1>1, <1>2, BoxAbandoned DEF Mail, Inv, S
<1>9. wire # <<>> => wire' # <<>>
  BY <1>1, <1>6
<1> QED BY <1>1, <1>2, <1>5, <1>6, <1>7, <1>8, <1>9 DEF Rest, Inv, S

LEMMA WakeKeeps == ASSUME Inv, Wake PROVE Rest'
<1>1. step = "woken" /\ step' = "got" /\ UNCHANGED <<inbox, wire, reader, pc, tid, rsp>>
  BY DEF Wake, readerVars
<1>2. Stale \subseteq Stale' /\ Own'
  BY <1>1 DEF Stale, Older, Inv, Own
<1> QED BY <1>1, <1>2, RestMoves

-----------------------------------------------------------------------------
(* The loop.                                                               *)

\* The states of the loop in which main has no request, and what they know of none.
LEMMA Idle ==
  ASSUME Inv, pc \notin Kinds
  PROVE  step = "call" /\ rsp = NoAnswer /\ Stale = Older
BY DEF Inv, Own, Stale

LEMMA PrevOfNext == ASSUME TypeOK PROVE NextId \in 1 .. MaxId /\ Prev(NextId) = tid
BY DEF TypeOK, NextId, Prev

\* main is done with an answer, or with a request that got none: in the loop that is the
\* way to the exit.
LEMMA UsedKeeps ==
  ASSUME Inv, step = "got", Used, UNCHANGED <<inbox, wire, reader>>,
         \/ rsp # NoAnswer /\ pc \notin {"xconnect", "close"}
         \/ pc \notin {"xconnect", "close"} /\ pc' = "exit"
         \/ pc = "xconnect" /\ pc' = "close"
         \/ pc = "close" /\ pc' = "kill"
  PROVE  Rest'
<1>1. TypeOK /\ tid' = NextId /\ step' = "call" /\ rsp' = NoAnswer /\ pc \in Kinds
  BY DEF Inv, Own, Used
<1>2. Own'
  BY <1>1 DEF Own
<1>3. tid' \in 1 .. MaxId /\ Prev(tid') = tid
  BY <1>1, PrevOfNext
<1>4. Stale \subseteq Stale'
  <2>1. CASE rsp # NoAnswer /\ pc \notin {"xconnect", "close"}
    BY <1>1, <2>1 DEF Stale, Older, Kinds, Commands, StageNames
  <2>2. CASE pc \notin {"xconnect", "close"} /\ pc' = "exit"
    BY <1>1, <1>3, <2>2 DEF Stale, Older, Kinds, Commands, StageNames
  <2>3. CASE pc = "xconnect" /\ pc' = "close"
    BY <1>3, <2>3 DEF Stale, Older
  <2>4. CASE pc = "close" /\ pc' = "kill"
    BY <1>1, <2>4 DEF Stale, Older, Prev, TypeOK
  <2> QED BY <2>1, <2>2, <2>3, <2>4
<1> QED BY <1>2, <1>4, RestMoves

LEMMA LoopKeeps ==
  ASSUME Inv, Top \/ Sleep \/ WaitEnds \/ Settle \/ Exit \/ Join
  PROVE  Rest'
<1>1. pc \in {"top", "idle", "wait", "settle", "exit", "join"}
  BY DEF Top, Sleep, WaitEnds, Settle, Exit, Join
<1>2. step = "call" /\ rsp = NoAnswer /\ Stale = Older
  BY <1>1, Idle DEF Kinds, Commands, StageNames
<1>3. UNCHANGED <<inbox, wire, reader, step, rsp>>
  BY DEF Top, Sleep, WaitEnds, Settle, Exit, Join, readerVars, callVars
<1>4. Own'
  BY <1>2, <1>3 DEF Own
<1>5. Older \subseteq Older'
  <2>1. CASE pc \in {"top", "idle", "wait", "settle"}
    BY <2>1 DEF Older
  <2>2. CASE pc = "exit"
    <3>1. tid' = tid /\ pc' \in {"ended", "xconnect", "close"} /\ tid \in 1 .. MaxId
      BY <2>2 DEF Top, Sleep, WaitEnds, Settle, Exit, Join, callVars, Inv, TypeOK
    <3> QED BY <2>2, <3>1 DEF Older, Prev
  <2>3. CASE pc = "join"
    <3>1. pc' = "ended"
      BY <2>3 DEF Top, Sleep, WaitEnds, Settle, Exit, Join
    <3> QED BY <2>3, <3>1 DEF Older
  <2> QED BY <1>1, <2>1, <2>2, <2>3
<1>6. Stale' = Older'
  BY <1>2, <1>3 DEF Stale
<1> QED BY <1>2, <1>3, <1>4, <1>5, <1>6, RestMoves

LEMMA KillKeeps == ASSUME Inv, KillReader PROVE Rest'
<1>1. pc = "kill" /\ pc' \in {"join", "crashed"} /\ tid' = tid
  BY DEF KillReader
<1>2. step = "call" /\ rsp = NoAnswer /\ Stale = Older
  BY <1>1, Idle DEF Kinds, Commands, StageNames
<1>3. CASE ReaderEnds
  BY <1>2, <1>3, RestEnds
<1>4. CASE UNCHANGED <<wire, reader, quit, step, rsp>>
  <2>1. UNCHANGED inbox /\ Own' /\ Stale \subseteq Stale'
    BY <1>1, <1>2, <1>4 DEF Own, Stale, Older, KillReader
  <2> QED BY <1>2, <1>4, <2>1, RestMoves
<1> QED BY <1>3, <1>4 DEF KillReader

LEMMA AnswersKeep ==
  ASSUME Inv, \/ Failed \/ Opened \/ Caps \/ Attach \/ QueryConnect \/ Connect \/ IpConfig
              \/ Disconnect \/ Close \/ \E s \in StageNames : Stage(s)
  PROVE  Rest'
<1>1. step = "got" /\ Used /\ UNCHANGED <<inbox, wire, reader>>
  BY DEF Failed, Opened, Caps, Attach, QueryConnect, Connect, IpConfig, Disconnect, Close, Stage,
         Take, Taken, readerVars
<1>2. CASE Failed
  BY <1>1, <1>2, UsedKeeps DEF Failed
<1>3. CASE Disconnect
  BY <1>1, <1>3, UsedKeeps DEF Disconnect
<1>4. CASE Close
  BY <1>1, <1>4, UsedKeeps DEF Close
<1>5. CASE ~(Failed \/ Disconnect \/ Close)
  <2>1. rsp # NoAnswer /\ pc \notin {"xconnect", "close"}
    BY <1>5 DEF Opened, Caps, Attach, QueryConnect, Connect, IpConfig, Stage, Take, StageNames
  <2> QED BY <1>1, <2>1, UsedKeeps
<1> QED BY <1>2, <1>3, <1>4, <1>5

-----------------------------------------------------------------------------
(* Types.                                                                  *)

Phases == Kinds \cup {"top", "idle", "wait", "settle", "exit", "kill", "join", "ended", "crashed", "stuck"}
Queues == inbox \in Seq(Request) /\ wire \in Seq(Message \cup Notice)

LEMMA PlacesArePhases == Places \subseteq Phases
BY DEF Places, Phases, Kinds, Commands, StageNames

\* What an answer main uses says is of its request.
LEMMA AnswerFits ==
  ASSUME Inv, rsp # NoAnswer
  PROVE  /\ pc \in StageNames \cup {"attach"} => rsp.val \in Found \cup {Refused, NotOpened}
         /\ pc \in {"query", "connect", "xconnect"} => rsp.val \in Activations \cup {Refused, NotOpened}
         /\ pc = "ipconf" => rsp.val \in Addresses \cup {Refused, NotOpened}
BY DEF Inv, Own, Fits, Sayable, StageNames

\* An answer has an id, an indication has none.
LEMMA Messages ==
  /\ \A m \in Message \cup Notice : IF m.id = 0 THEN m.kind \in StageNames \cup {"act"} ELSE m \in Message
  /\ \A m \in Message : m.id # 0
<1>1. \A m \in Message : m.id # 0
  BY DEF Message
<1>2. \A m \in Notice : m.id = 0 /\ m.kind \in StageNames \cup {"act"}
  BY DEF Notice
<1> QED BY <1>1, <1>2

LEMMA ReaderTypes ==
  ASSUME Inv, ReaderTakes \/ ReaderHandles \/ HangUp \/ Signal
  PROVE  TypeOK'
<1> USE DEF Inv, TypeOK
<1>1. CASE ReaderTakes
  BY <1>1 DEF ReaderTakes, modemVars, stateVars, callVars
<1>2. CASE ReaderHandles
  <2> DEFINE m == Head(wire)
  <2>1. /\ wire' \in Seq(Message \cup Notice) /\ m \in Message \cup Notice /\ Fits(m)
    BY <1>2, Handled DEF ReaderHandles
  <2>2. m.id # 0 => m \in Message
    BY <2>1, Messages
  <2>3. m.id = 0 => m.kind \in StageNames \cup {"act"}
    BY <2>1, Messages
  <2>4. m.id = 0 => m.val \in Sayable(m.kind)
    BY <2>1 DEF Fits
  <2>5. m.id = 0 => IF m.kind = "act" THEN m.val \in Activations ELSE m.kind \in StageNames /\ m.val \in Found
    BY <2>3, <2>4 DEF Sayable, StageNames
  <2>6. /\ rsp' \in Message \cup {NoAnswer} /\ step' \in {"call", "wait", "woken", "got"}
        /\ known' \in [StageNames -> Found] /\ act' \in Activations /\ missed' \subseteq Excuses
    <3>1. CASE m.id # 0 /\ Awaited(m.id)
      BY <1>2, <2>2, <3>1 DEF ReaderHandles, Deliver, stateVars
    <3>2. CASE m.id = 0
      BY <1>2, <2>5, <3>2 DEF ReaderHandles, Indication, Excuses
    <3>3. CASE ~(m.id # 0 /\ Awaited(m.id)) /\ m.id # 0
      BY <1>2, <3>3 DEF ReaderHandles, stateVars
    <3> QED BY <3>1, <3>2, <3>3
  <2>7. pc' = pc \/ pc' = "settle"
    BY <1>2 DEF ReaderHandles, Deliver, Indication, Notify
  <2> QED BY <1>2, <2>1, <2>6, <2>7 DEF ReaderHandles, modemVars
<1>3. CASE HangUp
  BY <1>3 DEF HangUp, ReaderEnds, Notify, modemVars, stateVars
<1>4. CASE Signal
  BY <1>4 DEF Signal, ReaderEnds, Notify, Fault, modemVars, stateVars
<1> QED BY <1>1, <1>2, <1>3, <1>4

LEMMA RequestTypes ==
  ASSUME Inv, Queues', Timeout \/ Wake \/ \E k \in Kinds : Send(k)
  PROVE  TypeOK'
<1> USE DEF Inv, TypeOK, Queues, modemVars, readerVars, stateVars
<1>1. CASE Timeout
  BY <1>1 DEF Timeout, Fault
<1>2. CASE Wake
  BY <1>2 DEF Wake
<1>3. ASSUME NEW k \in Kinds, Send(k) PROVE TypeOK'
  BY <1>3 DEF Send
<1> QED BY <1>1, <1>2, <1>3

LEMMA LoopTypes ==
  ASSUME Inv, Top \/ Sleep \/ WaitEnds \/ Settle \/ Exit \/ Join \/ KillReader
  PROVE  TypeOK'
<1>0. TypeOK
  BY DEF Inv
<1> USE DEF modemVars, readerVars, stateVars, callVars
<1>1. CASE Top
  <2>1. From(1) \in Phases /\ {"exit", "open"} \subseteq Phases
    BY FromIsPlace, PlacesArePhases DEF Inv, Phases, Kinds
  <2>2. pc' \in Phases
    BY <1>1, <2>1 DEF Top
  <2>3. tid' \in 1 .. MaxId
    BY <1>0, <1>1 DEF Top, TypeOK
  <2>4. iface' \in Addresses \cup {None, Junk}
    BY <1>0, <1>1 DEF Top, TypeOK
  <2>5. soon' \in BOOLEAN
    BY <1>1 DEF Top
  <2>6. UNCHANGED <<modemVars, inbox, readerVars, stateVars, open, step, rsp, missed, faults>>
    BY <1>1 DEF Top
  <2> QED BY <1>0, <2>2, <2>3, <2>4, <2>5, <2>6 DEF TypeOK, Phases
<1> USE DEF Inv, TypeOK
<1>2. CASE Sleep \/ WaitEnds \/ Settle
  BY <1>2 DEF Sleep, WaitEnds, Settle
<1>3. CASE Exit
  <2>1. pc' \in Phases
    BY <1>3 DEF Exit, Phases, Kinds, Commands
  <2> QED BY <1>3, <2>1 DEF Exit, Phases
<1>4. CASE Join
  BY <1>4 DEF Join
<1>5. CASE KillReader
  <2>1. /\ pc' \in {"join", "crashed"} /\ reader' \in {"poll", "busy", "stuck", "gone"} /\ quit' \in BOOLEAN
        /\ step' \in {"call", "wait", "woken", "got"} /\ UNCHANGED <<wire, rsp>>
    BY <1>5 DEF KillReader, ReaderEnds
  <2> QED BY <1>5, <2>1 DEF KillReader
<1> QED BY <1>1, <1>2, <1>3, <1>4, <1>5

LEMMA AnswerTypes ==
  ASSUME Inv, \/ Failed \/ Opened \/ Caps \/ Attach \/ QueryConnect \/ Connect \/ IpConfig
              \/ Disconnect \/ Close \/ \E s \in StageNames : Stage(s)
  PROVE  TypeOK'
<1>1. /\ step' = "call" /\ rsp' = NoAnswer /\ tid' \in 1 .. MaxId
      /\ UNCHANGED <<gone, opened, level, session, dialing, inbox, wire, reader, quit, faults>>
  <2>1. Used
    BY DEF Failed, Opened, Caps, Attach, QueryConnect, Connect, IpConfig, Disconnect, Close, Stage, Take
  <2>2. UNCHANGED <<modemVars, inbox, readerVars, faults>>
    BY DEF Failed, Opened, Caps, Attach, QueryConnect, Connect, IpConfig, Disconnect, Close, Stage, Taken
  <2> QED BY <2>1, <2>2, PrevOfNext DEF Inv, Used, modemVars, readerVars
<1>2. StillOpen \in BOOLEAN
  BY DEF StillOpen, Inv, TypeOK
<1>3. pc' \in Phases /\ open' \in BOOLEAN
  <2> USE DEF Phases, Kinds, Commands, StageNames
  <2>1. \A i \in Nat \ {0} : From(i) \in Phases
    BY FromIsPlace, PlacesArePhases
  <2>2. CASE Failed \/ Opened \/ Connect \/ IpConfig \/ Disconnect \/ Close
    BY <1>2, <2>2 DEF Failed, Opened, Connect, IpConfig, Disconnect, Close, Configure, Taken, Inv, TypeOK
  <2>3. CASE Caps \/ Attach \/ QueryConnect
    BY <1>2, <2>1, <2>3, PlaceOf DEF Caps, Attach, QueryConnect, Taken
  <2>4. ASSUME NEW s \in StageNames, Stage(s) PROVE pc' \in Phases /\ open' \in BOOLEAN
    <3>1. Place(s) + 1 \in Nat \ {0}
      BY PlaceOf
    <3> QED BY <1>2, <2>1, <2>4, <3>1 DEF Stage, Taken
  <2> QED BY <2>2, <2>3, <2>4
<1>4. known' \in [StageNames -> Found] /\ act' \in Activations
  <2> USE DEF Inv, TypeOK
  <2>1. CASE Opened
    BY <2>1 DEF Opened, Found, Activations
  <2>2. CASE Failed \/ Caps \/ IpConfig \/ Close
    BY <2>2 DEF Failed, Caps, IpConfig, Close, stateVars
  <2>3. CASE Attach
    <3>1. Says(rsp.val, known["ps"], Found) \subseteq Found
      BY <2>3, AnswerFits, SaysWhat DEF Attach, Take, StageNames
    <3> QED BY <2>3, <3>1 DEF Attach
  <2>4. ASSUME NEW s \in StageNames, Stage(s)
        PROVE  known' \in [StageNames -> Found] /\ act' \in Activations
    <3>1. Says(rsp.val, known[s], Found) \subseteq Found
      BY <2>4, AnswerFits, SaysWhat DEF Stage, Take
    <3> QED BY <2>4, <3>1 DEF Stage
  <2>5. CASE QueryConnect \/ Connect \/ (Disconnect /\ rsp # NoAnswer)
    <3>1. Says(rsp.val, act, Activations) \subseteq Activations
      BY <2>5, AnswerFits, SaysWhat DEF QueryConnect, Connect, Disconnect, Take
    <3> QED BY <2>5, <3>1 DEF QueryConnect, Connect, Disconnect
  <2>6. CASE Disconnect /\ rsp = NoAnswer
    BY <2>6 DEF Disconnect
  <2> QED BY <2>1, <2>2, <2>3, <2>4, <2>5, <2>6
<1>5. iface' \in Addresses \cup {None, Junk} /\ soon' \in BOOLEAN /\ missed' \subseteq Excuses
  <2> USE DEF Inv, TypeOK, Taken
  <2>1. CASE Failed \/ Opened \/ Disconnect \/ Close \/ Connect
    BY <2>1 DEF Failed, Opened, Disconnect, Close, Connect
  <2>2. CASE Caps \/ Attach \/ QueryConnect \/ \E s \in StageNames : Stage(s)
    BY <2>2 DEF Caps, Attach, QueryConnect, Stage, Excuses
  <2>3. CASE IpConfig
    <3>1. rsp.val \in Addresses \cup {Refused, NotOpened}
      BY <2>3, AnswerFits DEF IpConfig, Take
    <3>2. Says(rsp.val, iface, {Junk}) \subseteq Addresses \cup {None, Junk}
      BY <3>1 DEF Says
    <3> QED BY <2>3, <3>2 DEF IpConfig, Excuses
  <2> QED BY <2>1, <2>2, <2>3
<1> QED BY <1>1, <1>3, <1>4, <1>5 DEF Inv, TypeOK, Phases

Indications == {m \in Notice : Fits(m)}

LEMMA IndicationsFit ==
  /\ \A s \in StageNames, v \in Found : Note(s, v) \in Indications
  /\ \A v \in Activations : Note("act", v) \in Indications
BY DEF Indications, Notice, Note, Fits, Sayable, Values, StageNames

\* What the network does is told in indications, if at all.
LEMMA MovesTell ==
  ASSUME TypeOK, NetworkMoves
  PROVE  \E notes \in Seq(Indications) : Tell(notes)
<1>1. PICK l \in 0 .. 3 :
        LET stages == IF l > level THEN SubSeq(Stages, level + 1, l) ELSE SubSeq(Stages, l + 1, level)
            notes == [i \in DOMAIN stages |-> Note(stages[i], IF l > level THEN "yes" ELSE "no")]
        IN Tell(IF l < 3 /\ State # "deactivated" THEN Append(notes, Note("act", "deactivated")) ELSE notes)
  BY DEF NetworkMoves
<1> DEFINE stages == IF l > level THEN SubSeq(Stages, level + 1, l) ELSE SubSeq(Stages, l + 1, level)
<1> DEFINE said == IF l > level THEN "yes" ELSE "no"
<1> DEFINE notes == [i \in DOMAIN stages |-> Note(stages[i], said)]
<1> DEFINE lost == Note("act", "deactivated")
<1>2. level \in 0 .. 3
  BY DEF TypeOK
<1>3. \A i \in 1 .. 3 : Stages[i] \in StageNames
  BY DEF Stages, StageNames
<1>4. stages \in Seq(StageNames)
  <2>1. CASE l > level
    BY <1>2, <1>3, <2>1, SubSeqProperties
  <2>2. CASE ~(l > level)
    BY <1>2, <1>3, <2>2, SubSeqProperties
  <2> QED BY <2>1, <2>2
<1>5. said \in Found
  BY DEF Found
<1> HIDE DEF stages, said
<1>6. notes \in Seq(Indications)
  <2>1. DOMAIN stages = 1 .. Len(stages) /\ Len(stages) \in Nat
    BY <1>4
  <2>2. \A i \in DOMAIN stages : Note(stages[i], said) \in Indications
    BY <1>4, <1>5, IndicationsFit
  <2> QED BY <2>1, <2>2
<1>7. lost \in Indications
  BY IndicationsFit DEF Activations
<1>8. Tell(IF l < 3 /\ State # "deactivated" THEN Append(notes, lost) ELSE notes)
  BY <1>1 DEF stages, said
<1> HIDE DEF notes, lost
<1>9. Append(notes, lost) \in Seq(Indications)
  BY <1>6, <1>7
<1> QED BY <1>6, <1>8, <1>9

\* Every step of the network and of the modem alone, but for the requests it serves.
LEMMA NetworkKeeps ==
  ASSUME Inv, NetworkMoves \/ Drop \/ Activates \/ Suspends \/ Unplug
  PROVE  TypeOK' /\ Rest'
<1>1. UNCHANGED <<inbox, reader, pc, step, tid, rsp>>
  BY DEF NetworkMoves, Drop, Activates, Suspends, Unplug, readerVars, callVars
<1>2. \E notes \in Seq(Indications) : wire' = wire \/ wire' = wire \o notes
  <2>1. CASE NetworkMoves
    BY <2>1, MovesTell DEF Tell, Inv
  <2>2. CASE Drop
    <3>1. <<Note("act", "deactivated")>> \in Seq(Indications)
      BY IndicationsFit DEF Activations
    <3> QED BY <2>2, <3>1 DEF Drop, Tell
  <2>3. CASE Activates
    <3>1. <<Note("act", "activated")>> \in Seq(Indications)
      BY IndicationsFit DEF Activations
    <3> QED BY <2>3, <3>1 DEF Activates, Tell
  <2>4. CASE Suspends \/ Unplug
    <3>1. wire' = wire /\ <<>> \in Seq(Indications)
      BY <2>4 DEF Suspends, Unplug, readerVars
    <3> QED BY <3>1
  <2> QED BY <2>1, <2>2, <2>3, <2>4
<1>3. wire' \in Seq(Message \cup Notice) /\ Rest'
  <2>1. PICK notes \in Seq(Indications) : wire' = wire \/ wire' = wire \o notes
    BY <1>2
  <2>2. notes \in Seq(Notice) /\ \A i \in DOMAIN notes : Fits(notes[i])
    <3>1. \A i \in DOMAIN notes : notes[i] \in Indications
      OBVIOUS
    <3>2. Indications \subseteq Notice /\ \A m \in Indications : Fits(m)
      BY DEF Indications
    <3>3. DOMAIN notes = 1 .. Len(notes) /\ Len(notes) \in Nat /\ notes = [i \in 1 .. Len(notes) |-> notes[i]]
      OBVIOUS
    <3> HIDE DEF Indications
    <3> QED BY <3>1, <3>2, <3>3
  <2> QED BY <1>1, <2>1, <2>2, Told
<1>4. TypeOK'
  <2>1. /\ gone' \in BOOLEAN /\ opened' \in BOOLEAN /\ dialing' \in BOOLEAN /\ level' \in 0 .. 3
        /\ session' \in Addresses \cup {None} /\ faults' \in 0 .. MaxFaults
    <3>0. /\ gone \in BOOLEAN /\ opened \in BOOLEAN /\ dialing \in BOOLEAN /\ level \in 0 .. 3
          /\ session \in Addresses \cup {None} /\ faults \in 0 .. MaxFaults
      BY DEF Inv, TypeOK
    <3> USE DEF Fault
    <3>1. CASE NetworkMoves
      <4>1. /\ UNCHANGED <<gone, opened>> /\ level' \in 0 .. 3 /\ session' \in {None, session}
            /\ dialing' \in BOOLEAN /\ faults < MaxFaults /\ faults' = faults + 1
        BY <3>1 DEF NetworkMoves
      <4> QED BY <3>0, <4>1
    <3>2. CASE Drop
      <4>1. UNCHANGED <<gone, opened, level, dialing>> /\ session' = None /\ faults < MaxFaults /\ faults' = faults + 1
        BY <3>2 DEF Drop
      <4> QED BY <3>0, <4>1
    <3>3. CASE Activates
      <4>1. /\ UNCHANGED <<gone, opened, level>> /\ session' \in Addresses /\ dialing' \in BOOLEAN
            /\ faults' = faults \/ (faults < MaxFaults /\ faults' = faults + 1)
        BY <3>3 DEF Activates
      <4> QED BY <3>0, <4>1
    <3>4. CASE Suspends
      <4>1. /\ UNCHANGED <<gone, level>> /\ opened' \in BOOLEAN /\ session' = None /\ dialing' \in BOOLEAN
            /\ faults < MaxFaults /\ faults' = faults + 1
        BY <3>4 DEF Suspends
      <4> QED BY <3>0, <4>1
    <3>5. CASE Unplug
      <4>1. /\ gone' \in BOOLEAN /\ UNCHANGED <<opened, level, session, dialing>>
            /\ faults < MaxFaults /\ faults' = faults + 1
        BY <3>5 DEF Unplug
      <4> QED BY <3>0, <4>1
    <3> QED BY <3>1, <3>2, <3>3, <3>4, <3>5
  <2>2. UNCHANGED <<inbox, reader, quit, known, act, open, tid, pc, step, rsp, soon, iface, missed>>
    BY DEF NetworkMoves, Drop, Activates, Suspends, Unplug, readerVars, stateVars, callVars
  <2> QED BY <1>3, <2>1, <2>2 DEF Inv, TypeOK
<1> QED BY <1>3, <1>4

LEMMA ServeTypes == ASSUME Inv, Serve, Queues' PROVE TypeOK'
<1>1. /\ gone' \in BOOLEAN /\ opened' \in BOOLEAN /\ dialing' \in BOOLEAN /\ level' \in 0 .. 3
      /\ session' \in Addresses \cup {None} /\ faults' \in 0 .. MaxFaults
  <2> USE DEF Inv, TypeOK, Fault, modemVars
  <2>1. CASE ServeClosed \/ ServeQuery \/ ServeFails
    BY <2>1 DEF ServeClosed, ServeQuery, ServeFails
  <2>2. CASE ServeOpen \/ ServeClose \/ ServeDisconnect
    BY <2>2 DEF ServeOpen, ServeClose, ServeDisconnect
  <2>3. CASE ServeAttach
    BY <2>3 DEF ServeAttach
  <2>4. CASE ServeConnect
    BY <2>4 DEF ServeConnect
  <2> QED BY <2>1, <2>2, <2>3, <2>4 DEF Serve
<1>2. UNCHANGED <<reader, quit, known, act, open, tid, pc, step, rsp, soon, iface, missed>>
  BY DEF Serve, stateVars, callVars
<1> QED BY <1>1, <1>2 DEF Inv, TypeOK, Queues

-----------------------------------------------------------------------------
(* The theorems.                                                           *)

LEMMA InitEstablishes == Init => Inv
<1> SUFFICES ASSUME Init PROVE Inv
  OBVIOUS
<1>1. TypeOK
  <2>1. /\ session \in Addresses \cup {None} /\ iface \in Addresses \cup {None, Junk}
        /\ known \in [StageNames -> Found] /\ act \in Activations /\ tid \in 1 .. MaxId
        /\ faults \in 0 .. MaxFaults
    BY DEF Init, Found, Activations
  <2>2. inbox \in Seq(Request) /\ wire \in Seq(Message \cup Notice) /\ rsp \in Message \cup {NoAnswer}
    BY DEF Init
  <2> QED BY <2>1, <2>2 DEF Init, TypeOK
<1>2. Mail
  BY DEF Init, Mail, Box, NoneOf
<1> QED BY <1>1, <1>2 DEF Init, Inv, Own

LEMMA StepKeeps == Inv /\ [Next]_vars => Inv'
<1> SUFFICES ASSUME Inv, [Next]_vars PROVE TypeOK' /\ Rest'
  BY DEF Inv, Rest
<1>1. CASE NetworkMoves \/ Drop \/ Activates \/ Suspends \/ Unplug
  BY <1>1, NetworkKeeps
<1>2. CASE Serve
  BY <1>2, ServeKeeps, ServeTypes DEF Queues
<1>3. CASE ReaderTakes \/ ReaderHandles \/ HangUp \/ Signal
  BY <1>3, TakesKeeps, HandlesKeeps, HangUpKeeps, SignalKeeps, ReaderTypes
<1>4. ASSUME NEW k \in Kinds, Send(k) PROVE TypeOK' /\ Rest'
  <2>1. Queues'
    BY <1>4, SendKeeps DEF Send, readerVars, Queues, Inv, TypeOK
  <2> QED BY <1>4, <2>1, SendKeeps, RequestTypes
<1>5. CASE Timeout
  BY <1>5, TimeoutKeeps, RequestTypes DEF Queues
<1>6. CASE Wake
  <2>1. Queues'
    BY <1>6 DEF Wake, readerVars, Queues, Inv, TypeOK
  <2> QED BY <1>6, <2>1, WakeKeeps, RequestTypes
<1>7. CASE Top \/ Sleep \/ WaitEnds \/ Settle \/ Exit \/ Join
  BY <1>7, LoopKeeps, LoopTypes
<1>8. CASE KillReader
  BY <1>8, KillKeeps, LoopTypes
<1>9. CASE \/ Failed \/ Opened \/ Caps \/ Attach \/ QueryConnect \/ Connect \/ IpConfig
           \/ Disconnect \/ Close \/ \E s \in StageNames : Stage(s)
  BY <1>9, AnswersKeep, AnswerTypes
<1>10. CASE UNCHANGED vars
  BY <1>10 DEF vars, modemVars, readerVars, stateVars, callVars, Inv, TypeOK, Rest, Own, Mail, Stale, Older
<1> QED BY <1>1, <1>2, <1>3, <1>4, <1>5, <1>6, <1>7, <1>8, <1>9, <1>10 DEF Next, MainStep, Finished

LEMMA Invariance == Spec => []Inv
BY InitEstablishes, StepKeeps, PTL DEF Spec

\* The types of the connection manager, of the modem and of what is between them: what the
\* code stores of an answer is always of the kind of answer it waited for.
THEOREM TypeCorrect == Spec => []TypeOK
<1>1. Inv => TypeOK
  BY DEF Inv
<1> QED BY <1>1, Invariance, PTL

-----------------------------------------------------------------------------
(* The contract of a request.                                              *)

\* What the caller sees of a step: nothing, or a step of the contract.
Seen == \/ UNCHANGED <<Pending, Held>>
        \/ \E r \in Kinds : Contract!Call(r)
        \/ Contract!Answered
        \/ Contract!Unanswered

LEMMA NothingSeen ==
  ASSUME UNCHANGED <<step, rsp>>, pc' = pc \/ step = "call"
  PROVE  Seen
BY DEF Seen, Pending, Held

\* The end of the reader cuts a request short, which main sees when it wakes.
LEMMA EndsSeen == ASSUME ReaderEnds, pc' = pc \/ step = "call" PROVE Seen
BY DEF Seen, ReaderEnds, Pending, Held

LEMMA ReaderSeen == ASSUME Inv, ReaderTakes \/ ReaderHandles \/ HangUp \/ Signal PROVE Seen
<1>1. CASE ReaderTakes
  BY <1>1, NothingSeen DEF ReaderTakes, callVars
<1>2. CASE ReaderHandles
  <2> DEFINE m == Head(wire)
  <2>1. CASE m.id # 0 /\ Awaited(m.id)
    <3>1. step = "wait" /\ step' = "woken" /\ pc' = pc
      BY <1>2, <2>1, Delivered DEF ReaderHandles, Deliver
    <3> QED BY <3>1 DEF Seen, Pending, Held
  <2>2. CASE ~(m.id # 0 /\ Awaited(m.id))
    <3>1. UNCHANGED <<rsp, step>> /\ (Notify \/ UNCHANGED pc)
      BY <1>2, <2>2 DEF ReaderHandles, Indication
    <3> QED BY <3>1, Notified, NothingSeen
  <2> QED BY <2>1, <2>2
<1>3. CASE HangUp
  BY <1>3, Notified, EndsSeen DEF HangUp
<1>4. CASE Signal
  <2>1. CASE reader = "poll" /\ Notify /\ ReaderEnds
    BY <2>1, Notified, EndsSeen
  <2>2. CASE UNCHANGED <<step, rsp>> /\ (Notify \/ UNCHANGED pc \/ pc \in {"idle", "settle"})
    <3>1. pc \in {"idle", "settle"} => step = "call"
      BY DEF Inv, Own, Kinds, Commands, StageNames
    <3> QED BY <2>2, <3>1, Notified, NothingSeen
  <2> QED BY <1>4, <2>1, <2>2 DEF Signal
<1> QED BY <1>1, <1>2, <1>3, <1>4

LEMMA RequestSeen ==
  ASSUME Inv, Timeout \/ Wake \/ \E k \in Kinds : Send(k)
  PROVE  Seen
<1>1. None \notin Kinds
  BY DEF None, Kinds, Commands, StageNames
<1>2. CASE Timeout
  BY <1>2 DEF Timeout, Seen, Contract!Unanswered, Pending, Held
<1>3. CASE Wake
  <2>1. step = "woken" /\ step' = "got" /\ UNCHANGED <<rsp, pc>> /\ pc \in Kinds
        /\ (rsp # NoAnswer => rsp.live /\ rsp.kind = pc)
    BY <1>3 DEF Wake, Inv, Own
  <2>2. CASE rsp = NoAnswer
    BY <2>1, <2>2 DEF Seen, Contract!Unanswered, Pending, Held
  <2>3. CASE rsp # NoAnswer
    BY <1>1, <2>1, <2>3 DEF Seen, Contract!Answered, Pending, Held
  <2> QED BY <2>2, <2>3
<1>4. ASSUME NEW k \in Kinds, Send(k) PROVE Seen
  <2>1. pc = k /\ step = "call" /\ rsp' = NoAnswer /\ pc' = pc /\ step' \in {"got", "wait"}
    BY <1>4 DEF Send
  <2>2. CASE step' = "got"
    BY <2>1, <2>2 DEF Seen, Pending, Held
  <2>3. CASE step' = "wait"
    <3>1. Contract!Call(k)
      BY <2>1, <2>3 DEF Contract!Call, Pending, Held
    <3> QED BY <3>1 DEF Seen
  <2> QED BY <2>1, <2>2, <2>3
<1> QED BY <1>2, <1>3, <1>4

LEMMA LoopSeen ==
  ASSUME Inv, \/ Top \/ Sleep \/ WaitEnds \/ Settle \/ Exit \/ Join \/ KillReader
              \/ Failed \/ Opened \/ Caps \/ Attach \/ QueryConnect \/ Connect \/ IpConfig
              \/ Disconnect \/ Close \/ \E s \in StageNames : Stage(s)
  PROVE  Seen
<1>1. CASE Top \/ Sleep \/ WaitEnds \/ Settle \/ Exit \/ Join \/ KillReader
  <2>1. pc \in {"top", "idle", "wait", "settle", "exit", "join", "kill"}
    BY <1>1 DEF Top, Sleep, WaitEnds, Settle, Exit, Join, KillReader
  <2>2. step = "call"
    BY <2>1, Idle DEF Kinds, Commands, StageNames
  <2>3. UNCHANGED <<step, rsp>> \/ ReaderEnds
    BY <1>1 DEF Top, Sleep, WaitEnds, Settle, Exit, Join, KillReader, callVars
  <2> QED BY <2>2, <2>3, NothingSeen, EndsSeen
<1>2. CASE \/ Failed \/ Opened \/ Caps \/ Attach \/ QueryConnect \/ Connect \/ IpConfig
           \/ Disconnect \/ Close \/ \E s \in StageNames : Stage(s)
  <2>1. Used
    BY <1>2 DEF Failed, Opened, Caps, Attach, QueryConnect, Connect, IpConfig, Disconnect, Close, Stage, Take
  <2> QED BY <2>1 DEF Used, Seen, Contract!Unanswered, Pending, Held
<1> QED BY <1>1, <1>2

LEMMA StepSeen == Inv /\ [Next]_vars => [Contract!Next]_(Contract!vars)
<1> SUFFICES ASSUME Inv, [Next]_vars PROVE Seen
  BY DEF Seen, Contract!Next, Contract!vars
<1>1. CASE NetworkMoves \/ Drop \/ Activates \/ Suspends \/ Unplug \/ Serve
  BY <1>1, NothingSeen DEF NetworkMoves, Drop, Activates, Suspends, Unplug, Serve, callVars
<1>2. CASE UNCHANGED vars
  BY <1>2, NothingSeen DEF vars, callVars
<1> QED BY <1>1, <1>2, ReaderSeen, RequestSeen, LoopSeen DEF Next, MainStep, Finished

\* Whatever is delayed, lost or given up, and though the ids begin anew with every opening,
\* the answer main takes is the answer to the request it waits for.
THEOREM OwnAnswers == Spec => AnswersAreOwn
<1>1. Init => Contract!Init
  BY DEF Init, Contract!Init, Pending, Held
<1> QED BY <1>1, StepSeen, Invariance, PTL DEF Spec, AnswersAreOwn, Contract!Spec
=============================================================================
