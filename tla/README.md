# PeerSight and its 5G edge: specifications, model checking and proofs

The repository connects edge gateways over a 5G modem and a WireGuard tunnel to
a cloud server, and watches them with PeerSight: an API on PostgreSQL, an agent
on every host, and a broker that forwards the events the API queues.  This
directory holds TLA+ specifications of the parts of it that are concurrent or
have to survive failures, the TLC configurations that check them on small
instances, and proofs that TLAPS checks for all instances.

Run, in this directory: `tlc -config MCDelivery.cfg MCBrokerDelivery` (and so
on, see the table of runs), `tlapm BrokerDeliveryProofs.tla` (and so on).

## 1. The system

| Part | State | Operations | Interacts with |
|---|---|---|---|
| Event queue (`queries.go` 855-934, `queue_events`) | rows: type, acked, lease | enqueue, poll with lease, ack, fail | written by the API's alerts, drained by brokers over HTTP |
| Broker (`peersight-broker`) | nothing on disk; one cycle's batches and results | poll per type, send per pipe, ack, release | event queue; files and syslog |
| Desired changes (`handlers.go` Ping, CreateChange; `agent.go`) | rows pending/executed/failed; the agent's unsent reports; WireGuard | create, hand out in the answer to a ping, execute, report with the next ping | API, agent, alerts |
| Operational alerts (`cmd/api/main.go` 75-162) | open alerts | raise and resolve every minute | hosts' pings, operators, the queue |
| Host inventory (Ping, `processInterfaces`, `SyncInterfacePeers`) | interfaces, peers, endpoints | upsert from every ping | desired changes (same handler) |
| Users, sessions, service tokens (`middleware/auth.go`) | tokens | login, refresh, check, revoke | every request |
| Dashboard (`peersight-app`) | tokens in the browser, requests waiting for a refresh | REST calls | API |
| Agent's `wg` wrapper (`internal/wg/wg.go`) | none | parse, set | agent |
| `quectel-CM`, main loop (`main.c`, `QMIThread.c`) | data calls, link state, what is queued in two socket pairs | dial, check, stop, react to the modem | modem, DHCP client, systemd |
| `quectel-CM`, start-up and end (`main.c`, `QmiWwanCM.c`, `GobiNetCM.c`) | client ids, the reader thread, whether it is told to stop | find the modem, end the processes that hold it, obtain and release ids | other processes of `quectel-CM`, the modem |
| `quectel-CM`, transactions (`QMIThread.c` 570-657) | the request waited for and its answer | send, match, give up | modem or proxy |
| `quectel-CM` over MBIM (`mbim-cm.c`) | what it knows of SIM, registration, attachment, activation; whether the modem is open | open, query, connect, configure, wait for a change | modem, its reader thread, signals |
| `quectel-qmi-proxy` (`quectel-qmi-proxy.c`) | connections, the queue of CTL requests, who has which client id | prepare the modem, accept, pass on, clean up, start over | clients (`quectel-CM`), modem |
| Watchdog (`edge/5g-wwan/wwan-monitor.sh`) | two counters | ping, restart the service, reset the modem, revive the tunnel | modem, `wwan.service` (quectel-CM), WireGuard |
| Installers, Terraform, monitoring, benchmarks | none between runs | | |

How they hang together: a gateway's uplink is kept by `quectel-CM` under
systemd, and by the watchdog above it.  Over the uplink and the tunnel, the
agent pings the API.  The handler of a ping records the reports of executed
changes, updates the inventory and answers with pending changes.  The API's loop looks
at when hosts last pinged and raises alerts; each alert is an event in the queue; a
broker leases events, hands them to its pipes, and acks them.

What is hard in it:

* **Leases and late calls.** Brokers and API talk over HTTP with timeouts: a
  call may be executed after its caller has given up, when another broker holds
  the lease of the same rows.
* **At least once, twice over.** Events and changes are delivered again after
  lost answers and crashes; for changes the order of effects then matters.
* **Overlapping handlers** of one agent's pings, statement by statement.
* **Read, then act**: alerts from a list that is minutes old, a `SELECT` before
  an `INSERT`, two statements without a transaction.
* **Two processes that heal one modem**, each with its own timers, neither knowing
  the other.
* **Callbacks, alarms and a reader thread** in quectel-CM, against a modem that
  detaches, drops calls, changes addresses, resets and goes away by itself.
* **Answers without an addressee.** A request is given up and its answer comes later;
  transaction ids begin anew; a process is killed with its request at the modem and
  another takes over; the proxy gives each answer to the head of its queue.
* **Sleep without a predicate.** The condition variables of `mbim-cm.c` and
  `QMIThread.c` remember no signal; what is signalled before the wait is lost.

What makes each part correct, and whether it is stated here:

| Part | Correct if | Stated as |
|---|---|---|
| queue and broker | no event is lost, or acked before every subscribed pipe has it; no pipe gets it twice without a failure; a lease means something | `AckedDelivered`, `ContractKept`, `DeliversOnce`, `EventuallyAcked`, `LeaseExclusive`, `TimelyExclusive` |
| desired changes | a recorded result was had; all changes are settled; newer changes win | `StateIsTrue`, `EventuallySettled`, `NewestWins` |
| alerts | one open alert for one condition; conditions are reported, and resolved when over; every alert is announced | `AtMostOne`, `OneLevel`, `DownIsReported`, `BackIsResolved`, `EveryAlertQueued` |
| watchdog | the uplink comes back; hard measures come last; the tunnel follows | `UplinkRecovers`, `LastResort`, `TunnelRevived` |
| quectel-CM | the interface is up with the call's address; it never keeps that of an earlier call | `UplinkComesUp`, `NoStaleAddress` |
| start-up and end of quectel-CM | one process holds the modem; its ids are known to it; start-up ends, and so does who is told to stop | `TakenOver`, `IdsAreKnown`, `StartupEnds`, `StopsWhenTold` |
| QMI transactions, proxy | an answer goes to its request; ids are not shared; the queue is in step with the modem; nobody waits for ever | `AnswersAreOwn`, `NoSharedClientId`, `HeldIsRegistered`, `InSync`, `EveryoneRegisters` |
| MBIM | an answer goes to its request; the interface comes to have the session's address; a modem that forgot us is opened again; it ends when told | `AnswersAreOwn`, `GetsItsAddress`, `FoundIsConfigured`, `ReopensModem`, `EndsWhenTold`, `RetriesConnect` |
| inventory | no endpoint without its peer; peers nobody has go | planned |
| token refresh | every waiting request is answered; one refresh at a time | planned |

`PROJECT.json` lists the components with what is left out of each, and the
hazards, each at its line of code with the properties that would catch it.

## 2. The modules

**EventQueue** — the table and its SQL statements, one operator each, with no
actors.  A lease is the number of ticks it still runs (0: none, or over; the
statements treat these alike).  **BrokerDelivery** extends it with brokers
(`peersight-broker`), one action per HTTP call and per `Send`: `Start`,
`NextCycle`, `Poll`, `Send`, `StartSettling`, `Ack`, `Release`, each call with
its failing twin, `Crash`, and `LateCall`: what the API executes of a call
given up.  `grant[b][e]` is the time broker `b` has left, by its own reckoning,
for event `e`; `sent[p]` is the history of what pipe `p` took.
**DeliveryContract** is the abstract specification: deliver any number of times
to subscribers, acknowledge once, after all of them; no leases, brokers,
failures.  `ContractKept` says BrokerDelivery implements it (the mapping is the
identity on `kind`, `acked`, `sent`).

**DesiredChanges** — rows, the handlers of one host's pings (a record per
running handler, a step per statement of `Ping`), and the agent (`idle`,
`waiting`, `executing`).  A change sets one setting to a value, in the order
they are created, executed and reported, so ordered lists are sets taken
smallest first.  The agent gives up on a ping (`Timeout`, `PingFails`) while its
handler may run on; reports travelling with it are lost, as in the code.

**OperationalAlerts** — `runOperationalAlertCheck`, statement by statement, with
the state the loop holds in between (`todo`, `seen`, `raising`).  Any
statement may fail, and the loop goes on; after the ten-second deadline, all the
rest do.  Around it: registrations, pings, ageing, deletions, an operator who
resolves, the backlog, a restart of the API.  `silent` holds open alerts whose event was
not enqueued.

**WwanWatchdog** — the shell script's loop, one action per command that tests or
changes the outside (`Test`, `Found`, `RestartFound`, `Up`, `Down`, `StopService`,
`ResetModem`, `RestartDown`, `Wake`), against modem, carrier and service.
`outage` and `restarts` are history: what the counters stand for.

**QmiConnection** — `qmi_main` of quectel-CM: the two socket pairs as queues, the
flags it keeps (`ps`, `status`, `held`, `profile`, `link`), one action per QMI
request, so that the modem may do anything between two requests of a handler.
A request may fail, or be aborted by the reader thread, which main takes for
success without an answer (`QmiThreadSendQMITimeout`).  `call` and `iface` are the
outside: the modem's data call, and the address on the interface.  A query tells that
a call is up, down, or neither (suspended, being authenticated or to be
reconfigured), which main stores and takes for neither.  `aged` and `kept` are
history: whether a call was set up since the interface got its address, and whether a
check has left the interface up under such a status.

**RequestContract** — the abstract specification of a request and its answer: one is
pending or none; it may come to have its own answer, never another's, or end
without one.  `MbimConnection` and `QmiMultiplex` implement it.

**MbimConnection** — `mbim_main`, its reader thread and the modem.  A request is
written (`Send`), served by the modem, handed over by the reader (`ReaderTakes`,
`ReaderHandles`) and taken by main (`Wake`, then one action per kind of answer),
so that indications, which the reader stores itself, come in between.  The
tests of the loop between two requests read variables the reader writes; they
are taken in one step with the answer before them (`From`), as an indication
between two of them has the effect of one before or after.  Transaction
ids are cyclic, as in the code, over a small range.  `live` marks the request main
waits for, so that a late answer can be told from the one asked for.
`missed` is history: why main may not know its address, since it asked last: it was
told of the activation in an indication (`told`), which an older answer may have
overtaken (`overtaken`); its query found the session activated (`found`); the request
for the address was refused (`refused`).

**QmiTransport**, **QmiClient**, **QmiProxy**, composed by **QmiMultiplex** — sockets,
queues and the modem; a process of `quectel-CM` that reaches the modem through the
proxy (`Connect`, `Call`, `Receive`, `GiveUp`, what it does with each answer,
`Release`, `Kill`); the proxy's main (preparing the modem, `StartServer`, `Join`)
and loop thread (`Accept`, `Cleanup`, `ReadClient`, `RecvQmi` and the ways it ends,
among them `BrokenPipe`, the death of the proxy by a write to a socket that has hung up).
A process counts its requests to CTL and to services as in the code (`ctid`, `mtid`);
two processes may use the same numbers at the same time.
A client is named by the descriptor its connection gets, the lowest free one, so
that a later process can be taken for an earlier one as in the code.  `own` marks whose
request a message belongs to and is read only by properties and by the modem's
environment; `odd` is history: which kinds of things came between requests and
answers ("slip": the queue lost its head or moved without its answer, "late": a
request given up while under way, "lost", "reset").

**QmiStartup** — processes of `quectel-CM` on one modem without the proxy: `Search`,
`kill_brothers` (`Look`, `KillBrother`), `OpenWwan` and `OpenGobi`, the requests for
client ids one by one (`Call`, `Serve`, `GiveUp`), then the ways out (`Stop`,
`Disconnected`, `Rejoin`, `ModemReset`, `Join`), against signals, kills, a modem that
resets or is unplugged.  `saw`, `lost` and `disturbed` are history.  The loop itself
is `QmiConnection`; here it is a phase.

**MC…** modules hold definitions the configurations need.  **…Proofs** modules
hold the theorems.

Operators named as *seeded faults* (`NeverDown`, `AckOnFirst`, …) are not used by
the specifications.  Substituted for the operator they precede, each makes the
property that watches it fail, which shows that the property can fail.

## 3. The runs

| Run (cfg) | Instance | Checks | Distinct states |
|---|---|---|---|
| `delivery` (`MCDelivery`) | 2 brokers, 2 events, 2 pipes with overlapping subscriptions, lease of 1 tick, 1 fault, fairness | `TypeOK`, `AckedDelivered`, `ContractKept`, `EventuallyAcked` | 207,502 |
| `timely` (`MCTimely`) | the same with a lease of 2, 2 faults and every cycle inside its lease | `TimelyExclusive`, `DeliversOnce` | 140,088 |
| `lease_steal` (`MCLeaseSteal`) | 2 brokers, 1 event, lease of 2 | `LeaseExclusive` is **violated** | 17,510 |
| `order` (`MCChangesOrder`) | 3 changes (one malformed) on 2 settings, 1 handler, 2 faults | `TypeOK`, `NewestWins` | 57,156 |
| `overlap` (`MCChangesOverlap`) | 2 changes, 2 handlers at once, failing updates, failing `wg`, 2 faults, fairness | `StateIsTrue`, `EventuallySettled` | 203,278 |
| `alerts` (`MCAlerts`) | 1 host, its endpoint and the backlog; 2 faults, fairness | `TypeOK`, `AtMostOne`, `OneLevel`, `DownIsReported`, `BackIsResolved` | 48,888 |
| `uplink` (`MCUplink`) | `MAX_STRIKES` 1 and `HARD_RESET_LIMIT` 3 as in the script, 5 faults, fairness | `TypeOK`, `UplinkRecovers`, `LastResort` | 6,834 |
| `qmi` (`MCQmi`) | IPv4 only (quectel-CM's default), 3 addresses, 3 faults, fairness | `TypeOK`, `NoStaleAddress`, `UplinkComesUp` | 1,079,646 |
| `mbim` (`MCMbim`) | 2 addresses, 3 transaction ids, 2 faults, fairness | `TypeOK`, `AnswersAreOwn`, `EndsWhenTold`, `GetsItsAddress`, `ReopensModem` | 420,616 |
| `mbim_retry` (`MCMbimRetry`) | 1 address, no faults, fairness | `RetriesConnect` is **violated** | 500 |
| `proxy` (`MCProxy`) | 2 descriptors, 3 processes one after another or together, 1 service, 2 client ids, 2 requests of a process to services, 1 fault, fairness | `TypeOK`, `NoSharedClientId`, `HeldIsRegistered`, `InSync`, `AnswersAreOwn`, `EveryoneRegisters` | 806,498 |
| `startup` (`MCStartup`) | 2 processes, either driver, 2 services, 1 fault, fairness | `TypeOK`, `TakenOver`, `IdsAreKnown`, `StopsWhenTold`, `StartupEnds` | 377,376 |

Six more configurations reproduce what section 5 describes and TLC is expected to
find violated: `MCSkippedPipe` (`AckedDelivered`), `MCAlertsSilent`
(`EveryAlertQueued`), `MCUplinkTunnel` (`TunnelRevived`), `MCProxyReset`
(`RestartsAfterReset`), `MCQmiSuspended` (`AddressIsNew`) and `MCMbimFound`
(`FoundIsConfigured`).

### What they show

* `delivery`, `timely`: whatever brokers, calls and pipes do, the queue
  delivers before it acknowledges, and goes on delivering until it can.  Leases
  as such are weaker than they look: two brokers work on one event when a cycle
  outlasts its lease (`timely` shows that this, and late calls, are the only ways, and
  that otherwise a pipe is handed an event again only after something failed)
  and (`lease_steal`) a late release by id frees a row that somebody else
  has leased, so that a third poll hands it out while a lease runs.
* `order`: changes are executed again when reports are lost, but with the
  handlers of one agent one after the other an old change never wins over a
  newer one: handing out by `created_at`, executing in that order and
  re-executing everything pending makes up for the lost reports.
* `overlap`: with overlapping handlers, what a row says is still something the
  agent saw, and every change is settled.  (An older change may then win: the
  premise `Orderly` of `NewestWins` is needed.)
* `alerts`: the loop is safe against its own failures, and repairs what it did
  from stale lists; except for the event of an alert, which is
  lost when the second statement of `CreateAlert` fails (section 5).
* `uplink`: no sequence of hangs, disappearances, kills and restarts leaves the
  uplink down for good, and the modem is not reset without restarts first.
* `qmi`: after any three faults, quectel-CM ends up connected with the right
  address, whatever was queued, aborted or half done when they struck.
  What main dials under is down, or is brought down and up before it counts as
  the new call's.  The reset of the modem is the interesting case: `main.c:663` clears
  `s_link` and leaves the interface up with its address, a call may then be set up under
  it, and the next check still fetches the new address, for `s_link` differs.  A status
  that is neither up nor down may break both properties (`MCQmiSuspended`, section 5), which
  excuse what is then kept up, and only that: `UplinkComesUp` only once a call was set up
  under it.
* `mbim`: main never takes a stale answer for its own, though ids begin anew with every
  opening; it hears of its session even when it misses the signal, if the activation
  is the answer to its own connect; a modem that answers that it is not open is
  opened again; told to stop, it ends.  The properties name what they excuse, and there
  the code really fails: a session that main learns of from an indication or from its own
  query (`told`, `overtaken`, `found`) is never configured, as line 1742 is reached after
  a connect of its own only, and neither is one whose address was refused once; the
  signal handler can meet its own mutex, and main can join a reader that missed its
  signal (`Hung`).
  `mbim_retry`: a connect answered with "activating" is not tried again.
* `proxy`: with one fault, processes do not share client ids, hold only ids
  the proxy routes to them, and get their ids, if the modem does not refuse one.  The
  proxy may die of a write, and its clients then end.  Answers are their own as long as nothing
  came between queue and modem (`Undisturbed`).  A process that leaves its request at
  the modem, or an indication in between, puts the queue out of step.  The ids stay apart and registered even
  then, and for any number of such things (section 4); a modem that forgets its ids is
  what ends that.
* `startup`: the later process takes the modem from the earlier one, and the ids it
  then has are known to the modem, whatever the earlier one had asked for when it was
  killed and whether its answers come late, for the synchronisation comes after all
  that.  Start-up ends, in the loop or with the process, and a process that is told to
  stop does, without its modem, its reader thread or its answers too.  Excused, and real:
  processes that start together do not find each other (`disturbed`), a signal that
  arrives while there are no sockets is lost (`lost`), and the two loops that wait for
  the modem and for the SIM look at nothing (`Waits`).

### Bounds

`MaxFaults` bounds crashes, failures, lost calls and moves of the
environment taken together; every fault action costs one, so that liveness means
"once faults end".  Two faults let one failure strike while another is
being repaired, which is where the recoveries meet (a late release needs two
give-ups; a modem reset after a failed redial needs two); the watchdog takes
five because its hardware reset needs three failed restarts, and `qmi` three, the least
that dial under an interface kept up and so show that what its properties excuse is
real.  `delivery`, `proxy` and
`startup` take one fault because they go over many interleavings, most of them for liveness.
The safety properties of `delivery` also hold with two (745,004 states, under
symmetry) and are proved; `TakenOver` and `IdsAreKnown` hold with two (2.4 million
states) and, with one, for three lives (950,000).  `MaxSignals` keeps the
environment from filling the signal queue of quectel-CM: alarms and indications wait
while it holds two; main's own signals are not bounded.

Two brokers are enough
for the races over one row, which are between a holder and one other; two
pipes, one subscribed to one type and one to both, give shared and single
subscriptions.  Three changes on two settings let an old, a newer and a
malformed one interleave.  One host suffices for the alerts because statements
about different hosts touch different rows, except for the `LIMIT`, which is
set to the number of hosts.  `MaxId` in `MbimConnection` is 3: at most two answers
given up are ahead of the one awaited, so three ids are as good as 2^32.  Two
descriptors and three lives in `proxy` let a process take over the descriptor of
another while a third is served; two client ids let the modem run out; `MaxTid`
is how many requests a process makes to services (the code counts to 65535 before it
begins anew, and the model ends before that): two, so that the answer of one given up
meets the next; with a `MaxDown` of 1 the proxy
writes to nobody while a client has an answer unread (with 2 the properties hold too:
1,130,421 states).  In `startup` two processes with two lives are one that is taken over and
one that takes over, or one that dies and is started again; `MaxSyncs` is 2 for the
code's 10, as an attempt differs from the next only in the count; two services are the
one the code tests (WDS) and the others.  No configuration replaces a definition, and
there are no state constraints.

### Fairness

* Brokers: every step of a broker and the clock are weakly fair.  A broker is a loop
  under a restart policy, its calls have timeouts; nothing is assumed of
  failures, crashes or late calls.
* Changes: the agent's steps and those of every running handler are weakly fair (a ticker,
  and HTTP handlers that run to their end).
* Alerts: the loop is (a ticker).  Pings, operators and the backlog are not.
* Watchdog: the script's steps, quectel-CM's attempts to connect, and the modem's
  return to the bus are.  `Timely` says that the script's sleeps are long
  enough for quectel-CM; the script relies on it, and without it `UplinkRecovers`
  fails: restarts can kill quectel-CM before it connects, for ever.
* quectel-CM: main's steps, alarms, the end of the back-off and systemd's restart
  are weakly fair.  Of the modem it is assumed that it is silent again and again
  (else the check of poll's timeout is never sent) and reports its
  registration again and again (only such a report corrects `PSAttachedState`
  after a failed query).
* MBIM: main's steps, the reader's, and the modem's answers are weakly fair; waits
  end (they have timeouts).  Nothing is assumed of the network.
* Proxy: main, the reading of the modem and the service of each connection are weakly
  fair (every round of poll looks at all descriptors that are ready), as are the modem's
  answers and what a client has begun; clients need not ask, end or start.
* Start-up: every process's main and reader thread, and the modem's answers.  That
  a process that is killed is killed is part of the killer's own step.

## 4. The proofs

TLAPS checks these for every value of the constants, under the named
assumptions of the modules (finite sets of events and hosts, positive limits,
…), which TLC evaluates in every run.  Those of `QmiMultiplex` are about labels of the
model: the ids of the proxy's own requests start at `FirstTid`, beyond those of the
processes (two for each service and one), and `NoOne` is not a descriptor.

| Module | Theorem | Argument |
|---|---|---|
| `BrokerDeliveryProofs` | `TypeCorrect` | `TypeInv`: the types, and that held events and late acks are rows of the table |
| | `NoAckBeforeDelivery`: `[]AckedDelivered` unless pipes may be skipped at start | `DeliveryInv`: an ack rests on what its broker recorded in `ok`, possibly long before, so every pipe is up (`AllPipesUp`), records start empty (`CleanStart`) and are true of `sent` (`RecordsTrue`), and late acks carry only events handed to all their subscribers (`LateAcks`) |
| | `BrokersKeepContract`: `ContractKept` | the same invariant; each step is a `Deliver`, an `Acknowledge`, an `Enqueue` or a stutter |
| | `TimelyWorkIsExclusive` | `ExclusiveInv`: a held event is unacked and its lease in the table is the broker's own; late calls are about events no broker holds (`LateApart`) |
| | `DeliveredOnce`: `DeliversOnce` | `OnceInv`: with `ExclusiveInv`, and while nothing failed, whatever a pipe has been handed is acked, or is in the batch of a broker that has the pipe on record (`OnRecord`), for a broker that settles acks all it holds (`AllSent`, `AllTodo`). A broker at a pipe it has no record of has therefore a batch the pipe has nothing of |
| `DesiredChangesProofs` | `TypeCorrect`, `RecordIsTrue`: `[]StateIsTrue` | `TruthInv`: reports in the agent, in flight and in handlers are results had; `tried` only grows |
| | `NewestChangeWins`: `[]NewestWins` (which has `Orderly` as its premise) | `OrderInv`: how far the device lags behind the rows at each stage of a ping. What is handed out or waits is pending, oldest first and without gaps (`OldestFirst`, `DueIsPending`, `NoGaps`), handler and agent take turns (`Turns`), reports fit the change (`Verdicts`), and when all pending changes of a setting are reported the setting has the newest value (`Applied`) |
| `OperationalAlertsProofs` | `TypeCorrect`, `AlertsOpenOnce`: `[]AtMostOne` | `OnceInv`: between the SELECT and the INSERT nothing else opens an alert, so the one being raised is not open |
| | `OneLevelAtATime`: `[]OneLevel` | `LevelInv`: while nothing failed, the level being raised is raised after the other was resolved |
| `WwanWatchdogProofs` | `TypeCorrect`, `ResetIsLastResort`: `LastResort` | `CountInv`: each count of the script stands for a restart made or about to be made |
| `QmiConnectionProofs` | `TypeCorrect`, `NoEarlierAddress`: `[]NoStaleAddress` | `LinkInv`: with one family, outside the checks `s_link` is up only while the family is stored as connected, unless it was kept up (`kept`), and a family being dialled is not; so a call is set up, and its address read, under `s_link` down, and when `s_link` comes up the interface gets the address just read (`LinkChangeKeepsFresh`). Disabled families are never connected |
| `QmiStartupProofs` | `TypeCorrect`, `BrothersAreGone`: `[]TakenOver` | `ProcsInv`: with the types, what a process is in itself (without the modem it has no thread, what it sent it waits for), that an awaited request is its process's only one, and that a process another has found to hold the modem is gone or about to be killed (`Seen`); each action changes one process, and lemmas about what a process may become carry the invariant |
| | `IdsAreTheirs`: `[]IdsAreKnown` | a process that holds the modem undisturbed holds it alone, so its request is the last on its way: nothing that takes an id back comes after the grant |
| `QmiMultiplexProofs` | `TypeCorrect` | `TypeInv`: what each message can be (`Asked`, `Told`: the transaction id of a process's CTL request tells which it is, as `Fine` ties it to the phase, and is below the proxy's own, `TidsAssumption`; what a process counts its requests to services with, `Numbers`), what a process is in each phase |
| | `QueueInStep`: `[]InSync` | `InStep`: also what the sockets are worth when a part is down (`Wired`), and that at most one CTL request is at the modem or on its way back, one exactly when the queue is not empty, and every entry of the queue has a connection (`Aligned`); after a reset a revocation may stand for it |
| | `NobodyShares`: `[]NoSharedClientId` | `Books`: the state of one id through the whole system (`Safe`): at most one process, socket or answer has it (`OneHolder`); then the modem has given it out (`NotFree`) and no release of it is under way (`NotOwed`); a release comes to the modem before another request could be given the id, even when a queue that slipped sends it twice (`Repeated`, `OneDebt`, `Spaced`); a synchronisation finds nobody with an id (`Synced`). A step that only takes from these keeps it (`Less`); the steps that add have a lemma each |
| | `HolderIsKnown`: `[]HeldIsRegistered` | without a reset, from `Books` (`Known`). With one, from `Rolls`: the answer is of the kind of the head's request (`Matched`), and only a process about to end has sent a release (`Backed`), so what an answer unregisters is not used any more (`Listed`) |
| `MbimConnectionProofs` | `TypeCorrect`, `OwnAnswers`: `AnswersAreOwn` | `Inv`: at most one request or answer on its way is waited for (`live`), and it has main's id and kind (`Mail`); the id of every one given up is among those main can no longer wait under (`Stale`: the last before the exit, the last two before the close), so an answer with main's id is its own; answers say what their kind can (`Fits`), which gives the types. Lemmas about queues (`BoxTail`, `BoxAppend`, `BoxMoves`, …) carry it through each action; every step is a `Call`, `Answered`, `Unanswered` or a stutter (`Seen`) |

Only model-checked: all liveness (`EventuallyAcked`, `EventuallySettled`,
`DownIsReported`, `BackIsResolved`, `UplinkRecovers`, `UplinkComesUp`,
`EndsWhenTold`, `GetsItsAddress`, `ReopensModem`, `EveryoneRegisters`, `StopsWhenTold`,
`StartupEnds`), which is out of the prover's reach, and the refinement `AnswersAreOwn` of
`QmiMultiplex` (planned).  Every invariant of the passing runs is proved.

## 5. Where code and documents disagree

With a run, quoted in `PROJECT.json`: `lease_steal` (`queries.go:921`) and
`mbim_retry` (`mbim-cm.c:1738`).  With a configuration that reproduces it:

* `MCSkippedPipe`: `broker.go:74` counts the required deliveries from the pipes that
  could be initialised, but polls the types of all that are configured; events of a
  pipe that failed at start are acked without it, against `broker.go:126` "Ack events
  only after every subscribed pipe delivered them".
* `MCAlertsSilent`: `queries.go:742` inserts the alert and enqueues its event in two
  statements; if the second fails nothing retries it, as the open alert suppresses
  the next (`PEERSIGHT_DEPLOYMENT.md:75` "pushes an event into the alert queue").
* `MCUplinkTunnel`: `wwan-monitor.sh:62` sets `strike_count` to 0 when hardware comes
  back, so the tunnel is not revived after an outage in which the modem left the bus,
  against line 70 "If the network was previously down ... revive VPN".
* `MCProxyReset`: `quectel-qmi-proxy.c:1292` "DO RESTART IN 20s IF MODEM RESET ITSELF"
  waits for a `REVOKE_CLIENT_ID` that is flagged as a response while a CTL request is
  queued (line 672); as an indication it is passed over, and the proxy goes on with ids
  the modem has forgotten.  The flag, once set, is never cleared.
* `MCQmiSuspended`: `main.c:585`-590 leave `s_link` as it is when the status is neither up
  nor down (a call suspended, say).  If the call then ends and a `START` already
  queued is taken before the next check, main dials under an interface that is up, and the
  check after that finds `s_link` up already: the interface keeps the address of the
  earlier call, against line 568 "local ip is different with remote ip".
* `MCMbimFound`: `mbim-cm.c:1742` configures the interface only after a connect of its own.
  A session that the query finds activated, after a restart for instance, skips the
  connect (line 1738), and main waits with an interface without an address.

Seen while modelling, without a configuration:

* `pipe.go:130`, 145: `Send` ignores failed writes, so the broker acks events
  their destination never got, though `queries.go:907` says "after it has
  successfully processed and delivered the events".
* `queries.go:92`: with more silent hosts than `LIMIT 100`, the last are never
  reported (two hosts and `Limit = 1` violate `DownIsReported`).
* `queries.go:90`: a host is listed as stale from its registration on.
* `queries.go:139` says deleting a host deletes its alerts;
  `001_init.sql:115` sets their host to NULL, and nothing resolves them.
* `wwan-monitor.sh:92` announces a reset after `HARD_RESET_LIMIT` failed
  restarts; line 87 counts before the restart, so it is one fewer.
* `main.c:568` "local ip is different with remote ip": the check
  compares the network's address with the profile, not the interface.  An
  address that changes between dialling and DHCP, and back again later, leaves the
  interface with the one in between (`Readdress` excludes that).
* `main.c:649` "do not re-dail immediately": not so when a CHECK queued earlier
  finds the call down before the event is handled.
* `main.c:425`: `SIMStatus` is not initialised when the first query fails, and after a
  restart of the loop it is the old one: a PIN can be sent again to a SIM that refused it.
  The name of `SIM_BAD` is read past the end of its table (`QMIThread.c:893`).
* `GobiNetCM.c:119` checks for an id of 0, but a service that cannot be opened has -1.
* `QmiWwanCM.c:206`: the IPv6 client of WDS is released under a type that does not exist,
  and so never.
* `quectel-qmi-proxy.c:623` writes to a client that may have hung up: in one round of poll
  the modem is read before the connections, so an answer can be written (670, 710) to a
  socket whose end is not noticed yet.  Nothing handles `SIGPIPE` (line 1222 sets
  `SIGINT`), so the proxy dies with every other client's connection, and nothing starts
  it again (`BrokenPipe`).
* `mbim-cm.c:1153`: the branch that takes the address off the interface when a session ends
  tests for `MBIM_CID_CONNECT` a second time (the first is at 1137) and is never taken.
* `quectel-qmi-proxy.c:1271`: the server is started even when all preparations failed;
  two requests that arrive in one read are both dropped.

## 6. What is not modelled

Per component in `PROJECT.json`.  Of the modelled parts, knowingly left out:

* queue: `locked_by`, `attempts`, `last_error` (no statement reads them); the
  handler's authentication.
* changes: the host inventory in the same handler; what `wg` and
  `wg-quick` do with an invalid value (a change may fail, or is malformed).
* alerts: `host_recovered` and `agent_started`; a second API process.
* quectel-CM: the outcome of the requests before the main loop that keeps no state
  (PIN, profile, data format); the second attempt with the other authentication; DHCP
  that fails or is slow.  In `QmiConnection` a request is one step that may fail or
  be aborted; its split into message, wait and answer is `QmiClient` and `QmiStartup`.
* proxy: the head of the queue that is sent after a revocation was seen (690-699; main
  closes the modem next); a process that counts its requests to services beyond
  `MaxTid`, where the code begins anew at 65535; the capacity of the sockets; in `QmiClient` one request to a service is under
  way at a time.  A request to a service is one kind; what it does is `QmiConnection`.
  `AnswersAreOwn` speaks of what `Undisturbed` leaves: the ids of CTL requests and requests
  given up.
* taking over: `kill_brothers` waits until the other is gone, where the code goes on one second
  after `SIGKILL` (`main.c:270`); the kill itself is immediate.  `Readdress` never gives a
  call the address of the profile back (section 5).
* MBIM: IPv6 beside IPv4; the layout of messages, of which only "too short" matters
  (the address is then read past its end).
* what only configures hardware (`qmap_bridge_mode.c`), walks sysfs (`device.c`) or
  lays out messages (`MPQMUX.c`).
* time, but for leases, ages and whether the back-off is over.

## 7. Plan

Done: `EventQueue`, `DeliveryContract`, `BrokerDelivery`, `DesiredChanges`,
`OperationalAlerts`, `WwanWatchdog`, `QmiConnection`, `RequestContract`,
`MbimConnection`, `QmiTransport`, `QmiClient`, `QmiProxy`, `QmiMultiplex`, `QmiStartup`,
in this order, each with its runs; all invariants of the runs are theorems.  Next, by weight:

1. Proofs: the refinement `AnswersAreOwn` of `QmiMultiplex`.  The invariant it needs, in
   parts that TLC was seen to find true, on an instance like that of `proxy` before
  `mtid` and `BrokenPipe` were added, also with a second fault:
   a CTL message of a connection has a transaction id below the connection's next one, and one
   given up never has the id waited for; a request of a service is expected by its sender
   as long as it is the sender's; an id registered for one process is on its way to,
   held, or being returned by no other; work under an id in a socket is its holder's or
   comes before its return.  Then an invariant for the queues of `QmiConnection`.
2. `PeerInventory` (`handlers.go` `processInterfaces`, `queries.go`
   `FindOrCreatePeer`, `SyncInterfacePeers`): pings of several hosts that share peers.
3. `TokenRefresh` (`axios.js`, `auth.go`): waiting requests, rotation of refresh tokens.
4. Composition: an alert from `OperationalAlerts` through `BrokerDelivery` to a
   pipe; `QmiConnection` as what `WwanWatchdog` restarts (its `Connect`).
5. Dual stack in `QmiConnection`: which address the interface keeps while one
   family is redialled.
