----------------------------- MODULE EventQueue -----------------------------
(***************************************************************************)
(* The queue_events table of the peersight API: the rows, and the SQL      *)
(* statements of internal/repository/queries.go that change them, one      *)
(* operator per statement.  PostgreSQL runs each of them atomically; FOR   *)
(* UPDATE SKIP LOCKED makes two overlapping polls behave as if one had     *)
(* followed the other.                                                     *)
(*                                                                         *)
(* locked_until is kept as the number of ticks the lease still runs: 0     *)
(* stands for NULL and for a time in the past, which every statement       *)
(* treats alike.  locked_by, attempts and last_error are left out: no      *)
(* statement reads them.                                                   *)
(***************************************************************************)
EXTENDS Integers, FiniteSets

CONSTANTS
  Events,   \* event ids, numbered by created_at
  Types,    \* event types
  NoType,   \* kind of a row that does not exist yet
  Lease     \* lease_seconds, in ticks

ASSUME EventsAssumption == Events \subseteq Nat /\ IsFiniteSet(Events)
ASSUME TypesAssumption  == NoType \notin Types
ASSUME LeaseAssumption  == Lease \in Nat \ {0}

VARIABLES
  kind,    \* kind[e]: the type column, NoType before the row is inserted
  acked,   \* the rows with acked = true
  left     \* left[e]: ticks until locked_until

queueVars == <<kind, acked, left>>

QueueTypeOK ==
  /\ kind \in [Events -> Types \cup {NoType}]
  /\ acked \subseteq {e \in Events : kind[e] \in Types}
  /\ left \in [Events -> 0 .. Lease]

QueueInit ==
  /\ kind = [e \in Events |-> NoType]
  /\ acked = {}
  /\ left = [e \in Events |-> 0]

-----------------------------------------------------------------------------
\* EnqueueEvent: INSERT, unacked and not leased.
EnqueueEvent(e, t) ==
  /\ kind[e] = NoType
  /\ kind' = [kind EXCEPT ![e] = t]
  /\ UNCHANGED <<acked, left>>

\* The WHERE clause of the poll: unacked rows of the type, with no lease or
\* one that has run out.  ReadyWhileLeased and ReadyOnceAcked are seeded faults.
ReadyWhileLeased(t) == {e \in Events : kind[e] = t /\ e \notin acked}
ReadyOnceAcked(t)   == {e \in Events : kind[e] = t /\ left[e] = 0}
Ready(t) == {e \in Events : kind[e] = t /\ e \notin acked /\ left[e] = 0}

\* The LIMIT, after the handler's and the repository's defaults.
EffectiveMax(n) == IF n <= 0 THEN 10 ELSE IF n > 500 THEN 100 ELSE n

\* ORDER BY created_at LIMIT n.
Oldest(S, n) == {e \in S : Cardinality({d \in S : d < e}) < n}

\* The rows a poll of type t returns.
Polled(t, n) == Oldest(Ready(t), EffectiveMax(n))

\* PollQueueLease: lease the rows the poll returns.
PollQueueLease(S) ==
  /\ left' = [e \in Events |-> IF e \in S THEN Lease ELSE left[e]]
  /\ UNCHANGED <<kind, acked>>

\* AckQueueEvents: by id alone, whoever holds the lease.
AckQueueEvents(ids) ==
  /\ acked' = acked \cup ids
  /\ left' = [e \in Events |-> IF e \in ids THEN 0 ELSE left[e]]
  /\ UNCHANGED kind

\* FailQueueEvents: the lease of every unacked id is dropped, whoever holds it.
FailQueueEvents(ids) ==
  /\ left' = [e \in Events |-> IF e \in ids \ acked THEN 0 ELSE left[e]]
  /\ UNCHANGED <<kind, acked>>

\* One tick of a running lease.  NeverExpires is a seeded fault (the poll
\* without its "locked_until < NOW()" alternative), as is RunsBelow (a lease in
\* the past that is not treated as none).
NeverExpires(n) == n
RunsBelow(n) == n - 1
RunDown(n) == IF n > 0 THEN n - 1 ELSE 0

LeasesRunDown ==
  /\ left' = [e \in Events |-> RunDown(left[e])]
  /\ UNCHANGED <<kind, acked>>
=============================================================================
