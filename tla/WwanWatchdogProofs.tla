------------------------ MODULE WwanWatchdogProofs ------------------------
(***************************************************************************)
(* What holds of the watchdog for every MAX_STRIKES and HARD_RESET_LIMIT.  *)
(***************************************************************************)
EXTENDS WwanWatchdog, TLAPS

USE LimitsAssumption, TimelyAssumption, FaultsAssumption

\* TypeOK in two halves: the flags, and the rest.
FlagsOK ==
  /\ coverage \in BOOLEAN /\ running \in BOOLEAN /\ session \in BOOLEAN
  /\ outage \in BOOLEAN

CountsOK ==
  /\ modem \in {"absent", "healthy", "frozen"}
  /\ pc \in Phases
  /\ strikes \in 0 .. MaxStrikes
  /\ soft \in 0 .. HardResetLimit - 1
  /\ restarts \in 0 .. HardResetLimit
  /\ faults \in 0 .. MaxFaults

\* Every count in software_restart_count stands for a restart that was made, or
\* is the next command of the script; a hardware reset under way was due.
CountInv ==
  /\ soft <= restarts + (IF pc = "restart" THEN 1 ELSE 0)
  /\ pc \in {"stop", "reset"} => restarts >= HardResetLimit - 1 /\ soft = 0

Inv == CountsOK /\ CountInv

-----------------------------------------------------------------------------
\* A count is raised by one, up to its bound.
LEMMA CappedBounds ==
  ASSUME NEW bound \in Nat, NEW n \in 0 .. bound
  PROVE  /\ Capped(n, bound) \in 0 .. bound
         /\ Capped(n, bound) >= n
         /\ n < bound => Capped(n, bound) = n + 1
  BY SMT DEF Capped

LEMMA InvInit == Init => Inv
  BY SMT DEF Init, Inv, CountsOK, CountInv, Phases

LEMMA RestartKeepsInv ==
  ASSUME Inv, RestartService, pc \in {"found", "restart"},
         strikes' \in 0 .. MaxStrikes, UNCHANGED soft
  PROVE  Inv'
  <1>1. restarts' \in 0 .. HardResetLimit /\ restarts' >= restarts
        /\ (restarts < HardResetLimit => restarts' = restarts + 1)
    BY CappedBounds DEF RestartService, Inv, CountsOK
  <1>2. faults' \in 0 .. MaxFaults
    BY SMT DEF RestartService, Fault, Inv, CountsOK
  <1>3. CountsOK'
    BY <1>1, <1>2, SMT DEF RestartService, Inv, CountsOK, Phases
  <1>4. CountInv'
    BY <1>1, SMT DEF RestartService, Inv, CountsOK, CountInv
  <1> QED BY <1>3, <1>4 DEF Inv

\* What moves around the script leaves its counters alone.
LEMMA AroundKeepsInv ==
  ASSUME Inv, Around
  PROVE  Inv'
  <1> USE DEF Inv, CountsOK, CountInv, Phases, scriptVars, netVars
  <1>1. CASE Connect       BY <1>1, SMT DEF Connect
  <1>2. CASE Drop          BY <1>2, SMT DEF Drop, Fault
  <1>3. CASE CoverageMoves BY <1>3, SMT DEF CoverageMoves
  <1>4. CASE Unplug        BY <1>4, SMT DEF Unplug, Fault
  <1>5. CASE Freeze        BY <1>5, SMT DEF Freeze, Fault
  <1>6. CASE Enumerate     BY <1>6, SMT DEF Enumerate
  <1>7. CASE Killed        BY <1>7, SMT DEF Killed, Fault
  <1> QED BY <1>1, <1>2, <1>3, <1>4, <1>5, <1>6, <1>7 DEF Around

LEMMA DownKeepsInv ==
  ASSUME Inv, Down
  PROVE  Inv'
  <1>1. strikes' \in 0 .. MaxStrikes
    BY CappedBounds DEF Down, Inv, CountsOK
  <1>2. faults' \in 0 .. MaxFaults
    BY SMT DEF Down, Fault, Inv, CountsOK
  <1>4. UNCHANGED <<modem, coverage, running, session, restarts>> /\ pc = "check"
    BY DEF Down, netVars
  <1>5. CASE pc' = "top" /\ UNCHANGED soft
    BY <1>1, <1>2, <1>4, <1>5, SMT DEF Inv, CountsOK, CountInv, Phases
  <1>6. CASE ~HardReset(Counted(soft)) /\ pc' = "restart" /\ soft' = Counted(soft)
    BY <1>1, <1>2, <1>4, <1>6, SMT
       DEF Inv, CountsOK, CountInv, Phases, HardReset, Counted
  <1>7. CASE HardReset(Counted(soft)) /\ pc' \in {"restart", "stop"} /\ soft' = 0
    BY <1>1, <1>2, <1>4, <1>7, SMT
       DEF Inv, CountsOK, CountInv, Phases, HardReset, Counted
  <1> QED BY <1>5, <1>6, <1>7 DEF Down

LEMMA ScriptKeepsInv ==
  ASSUME Inv, Script
  PROVE  Inv'
  <1>1. CASE Test
    BY <1>1, SMT DEF Test, Inv, CountsOK, CountInv, Phases, netVars
  <1>2. CASE Found
    BY <1>2, SMT DEF Found, Inv, CountsOK, CountInv, Phases, netVars
  <1>3. CASE RestartFound
    BY <1>3, RestartKeepsInv DEF RestartFound
  <1>4. CASE Up
    BY <1>4, SMT DEF Up, Cleared, Inv, CountsOK, CountInv, Phases, netVars
  <1>5. CASE Down
    BY <1>5, DownKeepsInv
  <1>6. CASE StopService
    BY <1>6, SMT DEF StopService, Inv, CountsOK, CountInv, Phases
  <1>7. CASE ResetModem
    BY <1>7, SMT DEF ResetModem, Fault, Inv, CountsOK, CountInv, Phases
  <1>8. CASE RestartDown
    BY <1>8, RestartKeepsInv DEF RestartDown, Inv, CountsOK
  <1>9. CASE Wake
    BY <1>9, SMT DEF Wake, Inv, CountsOK, CountInv, Phases, netVars
  <1> QED
    BY <1>1, <1>2, <1>3, <1>4, <1>5, <1>6, <1>7, <1>8, <1>9 DEF Script

LEMMA StepKeepsInv == Inv /\ [Next]_vars => Inv'
  <1> SUFFICES ASSUME Inv, [Next]_vars PROVE Inv'
    OBVIOUS
  <1>1. CASE Script BY <1>1, ScriptKeepsInv
  <1>2. CASE Around BY <1>2, AroundKeepsInv
  <1>3. CASE UNCHANGED vars
    BY <1>3, SMT DEF vars, scriptVars, netVars, Inv, CountsOK, CountInv
  <1> QED BY <1>1, <1>2, <1>3 DEF Next

LEMMA FlagsInit == Init => FlagsOK
  BY Zenon DEF Init, FlagsOK

LEMMA StepKeepsFlags == FlagsOK /\ [Next]_vars => FlagsOK'
  <1> SUFFICES ASSUME FlagsOK, [Next]_vars PROVE FlagsOK'
    OBVIOUS
  <1> USE DEF FlagsOK, netVars, scriptVars
  <1>1. CASE Script
    BY <1>1, Zenon DEF Script, Test, Found, RestartFound, RestartService, Up, Down,
       StopService, ResetModem, RestartDown, Wake
  <1>2. CASE Around
    BY <1>2, Zenon DEF Around, Connect, Drop, CoverageMoves, Unplug, Freeze, Enumerate,
       Killed
  <1>3. CASE UNCHANGED vars
    BY <1>3, Zenon DEF vars
  <1> QED BY <1>1, <1>2, <1>3 DEF Next

-----------------------------------------------------------------------------
\* The counters of wwan-monitor.sh stay within their limits.
THEOREM TypeCorrect == Spec => []TypeOK
  <1>1. Inv /\ FlagsOK => TypeOK
    BY DEF Inv, CountsOK, FlagsOK, TypeOK
  <1> QED
    BY <1>1, InvInit, StepKeepsInv, FlagsInit, StepKeepsFlags, PTL DEF Spec

\* The modem is reset only after HARD_RESET_LIMIT - 1 restarts of wwan.service
\* that did not bring the network back (wwan-monitor.sh:87-97).
THEOREM ResetIsLastResort == Spec => LastResort
  <1>1. Inv /\ [Next]_vars => [ResetModem => restarts >= HardResetLimit - 1]_vars
    BY DEF Inv, CountInv, ResetModem
  <1> QED BY <1>1, InvInit, StepKeepsInv, PTL DEF Spec, LastResort
=============================================================================
