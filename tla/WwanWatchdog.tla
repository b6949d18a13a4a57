---------------------------- MODULE WwanWatchdog ----------------------------
(***************************************************************************)
(* The watchdog of the 5G uplink, edge/5g-wwan/wwan-monitor.sh, with what  *)
(* it watches: the modem, wwan.service (quectel-CM under systemd) and the  *)
(* WireGuard tunnel over it.                                               *)
(*                                                                         *)
(* The script is one process and each command that tests or changes the    *)
(* outside is a step; the modem, the network and the service move in       *)
(* between, during its sleeps too.  strike_count grows for as long as the  *)
(* network is down; only whether it has reached MAX_STRIKES is ever read,  *)
(* so it is kept up to that.                                               *)
(***************************************************************************)
EXTENDS Integers

CONSTANTS
  MaxStrikes,       \* MAX_STRIKES
  HardResetLimit,   \* HARD_RESET_LIMIT
  Timely,           \* whether the sleeps are long enough for quectel-CM
  MaxFaults         \* bound on faults of the modem and the system, for TLC

ASSUME LimitsAssumption == MaxStrikes \in Nat \ {0} /\ HardResetLimit \in Nat \ {0}
ASSUME TimelyAssumption == Timely \in BOOLEAN
ASSUME FaultsAssumption == MaxFaults \in Nat

VARIABLES
  modem,      \* "absent" (no interface or no /dev/cdc-wdm*), "healthy" or "frozen"
  coverage,   \* whether the carrier can be reached
  running,    \* whether wwan.service is started
  session,    \* whether quectel-CM has a data call
  pc,         \* the next command of the script
  strikes,    \* strike_count, up to MAX_STRIKES
  soft,       \* software_restart_count
  outage,     \* MAX_STRIKES was reached, and the tunnel not revived since
  restarts,   \* restarts of wwan.service since the network was last up or the
              \* modem reset, up to HARD_RESET_LIMIT
  faults

netVars    == <<modem, coverage, running, session>>
scriptVars == <<pc, strikes, soft>>
vars       == <<netVars, scriptVars, outage, restarts, faults>>

Phases == {"top", "wait", "found", "check", "stop", "reset", "restart", "settle"}

TypeOK ==
  /\ modem \in {"absent", "healthy", "frozen"}
  /\ coverage \in BOOLEAN /\ running \in BOOLEAN /\ session \in BOOLEAN
  /\ outage \in BOOLEAN
  /\ pc \in Phases
  /\ strikes \in 0 .. MaxStrikes
  /\ soft \in 0 .. HardResetLimit - 1
  /\ restarts \in 0 .. HardResetLimit
  /\ faults \in 0 .. MaxFaults

Init ==
  /\ modem \in {"absent", "healthy"} /\ coverage \in BOOLEAN
  /\ running = TRUE /\ session = FALSE
  /\ pc = "top" /\ strikes = 0 /\ soft = 0
  /\ outage = FALSE /\ restarts = 0 /\ faults = 0

Fault == faults < MaxFaults /\ faults' = faults + 1

Online == modem = "healthy" /\ coverage /\ session

Capped(n, bound) == IF n < bound THEN n + 1 ELSE bound

-----------------------------------------------------------------------------
(* What happens around the script.                                         *)

\* quectel-CM sets up the data call.
CanConnect == running /\ modem = "healthy" /\ coverage /\ ~session
Connect ==
  /\ CanConnect
  /\ session' = TRUE
  /\ UNCHANGED <<modem, coverage, running, scriptVars, outage, restarts, faults>>

\* The call drops, or quectel-CM exits and systemd starts it again.
Drop ==
  /\ session
  /\ Fault
  /\ session' = FALSE
  /\ UNCHANGED <<modem, coverage, running, scriptVars, outage, restarts>>

CoverageMoves ==
  /\ coverage' = ~coverage
  /\ UNCHANGED <<modem, running, session, scriptVars, outage, restarts, faults>>

\* The modem leaves the bus, with its data call, or its firmware hangs.
Unplug ==
  /\ modem # "absent"
  /\ Fault
  /\ modem' = "absent" /\ session' = FALSE
  /\ UNCHANGED <<coverage, running, scriptVars, outage, restarts>>

Freeze ==
  /\ modem = "healthy"
  /\ Fault
  /\ modem' = "frozen"
  /\ UNCHANGED <<coverage, running, session, scriptVars, outage, restarts>>

\* It is on the bus (again): a fresh start of the firmware.
Enumerate ==
  /\ modem = "absent"
  /\ modem' = "healthy"
  /\ UNCHANGED <<coverage, running, session, scriptVars, outage, restarts, faults>>

\* The script is killed (MemoryMax) and systemd starts it again.
Killed ==
  /\ Fault
  /\ pc' = "top" /\ strikes' = 0 /\ soft' = 0
  /\ UNCHANGED <<netVars, outage, restarts>>

-----------------------------------------------------------------------------
(* The script.                                                             *)

\* find_wwan_interface and find_qmi_device.
Test ==
  /\ pc = "top"
  /\ pc' = IF modem = "absent" THEN "wait" ELSE "check"
  /\ UNCHANGED <<netVars, strikes, soft, outage, restarts, faults>>

\* wait_for_device returns.
Found ==
  /\ pc = "wait" /\ modem # "absent"
  /\ pc' = "found"
  /\ UNCHANGED <<netVars, strikes, soft, outage, restarts, faults>>

\* systemctl restart wwan.service; systemd may refuse (StartLimitBurst), which
\* the script ignores.
RestartService ==
  /\ session' = FALSE
  /\ \/ running' = TRUE /\ UNCHANGED faults
     \/ running' = FALSE /\ Fault
  /\ restarts' = Capped(restarts, HardResetLimit)
  /\ pc' = "settle"
  /\ UNCHANGED <<modem, coverage, outage>>

\* The hardware is back.
RestartFound ==
  /\ pc = "found"
  /\ RestartService
  /\ strikes' = 0
  /\ UNCHANGED soft

\* What software_restart_count becomes when the network is up.  NotCleared is a
\* seeded fault.
NotCleared(n) == n
Cleared(n) == 0

\* check_connection returns 0.  The tunnel is restarted if strikes were counted.
Up ==
  /\ pc = "check" /\ Online
  /\ outage' = IF strikes >= MaxStrikes THEN FALSE ELSE outage
  /\ strikes' = 0
  /\ soft' = Cleared(soft)
  /\ restarts' = 0
  /\ pc' = "top"
  /\ UNCHANGED <<netVars, faults>>

\* What software_restart_count becomes when MAX_STRIKES is reached, and whether
\* that calls for a hardware reset.  Uncounted and StrictLimit are seeded faults.
Uncounted(n) == n
Counted(n) == n + 1
StrictLimit(n) == n > HardResetLimit
HardReset(n) == n >= HardResetLimit

\* check_connection returns 1: three pings were lost.
Down ==
  LET struck == Capped(strikes, MaxStrikes) = MaxStrikes IN
  /\ pc = "check"
  /\ IF Online THEN Fault ELSE UNCHANGED faults
  /\ strikes' = Capped(strikes, MaxStrikes)
  /\ outage' = (outage \/ struck)
  /\ \/ ~struck /\ pc' = "top" /\ UNCHANGED soft
     \/ struck /\ ~HardReset(Counted(soft)) /\ pc' = "restart" /\ soft' = Counted(soft)
     \/ /\ struck /\ HardReset(Counted(soft))
        /\ pc' = IF modem = "absent" THEN "restart" ELSE "stop"
        /\ soft' = 0
  /\ UNCHANGED <<netVars, restarts>>

\* systemctl stop wwan.service.
StopService ==
  /\ pc = "stop"
  /\ running' = FALSE /\ session' = FALSE
  /\ pc' = "reset"
  /\ UNCHANGED <<modem, coverage, strikes, soft, outage, restarts, faults>>

\* qmicli --dms-set-operating-mode=reset: the modem leaves the bus to boot, or
\* the command fails, which the script ignores.
ResetModem ==
  /\ pc = "reset"
  /\ \/ modem' = "absent" /\ UNCHANGED faults
     \/ UNCHANGED modem /\ Fault
  /\ restarts' = 0
  /\ pc' = "restart"
  /\ UNCHANGED <<coverage, running, session, strikes, soft, outage>>

\* The restart after a failed check.
RestartDown ==
  /\ pc = "restart"
  /\ RestartService
  /\ UNCHANGED <<strikes, soft>>

\* The sleep is over.  Timely is what its length is chosen for: quectel-CM has
\* had the time to connect, where that was possible.
Wake ==
  /\ pc = "settle"
  /\ Timely => ~CanConnect
  /\ pc' = "top"
  /\ UNCHANGED <<netVars, strikes, soft, outage, restarts, faults>>

-----------------------------------------------------------------------------
Script == \/ Test \/ Found \/ RestartFound \/ Up \/ Down
          \/ StopService \/ ResetModem \/ RestartDown \/ Wake

Around == Connect \/ Drop \/ CoverageMoves \/ Unplug \/ Freeze \/ Enumerate \/ Killed

Next == Script \/ Around

Spec == Init /\ [][Next]_vars

\* The script runs on, quectel-CM keeps trying, a modem that was reset or
\* unplugged is on the bus again some day.
FairSpec == Spec /\ WF_vars(Script) /\ WF_vars(Connect) /\ WF_vars(Enumerate)

-----------------------------------------------------------------------------
\* Once the carrier stays reachable and faults end, the uplink is up for good:
\* whatever state modem, service and counters are left in, the watchdog finds a
\* way out, through a hardware reset if the firmware hangs.
UplinkRecovers == <>[]coverage => <>[]Online

\* A hardware reset is a last resort: wwan.service has been restarted at least
\* HARD_RESET_LIMIT - 1 times since the network was last up (wwan-monitor.sh:91).
LastResort == [][ResetModem => restarts >= HardResetLimit - 1]_vars

\* The tunnel is revived when the network is restored after an outage (what the
\* comment at wwan-monitor.sh:70 says).
TunnelRevived == [][Up => ~outage']_vars
=============================================================================
