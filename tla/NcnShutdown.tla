----------------------------- MODULE NcnShutdown -----------------------------
(***************************************************************************)
(* sat/cli/bootsys/mgmt_power.py, do_mgmt_shutdown_power: with the consoles*)
(* of the management NCNs logged, each host is told to shut down over SSH; *)
(* the hosts that are not off when the shutdown timeout runs out are       *)
(* powered off through IPMI, and the stage fails if some do not obey.      *)
(***************************************************************************)
EXTENDS IpmiPower, ConsoleLogging

CONSTANT ShutdownTimeout  \* bootsys.ncn_shutdown_timeout, in poll intervals

VARIABLES
  pc,
  toTell,    \* hosts start_shutdown has not come to yet
  told,      \* hosts that accepted the shutdown command
  outcome

shutdown == <<pc, toTell, told, outcome>>
vars == <<ipmi, consoles, shutdown>>

Init ==
  /\ IpmiInit
  /\ ConsoleInit(Hosts)
  /\ power \in [Hosts -> {"on", "off"}]
  /\ pc = "verify"
  /\ toTell = Hosts
  /\ told = {}
  /\ outcome = "none"

\* A host goes off when it was told to, after any time or never.
PowersOff(h) ==
  /\ power[h] = "on"
  /\ h \in told \cup commanded
  /\ power' = [power EXCEPT ![h] = "off"]
  /\ UNCHANGED <<wpc, toSend, pending, misses, elapsed, lost, commanded, reached,
                 consoles, shutdown>>

\* The NCN groups cannot be verified or console logging cannot be started.
SetupFails ==
  /\ pc = "verify"
  /\ UNCHANGED consoles \/ EnterLoggerFails(Hosts)
  /\ pc' = "done"
  /\ outcome' = "exit"
  /\ UNCHANGED <<ipmi, toTell, told>>

SetupSucceeds ==
  /\ pc = "verify"
  /\ EnterLogger(Hosts)
  /\ pc' = "tell"
  /\ UNCHANGED <<ipmi, toTell, told, outcome>>

\* start_shutdown, one host; failures are logged and otherwise ignored.
TellHost(h) ==
  /\ pc = "tell"
  /\ h \in toTell
  /\ toTell' = toTell \ {h}
  /\ told' \in {told, told \cup {h}}
  /\ UNCHANGED <<ipmi, consoles, pc, outcome>>

\* finish_shutdown: the first waiter.
WaitForShutdown ==
  /\ pc = "tell"
  /\ toTell = {}
  /\ StartWaiter(Hosts, FALSE)
  /\ pc' = "grace"
  /\ UNCHANGED <<consoles, toTell, told, outcome>>

Succeed ==
  /\ outcome' = "ok"
  /\ ExitLogger
  /\ pc' = "done"

ShutdownComplete ==
  /\ pc = "grace"
  /\ WaiterReturns(ShutdownTimeout)
  /\ pending = {}
  /\ Succeed
  /\ UNCHANGED <<ipmi, toTell, told>>

\* Fault: all hosts are powered off, also those that are off already.
AllHosts == Hosts

\* The hosts the second waiter is made for.
HostsToForce == pending

ForcePowerOff ==
  /\ pc = "grace"
  /\ WaiterReturns(ShutdownTimeout)
  /\ pending # {}
  /\ StartWaiter(HostsToForce, TRUE)
  /\ pc' = "force"
  /\ UNCHANGED <<consoles, toTell, told, outcome>>

PollHosts ==
  /\ \/ pc = "grace" /\ Poll("off", ShutdownTimeout)
     \/ pc = "force" /\ Poll("off", IpmiTimeout)
  /\ UNCHANGED <<consoles, shutdown>>

Send ==
  /\ StopSending \/ \E h \in Hosts : SendCommand(h)
  /\ UNCHANGED <<consoles, shutdown>>

\* Fault: whether hosts failed to power off is not looked at.
NothingFailed == TRUE

AllObeyed == pending = {}

PowerOffEnds ==
  /\ pc = "force"
  /\ WaiterReturns(IpmiTimeout)
  /\ IF AllObeyed
       THEN Succeed
       ELSE outcome' = "exit" /\ pc' = "done" /\ UNCHANGED consoles
  /\ UNCHANGED <<ipmi, toTell, told>>

Stage ==
  \/ SetupFails \/ SetupSucceeds \/ WaitForShutdown \/ ShutdownComplete
  \/ ForcePowerOff \/ PollHosts \/ Send \/ PowerOffEnds
  \/ \E h \in Hosts : TellHost(h)

Next ==
  \/ Stage
  \/ \E h \in Hosts : PowersOff(h) \/ (ScreenEnds(h) /\ UNCHANGED <<ipmi, shutdown>>)

-----------------------------------------------------------------------------
TypeOK ==
  /\ IpmiTypeOK
  /\ pc \in {"verify", "tell", "grace", "force", "done"}
  /\ toTell \subseteq Hosts
  /\ told \subseteq Hosts
  /\ screens \subseteq Hosts
  /\ watched \subseteq Hosts
  /\ outcome \in {"none", "ok", "exit"}
  /\ elapsed <= IF pc = "force" THEN IpmiTimeout ELSE ShutdownTimeout + IpmiTimeout

(* If the stage succeeds, a host is still on only if ipmitool could not    *)
(* tell its power state.                                                   *)
OnlyLostHostsStayOn ==
  outcome = "ok" => \A h \in Hosts : power[h] = "off" \/ h \in lost

(* No host is cut off that a poll has found off or while its time to shut  *)
(* down still runs.                                                        *)
CutOffAfterGrace ==
  \A h \in commanded' \ commanded : pc = "force" /\ h \notin reached

(* No host is shut down or cut off unless its console was found logged.    *)
ConsolesWatched == told \cup commanded \subseteq watched

(* "Raises: SystemExit: if any of the `hosts` failed to reach powered off  *)
(* state"                                                                  *)
PoweredOffOnSuccess == outcome = "ok" => \A h \in Hosts : power[h] = "off"
=============================================================================
