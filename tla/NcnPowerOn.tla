----------------------------- MODULE NcnPowerOn ------------------------------
(***************************************************************************)
(* sat/cli/bootsys/mgmt_power.py, do_power_on_ncns: with their consoles    *)
(* logged, the management NCNs are powered on group by group, managers,    *)
(* storage nodes, workers.  Every host of a group is to be reachable over  *)
(* SSH (SSHAvailableWaiter) before the next group is powered on; that a    *)
(* host is on according to IPMI is waited for, but not demanded.           *)
(***************************************************************************)
EXTENDS IpmiPower, ConsoleLogging, Sequences

CONSTANTS
  Groups,      \* ordered_boot_groups
  BootTimeout  \* bootsys.ncn_boot_timeout, in poll intervals

VARIABLES
  pc,
  group,       \* index of the group that is being powered on
  reachable,   \* hosts one can log into now
  sshPending,  \* pending of the SSHAvailableWaiter
  sshElapsed,
  connected,   \* history: hosts an SSH connection to was made
  outcome

boot == <<pc, group, sshPending, sshElapsed, connected, outcome>>
vars == <<ipmi, consoles, reachable, boot>>

Init ==
  /\ IpmiInit
  /\ ConsoleInit(Hosts)
  /\ power \in [Hosts -> {"on", "off"}]
  /\ reachable \in SUBSET {h \in Hosts : power[h] = "on"}
  /\ pc = "verify"
  /\ group = 0
  /\ sshPending = {}
  /\ sshElapsed = 0
  /\ connected = {}
  /\ outcome = "none"

\* A host obeys the power command, after any time or never.
PowersOn(h) ==
  /\ power[h] = "off"
  /\ h \in commanded
  /\ power' = [power EXCEPT ![h] = "on"]
  /\ UNCHANGED <<wpc, toSend, pending, misses, elapsed, lost, commanded, reached,
                 consoles, reachable, boot>>

\* A host that is on may finish booting, and may stop answering again.
ReachabilityChanges(h) ==
  /\ power[h] = "on"
  /\ reachable' \in {reachable \cup {h}, reachable \ {h}}
  /\ UNCHANGED <<ipmi, consoles, boot>>

\* The NCN groups cannot be verified or console logging cannot be started.
SetupFails ==
  /\ pc = "verify"
  /\ UNCHANGED consoles \/ EnterLoggerFails(Hosts)
  /\ pc' = "done"
  /\ outcome' = "exit"
  /\ UNCHANGED <<ipmi, reachable, group, sshPending, sshElapsed, connected>>

SetupSucceeds ==
  /\ pc = "verify"
  /\ EnterLogger(Hosts)
  /\ pc' = "next"
  /\ UNCHANGED <<ipmi, reachable, group, sshPending, sshElapsed, connected, outcome>>

\* The next group of the loop, or its end.
NextGroup ==
  /\ pc = "next"
  /\ IF group < Len(Groups)
       THEN /\ group' = group + 1
            /\ StartWaiter(Groups[group + 1], TRUE)
            /\ pc' = "ipmi"
            /\ UNCHANGED <<consoles, outcome>>
       ELSE pc' = "done" /\ outcome' = "ok" /\ ExitLogger /\ UNCHANGED <<ipmi, group>>
  /\ UNCHANGED <<reachable, sshPending, sshElapsed, connected>>

PowerOn ==
  /\ pc = "ipmi"
  /\ \/ StopSending
     \/ \E h \in Hosts : SendCommand(h)
     \/ Poll("on", IpmiTimeout)
  /\ UNCHANGED <<consoles, reachable, boot>>

\* Fault: only the hosts found on are waited for.
HostsFoundOn(g) == Groups[g] \cap reached

HostsToConnect(g) == Groups[g]

\* The result of the IPMI waiter is dropped, and the SSH waiter starts.
WaitForSsh ==
  /\ pc = "ipmi"
  /\ WaiterReturns(IpmiTimeout)
  /\ sshPending' = HostsToConnect(group)
  /\ sshElapsed' = 0
  /\ pc' = "ssh"
  /\ UNCHANGED <<ipmi, consoles, reachable, group, connected, outcome>>

\* SSHAvailableWaiter.member_has_completed for every pending host.  Each of
\* them is tried at its own time, so a host counts if it can be reached then.
ConnectToHosts ==
  /\ pc = "ssh"
  /\ sshPending # {}
  /\ sshElapsed < BootTimeout
  /\ connected' = connected \cup (sshPending \cap reachable)
  /\ sshPending' = sshPending \ reachable
  /\ sshElapsed' \in Later(sshElapsed, BootTimeout)
  /\ UNCHANGED <<ipmi, consoles, reachable, pc, group, outcome>>

\* Fault: inaccessible hosts are logged, and the boot goes on.
AccessibleOrNot == TRUE

AllAccessible == sshPending = {}

GroupEnds ==
  /\ pc = "ssh"
  /\ sshPending = {} \/ sshElapsed >= BootTimeout
  /\ IF AllAccessible
       THEN pc' = "next" /\ UNCHANGED outcome
       ELSE pc' = "done" /\ outcome' = "exit"
  /\ UNCHANGED <<ipmi, consoles, reachable, group, sshPending, sshElapsed, connected>>

Stage ==
  \/ SetupFails \/ SetupSucceeds \/ NextGroup \/ PowerOn \/ WaitForSsh \/ ConnectToHosts
  \/ GroupEnds

Next ==
  \/ Stage
  \/ \E h \in Hosts :
       \/ PowersOn(h) \/ ReachabilityChanges(h)
       \/ ScreenEnds(h) /\ UNCHANGED <<ipmi, reachable, boot>>

-----------------------------------------------------------------------------
TypeOK ==
  /\ IpmiTypeOK
  /\ elapsed <= IpmiTimeout
  /\ pc \in {"verify", "next", "ipmi", "ssh", "done"}
  /\ group \in 0 .. Len(Groups)
  /\ reachable \subseteq Hosts
  /\ screens \subseteq Hosts
  /\ watched \subseteq Hosts
  /\ sshPending \subseteq Hosts
  /\ sshElapsed \in 0 .. BootTimeout
  /\ connected \subseteq Hosts
  /\ outcome \in {"none", "ok", "exit"}

(* A host is powered on only after a connection was made to every host of  *)
(* every earlier group, and success is only reported after one was made to *)
(* all of them, however many commands and queries have failed.             *)
GroupsInOrder ==
  /\ \A i, j \in 1 .. Len(Groups) :
       i < j /\ Groups[j] \cap commanded # {} => Groups[i] \subseteq connected
  /\ outcome = "ok" => \A i \in 1 .. Len(Groups) : Groups[i] \subseteq connected

(* No host is powered on unless its console was found logged.              *)
ConsolesWatched == commanded \subseteq watched
=============================================================================
