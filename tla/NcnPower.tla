------------------------------ MODULE NcnPower -------------------------------
(***************************************************************************)
(* The stages of sat bootsys that use sat/cli/bootsys/mgmt_power.py, one   *)
(* after the other: the management NCNs are shut down (NcnShutdown) and    *)
(* later powered on (NcnPowerOn).  Both watch the same hosts through the   *)
(* waiter of IpmiPower; the second stage starts with a new waiter, but the *)
(* hosts remember what the first one told them.                            *)
(***************************************************************************)
EXTENDS IpmiPower, ConsoleLogging, Sequences

CONSTANTS
  ShutdownTimeout,  \* see NcnShutdown
  Groups,           \* see NcnPowerOn
  BootTimeout

ASSUME NcnPowerAssumption ==
  /\ ShutdownTimeout \in Nat
  /\ Groups \in Seq(SUBSET Hosts)
  /\ \A i, j \in 1 .. Len(Groups) : i # j => Groups[i] \cap Groups[j] = {}
  /\ BootTimeout \in Nat

VARIABLES
  stage,
  shutdownPc, toTell, told, shutdownOutcome,
  bootPc, group, reachable, sshPending, sshElapsed, connected, bootOutcome

shutdown == <<shutdownPc, toTell, told, shutdownOutcome>>
boot == <<bootPc, group, reachable, sshPending, sshElapsed, connected, bootOutcome>>
vars == <<stage, ipmi, consoles, shutdown, boot>>

Shutdown == INSTANCE NcnShutdown WITH pc <- shutdownPc, outcome <- shutdownOutcome
PowerOn == INSTANCE NcnPowerOn WITH pc <- bootPc, outcome <- bootOutcome

Init ==
  /\ stage = "shutdown"
  /\ Shutdown!Init
  /\ bootPc = "verify"
  /\ group = 0
  /\ reachable = {}
  /\ sshPending = {}
  /\ sshElapsed = 0
  /\ connected = {}
  /\ bootOutcome = "none"

ShutdownStage ==
  /\ stage = "shutdown"
  /\ Shutdown!Next
  /\ UNCHANGED <<stage, boot>>

\* However the shutdown ended, the admin boots the hosts some day.
StartBoot ==
  /\ stage = "shutdown"
  /\ shutdownPc = "done"
  /\ stage' = "boot"
  /\ reachable' \in SUBSET {h \in Hosts : power[h] = "on"}
  /\ told' = told \cup commanded
  /\ wpc' = "idle"
  /\ toSend' = {}
  /\ pending' = {}
  /\ misses' = [h \in Hosts |-> 0]
  /\ elapsed' = 0
  /\ lost' = {}
  /\ commanded' = {}
  /\ reached' = {}
  /\ watched' = {}
  /\ UNCHANGED <<power, screens, shutdownPc, toTell, shutdownOutcome, bootPc, group,
                 sshPending, sshElapsed, connected, bootOutcome>>

BootStage ==
  /\ stage = "boot"
  /\ PowerOn!Next
  /\ UNCHANGED <<stage, shutdown>>

\* A host that was told to shut down by the first stage does so only now.
LateShutdown(h) ==
  /\ stage = "boot"
  /\ power[h] = "on"
  /\ h \in told
  /\ told' = told \ {h}
  /\ power' = [power EXCEPT ![h] = "off"]
  /\ reachable' = reachable \ {h}
  /\ UNCHANGED <<stage, wpc, toSend, pending, misses, elapsed, lost, commanded,
                 reached, consoles, shutdownPc, toTell, shutdownOutcome, bootPc,
                 group, sshPending, sshElapsed, connected, bootOutcome>>

Finished == stage = "boot" /\ bootPc = "done" /\ UNCHANGED vars

Next ==
  \/ ShutdownStage \/ StartBoot \/ BootStage \/ Finished
  \/ \E h \in Hosts : LateShutdown(h)

(* A stage is a sequential program and is always scheduled; hosts may      *)
(* ignore every command, and every query may fail.                         *)
Spec ==
  /\ Init /\ [][Next]_vars
  /\ WF_vars(ShutdownStage /\ Shutdown!Stage)
  /\ WF_vars(BootStage /\ PowerOn!Stage)

-----------------------------------------------------------------------------
TypeOK ==
  /\ stage \in {"shutdown", "boot"}
  /\ stage = "shutdown" => Shutdown!TypeOK
  /\ stage = "boot" => PowerOn!TypeOK

(* If the shutdown succeeds, a host is still on only if ipmitool could not *)
(* tell its power state.                                                   *)
OnlyLostHostsStayOn == stage = "shutdown" => Shutdown!OnlyLostHostsStayOn

(* No host is cut off that a poll has found off or while its time to shut  *)
(* down still runs.                                                        *)
ForcedAfterGrace == [][stage = "shutdown" => Shutdown!CutOffAfterGrace]_vars

(* A host is powered on only after a connection was made to every host of  *)
(* every earlier group, and success is only reported after one was made to *)
(* all of them, however many commands and queries have failed, although not*)
(* every host need have been sent the power command, and some may have been*)
(* shutting down.                                                          *)
GroupsInOrder == stage = "boot" => PowerOn!GroupsInOrder

(* No host is told to shut down, cut off or powered on in a stage unless   *)
(* the stage found its console logged: the sessions of an earlier run do   *)
(* not count, and those that end at once are noticed.                      *)
ConsolesWatched ==
  IF stage = "shutdown" THEN Shutdown!ConsolesWatched ELSE PowerOn!ConsolesWatched

(* Both stages come to an end, whatever the hosts do.                      *)
StagesEnd == <>(shutdownPc = "done") /\ (stage = "boot" ~> bootPc = "done")

(* "Raises: SystemExit: if any of the `hosts` failed to reach powered off  *)
(* state"                                                                  *)
PoweredOffOnSuccess == stage = "shutdown" => Shutdown!PoweredOffOnSuccess
=============================================================================
