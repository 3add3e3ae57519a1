----------------------------- MODULE BootsysProofs -----------------------------
(***************************************************************************)
(* Proofs about the stages of sat bootsys that act on hosts and nodes: the *)
(* shutdown and the boot of the management NCNs, for any hosts, groups and *)
(* timeouts, and the BOS operations on session templates, for any set of   *)
(* templates, any number of failures in a row and any timeout.             *)
(***************************************************************************)
EXTENDS NcnPower, BosOperations, TLAPS

-----------------------------------------------------------------------------
(* Management NCNs.                                                        *)
(*                                                                         *)
(* Shutdown: a host that is no longer waited for is off or was given up,   *)
(* and the second waiter, the only one that sends commands, starts with    *)
(* the hosts that none has found off.  Boot: commands are only sent to the *)
(* groups up to the current one, and to every host of the groups before it *)
(* a connection was made.  Both: from the moment a stage begins with its   *)
(* hosts the consoles of all of them have been found logged.               *)

ShutdownInv ==
  /\ shutdownPc \in {"verify", "tell", "grace", "force", "done"}
  /\ power \in [Hosts -> {"on", "off"}]
  /\ pending \subseteq Hosts /\ toTell \subseteq Hosts
  /\ shutdownPc \in {"verify", "tell"} =>
       wpc = "idle" /\ reached = {} /\ commanded = {}
  /\ shutdownPc = "verify" => told = {}
  /\ wpc = "send" => shutdownPc = "force"
  /\ wpc # "send" => toSend = {}
  /\ toSend \subseteq pending
  /\ pending \cap reached = {}
  /\ shutdownPc \in {"tell", "grace", "force"} => watched = Hosts
  /\ told \cup commanded \subseteq watched
  /\ shutdownPc \in {"grace", "force"} =>
       \A h \in Hosts \ pending : power[h] = "off" \/ h \in lost
  /\ shutdownOutcome = "ok" =>
       shutdownPc = "done" /\ \A h \in Hosts : power[h] = "off" \/ h \in lost

BootVariables == bootPc = "verify" /\ group = 0 /\ connected = {} /\ bootOutcome = "none"

BootInv ==
  /\ bootPc \in {"verify", "next", "ipmi", "ssh", "done"}
  /\ group \in 0 .. Len(Groups)
  /\ bootPc = "verify" => group = 0 /\ wpc = "idle" /\ commanded = {}
  /\ bootPc \in {"ipmi", "ssh"} => group # 0
  /\ wpc = "send" => bootPc = "ipmi" /\ toSend \subseteq Groups[group]
  /\ \A h \in commanded : \E i \in 1 .. group : h \in Groups[i]
  /\ \A i \in 1 .. group :
       i < group \/ bootPc = "next" => Groups[i] \subseteq connected
  /\ bootPc = "ssh" => Groups[group] \subseteq connected \cup sshPending
  /\ bootOutcome = "ok" => \A i \in 1 .. Len(Groups) : Groups[i] \subseteq connected
  /\ bootPc \in {"next", "ipmi", "ssh"} => watched = Hosts
  /\ commanded \subseteq watched

NcnInv ==
  \/ stage = "shutdown" /\ BootVariables /\ ShutdownInv
  \/ stage = "boot" /\ BootInv

-----------------------------------------------------------------------------
LEMMA InitInv == Init => NcnInv
BY DEF Init, Shutdown!Init, Shutdown!IpmiInit, Shutdown!ConsoleInit, NcnInv, BootVariables,
       ShutdownInv

(* The steps of the shutdown, those of its hosts included.                 *)
LEMMA ShutdownKeepsInv ==
  ASSUME ShutdownInv, Shutdown!Next
  PROVE  ShutdownInv'
<1> USE DEF ShutdownInv, Shutdown!ipmi, Shutdown!consoles, Shutdown!shutdown
<1>1. CASE Shutdown!SetupFails
  BY <1>1 DEF Shutdown!SetupFails, Shutdown!EnterLoggerFails
<1>2. CASE Shutdown!SetupSucceeds
  <2>1. watched' = Hosts
    BY <1>2 DEF Shutdown!SetupSucceeds, Shutdown!EnterLogger, Shutdown!Missing, Shutdown!Starts
  <2> QED
    BY <1>2, <2>1 DEF Shutdown!SetupSucceeds
<1>3. CASE Shutdown!WaitForShutdown
  BY <1>3 DEF Shutdown!WaitForShutdown, Shutdown!StartWaiter
<1>4. CASE Shutdown!ShutdownComplete
  BY <1>4 DEF Shutdown!ShutdownComplete, Shutdown!Succeed, Shutdown!ExitLogger
<1>5. CASE Shutdown!ForcePowerOff
  BY <1>5 DEF Shutdown!ForcePowerOff, Shutdown!StartWaiter, Shutdown!WaiterReturns,
              Shutdown!HostsToForce
<1>6. CASE Shutdown!PollHosts
  <2>1. PICK timeout : Shutdown!Poll("off", timeout) /\ shutdownPc \in {"grace", "force"}
    BY <1>6 DEF Shutdown!PollHosts
  <2>2. PICK unanswered \in SUBSET pending, noTool \in SUBSET pending :
          LET found == {h \in pending \ noTool : Shutdown!InState(h, "off", unanswered)}
              dropped == noTool \cup {h \in pending : Shutdown!GivenUp(h, unanswered)}
          IN /\ pending' = pending \ (found \cup dropped)
             /\ lost' = lost \cup dropped
             /\ reached' = reached \cup found
    BY <2>1 DEF Shutdown!Poll
  <2>3. wpc = "poll" /\ UNCHANGED <<power, wpc, toSend, commanded, consoles, shutdown>>
    BY <1>6, <2>1 DEF Shutdown!Poll, Shutdown!PollHosts, consoles, shutdown
  <2> QED
    BY <2>1, <2>2, <2>3 DEF Shutdown!InState, consoles, shutdown
<1>7. CASE Shutdown!Send
  BY <1>7 DEF Shutdown!Send, Shutdown!StopSending, Shutdown!SendCommand
<1>8. CASE Shutdown!PowerOffEnds
  BY <1>8 DEF Shutdown!PowerOffEnds, Shutdown!Succeed, Shutdown!ExitLogger, Shutdown!AllObeyed,
              Shutdown!WaiterReturns
<1>9. CASE \E h \in Hosts : Shutdown!TellHost(h)
  BY <1>9 DEF Shutdown!TellHost
<1>10. CASE \E h \in Hosts : Shutdown!PowersOff(h)
  BY <1>10 DEF Shutdown!PowersOff
<1>11. CASE \E h \in Hosts : Shutdown!ScreenEnds(h) /\ UNCHANGED <<Shutdown!ipmi, Shutdown!shutdown>>
  BY <1>11 DEF Shutdown!ScreenEnds
<1> QED
  BY <1>1, <1>2, <1>3, <1>4, <1>5, <1>6, <1>7, <1>8, <1>9, <1>10, <1>11
  DEF Shutdown!Next, Shutdown!Stage

(* The steps of the boot.                                                  *)
LEMMA BootKeepsInv ==
  ASSUME BootInv, PowerOn!Next
  PROVE  BootInv'
<1> USE NcnPowerAssumption DEF BootInv, PowerOn!ipmi, PowerOn!consoles, PowerOn!boot
<1>1. CASE PowerOn!SetupFails
  BY <1>1 DEF PowerOn!SetupFails, PowerOn!EnterLoggerFails
<1>2. CASE PowerOn!SetupSucceeds
  <2>1. watched' = Hosts
    BY <1>2 DEF PowerOn!SetupSucceeds, PowerOn!EnterLogger, PowerOn!Missing, PowerOn!Starts
  <2> QED
    BY <1>2, <2>1 DEF PowerOn!SetupSucceeds
<1>3. CASE PowerOn!NextGroup
  <2>1. CASE group < Len(Groups)
    BY <1>3, <2>1 DEF PowerOn!NextGroup, PowerOn!StartWaiter
  <2>2. CASE ~ (group < Len(Groups))
    BY <1>3, <2>2 DEF PowerOn!NextGroup, PowerOn!ExitLogger
  <2> QED
    BY <2>1, <2>2
<1>4. CASE PowerOn!PowerOn
  BY <1>4 DEF PowerOn!PowerOn, PowerOn!StopSending, PowerOn!SendCommand, PowerOn!Poll
<1>5. CASE PowerOn!WaitForSsh
  BY <1>5 DEF PowerOn!WaitForSsh, PowerOn!HostsToConnect, PowerOn!WaiterReturns
<1>6. CASE PowerOn!ConnectToHosts
  BY <1>6 DEF PowerOn!ConnectToHosts
<1>7. CASE PowerOn!GroupEnds
  BY <1>7 DEF PowerOn!GroupEnds, PowerOn!AllAccessible
<1>8. CASE \E h \in Hosts : PowerOn!PowersOn(h) \/ PowerOn!ReachabilityChanges(h)
  BY <1>8 DEF PowerOn!PowersOn, PowerOn!ReachabilityChanges
<1>9. CASE \E h \in Hosts : PowerOn!ScreenEnds(h) /\ UNCHANGED <<PowerOn!ipmi, reachable, PowerOn!boot>>
  BY <1>9 DEF PowerOn!ScreenEnds
<1> QED
  BY <1>1, <1>2, <1>3, <1>4, <1>5, <1>6, <1>7, <1>8, <1>9 DEF PowerOn!Next, PowerOn!Stage

LEMMA NextKeepsInv == NcnInv /\ [Next]_vars => NcnInv'
<1> SUFFICES ASSUME NcnInv, [Next]_vars PROVE NcnInv'
  OBVIOUS
<1>1. CASE ShutdownStage
  <2>1. stage = "shutdown" /\ BootVariables /\ ShutdownInv
    BY <1>1 DEF NcnInv, ShutdownStage
  <2>2. ShutdownInv'
    BY <1>1, <2>1, ShutdownKeepsInv DEF ShutdownStage
  <2> QED
    BY <1>1, <2>1, <2>2 DEF NcnInv, ShutdownStage, BootVariables, boot
<1>2. CASE StartBoot
  BY <1>2, NcnPowerAssumption DEF NcnInv, StartBoot, BootVariables, BootInv
<1>3. CASE BootStage
  <2>1. stage = "boot" /\ BootInv
    BY <1>3 DEF NcnInv, BootStage
  <2>2. BootInv'
    BY <1>3, <2>1, BootKeepsInv DEF BootStage
  <2> QED
    BY <1>3, <2>1, <2>2 DEF NcnInv, BootStage
<1>4. CASE \E h \in Hosts : LateShutdown(h)
  BY <1>4 DEF NcnInv, LateShutdown, BootInv, consoles
<1>5. CASE Finished \/ UNCHANGED vars
  BY <1>5 DEF Finished, vars, ipmi, consoles, shutdown, boot, NcnInv, ShutdownInv,
              BootVariables, BootInv
<1> QED
  BY <1>1, <1>2, <1>3, <1>4, <1>5 DEF Next

(* The two stages keep what do_mgmt_shutdown_power and do_power_on_ncns     *)
(* rely on.                                                                *)
THEOREM NcnInvariant == Spec => []NcnInv
BY InitInv, NextKeepsInv, PTL DEF Spec

(* If the shutdown succeeds, a host is still on only if ipmitool could not *)
(* tell its power state (finish_shutdown).                                 *)
THEOREM LostHostsStayOn == Spec => []OnlyLostHostsStayOn
<1>1. NcnInv => OnlyLostHostsStayOn
  BY DEF NcnInv, ShutdownInv, OnlyLostHostsStayOn, Shutdown!OnlyLostHostsStayOn
<1> QED
  BY <1>1, NcnInvariant, PTL

(* A group is powered on only after a connection was made to every host of *)
(* the groups before it, and success means that to all (do_power_on_ncns). *)
THEOREM GroupsBootInOrder == Spec => []GroupsInOrder
<1>1. ASSUME BootInv PROVE PowerOn!GroupsInOrder
  <2>1. ASSUME NEW i \in 1 .. Len(Groups), NEW j \in 1 .. Len(Groups), i < j,
               Groups[j] \cap commanded # {}
        PROVE  Groups[i] \subseteq connected
    <3>1. PICK h \in Groups[j] : h \in commanded
      BY <2>1
    <3>2. PICK k \in 1 .. group : h \in Groups[k]
      BY <1>1, <3>1 DEF BootInv
    <3>3. k = j
      BY <1>1, <3>1, <3>2, NcnPowerAssumption DEF BootInv
    <3> QED
      BY <1>1, <2>1, <3>2, <3>3 DEF BootInv
  <2> QED
    BY <1>1, <2>1 DEF BootInv, PowerOn!GroupsInOrder
<1>2. NcnInv => GroupsInOrder
  BY <1>1 DEF NcnInv, GroupsInOrder
<1> QED
  BY <1>2, NcnInvariant, PTL

(* Nothing is done to a host whose console was not found logged            *)
(* (IPMIConsoleLogger.__enter__).                                          *)
THEOREM ConsolesAreWatched == Spec => []ConsolesWatched
<1>1. NcnInv => ConsolesWatched
  BY DEF NcnInv, ShutdownInv, BootInv, ConsolesWatched, Shutdown!ConsolesWatched,
         PowerOn!ConsolesWatched
<1> QED
  BY <1>1, NcnInvariant, PTL

(* No host is cut off that a poll has found off or while its time to shut  *)
(* down still runs (finish_shutdown).                                      *)
THEOREM CutOffAfterItsTime == Spec => ForcedAfterGrace
<1>1. ASSUME ShutdownInv, Shutdown!Next, NEW h \in commanded' \ commanded
      PROVE  shutdownPc = "force" /\ h \notin reached
  <2>1. \E g \in Hosts : Shutdown!SendCommand(g)
    BY <1>1 DEF Shutdown!Next, Shutdown!Stage, Shutdown!SetupFails, Shutdown!SetupSucceeds,
       Shutdown!WaitForShutdown, Shutdown!ShutdownComplete, Shutdown!ForcePowerOff,
       Shutdown!PollHosts, Shutdown!Send, Shutdown!PowerOffEnds, Shutdown!TellHost,
       Shutdown!PowersOff, Shutdown!StartWaiter, Shutdown!StopSending, Shutdown!Poll,
       Shutdown!ipmi
  <2> QED
    BY <1>1, <2>1 DEF ShutdownInv, Shutdown!SendCommand
<1>2. NcnInv /\ [Next]_vars => [stage = "shutdown" => Shutdown!CutOffAfterGrace]_vars
  <2> SUFFICES ASSUME NcnInv, Next, stage = "shutdown"
               PROVE  Shutdown!CutOffAfterGrace
    BY DEF vars
  <2>1. CASE ShutdownStage
    BY <1>1, <2>1 DEF NcnInv, ShutdownStage, Shutdown!CutOffAfterGrace
  <2>2. CASE StartBoot
    BY <2>2 DEF StartBoot, Shutdown!CutOffAfterGrace
  <2> QED
    BY <2>1, <2>2 DEF Next, BootStage, Finished, LateShutdown
<1> QED
  BY <1>2, NcnInvariant, PTL DEF Spec, ForcedAfterGrace

-----------------------------------------------------------------------------
(* The types of both stages.  A host that is still waited for has not been *)
(* silent Threshold times, and only a waiter that sends has hosts to send  *)
(* commands to.                                                            *)

IpmiTypeInv ==
  /\ IpmiTypeOK
  /\ wpc # "send" => toSend = {}
  /\ \A h \in pending : misses[h] < Threshold

NcnTypeInv ==
  /\ IpmiTypeInv
  /\ TypeOK
  /\ stage = "shutdown" => sshPending = {} /\ sshElapsed = 0 /\ bootPc = "verify"

LEMMA StartKeepsTypes ==
  ASSUME IpmiTypeInv, NEW hosts \in SUBSET Hosts, NEW send \in BOOLEAN, StartWaiter(hosts, send)
  PROVE  IpmiTypeInv'
  BY IpmiAssumption DEF StartWaiter, IpmiTypeInv, IpmiTypeOK

LEMMA SendKeepsTypes ==
  ASSUME IpmiTypeInv, StopSending \/ \E h \in Hosts : SendCommand(h)
  PROVE  IpmiTypeInv'
  BY DEF StopSending, SendCommand, IpmiTypeInv, IpmiTypeOK

LEMMA PollKeepsTypes ==
  ASSUME IpmiTypeInv, NEW state, NEW timeout \in Nat, Poll(state, timeout)
  PROVE  IpmiTypeInv' /\ elapsed' <= timeout
<1> USE IpmiAssumption DEF IpmiTypeInv, IpmiTypeOK
<1>1. elapsed' \in Nat /\ elapsed' <= timeout
  BY DEF Poll, Later
<1>2. UNCHANGED <<power, wpc, toSend, commanded>> /\ wpc = "poll"
  BY DEF Poll
<1>3. PICK unanswered \in SUBSET pending, noTool \in SUBSET pending :
        LET found == {h \in pending \ noTool : InState(h, state, unanswered)}
            dropped == noTool \cup {h \in pending : GivenUp(h, unanswered)}
        IN /\ misses' = [h \in Hosts |->
                 IF h \in noTool \/ h \notin pending THEN misses[h]
                 ELSE IF h \in unanswered THEN misses[h] + 1 ELSE 0]
           /\ pending' = pending \ (found \cup dropped)
           /\ lost' = lost \cup dropped
           /\ reached' = reached \cup found
  BY DEF Poll
<1>4. pending' \subseteq pending /\ lost' \subseteq Hosts /\ reached' \subseteq Hosts
  BY <1>3
<1>5. \A h \in Hosts : misses'[h] \in 0 .. Threshold
  BY <1>3
<1>6. misses' \in [Hosts -> 0 .. Threshold]
  BY <1>3, <1>5
<1>7. \A h \in pending' : misses'[h] < Threshold
  BY <1>3 DEF GivenUp
<1> QED
  BY <1>1, <1>2, <1>4, <1>6, <1>7

LEMMA NcnTypeInit == Init => NcnTypeInv
  BY IpmiAssumption, NcnPowerAssumption
  DEF Init, Shutdown!Init, Shutdown!IpmiInit, Shutdown!ConsoleInit, NcnTypeInv, TypeOK,
      Shutdown!TypeOK, Shutdown!IpmiTypeOK, IpmiTypeInv, IpmiTypeOK

LEMMA ShutdownTypes ==
  ASSUME NcnTypeInv, stage = "shutdown", Shutdown!Next
  PROVE  IpmiTypeInv' /\ Shutdown!TypeOK'
<1> USE IpmiAssumption, NcnPowerAssumption
        DEF NcnTypeInv, TypeOK, Shutdown!TypeOK, Shutdown!consoles, Shutdown!shutdown
<1>a. /\ \A c \in Shutdown!CleanUps : c.left \subseteq Hosts
      /\ \A s \in Shutdown!Starts(Hosts) : s.alive \subseteq Hosts
  <2>1. screens \subseteq Hosts
    OBVIOUS
  <2>2. ASSUME NEW c \in Shutdown!CleanUps
        PROVE  c.left \subseteq screens
    <3>1. CASE c = [ok |-> TRUE, left |-> {}]
      BY <3>1
    <3>2. CASE c \in [ok : {FALSE}, left : SUBSET screens]
      BY <3>2
    <3> QED
      BY <2>2, <3>1, <3>2 DEF Shutdown!CleanUps
  <2>3. \A s \in Shutdown!Starts(Hosts) : s.alive \subseteq Hosts
    BY DEF Shutdown!Starts
  <2> QED
    BY <2>1, <2>2, <2>3
<1>0. ASSUME IpmiTypeInv' PROVE Shutdown!IpmiTypeOK'
  BY <1>0 DEF IpmiTypeInv, IpmiTypeOK, Shutdown!IpmiTypeOK
<1>1. ASSUME UNCHANGED ipmi PROVE IpmiTypeInv'
  BY <1>1 DEF ipmi, IpmiTypeInv, IpmiTypeOK
<1>2. CASE Shutdown!SetupFails
  <2>1. UNCHANGED ipmi /\ screens' \subseteq Hosts /\ watched' \subseteq Hosts
    BY <1>2, <1>a DEF Shutdown!SetupFails, Shutdown!EnterLoggerFails, Shutdown!ipmi, ipmi
  <2> QED
    BY <1>0, <1>1, <1>2, <2>1 DEF Shutdown!SetupFails, ipmi
<1>3. CASE Shutdown!SetupSucceeds
  <2>1. UNCHANGED ipmi /\ screens' \subseteq Hosts /\ watched' \subseteq Hosts
    BY <1>3 DEF Shutdown!SetupSucceeds, Shutdown!EnterLogger, Shutdown!Starts, Shutdown!ipmi, ipmi
  <2> QED
    BY <1>0, <1>1, <1>3, <2>1 DEF Shutdown!SetupSucceeds, ipmi
<1>4. CASE Shutdown!WaitForShutdown \/ Shutdown!ForcePowerOff
  <2>1. \E hosts \in SUBSET Hosts, send \in BOOLEAN : StartWaiter(hosts, send)
    <3>1. pending \subseteq Hosts
      BY DEF IpmiTypeInv, IpmiTypeOK
    <3> QED
      BY <1>4, <3>1 DEF Shutdown!WaitForShutdown, Shutdown!ForcePowerOff, Shutdown!HostsToForce,
                        Shutdown!StartWaiter, StartWaiter
  <2>2. IpmiTypeInv' /\ elapsed' = 0
    BY <2>1, StartKeepsTypes DEF StartWaiter
  <2>3. /\ shutdownPc' \in {"grace", "force"}
        /\ UNCHANGED <<screens, watched, toTell, told, shutdownOutcome>>
    BY <1>4 DEF Shutdown!WaitForShutdown, Shutdown!ForcePowerOff
  <2> QED
    BY <1>0, <2>2, <2>3
<1>5. CASE Shutdown!ShutdownComplete \/ Shutdown!PowerOffEnds
  <2>1. UNCHANGED ipmi /\ screens' \subseteq Hosts /\ watched' \subseteq Hosts
    BY <1>5, <1>a DEF Shutdown!ShutdownComplete, Shutdown!PowerOffEnds, Shutdown!Succeed,
                      Shutdown!ExitLogger, Shutdown!ipmi, ipmi
  <2>2. /\ UNCHANGED <<toTell, told>> /\ shutdownPc' = "done"
        /\ shutdownOutcome' \in {"ok", "exit"} /\ shutdownPc \in {"grace", "force"}
    BY <1>5 DEF Shutdown!ShutdownComplete, Shutdown!PowerOffEnds, Shutdown!Succeed
  <2> QED
    BY <1>0, <1>1, <2>1, <2>2 DEF ipmi, IpmiTypeInv, IpmiTypeOK
<1>6. CASE Shutdown!PollHosts
  <2>1. \E timeout \in Nat : /\ Poll("off", timeout)
                             /\ \/ shutdownPc = "grace" /\ timeout = ShutdownTimeout
                                \/ shutdownPc = "force" /\ timeout = IpmiTimeout
    BY <1>6 DEF Shutdown!PollHosts, Shutdown!Poll, Poll, Shutdown!InState, InState,
                Shutdown!GivenUp, GivenUp, Shutdown!Later, Later
  <2>2. /\ IpmiTypeInv'
        /\ elapsed' <= IF shutdownPc = "force" THEN IpmiTimeout ELSE ShutdownTimeout
        /\ shutdownPc \in {"grace", "force"}
    BY <2>1, PollKeepsTypes
  <2>3. elapsed' \in Nat /\ UNCHANGED <<consoles, shutdown>>
    BY <1>6, <2>2 DEF IpmiTypeInv, IpmiTypeOK, Shutdown!PollHosts, consoles, shutdown
  <2> QED
    BY <1>0, <2>2, <2>3 DEF consoles, shutdown
<1>7. CASE Shutdown!Send
  <2>1. StopSending \/ \E h \in Hosts : SendCommand(h)
    BY <1>7 DEF Shutdown!Send, Shutdown!StopSending, StopSending, Shutdown!SendCommand, SendCommand
  <2>2. UNCHANGED elapsed
    BY <2>1 DEF StopSending, SendCommand
  <2> QED
    BY <1>0, <1>7, <2>1, <2>2, SendKeepsTypes DEF Shutdown!Send
<1>8. CASE \E h \in Hosts : Shutdown!TellHost(h)
  <2>1. UNCHANGED ipmi
    BY <1>8 DEF Shutdown!TellHost, Shutdown!ipmi, ipmi
  <2> QED
    BY <1>0, <1>1, <1>8, <2>1 DEF Shutdown!TellHost, ipmi
<1>9. CASE \E h \in Hosts : Shutdown!PowersOff(h)
  <2>1. IpmiTypeInv'
    BY <1>9 DEF Shutdown!PowersOff, IpmiTypeInv, IpmiTypeOK
  <2> QED
    BY <1>0, <1>9, <2>1 DEF Shutdown!PowersOff
<1>10. CASE \E h \in Hosts : Shutdown!ScreenEnds(h) /\ UNCHANGED <<Shutdown!ipmi, Shutdown!shutdown>>
  <2>1. UNCHANGED ipmi
    BY <1>10 DEF Shutdown!ipmi, ipmi
  <2> QED
    BY <1>0, <1>1, <1>10, <2>1 DEF Shutdown!ScreenEnds, ipmi
<1> QED
  BY <1>2, <1>3, <1>4, <1>5, <1>6, <1>7, <1>8, <1>9, <1>10 DEF Shutdown!Next, Shutdown!Stage

LEMMA BootTypes ==
  ASSUME NcnTypeInv, BootInv, stage = "boot", PowerOn!Next
  PROVE  IpmiTypeInv' /\ PowerOn!TypeOK'
<1> USE IpmiAssumption, NcnPowerAssumption
        DEF NcnTypeInv, TypeOK, PowerOn!TypeOK, PowerOn!consoles, PowerOn!boot
<1>a. /\ \A c \in PowerOn!CleanUps : c.left \subseteq Hosts
      /\ \A s \in PowerOn!Starts(Hosts) : s.alive \subseteq Hosts
  <2>1. screens \subseteq Hosts
    OBVIOUS
  <2>2. ASSUME NEW c \in PowerOn!CleanUps
        PROVE  c.left \subseteq screens
    <3>1. CASE c = [ok |-> TRUE, left |-> {}]
      BY <3>1
    <3>2. CASE c \in [ok : {FALSE}, left : SUBSET screens]
      BY <3>2
    <3> QED
      BY <2>2, <3>1, <3>2 DEF PowerOn!CleanUps
  <2>3. \A s \in PowerOn!Starts(Hosts) : s.alive \subseteq Hosts
    BY DEF PowerOn!Starts
  <2> QED
    BY <2>1, <2>2, <2>3
<1>0. ASSUME IpmiTypeInv' PROVE PowerOn!IpmiTypeOK'
  BY <1>0 DEF IpmiTypeInv, IpmiTypeOK, PowerOn!IpmiTypeOK
<1>1. ASSUME UNCHANGED ipmi PROVE IpmiTypeInv'
  BY <1>1 DEF ipmi, IpmiTypeInv, IpmiTypeOK
<1>2. CASE PowerOn!SetupFails
  <2>1. UNCHANGED ipmi /\ screens' \subseteq Hosts /\ watched' \subseteq Hosts
    BY <1>2, <1>a DEF PowerOn!SetupFails, PowerOn!EnterLoggerFails, PowerOn!ipmi, ipmi
  <2> QED
    BY <1>0, <1>1, <1>2, <2>1 DEF PowerOn!SetupFails, ipmi
<1>3. CASE PowerOn!SetupSucceeds
  <2>1. UNCHANGED ipmi /\ screens' \subseteq Hosts /\ watched' \subseteq Hosts
    BY <1>3 DEF PowerOn!SetupSucceeds, PowerOn!EnterLogger, PowerOn!Starts, PowerOn!ipmi, ipmi
  <2> QED
    BY <1>0, <1>1, <1>3, <2>1 DEF PowerOn!SetupSucceeds, ipmi
<1>4. CASE PowerOn!NextGroup
  <2>1. CASE group < Len(Groups)
    <3>1. /\ group' = group + 1 /\ bootPc' = "ipmi"
          /\ StartWaiter(Groups[group + 1], TRUE)
          /\ UNCHANGED <<consoles, bootOutcome, reachable, sshPending, sshElapsed, connected>>
      BY <1>4, <2>1 DEF PowerOn!NextGroup, PowerOn!StartWaiter, StartWaiter, consoles
    <3>2. Groups[group + 1] \in SUBSET Hosts
      BY <2>1
    <3>3. IpmiTypeInv' /\ elapsed' = 0
      BY <3>1, <3>2, StartKeepsTypes DEF StartWaiter
    <3> QED
      BY <1>0, <2>1, <3>1, <3>3 DEF consoles
  <2>2. CASE ~ (group < Len(Groups))
    <3>1. UNCHANGED ipmi /\ screens' \subseteq Hosts /\ UNCHANGED watched
      BY <1>4, <1>a, <2>2 DEF PowerOn!NextGroup, PowerOn!ExitLogger, PowerOn!ipmi, ipmi
    <3> QED
      BY <1>0, <1>1, <1>4, <2>2, <3>1 DEF PowerOn!NextGroup, ipmi
  <2> QED
    BY <2>1, <2>2
<1>5. CASE PowerOn!PowerOn
  <2>1. \/ StopSending \/ \E h \in Hosts : SendCommand(h)
        \/ Poll("on", IpmiTimeout)
    BY <1>5 DEF PowerOn!PowerOn, PowerOn!StopSending, StopSending, PowerOn!SendCommand, SendCommand,
                PowerOn!Poll, Poll, PowerOn!InState, InState, PowerOn!GivenUp, GivenUp,
                PowerOn!Later, Later
  <2>2. IpmiTypeInv' /\ elapsed' <= IpmiTimeout
    <3>1. CASE Poll("on", IpmiTimeout)
      BY <3>1, PollKeepsTypes
    <3>2. CASE StopSending \/ \E h \in Hosts : SendCommand(h)
      BY <3>2, SendKeepsTypes DEF StopSending, SendCommand
    <3> QED
      BY <2>1, <3>1, <3>2
  <2> QED
    BY <1>0, <1>5, <2>2 DEF PowerOn!PowerOn
<1>6. CASE PowerOn!WaitForSsh
  <2>1. UNCHANGED ipmi /\ bootPc = "ipmi"
    BY <1>6 DEF PowerOn!WaitForSsh, PowerOn!ipmi, ipmi
  <2>2. sshPending' \subseteq Hosts
    <3>1. group \in 1 .. Len(Groups)
      BY <1>6 DEF PowerOn!WaitForSsh, BootInv
    <3>2. sshPending' = Groups[group]
      BY <1>6 DEF PowerOn!WaitForSsh, PowerOn!HostsToConnect
    <3> QED
      BY <3>1, <3>2
  <2> QED
    BY <1>0, <1>1, <1>6, <2>1, <2>2 DEF PowerOn!WaitForSsh, ipmi
<1>7. CASE PowerOn!ConnectToHosts \/ PowerOn!GroupEnds
  <2>1. UNCHANGED ipmi
    BY <1>7 DEF PowerOn!ConnectToHosts, PowerOn!GroupEnds, PowerOn!ipmi, ipmi
  <2> QED
    BY <1>0, <1>1, <1>7, <2>1 DEF PowerOn!ConnectToHosts, PowerOn!GroupEnds, PowerOn!AllAccessible,
                                  PowerOn!Later, ipmi
<1>8. CASE \E h \in Hosts : PowerOn!PowersOn(h)
  <2>1. IpmiTypeInv'
    BY <1>8 DEF PowerOn!PowersOn, IpmiTypeInv, IpmiTypeOK
  <2> QED
    BY <1>0, <1>8, <2>1 DEF PowerOn!PowersOn
<1>9. CASE \/ \E h \in Hosts : PowerOn!ReachabilityChanges(h)
           \/ \E h \in Hosts : PowerOn!ScreenEnds(h) /\ UNCHANGED <<PowerOn!ipmi, reachable, PowerOn!boot>>
  <2>1. UNCHANGED ipmi
    BY <1>9 DEF PowerOn!ReachabilityChanges, PowerOn!ipmi, ipmi
  <2> QED
    BY <1>0, <1>1, <1>9, <2>1 DEF PowerOn!ReachabilityChanges, PowerOn!ScreenEnds, ipmi
<1> HIDE DEF NcnTypeInv, TypeOK, PowerOn!TypeOK, PowerOn!consoles, PowerOn!boot
<1> QED
  BY <1>2, <1>3, <1>4, <1>5, <1>6, <1>7, <1>8, <1>9 DEF PowerOn!Next, PowerOn!Stage

LEMMA NcnTypeNext == NcnInv /\ NcnTypeInv /\ [Next]_vars => NcnTypeInv'
<1> SUFFICES ASSUME NcnInv, NcnTypeInv, [Next]_vars PROVE NcnTypeInv'
  OBVIOUS
<1>1. CASE ShutdownStage
  BY <1>1, ShutdownTypes DEF ShutdownStage, NcnTypeInv, TypeOK, boot
<1>2. CASE StartBoot
  <2>1. stage = "shutdown" /\ BootVariables
    BY <1>2 DEF StartBoot, NcnInv
  <2>2. IpmiTypeInv'
    BY <1>2, IpmiAssumption DEF StartBoot, NcnTypeInv, IpmiTypeInv, IpmiTypeOK
  <2>3. PowerOn!TypeOK'
    BY <1>2, <2>1, <2>2, IpmiAssumption, NcnPowerAssumption
    DEF StartBoot, NcnTypeInv, TypeOK, Shutdown!TypeOK, PowerOn!TypeOK, PowerOn!IpmiTypeOK,
        IpmiTypeInv, IpmiTypeOK, BootVariables
  <2> QED
    BY <1>2, <2>1, <2>2, <2>3 DEF StartBoot, NcnTypeInv, TypeOK
<1>3. CASE BootStage
  <2>1. IpmiTypeInv' /\ PowerOn!TypeOK'
    BY <1>3, BootTypes DEF BootStage, NcnInv
  <2> QED
    BY <1>3, <2>1 DEF BootStage, shutdown, NcnTypeInv, TypeOK
<1>4. CASE \E h \in Hosts : LateShutdown(h)
  <2>1. PICK h \in Hosts : LateShutdown(h)
    BY <1>4
  <2>2. IpmiTypeInv'
    BY <2>1 DEF LateShutdown, NcnTypeInv, IpmiTypeInv, IpmiTypeOK
  <2> QED
    BY <2>1, <2>2 DEF LateShutdown, consoles, NcnTypeInv, TypeOK, PowerOn!TypeOK,
                      PowerOn!IpmiTypeOK, IpmiTypeInv, IpmiTypeOK
<1>5. CASE Finished \/ UNCHANGED vars
  BY <1>5 DEF Finished, vars, ipmi, consoles, shutdown, boot, NcnTypeInv, TypeOK, IpmiTypeInv,
              IpmiTypeOK, Shutdown!TypeOK, PowerOn!TypeOK, Shutdown!IpmiTypeOK, PowerOn!IpmiTypeOK
<1> QED
  BY <1>1, <1>2, <1>3, <1>4, <1>5 DEF Next

(* The type invariant of the two stages: no host is counted as silent more *)
(* than Threshold times, commands are only sent to hosts that are waited   *)
(* for, and no waiter runs past its timeout.                               *)
THEOREM NcnTypeCorrect == Spec => []TypeOK
<1>1. NcnTypeInv => TypeOK
  BY DEF NcnTypeInv
<1> QED
  BY <1>1, NcnInvariant, NcnTypeInit, NcnTypeNext, PTL DEF Spec

-----------------------------------------------------------------------------
(* BOS operations: what do_parallel_bos_operations may conclude from the   *)
(* attributes it reads without a lock.                                     *)
(*                                                                         *)
(* A thread that is complete has failed or is about to say so (it writes   *)
(* "complete" first), or its session is over, or it was told to stop.  The *)
(* coordinator forgets a template when it has read one of the attributes:  *)
(* then it is reported, or its failure was misread, or its thread has      *)
(* ended without one.  Only templates that are reported are told to stop.  *)

Over == {"succeeded", "failed"}

Types ==
  /\ tpc \in [Templates -> {"new", "create", "marking", "monitor", "ended"}]
  /\ session \in [Templates -> {None, "running", "succeeded", "failed"}]
  /\ complete \in [Templates -> BOOLEAN]
  /\ failed \in [Templates -> BOOLEAN]
  /\ stop \in [Templates -> BOOLEAN]
  /\ active \subseteq selected /\ selected \subseteq Templates
  /\ reading \subseteq selected /\ toScan \subseteq selected
  /\ failedTemplates \subseteq selected /\ finished \subseteq selected
  /\ misread \subseteq selected

ThreadInv(t) ==
  /\ complete[t] => tpc[t] \in {"marking", "ended"}
  /\ complete[t] => tpc[t] = "marking" \/ failed[t] \/ session[t] \in Over \/ stop[t]
  /\ tpc[t] \in {"new", "create"} => ~ complete[t]

CoordinatorInv ==
  /\ \A t \in Templates : stop[t] => cpc \in {"join", "done"} /\ t \in active
  /\ \A t \in (selected \ active) \cup finished :
       t \in failedTemplates \/ t \in misread \/ (complete[t] /\ tpc[t] = "ended" /\ ~ failed[t])
  /\ \A t \in failedTemplates :
       (failed[t] /\ t \notin misread) \/ (t \in active /\ cpc \in {"join", "done"})
  /\ misread \subseteq (selected \ active) \cup finished
  /\ cpc = "select" =>
       /\ selected = {} /\ finished = {} /\ misread = {} /\ failedTemplates = {}
       /\ \A t \in Templates : tpc[t] = "new"
  /\ cpc \in {"join", "done"} => active \subseteq failedTemplates
  /\ outcome = "ok" =>
       /\ cpc = "done" /\ failedTemplates = {}
       /\ \A t \in selected : tpc[t] = "ended"

\* Every template is looked at once in a scan.
ScanInv ==
  /\ toScan \subseteq active \ finished
  /\ reading \subseteq active \ finished
  /\ toScan \cap reading = {}
  /\ cpc # "scan" => toScan = {} /\ reading = {} /\ active \cap finished = {}
  /\ cpc \notin {"join", "done"} => failedTemplates \cap active \subseteq finished

BosInv == Types /\ (\A t \in Templates : ThreadInv(t)) /\ ScanInv /\ CoordinatorInv

-----------------------------------------------------------------------------
(* What a step of BOS or of one thread may do to a thread.                 *)
ThreadGoesOn ==
  /\ UNCHANGED <<stop, coordinator>>
  /\ tpc' \in [Templates -> {"new", "create", "marking", "monitor", "ended"}]
  /\ session' \in [Templates -> {None, "running", "succeeded", "failed"}]
  /\ complete' \in [Templates -> BOOLEAN]
  /\ failed' \in [Templates -> BOOLEAN]
  /\ \A x \in Templates :
       /\ ThreadInv(x)'
       /\ failed[x] => failed'[x]
       /\ complete[x] => complete'[x]
       /\ tpc[x] \in {"new", "ended"} => tpc'[x] = tpc[x] /\ failed'[x] = failed[x]

LEMMA ThreadTypes ==
  ASSUME BosInv, NEW t \in Templates, SessionThread(t) \/ SessionEnds(t)
  PROVE  /\ UNCHANGED <<stop, coordinator>>
         /\ tpc' \in [Templates -> {"new", "create", "marking", "monitor", "ended"}]
         /\ session' \in [Templates -> {None, "running", "succeeded", "failed"}]
         /\ complete' \in [Templates -> BOOLEAN]
         /\ failed' \in [Templates -> BOOLEAN]
<1> USE DEF BosInv, Types, Goto, BeginMarkFailed, RecordStatFailure, world, threads, Monitoring
<1>1. CASE SessionEnds(t)
  BY <1>1 DEF SessionEnds
<1>2. CASE CreateSession(t)
  BY <1>2 DEF CreateSession
<1>3. CASE EndMarkFailed(t)
  BY <1>3 DEF EndMarkFailed
<1>4. CASE MonitorStopped(t) \/ KubectlWaitTimesOut(t)
  BY <1>4 DEF MonitorStopped, KubectlWaitTimesOut
<1>5. CASE KubectlWaitFails(t) \/ JobLogUnreadable(t)
  BY <1>5 DEF KubectlWaitFails, JobLogUnreadable
<1>6. CASE JobLogRead(t)
  BY <1>6 DEF JobLogRead
<1>7. CASE SessionComplete(t)
  BY <1>7 DEF SessionComplete
<1> QED
  BY <1>1, <1>2, <1>3, <1>4, <1>5, <1>6, <1>7 DEF SessionThread

LEMMA ThreadStep ==
  ASSUME BosInv, NEW t \in Templates, SessionThread(t) \/ SessionEnds(t)
  PROVE  ThreadGoesOn
<1> DEFINE G(x) == /\ ThreadInv(x)'
                   /\ failed[x] => failed'[x]
                   /\ complete[x] => complete'[x]
                   /\ tpc[x] \in {"new", "ended"} => tpc'[x] = tpc[x] /\ failed'[x] = failed[x]
<1>0. UNCHANGED stop
  BY ThreadTypes
<1> SUFFICES ASSUME NEW x \in Templates PROVE G(x)
  BY ThreadTypes DEF ThreadGoesOn
<1> USE <1>0 DEF BosInv, Types, ThreadInv, Goto, Over
<1>1. CASE SessionEnds(t)
  BY <1>1 DEF SessionEnds, threads
<1>2. CASE CreateSession(t)
  BY <1>2 DEF CreateSession, BeginMarkFailed
<1>3. CASE EndMarkFailed(t)
  BY <1>3 DEF EndMarkFailed, world
<1>4. CASE MonitorStopped(t) \/ KubectlWaitTimesOut(t)
  BY <1>4 DEF MonitorStopped, KubectlWaitTimesOut, Monitoring, world
<1>5. CASE KubectlWaitFails(t) \/ JobLogUnreadable(t)
  BY <1>5 DEF KubectlWaitFails, JobLogUnreadable, Monitoring, world, RecordStatFailure,
              BeginMarkFailed
<1>6. CASE JobLogRead(t)
  BY <1>6 DEF JobLogRead, Monitoring, world, BeginMarkFailed
<1>7. CASE SessionComplete(t)
  BY <1>7 DEF SessionComplete, SessionOver, Monitoring, world
<1> QED
  BY <1>1, <1>2, <1>3, <1>4, <1>5, <1>6, <1>7 DEF SessionThread

LEMMA CoordinatorKeepsInv ==
  ASSUME BosInv, Coordinate
  PROVE  BosInv'
<1> USE DEF BosInv, Types, ScanInv, CoordinatorInv
<1>1. CASE SelectTemplates
  <2>1. UNCHANGED <<session, complete, failed, stop, finished, failedTemplates, reading, toScan,
                    misread>>
        /\ cpc = "select" /\ active' = selected' /\ selected' \subseteq Templates
    BY <1>1 DEF SelectTemplates, world
  <2>2. \A t \in Templates : tpc'[t] = IF t \in selected' THEN "create" ELSE "new"
    BY <1>1 DEF SelectTemplates
  <2>3. tpc' \in [Templates -> {"new", "create", "marking", "monitor", "ended"}]
    BY <1>1 DEF SelectTemplates
  <2>4. \A t \in Templates : ThreadInv(t)'
    BY <2>1, <2>2 DEF ThreadInv
  <2>5. cpc' \in {"done", "loop"} /\ (cpc' = "done" <=> selected' = {})
        /\ outcome' = (IF cpc' = "done" THEN "ok" ELSE outcome)
    BY <1>1 DEF SelectTemplates
  <2>6. failedTemplates = {} /\ reading = {} /\ toScan = {} /\ outcome # "ok"
    BY <2>1
  <2>7. CoordinatorInv'
    BY <2>1, <2>5, <2>6
  <2> QED
    BY <2>1, <2>3, <2>4, <2>6, <2>7
<1>2. CASE BeginScan \/ EndScan \/ Join \/ \E t \in Templates : ReadFailed(t) \/ ReadComplete(t)
  <2>1. UNCHANGED <<session, tpc, complete, failed, stop, selected>>
    BY <1>2 DEF BeginScan, EndScan, Join, ReadFailed, ReadComplete, world, threads
  <2>2. \A t \in Templates : ThreadInv(t)'
    BY <2>1 DEF ThreadInv
  <2>3. CASE BeginScan
    BY <2>1, <2>2, <2>3 DEF BeginScan
  <2>4. CASE EndScan
    BY <2>1, <2>2, <2>4 DEF EndScan, StillActive
  <2>5. CASE Join
    BY <2>1, <2>2, <2>5 DEF Join
  <2>6. ASSUME NEW t \in Templates, ReadFailed(t) PROVE BosInv'
    BY <2>1, <2>2, <2>6 DEF ReadFailed, SeenFailed
  <2>7. ASSUME NEW t \in Templates, ReadComplete(t) PROVE BosInv'
    <3>1. /\ t \in reading /\ reading' = {} /\ cpc = "scan"
          /\ finished' = IF complete[t] THEN finished \cup {t} ELSE finished
          /\ misread' = IF complete[t] /\ (tpc[t] = "marking" \/ failed[t])
                          THEN misread \cup {t} ELSE misread
          /\ UNCHANGED <<cpc, active, toScan, failedTemplates, outcome>>
      BY <2>7 DEF ReadComplete, FailingMeanwhile
    <3>2. t \in active /\ t \notin finished /\ t \notin failedTemplates
      BY <3>1
    <3>3. complete[t] => t \in misread' \/ (tpc[t] = "ended" /\ ~ failed[t])
      BY <3>1 DEF ThreadInv
    <3>4. Types' /\ ScanInv'
      BY <2>1, <3>1, <3>2
    <3>5. CoordinatorInv'
      BY <2>1, <3>1, <3>2, <3>3
    <3> QED
      BY <2>2, <3>4, <3>5
  <2> QED
    BY <1>2, <2>3, <2>4, <2>5, <2>6, <2>7
<1>3. CASE StopActive
  <2>1. UNCHANGED <<session, tpc, complete, failed, selected, active, reading, toScan, finished,
                    misread, outcome>>
        /\ failedTemplates' = failedTemplates \cup active /\ cpc = "loop" /\ cpc' = "join"
    BY <1>3 DEF StopActive, world, TimedOut
  <2>2. \A t \in Templates : stop'[t] <=> (stop[t] \/ t \in active)
    BY <1>3 DEF StopActive, ThreadsToStop
  <2>3. stop' \in [Templates -> BOOLEAN]
    BY <1>3 DEF StopActive
  <2>4. \A t \in Templates : ThreadInv(t)'
    BY <2>1, <2>2 DEF ThreadInv
  <2>5. CoordinatorInv'
    BY <2>1, <2>2
  <2> QED
    BY <2>1, <2>3, <2>4, <2>5
<1> QED
  BY <1>1, <1>2, <1>3 DEF Coordinate

LEMMA BosInvInit == BosInit => BosInv
<1> SUFFICES ASSUME BosInit PROVE BosInv
  OBVIOUS
<1>1. /\ complete \in [Templates -> BOOLEAN] /\ failed \in [Templates -> BOOLEAN]
      /\ stop \in [Templates -> BOOLEAN]
  BY DEF BosInit
<1>2. \A t \in Templates : ~ complete[t] /\ ~ stop[t] /\ tpc[t] = "new"
  BY DEF BosInit
<1>3. Types
  BY <1>1 DEF BosInit, Types
<1> QED
  BY <1>2, <1>3 DEF BosInit, BosInv, ThreadInv, ScanInv, CoordinatorInv, None

LEMMA BosInvNext == BosInv /\ [BosNext]_bosVars => BosInv'
<1> SUFFICES ASSUME BosInv, [BosNext]_bosVars PROVE BosInv'
  OBVIOUS
<1>1. ASSUME NEW t \in Templates, SessionThread(t) \/ SessionEnds(t) PROVE BosInv'
  <2>1. ThreadGoesOn
    BY <1>1, ThreadStep
  <2>2. Types'
    BY <2>1 DEF ThreadGoesOn, BosInv, Types, coordinator
  <2>3. ScanInv' /\ CoordinatorInv'
    <3>1. UNCHANGED <<stop, cpc, selected, active, toScan, reading, finished, failedTemplates,
                       misread, outcome>>
      BY <2>1 DEF ThreadGoesOn, coordinator
    <3> QED
      BY <2>1, <3>1 DEF ThreadGoesOn, BosInv, Types, CoordinatorInv, ScanInv
  <2> QED
    BY <2>1, <2>2, <2>3 DEF ThreadGoesOn, BosInv
<1>2. CASE UNCHANGED bosVars
  BY <1>2 DEF bosVars, BosInv, Types, ThreadInv, ScanInv, CoordinatorInv
<1> QED
  BY <1>1, <1>2, CoordinatorKeepsInv DEF BosNext, BosFinished

LEMMA BosInvCorrect == BosSpec => []BosInv
  BY BosInvInit, BosInvNext, PTL DEF BosSpec

-----------------------------------------------------------------------------
(* do_bos_operations returns normally only when BOS finished the session   *)
(* of every selected template whose failure was not misread.               *)
THEOREM OkSessionsAreOver == BosSpec => []OkMeansSessionsOver
<1>1. BosInv => OkMeansSessionsOver
  BY DEF BosInv, Types, ThreadInv, CoordinatorInv, OkMeansSessionsOver, Over
<1> QED
  BY <1>1, BosInvCorrect, PTL

(* The templates named as failed are those whose thread failed or that     *)
(* were still active at the timeout, but for a failure that was misread.   *)
THEOREM FailuresReported == BosSpec => []FailuresAreReported
<1>1. BosInv => FailuresAreReported
  BY DEF BosInv, Types, ScanInv, CoordinatorInv, FailuresAreReported
<1> QED
  BY <1>1, BosInvCorrect, PTL
-----------------------------------------------------------------------------
(* The types of the operations.  A thread that may still be told of a      *)
(* failure has not had too many of them, and what the coordinator looks at *)
(* is empty unless it scans.                                               *)

BosTypeInv ==
  /\ BosTypeOK
  /\ \A t \in Templates :
       tpc[t] \in {"new", "create", "monitor"} => statFails[t] <= MaxConsecFails
  /\ cpc # "scan" => toScan = {} /\ reading = {}
  /\ cpc = "select" => selected = {} /\ finished = {} /\ failedTemplates = {}

LEMMA BosTypeInit == BosInit => BosTypeInv
<1> SUFFICES ASSUME BosInit PROVE BosTypeInv
  OBVIOUS
<1>1. /\ complete \in [Templates -> BOOLEAN] /\ failed \in [Templates -> BOOLEAN]
      /\ stop \in [Templates -> BOOLEAN]
  BY DEF BosInit
<1>2. /\ session \in [Templates -> {None, "running", "succeeded", "failed"}]
      /\ tpc \in [Templates -> {"new", "create", "marking", "monitor", "ended"}]
      /\ statFails \in [Templates -> 0 .. MaxConsecFails + 1]
      /\ \A t \in Templates : statFails[t] <= MaxConsecFails
  BY BosAssumption DEF BosInit
<1>3. elapsed_time \in 0 .. Timeout
  BY BosAssumption DEF BosInit
<1> QED
  BY <1>1, <1>2, <1>3 DEF BosInit, BosTypeInv, BosTypeOK

(* What a step of a thread does to its count of failures.                  *)
LEMMA CountStep ==
  ASSUME BosTypeInv, NEW t \in Templates, SessionThread(t) \/ SessionEnds(t)
  PROVE  /\ statFails' \in [Templates -> 0 .. MaxConsecFails + 1]
         /\ \A x \in Templates :
              tpc'[x] \in {"new", "create", "monitor"} => statFails'[x] <= MaxConsecFails
<1> USE BosAssumption DEF BosTypeInv, BosTypeOK, Goto, BeginMarkFailed
<1>1. CASE SessionEnds(t)
  BY <1>1 DEF SessionEnds, threads
<1>2. CASE CreateSession(t) \/ EndMarkFailed(t)
  BY <1>2 DEF CreateSession, EndMarkFailed
<1>3. CASE MonitorStopped(t) \/ SessionComplete(t)
  BY <1>3 DEF MonitorStopped, SessionComplete, Monitoring
<1>4. CASE KubectlWaitTimesOut(t)
  BY <1>4 DEF KubectlWaitTimesOut, Monitoring
<1>5. CASE JobLogRead(t)
  BY <1>5 DEF JobLogRead, Monitoring
<1>6. ASSUME NEW n \in 0 .. MaxConsecFails, RecordStatFailure(t, n)
      PROVE  /\ statFails' \in [Templates -> 0 .. MaxConsecFails + 1]
             /\ \A x \in Templates :
                  tpc'[x] \in {"new", "create", "monitor"} => statFails'[x] <= MaxConsecFails
  BY <1>6 DEF RecordStatFailure, TooMany
<1>7. CASE KubectlWaitFails(t)
  BY <1>6, <1>7 DEF KubectlWaitFails, Monitoring
<1>8. CASE JobLogUnreadable(t)
  BY <1>6, <1>8 DEF JobLogUnreadable
<1> QED
  BY <1>1, <1>2, <1>3, <1>4, <1>5, <1>7, <1>8 DEF SessionThread

LEMMA BosTypeNext == BosInv /\ BosTypeInv /\ [BosNext]_bosVars => BosTypeInv'
<1> SUFFICES ASSUME BosInv, BosTypeInv, [BosNext]_bosVars PROVE BosTypeInv'
  OBVIOUS
<1>1. ASSUME NEW t \in Templates, SessionThread(t) \/ SessionEnds(t) PROVE BosTypeInv'
  <2>1. ThreadGoesOn
    BY <1>1, ThreadStep
  <2>2. UNCHANGED <<version, nodes>>
    BY <1>1 DEF SessionThread, SessionEnds, CreateSession, EndMarkFailed, MonitorStopped,
                KubectlWaitFails, KubectlWaitTimesOut, JobLogUnreadable, JobLogRead,
                SessionComplete, world
  <2> QED
    BY <1>1, <2>1, <2>2, CountStep DEF ThreadGoesOn, coordinator, BosTypeInv, BosTypeOK
<1>2. CASE SelectTemplates
  <2>1. /\ selected' \subseteq Templates /\ active' = selected'
        /\ cpc' \in {"done", "loop"} /\ outcome' \in {outcome, "ok"} /\ cpc = "select"
        /\ tpc' \in [Templates -> {"new", "create", "marking", "monitor", "ended"}]
        /\ UNCHANGED <<version, nodes, session, complete, failed, statFails, stop, toScan,
                       reading, finished, failedTemplates, elapsed_time, misread>>
    BY <1>2 DEF SelectTemplates, world
  <2>2. misread = {} /\ \A t \in Templates : tpc[t] = "new"
    BY <2>1 DEF BosInv, CoordinatorInv
  <2> QED
    BY <2>1, <2>2 DEF BosTypeInv, BosTypeOK
<1>3. CASE BeginScan \/ EndScan \/ Join \/ \E t \in Templates : ReadFailed(t) \/ ReadComplete(t)
  <2> USE BosAssumption DEF BosTypeInv, BosTypeOK, world, threads
  <2>1. CASE BeginScan
    BY <2>1 DEF BeginScan
  <2>2. CASE EndScan
    BY <2>2 DEF EndScan, StillActive
  <2>3. CASE Join
    BY <2>3 DEF Join
  <2>4. ASSUME NEW t \in Templates, ReadFailed(t) PROVE BosTypeInv'
    BY <2>4 DEF ReadFailed, SeenFailed
  <2>5. ASSUME NEW t \in Templates, ReadComplete(t) PROVE BosTypeInv'
    BY <2>5 DEF ReadComplete
  <2> QED
    BY <1>3, <2>1, <2>2, <2>3, <2>4, <2>5
<1>4. CASE StopActive
  <2>1. stop' \in [Templates -> BOOLEAN]
    BY <1>4 DEF StopActive, BosTypeInv, BosTypeOK
  <2> QED
    BY <1>4, <2>1 DEF StopActive, TimedOut, world, BosTypeInv, BosTypeOK
<1>5. CASE UNCHANGED bosVars
  BY <1>5 DEF bosVars, BosTypeInv, BosTypeOK
<1> QED
  BY <1>1, <1>2, <1>3, <1>4, <1>5 DEF BosNext, Coordinate, BosFinished

(* The type invariant of the operations: a thread counts at most one       *)
(* failure more than max_consec_fails, and the loop ends at the timeout.   *)
THEOREM BosTypeCorrect == BosSpec => []BosTypeOK
<1>1. BosTypeInv => BosTypeOK
  BY DEF BosTypeInv
<1> QED
  BY <1>1, BosInvCorrect, BosTypeInit, BosTypeNext, PTL DEF BosSpec
=============================================================================
