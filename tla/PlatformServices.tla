--------------------------- MODULE PlatformServices --------------------------
(***************************************************************************)
(* sat/cli/bootsys/platform.py with etcd.py and ceph.py: stopping and      *)
(* starting containerd, etcd, kubelet and Ceph on the management NCNs.     *)
(* do_platform_action executes the ordered steps of the action.  A fatal   *)
(* error in a step ends the stage; after a non-fatal one the admin is      *)
(* asked whether to continue.                                              *)
(*                                                                         *)
(* A step on a service runs one RemoteServiceWaiter per host, each in its  *)
(* own thread; the step on containers runs one ContainerStopThread per     *)
(* host; snapshots and Ceph commands are made one after the other.         *)
(***************************************************************************)
EXTENDS Naturals, Sequences

CONSTANTS
  Managers, Workers, \* ncn_groups; together they are ncn_groups["kubernetes"]
  Timeout            \* polls before a waiter times out

ASSUME PlatformAssumption == Timeout \in Nat \ {0}

VARIABLES
  action,     \* which of STEPS_BY_ACTION is executed
  running,    \* per service: the hosts on which its unit is active
  enabled,    \* per service: the hosts on which it is enabled
  containers, \* the hosts on which containers run
  flags,      \* the Ceph OSD flags that are set
  pc, step,
  thread,     \* where the thread of each host is
  completed,  \* "completed" of the waiter, "success" of the container thread
  asked,      \* hosts whose service was told to change and has not yet
  polls,      \* polls made by the waiter of each host, or by the Ceph waiter
  todo,       \* what a sequential step still has to go through
  inactive, errors, \* do_etcd_snapshot: managers by the failure they had
  retried,    \* the Ceph waiter has used its retry
  saved,      \* history: managers with a saved snapshot
  cephSeenHealthy, \* history: Ceph was found healthy without flags
  agreed,     \* history: the admin chose to continue after an error
  outcome

services == <<action, running, enabled, containers, flags>>
threads == <<thread, completed, asked, polls>>
sequential == <<todo, inactive, errors, retried>>
history == <<saved, cephSeenHealthy, agreed>>
vars == <<action, running, enabled, containers, flags, pc, step, thread, completed,
          asked, polls, todo, inactive, errors, retried, saved,
          cephSeenHealthy, agreed, outcome>>

Hosts == Managers \cup Workers
Services == {"containerd", "etcd", "kubelet"}
FreezeFlags == {"noout", "norecover", "nobackfill"}

ServiceStep(service, hosts, state, enable) ==
  [kind |-> "service", service |-> service, hosts |-> hosts, state |-> state,
   enable |-> enable]
OtherStep(kind, hosts) ==
  [kind |-> kind, service |-> "none", hosts |-> hosts, state |-> "none",
   enable |-> "none"]

StartSteps ==
  << ServiceStep("containerd", Hosts, "active", "enabled"),
     ServiceStep("etcd", Managers, "active", "enabled"),
     OtherStep("unfreeze", {}),
     ServiceStep("kubelet", Hosts, "active", "enabled") >>

\* Fault: containers are stopped while kubelet may still start new ones.
ContainersBeforeKubelet ==
  << OtherStep("snapshot", Managers),
     ServiceStep("etcd", Managers, "inactive", "none"),
     OtherStep("containers", Hosts),
     ServiceStep("kubelet", Hosts, "inactive", "disabled"),
     ServiceStep("containerd", Hosts, "inactive", "none"),
     OtherStep("freeze", {}) >>

StopSteps ==
  << OtherStep("snapshot", Managers),
     ServiceStep("etcd", Managers, "inactive", "none"),
     ServiceStep("kubelet", Hosts, "inactive", "disabled"),
     OtherStep("containers", Hosts),
     ServiceStep("containerd", Hosts, "inactive", "none"),
     OtherStep("freeze", {}) >>

Steps == IF action = "start" THEN StartSteps ELSE StopSteps
Current == Steps[step]

Init ==
  /\ action \in {"start", "stop"}
  /\ running \in {r \in [Services -> SUBSET Hosts] : r["etcd"] \subseteq Managers}
  /\ enabled \in {e \in [Services -> {{}, Managers, Hosts}] : e["etcd"] \subseteq Managers}
  /\ containers \in SUBSET running["containerd"]
  /\ flags \in {{}, FreezeFlags}
  /\ pc = "verify"
  /\ step = 0
  /\ thread = [h \in Hosts |-> "idle"]
  /\ completed = [h \in Hosts |-> FALSE]
  /\ asked = {}
  /\ polls = [h \in Hosts |-> 0]
  /\ todo = {}
  /\ inactive = {}
  /\ errors = {}
  /\ retried = FALSE
  /\ saved = {}
  /\ cephSeenHealthy = FALSE
  /\ agreed = FALSE
  /\ outcome = "none"

-----------------------------------------------------------------------------
(* The hosts.                                                              *)

\* A service that was told to change does so, after any time or never.
Settle(h) ==
  /\ h \in asked
  /\ asked' = asked \ {h}
  /\ running' = [running EXCEPT ![Current.service] =
                   IF Current.state = "active" THEN @ \cup {h} ELSE @ \ {h}]
  /\ UNCHANGED <<action, enabled, containers, flags, pc, step, thread, completed, polls,
                 sequential, history, outcome>>

\* Kubelet starts the containers it is to run.
ContainersStart(h) ==
  /\ h \in running["kubelet"] \cap running["containerd"]
  /\ containers' = containers \cup {h}
  /\ UNCHANGED <<action, running, enabled, flags, pc, step, threads, sequential, history,
                 outcome>>

-----------------------------------------------------------------------------
(* The stage.                                                              *)

Exit == pc' = "done" /\ outcome' = "exit"

Abort == Exit /\ UNCHANGED <<services, step, threads, sequential, history>>

\* The admin does not confirm the groups of NCNs, or they are not known.
NotVerified == pc = "verify" /\ Abort

\* The next step begins, or the stage has succeeded.
NextStep ==
  /\ pc \in {"verify", "next"}
  /\ IF step = Len(Steps)
       THEN /\ pc' = "done" /\ outcome' = "ok"
            /\ UNCHANGED <<step, threads, sequential>>
       ELSE /\ step' = step + 1
            /\ LET s == Steps[step + 1] IN
               /\ pc' = s.kind
               /\ thread' = [h \in Hosts |->
                    IF s.kind \in {"service", "containers"} /\ h \in s.hosts
                      THEN "check" ELSE "idle"]
               /\ todo' = IF s.kind \in {"freeze", "unfreeze"} THEN FreezeFlags
                          ELSE s.hosts
            /\ completed' = [h \in Hosts |-> FALSE]
            /\ asked' = {}
            /\ polls' = [h \in Hosts |-> 0]
            /\ inactive' = {} /\ errors' = {} /\ retried' = FALSE
            /\ UNCHANGED outcome
  /\ UNCHANGED <<services, history>>

\* NonFatalPlatformError: the admin is asked.
Prompt ==
  /\ pc = "prompt"
  /\ \/ pc' = "next" /\ agreed' = TRUE /\ UNCHANGED outcome
     \/ Exit /\ UNCHANGED agreed
  /\ UNCHANGED <<services, step, threads, sequential, saved, cephSeenHealthy>>

-----------------------------------------------------------------------------
(* RemoteServiceWaiter.                                                    *)

At(kind, h, label) == pc = kind /\ thread[h] = label
Goto(h, label) == thread' = [thread EXCEPT ![h] = label]

\* _get_active: what "systemctl is-active" may print.  A unit that is not active
\* is "inactive" or in another state, as "failed", "unknown" or "activating".
Readings(h) ==
  IF h \in running[Current.service] THEN {"active"} ELSE {"inactive", "other"}

\* has_completed: the very state that is wanted is read.
MayBeInTarget(h) == Current.state \in Readings(h)
MayBeElsewhere(h) == Readings(h) # {Current.state}

\* Any command may fail, which ends the wait.
ServiceCommandFails(h) ==
  /\ pc = "service"
  /\ thread[h] \in {"check", "command", "enable", "poll"}
  /\ Goto(h, "ended")
  /\ asked' \in IF thread[h] = "command" THEN {asked, asked \cup {h}} ELSE {asked}
  /\ UNCHANGED <<services, pc, step, completed, polls, sequential, history, outcome>>

\* pre_wait_action: the first query.
CheckService(h) ==
  /\ At("service", h, "check")
  /\ \/ /\ MayBeInTarget(h)
        /\ completed' = [completed EXCEPT ![h] = TRUE] /\ Goto(h, "enable")
     \/ MayBeElsewhere(h) /\ Goto(h, "command") /\ UNCHANGED completed
  /\ UNCHANGED <<services, pc, step, asked, polls, sequential, history, outcome>>

\* systemctl start or stop.
StartOrStop(h) ==
  /\ At("service", h, "command")
  /\ asked' = asked \cup {h}
  /\ Goto(h, "enable")
  /\ UNCHANGED <<services, pc, step, completed, polls, sequential, history, outcome>>

\* Fault: services are enabled, whichever is wanted.
EnabledAlways(hosts, h) == IF Current.enable = "none" THEN hosts ELSE hosts \cup {h}

\* systemctl enable or disable, if it is wanted and needed.
EnabledHosts(hosts, h) ==
  CASE Current.enable = "enabled" -> hosts \cup {h}
    [] Current.enable = "disabled" -> hosts \ {h}
    [] OTHER -> hosts

EnableOrDisable(h) ==
  /\ At("service", h, "enable")
  /\ enabled' = [enabled EXCEPT ![Current.service] = EnabledHosts(@, h)]
  /\ Goto(h, IF completed[h] THEN "ended" ELSE "poll")
  /\ UNCHANGED <<action, running, containers, flags, pc, step, completed, asked, polls,
                 sequential, history, outcome>>

TimedOut(h) == polls[h] >= Timeout

PollService(h) ==
  /\ At("service", h, "poll")
  /\ \/ /\ TimedOut(h)
        /\ Goto(h, "ended") /\ UNCHANGED <<completed, polls>>
     \/ /\ ~TimedOut(h) /\ MayBeInTarget(h)
        /\ completed' = [completed EXCEPT ![h] = TRUE] /\ Goto(h, "ended")
        /\ UNCHANGED polls
     \/ /\ ~TimedOut(h) /\ MayBeElsewhere(h)
        /\ polls' = [polls EXCEPT ![h] = @ + 1] /\ UNCHANGED <<completed, thread>>
  /\ UNCHANGED <<services, pc, step, asked, sequential, history, outcome>>

Joined == \A h \in Current.hosts : thread[h] = "ended"

\* Fault: one waiter that completed is enough.
SomeCompleted == \E h \in Current.hosts : completed[h]

AllCompleted == \A h \in Current.hosts : completed[h]

ServiceStepEnds ==
  /\ pc = "service"
  /\ Joined
  /\ IF AllCompleted THEN pc' = "next" /\ UNCHANGED outcome ELSE Exit
  /\ UNCHANGED <<services, step, threads, sequential, history>>

-----------------------------------------------------------------------------
(* ContainerStopThread.                                                    *)

\* Fails when a command cannot be executed, when containerd cannot be asked,
\* and when containers still run after the attempt to stop them.
ContainerThreadFails(h) ==
  /\ pc = "containers"
  /\ thread[h] \in {"check", "stop", "recheck"}
  /\ Goto(h, "ended")
  /\ UNCHANGED <<services, pc, step, completed, asked, polls, sequential, history,
                 outcome>>

CheckContainers(h) ==
  /\ At("containers", h, "check")
  /\ IF h \notin running["containerd"] \cap containers
       THEN completed' = [completed EXCEPT ![h] = TRUE] /\ Goto(h, "ended")
       ELSE Goto(h, "stop") /\ UNCHANGED completed
  /\ UNCHANGED <<services, pc, step, asked, polls, sequential, history, outcome>>

\* The script stops all containers, or times out on some.
StopContainers(h) ==
  /\ At("containers", h, "stop")
  /\ containers' \in {containers, containers \ {h}}
  /\ Goto(h, "recheck")
  /\ UNCHANGED <<action, running, enabled, flags, pc, step, completed, asked, polls,
                 sequential, history, outcome>>

RecheckContainers(h) ==
  /\ At("containers", h, "recheck")
  /\ completed' = [completed EXCEPT ![h] = h \notin containers]
  /\ Goto(h, "ended")
  /\ UNCHANGED <<services, pc, step, asked, polls, sequential, history, outcome>>

ContainersStepEnds ==
  /\ pc = "containers"
  /\ Joined
  /\ pc' = IF AllCompleted THEN "next" ELSE "prompt"
  /\ UNCHANGED <<services, step, threads, sequential, history, outcome>>

-----------------------------------------------------------------------------
(* do_etcd_snapshot.                                                       *)

\* "systemctl is-active etcd" exits with an error code in every state but
\* active, which is all that counts here.
SnapshotHost(m) ==
  /\ pc = "snapshot"
  /\ m \in todo
  /\ todo' = todo \ {m}
  /\ \/ errors' = errors \cup {m} /\ UNCHANGED <<inactive, saved>>
     \/ /\ m \notin running["etcd"]
        /\ inactive' = inactive \cup {m} /\ UNCHANGED <<errors, saved>>
     \/ /\ m \in running["etcd"]
        /\ saved' = saved \cup {m} /\ UNCHANGED <<errors, inactive>>
  /\ UNCHANGED <<services, pc, step, threads, retried, cephSeenHealthy, agreed,
                 outcome>>

\* Fault: one manager whose etcd was inactive makes all failures harmless.
SomeInactive == inactive # {}

OnlyInactive == errors = {}

SnapshotStepEnds ==
  /\ pc = "snapshot"
  /\ todo = {}
  /\ \/ errors \cup inactive = {} /\ pc' = "next" /\ UNCHANGED outcome
     \/ errors \cup inactive # {} /\ OnlyInactive /\ pc' = "prompt" /\ UNCHANGED outcome
     \/ errors \cup inactive # {} /\ ~ OnlyInactive /\ Exit
  /\ UNCHANGED <<services, step, threads, sequential, history>>

-----------------------------------------------------------------------------
(* Ceph.                                                                   *)

\* do_ceph_freeze: Ceph is not healthy, or a command fails.  The flags set
\* before stay set.
CephFails == pc \in {"freeze", "unfreeze"} /\ todo # {} /\ Abort

\* toggle_ceph_freeze_flags, one flag, once Ceph was found healthy enough.
ToggleFlag(f) ==
  /\ pc \in {"freeze", "unfreeze"}
  /\ f \in todo
  /\ todo' = todo \ {f}
  /\ flags' = IF pc = "freeze" THEN flags \cup {f} ELSE flags \ {f}
  /\ UNCHANGED <<action, running, enabled, containers, pc, step, threads, inactive, errors,
                 retried, history, outcome>>

FreezeStepEnds ==
  /\ pc = "freeze"
  /\ todo = {}
  /\ pc' = "next"
  /\ UNCHANGED <<services, step, threads, sequential, history, outcome>>

MayBeHealthy == flags = {}

\* CephHealthWaiter: healthy, which Ceph never is while flags are set.
CephHealthy ==
  /\ pc = "unfreeze"
  /\ todo = {}
  /\ MayBeHealthy
  /\ cephSeenHealthy' = TRUE
  /\ pc' = "next"
  /\ UNCHANGED <<services, step, threads, sequential, saved, agreed, outcome>>

\* Not healthy until the timeout: one retry, before which the Ceph services
\* are restarted; an SSH error while restarting them ends the program.
CephTimesOut ==
  /\ pc = "unfreeze"
  /\ todo = {}
  /\ \/ ~ retried /\ retried' = TRUE /\ UNCHANGED <<pc, outcome>>
     \/ Exit /\ UNCHANGED retried
  /\ UNCHANGED <<services, step, threads, todo, inactive, errors, history>>

-----------------------------------------------------------------------------
ServiceThread(h) ==
  \/ ServiceCommandFails(h) \/ CheckService(h) \/ StartOrStop(h)
  \/ EnableOrDisable(h) \/ PollService(h)

ContainerThread(h) ==
  \/ ContainerThreadFails(h) \/ CheckContainers(h) \/ StopContainers(h)
  \/ RecheckContainers(h)

Stage ==
  \/ NotVerified \/ NextStep \/ Prompt
  \/ ServiceStepEnds \/ ContainersStepEnds \/ SnapshotStepEnds
  \/ \E m \in Managers : SnapshotHost(m)
  \/ CephFails \/ FreezeStepEnds \/ CephHealthy \/ CephTimesOut
  \/ \E f \in FreezeFlags : ToggleFlag(f)

Finished == pc = "done" /\ UNCHANGED vars

Next ==
  \/ Stage \/ Finished
  \/ \E h \in Hosts :
       ServiceThread(h) \/ ContainerThread(h) \/ Settle(h) \/ ContainersStart(h)

Spec == Init /\ [][Next]_vars

-----------------------------------------------------------------------------
TypeOK ==
  /\ action \in {"start", "stop"}
  /\ running \in [Services -> SUBSET Hosts]
  /\ enabled \in [Services -> SUBSET Hosts]
  /\ containers \subseteq Hosts
  /\ flags \subseteq FreezeFlags
  /\ pc \in {"verify", "next", "service", "containers", "snapshot", "freeze",
             "unfreeze", "prompt", "done"}
  /\ step \in 0 .. Len(Steps)
  /\ thread \in [Hosts -> {"idle", "check", "command", "enable", "poll", "stop",
                           "recheck", "ended"}]
  /\ completed \in [Hosts -> BOOLEAN]
  /\ asked \subseteq Hosts
  /\ polls \in [Hosts -> 0 .. Timeout]
  /\ todo \subseteq Hosts \cup FreezeFlags
  /\ inactive \subseteq Managers
  /\ errors \subseteq Managers
  /\ saved \subseteq Managers
  /\ {retried, cephSeenHealthy, agreed} \subseteq BOOLEAN
  /\ outcome \in {"none", "ok", "exit"}

(* etcd is never stopped on a manager whose data was not saved, whatever   *)
(* the admin answers.                                                      *)
SavedBeforeStopped ==
  [][\A m \in running["etcd"] \ running'["etcd"] : m \in saved]_vars

(* When the platform services are stopped, nothing runs that could write   *)
(* to Ceph when it is frozen: the services are inactive everywhere, and    *)
(* containers are left only if the admin chose to continue.                *)
QuietWhenStopped ==
  action = "stop" /\ outcome = "ok" =>
    /\ \A s \in Services : running[s] = {}
    /\ containers # {} => agreed
    /\ flags = FreezeFlags

(* Kubelet is started on no host before containerd runs on all, etcd runs  *)
(* on all managers and Ceph was found healthy.                             *)
KubeletLast ==
  [][running'["kubelet"] # running["kubelet"] /\ action = "start" =>
       /\ running["containerd"] = Hosts
       /\ running["etcd"] = Managers
       /\ cephSeenHealthy
       /\ flags = {}]_vars

(* A service that the step had to change is enabled or disabled as well    *)
(* when its change is seen: a host whose systemctl failed is not counted.  *)
(* (For a service found in its target state the code gives no such         *)
(* guarantee: it has "completed" before it is enabled or disabled.)        *)
EnabledWhenCompleted ==
  [][\A h \in Hosts :
       thread[h] = "poll" /\ completed'[h] /\ ~ completed[h] =>
         /\ Current.enable = "enabled" => h \in enabled[Current.service]
         /\ Current.enable = "disabled" => h \notin enabled[Current.service]]_vars
=============================================================================
