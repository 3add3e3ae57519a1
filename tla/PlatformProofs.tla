---------------------------- MODULE PlatformProofs ----------------------------
(***************************************************************************)
(* The order in which the platform services are stopped and started, for   *)
(* any managers and workers, any timeout and any interleaving of the       *)
(* threads of the hosts.                                                   *)
(*                                                                         *)
(* A step is past when the next one may begin; what each step has achieved *)
(* by then still holds, since no later step and no host undoes it.  Within *)
(* a step a thread that has completed has found its host in the state that *)
(* is wanted, which only orders of this step change, and towards it.       *)
(***************************************************************************)
EXTENDS PlatformServices, TLAPS

Kinds == {"service", "containers", "snapshot", "freeze", "unfreeze"}

\* The steps are those of the tables STEPS_BY_ACTION, in their order.
StopFacts ==
  /\ Len(Steps) = 6
  /\ Steps[1].kind = "snapshot" /\ Steps[1].hosts = Managers
  /\ Steps[2].kind = "service" /\ Steps[2].hosts = Managers /\ Steps[2].service = "etcd"
  /\ Steps[3].kind = "service" /\ Steps[3].hosts = Hosts /\ Steps[3].service = "kubelet"
  /\ Steps[4].kind = "containers" /\ Steps[4].hosts = Hosts
  /\ Steps[5].kind = "service" /\ Steps[5].hosts = Hosts /\ Steps[5].service = "containerd"
  /\ Steps[6].kind = "freeze" /\ Steps[6].hosts = {}
  /\ \A i \in {2, 3, 5} : Steps[i].state = "inactive"

StartFacts ==
  /\ Len(Steps) = 4
  /\ Steps[1].kind = "service" /\ Steps[1].hosts = Hosts /\ Steps[1].service = "containerd"
  /\ Steps[2].kind = "service" /\ Steps[2].hosts = Managers /\ Steps[2].service = "etcd"
  /\ Steps[3].kind = "unfreeze" /\ Steps[3].hosts = {}
  /\ Steps[4].kind = "service" /\ Steps[4].hosts = Hosts /\ Steps[4].service = "kubelet"
  /\ \A i \in {1, 2, 4} : Steps[i].state = "active"

StepsFacts ==
  /\ Len(Steps) \in Nat /\ Len(Steps) # 0
  /\ \A i \in 1 .. Len(Steps) :
       /\ Steps[i].kind \in Kinds
       /\ Steps[i].hosts \subseteq Hosts
       /\ Steps[i].kind = "service" => Steps[i].service \in Services

LEMMA StopSteps6 == action = "stop" => StopFacts
BY DEF Steps, StopSteps, StopFacts, ServiceStep, OtherStep

LEMMA StartSteps4 == action = "start" => StartFacts
BY DEF Steps, StartSteps, StartFacts, ServiceStep, OtherStep

LEMMA AllSteps == action \in {"start", "stop"} => StepsFacts
<1>1. CASE action = "stop"
  <2>1. StopFacts
    BY <1>1, StopSteps6
  <2>2. ASSUME NEW i \in 1 .. 6
        PROVE  /\ Steps[i].kind \in Kinds /\ Steps[i].hosts \subseteq Hosts
               /\ Steps[i].kind = "service" => Steps[i].service \in Services
    <3>1. i \in {1, 2, 3, 4, 5, 6}
      OBVIOUS
    <3> QED
      BY <2>1, <3>1 DEF StopFacts, Kinds, Services, Hosts
  <2> QED
    BY <2>1, <2>2 DEF StopFacts, StepsFacts
<1>2. CASE action = "start"
  <2>1. StartFacts
    BY <1>2, StartSteps4
  <2>2. ASSUME NEW i \in 1 .. 4
        PROVE  /\ Steps[i].kind \in Kinds /\ Steps[i].hosts \subseteq Hosts
               /\ Steps[i].kind = "service" => Steps[i].service \in Services
    <3>1. i \in {1, 2, 3, 4}
      OBVIOUS
    <3> QED
      BY <2>1, <3>1 DEF StartFacts, Kinds, Services, Hosts
  <2> QED
    BY <2>1, <2>2 DEF StartFacts, StepsFacts
<1> QED
  BY <1>1, <1>2

-----------------------------------------------------------------------------
Types ==
  /\ action \in {"start", "stop"}
  /\ running \in [Services -> SUBSET Hosts]
  /\ enabled \in [Services -> SUBSET Hosts]
  /\ completed \in [Hosts -> BOOLEAN]
  /\ thread \in [Hosts -> {"idle", "check", "command", "enable", "poll", "stop",
                           "recheck", "ended"}]
  /\ flags \subseteq FreezeFlags
  /\ step \in 0 .. Len(Steps)
  /\ pc \in Kinds \cup {"verify", "next", "prompt", "done"}

\* What is executed is the step the counter names.
InStep ==
  /\ pc = "verify" <=> step = 0 /\ outcome = "none"
  /\ pc \in {"next", "prompt"} => outcome = "none"
  /\ pc \in Kinds => step # 0 /\ Current.kind = pc /\ outcome = "none"
  /\ pc = "prompt" => Current.kind \in {"snapshot", "containers"}
  /\ outcome = "ok" => pc = "done" /\ step = Len(Steps)
  /\ step = 0 => \A h \in Hosts : thread[h] = "idle"
  /\ \A h \in Hosts : thread[h] # "idle" => h \in Current.hosts
  /\ asked # {} => step # 0 /\ Current.kind = "service" /\ asked \subseteq Current.hosts

\* What a thread has found or done on its host.
Threads ==
  /\ pc = "service" => \A h \in Hosts : completed[h] => MayBeInTarget(h)
  /\ \A h \in Hosts : thread[h] = "poll" =>
       /\ step # 0 /\ Current.kind = "service"
       /\ Current.enable = "enabled" => h \in enabled[Current.service]
       /\ Current.enable = "disabled" => h \notin enabled[Current.service]

Base == Types /\ InStep /\ Threads

Past(n) == step > n \/ (step = n /\ (pc = "next" \/ outcome = "ok"))

StopInv ==
  /\ running["etcd"] \subseteq Managers
  /\ pc = "snapshot" =>
       \A m \in Managers \cap running["etcd"] : m \in todo \cup saved \cup errors
  /\ Past(1) \/ pc = "prompt" => Managers \cap running["etcd"] \subseteq saved
  /\ Past(2) => running["etcd"] = {}
  /\ Past(3) => running["kubelet"] = {}
  /\ step <= 4 => containers \subseteq running["containerd"]
  /\ pc = "containers" => \A h \in Hosts : completed[h] => h \notin containers
  /\ Past(4) => containers = {} \/ agreed
  /\ Past(5) => running["containerd"] = {}
  /\ pc = "freeze" => FreezeFlags \subseteq flags \cup todo
  /\ Past(6) => flags = FreezeFlags

StartInv ==
  /\ running["etcd"] \subseteq Managers
  /\ Past(1) => running["containerd"] = Hosts
  /\ Past(2) => running["etcd"] = Managers
  /\ Past(3) => cephSeenHealthy /\ flags = {}

PlatformInv ==
  /\ Base
  /\ action = "stop" => StopInv
  /\ action = "start" => StartInv

-----------------------------------------------------------------------------
LEMMA InitInv == Init => PlatformInv
<1> SUFFICES ASSUME Init PROVE PlatformInv
  OBVIOUS
<1>1. Types
  BY AllSteps DEF Init, Types, StepsFacts, FreezeFlags, Kinds, Hosts
<1>2. InStep /\ Threads
  BY DEF Init, InStep, Threads, Kinds
<1>3. running["etcd"] \subseteq Managers /\ containers \subseteq running["containerd"]
  BY DEF Init
<1> QED
  BY <1>1, <1>2, <1>3, StopSteps6, StartSteps4
  DEF Init, PlatformInv, Base, StopInv, StartInv, Past, StopFacts, StartFacts

(* The action is chosen once, so the steps are the same.                   *)
LEMMA ActionStays ==
  ASSUME Next
  PROVE  UNCHANGED action /\ Steps' = Steps
<1>1. UNCHANGED action
  BY DEF Next, Stage, Finished, ServiceThread, ContainerThread, Settle, ContainersStart,
     NotVerified, NextStep, Prompt, ServiceStepEnds, ContainersStepEnds, SnapshotStepEnds, SnapshotHost,
     CephFails, FreezeStepEnds, CephHealthy, CephTimesOut, ToggleFlag, ServiceCommandFails,
     CheckService, StartOrStop, EnableOrDisable, PollService, ContainerThreadFails,
     CheckContainers, StopContainers, RecheckContainers, Abort, services, vars
<1> QED
  BY <1>1 DEF Steps, StartSteps, StopSteps

(* Steps of one host, by which the stage does not move on.                 *)
HostStep(h) == ServiceThread(h) \/ ContainerThread(h) \/ Settle(h) \/ ContainersStart(h)

LEMMA HostSteps ==
  ASSUME Base, NEW h \in Hosts, HostStep(h)
  PROVE  /\ Base'
         /\ UNCHANGED <<action, flags, pc, step, sequential, history, outcome>>
<1>1. UNCHANGED <<action, flags, pc, step, sequential, history, outcome>>
  BY DEF HostStep, ServiceThread, ContainerThread, Settle, ContainersStart, ServiceCommandFails,
     CheckService, StartOrStop, EnableOrDisable, PollService, ContainerThreadFails,
     CheckContainers, StopContainers, RecheckContainers, services, threads
<1>2. Steps' = Steps /\ Current' = Current
  BY <1>1 DEF Steps, StartSteps, StopSteps, Current
<1>3. step # 0 => StepsFacts /\ step \in 1 .. Len(Steps)
  BY AllSteps DEF Base, Types, StepsFacts
<1> HIDE DEF Steps, Current
<1> USE <1>1, <1>2, <1>3
    DEF Goto, services, Base, Types, InStep, Threads, MayBeInTarget, Readings
<1>4. CASE ServiceCommandFails(h)
  BY <1>4 DEF ServiceCommandFails
<1>5. CASE CheckService(h)
  <2>1. /\ pc = "service" /\ thread[h] = "check" /\ UNCHANGED <<services, pc, step, asked, polls>>
        /\ \/ /\ MayBeInTarget(h) /\ completed' = [completed EXCEPT ![h] = TRUE]
              /\ thread' = [thread EXCEPT ![h] = "enable"]
           \/ completed' = completed /\ thread' = [thread EXCEPT ![h] = "command"]
        /\ completed' \in [Hosts -> BOOLEAN]
        /\ thread' \in [Hosts -> {"idle", "check", "command", "enable", "poll", "stop",
                                  "recheck", "ended"}]
    BY <1>5 DEF CheckService, At
  <2>2. Types' /\ InStep'
    BY <2>1
  <2>3. \A g \in Hosts : thread'[g] = "poll" => thread[g] = "poll"
    BY <2>1
  <2>4. \A g \in Hosts : completed'[g] => completed[g] \/ (g = h /\ MayBeInTarget(h))
    BY <2>1
  <2>5. Threads'
    BY <2>1, <2>3, <2>4
  <2> QED
    BY <2>2, <2>5
<1>6. CASE StartOrStop(h)
  BY <1>6 DEF StartOrStop, At
<1>7. CASE EnableOrDisable(h)
  <2>1. /\ pc = "service" /\ step # 0 /\ Current.kind = "service" /\ Current.service \in Services
        /\ thread[h] = "enable" /\ UNCHANGED <<running, completed, asked>>
        /\ thread' \in [Hosts -> {"idle", "check", "command", "enable", "poll", "stop",
                                  "recheck", "ended"}]
        /\ \A g \in Hosts : g # h => thread'[g] = thread[g]
    BY <1>7 DEF EnableOrDisable, At, StepsFacts, Current, Kinds
  <2>2. enabled' = [enabled EXCEPT ![Current.service] = EnabledHosts(@, h)]
    BY <1>7 DEF EnableOrDisable
  <2>3. /\ EnabledHosts(enabled[Current.service], h) \subseteq Hosts
        /\ \A g \in Hosts :
             /\ Current.enable = "enabled" /\ (g = h \/ g \in enabled[Current.service]) =>
                  g \in EnabledHosts(enabled[Current.service], h)
             /\ Current.enable = "disabled" /\ (g = h \/ g \notin enabled[Current.service]) =>
                  g \notin EnabledHosts(enabled[Current.service], h)
    BY <2>1 DEF EnabledHosts
  <2>4. /\ enabled' \in [Services -> SUBSET Hosts]
        /\ enabled'[Current.service] = EnabledHosts(enabled[Current.service], h)
    BY <2>1, <2>2, <2>3
  <2>5. Types' /\ InStep'
    BY <2>1, <2>4
  <2>6. Threads'
    BY <2>1, <2>3, <2>4
  <2> QED
    BY <2>5, <2>6
<1>8. CASE PollService(h)
  BY <1>8 DEF PollService, At
<1>9. CASE ContainerThread(h)
  BY <1>9 DEF ContainerThread, ContainerThreadFails, CheckContainers, StopContainers,
     RecheckContainers, At
<1>10. CASE Settle(h)
  <2>1. /\ step # 0 /\ Current.kind = "service" /\ Current.service \in Services
        /\ asked' \subseteq asked
        /\ UNCHANGED <<enabled, thread, completed>>
    BY <1>10 DEF Settle, StepsFacts, Current
  <2>2. /\ running' \in [Services -> SUBSET Hosts]
        /\ Current.state = "active" =>
             running'[Current.service] = running[Current.service] \cup {h}
        /\ Current.state # "active" =>
             running'[Current.service] = running[Current.service] \ {h}
    BY <1>10, <2>1 DEF Settle
  <2>3. Types' /\ InStep'
    BY <2>1, <2>2
  <2>4. Threads'
    BY <2>1, <2>2
  <2> QED
    BY <2>3, <2>4
<1>11. CASE ContainersStart(h)
  BY <1>11 DEF ContainersStart, threads
<1> QED
  BY <1>4, <1>5, <1>6, <1>7, <1>8, <1>9, <1>10, <1>11 DEF HostStep, ServiceThread

LEMMA StageSteps ==
  ASSUME Base, Stage
  PROVE  Base'
<1>1. UNCHANGED <<action, running, enabled, containers>> /\ Steps' = Steps
  BY ActionStays DEF Next, Stage, NotVerified, NextStep, Prompt, ServiceStepEnds,
     ContainersStepEnds, SnapshotStepEnds, SnapshotHost, CephFails, FreezeStepEnds, CephHealthy,
     CephTimesOut, ToggleFlag, Abort, services
<1>2. StepsFacts
  BY AllSteps DEF Base, Types
<1> HIDE DEF Steps
<1>3. CASE NextStep
  <2>1. CASE step = Len(Steps)
    <3>1. /\ UNCHANGED <<step, thread, completed, asked, flags>> /\ step # 0
          /\ pc' = "done" /\ outcome' = "ok" /\ Current' = Current
      BY <1>1, <1>2, <1>3, <2>1 DEF NextStep, threads, services, StepsFacts, Current
    <3> HIDE DEF Current
    <3> QED
      BY <1>1, <2>1, <3>1 DEF Base, Types, InStep, Threads, Kinds
  <2>2. CASE step # Len(Steps)
    <3>1. /\ step' = step + 1 /\ step' \in 1 .. Len(Steps)
          /\ pc' = Steps[step'].kind /\ outcome' = outcome /\ flags' = flags
          /\ Current' = Steps[step']
      BY <1>1, <1>3, <2>2 DEF NextStep, Base, Types, services, Current
    <3>2. /\ thread' = [g \in Hosts |->
               IF Steps[step'].kind \in {"service", "containers"} /\ g \in Steps[step'].hosts
                 THEN "check" ELSE "idle"]
          /\ completed' = [g \in Hosts |-> FALSE] /\ asked' = {}
      BY <1>3, <2>2, <3>1 DEF NextStep
    <3> HIDE DEF Current
    <3> QED
      BY <1>1, <1>2, <1>3, <3>1, <3>2
      DEF NextStep, Base, Types, InStep, Threads, StepsFacts, Kinds
  <2> QED
    BY <2>1, <2>2
<1>4. CASE ~ NextStep
  <2>1. /\ UNCHANGED <<step, threads>> /\ flags' \subseteq FreezeFlags
        /\ Current' = Current
    BY <1>1, <1>4 DEF Base, Types, Stage, NotVerified, Prompt, ServiceStepEnds,
       ContainersStepEnds, SnapshotStepEnds, SnapshotHost, CephFails, FreezeStepEnds, CephHealthy,
       CephTimesOut, ToggleFlag, Abort, services, Current
  <2>2. \/ pc' = pc /\ outcome' = outcome
        \/ pc' = "done" /\ outcome' = "exit"
        \/ pc' \in {"next", "prompt"} /\ outcome' = "none" /\ step # 0
             /\ (pc' = "prompt" => Current.kind \in {"snapshot", "containers"})
    BY <1>4 DEF Base, InStep, Kinds, Stage, NotVerified, Prompt, ServiceStepEnds,
       ContainersStepEnds, SnapshotStepEnds, SnapshotHost, CephFails, FreezeStepEnds, CephHealthy,
       CephTimesOut, ToggleFlag, Abort, Exit
  <2> HIDE DEF Current
  <2> QED
    BY <1>1, <2>1, <2>2 DEF Base, Types, InStep, Threads, MayBeInTarget, Readings, threads, Kinds
<1> QED
  BY <1>3, <1>4

-----------------------------------------------------------------------------
(* Stopping.                                                               *)

\* Where the stage is when it stops services.
StopStepOf ==
  /\ step \in 0 .. 6
  /\ pc = "snapshot" => step = 1
  /\ pc = "service" => step \in {2, 3, 5}
  /\ pc = "containers" => step = 4
  /\ pc = "freeze" => step = 6
  /\ pc = "prompt" => step \in {1, 4}
  /\ pc # "unfreeze"

LEMMA StopPlace ==
  ASSUME Base, action = "stop"
  PROVE  StopFacts /\ StopStepOf
<1>1. StopFacts
  BY StopSteps6
<1>2. step \in {0, 1, 2, 3, 4, 5, 6}
  BY <1>1 DEF Base, Types, StopFacts
<1> HIDE DEF Steps
<1> QED
  BY <1>1, <1>2 DEF Base, Types, InStep, StopFacts, StopStepOf, Current, Kinds

LEMMA HostKeepsStop ==
  ASSUME Base, StopInv, action = "stop", NEW h \in Hosts, HostStep(h)
  PROVE  StopInv'
<1>1. Base' /\ UNCHANGED <<action, flags, pc, step, sequential, history, outcome>>
  BY HostSteps
<1>2. StopFacts /\ StopStepOf
  BY StopPlace
<1> HIDE DEF Steps
<1>3. \/ UNCHANGED running
      \/ /\ Settle(h) /\ step \in {2, 3, 5}
         /\ running' = [running EXCEPT ![Steps[step].service] = @ \ {h}]
  <2>1. CASE Settle(h)
    <3>1. step # 0 /\ Current.kind = "service"
      BY <2>1 DEF Settle, Base, InStep
    <3>2. step \in {2, 3, 5}
      <4>1. step \in {1, 2, 3, 4, 5, 6}
        BY <1>2, <3>1 DEF StopStepOf
      <4> QED
        BY <1>2, <3>1, <4>1 DEF StopFacts, Current
    <3> QED
      BY <1>2, <2>1, <3>2 DEF Settle, StopFacts, Current
  <2> QED
    BY <2>1 DEF HostStep, ServiceThread, ContainerThread, ContainersStart, ServiceCommandFails,
       CheckService, StartOrStop, EnableOrDisable, PollService, ContainerThreadFails,
       CheckContainers, StopContainers, RecheckContainers, services
<1>4. /\ \A s \in Services : running'[s] \subseteq running[s]
      /\ step # 5 => running'["containerd"] = running["containerd"]
  BY <1>2, <1>3 DEF StopFacts, Base, Types, Services
<1>5. \/ containers' \subseteq containers
      \/ /\ containers' = containers \cup {h} /\ running' = running
         /\ h \in running["kubelet"] \cap running["containerd"]
  BY DEF HostStep, ServiceThread, ContainerThread, ContainersStart, ServiceCommandFails,
     CheckService, StartOrStop, EnableOrDisable, PollService, ContainerThreadFails, Settle,
     CheckContainers, StopContainers, RecheckContainers, services
<1>6. pc = "containers" =>
        \A g \in Hosts : completed'[g] => completed[g] \/ g \notin containers'
  <2> SUFFICES ASSUME pc = "containers"
               PROVE  \A g \in Hosts : completed'[g] => completed[g] \/ g \notin containers'
    OBVIOUS
  <2>1. containers \subseteq running["containerd"]
    BY <1>2 DEF StopStepOf, StopInv
  <2> QED
    BY <2>1 DEF HostStep, ServiceThread, ContainerThread, ContainersStart, ServiceCommandFails,
     CheckService, StartOrStop, EnableOrDisable, PollService, ContainerThreadFails, Settle, At,
     CheckContainers, StopContainers, RecheckContainers, services, threads, Base, Types
<1>7. Past(3) => containers' \subseteq containers
  BY <1>5 DEF StopInv
<1>8. \A n \in 1 .. 6 : Past(n)' <=> Past(n)
  BY <1>1 DEF Past
<1> QED
  BY <1>1, <1>2, <1>4, <1>5, <1>6, <1>7, <1>8
  DEF StopInv, StopStepOf, sequential, history, Services, Past

LEMMA StageKeepsStop ==
  ASSUME Base, StopInv, action = "stop", Stage
  PROVE  StopInv'
<1>1. UNCHANGED <<action, running, enabled, containers>> /\ Steps' = Steps
  BY ActionStays DEF Next, Stage, NotVerified, NextStep, Prompt, ServiceStepEnds,
     ContainersStepEnds, SnapshotStepEnds, SnapshotHost, CephFails, FreezeStepEnds, CephHealthy,
     CephTimesOut, ToggleFlag, Abort, services
<1>2. StopFacts /\ StopStepOf
  BY StopPlace
<1>3. running["etcd"] \subseteq Hosts /\ running["kubelet"] \subseteq Hosts
      /\ running["containerd"] \subseteq Hosts
  BY DEF Base, Types, Services
<1> HIDE DEF Steps
<1>4. CASE NotVerified \/ CephFails
  BY <1>1, <1>4 DEF NotVerified, CephFails, Abort, Exit, services, threads, sequential, history,
     StopInv, Past, Base, InStep, Kinds
<1>5. CASE NextStep
  <2>1. CASE step = Len(Steps)
    BY <1>1, <1>2, <1>5, <2>1
    DEF NextStep, services, threads, sequential, history, StopInv, Past, StopFacts, Base, InStep
  <2>2. CASE step # Len(Steps)
    <3>1. /\ step' = step + 1 /\ step' \in 1 .. 6 /\ pc' = Steps[step'].kind
          /\ completed' = [g \in Hosts |-> FALSE]
          /\ todo' = IF pc' \in {"freeze", "unfreeze"} THEN FreezeFlags ELSE Steps[step'].hosts
          /\ outcome' = outcome /\ outcome # "ok" /\ UNCHANGED <<flags, saved, agreed>>
      BY <1>2, <1>5, <2>2
      DEF NextStep, StopStepOf, StopFacts, services, history, Base, InStep
    <3>2. /\ pc' = "snapshot" => todo' = Managers
          /\ pc' = "freeze" => todo' = FreezeFlags
          /\ pc' \notin {"next", "prompt"}
      <4>1. step' \in {1, 2, 3, 4, 5, 6}
        BY <3>1
      <4> QED
        BY <1>2, <3>1, <4>1 DEF StopFacts
    <3>3. \A n \in 1 .. 6 : Past(n)' => Past(n)
      BY <1>2, <1>5, <3>1, <3>2 DEF Past, NextStep, Base, InStep, StopStepOf
    <3>4. step <= 4 \/ step' > 4
      BY <1>2, <3>1 DEF StopStepOf
    <3> QED
      BY <1>1, <1>2, <3>1, <3>2, <3>3, <3>4 DEF StopInv, StopStepOf
  <2> QED
    BY <2>1, <2>2
<1>6. CASE Prompt
  <2>1. CASE pc' = "next"
    BY <1>1, <1>2, <1>6, <2>1
    DEF Prompt, Exit, services, threads, sequential, StopInv, StopStepOf, Past
  <2>2. CASE pc' # "next"
    BY <1>1, <1>2, <1>6, <2>2
    DEF Prompt, Exit, services, threads, sequential, StopInv, StopStepOf, Past
  <2> QED
    BY <2>1, <2>2
<1>7. CASE ServiceStepEnds
  <2>1. AllCompleted => running[Current.service] \cap Current.hosts = {}
    BY <1>2, <1>7 DEF ServiceStepEnds, AllCompleted, Base, Threads, MayBeInTarget, Readings,
       StopFacts,
       StopStepOf, Current, Hosts
  <2>2. AllCompleted =>
          /\ step = 2 => running["etcd"] = {}
          /\ step = 3 => running["kubelet"] = {}
          /\ step = 5 => running["containerd"] = {}
    BY <1>2, <1>3, <2>1 DEF StopFacts, Current, StopInv
  <2> QED
    BY <1>1, <1>2, <1>7, <2>2
    DEF ServiceStepEnds, Exit, services, threads, sequential, history, StopInv, StopStepOf, Past
<1>8. CASE ContainersStepEnds
  <2>1. AllCompleted => containers = {}
    BY <1>2, <1>3, <1>8 DEF ContainersStepEnds, AllCompleted, StopInv, StopFacts, StopStepOf,
       Current
  <2> QED
    BY <1>1, <1>2, <1>8, <2>1
    DEF ContainersStepEnds, services, threads, sequential, history, StopInv, StopStepOf, Past
<1>9. CASE \E m \in Managers : SnapshotHost(m)
  BY <1>1, <1>2, <1>9 DEF SnapshotHost, services, threads, StopInv, StopStepOf, Past
<1>10. CASE SnapshotStepEnds
  BY <1>1, <1>2, <1>10
  DEF SnapshotStepEnds, OnlyInactive, Exit, services, threads, sequential, history, StopInv,
      StopStepOf, Past
<1>11. CASE FreezeStepEnds \/ \E f \in FreezeFlags : ToggleFlag(f)
  BY <1>1, <1>2, <1>11
  DEF FreezeStepEnds, ToggleFlag, services, threads, sequential, history, StopInv, StopStepOf,
      Past, Base, Types
<1> QED
  BY <1>2, <1>4, <1>5, <1>6, <1>7, <1>8, <1>9, <1>10, <1>11
  DEF Stage, StopStepOf, CephHealthy, CephTimesOut

-----------------------------------------------------------------------------
(* Starting.                                                               *)

StartStepOf ==
  /\ step \in 0 .. 4
  /\ pc = "service" => step \in {1, 2, 4}
  /\ pc = "unfreeze" => step = 3
  /\ pc \notin {"snapshot", "containers", "freeze", "prompt"}

LEMMA StartPlace ==
  ASSUME Base, action = "start"
  PROVE  StartFacts /\ StartStepOf
<1>1. StartFacts
  BY StartSteps4
<1>2. step \in {0, 1, 2, 3, 4}
  BY <1>1 DEF Base, Types, StartFacts
<1>3. pc = "prompt" => step # 0
  BY DEF Base, InStep
<1> HIDE DEF Steps
<1> QED
  BY <1>1, <1>2, <1>3 DEF Base, Types, InStep, StartFacts, StartStepOf, Current, Kinds

\* A step of a host that changes services brings one more up.
LEMMA HostStarts ==
  ASSUME Base, action = "start", NEW h \in Hosts, HostStep(h)
  PROVE  \/ UNCHANGED running
         \/ /\ Settle(h) /\ step \in {1, 2, 4} /\ h \in Steps[step].hosts
            /\ running' = [running EXCEPT ![Steps[step].service] = @ \cup {h}]
<1>1. StartFacts /\ StartStepOf
  BY StartPlace
<1> HIDE DEF Steps
<1>2. CASE Settle(h)
  <2>1. step # 0 /\ Current.kind = "service" /\ h \in Current.hosts
    BY <1>2 DEF Settle, Base, InStep
  <2>2. step \in {1, 2, 3, 4}
    BY <1>1, <2>1 DEF StartStepOf
  <2>3. step \in {1, 2, 4}
    BY <1>1, <2>1, <2>2 DEF StartFacts, Current
  <2> QED
    BY <1>1, <1>2, <2>1, <2>3 DEF Settle, StartFacts, Current
<1> QED
  BY <1>2 DEF HostStep, ServiceThread, ContainerThread, ContainersStart, ServiceCommandFails,
     CheckService, StartOrStop, EnableOrDisable, PollService, ContainerThreadFails,
     CheckContainers, StopContainers, RecheckContainers, services

LEMMA HostKeepsStart ==
  ASSUME Base, StartInv, action = "start", NEW h \in Hosts, HostStep(h)
  PROVE  StartInv'
<1>1. Base' /\ UNCHANGED <<action, flags, pc, step, sequential, history, outcome>>
  BY HostSteps
<1>2. StartFacts /\ StartStepOf
  BY StartPlace
<1>3. /\ \A s \in Services : running[s] \subseteq running'[s]
      /\ running'["etcd"] \subseteq Managers
  BY <1>2, HostStarts DEF StartFacts, Base, Types, Services, StartInv
<1>4. \A n \in 1 .. 4 : Past(n)' <=> Past(n)
  BY <1>1 DEF Past
<1>5. running'["containerd"] \subseteq Hosts
  BY <1>1 DEF Base, Types, Services
<1>6. /\ running["containerd"] \subseteq running'["containerd"]
      /\ running["etcd"] \subseteq running'["etcd"]
  BY <1>3 DEF Services
<1>7. UNCHANGED <<flags, cephSeenHealthy>>
  BY <1>1 DEF history
<1>8. /\ Past(1)' => Past(1)
      /\ Past(2)' => Past(2)
      /\ Past(3)' => Past(3)
  BY <1>4
<1> QED
  BY <1>3, <1>5, <1>6, <1>7, <1>8 DEF StartInv

LEMMA StageKeepsStart ==
  ASSUME Base, StartInv, action = "start", Stage
  PROVE  StartInv'
<1>1. UNCHANGED <<action, running, enabled, containers>> /\ Steps' = Steps
  BY ActionStays DEF Next, Stage, NotVerified, NextStep, Prompt, ServiceStepEnds,
     ContainersStepEnds, SnapshotStepEnds, SnapshotHost, CephFails, FreezeStepEnds, CephHealthy,
     CephTimesOut, ToggleFlag, Abort, services
<1>2. StartFacts /\ StartStepOf
  BY StartPlace
<1>3. \A s \in Services : running[s] \subseteq Hosts
  BY DEF Base, Types
<1> HIDE DEF Steps
<1>4. CASE NotVerified \/ CephFails \/ CephTimesOut
  BY <1>1, <1>4 DEF NotVerified, CephFails, CephTimesOut, Abort, Exit, services, threads,
     history, StartInv, Past, Base, InStep, Kinds
<1>5. CASE NextStep
  <2>1. CASE step = Len(Steps)
    BY <1>1, <1>2, <1>5, <2>1
    DEF NextStep, services, history, StartInv, Past, StartFacts, Base, InStep
  <2>2. CASE step # Len(Steps)
    <3>1. /\ step' = step + 1 /\ step' \in 1 .. 4 /\ pc' = Steps[step'].kind
          /\ outcome' = outcome /\ outcome # "ok" /\ UNCHANGED <<flags, cephSeenHealthy>>
      BY <1>2, <1>5, <2>2 DEF NextStep, StartStepOf, StartFacts, services, history, Base, InStep
    <3>2. pc' # "next"
      <4>1. step' \in {1, 2, 3, 4}
        BY <3>1
      <4> QED
        BY <1>2, <3>1, <4>1 DEF StartFacts
    <3>3. \A n \in 1 .. 4 : Past(n)' => Past(n)
      BY <1>2, <1>5, <3>1, <3>2 DEF Past, NextStep, Base, InStep, StartStepOf
    <3> QED
      BY <1>1, <3>1, <3>3 DEF StartInv
  <2> QED
    BY <2>1, <2>2
<1>6. CASE ServiceStepEnds
  <2>1. AllCompleted => Current.hosts \subseteq running[Current.service]
    BY <1>2, <1>6 DEF ServiceStepEnds, AllCompleted, Base, Threads, MayBeInTarget, Readings,
       StartFacts,
       StartStepOf, Current, Hosts
  <2>2. AllCompleted =>
          /\ step = 1 => running["containerd"] = Hosts
          /\ step = 2 => running["etcd"] = Managers
    BY <1>2, <1>3, <2>1 DEF StartFacts, Current, StartInv, Services
  <2>3. step \in {1, 2, 4}
    BY <1>2, <1>6 DEF ServiceStepEnds, StartStepOf
  <2> QED
    BY <1>1, <1>6, <2>2, <2>3
    DEF ServiceStepEnds, Exit, services, threads, history, StartInv, Past
<1>7. CASE CephHealthy
  BY <1>1, <1>2, <1>7 DEF CephHealthy, MayBeHealthy, services, StartInv, StartStepOf, Past
<1>8. CASE \E f \in FreezeFlags : ToggleFlag(f)
  BY <1>1, <1>2, <1>8 DEF ToggleFlag, history, StartInv, StartStepOf, Past, Base, InStep, Kinds
<1> QED
  BY <1>2, <1>4, <1>5, <1>6, <1>7, <1>8
  DEF Stage, StartStepOf, Prompt, ContainersStepEnds, SnapshotStepEnds, SnapshotHost,
      FreezeStepEnds

-----------------------------------------------------------------------------
LEMMA NextKeepsInv == PlatformInv /\ [Next]_vars => PlatformInv'
<1> SUFFICES ASSUME PlatformInv, [Next]_vars PROVE PlatformInv'
  OBVIOUS
<1>1. CASE Stage
  <2>1. UNCHANGED action
    BY <1>1, ActionStays DEF Next
  <2> QED
    BY <1>1, <2>1, StageSteps, StageKeepsStop, StageKeepsStart DEF PlatformInv
<1>2. ASSUME NEW h \in Hosts, HostStep(h)
      PROVE  PlatformInv'
  BY <1>2, HostSteps, HostKeepsStop, HostKeepsStart DEF PlatformInv
<1>3. CASE UNCHANGED vars
  BY <1>3 DEF vars, PlatformInv, Base, Types, InStep, Threads, MayBeInTarget, Readings,
     StopInv, StartInv, Past,
     Current, Steps, StartSteps, StopSteps
<1> QED
  BY <1>1, <1>2, <1>3 DEF Next, Finished, HostStep

(* What each step of STEPS_BY_ACTION has achieved holds from then on.      *)
THEOREM PlatformInvariant == Spec => []PlatformInv
BY InitInv, NextKeepsInv, PTL DEF Spec

(* When the stop has succeeded nothing runs that could write to Ceph, which*)
(* is frozen, unless the admin chose to leave containers.                  *)
THEOREM QuietAtTheEnd == Spec => []QuietWhenStopped
<1>1. ASSUME PlatformInv, action = "stop", outcome = "ok"
      PROVE  /\ \A s \in Services : running[s] = {}
             /\ containers # {} => agreed
             /\ flags = FreezeFlags
  <2>1. step = 6
    BY <1>1, StopPlace DEF PlatformInv, Base, InStep, StopFacts
  <2>2. \A n \in 1 .. 6 : Past(n)
    BY <1>1, <2>1 DEF Past
  <2> QED
    BY <1>1, <2>2 DEF PlatformInv, StopInv, Services
<1>2. PlatformInv => QuietWhenStopped
  BY <1>1 DEF QuietWhenStopped
<1> QED
  BY <1>2, PlatformInvariant, PTL

(* No etcd is stopped whose data was not saved (do_etcd_snapshot precedes  *)
(* do_etcd_stop, and only inactive members are forgiven).                  *)
THEOREM SnapshotsPrecedeStop == Spec => SavedBeforeStopped
<1>1. PlatformInv /\ [Next]_vars =>
        [\A m \in running["etcd"] \ running'["etcd"] : m \in saved]_vars
  <2> SUFFICES ASSUME PlatformInv, Next, NEW m \in running["etcd"] \ running'["etcd"]
               PROVE  m \in saved
    BY DEF vars
  <2>1. PICK h \in Hosts : Settle(h)
    BY DEF Next, Stage, Finished, ServiceThread, ContainerThread, ContainersStart, NotVerified,
     NextStep, Prompt, ServiceStepEnds, ContainersStepEnds, SnapshotStepEnds, SnapshotHost,
     CephFails, FreezeStepEnds, CephHealthy, CephTimesOut, ToggleFlag, ServiceCommandFails,
     CheckService, StartOrStop, EnableOrDisable, PollService, ContainerThreadFails,
     CheckContainers, StopContainers, RecheckContainers, Abort, services, vars
  <2>2. HostStep(h) /\ Base
    BY <2>1 DEF HostStep, PlatformInv
  <2>3. action = "stop"
    BY <2>2, HostStarts, StartPlace DEF Base, Types, Services, StartFacts
  <2>4. step # 0
    BY <2>1, <2>2 DEF Settle, Base, InStep
  <2>5. step # 1
    BY <2>1, <2>2, <2>3, StopPlace DEF Settle, Base, InStep, StopFacts, Current
  <2>6. Past(1)
    BY <2>2, <2>4, <2>5 DEF Past, Base, Types
  <2> QED
    BY <2>3, <2>6 DEF PlatformInv, StopInv
<1> QED
  BY <1>1, PlatformInvariant, PTL DEF Spec, SavedBeforeStopped

(* Kubelet starts on no host before all that it needs does.                *)
THEOREM KubeletStartsLast == Spec => KubeletLast
<1>1. PlatformInv /\ [Next]_vars =>
        [running'["kubelet"] # running["kubelet"] /\ action = "start" =>
           /\ running["containerd"] = Hosts
           /\ running["etcd"] = Managers
           /\ cephSeenHealthy
           /\ flags = {}]_vars
  <2> SUFFICES ASSUME PlatformInv, Next, action = "start",
                      running'["kubelet"] # running["kubelet"]
               PROVE  /\ running["containerd"] = Hosts
                      /\ running["etcd"] = Managers
                      /\ cephSeenHealthy
                      /\ flags = {}
    BY DEF vars
  <2>1. PICK h \in Hosts : Settle(h)
    BY DEF Next, Stage, Finished, ServiceThread, ContainerThread, ContainersStart, NotVerified,
     NextStep, Prompt, ServiceStepEnds, ContainersStepEnds, SnapshotStepEnds, SnapshotHost,
     CephFails, FreezeStepEnds, CephHealthy, CephTimesOut, ToggleFlag, ServiceCommandFails,
     CheckService, StartOrStop, EnableOrDisable, PollService, ContainerThreadFails,
     CheckContainers, StopContainers, RecheckContainers, Abort, services, vars
  <2>2. HostStep(h) /\ Base
    BY <2>1 DEF HostStep, PlatformInv
  <2>3. step = 4
    BY <2>2, HostStarts, StartPlace DEF Base, Types, Services, StartFacts
  <2>4. Past(1) /\ Past(2) /\ Past(3)
    BY <2>3 DEF Past
  <2> QED
    BY <2>4 DEF PlatformInv, StartInv
<1> QED
  BY <1>1, PlatformInvariant, PTL DEF Spec, KubeletLast

(* A service that had to be changed is enabled or disabled as well by the  *)
(* time its change is seen (RemoteServiceWaiter).                          *)
THEOREM EnabledBeforeCompleted == Spec => EnabledWhenCompleted
<1>1. PlatformInv => \A h \in Hosts : thread[h] = "poll" =>
         /\ Current.enable = "enabled" => h \in enabled[Current.service]
         /\ Current.enable = "disabled" => h \notin enabled[Current.service]
  BY DEF PlatformInv, Base, Threads
<1>2. PlatformInv /\ [Next]_vars =>
        [\A h \in Hosts :
           thread[h] = "poll" /\ completed'[h] /\ ~ completed[h] =>
             /\ Current.enable = "enabled" => h \in enabled[Current.service]
             /\ Current.enable = "disabled" => h \notin enabled[Current.service]]_vars
  BY <1>1
<1> QED
  BY <1>2, PlatformInvariant, PTL DEF Spec, EnabledWhenCompleted
-----------------------------------------------------------------------------
(* The types of what the order above does not depend on.                   *)
OtherTypes ==
  /\ containers \subseteq Hosts
  /\ polls \in [Hosts -> 0 .. Timeout]
  /\ todo \subseteq Hosts \cup FreezeFlags
  /\ inactive \subseteq Managers /\ errors \subseteq Managers /\ saved \subseteq Managers
  /\ retried \in BOOLEAN /\ cephSeenHealthy \in BOOLEAN /\ agreed \in BOOLEAN
  /\ outcome \in {"none", "ok", "exit"}

LEMMA OtherTypesInit == Init => OtherTypes
<1> SUFFICES ASSUME Init PROVE OtherTypes
  OBVIOUS
<1>1. running["containerd"] \subseteq Hosts
  BY DEF Init, Services
<1>2. polls \in [Hosts -> 0 .. Timeout]
  BY PlatformAssumption DEF Init
<1> QED
  BY <1>1, <1>2 DEF Init, OtherTypes

LEMMA HostKeepsTypes ==
  ASSUME Base, OtherTypes, NEW h \in Hosts, HostStep(h)
  PROVE  OtherTypes'
<1>1. UNCHANGED <<todo, inactive, errors, retried, saved, cephSeenHealthy, agreed, outcome>>
  BY HostSteps DEF sequential, history
<1>2. containers' \subseteq Hosts
  BY DEF OtherTypes, HostStep, ServiceThread, ContainerThread, ContainersStart, ServiceCommandFails,
     CheckService, StartOrStop, EnableOrDisable, PollService, ContainerThreadFails, Settle,
     CheckContainers, StopContainers, RecheckContainers, services
<1>3. polls' \in [Hosts -> 0 .. Timeout]
  <2>1. CASE PollService(h)
    BY <2>1, PlatformAssumption DEF PollService, TimedOut, OtherTypes
  <2>2. CASE ~ PollService(h)
    BY <2>2 DEF OtherTypes, HostStep, ServiceThread, ContainerThread, ContainersStart,
       ServiceCommandFails, CheckService, StartOrStop, EnableOrDisable, ContainerThreadFails,
       Settle, CheckContainers, StopContainers, RecheckContainers, threads
  <2> QED
    BY <2>1, <2>2
<1> QED
  BY <1>1, <1>2, <1>3 DEF OtherTypes

LEMMA StageKeepsTypes ==
  ASSUME Base, OtherTypes, Stage
  PROVE  OtherTypes'
<1> USE DEF OtherTypes, services, threads, sequential, history, Abort, Exit
<1>1. CASE NextStep
  <2>1. CASE step = Len(Steps)
    BY <1>1, <2>1 DEF NextStep
  <2>2. CASE step # Len(Steps)
    <3>1. step + 1 \in 1 .. Len(Steps) /\ Steps[step + 1].hosts \subseteq Hosts
      <4>1. StepsFacts /\ step \in 0 .. Len(Steps)
        BY AllSteps DEF Base, Types
      <4> HIDE DEF Steps
      <4> QED
        BY <2>2, <4>1 DEF StepsFacts
    <3>2. /\ polls' = [h \in Hosts |-> 0] /\ inactive' = {} /\ errors' = {} /\ retried' = FALSE
          /\ todo' = FreezeFlags \/ todo' = Steps[step + 1].hosts
          /\ UNCHANGED <<containers, saved, cephSeenHealthy, agreed, outcome>>
      BY <1>1, <2>2 DEF NextStep
    <3>3. polls' \in [Hosts -> 0 .. Timeout]
      BY <3>2, PlatformAssumption
    <3> QED
      BY <3>1, <3>2, <3>3
  <2> QED
    BY <2>1, <2>2
<1>2. CASE NotVerified \/ Prompt
  BY <1>2 DEF NotVerified, Prompt
<1>3. CASE ServiceStepEnds \/ ContainersStepEnds \/ SnapshotStepEnds
  BY <1>3 DEF ServiceStepEnds, ContainersStepEnds, SnapshotStepEnds
<1>4. CASE \E m \in Managers : SnapshotHost(m)
  BY <1>4 DEF SnapshotHost
<1>5. CASE CephFails \/ FreezeStepEnds \/ CephHealthy \/ CephTimesOut
  BY <1>5 DEF CephFails, FreezeStepEnds, CephHealthy, CephTimesOut
<1>6. CASE \E f \in FreezeFlags : ToggleFlag(f)
  BY <1>6 DEF ToggleFlag
<1> QED
  BY <1>1, <1>2, <1>3, <1>4, <1>5, <1>6 DEF Stage

LEMMA OtherTypesNext == PlatformInv /\ OtherTypes /\ [Next]_vars => OtherTypes'
<1>1. UNCHANGED vars /\ OtherTypes => OtherTypes'
  BY DEF vars, OtherTypes
<1> QED
  BY <1>1, HostKeepsTypes, StageKeepsTypes DEF Next, Finished, HostStep, PlatformInv

(* The type invariant of the platform stages: orders are out for hosts     *)
(* only, no waiter polls after its timeout, and snapshots are of managers. *)
THEOREM PlatformTypeCorrect == Spec => []TypeOK
<1>1. PlatformInv /\ OtherTypes => TypeOK
  <2> SUFFICES ASSUME PlatformInv, OtherTypes PROVE TypeOK
    OBVIOUS
  <2>1. asked \subseteq Hosts
    <3>1. StepsFacts /\ step \in 0 .. Len(Steps)
      BY AllSteps DEF PlatformInv, Base, Types
    <3>2. asked # {} => step # 0 /\ asked \subseteq Current.hosts
      BY DEF PlatformInv, Base, InStep
    <3> HIDE DEF Steps
    <3> QED
      BY <3>1, <3>2 DEF StepsFacts, Current
  <2> QED
    BY <2>1 DEF PlatformInv, Base, Types, OtherTypes, TypeOK, Kinds
<1> QED
  BY <1>1, PlatformInvariant, OtherTypesInit, OtherTypesNext, PTL DEF Spec
=============================================================================
