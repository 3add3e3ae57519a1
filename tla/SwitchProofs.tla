---------------------------- MODULE SwitchProofs -----------------------------
(***************************************************************************)
(* Proofs about the maintenance of switches, for any ports, topics, BMCs   *)
(* and switches: what sat sensors reports is complete and final, sat diag  *)
(* forgets no task, a port has a policy that exists, and a swap that       *)
(* succeeds has changed all ports that it is about.                        *)
(***************************************************************************)
EXTENDS SwitchMaintenance, FiniteSetTheorems, TLAPS

-----------------------------------------------------------------------------
(* sat sensors.                                                            *)

ThreadPcs == {"none", "check", "connect", "stream", "ping", "sleep", "dead"}

SensorsInv ==
  /\ threadPc \in [Threads -> ThreadPcs]
  /\ heard \in [Threads -> SUBSET BMCs]
  /\ done \in [Threads -> BOOLEAN]
  /\ mainPc = "report" => \A t \in Threads : threadPc[t] \in {"none", "dead"}
  /\ \A t \in Threads : done[t] => heard[t] = BMCs \/ t \in quiet

LEMMA SensorsInvInit == Init => SensorsInv
  BY DEF Init, TelemetryInit, SensorsInv, ThreadPcs

LEMMA MainKeepsSensorsInv ==
  ASSUME SensorsInv, StartSensors \/ MainStep \/ Signal
  PROVE  SensorsInv'
<1>1. CASE StartSensors
  BY <1>1 DEF SensorsInv, StartSensors, thread
<1>2. CASE StartThread
  <2>1. threadPc' \in [Threads -> ThreadPcs]
    BY <1>2 DEF SensorsInv, StartThread, ThreadPcs
  <2>2. UNCHANGED <<heard, done, quiet>> /\ mainPc' # "report"
    BY <1>2 DEF StartThread
  <2> QED
    BY <2>1, <2>2 DEF SensorsInv
<1>3. CASE AllStarted
  BY <1>3 DEF SensorsInv, AllStarted, thread
<1>4. CASE EndWait
  BY <1>4 DEF SensorsInv, EndWait, thread
<1>5. CASE Join
  BY <1>5 DEF SensorsInv, Join, thread, AllJoined, Alive
<1>6. CASE Signal
  BY <1>6 DEF SensorsInv, Signal, thread
<1> QED
  BY <1>1, <1>2, <1>3, <1>4, <1>5, <1>6 DEF MainStep

\* A thread that takes a step is not through, so nothing has been reported.
LEMMA LiveThread ==
  ASSUME SensorsInv, NEW t \in Threads, ThreadStep(t)
  PROVE  mainPc # "report" /\ UNCHANGED Main
  BY DEF SensorsInv, ThreadStep, CheckRun, Connect, Event, StreamEnds, Ping, Awake, GiveUp

LEMMA ThreadKeepsSensorsInv ==
  ASSUME SensorsInv, NEW t \in Threads, ThreadStep(t)
  PROVE  SensorsInv'
<1>1. mainPc' # "report"
  BY LiveThread DEF Main
<1>2. threadPc' \in [Threads -> ThreadPcs]
  BY DEF SensorsInv, ThreadPcs, ThreadStep, CheckRun, Connect, Event, StreamEnds, Fails, Ping,
         Awake, GiveUp, StreamAnswers, PingAnswers
<1>3. heard' \in [Threads -> SUBSET BMCs]
  <2>1. CASE Event(t)
    BY <2>1 DEF SensorsInv, Event, SetSensors
  <2>2. CASE ~Event(t)
    BY <2>2 DEF SensorsInv, ThreadStep, CheckRun, Connect, StreamEnds, Ping, Awake, GiveUp
  <2> QED
    BY <2>1, <2>2
<1>4. /\ done' \in [Threads -> BOOLEAN]
      /\ \A u \in Threads : done'[u] => heard'[u] = BMCs \/ u \in quiet'
  <2>1. CASE CheckRun(t)
    BY <2>1 DEF SensorsInv, CheckRun, AmIDone
  <2>2. CASE Connect(t)
    BY <2>2 DEF SensorsInv, Connect, StreamAnswers
  <2>3. CASE Event(t)
    BY <2>3 DEF SensorsInv, Event, SetSensors
  <2>4. CASE StreamEnds(t) \/ Ping(t) \/ Awake(t) \/ GiveUp(t)
    BY <2>4 DEF SensorsInv, StreamEnds, Ping, Awake, GiveUp
  <2> QED
    BY <2>1, <2>2, <2>3, <2>4 DEF ThreadStep
<1> QED
  BY <1>1, <1>2, <1>3, <1>4 DEF SensorsInv

LEMMA SensorsInvNext == SensorsInv /\ [Next]_vars => SensorsInv'
<1> SUFFICES ASSUME SensorsInv, [Next]_vars
             PROVE  SensorsInv'
  OBVIOUS
<1>1. CASE TelemetryNext
  BY <1>1, MainKeepsSensorsInv, ThreadKeepsSensorsInv DEF TelemetryNext
<1>2. CASE UNCHANGED telemetry
  BY <1>2 DEF telemetry, thread, SensorsInv
<1> QED
  BY <1>1, <1>2 DEF Next, Sensors, Diagnose, Swap, Finished, vars

(* A topic that do_sensors does not warn about has sent data of every BMC, *)
(* unless its stream timed out before it sent anything.                    *)
THEOREM TopicsComplete == Spec => []UnwarnedTopicsAreComplete
<1>1. SensorsInv => UnwarnedTopicsAreComplete
  BY DEF SensorsInv, UnwarnedTopicsAreComplete, WarnedOfError, WarnedOfTimeout
<1> QED
  BY <1>1, SensorsInvInit, SensorsInvNext, PTL DEF Spec

(* Results are final once they are reported: by then all threads are joined.*)
THEOREM ReportFinal == Spec => ReportIsStable
<1>1. SensorsInv /\ [Next]_vars => [mainPc = "report" => UNCHANGED thread]_vars
  <2> SUFFICES ASSUME SensorsInv, Next, mainPc = "report"
               PROVE  UNCHANGED thread
    OBVIOUS
  <2>1. CASE TelemetryNext
    BY <2>1, LiveThread DEF TelemetryNext, MainStep, StartSensors, StartThread, AllStarted,
                            EndWait, Join, Signal
  <2>2. CASE UNCHANGED telemetry
    BY <2>2 DEF telemetry
  <2> QED
    BY <2>1, <2>2 DEF Next, Sensors, Diagnose, Swap, Finished, vars
<1> QED
  BY <1>1, SensorsInvInit, SensorsInvNext, PTL DEF Spec, ReportIsStable

-----------------------------------------------------------------------------
(* sat diag.                                                               *)

DiagTasks == {"idle", "pending", "refused", "New", "Running"} \cup Ended
Abandoned == {"Exception", "Timed Out"}

\* A switch that left the pool is abandoned; an end is recorded only as it was
\* read; and everything tracked is complete when the results are reported.
DiagInv ==
  /\ task \in [Switches -> DiagTasks]
  /\ taskstate \in [Switches -> TaskStates \cup DiagTasks]
  /\ toPoll \subseteq pool
  /\ diagPc = "launch" =>
       /\ pool = Switches
       /\ \A x \in Switches :
            task[x] # "idle" /\ taskstate[x] \in {"None", "New"} \cup Abandoned
  /\ diagPc \notin {"launch", "run"} => toPoll = {}
  /\ diagPc = "run" => \A x \in Switches : x \in pool \/ taskstate[x] \in Abandoned
  /\ \A x \in Switches : taskstate[x] \in Ended => task[x] = taskstate[x]
  /\ diagPc = "initiate" => \A x \in Switches : taskstate[x] = "None"
  /\ diagPc \in {"idle", "initiate", "launch", "run"} => result = "none"
  /\ result = "reported" => \A x \in Switches : taskstate[x] \in Complete

LEMMA DiagInvInit == Init => DiagInv
  BY DEF Init, DiagInit, DiagInv, DiagTasks, TaskStates, Complete, Ended

LEMMA TasksKeepDiagInv ==
  ASSUME DiagInv, NEW x \in Switches, TaskMoves(x)
  PROVE  DiagInv'
<1>1. task' \in [Switches -> DiagTasks]
  BY DEF DiagInv, TaskMoves, DiagTasks, Ended
<1>2. \A y \in Switches : taskstate'[y] \in Ended => task'[y] = taskstate'[y]
  BY DEF DiagInv, TaskMoves, Ended
<1>3. \A y \in Switches : task[y] # "idle" => task'[y] # "idle"
  BY DEF DiagInv, TaskMoves, Ended
<1>4. UNCHANGED <<diagPc, taskstate, pool, toPoll, result>>
  BY DEF TaskMoves
<1> QED
  BY <1>1, <1>2, <1>3, <1>4 DEF DiagInv

LEMMA PollKeepsDiagInv ==
  ASSUME DiagInv, NEW x \in Switches, PollDiag(x)
  PROVE  DiagInv'
<1> PICK state \in Answers(x), answered \in BOOLEAN :
      taskstate' = [taskstate EXCEPT ![x] = Settled(state, answered)]
  BY DEF PollDiag
<1> DEFINE s == Settled(state, answered)
<1>1. diagPc \in {"launch", "run"} /\ x \in pool
  BY DEF DiagInv, PollDiag
<1>2. CASE diagPc = "launch"
  <2>1. state \in {"None", "New", "Exception"}
    <3>1. task[x] \in DiagTasks /\ task[x] # "idle"
      BY <1>2 DEF DiagInv
    <3> QED
      BY <1>2, <3>1 DEF Answers, LaunchAnswers, DiagTasks, Ended
  <2>2. s \in {"None", "New"} \cup Abandoned
    BY <2>1 DEF Settled, Abandoned
  <2> QED
    BY <1>2, <2>2 DEF DiagInv, PollDiag, TaskStates, Complete, Ended, Abandoned
<1>3. CASE diagPc = "run"
  <2>1. state \in {task[x], "Exception"}
    BY <1>3 DEF Answers, StatusAnswers
  <2>2. s \in {task[x], "Exception", "Timed Out"}
    BY <2>1 DEF Settled
  <2> QED
    BY <1>1, <1>3, <2>2 DEF DiagInv, PollDiag, TaskStates, Complete, Ended, Abandoned, DiagTasks
<1> QED
  BY <1>1, <1>2, <1>3

LEMMA DiagStepKeepsDiagInv ==
  ASSUME DiagInv, StartDiag \/ DiagStep \/ TimePasses
  PROVE  DiagInv'
<1>1. CASE StartDiag
  BY <1>1 DEF DiagInv, StartDiag, DiagTasks, TaskStates, Ended
<1>2. CASE TimePasses
  BY <1>2 DEF DiagInv, TimePasses
<1>3. CASE InitiateDiag
  BY <1>3 DEF DiagInv, InitiateDiag, InitiateOutcomes, DiagTasks, Ended
<1>4. CASE BeginRound
  BY <1>4 DEF DiagInv, BeginRound, Unsettled
<1>5. CASE AllLaunched
  BY <1>5 DEF DiagInv, AllLaunched, Unsettled, Launched, Abandoned
<1>6. CASE AllComplete
  BY <1>6 DEF DiagInv, AllComplete, Unsettled, Abandoned, Complete
<1>7. CASE Cleanup
  BY <1>7 DEF DiagInv, Cleanup
<1>8. ASSUME NEW x \in Switches, PollDiag(x)
      PROVE  DiagInv'
  BY <1>8, PollKeepsDiagInv
<1>9. ASSUME NEW x \in Switches, PollCrashes(x)
      PROVE  DiagInv'
  BY <1>9 DEF DiagInv, PollCrashes
<1> QED
  BY <1>1, <1>2, <1>3, <1>4, <1>5, <1>6, <1>7, <1>8, <1>9 DEF DiagStep

LEMMA DiagInvNext == DiagInv /\ [Next]_vars => DiagInv'
<1> SUFFICES ASSUME DiagInv, [Next]_vars
             PROVE  DiagInv'
  OBVIOUS
<1>1. CASE DiagNext
  BY <1>1, TasksKeepDiagInv, DiagStepKeepsDiagInv DEF DiagNext
<1>2. CASE UNCHANGED diag
  BY <1>2 DEF diag, DiagInv
<1> QED
  BY <1>1, <1>2 DEF Next, Sensors, Diagnose, Swap, Finished, vars

(* When the results are reported, a task may go on only on a switch that   *)
(* was timed out or could not be queried, however tasks and polls          *)
(* interleave.                                                             *)
THEOREM TasksReported == Spec => []NoTaskForgotten
<1>1. DiagInv => NoTaskForgotten
  BY DEF DiagInv, NoTaskForgotten, Complete, Ended
<1> QED
  BY <1>1, DiagInvInit, DiagInvNext, PTL DEF Spec

-----------------------------------------------------------------------------
(* sat swap.                                                               *)

OwnPolicy(name) == [name |-> name, offline |-> FALSE]

\* The policies that the ports had at first stay, the data that was read is of
\* policies that exist, and so are those that the ports are about to be given.
PolicyInv ==
  /\ \A name \in Range(Online) : OwnPolicy(name) \in policies
  /\ policies \subseteq Policy
  /\ policy \in [Ports -> policies]
  /\ \A p \in DOMAIN found : found[p] \in policies
  /\ swapPc = "create" =>
       /\ request.action = "disable"
       /\ \A p \in DOMAIN found : found[p] \in todo \/ Offline(found[p]) \in policies
  /\ swapPc = "update" =>
       /\ todo \subseteq DOMAIN found
       /\ \A p \in DOMAIN found : NewPolicy(found[p]) \in policies

LEMMA NewPolicyIs ==
  ASSUME NEW q \in Policy
  PROVE  /\ request.action = "disable" => NewPolicy(q) = Offline(q)
         /\ request.action # "disable" => NewPolicy(q) = OwnPolicy(q.name)
<1>1. CASE request.action = "disable"
  <2>1. (request.action = "disable") = TRUE
    BY <1>1
  <2> QED
    BY <1>1, <2>1 DEF NewPolicy, Offline
<1>2. CASE request.action # "disable"
  <2>1. (request.action = "disable") = FALSE
    BY <1>2
  <2>2. NewPolicy(q) = [q EXCEPT !.offline = FALSE]
    BY <2>1 DEF NewPolicy
  <2> QED
    BY <1>2, <2>2 DEF OwnPolicy, Policy
<1> QED
  BY <1>1, <1>2

LEMMA OfflineIsPolicy ==
  ASSUME NEW q \in Policy
  PROVE  Offline(q) \in Policy /\ (q.offline => Offline(q) = q)
  BY DEF Offline, Policy

LEMMA PolicyInvInit == Init => PolicyInv
<1> SUFFICES ASSUME SwapInit
             PROVE  PolicyInv
  BY DEF Init
<1>1. \A p \in Ports : Online[p] \in Range(Online)
  BY PortSwapAssumption DEF Range
<1>2. policies = {OwnPolicy(name) : name \in Range(Online)}
  BY DEF SwapInit, OwnPolicy
<1>3. policy \in [Ports -> policies]
  BY <1>1, <1>2 DEF SwapInit, OwnPolicy
<1>4. policies \subseteq Policy
  <2>1. FALSE \in BOOLEAN
    OBVIOUS
  <2>2. \A name \in Range(Online) : OwnPolicy(name) \in Policy
    BY <2>1 DEF OwnPolicy, Policy
  <2> QED
    BY <1>2, <2>2
<1> QED
  BY <1>2, <1>3, <1>4 DEF PolicyInv, SwapInit

\* What is read of a port is its policy.
LEMMA PortData ==
  ASSUME NEW links \in SUBSET Ports, NEW broken, NEW d \in GetPortData(links, broken)
  PROVE  DOMAIN d = links /\ \A p \in links : d[p] = policy[p]
<1>1. \A p \in links : GetPort(p, broken) = {policy[p]}
  BY DEF GetPortData, GetPort
<1>2. d = [p \in links |-> CHOOSE q \in GetPort(p, broken) : TRUE]
  BY DEF GetPortData
<1> QED
  BY <1>1, <1>2

LEMMA SwitchDataIsRead ==
  ASSUME NEW document \in GetSwitch, NEW links \in document, NEW broken,
         NEW d \in SwitchData(links, broken)
  PROVE  \A p \in DOMAIN d : p \in Ports /\ d[p] = policy[p]
<1> DEFINE edge == GetPortData(links.edge, broken)
           fabric == GetPortData(links.fabric, broken)
<1>1. links.edge \subseteq Ports /\ links.fabric \subseteq Ports
  <2>1. EdgePorts \subseteq Ports /\ FabricPorts \subseteq Ports
    BY PortSwapAssumption
  <2>2. links.edge \in {EdgePorts, {}} /\ links.fabric \in {FabricPorts, {}}
    BY DEF GetSwitch
  <2> QED
    BY <2>1, <2>2
<1>2. \A e \in edge \cup fabric : DOMAIN e \subseteq Ports
  <2>1. \A e \in edge : DOMAIN e = links.edge
    BY <1>1, PortData
  <2>2. \A e \in fabric : DOMAIN e = links.fabric
    BY <1>1, PortData
  <2> QED
    BY <1>1, <2>1, <2>2
<1>3. d = [p \in UNION {DOMAIN e : e \in edge \cup fabric} |-> policy[p]]
  BY DEF SwitchData, JoinLists
<1> QED
  BY <1>2, <1>3

LEMMA CheckKeepsPolicyInv ==
  ASSUME PolicyInv, NEW data, CheckPorts(data), UNCHANGED <<policies, policy, request>>,
         \A d \in data : \A p \in DOMAIN d : p \in Ports /\ d[p] = policy[p]
  PROVE  PolicyInv'
<1>1. \A p \in DOMAIN found' : found'[p] \in policies
  BY DEF PolicyInv, CheckPorts
<1>2. CASE swapPc' = "idle"
  BY <1>1, <1>2 DEF PolicyInv
<1>3. CASE swapPc' = "update"
  <2>1. request.action = "enable" /\ todo' = DOMAIN found'
    BY <1>3 DEF CheckPorts, Exit
  <2>2. ASSUME NEW p \in DOMAIN found'
        PROVE  NewPolicy(found'[p]) \in policies
    <3>1. found'[p] \in Policy
      BY <1>1 DEF PolicyInv
    <3>2. NewPolicy(found'[p]) = OwnPolicy(found'[p].name) /\ found'[p].name \in Range(Online)
      BY <2>1, <3>1, NewPolicyIs DEF Policy
    <3> QED
      BY <3>2 DEF PolicyInv
  <2> QED
    BY <1>1, <1>3, <2>1, <2>2 DEF PolicyInv, NewPolicy
<1>4. CASE swapPc' = "create"
  <2>1. request.action = "disable" /\ todo' = Base(Range(found'))
    BY <1>4 DEF CheckPorts, Exit
  <2>2. ASSUME NEW p \in DOMAIN found', found'[p] \notin todo'
        PROVE  Offline(found'[p]) \in policies
    <3>1. found'[p] \in Policy /\ found'[p] \in Range(found')
      BY <1>1 DEF PolicyInv, Range
    <3>2. found'[p].offline
      BY <2>1, <2>2, <3>1 DEF Base
    <3> QED
      BY <1>1, <3>1, <3>2, OfflineIsPolicy
  <2> QED
    BY <1>1, <1>4, <2>1, <2>2 DEF PolicyInv
<1> QED
  BY <1>2, <1>3, <1>4 DEF CheckPorts, Exit

LEMMA CollectKeepsPolicyInv ==
  ASSUME PolicyInv, CollectSwitchPorts \/ CollectJackPorts
  PROVE  PolicyInv'
<1>1. CASE CollectSwitchPorts
  <2> PICK document \in GetSwitch, broken \in SUBSET (EdgePorts \cup FabricPorts) :
        CheckPorts(UNION {SwitchData(links, broken) : links \in document})
    BY <1>1 DEF CollectSwitchPorts
  <2>1. \A d \in UNION {SwitchData(links, broken) : links \in document} :
          \A p \in DOMAIN d : p \in Ports /\ d[p] = policy[p]
    BY SwitchDataIsRead
  <2> QED
    BY <1>1, <2>1, CheckKeepsPolicyInv DEF CollectSwitchPorts
<1>2. CASE CollectJackPorts
  <2> PICK rows \in LoadCables, ports \in GetPorts, broken \in SUBSET Ports :
        CheckPorts(IF ~JacksAccepted(rows) \/ ports = {} THEN {}
                   ELSE GetPortData(JackPorts(JacksToSwap(rows)), broken))
    BY <1>2 DEF CollectJackPorts
  <2> DEFINE links == JackPorts(JacksToSwap(rows))
  <2>1. links \subseteq Ports
    BY DEF JackPorts
  <2>2. \A d \in GetPortData(links, broken) : \A p \in DOMAIN d : p \in Ports /\ d[p] = policy[p]
    <3> HIDE DEF links
    <3> QED
      BY <2>1, PortData
  <2> QED
    BY <1>2, <2>2, CheckKeepsPolicyInv DEF CollectJackPorts
<1> QED
  BY <1>1, <1>2

\* No policy is deleted, and one that is taken for created exists.
LEMMA CreateOutcomesAre ==
  ASSUME NEW q \in Policy, NEW o \in CreateOutcomes(q)
  PROVE  /\ policies \subseteq o[1] /\ o[1] \subseteq policies \cup {Offline(q)}
         /\ o[2] => Offline(q) \in o[1]
<1> DEFINE grown == policies \cup {Offline(q)}
<1> PICK listed \in GetPortPolicies :
      o \in (IF listed = {} THEN {<<policies, FALSE>>}
             ELSE IF Offline(q) \in UNION listed THEN {<<policies, TRUE>>}
             ELSE {<<policies, FALSE>>} \cup ({grown} \X BOOLEAN))
  BY DEF CreateOutcomes
<1>1. UNION listed \subseteq policies
  BY DEF GetPortPolicies
<1>2. CASE o = <<policies, FALSE>>
  BY <1>2
<1>3. CASE o = <<policies, TRUE>> /\ Offline(q) \in UNION listed
  BY <1>1, <1>3
<1>4. CASE o \in {grown} \X BOOLEAN
  <2>1. o[1] = grown
    BY <1>4
  <2> QED
    BY <2>1
<1>5. o = <<policies, FALSE>> \/ (o = <<policies, TRUE>> /\ Offline(q) \in UNION listed)
        \/ o \in {grown} \X BOOLEAN
  <2> HIDE DEF grown
  <2> QED
    BY Zenon
<1> QED
  BY <1>2, <1>3, <1>4, <1>5

LEMMA CreateKeepsPolicyInv ==
  ASSUME PolicyInv, NEW q \in Policy, CreatePolicy(q)
  PROVE  PolicyInv'
<1> PICK o \in CreateOutcomes(q) :
      /\ policies' = o[1]
      /\ IF o[2] THEN todo' = todo \ {q} /\ UNCHANGED <<swapPc, exit>> ELSE Exit(4)
  BY DEF CreatePolicy
<1>1. policies \subseteq policies' /\ policies' \subseteq Policy
  BY CreateOutcomesAre, OfflineIsPolicy DEF PolicyInv
<1>2. policy' \in [Ports -> policies']
  BY <1>1 DEF PolicyInv, CreatePolicy
<1>3. swapPc' = "create" \/ swapPc' = "idle"
  BY DEF CreatePolicy, Exit
<1>4. swapPc' = "create" => todo' = todo \ {q} /\ Offline(q) \in policies'
  BY CreateOutcomesAre DEF Exit
<1>5. UNCHANGED <<found, request, policy>> /\ swapPc = "create"
  BY DEF CreatePolicy
<1>6. swapPc' = "create" =>
        \A p \in DOMAIN found : found[p] \in todo' \/ Offline(found[p]) \in policies'
  BY <1>1, <1>4, <1>5 DEF PolicyInv
<1> QED
  BY <1>1, <1>2, <1>3, <1>5, <1>6 DEF PolicyInv, Offline

LEMMA UpdateKeepsPolicyInv ==
  ASSUME PolicyInv, NEW p \in Ports, UpdatePort(p)
  PROVE  PolicyInv'
<1>1. swapPc = "update" /\ p \in DOMAIN found /\ NewPolicy(found[p]) \in policies
  BY DEF UpdatePort, PolicyInv
<1>2. policy' \in {policy, [policy EXCEPT ![p] = NewPolicy(found[p])]}
  <2> DEFINE given == [policy EXCEPT ![p] = NewPolicy(found[p])]
  <2> PICK o \in UpdateOutcomes(p) : policy' = o[1]
    BY DEF UpdatePort
  <2>1. o \in {<<policy, FALSE>>} \cup ({given} \X BOOLEAN)
    BY DEF UpdateOutcomes
  <2> HIDE DEF given
  <2>2. CASE o = <<policy, FALSE>>
    BY <2>2
  <2>3. CASE o \in {given} \X BOOLEAN
    <3>1. o[1] = given
      BY <2>3
    <3> QED
      BY <3>1 DEF given
  <2>4. o = <<policy, FALSE>> \/ o \in {given} \X BOOLEAN
    BY <2>1, Zenon
  <2> QED
    BY <2>2, <2>3, <2>4
<1>3. policy' \in [Ports -> policies]
  BY <1>1, <1>2 DEF PolicyInv
<1>4. UNCHANGED <<policies, found, request, swapPc>> /\ todo' \subseteq todo
  BY DEF UpdatePort
<1> QED
  BY <1>1, <1>3, <1>4 DEF PolicyInv, NewPolicy

LEMMA PolicyInvNext == PolicyInv /\ [Next]_vars => PolicyInv'
<1> SUFFICES ASSUME PolicyInv, [Next]_vars
             PROVE  PolicyInv'
  OBVIOUS
<1>1. ASSUME NEW r \in Requests, StartSwap(r)
      PROVE  PolicyInv'
  BY <1>1 DEF PolicyInv, StartSwap
<1>2. CASE PoliciesCreated
  <2>1. ASSUME NEW p \in DOMAIN found
        PROVE  NewPolicy(found[p]) \in policies
    <3>1. request.action = "disable" /\ Offline(found[p]) \in policies /\ found[p] \in Policy
      BY <1>2 DEF PoliciesCreated, PolicyInv
    <3> QED
      BY <3>1, NewPolicyIs
  <2> QED
    BY <1>2, <2>1 DEF PoliciesCreated, PolicyInv, NewPolicy
<1>3. CASE PortsUpdated
  BY <1>3 DEF PortsUpdated, Exit, PolicyInv
<1>4. CASE UNCHANGED swap
  BY <1>4 DEF swap, PolicyInv, NewPolicy
<1>5. CASE SwapNext
  BY <1>1, <1>2, <1>3, <1>5, CollectKeepsPolicyInv, CreateKeepsPolicyInv, UpdateKeepsPolicyInv
  DEF SwapNext, SwapStep
<1> QED
  BY <1>4, <1>5 DEF Next, Sensors, Diagnose, Swap, Finished, vars

(* A port has a policy that exists, although policies and ports are        *)
(* changed one at a time and every request may fail or be served without an*)
(* answer.                                                                 *)
THEOREM PoliciesAreThere == Spec => []PoliciesExist
<1>1. PolicyInv => PoliciesExist
  BY DEF PolicyInv, PoliciesExist
<1> QED
  BY <1>1, PolicyInvInit, PolicyInvNext, PTL DEF Spec

(* The ports of a swap that succeeds.                                      *)

\* A jack is an end of one cable: rows of the point-to-point file that name the
\* same jack are of the same cable.
OneCablePerJack ==
  \A i, k \in DOMAIN Cables : \A j \in Jacks :
    j \in Cables[i] /\ j \in Cables[k] => Cables[i] = Cables[k]

\* Every set of naturals has a least element.
LEMMA Least ==
  ASSUME NEW T \in SUBSET Nat, T # {}
  PROVE  \E x \in T : \A y \in T : x <= y
<1> DEFINE R == StrictSubsetOrdering(Nat)
           U == {1 .. x : x \in T}
<1>1. IsWellFoundedOn(R, FiniteSubsetsOf(Nat))
  BY FS_StrictSubsetOrderingWellFounded
<1>2. U \subseteq FiniteSubsetsOf(Nat) /\ U # {}
  <2>1. \A x \in T : 1 .. x \in SUBSET Nat /\ IsFiniteSet(1 .. x)
    BY FS_Interval
  <2> QED
    BY <2>1 DEF FiniteSubsetsOf
<1>3. \E u \in U : \A v \in U : <<v, u>> \notin R
  <2> HIDE DEF R, U
  <2> QED
    BY <1>1, <1>2, WFMin
<1>4. PICK x \in T : \A y \in T : <<1 .. y, 1 .. x>> \notin R
  BY <1>3
<1>5. ASSUME NEW y \in T, y < x
      PROVE  FALSE
  <2>1. 1 .. y \subseteq 1 .. x /\ x \in 1 .. x /\ x \notin 1 .. y
    BY <1>5
  <2>2. <<1 .. y, 1 .. x>> \in R
    BY <2>1 DEF StrictSubsetOrdering
  <2> QED
    BY <1>4, <2>2
<1> QED
  BY <1>5

\* All ends of the cables that a jack belongs to.
CableOf(j) == UNION {ends \in Range(Cables) : j \in ends}

\* The first cable in which a jack is found is all that the file says of it.
LEMMA CableFound ==
  ASSUME OneCablePerJack, NEW j \in Jacks
  PROVE  CableOf(j) = UNION GetCable(Cables, j)
<1> DEFINE with == {i \in DOMAIN Cables : j \in Cables[i]}
<1>1. with \subseteq Nat
  BY PortSwapAssumption
<1>2. GetCable(Cables, j) = {Cables[i] : i \in {k \in with : \A n \in with : k <= n}}
  BY DEF GetCable
<1>3. \A i, k \in with : Cables[i] = Cables[k]
  BY DEF OneCablePerJack
<1>4. {ends \in Range(Cables) : j \in ends} = {Cables[i] : i \in with}
  BY DEF Range
<1>5. GetCable(Cables, j) = {Cables[i] : i \in with}
  <2>1. CASE with = {}
    BY <1>2, <2>1
  <2>2. CASE with # {}
    <3> PICK i \in with : \A n \in with : i <= n
      <4> HIDE DEF with
      <4> QED
        BY <1>1, <2>2, Least
    <3> QED
      BY <1>2, <1>3
  <2> QED
    BY <2>1, <2>2
<1> QED
  BY <1>4, <1>5 DEF CableOf

\* The jacks whose ports are to be changed are among those whose ports are.
LEMMA JacksCovered ==
  ASSUME OneCablePerJack, request.target = "cable", request.force \in BOOLEAN,
         NEW rows \in LoadCables, JacksAccepted(rows)
  PROVE  ToSwap \subseteq JackPorts(JacksToSwap(rows))
<1> DEFINE linked == UNION {LinkedJacks(r, j) : r \in rows, j \in request.jacks}
           inFile == {j \in request.jacks : CableOf(j) # {}}
<1>1. request.jacks \subseteq Jacks
  BY DEF JacksAccepted
<1>2. rows = {} \/ rows = {Cables}
  BY DEF LoadCables
<1>3. rows = {Cables} => linked = (UNION {CableOf(j) : j \in request.jacks}) \cap Jacks
  <2>1. \A j \in request.jacks : LinkedJacks(Cables, j) = CableOf(j) \cap Jacks
    BY <1>1, CableFound DEF LinkedJacks
  <2>2. rows = {Cables} => linked = UNION {LinkedJacks(Cables, j) : j \in request.jacks}
    OBVIOUS
  <2> QED
    BY <2>1, <2>2
<1>4. \A j \in inFile : j \in CableOf(j)
  BY DEF CableOf
<1>5. JacksToSwap(rows) = IF linked = {} THEN request.jacks ELSE linked
  BY DEF JacksToSwap
<1>6. \A p \in Ports : Jack[p] \in Jacks
  BY PortSwapAssumption
<1>7. CASE request.force
  <2>1. ToSwap = JackPorts(IF inFile = {} THEN request.jacks ELSE inFile)
    BY <1>7 DEF ToSwap, CableOf
  <2>2. CASE rows = {}
    BY <1>5, <2>1, <2>2 DEF JackPorts
  <2>3. CASE rows = {Cables} /\ inFile = {}
    <3>1. linked = {}
      BY <1>3, <2>3
    <3> QED
      BY <1>5, <2>1, <2>3, <3>1 DEF JackPorts
  <2>4. CASE rows = {Cables} /\ inFile # {}
    <3>1. inFile \subseteq linked
      BY <1>1, <1>3, <1>4, <2>4
    <3> QED
      BY <1>5, <2>1, <2>4, <3>1 DEF JackPorts
  <2> QED
    BY <1>2, <2>2, <2>3, <2>4
<1>8. CASE ~request.force
  <2>1. ToSwap = JackPorts(UNION {CableOf(j) : j \in request.jacks})
    BY <1>8 DEF ToSwap, CableOf
  <2>2. rows = {Cables}
    BY <1>2, <1>8 DEF JacksAccepted
  <2>3. ToSwap = JackPorts(linked)
    BY <1>3, <1>6, <2>1, <2>2 DEF JackPorts
  <2>4. linked # {} => ToSwap \subseteq JackPorts(JacksToSwap(rows))
    BY <1>5, <2>3
  <2>5. linked = {} => ToSwap = {}
    BY <2>3 DEF JackPorts
  <2> QED
    BY <2>4, <2>5
<1> QED
  BY <1>7, <1>8

\* Whether a port is as the action wants it.
Suited(p) == policy[p].offline = (request.action = "disable")

\* The ports to be changed are among those found, and those that were found and
\* are no longer to do are as the action wants them unless an update failed.
SwapInv ==
  /\ request.target \in {"switch", "cable"}
  /\ request.target = "cable" => request.force \in BOOLEAN
  /\ swapPc \in {"create", "update"} => ToSwap \subseteq DOMAIN found
  /\ swapPc = "update" /\ success => \A p \in DOMAIN found \ todo : Suited(p)
  /\ swapPc = "idle" /\ exit = 0 /\ request.action \in Actions => \A p \in ToSwap : Suited(p)

LEMMA SwapInvInit == Init => SwapInv
  BY DEF Init, SwapInit, SwapInv, Actions

LEMMA CheckKeepsSwapInv ==
  ASSUME SwapInv, NEW data, CheckPorts(data), UNCHANGED request,
         found' \in data => ToSwap' \subseteq DOMAIN found'
  PROVE  SwapInv'
<1>1. swapPc' = "idle" => exit' # 0 \/ request.action = "none"
  BY DEF CheckPorts, Exit
<1>2. swapPc' # "idle" => found' \in data /\ (swapPc' = "update" => todo' = DOMAIN found')
  BY DEF CheckPorts, Exit
<1> QED
  BY <1>1, <1>2 DEF SwapInv, Actions

LEMMA CollectKeepsSwapInv ==
  ASSUME OneCablePerJack, SwapInv, CollectSwitchPorts \/ CollectJackPorts
  PROVE  SwapInv'
<1>1. CASE CollectSwitchPorts
  <2>1. ToSwap' \subseteq DOMAIN found'
    BY <1>1 DEF CollectSwitchPorts, ToSwap
  <2> QED
    BY <1>1, <2>1, CheckKeepsSwapInv DEF CollectSwitchPorts
<1>2. CASE CollectJackPorts
  <2> PICK rows \in LoadCables, ports \in GetPorts, broken \in SUBSET Ports :
        CheckPorts(IF ~JacksAccepted(rows) \/ ports = {} THEN {}
                   ELSE GetPortData(JackPorts(JacksToSwap(rows)), broken))
    BY <1>2 DEF CollectJackPorts
  <2> DEFINE links == JackPorts(JacksToSwap(rows))
             data == IF ~JacksAccepted(rows) \/ ports = {} THEN {}
                     ELSE GetPortData(links, broken)
  <2>1. ASSUME found' \in data
        PROVE  ToSwap' \subseteq DOMAIN found'
    <3>1. JacksAccepted(rows) /\ found' \in GetPortData(links, broken)
      BY <2>1
    <3>2. links \in SUBSET Ports
      BY DEF JackPorts
    <3>3. DOMAIN found' = links
      <4> HIDE DEF links
      <4> QED
        BY <3>1, <3>2, PortData
    <3>4. ToSwap \subseteq links
      BY <1>2, <3>1, JacksCovered DEF CollectJackPorts, SwapInv
    <3>5. ToSwap' = ToSwap
      BY <1>2 DEF CollectJackPorts, ToSwap, JackPorts
    <3> QED
      BY <3>3, <3>4, <3>5
  <2>2. UNCHANGED request /\ CheckPorts(data)
    BY <1>2 DEF CollectJackPorts
  <2> HIDE DEF data
  <2> QED
    BY <2>1, <2>2, CheckKeepsSwapInv
<1> QED
  BY <1>1, <1>2

LEMMA UpdateKeepsSwapInv ==
  ASSUME PolicyInv, SwapInv, NEW p \in Ports, UpdatePort(p)
  PROVE  SwapInv'
<1> PICK o \in UpdateOutcomes(p) : policy' = o[1] /\ success' = (success /\ o[2])
  BY DEF UpdatePort
<1>1. /\ UNCHANGED <<swapPc, request, found, unread>> /\ swapPc = "update"
      /\ todo' = todo \ {p} /\ p \in DOMAIN found
  BY DEF UpdatePort, PolicyInv
<1>2. ToSwap' = ToSwap
  BY <1>1 DEF ToSwap, JackPorts
<1>3. ASSUME success'
      PROVE  success /\ policy' = [policy EXCEPT ![p] = NewPolicy(found[p])]
  <2> DEFINE given == [policy EXCEPT ![p] = NewPolicy(found[p])]
  <2>1. success /\ o[2]
    BY <1>3, Zenon
  <2>2. o \in {<<policy, FALSE>>} \cup ({given} \X BOOLEAN)
    BY DEF UpdateOutcomes
  <2> HIDE DEF given
  <2>3. o # <<policy, FALSE>>
    <3>1. o = <<policy, FALSE>> => o[2] = FALSE
      OBVIOUS
    <3> QED
      BY <2>1, <3>1
  <2>4. o \in {given} \X BOOLEAN
    BY <2>2, <2>3, Zenon
  <2>5. o[1] = given
    BY <2>4
  <2> QED
    BY <2>1, <2>5 DEF given
<1>4. NewPolicy(found[p]).offline = (request.action = "disable")
  BY <1>1 DEF PolicyInv, NewPolicy, Policy
<1>5. ASSUME success', NEW q \in DOMAIN found \ todo'
      PROVE  Suited(q)'
  <2>1. UNCHANGED request /\ success /\ policy' = [policy EXCEPT ![p] = NewPolicy(found[p])]
    BY <1>1, <1>3, <1>5
  <2>2. CASE q = p
    BY <1>4, <2>1, <2>2 DEF Suited, PolicyInv
  <2>3. CASE q # p
    <3>1. Suited(q)
      BY <1>1, <1>5, <2>1, <2>3 DEF SwapInv
    <3>2. policy'[q] = policy[q]
      BY <2>1, <2>3 DEF PolicyInv
    <3> QED
      BY <2>1, <3>1, <3>2 DEF Suited
  <2> QED
    BY <2>2, <2>3
<1> QED
  BY <1>1, <1>2, <1>5 DEF SwapInv

LEMMA SwapInvNext == OneCablePerJack /\ PolicyInv /\ SwapInv /\ [Next]_vars => SwapInv'
<1> SUFFICES ASSUME OneCablePerJack, PolicyInv, SwapInv, [Next]_vars
             PROVE  SwapInv'
  OBVIOUS
<1>1. ASSUME NEW r \in Requests, StartSwap(r)
      PROVE  SwapInv'
  BY <1>1 DEF SwapInv, StartSwap, Requests
<1>2. ASSUME NEW q \in Policy, CreatePolicy(q)
      PROVE  SwapInv'
  BY <1>2 DEF SwapInv, CreatePolicy, Exit, ToSwap, JackPorts
<1>3. CASE PoliciesCreated
  BY <1>3 DEF SwapInv, PoliciesCreated, ToSwap, JackPorts
<1>4. CASE PortsUpdated
  BY <1>4 DEF SwapInv, PortsUpdated, Exit, ToSwap, JackPorts, Suited
<1>5. CASE UNCHANGED swap
  BY <1>5 DEF SwapInv, swap, ToSwap, JackPorts, Suited
<1>6. CASE SwapNext
  BY <1>1, <1>2, <1>3, <1>4, <1>6, CollectKeepsSwapInv, UpdateKeepsSwapInv DEF SwapNext, SwapStep
<1> QED
  BY <1>5, <1>6 DEF Next, Sensors, Diagnose, Swap, Finished, vars

(* A swap that succeeds has changed every port that it is about, although  *)
(* each port is read and changed by requests of its own that may fail,     *)
(* provided that the cabling file names a jack in one cable only.          *)
THEOREM SwapsComplete == OneCablePerJack /\ Spec => []SuccessIsComplete
<1>1. OneCablePerJack /\ PolicyInv /\ SwapInv /\ [Next]_vars => SwapInv'
  BY SwapInvNext
<1>2. SwapInv => SuccessIsComplete
  BY DEF SwapInv, SuccessIsComplete, Succeeded, Suited
<1>3. CASE OneCablePerJack
  BY <1>1, <1>2, <1>3, PolicyInvInit, PolicyInvNext, SwapInvInit, PTL DEF Spec
<1> QED
  BY <1>3
-----------------------------------------------------------------------------
(* The types of the three commands.                                        *)

LEMMA CheckKeepsSwapTypes ==
  ASSUME PolicyInv, SwapTypeOK, NEW data, CheckPorts(data),
         UNCHANGED <<policies, policy, request, success, swaps>>,
         unread' \subseteq EdgePorts \cup FabricPorts,
         \A d \in data : \A p \in DOMAIN d : p \in Ports /\ d[p] = policy[p]
  PROVE  SwapTypeOK'
<1>1. found' = found \/ found' \in data
  BY DEF CheckPorts
<1>2. DOMAIN found' \subseteq Ports /\ \A p \in DOMAIN found' : found'[p] \in Policy
  BY <1>1 DEF SwapTypeOK
<1>3. \/ swapPc' = "idle" /\ exit' \in 0 .. 5 /\ todo' = {}
      \/ swapPc' = "update" /\ exit' = exit /\ todo' = DOMAIN found'
      \/ /\ swapPc' = "create" /\ exit' = exit /\ found' \in data
         /\ todo' = Base(Range(found'))
  BY DEF CheckPorts, Exit
<1>4. swapPc' = "create" => todo' \subseteq policies
  BY <1>3 DEF Base, Range, PolicyInv
<1> QED
  BY <1>2, <1>3, <1>4 DEF SwapTypeOK

LEMMA CollectKeepsSwapTypes ==
  ASSUME PolicyInv, SwapTypeOK, CollectSwitchPorts \/ CollectJackPorts
  PROVE  SwapTypeOK'
<1>1. CASE CollectSwitchPorts
  <2> PICK document \in GetSwitch, broken \in SUBSET (EdgePorts \cup FabricPorts) :
        CheckPorts(UNION {SwitchData(links, broken) : links \in document})
    BY <1>1 DEF CollectSwitchPorts
  <2>1. \A d \in UNION {SwitchData(links, broken) : links \in document} :
          \A p \in DOMAIN d : p \in Ports /\ d[p] = policy[p]
    BY SwitchDataIsRead
  <2>2. UNCHANGED <<policies, policy, request, success, swaps>>
        /\ unread' \subseteq EdgePorts \cup FabricPorts
    BY <1>1 DEF CollectSwitchPorts
  <2> QED
    BY <2>1, <2>2, CheckKeepsSwapTypes
<1>2. CASE CollectJackPorts
  <2> PICK rows \in LoadCables, ports \in GetPorts, broken \in SUBSET Ports :
        CheckPorts(IF ~JacksAccepted(rows) \/ ports = {} THEN {}
                   ELSE GetPortData(JackPorts(JacksToSwap(rows)), broken))
    BY <1>2 DEF CollectJackPorts
  <2> DEFINE links == JackPorts(JacksToSwap(rows))
  <2>1. links \subseteq Ports
    BY DEF JackPorts
  <2>2. \A d \in GetPortData(links, broken) : \A p \in DOMAIN d : p \in Ports /\ d[p] = policy[p]
    <3> HIDE DEF links
    <3> QED
      BY <2>1, PortData
  <2>3. UNCHANGED <<policies, policy, request, success, unread, swaps>>
    BY <1>2 DEF CollectJackPorts
  <2>4. unread' \subseteq EdgePorts \cup FabricPorts
    BY <2>3 DEF SwapTypeOK
  <2> QED
    BY <2>2, <2>3, <2>4, CheckKeepsSwapTypes
<1> QED
  BY <1>1, <1>2

LEMMA SwapTypesInit == Init => SwapTypeOK
<1> SUFFICES ASSUME Init PROVE SwapTypeOK
  OBVIOUS
<1>1. PolicyInv
  BY PolicyInvInit
<1>2. policy \in [Ports -> Policy] /\ policies \subseteq Policy
  BY <1>1 DEF PolicyInv
<1>3. [target |-> "switch", action |-> "none"] \in Requests
  BY DEF Requests, Actions
<1> QED
  BY <1>2, <1>3, PortSwapAssumption DEF Init, SwapInit, SwapTypeOK

LEMMA SwapTypesNext == PolicyInv /\ SwapTypeOK /\ [Next]_vars => SwapTypeOK'
<1> SUFFICES ASSUME PolicyInv, SwapTypeOK, [Next]_vars PROVE SwapTypeOK'
  OBVIOUS
<1>1. ASSUME NEW r \in Requests, StartSwap(r)
      PROVE  SwapTypeOK'
  BY <1>1, PortSwapAssumption DEF StartSwap, SwapTypeOK
<1>2. ASSUME NEW q \in Policy, CreatePolicy(q)
      PROVE  SwapTypeOK'
  <2> PICK o \in CreateOutcomes(q) :
        /\ policies' = o[1]
        /\ IF o[2] THEN todo' = todo \ {q} /\ UNCHANGED <<swapPc, exit>> ELSE Exit(4)
    BY <1>2 DEF CreatePolicy
  <2>1. policies \subseteq policies' /\ policies' \subseteq Policy
    BY CreateOutcomesAre, OfflineIsPolicy DEF PolicyInv
  <2>2. /\ UNCHANGED <<policy, request, found, success, unread, swaps>>
        /\ swapPc = "create"
        /\ \/ todo' \subseteq todo /\ UNCHANGED <<swapPc, exit>>
           \/ todo' = {} /\ swapPc' = "idle" /\ exit' = 4
    BY <1>2 DEF CreatePolicy, Exit
  <2> QED
    BY <2>1, <2>2 DEF SwapTypeOK
<1>3. CASE PoliciesCreated
  BY <1>3 DEF PoliciesCreated, SwapTypeOK
<1>4. ASSUME NEW p \in Ports, UpdatePort(p)
      PROVE  SwapTypeOK'
  <2>1. PolicyInv'
    BY <1>4, UpdateKeepsPolicyInv
  <2>2. policy' \in [Ports -> Policy]
    BY <2>1 DEF PolicyInv
  <2>3. success' \in BOOLEAN
    <3> PICK o \in UpdateOutcomes(p) : success' = (success /\ o[2])
      BY <1>4 DEF UpdatePort
    <3> QED
      BY Zenon
  <2>4. UNCHANGED <<policies, swapPc, request, found, exit, unread, swaps>> /\ todo' \subseteq todo
    BY <1>4 DEF UpdatePort
  <2> QED
    BY <2>2, <2>3, <2>4 DEF SwapTypeOK
<1>5. CASE PortsUpdated
  BY <1>5 DEF PortsUpdated, Exit, SwapTypeOK
<1>6. CASE UNCHANGED swap
  BY <1>6 DEF swap, SwapTypeOK
<1>7. CASE SwapNext
  BY <1>1, <1>2, <1>3, <1>4, <1>5, <1>7, CollectKeepsSwapTypes DEF SwapNext, SwapStep
<1> QED
  BY <1>6, <1>7 DEF Next, Sensors, Diagnose, Swap, Finished, vars

LEMMA TelemetryTypesInit == Init => TelemetryTypeOK
<1> SUFFICES ASSUME Init PROVE TelemetryTypeOK
  OBVIOUS
<1>1. next \in 1..Len(Topics) + 1 /\ retries \in [Threads -> 0..ReconnectRetries]
  BY TelemetryAssumption DEF Init, TelemetryInit
<1>2. done \in [Threads -> BOOLEAN] /\ apiError \in [Threads -> BOOLEAN]
  BY DEF Init, TelemetryInit
<1>3. heard \in [Threads -> SUBSET BMCs] /\ sensors \in [Threads -> SUBSET BMCs]
  BY DEF Init, TelemetryInit
<1> QED
  BY <1>1, <1>2, <1>3 DEF Init, TelemetryInit, TelemetryTypeOK

LEMMA TelemetryTypesNext == SensorsInv /\ TelemetryTypeOK /\ [Next]_vars => TelemetryTypeOK'
<1> SUFFICES ASSUME SensorsInv, TelemetryTypeOK, [Next]_vars PROVE TelemetryTypeOK'
  OBVIOUS
<1>1. /\ threadPc' \in [Threads -> ThreadPcs]
      /\ heard' \in [Threads -> SUBSET BMCs]
      /\ done' \in [Threads -> BOOLEAN]
  BY SensorsInvNext DEF SensorsInv
<1>2. CASE StartSensors \/ MainStep \/ Signal
  <2>1. Len(Topics) \in Nat
    BY TelemetryAssumption
  <2>2. UNCHANGED <<untilTimeout, retries, sensors, apiError, quiet>>
    BY <1>2 DEF StartSensors, MainStep, StartThread, AllStarted, EndWait, Join, Signal, thread
  <2>3. /\ mainPc' \in {"idle", "start", "wait", "join", "report", "exit"}
        /\ next' \in 1..Len(Topics) + 1
        /\ ending' \in {"none", "timeout", "interrupt", "no_ping"}
        /\ stopEvent' \in BOOLEAN
    <3> USE DEF TelemetryTypeOK
    <3>1. CASE StartSensors \/ AllStarted \/ Signal
      BY <3>1 DEF StartSensors, AllStarted, Signal
    <3>2. CASE StartThread
      BY <2>1, <3>2 DEF StartThread, PingAnswers
    <3>3. CASE EndWait
      BY <3>3 DEF EndWait
    <3>4. CASE Join
      BY <3>4 DEF Join
    <3> QED
      BY <1>2, <3>1, <3>2, <3>3, <3>4 DEF MainStep
  <2> QED
    BY <1>1, <2>2, <2>3 DEF TelemetryTypeOK, ThreadPcs
<1>3. ASSUME NEW t \in Threads, ThreadStep(t)
      PROVE  TelemetryTypeOK'
  <2>1. UNCHANGED Main
    BY <1>3, LiveThread
  <2>2. retries' \in [Threads -> 0..ReconnectRetries]
    <3>1. CASE Ping(t)
      BY <3>1, TelemetryAssumption DEF TelemetryTypeOK, Ping, MayPing
    <3>2. CASE ~Ping(t)
      BY <1>3, <3>2 DEF TelemetryTypeOK, ThreadStep, CheckRun, Connect, Event, StreamEnds, Awake,
                        GiveUp
    <3> QED
      BY <3>1, <3>2
  <2>3. sensors' \in [Threads -> SUBSET BMCs]
    <3>1. CASE Event(t)
      BY <3>1 DEF TelemetryTypeOK, Event, SetSensors
    <3>2. CASE ~Event(t)
      BY <1>3, <3>2 DEF TelemetryTypeOK, ThreadStep, CheckRun, Connect, StreamEnds, Ping, Awake,
                        GiveUp
    <3> QED
      BY <3>1, <3>2
  <2>4. apiError' \in [Threads -> BOOLEAN] /\ quiet' \subseteq Threads
    <3>1. CASE Connect(t)
      BY <3>1 DEF TelemetryTypeOK, Connect
    <3>2. CASE GiveUp(t)
      BY <3>2 DEF TelemetryTypeOK, GiveUp
    <3>3. CASE CheckRun(t) \/ Event(t) \/ StreamEnds(t) \/ Ping(t) \/ Awake(t)
      BY <3>3 DEF TelemetryTypeOK, CheckRun, Event, StreamEnds, Ping, Awake
    <3> QED
      BY <1>3, <3>1, <3>2, <3>3 DEF ThreadStep
  <2> QED
    BY <1>1, <2>1, <2>2, <2>3, <2>4 DEF Main, TelemetryTypeOK, ThreadPcs
<1>4. CASE UNCHANGED telemetry
  BY <1>4 DEF telemetry, thread, TelemetryTypeOK
<1>5. CASE TelemetryNext
  BY <1>2, <1>3, <1>5 DEF TelemetryNext
<1> QED
  BY <1>4, <1>5 DEF Next, Sensors, Diagnose, Swap, Finished, vars

\* A task that a launched diagnostic is polled for has begun, so that its state
\* is one that the report knows.
Begun == {"New", "Running"} \cup Ended

DiagTypeInv ==
  /\ DiagTypeOK
  /\ diagPc = "launch" => \A x \in Switches : taskstate[x] = "New" => task[x] \in Begun
  /\ diagPc = "run" => \A x \in pool : task[x] \in Begun

LEMMA DiagTypesInit == Init => DiagTypeInv
  BY DEF Init, DiagInit, DiagTypeInv, DiagTypeOK, TaskStates

LEMMA PollKeepsDiagTypes ==
  ASSUME DiagInv, DiagTypeInv, NEW x \in Switches, PollDiag(x)
  PROVE  DiagTypeInv'
<1> PICK state \in Answers(x), answered \in BOOLEAN :
      taskstate' = [taskstate EXCEPT ![x] = Settled(state, answered)]
  BY DEF PollDiag
<1> DEFINE s == Settled(state, answered)
<1>1. diagPc \in {"launch", "run"} /\ x \in pool
  BY DEF DiagInv, PollDiag
<1>2. UNCHANGED <<diagPc, job, task, pool, timeUp, late, inTime, result>> /\ toPoll' \subseteq toPoll
  BY DEF PollDiag
<1>3. CASE diagPc = "launch"
  <2>1. state \in {"None", "New", "Exception"} /\ (state = "New" => task[x] \in Begun)
    <3>1. task[x] \in DiagTasks /\ task[x] # "idle"
      BY <1>3 DEF DiagInv
    <3> QED
      BY <1>3, <3>1 DEF Answers, LaunchAnswers, DiagTasks, Ended, Begun
  <2>2. s \in TaskStates /\ (s = "New" => task[x] \in Begun)
    BY <2>1 DEF Settled, TaskStates, Complete
  <2> QED
    BY <1>2, <1>3, <2>2 DEF DiagTypeInv, DiagTypeOK
<1>4. CASE diagPc = "run"
  <2>1. state \in Begun \cup {"Exception"}
    BY <1>1, <1>4 DEF Answers, StatusAnswers, DiagTypeInv
  <2>2. s \in TaskStates
    BY <2>1 DEF Settled, TaskStates, Complete, Begun, Ended
  <2> QED
    BY <1>2, <1>4, <2>2 DEF DiagTypeInv, DiagTypeOK
<1> QED
  BY <1>1, <1>3, <1>4

LEMMA DiagTypesNext == DiagInv /\ DiagTypeInv /\ [Next]_vars => DiagTypeInv'
<1> SUFFICES ASSUME DiagInv, DiagTypeInv, [Next]_vars PROVE DiagTypeInv'
  OBVIOUS
<1> USE DEF DiagTypeInv, DiagTypeOK
<1>1. CASE StartDiag
  BY <1>1 DEF StartDiag, TaskStates
<1>2. CASE TimePasses
  BY <1>2 DEF TimePasses
<1>3. CASE InitiateDiag
  <2>1. \A x \in Switches : taskstate[x] = "None"
    BY <1>3 DEF DiagInv, InitiateDiag
  <2>2. toPoll = {}
    BY <1>3 DEF DiagInv, InitiateDiag
  <2> QED
    BY <1>3, <2>1, <2>2 DEF InitiateDiag, InitiateOutcomes
<1>4. CASE BeginRound
  BY <1>4 DEF BeginRound, Unsettled
<1>5. CASE AllLaunched
  BY <1>5 DEF AllLaunched, Launched
<1>6. CASE AllComplete \/ Cleanup
  BY <1>6 DEF AllComplete, Cleanup
<1>7. ASSUME NEW x \in Switches, PollCrashes(x)
      PROVE  DiagTypeInv'
  BY <1>7 DEF PollCrashes
<1>8. ASSUME NEW x \in Switches, TaskMoves(x)
      PROVE  DiagTypeInv'
  <2>1. task' \in [Switches -> {"idle", "pending", "refused", "New", "Running"} \cup Ended]
    BY <1>8 DEF TaskMoves, Ended
  <2>2. \A y \in Switches : task[y] \in Begun => task'[y] \in Begun
    BY <1>8 DEF TaskMoves, Begun, Ended
  <2> QED
    BY <1>8, <2>1, <2>2 DEF TaskMoves
<1>9. CASE UNCHANGED diag
  BY <1>9 DEF diag
<1> HIDE DEF DiagTypeInv, DiagTypeOK
<1>10. CASE DiagNext
  BY <1>1, <1>2, <1>3, <1>4, <1>5, <1>6, <1>7, <1>8, <1>10, PollKeepsDiagTypes
  DEF DiagNext, DiagStep
<1> QED
  BY <1>9, <1>10 DEF Next, Sensors, Diagnose, Swap, Finished, vars

(* The type invariant of the commands for switches: a port has a policy    *)
(* made of a known one, no more pings than RECONNECT_RETRIES are sent, and *)
(* a state that is recorded of a diagnostic is one that the report knows.  *)
THEOREM TypeCorrect == Spec => []TypeOK
<1>1. Init => tool \in {"sensors", "diag", "swap"}
  BY DEF Init
<1>2. tool \in {"sensors", "diag", "swap"} /\ [Next]_vars => (tool \in {"sensors", "diag", "swap"})'
  BY DEF Next, Sensors, Diagnose, Swap, Finished, vars
<1>3. tool \in {"sensors", "diag", "swap"} /\ SwapTypeOK /\ TelemetryTypeOK /\ DiagTypeInv => TypeOK
  BY DEF TypeOK, DiagTypeInv
<1> QED
  BY <1>1, <1>2, <1>3, PolicyInvInit, PolicyInvNext, SensorsInvInit, SensorsInvNext, DiagInvInit,
     DiagInvNext, SwapTypesInit, SwapTypesNext, TelemetryTypesInit, TelemetryTypesNext,
     DiagTypesInit, DiagTypesNext, PTL DEF Spec
=============================================================================
