--------------------------- MODULE HardwareProofs ----------------------------
(***************************************************************************)
(* Proofs about the procedures on hardware, for any blade, any number of   *)
(* commands and whatever stage fails: a swap loses no address, an address  *)
(* never has two holders, a blade that was swapped out stays out of HSM,   *)
(* cabinets that were powered off stay off, and a command that resumes the *)
(* cron job succeeds only after a job has run again.                       *)
(***************************************************************************)
EXTENDS HardwareProcedures, TLAPS

\* The steps of swap-out that do not depend on the class.
LEMMA SwapOutOrder ==
  /\ After("check") = "store" /\ After("store") = "suspend"
  /\ After("suspend") = "await_suspended"
  /\ After("disable_slot") = "delete_interfaces"
  /\ After("delete_interfaces") = "delete_redfish"
  BY DEF After, MountainOrder, RiverOrder

LEMMA MountainOut ==
  class = "mountain" =>
    /\ After("await_suspended") = "disable_redfish" /\ After("disable_redfish") = "clear"
    /\ After("clear") = "power_off" /\ After("power_off") = "disable_slot"
  BY DEF After, MountainOrder

LEMMA RiverOut ==
  class # "mountain" =>
    /\ After("await_suspended") = "power_off" /\ After("power_off") = "clear"
    /\ After("clear") = "disable_redfish" /\ After("disable_redfish") = "disable_slot"
  BY DEF After, MountainOrder, RiverOrder

\* The steps of swap-in.
LEMMA SwapInOrder ==
  /\ After("check_in") \in {"enable_slot", "resume"}
  /\ After("map") = "create"
  /\ After("create") \in {"enable_slot", "resume"}
  /\ After("enable_slot") = "power_on" /\ After("power_on") = "resume"
  /\ After("resume") = "start_waiter"
  /\ After("discover") \in {"chassis_wait", "node_wait"}
  BY DEF After, MountainOrder, RiverOrder

LEMMA CabinetOrder ==
  /\ \A cmd \in Commands : First[cmd] \in Steps \ {"await_chassis", "await_nodes"}
  /\ \A cmd \in ResumingCommands :
        AfterScheduled[cmd] \in Steps \ {"await_chassis", "await_nodes"}
  BY DEF Commands, First, ResumingCommands, AfterScheduled, Steps, MountainOrder

LEMMA StepsAreSteps ==
  /\ {"none", "prompt", "suspend", "liquid_off", "liquid_wait", "air_off", "air_wait",
      "resume", "start_waiter", "await_scheduled", "list", "on_wait"} \subseteq Steps
  /\ {"check", "store", "await_suspended", "disable_redfish", "clear", "power_off",
      "disable_slot", "delete_interfaces", "check_in", "map", "create"} \subseteq Steps
  /\ {"enable_slot", "power_on", "discover", "chassis_wait", "node_wait", "delete_redfish",
      "await_chassis", "await_nodes", "enable_nodes"} \subseteq Steps
  BY DEF Steps, MountainOrder

LEMMA AfterIsStep ==
  ASSUME NEW s \in {"check", "store", "suspend", "await_suspended", "disable_redfish", "clear",
                    "power_off", "disable_slot", "delete_interfaces", "check_in", "map",
                    "create", "enable_slot", "power_on", "resume", "discover"}
  PROVE  After(s) \in Steps \ {"await_chassis", "await_nodes"}
  BY SwapOutOrder, MountainOut, RiverOut, SwapInOrder, StepsAreSteps

LEMMA InterfaceType ==
  ASSUME NEW o \in Nodes \cup BMCs, NEW mac \in Blades, NEW ip \in BOOLEAN
  PROVE  Interface(o, mac, ip) \in Interfaces
  BY DEF Interface, Interfaces

\* The types of what a command has of its own.  What fails while the command
\* waits for endpoints is a BMC because only BMCs are waited for there.
ProcessTypes ==
  /\ command \in Commands \cup {"idle"}
  /\ step \in Steps
  /\ exit \in {"none", "ok", "error"}
  /\ pending \subseteq Components \cup BMCs
  /\ failed \subseteq BMCs
  /\ step \in {"await_chassis", "await_nodes"} => pending \subseteq BMCs

LEMMA ExitTypes ==
  ASSUME NEW code \in {"ok", "error"}, Exit(code)
  PROVE  ProcessTypes'
  BY StepsAreSteps DEF Exit, ProcessTypes

LEMMA GoToTypes ==
  ASSUME ProcessTypes, NEW s \in Steps, GoTo(s),
         pending' \subseteq Components \cup BMCs, failed' \subseteq BMCs,
         s \in {"await_chassis", "await_nodes"} => pending' \subseteq BMCs
  PROVE  ProcessTypes'
  BY DEF GoTo, ProcessTypes

LEMMA FinishedTypes ==
  ASSUME ProcessTypes,
         NEW s \in {"check", "store", "suspend", "await_suspended", "disable_redfish", "clear",
                    "power_off", "disable_slot", "delete_interfaces", "check_in", "map",
                    "create", "enable_slot", "power_on", "resume", "discover"},
         Finished(s)
  PROVE  ProcessTypes'
<1>1. CASE dryRun /\ After(s) # "store"
  BY <1>1, ExitTypes DEF Finished
<1>2. CASE ~(dryRun /\ After(s) # "store")
  BY <1>2, GoToTypes, AfterIsStep DEF Finished, ProcessTypes
<1> QED BY <1>1, <1>2

\* The types of the hardware alone.
HardwareShape ==
  /\ class \in {"mountain", "river"}
  /\ blade \in Blades \cup {"none"}
  /\ power \in [Components -> {"on", "off"}]
  /\ ordered \in [Components -> {"on", "off", "nothing"}]
  /\ slotEnabled \in BOOLEAN
  /\ endpoint \in [BMCs -> {"absent", "disabled", "undiscovered", "ok"}]
  /\ interfaces \subseteq Interfaces

AdminTypes == count \in 0..MaxCommands /\ last \in Commands \cup {"none"}

\* TypeOK, made inductive.
TypeInv == HmsTypeOK /\ HardwareShape /\ ProcessTypes /\ SwapTypeOK /\ AdminTypes

LEMMA TypeInvImplies == TypeInv => TypeOK
  BY DEF TypeOK, TypeInv, HardwareTypeOK, HardwareShape, ProcessTypes, AdminTypes

LEMMA InitTypeInv == Init => TypeInv
<1> SUFFICES ASSUME Init PROVE TypeInv
  OBVIOUS
<1>1. HmsTypeOK
  BY DEF Init, HmsInit, HmsTypeOK
<1>2. HardwareShape
  BY InterfaceType DEF Init, HardwareInit, HardwareShape
<1>3. SwapTypeOK
  BY DEF Init, SwapInit, SwapTypeOK
<1>4. AdminTypes
  BY HardwareAssumption DEF Init, AdminTypes
<1>5. ProcessTypes
  BY StepsAreSteps DEF Init, HardwareInit, ProcessTypes
<1> QED
  BY <1>1, <1>2, <1>3, <1>4, <1>5 DEF TypeInv

LEMMA EnvironmentTypes ==
  ASSUME TypeInv, Environment
  PROVE  HmsTypeOK' /\ HardwareShape' /\ ProcessTypes'
<1>1. CASE (JobStarts \/ JobEnds) /\ UNCHANGED <<hardware, process>>
  BY <1>1 DEF TypeInv, JobStarts, JobEnds, HmsTypeOK, HardwareShape, ProcessTypes, hardware,
       components, hsm, process
<1>2. ASSUME NEW c \in Components, Obey(c) \/ JobPowersOn(c)
      PROVE  HmsTypeOK' /\ HardwareShape' /\ ProcessTypes'
  BY <1>2 DEF TypeInv, Obey, JobPowersOn, HmsTypeOK, hms, HardwareShape, ProcessTypes,
       hsm, process
<1>3. ASSUME NEW b \in BMCs, JobFinds(b)
      PROVE  HmsTypeOK' /\ HardwareShape' /\ ProcessTypes'
  BY <1>3 DEF TypeInv, JobFinds, HmsTypeOK, hms, HardwareShape, ProcessTypes, components, process
<1>4. ASSUME NEW b \in BMCs, Discovered(b)
      PROVE  HmsTypeOK' /\ HardwareShape' /\ ProcessTypes'
  <2>1. \A o \in Nodes \cup {b} : Interface(o, blade, FALSE) \in Interfaces
    BY <1>4, InterfaceType DEF TypeInv, Discovered, HardwareShape
  <2>2. interfaces' \subseteq Interfaces
    BY <1>4, <2>1 DEF TypeInv, Discovered, HardwareShape
  <2> QED
    BY <1>4, <2>2 DEF TypeInv, Discovered, HmsTypeOK, hms, HardwareShape, ProcessTypes,
       components, process
<1> QED
  BY <1>1, <1>2, <1>3, <1>4 DEF Environment

LEMMA CabinetTypes ==
  ASSUME TypeInv, CabinetStep \/ StartWaiter \/ JobWasScheduled \/ NotScheduledInTime
  PROVE  HmsTypeOK' /\ HardwareShape' /\ ProcessTypes'
<1>1. HmsTypeOK /\ HardwareShape /\ ProcessTypes
  BY DEF TypeInv
<1>2. HmsTypeOK'
  BY <1>1 DEF CabinetStep, CabinetFails, AgreeToPowerOff, SuspendForPowerOff, PowerOff,
       PowerOffLiquidCooled, LiquidCooledAreOff, PowerOffAirCooled, AirCooledAreOff,
       ResumeForPowerOn, ListForPowerOn, AllAreOn, PollPower, PowerTimesOut, StartWaiter,
       JobWasScheduled, NotScheduledInTime, SetSuspendStatus, StartScheduledWaiter, HmsTypeOK, hms
<1>3. HardwareShape'
  BY <1>1 DEF CabinetStep, CabinetFails, AgreeToPowerOff, SuspendForPowerOff, PowerOff,
       PowerOffLiquidCooled, LiquidCooledAreOff, PowerOffAirCooled, AirCooledAreOff,
       ResumeForPowerOn, ListForPowerOn, AllAreOn, PollPower, PowerTimesOut, StartWaiter,
       JobWasScheduled, NotScheduledInTime, Order, HardwareShape, hardware, components, hsm
<1>4. LiquidCooled \subseteq Components /\ AirCooled \subseteq Components
  BY DEF LiquidCooled, AirCooled, Components
<1>5. ProcessTypes'
  <2>1. CASE CabinetFails \/ NotScheduledInTime \/ AirCooledAreOff \/ AllAreOn
             \/ \E s \in {"liquid_wait", "air_wait", "on_wait"} : PowerTimesOut(s)
    BY <2>1, ExitTypes DEF CabinetFails, NotScheduledInTime, AirCooledAreOff, AllAreOn, PowerTimesOut
  <2>2. CASE AgreeToPowerOff \/ SuspendForPowerOff \/ LiquidCooledAreOff \/ ResumeForPowerOn
             \/ StartWaiter \/ JobWasScheduled
    BY <2>2, <1>1, GoToTypes, StepsAreSteps, CabinetOrder DEF AgreeToPowerOff, SuspendForPowerOff,
       LiquidCooledAreOff, ResumeForPowerOn, StartWaiter, JobWasScheduled, ProcessTypes
  <2>3. CASE PowerOffLiquidCooled \/ PowerOffAirCooled \/ ListForPowerOn
    BY <2>3, <1>1, <1>4, GoToTypes, StepsAreSteps DEF PowerOffLiquidCooled, PowerOffAirCooled,
       PowerOff, ListForPowerOn, ProcessTypes
  <2>4. CASE \E s \in {"liquid_wait", "air_wait", "on_wait"}, goal \in {"on", "off"} : PollPower(s, goal)
    BY <2>4, <1>1 DEF PollPower, ProcessTypes
  <2> QED
    BY <2>1, <2>2, <2>3, <2>4 DEF CabinetStep
<1> QED
  BY <1>2, <1>3, <1>5

\* The stages of a swap that leave by Finished, or fail half way.
LEMMA SwapProcessTypes ==
  ASSUME TypeInv, SwapStep
  PROVE  ProcessTypes'
<1>1. ProcessTypes
  BY DEF TypeInv
<1>2. CASE StageFails \/ EnableNodes \/ DeleteRedfishEndpoints
  BY <1>2, ExitTypes DEF StageFails, EnableNodes, DeleteRedfishEndpoints
<1>3. CASE PreSwapChecks \/ StoreMapping \/ SuspendForSwap \/ CronJobIsSuspended
           \/ ClearNodeControllers \/ PowerOffSlot \/ DisableSlot
           \/ SwapInChecks \/ EnableSlot \/ PowerOnSlot \/ ResumeForSwap \/ BeginSlotDiscovery
  BY <1>1, <1>3, FinishedTypes DEF PreSwapChecks, StoreMapping, SuspendForSwap,
     CronJobIsSuspended, ClearNodeControllers, PowerOffSlot, DisableSlot,
     SwapInChecks, EnableSlot, PowerOnSlot, ResumeForSwap, BeginSlotDiscovery
<1>4. CASE DisableRedfishEndpoints \/ DeleteEthernetInterfaces \/ DeleteMapped \/ CreateMapped
  BY <1>1, <1>4, FinishedTypes, ExitTypes DEF DisableRedfishEndpoints,
     DeleteEthernetInterfaces, DeleteMapped, CreateMapped
<1>5. CASE ChecksWithMappings
  BY <1>1, <1>5, GoToTypes, StepsAreSteps DEF ChecksWithMappings, ProcessTypes
<1>6. CASE WaitForChassisBMCs \/ WaitForNodeBMCs
  BY <1>1, <1>6, GoToTypes, StepsAreSteps DEF WaitForChassisBMCs, WaitForNodeBMCs,
     WaitForEndpoints, ProcessTypes
<1>7. CASE PollEndpoints
  <2>1. MayBeDiscovered \subseteq pending
    BY DEF MayBeDiscovered
  <2>2. failed' \subseteq BMCs
    <3>1. command = "swap_in" /\ step \in {"await_chassis", "await_nodes"}
      BY <1>7 DEF PollEndpoints
    <3> QED
      BY <1>1, <1>7 DEF PollEndpoints, ProcessTypes
  <2> QED
    BY <1>1, <1>7, <2>2 DEF PollEndpoints, ProcessTypes
<1>8. CASE EndpointsEnd("await_chassis", "node_wait") \/ EndpointsEnd("await_nodes", "enable_nodes")
  BY <1>1, <1>8, GoToTypes, ExitTypes, StepsAreSteps DEF EndpointsEnd, ProcessTypes
<1> QED
  BY <1>2, <1>3, <1>4, <1>5, <1>6, <1>7, <1>8 DEF SwapStep

LEMMA SwapTypes ==
  ASSUME TypeInv, SwapStep
  PROVE  HmsTypeOK' /\ HardwareShape' /\ SwapTypeOK'
<1>1. HmsTypeOK /\ HardwareShape /\ SwapTypeOK
  BY DEF TypeInv
<1>2. CASE StageFails \/ PreSwapChecks \/ CronJobIsSuspended \/ ClearNodeControllers
           \/ SwapInChecks \/ ChecksWithMappings \/ WaitForChassisBMCs \/ WaitForNodeBMCs
           \/ PollEndpoints \/ EndpointsEnd("await_chassis", "node_wait")
           \/ EndpointsEnd("await_nodes", "enable_nodes")
  <2>1. UNCHANGED <<hardware, hms, swap>>
    BY <1>2 DEF StageFails, PreSwapChecks, CronJobIsSuspended, ClearNodeControllers, SwapInChecks,
       ChecksWithMappings, WaitForChassisBMCs, WaitForNodeBMCs, WaitForEndpoints,
       PollEndpoints, EndpointsEnd
  <2> QED
    BY <1>1, <2>1 DEF hardware, components, hsm, hms, swap, HmsTypeOK, HardwareShape, SwapTypeOK
<1>3. CASE SuspendForSwap \/ ResumeForSwap
  BY <1>1, <1>3 DEF SuspendForSwap, ResumeForSwap, SetSuspendStatus, hardware, components, hsm,
     swap, HmsTypeOK, HardwareShape, SwapTypeOK
<1>4. CASE StoreMapping
  <2>1. Addressed \subseteq Nodes
    BY DEF Addressed, NodeInterfaces
  <2> QED
    BY <1>1, <1>4, <2>1 DEF StoreMapping, Stored, hardware, components, hsm, hms,
       HmsTypeOK, HardwareShape, SwapTypeOK
<1>5. CASE DisableRedfishEndpoints \/ DeleteRedfishEndpoints \/ BeginSlotDiscovery
  BY <1>1, <1>5 DEF DisableRedfishEndpoints, DeleteRedfishEndpoints, BeginSlotDiscovery,
     components, hms, swap, HmsTypeOK, HardwareShape, SwapTypeOK
<1>6. CASE PowerOffSlot \/ PowerOnSlot
  BY <1>1, <1>6 DEF PowerOffSlot, PowerOnSlot, Order, hsm, hms, swap,
     HmsTypeOK, HardwareShape, SwapTypeOK
<1>7. CASE DisableSlot \/ EnableSlot \/ EnableNodes
  BY <1>1, <1>7 DEF DisableSlot, EnableSlot, EnableNodes, hardware, hsm, components, hms, swap,
     HmsTypeOK, HardwareShape, SwapTypeOK
<1>8. CASE DeleteEthernetInterfaces
  BY <1>1, <1>8 DEF DeleteEthernetInterfaces, components, hms, swap,
     HmsTypeOK, HardwareShape, SwapTypeOK
<1>9. CASE DeleteMapped
  <2>1. blade \in Blades
    BY <1>1, <1>9 DEF DeleteMapped, HardwareShape
  <2>2. \A src \in SUBSET Nodes : Merged(src) \subseteq Interfaces
    BY <2>1, InterfaceType DEF Merged
  <2> QED
    BY <1>1, <1>9, <2>2 DEF DeleteMapped, components, hms, HmsTypeOK, HardwareShape, SwapTypeOK
<1>10. CASE CreateMapped
  <2>1. Creatable \subseteq mapping
    BY DEF Creatable
  <2> QED
    BY <1>1, <1>10, <2>1 DEF CreateMapped, components, hms, HmsTypeOK, HardwareShape, SwapTypeOK
<1> QED
  BY <1>2, <1>3, <1>4, <1>5, <1>6, <1>7, <1>8, <1>9, <1>10 DEF SwapStep

LEMMA TypeStep == TypeInv /\ [Next]_vars => TypeInv'
<1> SUFFICES ASSUME TypeInv, [Next]_vars PROVE TypeInv'
  OBVIOUS
<1>1. ASSUME NEW cmd \in Commands, Run(cmd) PROVE TypeInv'
  <2>1. ProcessTypes'
    BY <1>1, CabinetOrder DEF TypeInv, ProcessTypes, Run
  <2>2. AdminTypes'
    <3>1. count' \in 0..MaxCommands
      BY <1>1, HardwareAssumption DEF Run, TypeInv, AdminTypes
    <3> QED
      BY <1>1, <3>1 DEF Run, AdminTypes
  <2>3. HmsTypeOK' /\ HardwareShape'
    BY <1>1 DEF TypeInv, Run, HmsTypeOK, HardwareShape, hms, hsm
  <2>4. SwapTypeOK'
    BY <1>1 DEF TypeInv, Run, SwapTypeOK
  <2> QED
    BY <2>1, <2>2, <2>3, <2>4 DEF TypeInv
<1>2. CASE (CabinetStep \/ StartWaiter \/ JobWasScheduled \/ NotScheduledInTime)
             /\ UNCHANGED <<swap, count, last>>
  BY <1>2, CabinetTypes DEF TypeInv, SwapTypeOK, AdminTypes, swap
<1>3. CASE SwapStep /\ UNCHANGED <<count, last>>
  BY <1>3, SwapProcessTypes, SwapTypes DEF TypeInv, AdminTypes
<1>4. CASE Environment /\ UNCHANGED <<swap, count, last>>
  BY <1>4, EnvironmentTypes DEF TypeInv, SwapTypeOK, AdminTypes, swap
<1>5. CASE TakeBlade
  BY <1>5 DEF TakeBlade, TypeInv, HmsTypeOK, HardwareShape, ProcessTypes, SwapTypeOK, AdminTypes,
     hms, components, hsm, process, swap
<1>6. ASSUME NEW b \in Blades, PutBlade(b) PROVE TypeInv'
  BY <1>6 DEF PutBlade, TypeInv, HmsTypeOK, HardwareShape, ProcessTypes, SwapTypeOK, AdminTypes,
     hms, components, hsm, process, swap
<1>7. CASE UNCHANGED vars
  BY <1>7 DEF vars, TypeInv, HmsTypeOK, HardwareShape, ProcessTypes, SwapTypeOK, AdminTypes,
     hms, hardware, components, hsm, process, swap
<1> QED
  BY <1>1, <1>2, <1>3, <1>4, <1>5, <1>6, <1>7 DEF Next, Done

\* Every variable keeps its type, for any blade and any number of commands.
THEOREM TypeCorrect == Spec => []TypeOK
<1>1. Spec => []TypeInv
  BY InitTypeInv, TypeStep, PTL DEF Spec
<1>2. []TypeInv => []TypeOK
  BY TypeInvImplies, PTL
<1> QED
  BY <1>1, <1>2

(* What the actions do to the state of the command *)

LEMMA FirstSteps ==
  /\ First["swap_out"] = "check" /\ First["swap_in"] = "check_in"
  /\ First["cabinets_off"] = "prompt" /\ First["cabinets_on"] = "resume"
  /\ AfterScheduled["swap_in"] = "discover" /\ AfterScheduled["cabinets_on"] = "list"
  BY DEF First, AfterScheduled

\* A dry run ends after the stages that are allowed in it.
LEMMA FinishedMoves ==
  ASSUME NEW s \in {"check", "store", "suspend", "await_suspended", "disable_redfish", "clear",
                    "power_off", "disable_slot", "delete_interfaces", "check_in", "map",
                    "create", "enable_slot", "power_on", "resume", "discover"},
         Finished(s)
  PROVE  \/ dryRun /\ s # "check" /\ Exit("ok")
         \/ (dryRun => s = "check") /\ GoTo(After(s)) /\ UNCHANGED <<pending, failed>>
<1>1. After(s) = "store" <=> s = "check"
  BY SwapOutOrder, MountainOut, RiverOut, SwapInOrder
<1> QED
  BY <1>1 DEF Finished

\* The cabinet stages and the scheduled waiter leave HSM alone and take no
\* step of swap-out.
LEMMA CabinetMoves ==
  ASSUME CabinetStep \/ StartWaiter \/ JobWasScheduled \/ NotScheduledInTime
  PROVE  /\ UNCHANGED <<class, blade, hsm>>
         /\ \/ Exit("ok") \/ Exit("error")
            \/ UNCHANGED <<command, exit>> /\ command \in {"cabinets_off", "cabinets_on"}
            \/ UNCHANGED <<command, exit>> /\ command = "swap_in" /\ step' \in {"await_scheduled", "discover"}
<1>1. UNCHANGED <<class, blade, hsm>>
  BY DEF CabinetStep, CabinetFails, AgreeToPowerOff, SuspendForPowerOff, PowerOff,
     PowerOffLiquidCooled, LiquidCooledAreOff, PowerOffAirCooled, AirCooledAreOff,
     ResumeForPowerOn, ListForPowerOn, AllAreOn, PollPower, PowerTimesOut, StartWaiter,
     JobWasScheduled, NotScheduledInTime, hardware
<1>2. CASE CabinetStep
  BY <1>1, <1>2 DEF CabinetStep, CabinetFails, AgreeToPowerOff, SuspendForPowerOff, PowerOff,
     PowerOffLiquidCooled, LiquidCooledAreOff, PowerOffAirCooled, AirCooledAreOff, AtCabinet,
     ResumeForPowerOn, ListForPowerOn, AllAreOn, PollPower, PowerTimesOut, GoTo
<1>3. CASE StartWaiter \/ JobWasScheduled \/ NotScheduledInTime
  BY <1>1, <1>3, FirstSteps DEF StartWaiter, JobWasScheduled, NotScheduledInTime,
     ResumingCommands, GoTo
<1> QED
  BY <1>2, <1>3

\* The stages of a swap that change neither HSM's interfaces nor the files.
OtherStage ==
  \/ PreSwapChecks \/ SuspendForSwap \/ CronJobIsSuspended
  \/ DisableRedfishEndpoints \/ ClearNodeControllers \/ PowerOffSlot \/ DisableSlot
  \/ SwapInChecks \/ EnableSlot \/ PowerOnSlot \/ ResumeForSwap \/ BeginSlotDiscovery
  \/ WaitForChassisBMCs \/ WaitForNodeBMCs \/ PollEndpoints
  \/ EndpointsEnd("await_chassis", "node_wait")
  \/ EndpointsEnd("await_nodes", "enable_nodes")
  \/ StageFails \/ EnableNodes \/ DeleteRedfishEndpoints

LEMMA OtherStages ==
  ASSUME OtherStage
  PROVE  /\ UNCHANGED <<class, blade, interfaces, files, mapping, dryRun>>
         /\ \/ command' = "idle"
            \/ command' = command /\ command = "swap_out" /\ step # "store"
                 /\ (step = "check" => step' = "store")
            \/ command' = command /\ command = "swap_in" /\ step' \notin {"map", "create"}
<1>1. UNCHANGED <<class, blade, interfaces, files, mapping, dryRun>>
  BY DEF OtherStage, PreSwapChecks, SuspendForSwap, CronJobIsSuspended,
     DisableRedfishEndpoints, ClearNodeControllers, PowerOffSlot, DisableSlot,
     SwapInChecks, EnableSlot, PowerOnSlot, ResumeForSwap, BeginSlotDiscovery,
     WaitForChassisBMCs, WaitForNodeBMCs, WaitForEndpoints, PollEndpoints, EndpointsEnd,
     StageFails, EnableNodes, DeleteRedfishEndpoints, hardware, hsm, swap
<1>2. CASE PreSwapChecks \/ SuspendForSwap \/ CronJobIsSuspended
           \/ DisableRedfishEndpoints \/ ClearNodeControllers \/ PowerOffSlot \/ DisableSlot
  BY <1>1, <1>2, FinishedMoves, SwapOutOrder
     DEF PreSwapChecks, SuspendForSwap, CronJobIsSuspended, At, GoTo, Exit,
     DisableRedfishEndpoints, ClearNodeControllers, PowerOffSlot, DisableSlot
<1>3. CASE SwapInChecks \/ EnableSlot \/ PowerOnSlot \/ ResumeForSwap \/ BeginSlotDiscovery
  BY <1>1, <1>3, FinishedMoves, SwapInOrder
     DEF SwapInChecks, EnableSlot, PowerOnSlot, ResumeForSwap, BeginSlotDiscovery, At, GoTo, Exit
<1>4. CASE WaitForChassisBMCs \/ WaitForNodeBMCs \/ PollEndpoints
           \/ EndpointsEnd("await_chassis", "node_wait")
           \/ EndpointsEnd("await_nodes", "enable_nodes")
  BY <1>1, <1>4 DEF WaitForChassisBMCs, WaitForNodeBMCs, WaitForEndpoints, PollEndpoints,
     EndpointsEnd, At, GoTo, Exit
<1>5. CASE StageFails \/ EnableNodes \/ DeleteRedfishEndpoints
  BY <1>1, <1>5 DEF StageFails, EnableNodes, DeleteRedfishEndpoints, Exit
<1> QED
  BY <1>2, <1>3, <1>4, <1>5 DEF OtherStage

(* No address is lost *)

\* The addresses are stored before any interface is deleted, and a mapping
\* that is stored first has the addresses of all nodes.
AddressInv ==
  /\ files = {} => \A n \in Nodes : \E i \in NodeInterfaces : i.owner = n /\ i.ip
  /\ files # {} => \A n \in Nodes : \E f \in files : n \in f
  /\ command = "swap_out" /\ step \notin {"check", "store"} => files # {} \/ Nodes = {}
  /\ command = "swap_in" /\ step = "map" => files # {}

LEMMA AddressStep == TypeInv /\ AddressInv /\ [Next]_vars => AddressInv'
<1> SUFFICES ASSUME TypeInv, AddressInv, [Next]_vars PROVE AddressInv'
  OBVIOUS
<1>1. ASSUME NEW cmd \in Commands, Run(cmd) PROVE AddressInv'
  BY <1>1, FirstSteps DEF Run, hsm, AddressInv, NodeInterfaces, Commands
<1>2. CASE (CabinetStep \/ StartWaiter \/ JobWasScheduled \/ NotScheduledInTime)
             /\ UNCHANGED <<swap, count, last>>
  BY <1>2, CabinetMoves DEF AddressInv, NodeInterfaces, Exit, hsm, swap
<1>3. CASE StoreMapping
  <2>1. UNCHANGED NodeInterfaces /\ command = "swap_out" /\ files' = Stored(Addressed)
    BY <1>3 DEF StoreMapping, NodeInterfaces, hardware, hsm, At
  <2>2. files = {} => Addressed = Nodes
    BY DEF AddressInv, Addressed, NodeInterfaces
  <2>3. command' = "swap_out" \/ command' = "idle"
    BY <1>3, <2>1, FinishedMoves DEF StoreMapping, GoTo, Exit
  <2> QED
    BY <2>1, <2>2, <2>3 DEF AddressInv, Stored
<1>4. CASE DeleteEthernetInterfaces
  <2>1. command = "swap_out" /\ (files # {} \/ Nodes = {}) /\ UNCHANGED files
    BY <1>4 DEF DeleteEthernetInterfaces, AddressInv, At, swap
  <2>2. command' = "swap_out" \/ command' = "idle"
    BY <1>4, <2>1, FinishedMoves DEF DeleteEthernetInterfaces, GoTo, Exit
  <2> QED
    BY <2>1, <2>2 DEF AddressInv
<1>5. CASE DeleteMapped
  <2>1. command = "swap_in" /\ files # {} /\ UNCHANGED files
    BY <1>5 DEF DeleteMapped, AddressInv, At
  <2>2. command' = "swap_in" \/ command' = "idle"
    BY <1>5, <2>1, FinishedMoves DEF DeleteMapped, GoTo, Exit
  <2> QED
    BY <2>1, <2>2 DEF AddressInv
<1>6. CASE CreateMapped
  <2>1. interfaces \subseteq interfaces' /\ UNCHANGED files /\ command = "swap_in"
    BY <1>6 DEF CreateMapped, At
  <2>2. command' = "idle" \/ (command' = "swap_in" /\ step' # "map")
    BY <1>6, <2>1, FinishedMoves, SwapInOrder DEF CreateMapped, GoTo, Exit
  <2> QED
    BY <2>1, <2>2 DEF AddressInv, NodeInterfaces
<1>7. CASE ChecksWithMappings
  BY <1>7 DEF ChecksWithMappings, AddressInv, NodeInterfaces, hardware, hsm, swap, At, GoTo
<1>8. CASE OtherStage
  BY <1>8, OtherStages DEF AddressInv, NodeInterfaces
<1>9. CASE Environment /\ UNCHANGED <<swap, count, last>>
  <2>1. interfaces \subseteq interfaces' /\ UNCHANGED process
    BY <1>9 DEF Environment, Obey, JobPowersOn, JobFinds, Discovered, hardware, hsm
  <2> QED
    BY <1>9, <2>1 DEF AddressInv, NodeInterfaces, swap, process
<1>10. CASE TakeBlade \/ (\E b \in Blades : PutBlade(b)) \/ UNCHANGED vars
  BY <1>10 DEF TakeBlade, PutBlade, vars, hsm, hardware, swap, process, AddressInv, NodeInterfaces
<1> QED
  BY <1>1, <1>2, <1>3, <1>4, <1>5, <1>6, <1>7, <1>8, <1>9, <1>10 DEF Next, Done, SwapStep, OtherStage

\* However often swaps fail and are repeated, no address is lost: HSM has it,
\* or a stored mapping.
THEOREM NoAddressLost == Spec => []AddressesRecorded
<1>1. Init => AddressInv
  <2> SUFFICES ASSUME Init PROVE AddressInv
    OBVIOUS
  <2>1. \A n \in Nodes : Interface(n, blade, TRUE) \in NodeInterfaces
    BY DEF Init, HardwareInit, NodeInterfaces, Interface
  <2>2. \A n \in Nodes : Interface(n, blade, TRUE).owner = n /\ Interface(n, blade, TRUE).ip
    BY DEF Interface
  <2> QED
    BY <2>1, <2>2 DEF Init, HardwareInit, SwapInit, AddressInv
<1>2. AddressInv => AddressesRecorded
  BY DEF AddressInv, AddressesRecorded
<1> QED
  BY <1>1, <1>2, InitTypeInv, TypeStep, AddressStep, PTL DEF Spec

(* No address has two holders *)

\* The mapping has one MAC address per node, and the nodes have no address
\* left when it is put into effect.
HolderInv ==
  /\ OneHolderPerAddress
  /\ \A i, j \in mapping : i.owner = j.owner => i = j
  /\ command = "swap_in" /\ step = "create" => \A i \in NodeInterfaces : ~i.ip

LEMMA InterfaceFields ==
  ASSUME NEW o, NEW mac, NEW ip
  PROVE  /\ Interface(o, mac, ip).owner = o
         /\ Interface(o, mac, ip).ip = ip
  BY DEF Interface

\* Interfaces that are gone, or that have no address, disturb no holder.
LEMMA HoldersKept ==
  ASSUME HolderInv, \A i \in NodeInterfaces' : i \in NodeInterfaces \/ ~i.ip
  PROVE  /\ OneHolderPerAddress'
         /\ (\A i \in NodeInterfaces : ~i.ip) => (\A i \in NodeInterfaces' : ~i.ip)
  BY DEF HolderInv, OneHolderPerAddress

LEMMA HolderStep == TypeInv /\ HolderInv /\ [Next]_vars => HolderInv'
<1> SUFFICES ASSUME TypeInv, HolderInv, [Next]_vars PROVE HolderInv'
  OBVIOUS
<1>1. ASSUME NEW cmd \in Commands, Run(cmd) PROVE HolderInv'
  BY <1>1, FirstSteps, HoldersKept DEF Run, hsm, HolderInv, NodeInterfaces, Commands
<1>2. CASE (CabinetStep \/ StartWaiter \/ JobWasScheduled \/ NotScheduledInTime)
             /\ UNCHANGED <<swap, count, last>>
  BY <1>2, CabinetMoves, HoldersKept DEF HolderInv, NodeInterfaces, Exit, hsm, swap
<1>3. CASE StoreMapping
  <2>1. UNCHANGED <<interfaces, mapping>> /\ command = "swap_out"
    BY <1>3 DEF StoreMapping, hardware, hsm, At
  <2>2. command' = "swap_out" \/ command' = "idle"
    BY <1>3, <2>1, FinishedMoves DEF StoreMapping, GoTo, Exit
  <2> QED
    BY <2>1, <2>2, HoldersKept DEF HolderInv, NodeInterfaces
<1>4. CASE DeleteEthernetInterfaces
  <2>1. command = "swap_out" /\ interfaces' \subseteq interfaces /\ UNCHANGED mapping
    BY <1>4 DEF DeleteEthernetInterfaces, At, swap
  <2>2. command' = "swap_out" \/ command' = "idle"
    BY <1>4, <2>1, FinishedMoves DEF DeleteEthernetInterfaces, GoTo, Exit
  <2> QED
    BY <2>1, <2>2, HoldersKept DEF HolderInv, NodeInterfaces
<1>5. CASE DeleteMapped
  <2>1. PICK gone \in SUBSET NodeInterfaces :
          /\ interfaces' = interfaces \ gone
          /\ IF gone = NodeInterfaces THEN Finished("map") ELSE Exit("error")
    BY <1>5 DEF DeleteMapped
  <2>2. PICK src \in SUBSET Nodes : mapping' = Merged(src)
    BY <1>5 DEF DeleteMapped
  <2>3. \A i, j \in mapping' : i.owner = j.owner => i = j
    <3> DEFINE I(n) == Interface(n, blade, TRUE)
    <3>1. mapping' = {I(n) : n \in src}
      BY <2>2 DEF Merged
    <3>2. \A n : I(n).owner = n
      BY InterfaceFields
    <3> HIDE DEF I
    <3> QED
      BY <3>1, <3>2
  <2>4. command' # "idle" => NodeInterfaces' = {}
    BY <2>1 DEF Exit, NodeInterfaces
  <2>5. OneHolderPerAddress'
    BY <2>1, HoldersKept DEF NodeInterfaces
  <2> QED
    <3>1. command' = "swap_in" => NodeInterfaces' = {}
      BY <2>4
    <3> QED
      BY <2>3, <2>5, <3>1 DEF HolderInv
<1>6. CASE CreateMapped
  <2>1. PICK created \in SUBSET Creatable :
          /\ interfaces' = interfaces \cup created
          /\ Finished("create") \/ Exit("error")
    BY <1>6 DEF CreateMapped
  <2>2. \A i \in NodeInterfaces : ~i.ip
    BY <1>6 DEF CreateMapped, HolderInv, At
  <2>3. \A i \in NodeInterfaces' : i.ip => i \in mapping
    BY <2>1, <2>2 DEF NodeInterfaces, Creatable
  <2>4. OneHolderPerAddress'
    BY <2>3 DEF OneHolderPerAddress, HolderInv
  <2>5. mapping' = {}
    BY <1>6 DEF CreateMapped
  <2>6. command' # "idle" => step' # "create"
    BY <2>1, FinishedMoves, SwapInOrder DEF GoTo, Exit
  <2>7. command' = "swap_in" => step' # "create"
    BY <2>6
  <2> QED
    BY <2>4, <2>5, <2>7 DEF HolderInv
<1>7. CASE ChecksWithMappings
  BY <1>7, HoldersKept
     DEF ChecksWithMappings, HolderInv, NodeInterfaces, hardware, hsm, swap, At, GoTo
<1>8. CASE OtherStage
  BY <1>8, OtherStages, HoldersKept DEF HolderInv, NodeInterfaces
<1>9. CASE Environment /\ UNCHANGED <<swap, count, last>>
  <2>1. UNCHANGED process
    BY <1>9 DEF Environment, Obey, JobPowersOn, JobFinds, Discovered
  <2>2. CASE UNCHANGED interfaces
    BY <1>9, <2>1, <2>2, HoldersKept DEF HolderInv, NodeInterfaces, swap, process
  <2>3. ASSUME NEW b \in BMCs, Discovered(b) PROVE HolderInv'
    <3>1. \A i \in interfaces' : i \in interfaces \/ ~i.ip
      <4> DEFINE I(o) == Interface(o, blade, FALSE)
                 New == {o \in Nodes \cup {b} : Interface(o, blade, TRUE) \notin interfaces}
      <4>1. \A o : ~I(o).ip
        BY InterfaceFields
      <4>2. interfaces' = interfaces \cup {I(o) : o \in New}
        BY <2>3 DEF Discovered
      <4> HIDE DEF I, New
      <4> QED
        BY <4>1, <4>2
    <3> QED
      BY <1>9, <2>1, <3>1, HoldersKept DEF HolderInv, NodeInterfaces, swap, process
  <2> QED
    BY <1>9, <2>2, <2>3 DEF Environment, Obey, JobPowersOn, JobFinds, hardware, hsm
<1>10. CASE TakeBlade \/ (\E b \in Blades : PutBlade(b)) \/ UNCHANGED vars
  <2>1. UNCHANGED <<interfaces, mapping, command, step>>
    BY <1>10 DEF TakeBlade, PutBlade, vars, hsm, hardware, swap, process
  <2> QED
    BY <2>1, HoldersKept DEF HolderInv, NodeInterfaces
<1> QED
  BY <1>1, <1>2, <1>3, <1>4, <1>5, <1>6, <1>7, <1>8, <1>9, <1>10 DEF Next, Done, SwapStep, OtherStage

\* At no time do two MAC addresses hold the address of a node, though blades
\* come and go and swaps end half way.
THEOREM OneHolder == Spec => []OneHolderPerAddress
<1>1. Init => HolderInv
  <2> SUFFICES ASSUME Init PROVE HolderInv
    OBVIOUS
  <2>1. OneHolderPerAddress
    <3> DEFINE I(o) == Interface(o, blade, TRUE)
    <3>1. interfaces = {I(o) : o \in Nodes \cup BMCs}
      BY DEF Init, HardwareInit
    <3>2. \A o : I(o).owner = o
      BY InterfaceFields
    <3> HIDE DEF I
    <3>3. \A i, j \in NodeInterfaces : i.owner = j.owner => i = j
      BY <3>1, <3>2 DEF NodeInterfaces
    <3> QED
      BY <3>3 DEF OneHolderPerAddress
  <2> QED
    BY <2>1 DEF Init, HardwareInit, SwapInit, HolderInv
<1>2. HolderInv => OneHolderPerAddress
  BY DEF HolderInv
<1> QED
  BY <1>1, <1>2, InitTypeInv, TypeStep, HolderStep, PTL DEF Spec

(* A command has an exit code when it ends *)

Running ==
  /\ command # "idle" => last = command /\ exit = "none"
  /\ command = "swap_out" /\ dryRun => step \in {"check", "store"}

\* The stages of swap-out and of swap-in that end with Finished or Exit.
StageEnds(s, cmd) ==
  /\ At(cmd, s)
  /\ UNCHANGED dryRun
  /\ Finished(s) \/ Exit("error")

LEMMA SwapStages ==
  ASSUME SwapStep
  PROVE  \/ \E s \in {"check", "store", "suspend", "await_suspended", "disable_redfish", "clear",
                    "power_off", "disable_slot", "delete_interfaces"} : StageEnds(s, "swap_out")
         \/ \E s \in {"check_in", "map", "create", "enable_slot", "power_on", "resume",
                    "discover"} : StageEnds(s, "swap_in")
         \/ UNCHANGED <<dryRun, command, exit>> /\ command = "swap_in"
         \/ UNCHANGED dryRun /\ command = "swap_out" /\ step = "delete_redfish" /\ Exit("ok")
         \/ UNCHANGED dryRun /\ command = "swap_in" /\ Exit("ok")
         \/ UNCHANGED dryRun /\ command \in {"swap_out", "swap_in"} /\ Exit("error")
<1>1. CASE PreSwapChecks \/ StoreMapping \/ SuspendForSwap \/ CronJobIsSuspended
           \/ DisableRedfishEndpoints \/ ClearNodeControllers \/ PowerOffSlot \/ DisableSlot
           \/ DeleteEthernetInterfaces
  <2> SUFFICES \E s \in {"check", "store", "suspend", "await_suspended", "disable_redfish", "clear",
                    "power_off", "disable_slot", "delete_interfaces"} : StageEnds(s, "swap_out")
    OBVIOUS
  <2> QED
    BY <1>1 DEF PreSwapChecks, StoreMapping, SuspendForSwap, CronJobIsSuspended,
       DisableRedfishEndpoints, ClearNodeControllers, PowerOffSlot, DisableSlot,
       DeleteEthernetInterfaces, StageEnds, swap, At
<1>2. CASE SwapInChecks \/ DeleteMapped \/ CreateMapped
           \/ EnableSlot \/ PowerOnSlot \/ ResumeForSwap \/ BeginSlotDiscovery
  <2> SUFFICES \E s \in {"check_in", "map", "create", "enable_slot", "power_on", "resume",
                    "discover"} : StageEnds(s, "swap_in")
    OBVIOUS
  <2> QED
    BY <1>2 DEF SwapInChecks, DeleteMapped, CreateMapped, EnableSlot, PowerOnSlot, ResumeForSwap,
       BeginSlotDiscovery, StageEnds, swap, At
<1>3. CASE ChecksWithMappings \/ WaitForChassisBMCs \/ WaitForNodeBMCs \/ PollEndpoints
           \/ EndpointsEnd("await_chassis", "node_wait")
           \/ EndpointsEnd("await_nodes", "enable_nodes")
  BY <1>3 DEF ChecksWithMappings, WaitForChassisBMCs, WaitForNodeBMCs, WaitForEndpoints,
     PollEndpoints, EndpointsEnd, GoTo, At, swap
<1>4. CASE StageFails \/ DeleteRedfishEndpoints \/ EnableNodes
  BY <1>4 DEF StageFails, DeleteRedfishEndpoints, EnableNodes, At, swap
<1> QED
  BY <1>1, <1>2, <1>3, <1>4 DEF SwapStep

LEMMA RunningStep == Running /\ [Next]_vars => Running'
<1> SUFFICES ASSUME Running, [Next]_vars PROVE Running'
  OBVIOUS
<1>1. ASSUME NEW cmd \in Commands, Run(cmd) PROVE Running'
  BY <1>1, FirstSteps DEF Run, Running
<1>2. CASE (CabinetStep \/ StartWaiter \/ JobWasScheduled \/ NotScheduledInTime)
             /\ UNCHANGED <<swap, count, last>>
  BY <1>2, CabinetMoves DEF Running, Exit
<1>3. CASE SwapStep /\ UNCHANGED <<count, last>>
  BY <1>3, SwapStages, FinishedMoves, SwapOutOrder DEF StageEnds, Running, GoTo, Exit, At
<1>4. CASE Environment /\ UNCHANGED <<swap, count, last>>
  BY <1>4 DEF Environment, Obey, JobPowersOn, JobFinds, Discovered, Running, swap, process
<1>5. CASE TakeBlade \/ (\E b \in Blades : PutBlade(b)) \/ UNCHANGED vars
  BY <1>5 DEF TakeBlade, PutBlade, vars, swap, process, Running
<1> QED
  BY <1>1, <1>2, <1>3, <1>4, <1>5 DEF Next, Done

(* A blade that was swapped out stays out *)

\* No job runs once swap-out has waited for it, so that what was disabled
\* stays disabled until it is deleted.
RemovedInv ==
  /\ Running
  /\ command = "swap_out" /\ step \notin {"check", "store", "suspend", "await_suspended"} =>
       IsSuspendedAndIdle
  /\ command = "swap_out" /\
     step \in {"disable_slot", "delete_interfaces", "delete_redfish"}
              \cup (IF class = "mountain" THEN {"clear", "power_off"} ELSE {}) =>
       \A b \in BMCs : endpoint[b] = "disabled"
  /\ command = "swap_out" /\ step \in {"delete_interfaces", "delete_redfish"} => ~slotEnabled
  /\ command = "swap_out" /\ step = "delete_redfish" => ToDelete = {}
  /\ RemovedStaysRemoved

\* Nothing comes back as long as no job runs.
LEMMA NothingComesBack ==
  ASSUME TypeInv, Environment, IsSuspendedAndIdle
  PROVE  /\ IsSuspendedAndIdle'
         /\ UNCHANGED <<class, process, slotEnabled>>
         /\ \A b \in BMCs : endpoint[b] # "undiscovered" => endpoint'[b] = endpoint[b]
         /\ (\A b \in BMCs : endpoint[b] # "undiscovered") => UNCHANGED interfaces
<1>1. CASE JobEnds /\ UNCHANGED <<hardware, process>>
  BY <1>1 DEF JobEnds, hardware, hsm, IsSuspendedAndIdle
<1>2. ASSUME NEW c \in Components, Obey(c)
      PROVE  UNCHANGED <<class, process, hsm, hms>>
  BY <1>2 DEF Obey
<1>3. ASSUME NEW b \in BMCs, Discovered(b)
      PROVE  /\ UNCHANGED <<class, process, slotEnabled, hms>>
             /\ endpoint[b] = "undiscovered"
             /\ \A o \in BMCs : o # b => endpoint'[o] = endpoint[o]
  BY <1>3 DEF Discovered, TypeInv, HardwareShape
<1>4. ~active /\ suspended
  BY DEF IsSuspendedAndIdle
<1> QED
  BY <1>1, <1>2, <1>3, <1>4 DEF Environment, JobStarts, JobPowersOn, JobFinds, hms, hsm,
     IsSuspendedAndIdle

\* Commands other than swap-out disturb nothing, nor does what ends with an error.
LEMMA OthersKeepRemoved ==
  ASSUME RemovedInv, Running', UNCHANGED last,
         command' = "idle" \/ command' = command,
         command \notin {"idle", "swap_out"} \/ Exit("error")
  PROVE  RemovedInv'
  BY DEF RemovedInv, Running, RemovedStaysRemoved, Exit

LEMMA RemovedStep == TypeInv /\ RemovedInv /\ [Next]_vars => RemovedInv'
<1> SUFFICES ASSUME TypeInv, RemovedInv, [Next]_vars PROVE RemovedInv'
  OBVIOUS
<1>1. Running /\ Running'
  BY RunningStep DEF RemovedInv
<1>2. ASSUME NEW cmd \in Commands, Run(cmd) PROVE RemovedInv'
  BY <1>1, <1>2, FirstSteps DEF Run, RemovedInv, RemovedStaysRemoved
<1>3. CASE (CabinetStep \/ StartWaiter \/ JobWasScheduled \/ NotScheduledInTime)
             /\ UNCHANGED <<swap, count, last>>
  <2>1. command \notin {"idle", "swap_out"}
    BY <1>3 DEF CabinetStep, CabinetFails, AgreeToPowerOff, SuspendForPowerOff, PowerOff,
       PowerOffLiquidCooled, LiquidCooledAreOff, PowerOffAirCooled, AirCooledAreOff, AtCabinet,
       ResumeForPowerOn, ListForPowerOn, AllAreOn, PollPower, PowerTimesOut, StartWaiter,
       JobWasScheduled, NotScheduledInTime, ResumingCommands
  <2>2. command' = "idle" \/ command' = command
    BY <1>3, CabinetMoves DEF Exit
  <2> QED
    BY <1>1, <1>3, <2>1, <2>2, OthersKeepRemoved
<1>4. CASE SwapStep /\ UNCHANGED <<count, last>> /\ (command = "swap_in" \/ Exit("error"))
  BY <1>1, <1>4, SwapStages, FinishedMoves, OthersKeepRemoved DEF StageEnds, GoTo, Exit, At
<1>5. ASSUME SwapStep, UNCHANGED <<count, last>>, command # "swap_in", ~Exit("error")
      PROVE  RemovedInv'
  <2>1. CASE PreSwapChecks \/ StoreMapping \/ SuspendForSwap
    <3>1. PICK s \in {"check", "store", "suspend"} : At("swap_out", s) /\ Finished(s)
      BY <2>1 DEF PreSwapChecks, StoreMapping, SuspendForSwap, At
    <3>2. dryRun' = dryRun
      BY <2>1 DEF PreSwapChecks, StoreMapping, SuspendForSwap, swap
    <3>3. (dryRun /\ Exit("ok")) \/ GoTo(After(s))
      BY <3>1, FinishedMoves
    <3>4. After(s) \in {"store", "suspend", "await_suspended"}
      BY <3>1, SwapOutOrder
    <3>5. CASE dryRun /\ Exit("ok")
      BY <1>1, <3>2, <3>5 DEF RemovedInv, RemovedStaysRemoved, Running, Exit
    <3>6. CASE GoTo(After(s))
      BY <1>1, <3>1, <3>4, <3>6 DEF RemovedInv, RemovedStaysRemoved, Running, GoTo, At
    <3> QED
      BY <3>3, <3>5, <3>6
  <2>2. CASE CronJobIsSuspended
    BY <1>1, <2>2, FinishedMoves, MountainOut, RiverOut DEF CronJobIsSuspended, hms, hardware,
       RemovedInv, RemovedStaysRemoved, IsSuspendedAndIdle, Running, At, GoTo, Exit, swap
  <2>3. CASE DisableRedfishEndpoints
    <3>1. (\A b \in BMCs : endpoint'[b] = "disabled") /\ Finished("disable_redfish")
      BY <1>5, <2>3 DEF DisableRedfishEndpoints
    <3> QED
      BY <1>1, <2>3, <3>1, FinishedMoves, MountainOut, RiverOut
         DEF DisableRedfishEndpoints, hms, RemovedInv, RemovedStaysRemoved, IsSuspendedAndIdle,
             Running, At, GoTo, Exit, swap
  <2>4. CASE ClearNodeControllers
    BY <1>1, <2>4, FinishedMoves, MountainOut, RiverOut
       DEF ClearNodeControllers, hms, hardware, hsm, RemovedInv, RemovedStaysRemoved,
           IsSuspendedAndIdle, Running, At, GoTo, Exit, swap
  <2>5. CASE PowerOffSlot
    BY <1>1, <2>5, FinishedMoves, MountainOut, RiverOut
       DEF PowerOffSlot, hms, hsm, RemovedInv, RemovedStaysRemoved,
           IsSuspendedAndIdle, Running, At, GoTo, Exit, swap
  <2>6. CASE DisableSlot
    BY <1>1, <2>6, FinishedMoves, SwapOutOrder
       DEF DisableSlot, hms, RemovedInv, RemovedStaysRemoved,
           IsSuspendedAndIdle, Running, At, GoTo, Exit, swap
  <2>7. CASE DeleteEthernetInterfaces
    <3>1. ToDelete' = {} /\ Finished("delete_interfaces")
      BY <1>5, <2>7 DEF DeleteEthernetInterfaces, ToDelete, NodeInterfaces
    <3> QED
      BY <1>1, <2>7, <3>1, FinishedMoves, SwapOutOrder
         DEF DeleteEthernetInterfaces, hms, RemovedInv, RemovedStaysRemoved,
             IsSuspendedAndIdle, Running, At, GoTo, Exit, swap
  <2>8. CASE DeleteRedfishEndpoints
    <3>1. (\A b \in BMCs : endpoint'[b] = "absent") /\ Exit("ok")
      BY <1>5, <2>8 DEF DeleteRedfishEndpoints
    <3> QED
      BY <1>1, <2>8, <3>1
         DEF DeleteRedfishEndpoints, hms, RemovedInv, RemovedStaysRemoved,
             IsSuspendedAndIdle, Running, At, Exit, swap, ToDelete, NodeInterfaces
  <2> QED
    BY <1>5, <2>1, <2>2, <2>3, <2>4, <2>5, <2>6, <2>7, <2>8 DEF SwapStep, StageFails,
       SwapInChecks, ChecksWithMappings, DeleteMapped, CreateMapped,
       EnableSlot, PowerOnSlot, ResumeForSwap, BeginSlotDiscovery,
       WaitForChassisBMCs, WaitForNodeBMCs, WaitForEndpoints, PollEndpoints, EndpointsEnd,
       EnableNodes, At
<1>6. CASE Environment /\ UNCHANGED <<swap, count, last>>
  <2>1. UNCHANGED <<process, swap, last>>
    BY <1>6 DEF Environment, Obey, JobPowersOn, JobFinds, Discovered
  <2>2. CASE ~IsSuspendedAndIdle
    BY <1>1, <2>1, <2>2 DEF RemovedInv, RemovedStaysRemoved, Running, process, swap
  <2>3. CASE IsSuspendedAndIdle
    BY <1>1, <1>6, <2>1, <2>3, NothingComesBack
       DEF RemovedInv, RemovedStaysRemoved, Running, process, swap, ToDelete, NodeInterfaces
  <2> QED
    BY <2>2, <2>3
<1>7. CASE TakeBlade \/ (\E b \in Blades : PutBlade(b)) \/ UNCHANGED vars
  BY <1>1, <1>7 DEF TakeBlade, PutBlade, vars, hms, hardware, hsm, swap, process, RemovedInv,
     RemovedStaysRemoved, IsSuspendedAndIdle, ToDelete, NodeInterfaces
<1> QED
  BY <1>2, <1>3, <1>4, <1>5, <1>6, <1>7 DEF Next, Done, StageFails

\* A blade that was swapped out stays out of HSM until a swap-in, whatever the
\* cron job was doing when swap-out began.
THEOREM RemovedBlade == Spec => []RemovedStaysRemoved
<1>1. Init => RemovedInv
  BY DEF Init, HardwareInit, SwapInit, RemovedInv, RemovedStaysRemoved, Running
<1>2. RemovedInv => RemovedStaysRemoved
  BY DEF RemovedInv
<1> QED
  BY <1>1, <1>2, InitTypeInv, TypeStep, RemovedStep, PTL DEF Spec

(* Cabinets that were powered off stay off *)

PowerOffStage ==
  \/ command = "cabinets_off" /\ step \notin {"prompt", "suspend"}
  \/ last = "cabinets_off" /\ exit = "ok"

\* From the time the cron job is suspended no job starts, and CAPMC is told
\* nothing but to power off, so that what was seen to be off stays off.  What
\* is put into an empty slot is off, too.
PowerInv ==
  /\ Running
  /\ PowerOffStage => suspended /\ (active => jobAtSuspend)
  /\ last = "cabinets_off" => \A c \in Components : ordered[c] # "on"
  /\ blade = "none" => \A c \in Powered \ Chassis : power[c] = "off"
  /\ command = "cabinets_off" /\ step \in {"liquid_wait", "air_off", "air_wait"} /\ ~jobAtSuspend =>
       \A c \in LiquidCooled : power[c] = "off" \/ (step = "liquid_wait" /\ c \in pending)
  /\ command = "cabinets_off" /\ step = "air_wait" /\ ~jobAtSuspend =>
       \A c \in AirCooled : power[c] = "off" \/ c \in pending
  /\ PoweredOffMeansOff

LEMMA NotPoweringOff ==
  ASSUME PowerInv, Running', last' # "cabinets_off", UNCHANGED <<class, blade, power>>
  PROVE  PowerInv'
  BY DEF PowerInv, Running, PowerOffStage, PoweredOffMeansOff, Powered

\* What a step of the stage that powers off does to what CAPMC was told.
LEMMA OrdersAreOff ==
  ASSUME TypeInv, \A c \in Components : ordered[c] # "on", NEW cs, Order(cs, "off")
  PROVE  \A c \in Components : ordered'[c] # "on"
  BY DEF Order

LEMMA CabinetsOffStep ==
  ASSUME TypeInv, PowerInv, Running', CabinetStep, command = "cabinets_off", UNCHANGED last
  PROVE  PowerInv'
<1>1. last = "cabinets_off" /\ \A c \in Components : ordered[c] # "on"
  BY DEF PowerInv, Running
<1>2. CASE CabinetFails \/ \E s \in {"liquid_wait", "air_wait", "on_wait"} : PowerTimesOut(s)
  BY <1>1, <1>2 DEF CabinetFails, PowerTimesOut, Exit, PowerInv, PowerOffStage, PoweredOffMeansOff,
     hardware, components, Powered
<1>3. CASE AgreeToPowerOff
  BY <1>1, <1>3 DEF AgreeToPowerOff, AtCabinet, GoTo, PowerInv, Running, PowerOffStage,
     PoweredOffMeansOff, hardware, components, Powered
<1>4. CASE SuspendForPowerOff
  BY <1>1, <1>4 DEF SuspendForPowerOff, SetSuspendStatus, AtCabinet, GoTo, PowerInv, Running,
     PowerOffStage, PoweredOffMeansOff, hardware, components, Powered
<1>5. CASE PowerOffLiquidCooled \/ PowerOffAirCooled
  <2>1. \A c \in Components : ordered'[c] # "on"
    BY <1>1, <1>5, OrdersAreOff DEF PowerOffLiquidCooled, PowerOffAirCooled, PowerOff
  <2> QED
    BY <1>1, <1>5, <2>1 DEF PowerOffLiquidCooled, PowerOffAirCooled, PowerOff, AtCabinet, GoTo,
       PowerInv, Running, PowerOffStage, PoweredOffMeansOff, hsm, hms, Powered, LiquidCooled, AirCooled
<1>6. CASE LiquidCooledAreOff
  BY <1>1, <1>6 DEF LiquidCooledAreOff, AtCabinet, GoTo, PowerInv, Running, PowerOffStage,
     PoweredOffMeansOff, hardware, hsm, hms, components, Powered, LiquidCooled, AirCooled
<1>7. CASE AirCooledAreOff
  BY <1>1, <1>7 DEF AirCooledAreOff, AtCabinet, Exit, PowerInv, Running, PowerOffStage,
     PoweredOffMeansOff, hardware, hsm, hms, components, Powered, LiquidCooled, AirCooled
<1>8. ASSUME NEW s \in {"liquid_wait", "air_wait"}, PollPower(s, "off")
      PROVE  PowerInv'
  BY <1>1, <1>8 DEF PollPower, Answered, PowerInv, Running, PowerOffStage,
     PoweredOffMeansOff, hardware, hsm, hms, components, Powered, LiquidCooled, AirCooled
<1>9. CASE PollPower("on_wait", "on")
  BY <1>1, <1>9 DEF PollPower, PowerInv, Running, PowerOffStage,
     PoweredOffMeansOff, hardware, hsm, hms, components, Powered, LiquidCooled, AirCooled
<1> QED
  BY <1>2, <1>3, <1>4, <1>5, <1>6, <1>7, <1>8, <1>9 DEF CabinetStep, ResumeForPowerOn,
     ListForPowerOn, AllAreOn, AtCabinet

LEMMA PowerEnvironment ==
  ASSUME TypeInv, PowerInv, Environment, UNCHANGED <<swap, count, last>>
  PROVE  PowerInv'
<1>1. CASE (JobStarts \/ JobEnds) /\ UNCHANGED <<hardware, process>>
  BY <1>1 DEF JobStarts, JobEnds, hardware, process, hsm, swap, components, PowerInv, Running,
     PowerOffStage, PoweredOffMeansOff, Powered, LiquidCooled, AirCooled
<1>2. ASSUME NEW c \in Components, Obey(c) PROVE PowerInv'
  <2>1. UNCHANGED <<class, blade, hsm, process, hms>>
    BY <1>2 DEF Obey
  <2>2. \A d \in Components : /\ d # c => power'[d] = power[d] /\ ordered'[d] = ordered[d]
                            /\ power'[c] = ordered[c] /\ ordered'[c] = "nothing"
    BY <1>2 DEF Obey, TypeInv, HardwareShape
  <2>3. last = "cabinets_off" => power'[c] = "off"
    BY <1>2, <2>2 DEF Obey, PowerInv, TypeInv, HardwareShape
  <2>4. \A d \in Components : last = "cabinets_off" /\ power[d] = "off" => power'[d] = "off"
    BY <2>2, <2>3
  <2>5. \A d \in Components : last = "cabinets_off" => ordered'[d] # "on"
    BY <2>2 DEF PowerInv
  <2>6. blade = "none" => c \in Chassis
    BY <1>2 DEF Obey
  <2>7. LiquidCooled \subseteq Components /\ AirCooled \subseteq Components /\ Powered \subseteq Components
    BY DEF LiquidCooled, AirCooled, Powered, Components
  <2>8. UNCHANGED <<LiquidCooled, AirCooled, Powered>>
    BY <2>1 DEF LiquidCooled, AirCooled, Powered, hsm
  <2> QED
    BY <2>1, <2>2, <2>4, <2>5, <2>6, <2>7, <2>8 DEF PowerInv, Running, PowerOffStage,
       PoweredOffMeansOff, process, hms, swap
<1>3. ASSUME NEW c \in Components, JobPowersOn(c) PROVE PowerInv'
  <2>1. UNCHANGED <<class, blade, ordered, hsm, process, hms>> /\ active
    BY <1>3 DEF JobPowersOn
  <2>2. \A d \in Components : d # c => power'[d] = power[d]
    BY <1>3 DEF JobPowersOn, TypeInv, HardwareShape
  <2>3. blade = "none" => c \in Chassis
    BY <1>3 DEF JobPowersOn
  <2>4. PowerOffStage => jobAtSuspend
    BY <2>1 DEF PowerInv
  <2>5. Powered \subseteq Components /\ UNCHANGED Powered
    BY <2>1 DEF Powered, Components
  <2> QED
    BY <2>1, <2>2, <2>3, <2>4, <2>5 DEF PowerInv, Running, PowerOffStage,
       PoweredOffMeansOff, process, hms, swap
<1>4. ASSUME NEW b \in BMCs, JobFinds(b) \/ Discovered(b) PROVE PowerInv'
  <2>1. UNCHANGED <<class, blade, power, ordered, slotEnabled, command, step, exit, pending,
                    suspended, active, jobAtSuspend, dryRun, last>>
    BY <1>4 DEF JobFinds, Discovered, process, hms, swap, components
  <2>2. UNCHANGED <<LiquidCooled, AirCooled, Powered>>
    BY <2>1 DEF LiquidCooled, AirCooled, Powered
  <2> QED
    BY <2>1, <2>2 DEF PowerInv, Running, PowerOffStage, PoweredOffMeansOff
<1> QED
  BY <1>1, <1>2, <1>3, <1>4 DEF Environment

LEMMA PowerStep == TypeInv /\ PowerInv /\ [Next]_vars => PowerInv'
<1> SUFFICES ASSUME TypeInv, PowerInv, [Next]_vars PROVE PowerInv'
  OBVIOUS
<1>1. Running /\ Running'
  BY RunningStep DEF PowerInv
<1>2. ASSUME NEW cmd \in Commands, Run(cmd) PROVE PowerInv'
  BY <1>1, <1>2, FirstSteps DEF Run, PowerInv, PowerOffStage, PoweredOffMeansOff, Powered
<1>3. CASE (CabinetStep \/ StartWaiter \/ JobWasScheduled \/ NotScheduledInTime)
             /\ UNCHANGED <<swap, count, last>>
  <2>1. CASE CabinetStep /\ command = "cabinets_off"
    BY <1>1, <1>3, <2>1, CabinetsOffStep
  <2>2. CASE ~(CabinetStep /\ command = "cabinets_off")
    <3>1. command \in {"cabinets_on", "swap_in"} /\ UNCHANGED <<class, blade, power>>
      BY <1>3, <2>2 DEF CabinetStep, CabinetFails, AgreeToPowerOff, SuspendForPowerOff, PowerOff,
         PowerOffLiquidCooled, LiquidCooledAreOff, PowerOffAirCooled, AirCooledAreOff, AtCabinet,
         ResumeForPowerOn, ListForPowerOn, AllAreOn, PollPower, PowerTimesOut, StartWaiter,
         JobWasScheduled, NotScheduledInTime, ResumingCommands, hardware, components
    <3> QED
      BY <1>1, <1>3, <3>1, NotPoweringOff DEF Running
  <2> QED
    BY <2>1, <2>2
<1>4. CASE SwapStep /\ UNCHANGED <<count, last>>
  <2>1. command \in {"swap_out", "swap_in"}
    BY <1>4, SwapStages DEF StageEnds, At
  <2>2. UNCHANGED <<class, blade, power>>
    BY <1>4 DEF SwapStep, StageFails, PreSwapChecks, StoreMapping, SuspendForSwap,
       CronJobIsSuspended, DisableRedfishEndpoints, ClearNodeControllers, PowerOffSlot,
       DisableSlot, DeleteEthernetInterfaces, DeleteRedfishEndpoints, SwapInChecks,
       ChecksWithMappings, DeleteMapped, CreateMapped, EnableSlot, PowerOnSlot, ResumeForSwap,
       BeginSlotDiscovery, WaitForChassisBMCs, WaitForNodeBMCs, WaitForEndpoints, PollEndpoints,
       EndpointsEnd, EnableNodes, hardware, components
  <2> QED
    BY <1>1, <1>4, <2>1, <2>2, NotPoweringOff DEF Running
<1>5. CASE Environment /\ UNCHANGED <<swap, count, last>>
  BY <1>5, PowerEnvironment
<1>6. CASE TakeBlade
  BY <1>1, <1>6 DEF TakeBlade, components, process, PowerInv, PowerOffStage,
     PoweredOffMeansOff, Powered
<1>7. ASSUME NEW b \in Blades, PutBlade(b) PROVE PowerInv'
  <2>1. /\ UNCHANGED <<hms, class, power, ordered, hsm, process, last>>
        /\ command = "idle" /\ blade = "none" /\ blade' # "none"
    BY <1>7, HardwareAssumption DEF PutBlade, components
  <2>2. LiquidCooled' \cup AirCooled' \subseteq LiquidCooled \cup (Powered \ Chassis)
    BY <2>1, HardwareAssumption DEF LiquidCooled, AirCooled, Powered, hsm
  <2> QED
    BY <1>1, <2>1, <2>2 DEF PowerInv, PowerOffStage, PoweredOffMeansOff, hms, process
<1>8. CASE UNCHANGED vars
  BY <1>8 DEF vars, hms, hardware, components, hsm, process, swap, PowerInv, Running,
     PowerOffStage, PoweredOffMeansOff, Powered, LiquidCooled, AirCooled
<1> QED
  BY <1>2, <1>3, <1>4, <1>5, <1>6, <1>7, <1>8 DEF Next, Done

\* After the cabinets were powered off, only a job that was running when the
\* cron job was suspended can have something powered on.
THEOREM CabinetsOff == Spec => []PoweredOffMeansOff
<1>1. Init => PowerInv
  BY HardwareAssumption DEF Init, HmsInit, HardwareInit, SwapInit, PowerInv, Running,
     PowerOffStage, PoweredOffMeansOff
<1>2. PowerInv => PoweredOffMeansOff
  BY DEF PowerInv
<1> QED
  BY <1>1, <1>2, InitTypeInv, TypeStep, PowerStep, PTL DEF Spec

(* A resumed cron job has run by the time a command succeeds *)

LEMMA MountainIn ==
  class = "mountain" => After("check_in") = "enable_slot" /\ After("create") = "enable_slot"
  BY DEF After, MountainOrder

\* The steps of a command that resumes, after the waiter saw the job scheduled
\* and after the resume itself.
AfterJob ==
  {"list", "on_wait", "discover", "chassis_wait", "await_chassis", "node_wait", "await_nodes",
   "enable_nodes"}
AfterResume == AfterJob \cup {"start_waiter", "await_scheduled"}
AfterEnable == {"power_on", "resume"} \cup AfterResume

\* A schedule that is newer than the waiter is that of a job since the resume.
\* CAPMC has nothing to carry out any more when cabinets are powered on, and
\* only a job, which powers on, changes the power of what was seen.
ResumeInv ==
  /\ Running
  /\ command \in ResumingCommands =>
       /\ step \in AfterResume => ~suspended
       /\ step = "await_scheduled" /\ scheduled => jobSinceResume
       /\ step \in AfterJob => jobSinceResume
  /\ command = "cabinets_on" =>
       /\ \A c \in Components : ordered[c] = "nothing"
       /\ step = "on_wait" => \A c \in LiquidCooled : power[c] = "on" \/ c \in pending
  /\ command = "swap_in" /\ class = "mountain" /\ step \in AfterEnable => slotEnabled

LEMMA OthersKeepResume ==
  ASSUME Running', command' \notin ResumingCommands
  PROVE  ResumeInv'
  BY DEF ResumeInv, ResumingCommands

LEMMA CabinetsResume ==
  ASSUME ResumeInv, Running', command \in ResumingCommands,
         CabinetStep \/ StartWaiter \/ JobWasScheduled \/ NotScheduledInTime
  PROVE  ResumeInv'
<1>1. CASE command' = "idle"
  BY <1>1, OthersKeepResume DEF ResumingCommands
<1>2. CASE ResumeForPowerOn
  BY <1>2 DEF ResumeForPowerOn, AtCabinet, SetSuspendStatus, GoTo, ResumeInv, AfterResume,
     AfterJob, ResumingCommands, hardware, components
<1>3. CASE StartWaiter
  BY <1>3 DEF StartWaiter, StartScheduledWaiter, GoTo, ResumeInv, AfterEnable, AfterResume,
     AfterJob, hardware, components, hsm
<1>4. CASE JobWasScheduled
  BY <1>4, FirstSteps DEF JobWasScheduled, HasBeenScheduled, GoTo, ResumeInv, AfterEnable,
     AfterResume, AfterJob, ResumingCommands, hardware, components, hsm, hms
<1>5. CASE ListForPowerOn
  BY <1>5 DEF ListForPowerOn, AtCabinet, GoTo, ResumeInv, AfterResume, AfterJob,
     ResumingCommands, hardware, components, hsm, hms, LiquidCooled
<1>6. ASSUME NEW s \in {"liquid_wait", "air_wait", "on_wait"}, NEW goal \in {"on", "off"},
             s = "on_wait" => goal = "on", PollPower(s, goal)
      PROVE  ResumeInv'
  BY <1>6 DEF PollPower, Answered, ResumeInv, AfterResume, AfterJob,
     ResumingCommands, hardware, components, hsm, hms, LiquidCooled
<1> QED
  BY <1>1, <1>2, <1>3, <1>4, <1>5, <1>6 DEF CabinetStep, CabinetFails, AgreeToPowerOff,
     SuspendForPowerOff, PowerOff, PowerOffLiquidCooled, LiquidCooledAreOff, PowerOffAirCooled,
     AirCooledAreOff, AtCabinet, AllAreOn, PowerTimesOut, NotScheduledInTime, Exit,
     ResumingCommands

LEMMA SwapResume ==
  ASSUME ResumeInv, Running', SwapStep, command \in ResumingCommands, command' # "idle"
  PROVE  ResumeInv'
<1>1. CASE SwapInChecks \/ DeleteMapped \/ CreateMapped
  BY <1>1, FinishedMoves, SwapInOrder, MountainIn DEF SwapInChecks, DeleteMapped, CreateMapped,
     At, GoTo, Exit, ResumeInv, AfterEnable, AfterResume, AfterJob, ResumingCommands, hardware, hsm
<1>2. CASE EnableSlot \/ PowerOnSlot
  BY <1>2, FinishedMoves, SwapInOrder DEF EnableSlot, PowerOnSlot, At, GoTo, Exit, ResumeInv,
     AfterEnable, AfterResume, AfterJob, ResumingCommands, hardware, hsm
<1>3. CASE ResumeForSwap
  BY <1>3, FinishedMoves, SwapInOrder DEF ResumeForSwap, SetSuspendStatus, At, GoTo, Exit,
     ResumeInv, AfterEnable, AfterResume, AfterJob, ResumingCommands, hardware, hsm
<1>4. CASE BeginSlotDiscovery
  BY <1>4, FinishedMoves, SwapInOrder DEF BeginSlotDiscovery, At, GoTo, Exit, ResumeInv,
     AfterEnable, AfterResume, AfterJob, ResumingCommands, hms
<1>5. CASE ChecksWithMappings
  BY <1>5 DEF ChecksWithMappings, At, GoTo, ResumeInv, AfterEnable, AfterResume, AfterJob,
     ResumingCommands
<1>6. CASE WaitForChassisBMCs \/ WaitForNodeBMCs \/ PollEndpoints
           \/ EndpointsEnd("await_chassis", "node_wait")
           \/ EndpointsEnd("await_nodes", "enable_nodes")
  BY <1>6 DEF WaitForChassisBMCs, WaitForNodeBMCs, WaitForEndpoints, PollEndpoints, EndpointsEnd,
     At, GoTo, Exit, ResumeInv, AfterEnable, AfterResume, AfterJob, ResumingCommands, hardware,
     hsm, hms
<1> QED
  BY <1>1, <1>2, <1>3, <1>4, <1>5, <1>6 DEF SwapStep, StageFails, PreSwapChecks, StoreMapping,
     SuspendForSwap, CronJobIsSuspended, DisableRedfishEndpoints, ClearNodeControllers,
     PowerOffSlot, DisableSlot, DeleteEthernetInterfaces, DeleteRedfishEndpoints, EnableNodes,
     At, Exit, ResumingCommands

LEMMA ResumeEnvironment ==
  ASSUME TypeInv, ResumeInv, Running', Environment, UNCHANGED <<swap, count, last>>
  PROVE  ResumeInv'
<1>1. CASE (JobStarts \/ JobEnds) /\ UNCHANGED <<hardware, process>>
  <2>1. UNCHANGED <<class, blade, power, ordered, slotEnabled, command, step, pending, suspended>>
    BY <1>1 DEF JobStarts, JobEnds, hardware, process, hsm, components
  <2>2. jobSinceResume' = TRUE \/ UNCHANGED <<scheduled, jobSinceResume>>
    BY <1>1 DEF JobStarts, JobEnds
  <2> QED
    BY <2>1, <2>2 DEF ResumeInv, LiquidCooled
<1>2. ASSUME NEW c \in Components, Obey(c) PROVE ResumeInv'
  <2>1. command' # "cabinets_on" /\ UNCHANGED <<class, hsm, process, hms>>
    BY <1>2 DEF Obey, ResumeInv, process
  <2> QED
    BY <2>1 DEF ResumeInv, hsm, process, hms
<1>3. ASSUME NEW c \in Components, JobPowersOn(c) PROVE ResumeInv'
  <2>1. UNCHANGED <<class, blade, ordered, hsm, process, hms>>
    BY <1>3 DEF JobPowersOn
  <2>2. \A d \in Components : power[d] = "on" => power'[d] = "on"
    BY <1>3 DEF JobPowersOn, TypeInv, HardwareShape
  <2>3. LiquidCooled \subseteq Components /\ UNCHANGED LiquidCooled
    BY <2>1 DEF LiquidCooled, Components, hsm
  <2> QED
    BY <2>1, <2>2, <2>3 DEF ResumeInv, hsm, process, hms
<1>4. ASSUME NEW b \in BMCs, JobFinds(b) \/ Discovered(b) PROVE ResumeInv'
  <2>1. UNCHANGED <<class, blade, power, ordered, slotEnabled, process, hms>>
    BY <1>4 DEF JobFinds, Discovered, components
  <2> QED
    BY <2>1 DEF ResumeInv, LiquidCooled, process, hms
<1> QED
  BY <1>1, <1>2, <1>3, <1>4 DEF Environment

LEMMA ResumeStep == TypeInv /\ ResumeInv /\ [Next]_vars => ResumeInv'
<1> SUFFICES ASSUME TypeInv, ResumeInv, [Next]_vars PROVE ResumeInv'
  OBVIOUS
<1>1. Running'
  BY RunningStep DEF ResumeInv
<1>2. ASSUME NEW cmd \in Commands, Run(cmd) PROVE ResumeInv'
  BY <1>1, <1>2, FirstSteps DEF Run, ResumeInv, ResumingCommands, AfterEnable, AfterResume,
     AfterJob
<1>3. CASE (CabinetStep \/ StartWaiter \/ JobWasScheduled \/ NotScheduledInTime)
             /\ UNCHANGED <<swap, count, last>>
  <2>1. command' = command \/ command' = "idle"
    BY <1>3, CabinetMoves DEF Exit
  <2> QED
    BY <1>1, <1>3, <2>1, CabinetsResume, OthersKeepResume DEF ResumingCommands
<1>4. CASE SwapStep /\ UNCHANGED <<count, last>>
  <2>1. command' = command \/ command' = "idle"
    BY <1>4, SwapStages, FinishedMoves DEF StageEnds, At, GoTo, Exit
  <2> QED
    BY <1>1, <1>4, <2>1, SwapResume, OthersKeepResume DEF ResumingCommands
<1>5. CASE Environment /\ UNCHANGED <<swap, count, last>>
  BY <1>1, <1>5, ResumeEnvironment
<1>6. CASE TakeBlade \/ \E b \in Blades : PutBlade(b)
  BY <1>1, <1>6, OthersKeepResume DEF TakeBlade, PutBlade, process, ResumingCommands
<1>7. CASE UNCHANGED vars
  BY <1>7 DEF vars, hms, hardware, components, hsm, process, swap, ResumeInv, Running, LiquidCooled
<1> QED
  BY <1>2, <1>3, <1>4, <1>5, <1>6, <1>7 DEF Next, Done

\* A command that resumes the cron job succeeds only after a job was started:
\* what it looked at is on, or its slot is enabled.
THEOREM ResumedIsInService == Spec => ResumedMeansDiscovered
<1>1. Init => ResumeInv
  BY DEF Init, HardwareInit, SwapInit, ResumeInv, Running, ResumingCommands
<1>2. ResumeInv /\ [Next]_vars =>
        [(command \in ResumingCommands /\ exit' = "ok" /\ ~dryRun) => InService']_vars
  <2> SUFFICES ASSUME ResumeInv, Next, command \in ResumingCommands, exit' = "ok", ~dryRun
               PROVE  InService'
    BY DEF vars
  <2>1. exit = "none" /\ last = command
    BY DEF ResumeInv, Running, ResumingCommands
  <2>2. CASE AllAreOn /\ UNCHANGED last
    BY <2>1, <2>2 DEF AllAreOn, AtCabinet, ResumeInv, AfterResume, AfterJob, InService,
       hardware, components, hsm, hms, LiquidCooled
  <2>3. CASE EnableNodes /\ UNCHANGED last
    BY <2>1, <2>3 DEF EnableNodes, At, ResumeInv, AfterEnable, AfterResume, AfterJob, InService,
       hardware, hsm, hms
  <2>4. CASE (CabinetStep \/ StartWaiter \/ JobWasScheduled \/ NotScheduledInTime)
               /\ ~AllAreOn
    BY <2>1, <2>4 DEF CabinetStep, CabinetFails, AgreeToPowerOff, SuspendForPowerOff, PowerOff,
       PowerOffLiquidCooled, LiquidCooledAreOff, PowerOffAirCooled, AirCooledAreOff, AtCabinet,
       ResumeForPowerOn, ListForPowerOn, PollPower, PowerTimesOut, StartWaiter,
       JobWasScheduled, NotScheduledInTime, ResumingCommands, GoTo, Exit
  <2>5. CASE SwapStep /\ ~EnableNodes
    <3>1. StageFails => exit' = "error"
      BY DEF StageFails, Exit
    <3>2. ASSUME NEW s \in {"check", "store", "suspend", "await_suspended", "disable_redfish",
                    "clear", "power_off", "disable_slot", "delete_interfaces", "check_in", "map",
                    "create", "enable_slot", "power_on", "resume", "discover"}, Finished(s)
          PROVE  exit' = "none"
      BY <2>1, <3>2, FinishedMoves DEF GoTo
    <3> QED
      BY <2>1, <2>5, <3>1, <3>2 DEF SwapStep, PreSwapChecks, StoreMapping,
         SuspendForSwap, CronJobIsSuspended, DisableRedfishEndpoints, ClearNodeControllers,
         PowerOffSlot, DisableSlot, DeleteEthernetInterfaces, DeleteRedfishEndpoints,
         SwapInChecks, ChecksWithMappings, DeleteMapped, CreateMapped, EnableSlot, PowerOnSlot,
         ResumeForSwap, BeginSlotDiscovery, WaitForChassisBMCs, WaitForNodeBMCs,
         WaitForEndpoints, PollEndpoints, EndpointsEnd, At, GoTo, Exit, ResumingCommands
  <2>6. CASE Environment
    BY <2>1, <2>6 DEF Environment, Obey, JobPowersOn, JobFinds, Discovered, process
  <2> QED
    BY <2>1, <2>2, <2>3, <2>4, <2>5, <2>6 DEF Next, Run, TakeBlade, PutBlade, Done,
       ResumingCommands
<1> QED
  BY <1>1, <1>2, InitTypeInv, TypeStep, ResumeStep, PTL DEF Spec, ResumedMeansDiscovered
=============================================================================
