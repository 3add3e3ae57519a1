------------------------------ MODULE BladeSwap ------------------------------
(***************************************************************************)
(* sat/cli/swap/blade.py: sat swap blade takes a blade out of the system   *)
(* (SwapOutProcedure) and takes one in (SwapInProcedure), one stage after  *)
(* the other.  A stage that fails ends the command where it is; nothing is *)
(* undone, and the admin may run the command again.                        *)
(***************************************************************************)
EXTENDS CabinetPower

VARIABLES
  dryRun,   \* blade_swap_stage.dry_run
  files,    \* the stored mappings, each the set of nodes it has addresses of
  mapping   \* the interfaces that swap-in is about to create

swap == <<dryRun, files, mapping>>

SwapTypeOK ==
  /\ dryRun \in BOOLEAN
  /\ files \subseteq SUBSET Nodes
  /\ mapping \subseteq Interfaces

SwapInit ==
  /\ dryRun = FALSE
  /\ files = {}
  /\ mapping = {}

(* What follows on each stage, by the class of the blade. *)

MountainOrder ==
  [check |-> "store", store |-> "suspend", suspend |-> "await_suspended",
   await_suspended |-> "disable_redfish", disable_redfish |-> "clear",
   clear |-> "power_off", power_off |-> "disable_slot",
   disable_slot |-> "delete_interfaces", delete_interfaces |-> "delete_redfish",
   check_in |-> "enable_slot", map |-> "create", create |-> "enable_slot",
   enable_slot |-> "power_on", power_on |-> "resume", resume |-> "start_waiter",
   discover |-> "chassis_wait", chassis_wait |-> "node_wait", node_wait |-> "enable_nodes"]

RiverOrder ==
  [MountainOrder EXCEPT
     !.await_suspended = "power_off", !.power_off = "clear",
     !.clear = "disable_redfish", !.disable_redfish = "disable_slot",
     !.check_in = "resume", !.create = "resume", !.discover = "node_wait"]

After(s) == IF class = "mountain" THEN MountainOrder[s] ELSE RiverOrder[s]

\* In a dry run only the stages with allow_in_dry_run are executed.
Finished(s) ==
  IF dryRun /\ After(s) # "store" THEN Exit("ok")
  ELSE GoTo(After(s)) /\ UNCHANGED <<pending, failed>>

At(cmd, s) == command = cmd /\ step = s

\* A check that is not passed, a file or service that cannot be used, or a
\* prompt that is declined.
StageFails ==
  /\ command \in {"swap_out", "swap_in"}
  /\ step \notin {"await_scheduled", "await_chassis", "await_nodes"}
  /\ Exit("error")
  /\ UNCHANGED <<hardware, hms, swap>>

(* Taking a blade out *)

\* pre_swap_checks: no node of the blade is ready, as HSM knows it.
PreSwapChecks ==
  /\ At("swap_out", "check")
  /\ Finished("check")
  /\ UNCHANGED <<hardware, hms, swap>>

\* Fault: the mapping is written over the one that is there.
StoredOver(m) == IF m = {} THEN files ELSE {m}

\* store_ip_mac_address_mapping: one more file, if there are any addresses.
Stored(m) == IF m = {} THEN files ELSE files \cup {m}
Addressed == {i.owner : i \in {i \in NodeInterfaces : i.ip}}

StoreMapping ==
  /\ At("swap_out", "store")
  /\ files' = Stored(Addressed)
  /\ Finished("store")
  /\ UNCHANGED <<hardware, hms, dryRun, mapping>>

SuspendForSwap ==
  /\ At("swap_out", "suspend")
  /\ SetSuspendStatus(TRUE)
  /\ Finished("suspend")
  /\ UNCHANGED <<hardware, swap>>

\* The waiter has a timeout and raises what the cron job's query raises, both
\* of which are StageFails.
CronJobIsSuspended ==
  /\ At("swap_out", "await_suspended")
  /\ IsSuspendedAndIdle
  /\ Finished("await_suspended")
  /\ UNCHANGED <<hardware, hms, swap>>

\* HSM knows no endpoint that was deleted, which is an error here.
DisableRedfishEndpoints ==
  /\ At("swap_out", "disable_redfish")
  /\ \E done \in SUBSET {b \in BMCs : endpoint[b] # "absent"} :
       /\ endpoint' = [b \in BMCs |-> IF b \in done THEN "disabled" ELSE endpoint[b]]
       /\ IF done = BMCs THEN Finished("disable_redfish") ELSE Exit("error")
  /\ UNCHANGED <<class, blade, components, slotEnabled, interfaces, hms, swap>>

\* prompt_clear_node_controller_settings
ClearNodeControllers ==
  /\ At("swap_out", "clear")
  /\ Finished("clear")
  /\ UNCHANGED <<hardware, hms, swap>>

\* Of a river blade, the nodes that CAPMC reports to be on.
PowerOffSlot ==
  /\ At("swap_out", "power_off")
  /\ IF class = "mountain"
     THEN Order({Slot}, "off")
     ELSE \E on \in SUBSET {n \in Nodes : power[n] = "on"} : Order(on, "off")
  /\ Finished("power_off")
  /\ UNCHANGED <<class, blade, power, hsm, hms, swap>>

DisableSlot ==
  /\ At("swap_out", "disable_slot")
  /\ slotEnabled' = FALSE
  /\ Finished("disable_slot")
  /\ UNCHANGED <<class, blade, components, endpoint, interfaces, hms, swap>>

\* Those of the nodes, and for river blades those of the BMCs as well.
ToDelete == IF class = "river" THEN interfaces ELSE NodeInterfaces

DeleteEthernetInterfaces ==
  /\ At("swap_out", "delete_interfaces")
  /\ \E gone \in SUBSET ToDelete :
       /\ interfaces' = interfaces \ gone
       /\ IF gone = ToDelete THEN Finished("delete_interfaces") ELSE Exit("error")
  /\ UNCHANGED <<class, blade, components, slotEnabled, endpoint, hms, swap>>

DeleteRedfishEndpoints ==
  /\ At("swap_out", "delete_redfish")
  /\ \E gone \in SUBSET {b \in BMCs : endpoint[b] # "absent"} :
       /\ endpoint' = [b \in BMCs |-> IF b \in gone THEN "absent" ELSE endpoint[b]]
       /\ Exit(IF gone = BMCs THEN "ok" ELSE "error")
  /\ UNCHANGED <<class, blade, components, slotEnabled, interfaces, hms, swap>>

(* Taking a blade in *)

SwapInChecks ==
  /\ At("swap_in", "check_in")
  /\ Finished("check_in")
  /\ UNCHANGED <<hardware, hms, swap>>

\* The checks of swap-in, when both mappings are given.
ChecksWithMappings ==
  /\ At("swap_in", "check_in")
  /\ ~dryRun
  /\ files # {}
  /\ GoTo("map")
  /\ UNCHANGED <<hardware, hms, swap, pending, failed>>

\* merge_mappings: the addresses of dst for the MAC addresses of src, whose
\* nodes must be at the same positions of the blade.
CanMerge(src, dst) == Cardinality(src) = Cardinality(dst) /\ src \subseteq dst
Merged(src) == {Interface(n, blade, TRUE) : n \in src}

\* Fault: the interfaces of the nodes are kept.
DeleteNothing ==
  /\ At("swap_in", "map")
  /\ blade # "none"
  /\ \E dst \in files, src \in (SUBSET Nodes) \ {{}} :
       CanMerge(src, dst) /\ mapping' = Merged(src)
  /\ Finished("map")
  /\ UNCHANGED <<hardware, hms, dryRun, files>>

\* map_ip_mac_addresses, up to the deletion of what the nodes have.
DeleteMapped ==
  /\ At("swap_in", "map")
  /\ blade # "none"
  /\ \E dst \in files, src \in (SUBSET Nodes) \ {{}} :
       CanMerge(src, dst) /\ mapping' = Merged(src)
  /\ \E gone \in SUBSET NodeInterfaces :
       /\ interfaces' = interfaces \ gone
       /\ IF gone = NodeInterfaces THEN Finished("map") ELSE Exit("error")
  /\ UNCHANGED <<class, blade, components, slotEnabled, endpoint, hms, dryRun, files>>

\* The interfaces are created one after the other; HSM takes a MAC address
\* once.  The DHCP pod is restarted afterwards, which may fail, too.
Creatable ==
  {i \in mapping : \A j \in interfaces : ~(j.owner = i.owner /\ j.mac = i.mac)}

CreateMapped ==
  /\ At("swap_in", "create")
  /\ \E created \in SUBSET Creatable :
       /\ interfaces' = interfaces \cup created
       /\ IF created = mapping THEN Finished("create") \/ Exit("error") ELSE Exit("error")
  /\ mapping' = {}
  /\ UNCHANGED <<class, blade, components, slotEnabled, endpoint, hms, dryRun, files>>

EnableSlot ==
  /\ At("swap_in", "enable_slot")
  /\ slotEnabled' = TRUE
  /\ Finished("enable_slot")
  /\ UNCHANGED <<class, blade, components, endpoint, interfaces, hms, swap>>

PowerOnSlot ==
  /\ At("swap_in", "power_on")
  /\ Order({Slot}, "on")
  /\ Finished("power_on")
  /\ UNCHANGED <<class, blade, power, hsm, hms, swap>>

ResumeForSwap ==
  /\ At("swap_in", "resume")
  /\ SetSuspendStatus(FALSE)
  /\ Finished("resume")
  /\ UNCHANGED <<hardware, swap>>

\* begin_slot_discovery: without a chassis BMC, or if HSM cannot tell, the
\* stage is left to the cron job.
BeginSlotDiscovery ==
  /\ At("swap_in", "discover")
  /\ \E found \in SUBSET {b \in BMCs : endpoint[b] = "absent" /\ blade # "none"} :
       endpoint' = [b \in BMCs |-> IF b \in found THEN "undiscovered" ELSE endpoint[b]]
  /\ Finished("discover")
  /\ UNCHANGED <<class, blade, components, slotEnabled, interfaces, hms, swap>>

\* wait_for_endpoints waits for the node BMCs that HSM finds below its
\* argument: the chassis BMCs, which may have none, then the BMCs themselves.
WaitForEndpoints(s, members, next) ==
  /\ At("swap_in", s)
  /\ pending' = members
  /\ GoTo(next)
  /\ UNCHANGED <<hardware, hms, swap, failed>>

WaitForChassisBMCs ==
  \E members \in SUBSET BMCs : WaitForEndpoints("chassis_wait", members, "await_chassis")
WaitForNodeBMCs == WaitForEndpoints("node_wait", BMCs, "await_nodes")

\* A round of RedfishEndpointDiscoveryWaiter.  HSM keeps the last discovery
\* status of an endpoint that was disabled; it answers 404 for an absent one,
\* which counts as "not yet".  Other errors raise WaitingFailure.
MayBeDiscovered == {b \in pending : endpoint[b] \in {"ok", "disabled"}}

PollEndpoints ==
  /\ command = "swap_in"
  /\ step \in {"await_chassis", "await_nodes"}
  /\ \E ok \in SUBSET MayBeDiscovered, bad \in SUBSET pending :
       /\ ok \cap bad = {}
       /\ pending' = pending \ (ok \cup bad)
       /\ failed' = failed \cup bad
  /\ UNCHANGED <<hardware, hms, swap, command, step, exit>>

\* The waiter returns when nothing is pending or its time is over.  Only the
\* members that failed matter.
EndpointsEnd(s, next) ==
  /\ At("swap_in", s)
  /\ IF failed # {}
     THEN Exit("error")
     ELSE GoTo(next) /\ pending' = {} /\ failed' = {}
  /\ UNCHANGED <<hardware, hms, swap>>

\* The nodes are enabled in HSM, which nothing that is modelled depends on.
EnableNodes ==
  /\ At("swap_in", "enable_nodes")
  /\ Exit("ok")
  /\ UNCHANGED <<hardware, hms, swap>>

SwapStep ==
  \/ StageFails
  \/ PreSwapChecks \/ StoreMapping \/ SuspendForSwap \/ CronJobIsSuspended
  \/ DisableRedfishEndpoints \/ ClearNodeControllers \/ PowerOffSlot \/ DisableSlot
  \/ DeleteEthernetInterfaces \/ DeleteRedfishEndpoints
  \/ SwapInChecks \/ ChecksWithMappings \/ DeleteMapped \/ CreateMapped
  \/ EnableSlot \/ PowerOnSlot \/ ResumeForSwap \/ BeginSlotDiscovery
  \/ WaitForChassisBMCs \/ WaitForNodeBMCs \/ PollEndpoints
  \/ EndpointsEnd("await_chassis", "node_wait")
  \/ EndpointsEnd("await_nodes", "enable_nodes")
  \/ EnableNodes
=============================================================================
