------------------------ MODULE MCSwitchMaintenance -------------------------
(* A switch with two edge ports and a fabric port.  The point-to-point file   *)
(* has a cable to a port of another switch and one to a NIC, but neither the   *)
(* jack of an edge port nor one without ports.  Two topics and two BMCs; two   *)
(* switches to diagnose.                                                       *)
EXTENDS SwitchMaintenance
CONSTANTS e1, e2, f1, far, b1, b2
MCPorts == {e1, e2, f1, far}
MCJacks == {"j1", "j2", "j3", "j4", "j5"}
MCJack == e1 :> "j1" @@ e2 :> "j4" @@ f1 :> "j2" @@ far :> "j3"
MCEdge == {e1, e2}
MCFabric == {f1}
MCOthers == {"nic"}
MCCables == <<{"j2", "j3"}, {"j1", "nic"}>>
MCOnline == e1 :> "edge" @@ e2 :> "other" @@ f1 :> "fabric" @@ far :> "fabric"
MCTopics == <<"cray-telemetry-power", "cray-telemetry-voltage">>
MCBMCs == {b1, b2}
MCSwitches == {"x1", "x2"}
=============================================================================
