------------------------------ MODULE Hardware -------------------------------
(***************************************************************************)
(* What the procedures on hardware work on: the Hardware State Manager     *)
(* (HSM), the power of the components as CAPMC tells it, one blade in its  *)
(* slot, and the command that is running.  The environment is here too:    *)
(* components that obey or do not, and what a hms-discovery job does.      *)
(***************************************************************************)
EXTENDS HmsDiscovery, FiniteSets

CONSTANTS
  Slot,     \* the slot the blade is in
  Nodes,    \* its nodes, named by their position on the blade
  BMCs,     \* its node BMCs
  Chassis,  \* other liquid-cooled components, always enabled
  Blades    \* the blades that are put into the slot, by their MAC addresses

VARIABLES
  class,        \* "mountain" or "river": what kind of blade the slot takes
  blade,        \* the blade in the slot, or "none"
  power,        \* is the component on?
  ordered,      \* what CAPMC told it and it has not done yet
  slotEnabled,  \* HSM: the slot is enabled
  endpoint,     \* HSM: the Redfish endpoint of each BMC
  interfaces,   \* HSM: the ethernet interfaces of the blade
  \* the running command
  command,      \* its name, or "idle"
  step,         \* what it does next
  exit,         \* how the last command ended
  pending,      \* what a waiter still waits for
  failed        \* members whose check raised WaitingFailure

components == <<power, ordered>>
hsm == <<slotEnabled, endpoint, interfaces>>
hardware == <<class, blade, components, hsm>>
process == <<command, step, exit, pending, failed>>

Components == Chassis \cup {Slot} \cup Nodes

\* An interface belongs to a node or a BMC, has the MAC address of a blade and
\* may have an IP address.
Interface(owner, mac, ip) == [owner |-> owner, mac |-> mac, ip |-> ip]
Interfaces == [owner : Nodes \cup BMCs, mac : Blades, ip : BOOLEAN]
NodeInterfaces == {i \in interfaces : i.owner \in Nodes}

HardwareTypeOK ==
  /\ class \in {"mountain", "river"}
  /\ blade \in Blades \cup {"none"}
  /\ power \in [Components -> {"on", "off"}]
  /\ ordered \in [Components -> {"on", "off", "nothing"}]
  /\ slotEnabled \in BOOLEAN
  /\ endpoint \in [BMCs -> {"absent", "disabled", "undiscovered", "ok"}]
  /\ interfaces \subseteq Interfaces
  /\ exit \in {"none", "ok", "error"}
  /\ pending \subseteq Components \cup BMCs
  /\ failed \subseteq BMCs

\* A blade in service, its interfaces with addresses.
HardwareInit ==
  /\ class \in {"mountain", "river"}
  /\ blade \in Blades
  /\ power \in {[c \in Components |-> p] : p \in {"on", "off"}}
  /\ ordered = [c \in Components |-> "nothing"]
  /\ slotEnabled = TRUE
  /\ endpoint = [b \in BMCs |-> "ok"]
  /\ interfaces = {Interface(o, blade, TRUE) : o \in Nodes \cup BMCs}
  /\ command = "idle"
  /\ step = "none"
  /\ exit = "none"
  /\ pending = {}
  /\ failed = {}

GoTo(s) == step' = s /\ UNCHANGED <<command, exit>>

Exit(code) ==
  /\ command' = "idle"
  /\ step' = "none"
  /\ exit' = code
  /\ pending' = {}
  /\ failed' = {}

Order(cs, goal) ==
  ordered' = [c \in Components |-> IF c \in cs THEN goal ELSE ordered[c]]

\* The power of mountain blades is that of the slot, river nodes have their own.
Powered == Chassis \cup IF class = "mountain" THEN {Slot} ELSE Nodes

\* An empty slot stays off whatever it is told.
Obey(c) ==
  /\ ordered[c] # "nothing"
  /\ c \in Chassis \/ blade # "none"
  /\ power' = [power EXCEPT ![c] = ordered[c]]
  /\ ordered' = [ordered EXCEPT ![c] = "nothing"]
  /\ UNCHANGED <<class, blade, hsm, process, hms>>

\* A job powers on liquid-cooled components that are enabled and populated.
JobPowersOn(c) ==
  /\ active
  /\ \/ c \in Chassis
     \/ c = Slot /\ class = "mountain" /\ slotEnabled /\ blade # "none"
  /\ power[c] = "off"
  /\ power' = [power EXCEPT ![c] = "on"]
  /\ UNCHANGED <<class, blade, ordered, hsm, process, hms>>

\* A job finds a BMC that HSM has no endpoint of.
JobFinds(b) ==
  /\ active
  /\ blade # "none"
  /\ endpoint[b] = "absent"
  /\ endpoint' = [endpoint EXCEPT ![b] = "undiscovered"]
  /\ UNCHANGED <<class, blade, components, slotEnabled, interfaces, process, hms>>

\* HSM completes the discovery of an endpoint and notes the interfaces the
\* blade has and HSM does not know.
Discovered(b) ==
  /\ endpoint[b] = "undiscovered"
  /\ blade # "none"
  /\ endpoint' = [endpoint EXCEPT ![b] = "ok"]
  /\ interfaces' = interfaces \cup
       {Interface(o, blade, FALSE) :
          o \in {o \in Nodes \cup {b} : Interface(o, blade, TRUE) \notin interfaces}}
  /\ UNCHANGED <<class, blade, components, slotEnabled, process, hms>>

Environment ==
  \/ (JobStarts \/ JobEnds) /\ UNCHANGED <<hardware, process>>
  \/ \E c \in Components : Obey(c) \/ JobPowersOn(c)
  \/ \E b \in BMCs : JobFinds(b) \/ Discovered(b)
=============================================================================
