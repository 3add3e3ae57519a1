------------------------------ MODULE PortSwap -------------------------------
(***************************************************************************)
(* sat swap switch and sat swap cable: the ports of a switch or of both    *)
(* ends of a cable are collected from the fabric manager and put under an  *)
(* OFFLINE port policy, or back under their own.  Sources:                 *)
(* sat/cli/swap/{main,switch,cable,swap,ports,cable_endpoints}.py.         *)
(*                                                                         *)
(* What a call returns is a set of at most one value: {} stands for None.  *)
(* The copy of the port list that --save-ports writes is never read again  *)
(* and is left out.                                                        *)
(***************************************************************************)
EXTENDS Naturals, FiniteSets, Sequences, SequencesExt

CONSTANTS
  Ports,        \* the ports that the fabric manager knows
  Jacks,        \* the jacks
  Jack,         \* the jack of each port
  EdgePorts,    \* the edge ports of the switch that is swapped
  FabricPorts,  \* its fabric ports
  Others,       \* ends of cables, and arguments, that are not jacks
  Cables,       \* the rows of the point-to-point file, each as its set of ends
  Online,       \* the policies of the ports at first
  MaxSwaps      \* a bound for TLC: the commands that the admin runs

ASSUME PortSwapAssumption ==
  /\ Jack \in [Ports -> Jacks]
  /\ DOMAIN Online = Ports
  /\ EdgePorts \cup FabricPorts \subseteq Ports
  /\ Others \cap Jacks = {}
  /\ Cables \in Seq(SUBSET (Jacks \cup Others))
  /\ MaxSwaps \in Nat

VARIABLES
  policies,  \* the port policies that exist in the fabric manager
  policy,    \* the policy of each port
  swapPc,
  request,   \* the arguments of the command
  found,     \* port_data_list: the ports to change, with the policies read
  todo,      \* the policies yet to create, then the ports yet to update
  success,   \* what update_ports_state will return
  exit,      \* the exit code of the last command, 0 if it succeeded
  unread,    \* the ports of the switch that get_switch_port_data_list lost
  swaps

swap == <<policies, policy, swapPc, request, found, todo, success, exit, unread, swaps>>

Policy == [name : Range(Online), offline : BOOLEAN]  \* offline: 'sat-offline-'
Actions == {"enable", "disable"}
Requests ==
  [target : {"switch"}, action : Actions \cup {"none"}]
    \cup [target : {"cable"}, action : Actions \cup {"none"},
          jacks : (SUBSET (Jacks \cup Others)) \ {{}}, force : BOOLEAN]

SwapTypeOK ==
  /\ policies \subseteq Policy
  /\ policy \in [Ports -> Policy]
  /\ swapPc \in {"idle", "collect", "create", "update"}
  /\ request \in Requests
  /\ DOMAIN found \subseteq Ports /\ \A p \in DOMAIN found : found[p] \in Policy
  /\ todo \subseteq (IF swapPc = "create" THEN policies ELSE DOMAIN found)
  /\ success \in BOOLEAN
  /\ exit \in 0..5
  /\ unread \subseteq EdgePorts \cup FabricPorts
  /\ swaps \in 0..MaxSwaps

-----------------------------------------------------------------------------
(* CableEndpoints: the point-to-point file of the cabling.                 *)

\* The copy of the file is missing or has no row: {}.
LoadCables == {{}} \cup (IF Cables = <<>> THEN {} ELSE {{Cables}})

\* The first cable in which a jack is found.
GetCable(rows, jack) ==
  LET with == {i \in DOMAIN rows : jack \in rows[i]}
  IN {rows[i] : i \in {j \in with : \A k \in with : j <= k}}

\* Fault: the jack of the other end is forgotten.
OnlyThisJack(rows, jack) == {jack}

LinkedJacks(rows, jack) == (UNION GetCable(rows, jack)) \cap Jacks

ValidJacks(rows, jacks) ==
  /\ \A j \in jacks : GetCable(rows, j) # {}
  /\ \A i, j \in jacks : GetCable(rows, i) = GetCable(rows, j)

-----------------------------------------------------------------------------
(* PortManager: calls of the fabric manager, each of which may fail.       *)

GetPorts == {{}, {Ports}}

\* The document of the switch; either list of links may be missing from it,
\* and then the lists read after it are lost as well.
GetSwitch ==
  {{}, {[edge |-> EdgePorts, fabric |-> FabricPorts]},
   {[edge |-> EdgePorts, fabric |-> {}]}, {[edge |-> {}, fabric |-> {}]}}

GetPort(p, broken) == IF p \in broken THEN {} ELSE {policy[p]}

\* The list is given up at the first port whose document cannot be read.
GetPortData(links, broken) ==
  IF \E p \in links : GetPort(p, broken) = {} THEN {}
  ELSE {[p \in links |-> CHOOSE q \in GetPort(p, broken) : TRUE]}

JackPorts(jacks) == {p \in Ports : Jack[p] \in jacks}

\* The jacks whose ports are changed: those linked to the jacks given, or only
\* the jacks given if the file is of no use and that is forced.
JacksToSwap(rows) ==
  LET linked == UNION {LinkedJacks(r, j) : r \in rows, j \in request.jacks}
  IN IF linked = {} THEN request.jacks ELSE linked

JacksAccepted(rows) ==
  /\ request.jacks \subseteq Jacks
  /\ request.force \/ \E r \in rows : ValidJacks(r, request.jacks)

\* The data of either list is enough; both are lost only together.
JoinLists(edge, fabric) ==
  IF edge \cup fabric = {} THEN {}
  ELSE {[p \in UNION {DOMAIN d : d \in edge \cup fabric} |-> policy[p]]}

-----------------------------------------------------------------------------
SwapInit ==
  /\ policies = {[name |-> n, offline |-> FALSE] : n \in Range(Online)}
  /\ policy = [p \in Ports |-> [name |-> Online[p], offline |-> FALSE]]
  /\ swapPc = "idle"
  /\ request = [target |-> "switch", action |-> "none"]
  /\ found = <<>>
  /\ todo = {}
  /\ success = TRUE
  /\ exit = 0
  /\ unread = {}
  /\ swaps = 0

\* check_arguments has accepted the arguments: either an action is given or it
\* is a dry run ("none").  An admin who declines the prompt changes nothing.
StartSwap(r) ==
  /\ swapPc = "idle"
  /\ swaps < MaxSwaps
  /\ swaps' = swaps + 1
  /\ request' = r
  /\ swapPc' = "collect"
  /\ found' = <<>>
  /\ todo' = {}
  /\ success' = TRUE
  /\ exit' = 0
  /\ unread' = {}
  /\ UNCHANGED <<policies, policy>>

Exit(code) == exit' = code /\ swapPc' = "idle" /\ todo' = {}

Base(ps) == {q \in ps : ~q.offline}

\* get_and_check_ports, and what swap_component does with its result.
CheckPorts(data) ==
  IF data = {} THEN Exit(2) /\ UNCHANGED found
  ELSE /\ found' \in data
       /\ \/ DOMAIN found' = {} /\ Exit(3)
          \/ DOMAIN found' # {} /\ request.action = "none" /\ Exit(0)
          \/ /\ DOMAIN found' # {} /\ request.action = "enable"
             /\ swapPc' = "update" /\ todo' = DOMAIN found' /\ UNCHANGED exit
          \/ /\ DOMAIN found' # {} /\ request.action = "disable"
             /\ swapPc' = "create" /\ todo' = Base(Range(found')) /\ UNCHANGED exit

SwitchData(links, broken) ==
  JoinLists(GetPortData(links.edge, broken), GetPortData(links.fabric, broken))

CollectSwitchPorts ==
  /\ swapPc = "collect"
  /\ request.target = "switch"
  /\ \E document \in GetSwitch, broken \in SUBSET (EdgePorts \cup FabricPorts) :
       CheckPorts(UNION {SwitchData(links, broken) : links \in document})
  /\ unread' = (EdgePorts \cup FabricPorts) \ DOMAIN found'
  /\ UNCHANGED <<policies, policy, request, success, swaps>>

CollectJackPorts ==
  /\ swapPc = "collect"
  /\ request.target = "cable"
  /\ \E rows \in LoadCables, ports \in GetPorts, broken \in SUBSET Ports :
       CheckPorts(IF ~JacksAccepted(rows) \/ ports = {} THEN {}
                  ELSE GetPortData(JackPorts(JacksToSwap(rows)), broken))
  /\ UNCHANGED <<policies, policy, request, success, unread, swaps>>

Offline(q) == [q EXCEPT !.offline = TRUE]

\* Fault: an error answer passes for a policy that exists.
CreateOutcomesUnchecked(q) == {policies, policies \cup {Offline(q)}} \X {TRUE}

GetPortPolicies == {{}, {policies}}

\* create_offline_port_policy: what becomes of the policies, and whether it
\* returns True.  A request that is answered by an error may have been served.
CreateOutcomes(q) ==
  UNION {IF listed = {} THEN {<<policies, FALSE>>}
         ELSE IF Offline(q) \in UNION listed THEN {<<policies, TRUE>>}
         ELSE {<<policies, FALSE>>} \cup ({policies \cup {Offline(q)}} \X BOOLEAN)
         : listed \in GetPortPolicies}

\* The policies are created one by one; the first error ends the command.
CreatePolicy(q) ==
  /\ swapPc = "create"
  /\ q \in todo
  /\ \E o \in CreateOutcomes(q) :
       /\ policies' = o[1]
       /\ IF o[2] THEN todo' = todo \ {q} /\ UNCHANGED <<swapPc, exit>> ELSE Exit(4)
  /\ UNCHANGED <<policy, request, found, success, unread, swaps>>

PoliciesCreated ==
  /\ swapPc = "create"
  /\ todo = {}
  /\ swapPc' = "update"
  /\ todo' = DOMAIN found
  /\ UNCHANGED <<policies, policy, request, found, success, exit, unread, swaps>>

\* The policy that suits the action, made of the one that was read.
NewPolicy(q) == [q EXCEPT !.offline = (request.action = "disable")]

\* update_port_policy_link, in the same way.
UpdateOutcomes(p) ==
  {<<policy, FALSE>>} \cup ({[policy EXCEPT ![p] = NewPolicy(found[p])]} \X BOOLEAN)

\* update_ports_state goes on after an error.
UpdatePort(p) ==
  /\ swapPc = "update"
  /\ p \in todo
  /\ \E o \in UpdateOutcomes(p) : policy' = o[1] /\ success' = (success /\ o[2])
  /\ todo' = todo \ {p}
  /\ UNCHANGED <<policies, swapPc, request, found, exit, unread, swaps>>

PortsUpdated ==
  /\ swapPc = "update"
  /\ todo = {}
  /\ Exit(IF success THEN 0 ELSE 5)
  /\ UNCHANGED <<policies, policy, request, found, success, unread, swaps>>

SwapStep ==
  \/ CollectSwitchPorts \/ CollectJackPorts
  \/ \E q \in Policy : CreatePolicy(q)
  \/ PoliciesCreated
  \/ \E p \in Ports : UpdatePort(p)
  \/ PortsUpdated

SwapNext == SwapStep \/ \E r \in Requests : StartSwap(r)
=============================================================================
