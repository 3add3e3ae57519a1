-------------------------- MODULE SwitchMaintenance --------------------------
(***************************************************************************)
(* The commands with which an admin watches, examines and replaces HSN     *)
(* switches, each on its own: sat sensors (Telemetry), sat diag            *)
(* (Diagnostics), and sat swap switch or cable (PortSwap).                 *)
(***************************************************************************)
EXTENDS PortSwap, Telemetry, Diagnostics

VARIABLE tool  \* the command that the admin uses

vars == <<tool, swap, telemetry, diag>>

Init ==
  /\ tool \in {"sensors", "diag", "swap"}
  /\ SwapInit
  /\ TelemetryInit
  /\ tool # "sensors" => ~untilTimeout
  /\ DiagInit

Sensors(step) == tool = "sensors" /\ step /\ UNCHANGED <<tool, swap, diag>>
Diagnose(step) == tool = "diag" /\ step /\ UNCHANGED <<tool, swap, telemetry>>
Swap(step) == tool = "swap" /\ step /\ UNCHANGED <<tool, telemetry, diag>>

\* The admin is through with the tool; threads whose process was told to exit
\* may be running still.
Finished ==
  /\ \/ mainPc \in {"report", "exit"}
     \/ tool = "swap" /\ swapPc = "idle" /\ swaps = MaxSwaps
  /\ UNCHANGED vars

Next == Sensors(TelemetryNext) \/ Diagnose(DiagNext) \/ Swap(SwapNext) \/ Finished

(* Threads and the commands themselves are scheduled, a query always       *)
(* returns (with a timeout), and time passes; tasks and signals need not   *)
(* happen.                                                                 *)
Spec ==
  /\ Init /\ [][Next]_vars
  /\ WF_vars(Sensors(MainStep))
  /\ \A t \in Threads : WF_vars(Sensors(ThreadStep(t)))
  /\ WF_vars(Diagnose(DiagStep))
  /\ WF_vars(Diagnose(TimePasses))
  /\ WF_vars(Swap(SwapStep))

-----------------------------------------------------------------------------
TypeOK ==
  /\ tool \in {"sensors", "diag", "swap"}
  /\ SwapTypeOK
  /\ TelemetryTypeOK
  /\ DiagTypeOK

(* A port has a policy that exists, although policies and ports are        *)
(* changed by requests of their own, any of which may fail or be served    *)
(* without an answer (create_offline_port_policies, update_ports_state).   *)
PoliciesExist == \A p \in Ports : policy[p] \in policies

\* The ports that a swap is about: all of the switch but those whose list was
\* lost, or both ends of the one cable that the jacks belong to; when they need
\* not belong to one, those given that are in the file, or else all of them.
ToSwap ==
  LET CableOf(j) == UNION {ends \in Range(Cables) : j \in ends}
      inFile == {j \in request.jacks : CableOf(j) # {}}
  IN CASE request.target = "switch" -> (EdgePorts \cup FabricPorts) \ unread
       [] request.target = "cable" /\ ~request.force ->
            JackPorts(UNION {CableOf(j) : j \in request.jacks})
       [] request.target = "cable" /\ request.force ->
            JackPorts(IF inFile = {} THEN request.jacks ELSE inFile)

Succeeded(action) == swapPc = "idle" /\ exit = 0 /\ request.action = action

(* A swap that succeeds has changed every port that it is about, although  *)
(* each port is changed by a request of its own that may fail.             *)
SuccessIsComplete ==
  \A action \in Actions : Succeeded(action) =>
    \A p \in ToSwap : policy[p].offline = (action = "disable")

(* What sat swap reports ready for replacement is offline: all ports of    *)
(* the switch, since get_switch_port_data_list is to return None if there  *)
(* is an error, and the ports of every jack given.  It does not hold.      *)
ReadyMeansOffline ==
  Succeeded("disable") =>
    \A p \in (IF request.target = "switch" THEN EdgePorts \cup FabricPorts
              ELSE JackPorts(request.jacks)) : policy[p].offline

(* A topic that do_sensors does not warn about has sent data of every BMC, *)
(* unless its stream timed out before it sent anything.                    *)
UnwarnedTopicsAreComplete ==
  mainPc = "report" =>
    \A t \in Threads : WarnedOfError(t) \/ WarnedOfTimeout(t) \/ heard[t] = BMCs \/ t \in quiet

(* No thread adds to the results once they are reported.                   *)
ReportIsStable == [][mainPc = "report" => UNCHANGED thread]_vars

(* The threads end, and the command with them, whatever the streams do,    *)
(* unless the ping failed before a later thread.                           *)
SensorsEnd ==
  mainPc = "start" ~> (mainPc \in {"report", "exit"} /\ AllJoined) \/ ending = "no_ping"

(* The threads end after the total timeout also if the ping fails.  It     *)
(* does not hold: nobody sets the stop event.                              *)
ThreadsAreStopped == mainPc = "start" ~> AllJoined

(* When the results are reported, a task may go on only on a switch that   *)
(* was timed out or could not be queried.                                  *)
NoTaskForgotten ==
  result = "reported" =>
    \A x \in Switches : task[x] \in {"pending", "New", "Running"} =>
      taskstate[x] \in {"Exception", "Timed Out"}

(* Only diagnostics that are still running when the time is up are         *)
(* cancelled.  It does not hold: the timeout overrides a late answer.      *)
EndedInTimeIsReported ==
  result = "reported" => \A x \in inTime : taskstate[x] # "Timed Out"
=============================================================================
