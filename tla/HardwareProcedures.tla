------------------------- MODULE HardwareProcedures --------------------------
(***************************************************************************)
(* The commands that suspend and resume the hms-discovery cron job, as an  *)
(* admin runs them one after the other: the cabinet-power stages of sat    *)
(* bootsys and sat swap blade.  A command may follow on one that failed at *)
(* any stage, and the cron job runs whenever it is not suspended.          *)
(***************************************************************************)
EXTENDS BladeSwap, Naturals, TLC

CONSTANT MaxCommands  \* a bound for TLC

VARIABLES
  count,  \* the commands so far
  last    \* the last command that has ended

vars == <<hms, hardware, process, swap, count, last>>

ASSUME HardwareAssumption ==
  /\ MaxCommands \in Nat
  /\ Slot \notin Chassis
  /\ "none" \notin Blades
  /\ (Chassis \cup {Slot} \cup Nodes) \cap BMCs = {}
  /\ (Chassis \cup {Slot}) \cap Nodes = {}

Commands == {"cabinets_off", "cabinets_on", "swap_out", "swap_in"}
First ==
  [cabinets_off |-> "prompt", cabinets_on |-> "resume",
   swap_out |-> "check", swap_in |-> "check_in"]

Steps ==
  {"none", "prompt", "suspend", "liquid_off", "liquid_wait", "air_off", "air_wait",
   "resume", "start_waiter", "await_scheduled", "list", "on_wait"}
    \cup DOMAIN MountainOrder
    \cup {"delete_redfish", "await_chassis", "await_nodes", "enable_nodes"}

TypeOK ==
  /\ HmsTypeOK
  /\ HardwareTypeOK
  /\ SwapTypeOK
  /\ command \in Commands \cup {"idle"}
  /\ step \in Steps
  /\ count \in 0..MaxCommands
  /\ last \in Commands \cup {"none"}

Init ==
  /\ HmsInit
  /\ HardwareInit
  /\ SwapInit
  /\ count = 0
  /\ last = "none"

\* A swap can be tried without any effect.  blade_class is asked first; if HSM
\* cannot tell, the command ends at once, which is StageFails.  What CAPMC was
\* told earlier has been done by now, or is lost.
Run(cmd) ==
  /\ command = "idle"
  /\ count < MaxCommands
  /\ count' = count + 1
  /\ command' = cmd
  /\ step' = First[cmd]
  /\ last' = cmd
  /\ exit' = "none"
  /\ ordered' = [c \in Components |-> "nothing"]
  /\ dryRun' \in IF cmd \in {"swap_out", "swap_in"} THEN BOOLEAN ELSE {FALSE}
  /\ mapping' = {}
  /\ UNCHANGED <<hms, class, blade, power, hsm, pending, failed, files>>

\* The admin takes a blade out that was powered off, even if swap-out failed
\* at a later stage, and puts one in.
TakeBlade ==
  /\ command = "idle"
  /\ last = "swap_out"
  /\ blade # "none"
  /\ \A c \in Powered \ Chassis : power[c] = "off"
  /\ blade' = "none"
  /\ UNCHANGED <<hms, class, components, hsm, process, swap, count, last>>

PutBlade(b) ==
  /\ command = "idle"
  /\ blade = "none"
  /\ blade' = b
  /\ UNCHANGED <<hms, class, components, hsm, process, swap, count, last>>

\* The admin is done.
Done ==
  /\ command = "idle"
  /\ count = MaxCommands
  /\ UNCHANGED vars

Next ==
  \/ \E cmd \in Commands : Run(cmd)
  \/ (CabinetStep \/ StartWaiter \/ JobWasScheduled \/ NotScheduledInTime)
       /\ UNCHANGED <<swap, count, last>>
  \/ SwapStep /\ UNCHANGED <<count, last>>
  \/ Environment /\ UNCHANGED <<swap, count, last>>
  \/ TakeBlade
  \/ \E b \in Blades : PutBlade(b)
  \/ Done

Spec == Init /\ [][Next]_vars

\* For TLC: no node and no BMC is distinguished.
Symmetry == Permutations(Nodes) \cup Permutations(BMCs)

(* Properties *)

\* Once swap-out has succeeded, the blade stays out of HSM: its slot is
\* disabled, and no job brings back its endpoints or interfaces, since the command waited until no job was running.
RemovedStaysRemoved ==
  last = "swap_out" /\ exit = "ok" /\ ~dryRun =>
    /\ IsSuspendedAndIdle
    /\ ~slotEnabled
    /\ \A b \in BMCs : endpoint[b] = "absent"
    /\ ToDelete = {}

\* However often swaps fail and are repeated, an address that a node had is in
\* HSM or in one of the stored mappings: it is never lost with the interface.
AddressesRecorded ==
  \A n \in Nodes :
    \/ \E i \in NodeInterfaces : i.owner = n /\ i.ip
    \/ \E f \in files : n \in f

\* The address of a node belongs to one MAC address only, though blades come
\* and go and swaps end half way.
OneHolderPerAddress ==
  \A i, j \in NodeInterfaces : i.owner = j.owner /\ i.ip /\ j.ip => i = j

\* After the cabinets were powered off, what is on was not left on: a job that
\* was running when the cron job was suspended has powered it on since.
PoweredOffMeansOff ==
  last = "cabinets_off" /\ exit = "ok" /\ ~jobAtSuspend =>
    \A c \in LiquidCooled \cup AirCooled : power[c] = "off"

InService ==
  /\ jobSinceResume /\ ~suspended
  /\ last = "cabinets_on" => \A c \in LiquidCooled : power[c] = "on"
  /\ last = "swap_in" /\ class = "mountain" => slotEnabled

\* A command that resumes the cron job succeeds only if a job was started
\* after that; by then what the cabinets contain is on, or the slot of a mountain
\* blade has been enabled, so that the job could find it.
ResumedMeansDiscovered ==
  [][(command \in ResumingCommands /\ exit' = "ok" /\ ~dryRun) => InService']_vars

\* wait_for_endpoints: "BladeSwapError: if there is a problem waiting for the
\* components to be discovered".  When swap-in succeeds, HSM has completed the
\* discovery of every BMC of the blade.
SuccessMeansDiscovered ==
  last = "swap_in" /\ exit = "ok" /\ ~dryRun =>
    \A b \in BMCs : endpoint[b] \in {"ok", "disabled"}
=============================================================================
