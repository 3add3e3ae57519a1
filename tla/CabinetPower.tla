---------------------------- MODULE CabinetPower -----------------------------
(***************************************************************************)
(* sat/cli/bootsys/cabinet_power.py: the cabinet-power stages of sat       *)
(* bootsys, with the CAPMC waiter of power.py.  Cabinets are powered off   *)
(* by CAPMC while the hms-discovery cron job is suspended; they are        *)
(* powered on by resuming it.                                              *)
(***************************************************************************)
EXTENDS Hardware

\* get_xnames_for_power_action: liquid-cooled, enabled and not empty.
LiquidCooled ==
  Chassis \cup IF class = "mountain" /\ slotEnabled /\ blade # "none" THEN {Slot} ELSE {}

\* The non-management nodes in river cabinets, enabled or not.
AirCooled == IF class = "river" /\ blade # "none" THEN Nodes ELSE {}

AtCabinet(cmd, s) == command = cmd /\ step = s

\* A prompt that is declined or a query that fails ends the stage.
CabinetFails ==
  /\ command \in {"cabinets_off", "cabinets_on"}
  /\ step \notin {"liquid_wait", "air_wait", "await_scheduled", "on_wait"}
  /\ Exit("error")
  /\ UNCHANGED <<hardware, hms>>

AgreeToPowerOff ==
  /\ AtCabinet("cabinets_off", "prompt")
  /\ GoTo("suspend")
  /\ UNCHANGED <<hardware, hms, pending, failed>>

SuspendForPowerOff ==
  /\ AtCabinet("cabinets_off", "suspend")
  /\ SetSuspendStatus(TRUE)
  /\ GoTo("liquid_off")
  /\ UNCHANGED <<hardware, pending, failed>>

\* CAPMC may refuse some or all of the components, which is only a warning.
PowerOff(s, cs, next) ==
  /\ AtCabinet("cabinets_off", s)
  /\ \E accepted \in SUBSET cs : Order(accepted, "off")
  /\ pending' = cs
  /\ GoTo(next)
  /\ UNCHANGED <<class, blade, power, hsm, hms, failed>>

PowerOffLiquidCooled == PowerOff("liquid_off", LiquidCooled, "liquid_wait")
PowerOffAirCooled == PowerOff("air_off", AirCooled, "air_wait")

\* Fault: any answer of CAPMC is taken for the goal.
AnsweredAnything(goal) == SUBSET pending

\* What a round of CAPMCPowerWaiter may find.  A query that fails counts as
\* "not yet".
Answered(goal) == SUBSET {c \in pending : power[c] = goal}

PollPower(s, goal) ==
  /\ command \in {"cabinets_off", "cabinets_on"}
  /\ step = s
  /\ \E seen \in Answered(goal) : pending' = pending \ seen
  /\ UNCHANGED <<hardware, hms, command, step, exit, failed>>

PowerTimesOut(s) ==
  /\ command \in {"cabinets_off", "cabinets_on"}
  /\ step = s
  /\ pending # {}
  /\ Exit("error")
  /\ UNCHANGED <<hardware, hms>>

LiquidCooledAreOff ==
  /\ AtCabinet("cabinets_off", "liquid_wait")
  /\ pending = {}
  /\ GoTo("air_off")
  /\ UNCHANGED <<hardware, hms, pending, failed>>

AirCooledAreOff ==
  /\ AtCabinet("cabinets_off", "air_wait")
  /\ pending = {}
  /\ Exit("ok")
  /\ UNCHANGED <<hardware, hms>>

ResumeForPowerOn ==
  /\ AtCabinet("cabinets_on", "resume")
  /\ SetSuspendStatus(FALSE)
  /\ GoTo("start_waiter")
  /\ UNCHANGED <<hardware, pending, failed>>

\* The waiter for the next job.  The same steps are part of a blade swap.
ResumingCommands == {"cabinets_on", "swap_in"}
AfterScheduled == [cabinets_on |-> "list", swap_in |-> "discover"]

StartWaiter ==
  /\ command \in ResumingCommands
  /\ step = "start_waiter"
  /\ StartScheduledWaiter
  /\ GoTo("await_scheduled")
  /\ UNCHANGED <<hardware, pending, failed>>

JobWasScheduled ==
  /\ command \in ResumingCommands
  /\ step = "await_scheduled"
  /\ HasBeenScheduled
  /\ GoTo(AfterScheduled[command])
  /\ UNCHANGED <<hardware, hms, pending, failed>>

\* It may be scheduled just after the last look.
NotScheduledInTime ==
  /\ command \in ResumingCommands
  /\ step = "await_scheduled"
  /\ Exit("error")
  /\ UNCHANGED <<hardware, hms>>

ListForPowerOn ==
  /\ AtCabinet("cabinets_on", "list")
  /\ pending' = LiquidCooled
  /\ GoTo("on_wait")
  /\ UNCHANGED <<hardware, hms, failed>>

AllAreOn ==
  /\ AtCabinet("cabinets_on", "on_wait")
  /\ pending = {}
  /\ Exit("ok")
  /\ UNCHANGED <<hardware, hms>>

CabinetStep ==
  \/ CabinetFails
  \/ AgreeToPowerOff \/ SuspendForPowerOff
  \/ PowerOffLiquidCooled \/ LiquidCooledAreOff
  \/ PowerOffAirCooled \/ AirCooledAreOff
  \/ ResumeForPowerOn \/ ListForPowerOn \/ AllAreOn
  \/ \E s \in {"liquid_wait", "air_wait"} : PollPower(s, "off") \/ PowerTimesOut(s)
  \/ PollPower("on_wait", "on") \/ PowerTimesOut("on_wait")
=============================================================================
