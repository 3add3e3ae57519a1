------------------------------ MODULE IpmiPower ------------------------------
(***************************************************************************)
(* sat/cli/bootsys/mgmt_power.py, class IPMIPowerStateWaiter: the group    *)
(* waiter with which the shutdown and the boot of the management NCNs send *)
(* IPMI power commands and watch the power state of the hosts.  A host     *)
(* whose status cannot be queried Threshold times in a row is given up.    *)
(*                                                                         *)
(* A round over the pending hosts is one step: their queries do not depend *)
(* on each other, and GroupWaiter models the order within a round.         *)
(***************************************************************************)
EXTENDS Naturals

CONSTANTS
  Hosts,       \* the management NCNs other than the first master
  IpmiTimeout, \* bootsys.ipmi_timeout, in poll intervals
  Threshold    \* failure_threshold

ASSUME IpmiAssumption ==
  /\ IpmiTimeout \in Nat
  /\ Threshold \in Nat \ {0}

VARIABLES
  power,      \* chassis power of each host
  wpc,        \* where the waiter is
  toSend,     \* hosts the power command was not sent to yet
  pending, misses, elapsed,
  lost,       \* history: hosts some waiter has put into "failed"
  commanded,  \* history: hosts that were sent a power command
  reached     \* history: hosts some waiter has found in the state it wants

ipmi == <<power, wpc, toSend, pending, misses, elapsed, lost, commanded, reached>>

IpmiInit ==
  /\ wpc = "idle"
  /\ toSend = {}
  /\ pending = {}
  /\ misses = [h \in Hosts |-> 0]
  /\ elapsed = 0
  /\ lost = {}
  /\ commanded = {}
  /\ reached = {}

\* A new waiter for these hosts starts.
StartWaiter(hosts, sendCommand) ==
  /\ pending' = hosts
  /\ misses' = [h \in Hosts |-> 0]
  /\ elapsed' = 0
  /\ toSend' = IF sendCommand THEN hosts ELSE {}
  /\ wpc' = IF sendCommand THEN "send" ELSE "poll"
  /\ UNCHANGED <<power, lost, commanded, reached>>

\* pre_wait_action.
SendCommand(h) ==
  /\ wpc = "send"
  /\ h \in toSend
  /\ toSend' = toSend \ {h}
  /\ commanded' = commanded \cup {h}
  /\ UNCHANGED <<power, wpc, pending, misses, elapsed, lost, reached>>

\* pre_wait_action: the first error ends the sending, as does the last host.
StopSending ==
  /\ wpc = "send"
  /\ toSend' = {}
  /\ wpc' = "poll"
  /\ UNCHANGED <<power, pending, misses, elapsed, lost, commanded, reached>>

\* A host is given up.
GivenUp(h, unanswered) == h \in unanswered /\ misses[h] + 1 >= Threshold

\* Fault: a host whose power state could not be read counts as done.
InStateOrSilent(h, state, unanswered) == h \in unanswered \/ power[h] = state

InState(h, state, unanswered) == h \notin unanswered /\ power[h] = state

\* Fault: the start time is taken anew in every round.
ClockRestarted(now, timeout) == {now}

\* The time after a round; a round may take long.
Later(now, timeout) == (now + 1) .. timeout

\* member_has_completed for every pending host: ipmitool fails for the hosts
\* in "unanswered" and cannot be run at all for those in "noTool".
Poll(state, timeout) ==
  /\ wpc = "poll"
  /\ pending # {}
  /\ elapsed < timeout
  /\ \E unanswered \in SUBSET pending, noTool \in SUBSET pending :
       LET found == {h \in pending \ noTool : InState(h, state, unanswered)}
           dropped == noTool \cup {h \in pending : GivenUp(h, unanswered)}
       IN /\ misses' = [h \in Hosts |->
                IF h \in noTool \/ h \notin pending THEN misses[h]
                ELSE IF h \in unanswered THEN misses[h] + 1 ELSE 0]
          /\ pending' = pending \ (found \cup dropped)
          /\ lost' = lost \cup dropped
          /\ reached' = reached \cup found
  /\ elapsed' \in Later(elapsed, timeout)
  /\ UNCHANGED <<power, wpc, toSend, commanded>>

\* wait_for_completion returns the pending hosts.
WaiterReturns(timeout) == wpc = "poll" /\ (pending = {} \/ elapsed >= timeout)

IpmiTypeOK ==
  /\ power \in [Hosts -> {"on", "off"}]
  /\ wpc \in {"idle", "send", "poll"}
  /\ toSend \subseteq pending
  /\ pending \subseteq Hosts
  /\ misses \in [Hosts -> 0 .. Threshold]
  /\ elapsed \in Nat
  /\ lost \subseteq Hosts
  /\ commanded \subseteq Hosts
  /\ reached \subseteq Hosts
=============================================================================
