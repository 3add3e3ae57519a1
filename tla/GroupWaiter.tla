---------------------------- MODULE GroupWaiter ----------------------------
(***************************************************************************)
(* The polling loop of sat/waiting.py, class GroupWaiter: wait until every *)
(* member of a group has reached some state, give up on a member whose     *)
(* state cannot be queried, give up on the attempt after a timeout, and    *)
(* start another attempt while retries remain.                             *)
(*                                                                         *)
(* What a member is (a host, a pod, a Redfish endpoint) and how it is      *)
(* queried is the subclass's business; here the world is the variable      *)
(* "condition", which may change at any moment, also back and forth.       *)
(* Time is counted in poll intervals: every round of the loop sleeps one,  *)
(* and the queries of a round may take more.                               *)
(***************************************************************************)
EXTENDS Naturals

CONSTANTS
  Members,   \* the members waited for
  Timeout,   \* timeout of one attempt, in poll intervals
  Retries    \* how many times waiting may be retried

ASSUME GroupWaiterAssumption ==
  /\ Timeout \in Nat
  /\ Retries \in Nat

VARIABLES
  condition, \* what a query of each member would answer now
  pc,        \* where wait_for_completion is
  pending,   \* self.pending
  failed,    \* self.failed
  toCheck,   \* members the current round still has to query
  seen,      \* the local set "completed" of the current round
  elapsed,   \* time since the attempt began
  retries,   \* self.retries_remaining
  completed, \* self.completed
  confirmed  \* history: members a query of this attempt found complete

world == <<condition>>
waiter == <<pc, pending, failed, toCheck, seen, elapsed, retries, completed, confirmed>>
vars == <<condition, pc, pending, failed, toCheck, seen, elapsed, retries,
          completed, confirmed>>

\* "broken": member_has_completed raises WaitingFailure
Conditions == {"unmet", "met", "broken"}

Init ==
  /\ condition \in [Members -> Conditions]
  /\ pc = "attempt"
  /\ pending = Members
  /\ failed = {}
  /\ toCheck = {}
  /\ seen = {}
  /\ elapsed = 0
  /\ retries = Retries
  /\ completed = FALSE
  /\ confirmed = {}

-----------------------------------------------------------------------------
(* The world.                                                              *)

ConditionChanges(m) ==
  /\ \E c \in Conditions : condition' = [condition EXCEPT ![m] = c]
  /\ UNCHANGED waiter

-----------------------------------------------------------------------------
(* The waiter.                                                             *)

\* Fault: a new attempt goes on where the one that timed out stopped.
MembersLeftOver == pending

\* An attempt considers all members again, failed ones included.
MembersOfAttempt == Members

BeginAttempt ==
  /\ pc = "attempt"
  /\ pending' = MembersOfAttempt
  /\ elapsed' = 0
  /\ confirmed' = {}
  /\ pc' = "loop"
  /\ UNCHANGED <<condition, failed, toCheck, seen, retries, completed>>

BeginRound ==
  /\ pc = "loop"
  /\ pending # {}
  /\ elapsed < Timeout
  /\ seen' = {}
  /\ toCheck' = pending \ failed
  /\ pc' = "check"
  /\ UNCHANGED <<condition, pending, failed, elapsed, retries, completed, confirmed>>

\* One call of member_has_completed.
CheckMember(m) ==
  /\ pc = "check"
  /\ m \in toCheck
  /\ toCheck' = toCheck \ {m}
  /\ seen' = IF condition[m] = "met" THEN seen \cup {m} ELSE seen
  /\ confirmed' = IF condition[m] = "met" THEN confirmed \cup {m} ELSE confirmed
  /\ failed' = IF condition[m] = "broken" THEN failed \cup {m} ELSE failed
  /\ UNCHANGED <<condition, pc, pending, elapsed, retries, completed>>

\* Fault: failed members stay pending.
PendingUnlessSeen == pending \ seen

StillPending == pending \ (seen \cup failed)

\* The end of a round: forget who completed or failed, then sleep.
EndRound ==
  /\ pc = "check"
  /\ toCheck = {}
  /\ pending' = StillPending
  /\ elapsed' \in (elapsed + 1) .. Timeout
  /\ pc' = "loop"
  /\ UNCHANGED <<condition, failed, toCheck, seen, retries, completed, confirmed>>

AttemptOver == pc = "loop" /\ (pending = {} \/ elapsed >= Timeout)

MayRetry == retries > 0

RetriesLeft == retries - 1

\* The attempt timed out with members pending and may be retried.
Retry ==
  /\ AttemptOver
  /\ pending # {}
  /\ MayRetry
  /\ completed' = FALSE
  /\ retries' = RetriesLeft
  /\ pc' = "attempt"
  /\ UNCHANGED <<condition, pending, failed, toCheck, seen, elapsed, confirmed>>

\* wait_for_completion returns self.pending.
Return ==
  /\ AttemptOver
  /\ pending = {} \/ ~ MayRetry
  /\ completed' = (pending = {})
  /\ pc' = "done"
  /\ UNCHANGED <<condition, pending, failed, toCheck, seen, elapsed, retries, confirmed>>

Waiting ==
  \/ BeginAttempt
  \/ BeginRound
  \/ \E m \in Members : CheckMember(m)
  \/ EndRound
  \/ Retry
  \/ Return

Next == Waiting \/ \E m \in Members : ConditionChanges(m)

Spec == Init /\ [][Next]_vars

-----------------------------------------------------------------------------
(* The variables hold what the attributes and locals of the waiter hold.   *)
TypeOK ==
  /\ condition \in [Members -> Conditions]
  /\ pc \in {"attempt", "loop", "check", "done"}
  /\ pending \subseteq Members
  /\ failed \subseteq Members
  /\ toCheck \subseteq Members
  /\ seen \subseteq Members
  /\ elapsed \in 0 .. Timeout
  /\ retries \in 0 .. Retries
  /\ completed \in BOOLEAN
  /\ confirmed \subseteq Members

(* A member leaves the pending set of an attempt only because a query made *)
(* in that same attempt found it complete or because it has failed: what   *)
(* was true before on_retry_action does not count.                         *)
DroppedForAReason ==
  pc \in {"loop", "check", "done"} => Members \ pending \subseteq confirmed \cup failed

(* What wait_for_completion returns is exact: a member is reported as not  *)
(* complete if and only if the last attempt neither saw it complete nor    *)
(* gave up on it.                                                          *)
ReturnedSetIsExact ==
  pc = "done" => pending = Members \ (confirmed \cup failed)
=============================================================================
