-------------------------- MODULE DependencyWaiter --------------------------
(***************************************************************************)
(* sat/waiting.py, classes DependencyGroupMember and DependencyGroupWaiter:*)
(* items that may depend on each other are linked, refusing a cycle, and a *)
(* waiter then begins every item when its dependencies allow, polls the    *)
(* items that are pending, and begins the dependents of those that         *)
(* completed.  sat bootprep builds images with it.                         *)
(*                                                                         *)
(* One action per step whose order the code leaves open: which pending     *)
(* member is queried next, and in which order the dependents of the        *)
(* members that completed in a round are considered (both iterate over a   *)
(* Python set).                                                            *)
(***************************************************************************)
EXTENDS Naturals

CONSTANTS
  Members,          \* the items
  SingleDependency, \* TRUE: an item depends on at most one other directly
  Timeout,          \* timeout of one attempt, in poll intervals
  Retries

ASSUME DependencyWaiterAssumption ==
  /\ SingleDependency \in BOOLEAN
  /\ Timeout \in Nat
  /\ Retries \in Nat

VARIABLES
  deps,      \* member.dependencies (member.dependents is its inverse)
  condition, \* what a query of each member would answer now
  pc,
  pending, failed, begun,
  toCheck,   \* members the current round still has to query
  seen,      \* the local set "completed" of the current round
  toWake,    \* members of "completed" whose dependents were not looked at yet
  waking,    \* dependents of the current one that were not looked at yet
  elapsed, retries, completed,
  done       \* history: members that ran and were found complete

graph == <<deps>>
waiter == <<pc, pending, failed, begun, toCheck, seen, toWake, waking,
            elapsed, retries, completed, done>>
vars == <<deps, condition, pc, pending, failed, begun, toCheck, seen, toWake,
          waking, elapsed, retries, completed, done>>

Conditions == {"unmet", "met", "broken"}

-----------------------------------------------------------------------------
(* The dependency graph.                                                   *)

\* The worklist of full_dependencies ends with the least set that holds the
\* direct dependencies of m and is closed under them.
FullDependencies(m) ==
  {x \in Members : \A S \in SUBSET Members :
      (deps[m] \subseteq S /\ \A y \in S : deps[y] \subseteq S) => x \in S}

\* A chain of dependencies leads from m to the other item.
DependsOn(m, other) == m = other \/ other \in FullDependencies(m)

Dependents(m) == {x \in Members : m \in deps[x]}

Init ==
  /\ deps = [m \in Members |-> {}]
  /\ condition = [m \in Members |-> "unmet"]
  /\ pc = "link"
  /\ pending = {}
  /\ failed = {}
  /\ begun = {}
  /\ toCheck = {}
  /\ seen = {}
  /\ toWake = {}
  /\ waking = {}
  /\ elapsed = 0
  /\ retries = Retries
  /\ completed = FALSE
  /\ done = {}

\* Fault: the chain is looked for in the wrong direction.
ClosesCycleSwapped(m, dependency) == DependsOn(m, dependency)

\* add_dependency raises DependencyCycleError.
ClosesCycle(m, dependency) == DependsOn(dependency, m)

AddDependency(m, dependency) ==
  /\ pc = "link"
  /\ SingleDependency => deps[m] = {}
  /\ ~ ClosesCycle(m, dependency)
  /\ deps' = [deps EXCEPT ![m] = deps[m] \cup {dependency}]
  /\ UNCHANGED <<condition, waiter>>

\* __init__: the members without dependencies are the first to be pending.
RootMembers == {m \in Members : deps[m] = {}}

NewWaiter ==
  /\ pc = "link"
  /\ pending' = RootMembers
  /\ pc' = "pre_wait"
  /\ UNCHANGED <<deps, condition, failed, begun, toCheck, seen, toWake, waking,
                 elapsed, retries, completed, done>>

-----------------------------------------------------------------------------
(* The world: what a member that began is doing may complete, and any      *)
(* query may fail.                                                         *)

ConditionChanges(m) ==
  /\ pc # "link"
  /\ \E c \in Conditions :
       /\ c = "met" => m \in begun
       /\ condition' = [condition EXCEPT ![m] = c]
  /\ UNCHANGED <<deps, waiter>>

-----------------------------------------------------------------------------
(* The waiter.                                                             *)

\* _begin_member: begin() may raise WaitingFailure, and is called only once.
BeginMember(m) ==
  \/ m \in begun /\ UNCHANGED <<begun, failed>>
  \/ m \notin begun /\ begun' = begun \cup {m} /\ UNCHANGED failed
  \/ m \notin begun /\ failed' = failed \cup {m} /\ UNCHANGED begun

\* pre_wait_action, one member of self.pending at a time.
BeginRoot(m) ==
  /\ pc = "pre_wait"
  /\ m \in pending \ (begun \cup failed)
  /\ BeginMember(m)
  /\ UNCHANGED <<deps, condition, pc, pending, toCheck, seen, toWake, waking,
                 elapsed, retries, completed, done>>

StartPolling ==
  /\ pc = "pre_wait"
  /\ pending \subseteq begun \cup failed
  /\ pending' = pending \ failed
  /\ pc' = "loop"
  /\ UNCHANGED <<deps, condition, failed, begun, toCheck, seen, toWake, waking,
                 elapsed, retries, completed, done>>

BeginRound ==
  /\ pc = "loop"
  /\ pending # {}
  /\ elapsed < Timeout
  /\ seen' = {}
  /\ toCheck' = pending
  /\ pc' = "check"
  /\ UNCHANGED <<deps, condition, pending, failed, begun, toWake, waking,
                 elapsed, retries, completed, done>>

CheckMember(m) ==
  /\ pc = "check"
  /\ m \in toCheck
  /\ toCheck' = toCheck \ {m}
  /\ IF condition[m] = "met"
       THEN seen' = seen \cup {m} /\ done' = done \cup {m}
       ELSE UNCHANGED <<seen, done>>
  /\ failed' = IF condition[m] = "broken" THEN failed \cup {m} ELSE failed
  /\ UNCHANGED <<deps, condition, pc, pending, begun, toWake, waking, elapsed,
                 retries, completed>>

\* Fault: members that completed stay pending.
PendingUnlessFailed == pending \ failed

StillPending == pending \ (seen \cup failed)

ChecksDone ==
  /\ pc = "check"
  /\ toCheck = {}
  /\ pending' = StillPending
  /\ toWake' = seen
  /\ waking' = {}
  /\ pc' = "wake"
  /\ UNCHANGED <<deps, condition, failed, begun, toCheck, seen, elapsed,
                 retries, completed, done>>

\* for member in completed: for dependent in member.dependents
NextCompleted(m) ==
  /\ pc = "wake"
  /\ waking = {}
  /\ m \in toWake
  /\ toWake' = toWake \ {m}
  /\ waking' = Dependents(m)
  /\ UNCHANGED <<deps, condition, pc, pending, failed, begun, toCheck, seen,
                 elapsed, retries, completed, done>>

\* Fault: an item begins only when nothing at all is pending.
UnblockedWhenIdle(d) == pending \cup failed = {}

Unblocked(d) == FullDependencies(d) \cap (pending \cup failed) = {}

WakeDependent(d) ==
  /\ pc = "wake"
  /\ d \in waking
  /\ waking' = waking \ {d}
  /\ IF Unblocked(d)
       THEN pending' = pending \cup {d} /\ BeginMember(d)
       ELSE UNCHANGED <<pending, begun, failed>>
  /\ UNCHANGED <<deps, condition, pc, toCheck, seen, toWake, elapsed, retries,
                 completed, done>>

Sleep ==
  /\ pc = "wake"
  /\ toWake = {}
  /\ waking = {}
  /\ elapsed' \in (elapsed + 1) .. Timeout
  /\ pc' = "loop"
  /\ UNCHANGED <<deps, condition, pending, failed, begun, toCheck, seen, toWake,
                 waking, retries, completed, done>>

AttemptOver == pc = "loop" /\ (pending = {} \/ elapsed >= Timeout)

MayRetry == retries > 0

\* Fault: retries are not counted.
RetriesUncounted == retries

RetriesLeft == retries - 1

\* Another attempt goes on with the members that are pending.
Retry ==
  /\ AttemptOver
  /\ pending # {}
  /\ MayRetry
  /\ retries' = RetriesLeft
  /\ elapsed' = 0
  /\ UNCHANGED <<deps, condition, pc, pending, failed, begun, toCheck, seen,
                 toWake, waking, completed, done>>

Return ==
  /\ AttemptOver
  /\ pending = {} \/ ~ MayRetry
  /\ completed' = (pending = {})
  /\ pc' = "done"
  /\ UNCHANGED <<deps, condition, pending, failed, begun, toCheck, seen, toWake,
                 waking, elapsed, retries, done>>

Waiting ==
  \/ \E m \in Members :
       BeginRoot(m) \/ CheckMember(m) \/ NextCompleted(m) \/ WakeDependent(m)
  \/ StartPolling \/ BeginRound \/ ChecksDone \/ Sleep \/ Retry \/ Return

Next ==
  \/ \E m, d \in Members : AddDependency(m, d)
  \/ NewWaiter
  \/ Waiting
  \/ \E m \in Members : ConditionChanges(m)

(* Only the waiter's own thread is assumed to be scheduled.                *)
Spec == Init /\ [][Next]_vars /\ WF_vars(Waiting)

-----------------------------------------------------------------------------
TypeOK ==
  /\ deps \in [Members -> SUBSET Members]
  /\ condition \in [Members -> Conditions]
  /\ pc \in {"link", "pre_wait", "loop", "check", "wake", "done"}
  /\ pending \subseteq Members
  /\ failed \subseteq Members
  /\ begun \subseteq Members
  /\ toCheck \subseteq Members
  /\ seen \subseteq Members
  /\ toWake \subseteq Members
  /\ waking \subseteq Members
  /\ elapsed \in 0 .. Timeout
  /\ retries \in 0 .. Retries
  /\ completed \in BOOLEAN
  /\ done \subseteq Members

(* An item begins only after everything it depends on, directly or not,    *)
(* ran and completed.  bootprep needs it: an image is customized from the  *)
(* image it depends on.                                                    *)
DependenciesFirst == \A m \in begun : FullDependencies(m) \subseteq done

(* No wake-up is lost: if the waiter returns with nothing pending, an item *)
(* was left out only because it failed or something it depends on failed.  *)
NoLostWakeup ==
  pc = "done" /\ completed =>
    \A m \in Members \ (done \cup failed) : FullDependencies(m) \cap failed # {}

(* The dependency graph never has a cycle, whatever the order in which the *)
(* dependencies are added.                                                 *)
Acyclic == \A m \in Members : m \notin FullDependencies(m)

(* Once waiting has begun the waiter returns, even if items depend on      *)
(* items that fail or never complete.                                      *)
EventuallyReturns == (pc = "pre_wait") ~> (pc = "done")

\* The waiter's bookkeeping read as the status of each item.
StatusOf(m) ==
  IF m \in failed THEN "failed"
  ELSE IF m \in done THEN "done"
  ELSE IF m \in begun THEN "running"
  ELSE "waiting"

Order == INSTANCE DependencyOrder WITH status <- [m \in Members |-> StatusOf(m)]

(* The waiter implements DependencyOrder.                                  *)
OrderSpec == Order!Spec
=============================================================================
