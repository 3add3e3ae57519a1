-------------------------- MODULE DependencyOrder --------------------------
(***************************************************************************)
(* What running a group of items with dependencies promises: the items and *)
(* the dependencies between them are laid down first; then an item runs    *)
(* only after everything it depends on is done, at most once, and its      *)
(* outcome is final.  Nothing is said of the order in which independent    *)
(* items run, nor of when the run is given up.                             *)
(***************************************************************************)
CONSTANT Members

VARIABLES
  deps,    \* the direct dependencies of each item
  status   \* how far each item has come

Statuses == {"waiting", "running", "done", "failed"}

Init ==
  /\ deps = [m \in Members |-> {}]
  /\ status = [m \in Members |-> "waiting"]

Ready(m) == status[m] = "waiting" /\ \A d \in deps[m] : status[d] = "done"

Depend(m, d) ==
  /\ \A x \in Members : status[x] = "waiting"
  /\ deps' = [deps EXCEPT ![m] = deps[m] \cup {d}]
  /\ UNCHANGED status

Run(m) ==
  /\ Ready(m)
  /\ \E s \in {"running", "failed"} : status' = [status EXCEPT ![m] = s]
  /\ UNCHANGED deps

Finish(m) ==
  /\ status[m] = "running"
  /\ \E s \in {"done", "failed"} : status' = [status EXCEPT ![m] = s]
  /\ UNCHANGED deps

Next ==
  \/ \E m, d \in Members : Depend(m, d)
  \/ \E m \in Members : Run(m) \/ Finish(m)

Spec == Init /\ [][Next]_<<deps, status>>
=============================================================================
