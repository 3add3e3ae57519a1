---------------------------- MODULE RestoredState ----------------------------
(***************************************************************************)
(* sat bootsys boot --stage k8s-check, and the bringup of the high-speed   *)
(* network: wait until the pods, or the ports, are as they were recorded   *)
(* at the shutdown.  Sources: sat/cli/bootsys/{k8s,hsn}.py, and the loop   *)
(* of GroupWaiter in sat/waiting.py.                                       *)
(***************************************************************************)
EXTENDS StateRecorder

VARIABLES
  chkPc,    \* where the command is
  members,  \* the members of the waiter
  awaited,  \* those that have not completed
  stored,   \* what stored_k8s_pod_status caches: <<>> until it is read
  timeUp,   \* the timeout of the waiter is over
  found     \* history: the states in which members were found to be complete

check == <<chkPc, members, awaited, stored, timeUp, found>>

CheckTypeOK ==
  /\ chkPc \in {"idle", "api", "members", "poll", "restored", "pending", "failed", "crashed"}
  /\ members \subseteq Things
  /\ awaited \subseteq members
  /\ stored = <<>> \/ \E st \in Contents : stored = <<st>>
  /\ timeUp \in BOOLEAN
  /\ found \in Snapshots

CheckInit ==
  /\ chkPc = "idle"
  /\ members = {}
  /\ awaited = {}
  /\ stored = <<>>
  /\ timeUp = FALSE
  /\ found = Nothing

-----------------------------------------------------------------------------
\* do_k8s_check or do_hsn_bringup; the kube configuration may not be found.
StartCheck ==
  /\ chkPc = "idle"
  /\ \/ chkPc' = (IF kind = "pods" THEN "api" ELSE "members")
     \/ kind = "pods" /\ chkPc' = "failed"
  /\ UNCHANGED <<members, awaited, stored, timeUp, found>>

\* The API is available or the time is over: the result is not looked at.
AwaitApi ==
  /\ chkPc = "api"
  /\ chkPc' \in {"members", "crashed"}
  /\ UNCHANGED <<members, awaited, stored, timeUp, found>>

\* The pods that there are, or the ports of the port sets that are answered for.
Listed ==
  IF kind = "pods" THEN {{x \in Things : state[x] # "absent"}}
  ELSE {UNION sets : sets \in SUBSET PortSets}

\* The members do not change afterwards.  For pods the configuration of k8s is
\* read again, which may fail, and if the query fails nobody catches the error.
FindMembers ==
  /\ chkPc = "members"
  /\ \/ members' \in Listed /\ awaited' = members' /\ chkPc' = "poll"
     \/ /\ kind = "pods" /\ chkPc' \in {"failed", "crashed"}
        /\ UNCHANGED <<members, awaited>>
  /\ UNCHANGED <<stored, timeUp, found>>

Recorded(st, x) == IF st = {} THEN "absent" ELSE (CHOOSE s \in st : TRUE)[x]

\* Fault: a pod that is recorded may also just run.
PodRuns(now, st, x) == now[x] = Recorded(st, x) \/ now[x] \in {"Running", "Succeeded"}

\* As recorded, or running if there is no record of the pod.
PodCompleted(now, st, x) ==
  IF Recorded(st, x) = "absent" THEN now[x] \in {"Running", "Succeeded"}
  ELSE now[x] = Recorded(st, x)

\* Enabled, unless the port is recorded as disabled.
PortCompleted(now, st, x) ==
  now[x] = "enabled" \/ (now[x] = "disabled" /\ Recorded(st, x) = "disabled")

Completed(now, st, x) ==
  IF kind = "pods" THEN PodCompleted(now, st, x) ELSE PortCompleted(now, st, x)

\* One round: the members are looked up in a new answer, and the record is read
\* once.
Poll ==
  /\ chkPc = "poll"
  /\ awaited # {} /\ ~timeUp
  /\ \E now \in Observable, st \in IF stored = <<>> THEN StoredStates ELSE Range(stored) :
       LET done == {x \in awaited : Completed(now, st, x)}
       IN /\ kind = "ports" \/ \A x \in awaited : now[x] # "absent"
          /\ stored' = <<st>>
          /\ awaited' = awaited \ done
          /\ found' = [x \in Things |-> IF x \in done THEN now[x] ELSE found[x]]
  /\ UNCHANGED <<chkPc, members, timeUp>>

\* A pod that is gone raises KeyError, and a query may fail.
PollCrashes ==
  /\ chkPc = "poll"
  /\ kind = "pods"
  /\ awaited # {} /\ ~timeUp
  /\ chkPc' = "crashed"
  /\ UNCHANGED <<members, awaited, stored, timeUp, found>>

WaitTimesOut ==
  /\ chkPc = "poll"
  /\ ~timeUp
  /\ timeUp' = TRUE
  /\ UNCHANGED <<chkPc, members, awaited, stored, found>>

EndCheck ==
  /\ chkPc = "poll"
  /\ awaited = {} \/ timeUp
  /\ chkPc' = (IF awaited = {} THEN "restored" ELSE "pending")
  /\ UNCHANGED <<members, awaited, stored, timeUp, found>>

CheckOver == chkPc \in {"restored", "pending", "failed", "crashed"}

CheckStep == AwaitApi \/ FindMembers \/ Poll \/ PollCrashes \/ EndCheck
CheckNext == (StartCheck \/ CheckStep \/ WaitTimesOut) /\ UNCHANGED <<kind, state, second, recorder>>
=============================================================================
