----------------------------- MODULE BootStages ------------------------------
(***************************************************************************)
(* The stages of sat bootsys that look at the system but do not change it: *)
(* capture-state (StateRecorder) and session-checks (SessionChecks) before *)
(* it is shut down, k8s-check (RestoredState) after it has booted.         *)
(***************************************************************************)
EXTENDS RestoredState, SessionChecks

CONSTANTS             \* bounds for TLC
  MaxChanges,         \* how often pods or ports change during a stage
  MaxSessionChanges   \* how often sessions change

VARIABLES
  stage,   \* what the admin is at
  changes

stagesVars == <<stage, changes, kind, state, second, recorder, check, sessions>>

StagesInit ==
  /\ stage \in {"capture-state", "session-checks"}
  /\ RecorderInit
  /\ stage = "session-checks" =>
       kind = "pods" /\ second = 1 /\ bucket = <<>> /\ state = Nothing
  /\ CheckInit
  /\ SessionsInit
  /\ changes = 0

Capture(step) ==
  stage = "capture-state" /\ step /\ UNCHANGED <<stage, changes, check, sessions>>
CheckSessions(step) ==
  /\ stage = "session-checks" /\ step
  /\ UNCHANGED <<stage, changes, kind, state, second, recorder, check>>
CheckState ==
  stage = "k8s-check" /\ CheckNext /\ UNCHANGED <<stage, changes, sessions>>

Change ==
  /\ changes < (IF stage = "session-checks" THEN MaxSessionChanges ELSE MaxChanges)
  /\ changes' = changes + 1
  /\ \/ /\ stage = "session-checks"
        /\ \E s \in Range(Services) : SessionChanges(s)
        /\ UNCHANGED <<kind, state, second, recorder>>
     \/ /\ stage # "session-checks"
        /\ \E x \in Things : StateChanges(x)
        /\ UNCHANGED sessions
  /\ UNCHANGED <<stage, check>>

\* The captures are over, the system is shut down and booted; its pods have
\* other states then.
Reboot ==
  /\ stage = "capture-state"
  /\ \A c \in Captures : recPc[c] \in Over \cup {"idle"}
  /\ stage' = "k8s-check"
  /\ state' \in Snapshots
  /\ changes' = 0
  /\ UNCHANGED <<kind, second, recorder, check, sessions>>

Finished ==
  /\ stage = "k8s-check" /\ CheckOver
  /\ UNCHANGED stagesVars

StagesNext ==
  \/ \E c \in Captures : Capture(CaptureStep(c))
  \/ Capture(SecondPasses)
  \/ Change
  \/ CheckSessions(SessionsNext)
  \/ Reboot
  \/ CheckState
  \/ Finished

StagesSpec == StagesInit /\ [][StagesNext]_stagesVars

-----------------------------------------------------------------------------
StagesTypeOK ==
  /\ stage \in {"capture-state", "session-checks", "k8s-check"}
  /\ changes \in Nat
  /\ RecorderTypeOK
  /\ CheckTypeOK
  /\ SessionsTypeOK

\* Two captures of one second write one file and one object.
Alone(c) == \A d \in Captures \ {c} : name[d] # name[c]

(* An object is deleted only while as many newer ones are stored as are to *)
(* be kept, although captures that overlap each list the objects and then  *)
(* delete some of them one at a time (dump_state, _remove_old_files).      *)
NewestAreKept ==
  [][(\A c \in Captures : name[c] # 0 => Alone(c)) =>
       \A i \in DOMAIN bucket :
         \/ \E j \in DOMAIN bucket' : bucket'[j].name = bucket[i].name
         \/ i + NumToKeep <= Len(bucket)]_stagesVars

(* When the check after the boot succeeds, every pod (port) it waited for  *)
(* was found as it was in the last capture before the shutdown, unless     *)
(* that could not be read, or it was not there then.                       *)
RestoredAsCaptured ==
  \A c \in Captures :
    /\ chkPc = "restored"
    /\ recPc[c] = "captured" /\ Alone(c)
    /\ Last(bucket).by = c
    /\ stored \notin {<<>>, <<{}>>}
    => \A x \in members :
         \/ found[x] = data[c][x]
         \/ found[x] \in {"Running", "Succeeded"} /\ data[c][x] = "absent"
         \/ found[x] = "enabled"

(* A stage that calls it safe to proceed has missed no session that was at *)
(* work from its beginning to its end, whatever services did not answer.   *)
SafeMeansIdle == verdict = "safe" => chkService # 0 \/ throughout = {}

(* The waiter waits for all pods that were there before the shutdown.  It  *)
(* does not hold: it knows only the pods that there are when it is made.   *)
RecordedPodsReturn ==
  kind = "pods" /\ chkPc = "restored" =>
    \A s \in UNION Range(stored) : \A x \in Things : s[x] # "absent" => x \in members
=============================================================================
