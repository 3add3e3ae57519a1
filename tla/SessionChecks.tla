---------------------------- MODULE SessionChecks ----------------------------
(***************************************************************************)
(* sat bootsys shutdown --stage session-checks: the services are asked one *)
(* after the other for their sessions, while sessions come and go.         *)
(* Sources: sat/cli/bootsys/service_activity.py and what it calls of       *)
(* sat/apiclient.  One session stands for the sessions of a service.       *)
(***************************************************************************)
EXTENDS Naturals, Sequences, SequencesExt

VARIABLES
  bosVersion,  \* bos.api_version
  session,     \* the status of the session of each service
  chkService,  \* the checker that is next; 0 outside the stage
  active,      \* active_services
  failedServices, \* failed_services
  verdict,     \* how the stage ended
  throughout   \* history: the services that have worked since the stage began

sessions == <<bosVersion, session, chkService, active, failedServices, verdict, throughout>>

\* What a service may say of a session, or pgrep of SDU, and what of it means
\* that something is at work.  A session of BOS v1 works in its pod: it is told
\* by the phase of the pod, if there is one yet.
Statuses ==
  [BOSv1 |-> {"no pod", "Pending", "Running", "Succeeded", "Failed", "Unknown"},
   BOSv2 |-> {"pending", "running", "complete"},
   CFS |-> {"pending", "running", "complete"},
   CRUS |-> {"", "completed"},
   FAS |-> {"running", "abortSignaled", "aborted", "completed"},
   NMD |-> {"waiting", "dump", "done", "error", "cancel"},
   SDU |-> {"0", "1", "2", "125", "127"}]

AtWork ==
  [BOSv1 |-> {"Pending", "Running"}, BOSv2 |-> {"pending", "running"},
   CFS |-> {"pending", "running"}, CRUS |-> {""}, FAS |-> {"running", "abortSignaled"},
   NMD |-> {"waiting", "dump"}, SDU |-> {"0"}]

AllServices == DOMAIN Statuses
Services == <<bosVersion, "CFS", "CRUS", "FAS", "NMD", "SDU">>
Works(s) == session[s] \in AtWork[s]

SessionsTypeOK ==
  /\ bosVersion \in {"BOSv1", "BOSv2"}
  /\ \A s \in AllServices : session[s] \in Statuses[s]
  /\ chkService \in 0..Len(Services) + 1
  /\ active \subseteq AllServices
  /\ failedServices \subseteq AllServices
  /\ verdict \in {"none", "safe", "active", "failed", "crashed"}
  /\ throughout \subseteq AllServices

\* Nothing is at work before.
SessionsInit ==
  /\ bosVersion \in {"BOSv1", "BOSv2"}
  /\ session = [s \in AllServices |-> CHOOSE x \in Statuses[s] : x \notin AtWork[s]]
  /\ chkService = 0
  /\ active = {}
  /\ failedServices = {}
  /\ verdict = "none"
  /\ throughout = {}

SessionChanges(s) ==
  /\ \E x \in Statuses[s] : session' = [session EXCEPT ![s] = x]
  /\ throughout' = (IF session'[s] \in AtWork[s] THEN throughout ELSE throughout \ {s})
  /\ UNCHANGED <<bosVersion, chkService, active, failedServices, verdict>>

\* The checkers are made first; that of SDU raises an error if there is no host
\* of some kind.
StartSessionChecks ==
  /\ chkService = 0
  /\ \/ chkService' = 1 /\ verdict' = "none"
     \/ verdict' = "crashed" /\ UNCHANGED chkService
  /\ active' = {}
  /\ failedServices' = {}
  /\ throughout' = {s \in Range(Services) : Works(s)}
  /\ UNCHANGED <<bosVersion, session>>

-----------------------------------------------------------------------------
(* get_active_sessions of the checkers: the statuses that count as active. *)

\* The pods of the Boot Orchestration Agent, one job for each session; a session
\* whose list of pods is empty is not active.
ActiveBOSv1 == {"Pending", "Running"}

\* Fault: only what runs is active.
ActiveOnlyRunning == {"running"}

ActiveBOSv2 == Statuses.BOSv2 \ {"complete"}
ActiveCFS == Statuses.CFS \ {"complete"}
ActiveCRUS == {""}
ActiveFAS == Statuses.FAS \ {"aborted", "completed"}
ActiveNMD == {"waiting", "dump"}

\* 125: the container does not run, 127: there is no SDU.
InterpretReturnValue(value) ==
  CASE value = "0" -> "active" [] value \in {"1", "125", "127"} -> "idle" [] OTHER -> "failed"

ActiveStatuses ==
  [BOSv1 |-> ActiveBOSv1, BOSv2 |-> ActiveBOSv2, CFS |-> ActiveCFS, CRUS |-> ActiveCRUS,
   FAS |-> ActiveFAS, NMD |-> ActiveNMD]

Finding(s) ==
  CASE s = "SDU" -> InterpretReturnValue(session[s])
    [] s # "SDU" /\ session[s] \in ActiveStatuses[s] -> "active"
    [] OTHER -> "idle"

\* A service that cannot be asked has failed, and the next one is asked.
CheckService ==
  /\ chkService \in 1..Len(Services)
  /\ LET s == Services[chkService]
     IN \E finding \in {Finding(s), "failed"} :
          /\ active' = (IF finding = "active" THEN active \cup {s} ELSE active)
          /\ failedServices' = failedServices \cup (IF finding = "failed" THEN {s} ELSE {})
  /\ chkService' = chkService + 1
  /\ UNCHANGED <<bosVersion, session, verdict, throughout>>

\* Fault: services that could not be asked are forgotten.
VerdictIfAsked == IF active # {} THEN "active" ELSE "safe"

Verdict == IF active # {} THEN "active" ELSE IF failedServices # {} THEN "failed" ELSE "safe"

EndSessionChecks ==
  /\ chkService > Len(Services)
  /\ verdict' = Verdict
  /\ chkService' = 0
  /\ UNCHANGED <<bosVersion, session, active, failedServices, throughout>>

SessionsStep == CheckService \/ EndSessionChecks
SessionsNext == StartSessionChecks \/ SessionsStep
=============================================================================
