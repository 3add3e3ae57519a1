------------------------------ MODULE CfsSession ------------------------------
(***************************************************************************)
(* The CFS session that customizes an image, as sat bootprep watches it:   *)
(* each poll asks CFS for the status of the session and then Kubernetes for*)
(* the containers of its pod, and when the session has failed the admin is *)
(* told which container to look at.  Sources: sat/apiclient/cfs.py, and its*)
(* use in sat/cli/bootprep/input/image.py.                                 *)
(***************************************************************************)
EXTENDS Naturals, FiniteSets, Sequences, SequencesExt

CONSTANTS
  InitContainers,  \* of the pod of a session, in the order they are run
  MainContainers,  \* the others, in the order they do their work
  Kind,            \* the pattern of their execution order that each one matches
  Suffix           \* the number at the end of its name

Inits == Range(InitContainers)
Mains == Range(MainContainers)

\* What precedes something in a sequence, and what of a set comes first there.
Before(seq, c) == {seq[i] : i \in {j \in DOMAIN seq : \E k \in DOMAIN seq : j < k /\ seq[k] = c}}
FirstOf(seq, S) == CHOOSE c \in S : S \cap Before(seq, c) = {}

None_ == "none"
Order == <<"inventory", "ansible", "teardown">>

\* Containers have unique names, and but for others they do their work in the
\* order of their patterns, and of their numbers if they match the same one.
ASSUME ContainersAssumption ==
  /\ InitContainers \in Seq(Inits) /\ IsInjective(InitContainers)
  /\ MainContainers \in Seq(Mains) /\ IsInjective(MainContainers)
  /\ Inits \cap Mains = {} /\ None_ \notin Inits \cup Mains
  /\ Kind \in [Mains -> Range(Order) \cup {"other"}]
  /\ Suffix \in [Mains -> Nat]
  /\ \A d \in Mains : \A c \in Before(MainContainers, d) :
       Kind[c] # "other" /\ Kind[d] # "other" =>
         \/ Kind[c] \in Before(Order, Kind[d])
         \/ Kind[c] = Kind[d] /\ Suffix[c] < Suffix[d]

VARIABLES
  cfsStatus,     \* status.session.status in CFS
  cfsSucceeded,  \* status.session.succeeded in CFS
  artifacts,     \* whether the session has status.artifacts
  pod,           \* none, without container statuses yet, there, or deleted
  container,     \* the state of each container
  sessionPc,
  data,          \* the status of the session last read
  podKnown,      \* self.pod is not None
  init_container_status_by_name, container_status_by_name,
  debugged       \* the container whose logs the admin is told to look at

service == <<cfsStatus, cfsSucceeded, artifacts, pod, container>>
view == <<data, podKnown, init_container_status_by_name, container_status_by_name>>
sessionVars == <<service, sessionPc, view, debugged>>

Unseen == "unseen"
Shown == {"waiting", "running", "succeeded", "failed"}
States == {"waiting", "running", "exit 0", "exit 1"}

SessionInit ==
  /\ cfsStatus = None_
  /\ cfsSucceeded = FALSE
  /\ artifacts = FALSE
  /\ pod = None_
  /\ container = [c \in Inits \cup Mains |-> "waiting"]
  /\ sessionPc = "create"
  /\ data = [status |-> None_, succeeded |-> FALSE, artifacts |-> FALSE]
  /\ podKnown = FALSE
  /\ init_container_status_by_name = [c \in Inits |-> Unseen]
  /\ container_status_by_name = [c \in Mains |-> Unseen]
  /\ debugged = None_

SessionTypeOK ==
  /\ cfsStatus \in {None_, "pending", "running", "complete"}
  /\ pod \in {None_, "pending", "there", "deleted"}
  /\ container \in [Inits \cup Mains -> States]
  /\ sessionPc \in {"create", "cfs", "pod", "look", "ended", "failed", "error", "crashed"}
  /\ init_container_status_by_name \in [Inits -> {Unseen} \cup Shown]
  /\ container_status_by_name \in [Mains -> {Unseen} \cup Shown]
  /\ debugged \in {None_} \cup Inits \cup Mains

-----------------------------------------------------------------------------
(* CFS and Kubernetes.                                                     *)

Exited == {"exit 0", "exit 1"}
InitFailed == \E c \in Inits : container[c] = "exit 1"
InitDone == \A c \in Inits : container[c] = "exit 0"
PodOver == pod # None_ /\ (InitFailed \/ \A c \in Mains : container[c] \in Exited)

PodAdvances ==
  /\ cfsStatus = "running"
  /\ \/ pod = None_ /\ pod' = "pending"
     \/ pod = "pending" /\ pod' = "there"
  /\ UNCHANGED <<cfsStatus, cfsSucceeded, artifacts, container>>

\* Init containers are run one by one until one fails, and then all others
\* start; what one of these does waits for those before it.
ContainerStarts(c) ==
  /\ pod = "there" /\ container[c] = "waiting"
  /\ IF c \in Inits THEN \A d \in Before(InitContainers, c) : container[d] = "exit 0"
                    ELSE InitDone
  /\ container' = [container EXCEPT ![c] = "running"]
  /\ UNCHANGED <<cfsStatus, cfsSucceeded, artifacts, pod>>

ContainerEnds(c) ==
  /\ container[c] = "running"
  /\ c \in Mains => \A d \in Before(MainContainers, c) : container[d] \in Exited
  /\ \E code \in Exited : container' = [container EXCEPT ![c] = code]
  /\ UNCHANGED <<cfsStatus, cfsSucceeded, artifacts, pod>>

\* CFS starts a job, and has its outcome when the pod is over.
SessionAdvances ==
  \/ /\ cfsStatus = "pending"
     /\ cfsStatus' = "running"
     /\ UNCHANGED <<cfsSucceeded, artifacts, pod, container>>
  \/ /\ cfsStatus = "running" /\ PodOver
     /\ cfsStatus' = "complete"
     /\ cfsSucceeded' = \A c \in Inits \cup Mains : container[c] = "exit 0"
     /\ artifacts' \in {FALSE, cfsSucceeded'}
     /\ UNCHANGED <<pod, container>>

\* Jobs that are complete are cleaned up at some time.
PodDeleted ==
  /\ cfsStatus = "complete" /\ pod = "there"
  /\ pod' = "deleted"
  /\ UNCHANGED <<cfsStatus, cfsSucceeded, artifacts, container>>

ServiceStep ==
  /\ \/ PodAdvances \/ SessionAdvances \/ PodDeleted
     \/ \E c \in Inits \cup Mains : ContainerStarts(c) \/ ContainerEnds(c)
  /\ UNCHANGED <<sessionPc, view, debugged>>

-----------------------------------------------------------------------------
(* CFSClient and CFSImageConfigurationSession.                             *)

\* create_image_customization_session: it may be created although this fails.
CreateSession ==
  /\ sessionPc = "create"
  /\ \/ cfsStatus' = "pending" /\ sessionPc' \in {"cfs", "error"}
     \/ UNCHANGED cfsStatus /\ sessionPc' = "error"
  /\ UNCHANGED <<cfsSucceeded, artifacts, pod, container, view, debugged>>

Status == [status |-> cfsStatus, succeeded |-> cfsSucceeded, artifacts |-> artifacts]

\* update_cfs_status; the pod is not looked for while the session is pending.
UpdateCfsStatus ==
  /\ sessionPc = "cfs"
  /\ \/ sessionPc' = "error" /\ UNCHANGED data
     \/ /\ data' = Status
        /\ sessionPc' = IF cfsStatus = "pending" THEN "look" ELSE "pod"
  /\ UNCHANGED <<service, podKnown, init_container_status_by_name, container_status_by_name,
                 debugged>>

\* get_container_status_description.
Description(c) ==
  CASE container[c] = "exit 0" -> "succeeded"
    [] container[c] = "exit 1" -> "failed"
    [] OTHER -> container[c]

\* update_pod_status: while the pod has not been scheduled there is None in
\* place of the statuses of its containers, which cannot be iterated over.
UpdatePodStatus ==
  /\ sessionPc = "pod"
  /\ \/ sessionPc' = "error"
        /\ UNCHANGED <<podKnown, init_container_status_by_name, container_status_by_name>>
     \/ /\ pod \in {None_, "deleted"}
        /\ sessionPc' = "look"
        /\ UNCHANGED <<podKnown, init_container_status_by_name, container_status_by_name>>
     \/ /\ pod = "pending"
        /\ podKnown' = TRUE
        /\ sessionPc' = "crashed"
        /\ UNCHANGED <<init_container_status_by_name, container_status_by_name>>
     \/ /\ pod = "there"
        /\ podKnown' = TRUE
        /\ init_container_status_by_name' = [c \in Inits |-> Description(c)]
        /\ container_status_by_name' = [c \in Mains |-> Description(c)]
        /\ sessionPc' = "look"
  /\ UNCHANGED <<service, data, debugged>>

FailedOf(status_by_name) == {c \in DOMAIN status_by_name : status_by_name[c] = "failed"}

\* Fault: the last of the ansible containers.
GreatestSuffix(S) == CHOOSE c \in S : \A d \in S : Suffix[d] <= Suffix[c]

LeastSuffix(S) == CHOOSE c \in S : \A d \in S : Suffix[c] <= Suffix[d]

\* get_suggested_debug_command.
Suggested ==
  LET inits == FailedOf(init_container_status_by_name)
      mains == FailedOf(container_status_by_name)
      kinds == {Kind[c] : c \in mains} \ {"other"}
  IN  IF ~podKnown THEN None_
      ELSE IF inits # {} THEN FirstOf(InitContainers, inits)
      ELSE IF kinds # {} THEN LeastSuffix({c \in mains : Kind[c] = FirstOf(Order, kinds)})
      ELSE None_

\* image_configure_complete, rename_configured_image, log_final_image_info.
Look ==
  /\ sessionPc = "look"
  /\ IF data.status # "complete" THEN sessionPc' = "cfs" /\ UNCHANGED debugged
     ELSE IF data.succeeded
       THEN sessionPc' = (IF data.artifacts THEN "ended" ELSE "error") /\ UNCHANGED debugged
       ELSE sessionPc' = "failed" /\ debugged' = Suggested
  /\ UNCHANGED <<service, view>>

SessionStep == CreateSession \/ UpdateCfsStatus \/ UpdatePodStatus \/ Look

SessionNext == ServiceStep \/ SessionStep
=============================================================================
