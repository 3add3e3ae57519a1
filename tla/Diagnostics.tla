----------------------------- MODULE Diagnostics -----------------------------
(***************************************************************************)
(* sat diag: a job of the Fox service runs a diagnostic on switches; its   *)
(* tasks are polled until they are launched and then until they are over.  *)
(* Sources: sat/cli/diag/{main,fox}.py and sat/apiclient/fox.py.           *)
(***************************************************************************)
EXTENDS FiniteSets

CONSTANT Switches  \* the switches that the diagnostic runs on

VARIABLES
  diagPc,
  job,        \* none, running, deleted, or lost: the answer named no job
  task,       \* what each switch does for the job
  taskstate,  \* what each DiagStatus says: the last answer, or "None"
  pool,       \* the diagnostics still tracked
  toPoll,     \* those to be polled yet in this round
  timeUp,     \* the timeout is over
  late,       \* it was over when the round began
  inTime,     \* the tasks that were over before the timeout
  result      \* how the command ended

diag == <<diagPc, job, task, taskstate, pool, toPoll, timeUp, late, inTime, result>>

Ended == {"Completed", "Interrupted"}
Complete == Ended \cup {"Exception", "Timed Out"}
TaskStates == {"None", "New", "Running"} \cup Complete

DiagTypeOK ==
  /\ diagPc \in {"idle", "initiate", "launch", "run", "report", "cleanup", "over"}
  /\ job \in {"none", "running", "deleted", "lost"}
  /\ task \in [Switches -> {"idle", "pending", "refused", "New", "Running"} \cup Ended]
  /\ taskstate \in [Switches -> TaskStates]
  /\ pool \subseteq Switches
  /\ toPoll \subseteq pool
  /\ timeUp \in BOOLEAN
  /\ late \in BOOLEAN
  /\ inTime \subseteq Switches
  /\ result \in {"none", "reported", "error", "crash"}

DiagInit ==
  /\ diagPc = "idle"
  /\ job = "none"
  /\ task = [x \in Switches |-> "idle"]
  /\ taskstate = [x \in Switches |-> "None"]
  /\ pool = {}
  /\ toPoll = {}
  /\ timeUp = FALSE
  /\ late = FALSE
  /\ inTime = {}
  /\ result = "none"

-----------------------------------------------------------------------------
(* Fox, and the switches: what they do for the job, in their own time.     *)

\* launchMessage is what a switch answered when it was told to start.
LaunchAnswers(x) ==
  CASE task[x] = "pending" -> {"None"}
    [] task[x] = "refused" -> {"Exception"}
    [] task[x] \in {"New", "Running"} \cup Ended -> {"New"}

StatusAnswers(x) == {task[x], "Exception"}

TaskMoves(x) ==
  /\ job # "none"
  /\ \/ task[x] = "pending" /\ task' = [task EXCEPT ![x] = "refused"]
     \/ task[x] = "pending" /\ task' = [task EXCEPT ![x] = "New"]
     \/ task[x] = "New" /\ task' = [task EXCEPT ![x] = "Running"]
     \/ /\ task[x] = "Running"
        /\ \E s \in Ended : task' = [task EXCEPT ![x] = s]
  /\ inTime' = (IF task'[x] \in Ended /\ ~timeUp THEN inTime \cup {x} ELSE inTime)
  /\ UNCHANGED <<diagPc, job, taskstate, pool, toPoll, timeUp, late, result>>

TimePasses ==
  /\ diagPc \in {"launch", "run"}
  /\ ~timeUp
  /\ timeUp' = TRUE
  /\ UNCHANGED <<diagPc, job, task, taskstate, pool, toPoll, late, inTime, result>>

-----------------------------------------------------------------------------
(* run_diag_set.                                                           *)

\* do_diag has checked the targets and asked the admin; at the prompt of
\* --interactive one set of diagnostics follows on another.
StartDiag ==
  /\ diagPc \in {"idle", "over"}
  /\ diagPc' = "initiate"
  /\ job' = "none"
  /\ task' = [x \in Switches |-> "idle"]
  /\ taskstate' = [x \in Switches |-> "None"]
  /\ pool' = {}
  /\ toPoll' = {}
  /\ timeUp' = FALSE
  /\ late' = FALSE
  /\ inTime' = {}
  /\ result' = "none"

\* Fox starts a job and answers with its name, or the answer cannot be parsed,
\* or there is no job.
InitiateOutcomes == {"running", "lost", "none"}

\* Without the name of the job there is no pool and nothing to clean up.
InitiateDiag ==
  /\ diagPc = "initiate"
  /\ job' \in InitiateOutcomes
  /\ task' = (IF job' = "none" THEN task ELSE [x \in Switches |-> "pending"])
  /\ IF job' = "running"
     THEN diagPc' = "launch" /\ pool' = Switches /\ UNCHANGED result
     ELSE diagPc' = "over" /\ result' = "error" /\ UNCHANGED pool
  /\ UNCHANGED <<taskstate, toPoll, timeUp, late, inTime>>

\* A round polls those that have not been launched, or are not complete.
Unsettled ==
  IF diagPc = "launch" THEN {x \in pool : taskstate[x] = "None"}
  ELSE {x \in pool : taskstate[x] \notin Complete}

BeginRound ==
  /\ diagPc \in {"launch", "run"}
  /\ toPoll = {}
  /\ Unsettled # {}
  /\ toPoll' = Unsettled
  /\ late' = timeUp
  /\ UNCHANGED <<diagPc, job, task, taskstate, pool, timeUp, inTime, result>>

Answers(x) == IF diagPc = "launch" THEN LaunchAnswers(x) ELSE StatusAnswers(x)

\* A failing query ends the diagnostic; otherwise its answer is recorded, and
\* the timeout overrides it.
Settled(state, answered) ==
  IF ~answered THEN "Exception" ELSE IF late THEN "Timed Out" ELSE state

PollDiag(x) ==
  /\ x \in toPoll
  /\ \E state \in Answers(x), answered \in BOOLEAN :
       taskstate' = [taskstate EXCEPT ![x] = Settled(state, answered)]
  /\ toPoll' = toPoll \ {x}
  /\ UNCHANGED <<diagPc, job, task, pool, timeUp, late, inTime, result>>

\* Fox may not list the switch in the job: update_content is given None.
PollCrashes(x) ==
  /\ diagPc = "launch"
  /\ x \in toPoll
  /\ diagPc' = "cleanup"
  /\ toPoll' = {}
  /\ result' = "crash"
  /\ UNCHANGED <<job, task, taskstate, pool, timeUp, late, inTime>>

\* Fault: those whose task is not running yet are discarded.
LaunchedAndRunning == {x \in pool : taskstate[x] = "Running"}

\* Those that have not answered that they are New are discarded.
Launched == {x \in pool : taskstate[x] = "New"}

AllLaunched ==
  /\ diagPc = "launch"
  /\ toPoll = {}
  /\ Unsettled = {}
  /\ pool' = Launched
  /\ diagPc' = "run"
  /\ UNCHANGED <<job, task, taskstate, toPoll, timeUp, late, inTime, result>>

\* The report is made and the job is deleted, unless that fails.
AllComplete ==
  /\ diagPc = "run"
  /\ toPoll = {}
  /\ Unsettled = {}
  /\ diagPc' = "cleanup"
  /\ result' = "reported"
  /\ UNCHANGED <<job, task, taskstate, pool, toPoll, timeUp, late, inTime>>

Cleanup ==
  /\ diagPc = "cleanup"
  /\ diagPc' = "over"
  /\ job' \in {"deleted", "running"}
  /\ UNCHANGED <<task, taskstate, pool, toPoll, timeUp, late, inTime, result>>

DiagStep ==
  \/ InitiateDiag \/ BeginRound \/ AllLaunched \/ AllComplete \/ Cleanup
  \/ \E x \in Switches : PollDiag(x) \/ PollCrashes(x)

DiagNext ==
  \/ StartDiag \/ DiagStep \/ TimePasses
  \/ \E x \in Switches : TaskMoves(x)
=============================================================================
