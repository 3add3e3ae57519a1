--------------------------- MODULE BosOperations ---------------------------
(***************************************************************************)
(* sat/cli/bootsys/bos.py: booting or shutting down the nodes of several   *)
(* BOS session templates in parallel.  do_bos_operations selects the       *)
(* templates that still need the operation; do_parallel_bos_operations     *)
(* starts one BOSSessionThread per selected template and looks at the      *)
(* attributes "failed" and "complete" of each, without a lock, until all   *)
(* have finished or the timeout is reached.                                *)
(*                                                                         *)
(* The attributes are written and read one at a time: mark_failed writes   *)
(* "complete" and then "failed", the coordinator reads "failed" and then   *)
(* "complete".  Time is counted in rounds of the coordinator.              *)
(***************************************************************************)
EXTENDS Naturals

CONSTANTS
  Templates,       \* the session templates asked for
  MaxConsecFails,  \* self.max_consec_fails
  Timeout          \* timeout of the operation, in rounds of the coordinator

ASSUME BosAssumption ==
  /\ MaxConsecFails \in Nat
  /\ Timeout \in Nat

VARIABLES
  version,    \* bos.api_version: "v1" watches a k8s job, "v2" polls the session
  nodes,      \* per template: have its nodes reached the end state already?
  session,    \* per template: the session as BOS knows it
  tpc,        \* per thread: where run() is
  complete, failed, statFails, stop,      \* attributes of each thread
  cpc,        \* where the coordinator is
  selected,   \* templates the operation is performed on
  active, toScan, reading, finished,      \* the coordinator's loop
  failedTemplates, elapsed_time,
  misread,    \* history: templates whose failure was read as completion
  outcome     \* how do_bos_operations ended

world == <<version, nodes, session>>
threads == <<tpc, complete, failed, statFails, stop>>
coordinator == <<cpc, selected, active, toScan, reading, finished,
                 failedTemplates, elapsed_time, misread, outcome>>
bosVars == <<version, nodes, session, tpc, complete, failed, statFails, stop, cpc,
          selected, active, toScan, reading, finished, failedTemplates, elapsed_time,
          misread, outcome>>

None == "none"

BosInit ==
  /\ version \in {"v1", "v2"}
  /\ nodes \in [Templates -> {"reached", "not_reached", "unknown"}]
  /\ session = [t \in Templates |-> None]
  /\ tpc = [t \in Templates |-> "new"]
  /\ complete = [t \in Templates |-> FALSE]
  /\ failed = [t \in Templates |-> FALSE]
  /\ statFails = [t \in Templates |-> 0]
  /\ stop = [t \in Templates |-> FALSE]
  /\ cpc = "select"
  /\ selected = {}
  /\ active = {}
  /\ toScan = {}
  /\ reading = {}
  /\ finished = {}
  /\ failedTemplates = {}
  /\ elapsed_time = 0
  /\ misread = {}
  /\ outcome = None

-----------------------------------------------------------------------------
(* BOS: a session it accepted ends some day, or does not.                  *)

SessionEnds(t) ==
  /\ session[t] = "running"
  /\ \E s \in {"succeeded", "failed"} : session' = [session EXCEPT ![t] = s]
  /\ UNCHANGED <<version, nodes, threads, coordinator>>

-----------------------------------------------------------------------------
(* The session threads.                                                    *)

Goto(t, label) == tpc' = [tpc EXCEPT ![t] = label]

\* mark_failed starts: "complete" is written before "failed".
BeginMarkFailed(t) ==
  /\ complete' = [complete EXCEPT ![t] = TRUE]
  /\ Goto(t, "marking")

\* ... and ends.  The v1 loop then exits; in v2 the status query of a session
\* without ID raises TypeError, which ends the thread.
EndMarkFailed(t) ==
  /\ tpc[t] = "marking"
  /\ failed' = [failed EXCEPT ![t] = TRUE]
  /\ Goto(t, "ended")
  /\ UNCHANGED <<world, complete, statFails, stop, coordinator>>

CreateSession(t) ==
  /\ tpc[t] = "create"
  /\ \/ session' = [session EXCEPT ![t] = "running"] /\ Goto(t, "monitor")
        /\ UNCHANGED complete
     \/ UNCHANGED session /\ BeginMarkFailed(t)                 \* request failed
     \/ session' = [session EXCEPT ![t] = "running"] /\ BeginMarkFailed(t) \* no ID
  /\ UNCHANGED <<version, nodes, failed, statFails, stop, coordinator>>

TooMany(n) == n > MaxConsecFails

\* record_stat_failure, where n failures in a row were on record before.
RecordStatFailure(t, n) ==
  /\ statFails' = [statFails EXCEPT ![t] = n + 1]
  /\ IF TooMany(n + 1) THEN BeginMarkFailed(t) ELSE UNCHANGED <<complete, tpc>>

Monitoring(t, v) == version = v /\ tpc[t] = "monitor"

MonitorStopped(t) ==
  /\ Monitoring(t, "v1")
  /\ stop[t]
  /\ Goto(t, "ended")
  /\ UNCHANGED <<world, complete, failed, statFails, stop, coordinator>>

\* "kubectl wait" cannot be run or fails.
KubectlWaitFails(t) ==
  /\ Monitoring(t, "v1")
  /\ ~ stop[t]
  /\ RecordStatFailure(t, statFails[t])
  /\ UNCHANGED <<world, failed, stop, coordinator>>

KubectlWaitTimesOut(t) ==
  /\ Monitoring(t, "v1")
  /\ ~ stop[t]
  /\ session[t] = "running"
  /\ statFails' = [statFails EXCEPT ![t] = 0]
  /\ UNCHANGED <<world, tpc, complete, failed, stop, coordinator>>

\* The job is complete, but its pod or its log cannot be read.
JobLogUnreadable(t) ==
  /\ Monitoring(t, "v1")
  /\ ~ stop[t]
  /\ session[t] \in {"succeeded", "failed"}
  /\ RecordStatFailure(t, 0)
  /\ UNCHANGED <<world, failed, stop, coordinator>>

JobLogRead(t) ==
  /\ Monitoring(t, "v1")
  /\ ~ stop[t]
  /\ session[t] \in {"succeeded", "failed"}
  /\ statFails' = [statFails EXCEPT ![t] = 0]
  /\ IF session[t] = "succeeded"
       THEN complete' = [complete EXCEPT ![t] = TRUE] /\ Goto(t, "ended")
       ELSE BeginMarkFailed(t)
  /\ UNCHANGED <<world, failed, stop, coordinator>>

\* Fault: a session BOS does not report as complete is taken as complete.
SessionOverEarly(t) == session[t] # None

\* BOSV2SessionWaiter: BOS reports the status "complete", whatever became of the components.
SessionOver(t) == session[t] \in {"succeeded", "failed"}

\* A query that fails, whose response lacks a key or that finds the session
\* not complete changes nothing.
SessionComplete(t) ==
  /\ Monitoring(t, "v2")
  /\ stop[t] \/ SessionOver(t)
  /\ complete' = [complete EXCEPT ![t] = TRUE]
  /\ Goto(t, "ended")
  /\ UNCHANGED <<world, failed, statFails, stop, coordinator>>

SessionThread(t) ==
  \/ CreateSession(t) \/ EndMarkFailed(t)
  \/ MonitorStopped(t) \/ KubectlWaitFails(t) \/ KubectlWaitTimesOut(t)
  \/ JobLogUnreadable(t) \/ JobLogRead(t)
  \/ SessionComplete(t)

-----------------------------------------------------------------------------
(* The coordinator.                                                        *)

\* get_templates_needing_operation: templates whose nodes are not all in the
\* end state, and templates whose nodes could not be looked up.
NeedsOperation(t) == nodes[t] # "reached"

SelectTemplates ==
  /\ cpc = "select"
  /\ selected' = {t \in Templates : NeedsOperation(t)}
  /\ active' = selected'
  /\ tpc' = [t \in Templates |-> IF t \in selected' THEN "create" ELSE "new"]
  /\ IF selected' = {} THEN cpc' = "done" /\ outcome' = "ok"
                       ELSE cpc' = "loop" /\ UNCHANGED outcome
  /\ UNCHANGED <<world, complete, failed, statFails, stop, toScan,
                 reading, finished, failedTemplates, elapsed_time, misread>>

BeginScan ==
  /\ cpc = "loop"
  /\ active # {}
  /\ elapsed_time < Timeout
  /\ toScan' = active
  /\ finished' = {}
  /\ cpc' = "scan"
  /\ UNCHANGED <<world, threads, selected, active, reading, failedTemplates,
                 elapsed_time, misread, outcome>>

\* Fault: the attribute "complete" is read where "failed" is meant.
SeenComplete(t) == complete[t]

SeenFailed(t) == failed[t]

\* if thread.failed
ReadFailed(t) ==
  /\ cpc = "scan"
  /\ reading = {}
  /\ t \in toScan
  /\ toScan' = toScan \ {t}
  /\ IF SeenFailed(t)
       THEN /\ failedTemplates' = failedTemplates \cup {t}
            /\ finished' = finished \cup {t}
            /\ UNCHANGED reading
       ELSE reading' = {t} /\ UNCHANGED <<failedTemplates, finished>>
  /\ UNCHANGED <<world, threads, cpc, selected, active, elapsed_time, misread, outcome>>

\* The thread fails, or has failed since its "failed" was read.
FailingMeanwhile(t) == tpc[t] = "marking" \/ failed[t]

\* elif thread.complete
ReadComplete(t) ==
  /\ t \in reading
  /\ reading' = {}
  /\ finished' = IF complete[t] THEN finished \cup {t} ELSE finished
  /\ misread' = IF complete[t] /\ FailingMeanwhile(t) THEN misread \cup {t} ELSE misread
  /\ UNCHANGED <<world, threads, cpc, selected, active, toScan, failedTemplates,
                 elapsed_time, outcome>>

StillActive == active \ finished

EndScan ==
  /\ cpc = "scan"
  /\ toScan = {}
  /\ reading = {}
  /\ active' = StillActive
  /\ elapsed_time' \in (elapsed_time + 1) .. Timeout
  /\ cpc' = "loop"
  /\ UNCHANGED <<world, threads, selected, toScan, reading, finished,
                 failedTemplates, misread, outcome>>

\* Fault: the threads that are still active are not told to stop.
ThreadsNotStopped == {}

ThreadsToStop == active

\* Fault: the templates whose threads timed out are not reported.
TimedOutForgotten == {}

TimedOut == active

\* The loop is over; threads that are still active have timed out.
StopActive ==
  /\ cpc = "loop"
  /\ active = {} \/ elapsed_time >= Timeout
  /\ failedTemplates' = failedTemplates \cup TimedOut
  /\ stop' = [t \in Templates |-> stop[t] \/ t \in ThreadsToStop]
  /\ cpc' = "join"
  /\ UNCHANGED <<world, tpc, complete, failed, statFails, selected,
                 active, toScan, reading, finished, elapsed_time, misread, outcome>>

Join ==
  /\ cpc = "join"
  /\ \A t \in selected : tpc[t] = "ended"
  /\ outcome' = IF failedTemplates = {} THEN "ok" ELSE "BOSFailure"
  /\ cpc' = "done"
  /\ UNCHANGED <<world, threads, selected, active, toScan, reading, finished,
                 failedTemplates, elapsed_time, misread>>

Coordinate ==
  \/ SelectTemplates \/ BeginScan \/ EndScan \/ StopActive \/ Join
  \/ \E t \in Templates : ReadFailed(t) \/ ReadComplete(t)

\* The program has ended; sessions BOS is still running are left to BOS.
BosFinished == cpc = "done" /\ UNCHANGED bosVars

BosNext ==
  \/ Coordinate
  \/ \E t \in Templates : SessionThread(t) \/ SessionEnds(t)
  \/ BosFinished

(***************************************************************************)
(* Every thread of the process is scheduled again and again.  BOS may      *)
(* leave a session running for ever and every query may fail.              *)
(***************************************************************************)
BosSpec ==
  /\ BosInit /\ [][BosNext]_bosVars
  /\ WF_bosVars(Coordinate)
  /\ \A t \in Templates : WF_bosVars(SessionThread(t))

-----------------------------------------------------------------------------
BosTypeOK ==
  /\ version \in {"v1", "v2"}
  /\ nodes \in [Templates -> {"reached", "not_reached", "unknown"}]
  /\ session \in [Templates -> {None, "running", "succeeded", "failed"}]
  /\ tpc \in [Templates -> {"new", "create", "marking", "monitor", "ended"}]
  /\ complete \in [Templates -> BOOLEAN]
  /\ failed \in [Templates -> BOOLEAN]
  /\ statFails \in [Templates -> 0 .. MaxConsecFails + 1]
  /\ stop \in [Templates -> BOOLEAN]
  /\ cpc \in {"select", "loop", "scan", "join", "done"}
  /\ selected \subseteq Templates
  /\ active \subseteq selected
  /\ toScan \subseteq active
  /\ reading \subseteq active
  /\ finished \subseteq selected
  /\ failedTemplates \subseteq selected
  /\ elapsed_time \in 0 .. Timeout
  /\ misread \subseteq selected
  /\ outcome \in {None, "ok", "BOSFailure"}

(* The operation succeeds only if BOS has finished the session of every    *)
(* selected template, unless the failure of a thread was read in the       *)
(* middle of mark_failed: nothing else lets a template pass as done.       *)
OkMeansSessionsOver ==
  outcome = "ok" =>
    \A t \in selected : t \notin misread => session[t] \in {"succeeded", "failed"}

(* A BOSFailure names exactly the templates that were still active at the  *)
(* timeout and those whose threads failed, at whatever moment they did.    *)
(* The one failure that is lost is that of a thread which fails between    *)
(* the coordinator's reads of "failed" and "complete", or is in the middle *)
(* of mark_failed at the second.                                           *)
FailuresAreReported ==
  cpc = "done" =>
    \A t \in selected :
      t \in failedTemplates <=> t \in active \/ (failed[t] /\ t \notin misread)

(* do_bos_operations returns, however long BOS takes and whatever fails:   *)
(* the join after the timeout waits for no thread for ever.                *)
EventuallyReturns == <>(cpc = "done")

(* "Raises: BOSFailure: if the given operation fails."                     *)
FailedThreadIsReported ==
  outcome = "ok" => \A t \in selected : ~ failed[t]
=============================================================================
