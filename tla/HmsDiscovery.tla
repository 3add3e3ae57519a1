---------------------------- MODULE HmsDiscovery -----------------------------
(***************************************************************************)
(* sat/hms_discovery.py: the hms-discovery cron job of Kubernetes, which   *)
(* powers hardware on and discovers it, and the means to suspend it, to    *)
(* resume it and to wait for either to take effect.                        *)
(*                                                                         *)
(* Instead of clock times the model keeps what they are compared for: was  *)
(* the job scheduled at or after the time the waiter was created?          *)
(***************************************************************************)

VARIABLES
  suspended,  \* spec.suspend of the cron job
  active,     \* status.active is not empty: a job is running
  scheduled,  \* status.last_schedule_time >= start_time of the last waiter
  \* history
  jobSinceResume,  \* a job has started since SAT last resumed the cron job
  jobAtSuspend     \* a job was running when SAT last suspended the cron job

hms == <<suspended, active, scheduled, jobSinceResume, jobAtSuspend>>

HmsTypeOK ==
  /\ suspended \in BOOLEAN
  /\ active \in BOOLEAN
  /\ scheduled \in BOOLEAN
  /\ jobSinceResume \in BOOLEAN
  /\ jobAtSuspend \in BOOLEAN

HmsInit ==
  /\ suspended = FALSE
  /\ active \in BOOLEAN
  /\ scheduled = FALSE
  /\ jobSinceResume = FALSE
  /\ jobAtSuspend = FALSE

\* Kubernetes starts a job unless the cron job is suspended.  A job that is
\* started late may carry a schedule time from before the waiter's start.
JobStarts ==
  /\ ~suspended
  /\ ~active
  /\ active' = TRUE
  /\ scheduled' \in {scheduled, TRUE}
  /\ jobSinceResume' = TRUE
  /\ UNCHANGED <<suspended, jobAtSuspend>>

JobEnds ==
  /\ active
  /\ active' = FALSE
  /\ UNCHANGED <<suspended, scheduled, jobSinceResume, jobAtSuspend>>

\* set_suspend_status without an error.  A job that is running goes on.
SetSuspendStatus(status) ==
  /\ suspended' = status
  /\ jobAtSuspend' = IF status THEN active ELSE jobAtSuspend
  /\ jobSinceResume' = IF status THEN jobSinceResume ELSE FALSE
  /\ UNCHANGED <<active, scheduled>>

\* HMSDiscoveryScheduledWaiter(): its start time is the current time, which
\* is after the last time the cron job was scheduled.
StartScheduledWaiter ==
  /\ scheduled' = FALSE
  /\ UNCHANGED <<suspended, active, jobSinceResume, jobAtSuspend>>

\* Fault: the last job counts, whenever it was.
AlwaysScheduled == TRUE

\* HMSDiscoveryScheduledWaiter.has_completed
HasBeenScheduled == scheduled

\* Fault: only the flag is looked at.
IsSuspended == suspended

\* HMSDiscoverySuspendedWaiter.has_completed.  It asks twice; no job starts
\* in between once the first answer is yes.
IsSuspendedAndIdle == suspended /\ ~active
=============================================================================
