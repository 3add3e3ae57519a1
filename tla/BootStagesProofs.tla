--------------------------- MODULE BootStagesProofs ---------------------------
(***************************************************************************)
(* Proofs about GroupWaiter, for any members, timeout and number of        *)
(* retries, and about the stages of sat bootsys that look at the system,   *)
(* of which k8s-check and the bringup of the network wait in its loop: for *)
(* any things that are recorded, any captures at a time, and any number of *)
(* objects to keep.                                                        *)
(***************************************************************************)
EXTENDS GroupWaiter, BootStages, SequenceTheorems, TLAPS

-----------------------------------------------------------------------------
(* sat/waiting.py, class GroupWaiter.                                      *)

(* The attributes and locals of the waiter keep their types.               *)
THEOREM WaiterTypeCorrect == Spec => []TypeOK
<1> USE GroupWaiterAssumption
<1>1. Init => TypeOK
  <2>1. Init => completed \in BOOLEAN
    BY DEF Init
  <2>2. QED
    BY <2>1 DEF Init, TypeOK
<1>2. TypeOK /\ [Next]_vars => TypeOK'
  <2> SUFFICES ASSUME TypeOK, [Next]_vars PROVE TypeOK'
    OBVIOUS
  <2> USE DEF TypeOK
  <2>1. CASE BeginAttempt
    BY <2>1 DEF BeginAttempt, MembersOfAttempt
  <2>2. CASE BeginRound
    BY <2>2 DEF BeginRound
  <2>3. ASSUME NEW m \in Members, CheckMember(m) PROVE TypeOK'
    BY <2>3 DEF CheckMember
  <2>4. CASE EndRound
    BY <2>4 DEF EndRound, StillPending
  <2>5. CASE Retry
    <3>1. completed' \in BOOLEAN
      BY <2>5 DEF Retry
    <3>2. retries' \in 0 .. Retries
      BY <2>5 DEF Retry, MayRetry, RetriesLeft
    <3>3. QED
      BY <2>5, <3>1, <3>2 DEF Retry
  <2>6. CASE Return
    BY <2>6 DEF Return, AttemptOver
  <2>7. ASSUME NEW m \in Members, ConditionChanges(m) PROVE TypeOK'
    BY <2>7 DEF ConditionChanges, waiter, Conditions
  <2>8. CASE UNCHANGED vars
    BY <2>8 DEF vars
  <2>9. QED
    BY <2>1, <2>2, <2>3, <2>4, <2>5, <2>6, <2>7, <2>8 DEF Next, Waiting
<1>3. QED
  BY <1>1, <1>2, PTL DEF Spec

(***************************************************************************)
(* The invariant behind both properties.  Between two rounds the members   *)
(* that are not pending are those the attempt confirmed and those that     *)
(* failed; within a round the confirmed members that still are pending are *)
(* those the round saw.  A member that failed in an earlier attempt is     *)
(* pending again only until the first round of the new attempt ends, and   *)
(* an attempt has no round only if the timeout is zero, when nothing is    *)
(* ever queried and so nothing fails.                                      *)
(***************************************************************************)
Accounting ==
  /\ Members \ pending \subseteq confirmed \cup failed
  /\ pending \cap confirmed \subseteq (IF pc = "check" THEN seen ELSE {})
  /\ pc = "check" => seen \subseteq confirmed /\ elapsed < Timeout
  /\ pc # "check" /\ elapsed > 0 => pending \cap failed = {}
  /\ pc = "done" => pending = {} \/ elapsed >= Timeout

WaiterInv ==
  /\ pc # "attempt" => Accounting
  /\ Timeout = 0 => failed = {}

LEMMA WaiterInvInit == Init => WaiterInv
  BY DEF Init, WaiterInv

LEMMA WaiterInvStep == TypeOK /\ WaiterInv /\ [Next]_vars => WaiterInv'
<1> SUFFICES ASSUME TypeOK, WaiterInv, [Next]_vars PROVE WaiterInv'
  OBVIOUS
<1> USE GroupWaiterAssumption DEF TypeOK, WaiterInv, Accounting
<1>1. CASE BeginAttempt
  BY <1>1 DEF BeginAttempt, MembersOfAttempt
<1>2. CASE BeginRound
  BY <1>2 DEF BeginRound
<1>3. ASSUME NEW m \in Members, CheckMember(m) PROVE WaiterInv'
  BY <1>3 DEF CheckMember
<1>4. CASE EndRound
  BY <1>4 DEF EndRound, StillPending
<1>5. CASE Retry
  BY <1>5 DEF Retry, AttemptOver
<1>6. CASE Return
  BY <1>6 DEF Return, AttemptOver
<1>7. ASSUME NEW m \in Members, ConditionChanges(m) PROVE WaiterInv'
  BY <1>7 DEF ConditionChanges, waiter
<1>8. CASE UNCHANGED vars
  BY <1>8 DEF vars
<1>9. QED
  BY <1>1, <1>2, <1>3, <1>4, <1>5, <1>6, <1>7, <1>8 DEF Next, Waiting

(* A member leaves the pending set of an attempt only because a query of   *)
(* that attempt found it complete or because it has failed.                *)
THEOREM MembersDroppedForAReason == Spec => []DroppedForAReason
<1>1. WaiterInv => DroppedForAReason
  BY DEF WaiterInv, Accounting, DroppedForAReason
<1>2. QED
  BY <1>1, WaiterInvInit, WaiterInvStep, WaiterTypeCorrect, PTL DEF Spec

(* The set wait_for_completion returns holds exactly the members the last  *)
(* attempt neither saw complete nor gave up on.                            *)
THEOREM ReturnedSetExact == Spec => []ReturnedSetIsExact
<1>1. TypeOK /\ WaiterInv => ReturnedSetIsExact
  <2> SUFFICES ASSUME TypeOK, WaiterInv, pc = "done"
               PROVE  pending = Members \ (confirmed \cup failed)
    BY DEF ReturnedSetIsExact
  <2>1. Accounting
    BY DEF WaiterInv
  <2>2. pending \cap failed = {}
    <3>1. CASE elapsed > 0
      BY <2>1, <3>1 DEF Accounting
    <3>2. CASE elapsed = 0 /\ pending # {}
      BY <2>1, <3>2, GroupWaiterAssumption DEF Accounting, WaiterInv
    <3>3. QED
      BY <3>1, <3>2, GroupWaiterAssumption DEF TypeOK
  <2>3. pending \cap confirmed = {}
    BY <2>1 DEF Accounting
  <2>4. QED
    BY <2>1, <2>2, <2>3 DEF Accounting, TypeOK
<1>2. QED
  BY <1>1, WaiterInvInit, WaiterInvStep, WaiterTypeCorrect, PTL DEF Spec

-----------------------------------------------------------------------------
(* sat bootsys shutdown --stage session-checks.                            *)

Asked == {Services[i] : i \in {j \in 1 .. Len(Services) : j < chkService}}

\* Of the services that have been asked, those that worked all the time were
\* found active or did not answer.
SessionsInv ==
  /\ SessionsTypeOK
  /\ throughout \subseteq Range(Services)
  /\ \A s \in throughout : Works(s)
  /\ chkService # 0 => throughout \cap Asked \subseteq active \cup failedServices
  /\ chkService = 0 /\ verdict = "safe" => throughout = {}

LEMMA ServicesAre ==
  ASSUME SessionsTypeOK
  PROVE  /\ Len(Services) = 6
         /\ DOMAIN Services = 1 .. 6
         /\ Range(Services) = {Services[i] : i \in 1 .. 6}
         /\ Range(Services) \subseteq AllServices
         /\ AllServices = {"BOSv1", "BOSv2", "CFS", "CRUS", "FAS", "NMD", "SDU"}
<1>1. Len(Services) = 6 /\ DOMAIN Services = 1 .. 6
  BY DEF Services
<1>2. AllServices = {"BOSv1", "BOSv2", "CFS", "CRUS", "FAS", "NMD", "SDU"}
  BY DEF AllServices, Statuses
<1>3. \A i \in 1 .. 6 : Services[i] \in {bosVersion, "CFS", "CRUS", "FAS", "NMD", "SDU"}
  BY DEF Services
<1>4. Range(Services) = {Services[i] : i \in 1 .. 6}
  BY <1>1 DEF Range
<1> QED
  BY <1>1, <1>2, <1>3, <1>4 DEF SessionsTypeOK

\* No checker takes a status that means work for idleness.
LEMMA WorkIsFound ==
  ASSUME NEW s \in AllServices, session[s] \in Statuses[s], Works(s)
  PROVE  Finding(s) = "active"
<1>1. s \in {"BOSv1", "BOSv2", "CFS", "CRUS", "FAS", "NMD", "SDU"}
  BY DEF AllServices, Statuses
<1>2. CASE s = "SDU"
  BY <1>2 DEF Works, AtWork, Finding, InterpretReturnValue
<1>3. CASE s # "SDU"
  <2>1. AtWork[s] \subseteq ActiveStatuses[s]
    <3>1. /\ ActiveBOSv2 = {"pending", "running"} /\ ActiveCFS = {"pending", "running"}
          /\ ActiveFAS = {"running", "abortSignaled"}
      BY DEF ActiveBOSv2, ActiveCFS, ActiveFAS, Statuses
    <3>2. s = "BOSv1" => AtWork[s] = {"Pending", "Running"} /\ ActiveStatuses[s] = ActiveBOSv1
      BY DEF AtWork, ActiveStatuses
    <3>3. s = "BOSv2" => AtWork[s] = {"pending", "running"} /\ ActiveStatuses[s] = ActiveBOSv2
      BY DEF AtWork, ActiveStatuses
    <3>4. s = "CFS" => AtWork[s] = {"pending", "running"} /\ ActiveStatuses[s] = ActiveCFS
      BY DEF AtWork, ActiveStatuses
    <3>5. s = "CRUS" => AtWork[s] = {""} /\ ActiveStatuses[s] = ActiveCRUS
      BY DEF AtWork, ActiveStatuses
    <3>6. s = "FAS" => AtWork[s] = {"running", "abortSignaled"} /\ ActiveStatuses[s] = ActiveFAS
      BY DEF AtWork, ActiveStatuses
    <3>7. s = "NMD" => AtWork[s] = {"waiting", "dump"} /\ ActiveStatuses[s] = ActiveNMD
      BY DEF AtWork, ActiveStatuses
    <3> QED
      BY <1>1, <1>3, <3>1, <3>2, <3>3, <3>4, <3>5, <3>6, <3>7 DEF ActiveBOSv1, ActiveCRUS, ActiveNMD
  <2> QED
    BY <1>3, <2>1 DEF Finding, Works
<1> QED
  BY <1>2, <1>3

LEMMA SessionsInvInit == StagesInit => SessionsInv
<1> SUFFICES ASSUME SessionsInit
             PROVE  SessionsInv
  BY DEF StagesInit
<1>1. ASSUME NEW s \in AllServices
      PROVE  \E x \in Statuses[s] : x \notin AtWork[s]
  <2>1. s = "BOSv1" => "Failed" \in Statuses[s] /\ "Failed" \notin AtWork[s]
    BY DEF Statuses, AtWork
  <2>2. s = "BOSv2" => "complete" \in Statuses[s] /\ "complete" \notin AtWork[s]
    BY DEF Statuses, AtWork
  <2>3. s = "CFS" => "complete" \in Statuses[s] /\ "complete" \notin AtWork[s]
    BY DEF Statuses, AtWork
  <2>4. s = "CRUS" => "completed" \in Statuses[s] /\ "completed" \notin AtWork[s]
    BY DEF Statuses, AtWork
  <2>5. s = "FAS" => "completed" \in Statuses[s] /\ "completed" \notin AtWork[s]
    BY DEF Statuses, AtWork
  <2>6. s = "NMD" => "done" \in Statuses[s] /\ "done" \notin AtWork[s]
    BY DEF Statuses, AtWork
  <2>7. s = "SDU" => "1" \in Statuses[s] /\ "1" \notin AtWork[s]
    BY DEF Statuses, AtWork
  <2>8. s \in {"BOSv1", "BOSv2", "CFS", "CRUS", "FAS", "NMD", "SDU"}
    BY DEF AllServices, Statuses
  <2> QED
    BY <2>1, <2>2, <2>3, <2>4, <2>5, <2>6, <2>7, <2>8
<1>2. \A s \in AllServices : session[s] \in Statuses[s]
  BY <1>1 DEF SessionsInit
<1> QED
  BY <1>2 DEF SessionsInit, SessionsInv, SessionsTypeOK

LEMMA SessionsInvNext == SessionsInv /\ [StagesNext]_stagesVars => SessionsInv'
<1> SUFFICES ASSUME SessionsInv, [StagesNext]_stagesVars
             PROVE  SessionsInv'
  OBVIOUS
<1> USE DEF SessionsInv
<1>1. ASSUME NEW s \in Range(Services), SessionChanges(s)
      PROVE  SessionsInv'
  <2>1. PICK x \in Statuses[s] : session' = [session EXCEPT ![s] = x]
    BY <1>1 DEF SessionChanges
  <2> QED
    BY <1>1, <2>1 DEF SessionChanges, SessionsTypeOK, Works, Asked, Services
<1>2. CASE StartSessionChecks
  BY <1>2, ServicesAre DEF StartSessionChecks, SessionsTypeOK, Works, Asked, Services
<1>3. CASE CheckService
  BY <1>3, ServicesAre, WorkIsFound DEF CheckService, SessionsTypeOK, Works, Asked, Services
<1>4. CASE EndSessionChecks
  BY <1>4, ServicesAre DEF EndSessionChecks, Verdict, SessionsTypeOK, Works, Asked, Services
<1>5. CASE UNCHANGED sessions
  BY <1>5 DEF sessions, SessionsTypeOK, Works, Asked, Services
<1> QED
  BY <1>1, <1>2, <1>3, <1>4, <1>5
  DEF StagesNext, stagesVars, Capture, Change, CheckSessions, SessionsNext, SessionsStep, Reboot, CheckState, Finished

(* A stage that calls it safe to proceed has missed no session that was at *)
(* work from its beginning to its end, in whatever order sessions come and *)
(* go between the queries, and whatever services did not answer.           *)
THEOREM SafeIsIdle == StagesSpec => []SafeMeansIdle
<1>1. SessionsInv => SafeMeansIdle
  BY DEF SessionsInv, SafeMeansIdle
<1> QED
  BY <1>1, SessionsInvInit, SessionsInvNext, PTL DEF StagesSpec

-----------------------------------------------------------------------------
(* sat bootsys shutdown --stage capture-state.                             *)

LEMMA RecorderMoves ==
  ASSUME [StagesNext]_stagesVars
  PROVE  /\ kind' = kind
         /\ \/ \E c \in Captures : CaptureStep(c)
            \/ SecondPasses
            \/ UNCHANGED <<second, recorder>> /\ state' = state
            \/ UNCHANGED <<second, recorder>> /\ \E x \in Things : StateChanges(x)
            \/ UNCHANGED <<second, recorder>> /\ state' \in Snapshots
<1>1. ASSUME NEW c \in Captures, CaptureStep(c)
      PROVE  kind' = kind
  BY <1>1 DEF CaptureStep, GetStateData, CreateNewFile, WriteFile, Upload, ListOldFiles,
              RemoveOldFile, Captured
<1> QED
  BY <1>1 DEF StagesNext, stagesVars, Capture, SecondPasses, Change, CheckSessions, StateChanges, Reboot, CheckState,
              CheckNext, Finished, recorder

LEMMA ObjectsAre ==
  ASSUME RecorderTypeOK, NEW i \in DOMAIN bucket
  PROVE  bucket[i].name \in Names /\ bucket[i].by \in Captures
<1>1. bucket[i] \in Objects
  BY DEF RecorderTypeOK
<1> QED
  BY <1>1 DEF Objects

LEMMA NothingIsSnapshot ==
  ASSUME kind \in DOMAIN States
  PROVE  Nothing \in Snapshots
  BY StateRecorderAssumption DEF Nothing, Snapshots

LEMMA ObservedIsSnapshot ==
  ASSUME kind \in DOMAIN States, state \in Snapshots, NEW s \in Observable
  PROVE  s \in Snapshots
<1>1. CASE kind = "pods"
  BY <1>1 DEF Observable
<1>2. CASE kind # "pods"
  BY <1>2, StateRecorderAssumption DEF Observable, PortsAnswered, Snapshots
<1> QED
  BY <1>1, <1>2

\* A sequence without one of its elements.
LEMMA Removed ==
  ASSUME NEW S, NEW s \in Seq(S), NEW d \in 1 .. Len(s)
  PROVE  /\ RemoveAt(s, d) \in Seq(S)
         /\ Len(RemoveAt(s, d)) = Len(s) - 1
         /\ \A k \in 1 .. Len(s) - 1 : RemoveAt(s, d)[k] = s[IF k < d THEN k ELSE k + 1]
<1> DEFINE front == SubSeq(s, 1, d - 1)
           back == SubSeq(s, d + 1, Len(s))
           L == Len(s)
<1>1. L \in Nat /\ d \in 1 .. L
  OBVIOUS
<1>2. \A i \in 1 .. L : s[i] \in S
  OBVIOUS
<1> HIDE DEF L
<1>3. front \in Seq(S) /\ Len(front) = d - 1 /\ \A k \in 1 .. d - 1 : front[k] = s[k]
  <2>1. /\ front \in Seq(S)
        /\ Len(front) = IF 1 <= d - 1 THEN d - 1 - 1 + 1 ELSE 0
        /\ \A k \in 1 .. d - 1 - 1 + 1 : front[k] = s[1 + k - 1]
    BY <1>1, <1>2, SubSeqProperties
  <2> HIDE DEF front
  <2> QED
    BY <1>1, <2>1
<1>4. back \in Seq(S) /\ Len(back) = L - d /\ \A k \in 1 .. L - d : back[k] = s[k + d]
  <2>1. /\ back \in Seq(S)
        /\ Len(back) = IF d + 1 <= L THEN L - (d + 1) + 1 ELSE 0
        /\ \A k \in 1 .. L - (d + 1) + 1 : back[k] = s[d + 1 + k - 1]
    BY <1>1, <1>2, SubSeqProperties DEF L
  <2> HIDE DEF back
  <2>2. \A k \in 1 .. L - d : k \in 1 .. L - (d + 1) + 1 /\ d + 1 + k - 1 = k + d
    BY <1>1
  <2> QED
    BY <1>1, <2>1, <2>2
<1> HIDE DEF front, back
<1>5. RemoveAt(s, d) = front \o back
  BY DEF RemoveAt, front, back
<1>6. /\ front \o back \in Seq(S)
      /\ Len(front \o back) = L - 1
      /\ \A k \in 1 .. L - 1 : (front \o back)[k] = IF k <= d - 1 THEN front[k] ELSE back[k - (d - 1)]
  <2>1. Len(front) + Len(back) = L - 1
    BY <1>1, <1>3, <1>4
  <2>2. /\ front \o back \in Seq(S)
        /\ Len(front \o back) = Len(front) + Len(back)
        /\ \A k \in 1 .. Len(front) + Len(back) :
             (front \o back)[k] = IF k <= Len(front) THEN front[k] ELSE back[k - Len(front)]
    BY <1>3, <1>4, ConcatProperties
  <2>3. Len(front) = d - 1
    BY <1>3
  <2> QED
    BY <2>1, <2>2, <2>3, Zenon
<1>7. ASSUME NEW k \in 1 .. L - 1
      PROVE  (front \o back)[k] = s[IF k < d THEN k ELSE k + 1]
  <2>1. k < d => k \in 1 .. d - 1
    BY <1>1
  <2>2. ~(k < d) => ~(k <= d - 1) /\ k - (d - 1) \in 1 .. L - d /\ k - (d - 1) + d = k + 1
    BY <1>1
  <2>3. k < d <=> k <= d - 1
    BY <1>1
  <2> QED
    BY <1>3, <1>4, <1>6, <2>1, <2>2, <2>3
<1> QED
  BY <1>5, <1>6, <1>7 DEF L

NamesDiffer == \A i, j \in DOMAIN bucket : bucket[i].name = bucket[j].name => i = j

\* What is left without the object of a name.
LEMMA DeletedIs ==
  ASSUME bucket \in Seq(Objects), NEW n
  PROVE  \/ Deleted(n) = bucket /\ \A i \in 1 .. Len(bucket) : bucket[i].name # n
         \/ \E d \in 1 .. Len(bucket) :
              /\ bucket[d].name = n
              /\ Deleted(n) \in Seq(Objects)
              /\ Len(Deleted(n)) = Len(bucket) - 1
              /\ \A k \in 1 .. Len(bucket) - 1 :
                   Deleted(n)[k] = bucket[IF k < d THEN k ELSE k + 1]
<1> DEFINE with == {i \in DOMAIN bucket : bucket[i].name = n}
<1>1. DOMAIN bucket = 1 .. Len(bucket)
  OBVIOUS
<1>2. CASE with = {}
  BY <1>1, <1>2 DEF Deleted
<1>3. CASE with # {}
  <2> DEFINE d == CHOOSE i \in with : TRUE
  <2>1. d \in 1 .. Len(bucket) /\ bucket[d].name = n
    BY <1>1, <1>3
  <2>2. Deleted(n) = RemoveAt(bucket, d)
    BY <1>3 DEF Deleted
  <2> HIDE DEF d
  <2> QED
    BY <2>1, <2>2, Removed
<1> QED
  BY <1>2, <1>3

LEMMA DeletedKeeps ==
  ASSUME RecorderTypeOK, NEW n
  PROVE  /\ Deleted(n) \in Seq(Objects)
         /\ \A k \in DOMAIN Deleted(n) :
              \E i \in DOMAIN bucket : Deleted(n)[k] = bucket[i] /\ bucket[i].name # n
         /\ \A i \in DOMAIN bucket : bucket[i].name # n =>
              \E k \in DOMAIN Deleted(n) : Deleted(n)[k] = bucket[i]
         /\ \A j, k \in DOMAIN Deleted(n) : Deleted(n)[j].name = Deleted(n)[k].name => j = k
<1>1. /\ bucket \in Seq(Objects) /\ NamesDiffer
      /\ DOMAIN bucket = 1 .. Len(bucket) /\ Len(bucket) \in Nat
  BY DEF RecorderTypeOK, NamesDiffer
<1>2. CASE Deleted(n) = bucket /\ \A i \in 1 .. Len(bucket) : bucket[i].name # n
  BY <1>1, <1>2 DEF NamesDiffer
<1>3. ASSUME NEW d \in 1 .. Len(bucket), bucket[d].name = n,
             Deleted(n) \in Seq(Objects), Len(Deleted(n)) = Len(bucket) - 1,
             \A k \in 1 .. Len(bucket) - 1 : Deleted(n)[k] = bucket[IF k < d THEN k ELSE k + 1]
      PROVE  /\ \A k \in DOMAIN Deleted(n) :
                  \E i \in DOMAIN bucket : Deleted(n)[k] = bucket[i] /\ bucket[i].name # n
             /\ \A i \in DOMAIN bucket : bucket[i].name # n =>
                  \E k \in DOMAIN Deleted(n) : Deleted(n)[k] = bucket[i]
             /\ \A j, k \in DOMAIN Deleted(n) : Deleted(n)[j].name = Deleted(n)[k].name => j = k
  <2>1. DOMAIN Deleted(n) = 1 .. Len(bucket) - 1
    BY <1>1, <1>3
  <2>2. ASSUME NEW k \in 1 .. Len(bucket) - 1
        PROVE  \E i \in DOMAIN bucket : Deleted(n)[k] = bucket[i] /\ bucket[i].name # n
    <3> DEFINE i == IF k < d THEN k ELSE k + 1
    <3>1. i \in DOMAIN bucket /\ i # d /\ Deleted(n)[k] = bucket[i]
      BY <1>1, <1>3
    <3> QED
      BY <1>1, <1>3, <3>1 DEF NamesDiffer
  <2>3. ASSUME NEW i \in DOMAIN bucket, bucket[i].name # n
        PROVE  \E k \in 1 .. Len(bucket) - 1 : Deleted(n)[k] = bucket[i]
    <3> DEFINE k == IF i < d THEN i ELSE i - 1
    <3>1. k \in 1 .. Len(bucket) - 1 /\ Deleted(n)[k] = bucket[i]
      BY <1>1, <1>3, <2>3
    <3> QED
      BY <3>1
  <2>4. ASSUME NEW j \in 1 .. Len(bucket) - 1, NEW k \in 1 .. Len(bucket) - 1,
               Deleted(n)[j].name = Deleted(n)[k].name
        PROVE  j = k
    <3> DEFINE at(m) == IF m < d THEN m ELSE m + 1
    <3>1. at(j) \in DOMAIN bucket /\ at(k) \in DOMAIN bucket
      BY <1>1
    <3>2. bucket[at(j)].name = bucket[at(k)].name
      BY <1>3, <2>4
    <3>3. at(j) = at(k)
      BY <1>1, <3>1, <3>2 DEF NamesDiffer
    <3> QED
      BY <3>3
  <2> QED
    BY <2>1, <2>2, <2>3, <2>4
<1> QED
  BY <1>2, <1>3, DeletedIs DEF RecorderTypeOK

\* An upload leaves the objects of other names and adds one.
LEMMA UploadedIs ==
  ASSUME RecorderTypeOK, NEW c \in Captures, name[c] \in DOMAIN local
  PROVE  LET o == [name |-> name[c], by |-> c, data |-> local[name[c]]]
         IN /\ Uploaded(c) \in Seq(Objects)
            /\ \A k \in DOMAIN Uploaded(c) :
                 \/ Uploaded(c)[k] = o
                 \/ \E i \in DOMAIN bucket : Uploaded(c)[k] = bucket[i] /\ bucket[i].name # name[c]
            /\ \E k \in DOMAIN Uploaded(c) : Uploaded(c)[k] = o
            /\ \A i \in DOMAIN bucket : bucket[i].name # name[c] =>
                 \E k \in DOMAIN Uploaded(c) : Uploaded(c)[k] = bucket[i]
            /\ \A j, k \in DOMAIN Uploaded(c) :
                 Uploaded(c)[j].name = Uploaded(c)[k].name => j = k
<1> DEFINE o == [name |-> name[c], by |-> c, data |-> local[name[c]]]
           left == Deleted(name[c])
<1>1. o \in Objects
  BY DEF RecorderTypeOK, Objects
<1>2. /\ left \in Seq(Objects)
      /\ \A k \in DOMAIN left : \E i \in DOMAIN bucket : left[k] = bucket[i] /\ bucket[i].name # name[c]
      /\ \A i \in DOMAIN bucket : bucket[i].name # name[c] => \E k \in DOMAIN left : left[k] = bucket[i]
      /\ \A j, k \in DOMAIN left : left[j].name = left[k].name => j = k
  BY DeletedKeeps
<1>3. Uploaded(c) = Append(left, o)
  BY DEF Uploaded
<1>4. o.name = name[c]
  OBVIOUS
<1> HIDE DEF o, left
<1>5. /\ Append(left, o) \in Seq(Objects)
      /\ Append(left, o)[Len(left) + 1] = o
      /\ \A k \in DOMAIN left : Append(left, o)[k] = left[k]
      /\ DOMAIN Append(left, o) = DOMAIN left \cup {Len(left) + 1}
      /\ Len(left) + 1 \notin DOMAIN left
  BY <1>1, <1>2
<1>6. \A k \in DOMAIN left : left[k].name # o.name
  BY <1>2, <1>4
<1> QED
  BY <1>2, <1>3, <1>4, <1>5, <1>6 DEF o

LEMMA RecorderTypeInit == StagesInit => RecorderTypeOK
<1> SUFFICES ASSUME RecorderInit
             PROVE  RecorderTypeOK
  BY DEF StagesInit
<1>1. second \in 1 .. LastSecond /\ 0 \in Names
  BY StateRecorderAssumption DEF RecorderInit, Names
<1>2. Nothing \in Snapshots
  BY NothingIsSnapshot DEF RecorderInit
<1> QED
  BY <1>1, <1>2 DEF RecorderInit, RecorderTypeOK

LEMMA CaptureKeepsTypes ==
  ASSUME RecorderTypeOK, NEW c \in Captures, CaptureStep(c)
  PROVE  RecorderTypeOK'
<1>0. kind' = kind /\ Snapshots' = Snapshots /\ Contents' = Contents /\ Objects' = Objects /\ Nothing \in Snapshots
  <2>1. kind' = kind
    BY DEF CaptureStep, GetStateData, CreateNewFile, WriteFile, Upload, ListOldFiles,
           RemoveOldFile, Captured
  <2> QED
    BY <2>1, NothingIsSnapshot DEF Snapshots, Contents, Objects, RecorderTypeOK
<1> DEFINE Rest == /\ kind \in DOMAIN States /\ state \in Snapshots /\ second \in 1 .. LastSecond
                   /\ recPc \in [Captures -> {"idle", "create", "write", "upload", "list", "remove"}
                                               \cup Over]
                   /\ data \in [Captures -> Snapshots]
                   /\ name \in [Captures -> Names]
                   /\ toRemove \in [Captures -> SUBSET Names]
           Store == bucket \in Seq(Objects) /\ NamesDiffer
           Local == DOMAIN local \subseteq Names /\ \A n \in DOMAIN local : local[n] \in Contents
<1>1. RecorderTypeOK <=> Rest /\ Store /\ Local
  BY DEF RecorderTypeOK, NamesDiffer
<1>2. RecorderTypeOK' <=> Rest' /\ Store' /\ Local'
  BY DEF RecorderTypeOK, NamesDiffer
<1>3. ASSUME NEW result \in Over, End(c, result), UNCHANGED <<kind, state, second, name>>
      PROVE  Rest'
  BY <1>0, <1>1, <1>3 DEF End, To, Over
<1>4. UNCHANGED <<bucket>> => Store'
  BY <1>0, <1>1 DEF NamesDiffer
<1>5. UNCHANGED <<local>> => Local'
  BY <1>0, <1>1
<1>6. CASE GetStateData(c)
  <2>1. CASE /\ To(c, "create")
             /\ \E s \in Observable : data' = [data EXCEPT ![c] = s]
             /\ UNCHANGED toRemove
    <3>1. Rest'
      BY <1>0, <1>1, <1>6, <2>1, ObservedIsSnapshot DEF GetStateData, To
    <3> QED
      BY <1>2, <1>4, <1>5, <1>6, <3>1 DEF GetStateData
  <2>2. CASE End(c, "failed") \/ End(c, "crashed")
    BY <1>2, <1>3, <1>4, <1>5, <1>6, <2>2 DEF GetStateData, Over
  <2> QED
    BY <1>6, <2>1, <2>2 DEF GetStateData
<1>7. CASE CreateNewFile(c)
  <2>1. CASE Fails(c)
    BY <1>2, <1>3, <1>4, <1>5, <1>7, <2>1 DEF CreateNewFile, Fails, Over
  <2>2. CASE ~Fails(c)
    <3>1. second \in Names
      BY <1>1, StateRecorderAssumption DEF Names
    <3>2. Rest'
      BY <1>0, <1>1, <1>7, <2>2, <3>1 DEF CreateNewFile, To
    <3>3. local' = With(local, second, {}) /\ {} \in Contents
      BY <1>7, <2>2 DEF CreateNewFile, Contents
    <3>4. Local'
      BY <1>0, <1>1, <3>1, <3>3 DEF With
    <3> QED
      BY <1>2, <1>4, <1>7, <2>2, <3>2, <3>4 DEF CreateNewFile
  <2> QED
    BY <2>1, <2>2
<1>8. CASE WriteFile(c)
  <2>1. CASE Fails(c)
    BY <1>2, <1>3, <1>4, <1>5, <1>8, <2>1 DEF WriteFile, Fails, Over
  <2>2. CASE ~Fails(c)
    <3>1. Rest'
      BY <1>0, <1>1, <1>8, <2>2 DEF WriteFile, To
    <3>2. Local'
      BY <1>0, <1>1, <1>8, <2>2 DEF WriteFile, With, Contents
    <3> QED
      BY <1>2, <1>4, <1>8, <2>2, <3>1, <3>2 DEF WriteFile
  <2> QED
    BY <2>1, <2>2
<1>9. CASE Upload(c)
  <2>1. CASE name[c] \notin DOMAIN local
    BY <1>2, <1>3, <1>4, <1>5, <1>9, <2>1 DEF Upload, Over
  <2>2. CASE name[c] \in DOMAIN local
    <3>1. Local'
      BY <1>0, <1>1, <1>9, <2>2 DEF Upload, Without
    <3>2. CASE End(c, "failed") /\ UNCHANGED bucket
      BY <1>2, <1>3, <1>4, <1>9, <2>2, <3>1, <3>2 DEF Upload, Over
    <3>3. CASE bucket' = Uploaded(c) /\ To(c, "list") /\ UNCHANGED <<data, toRemove>>
      <4>1. Rest'
        BY <1>0, <1>1, <1>9, <2>2, <3>3 DEF Upload, To
      <4>2. Store'
        BY <1>0, <2>2, <3>3, UploadedIs DEF NamesDiffer
      <4> QED
        BY <1>2, <3>1, <4>1, <4>2
    <3> QED
      BY <1>9, <2>2, <3>2, <3>3 DEF Upload
  <2> QED
    BY <2>1, <2>2
<1>10. CASE ListOldFiles(c)
  <2>1. CASE Fails(c)
    BY <1>2, <1>3, <1>4, <1>5, <1>10, <2>1 DEF ListOldFiles, Fails, Over
  <2>2. CASE ~Fails(c)
    <3>1. OldFiles \subseteq Names
      BY ObjectsAre DEF OldFiles
    <3>2. Rest'
      BY <1>0, <1>1, <1>10, <2>2, <3>1 DEF ListOldFiles, To
    <3> QED
      BY <1>2, <1>4, <1>5, <1>10, <2>2, <3>2 DEF ListOldFiles
  <2> QED
    BY <2>1, <2>2
<1>11. CASE RemoveOldFile(c)
  <2>1. Rest'
    BY <1>0, <1>1, <1>11 DEF RemoveOldFile
  <2>2. Store'
    <3>1. PICK n \in toRemove[c] : bucket' \in {bucket, Deleted(n)}
      BY <1>11 DEF RemoveOldFile
    <3>2. CASE bucket' = Deleted(n)
      BY <1>0, <3>2, DeletedKeeps DEF NamesDiffer
    <3> QED
      BY <1>4, <3>1, <3>2
  <2> QED
    BY <1>2, <1>5, <1>11, <2>1, <2>2 DEF RemoveOldFile
<1>12. CASE Captured(c)
  BY <1>2, <1>3, <1>4, <1>5, <1>12 DEF Captured, Over
<1> QED
  BY <1>6, <1>7, <1>8, <1>9, <1>10, <1>11, <1>12 DEF CaptureStep

LEMMA RecorderTypeNext == RecorderTypeOK /\ [StagesNext]_stagesVars => RecorderTypeOK'
<1> SUFFICES ASSUME RecorderTypeOK, [StagesNext]_stagesVars
             PROVE  RecorderTypeOK'
  OBVIOUS
<1>1. kind' = kind /\ Snapshots' = Snapshots /\ Contents' = Contents /\ Objects' = Objects
  BY RecorderMoves DEF Snapshots, Contents, Objects
<1>2. CASE SecondPasses
  BY <1>1, <1>2, StateRecorderAssumption DEF SecondPasses, recorder, RecorderTypeOK
<1>3. CASE UNCHANGED <<second, recorder>> /\ state' \in Snapshots
  BY <1>1, <1>3 DEF recorder, RecorderTypeOK
<1>4. \A x \in Things : StateChanges(x) => state' \in Snapshots
  BY DEF StateChanges, RecorderTypeOK, Snapshots
<1> QED
  BY <1>2, <1>3, <1>4, CaptureKeepsTypes, RecorderMoves DEF RecorderTypeOK

NotYet == {"idle", "create", "write", "upload"}

\* Capture c has the name n, and may have stored an object.
Past(c, n) == name[c] = n /\ n # 0 /\ recPc[c] \notin NotYet

\* A capture has a name from when its file is created; whatever is stored, or is
\* to be removed, has the name of a capture that is past its upload.
PhaseInv ==
  /\ \A c \in Captures : recPc[c] \in {"idle", "create"} => name[c] = 0
  /\ \A c \in Captures :
       recPc[c] \in {"write", "upload", "list", "remove", "captured"} => name[c] # 0
  /\ \A i \in DOMAIN bucket : Past(bucket[i].by, bucket[i].name)
  /\ \A c \in Captures : \A n \in toRemove[c] : \E d \in Captures : Past(d, n)

\* A capture changes nothing of another, and its own name only when it gets it.
LEMMA CaptureMoves ==
  ASSUME RecorderTypeOK, NEW c \in Captures, CaptureStep(c)
  PROVE  /\ \A d \in Captures \ {c} :
              /\ recPc'[d] = recPc[d] /\ name'[d] = name[d]
              /\ data'[d] = data[d] /\ toRemove'[d] = toRemove[d]
         /\ name'[c] # name[c] => recPc[c] = "create"
         /\ recPc[c] \notin Over
         /\ recPc[c] \notin NotYet => recPc'[c] \notin NotYet
         /\ recPc'[c] \in {"idle", "create"} => recPc[c] = "idle" /\ name' = name
         /\ recPc'[c] \in {"upload", "list", "remove", "captured"} => recPc[c] \notin {"idle", "create"}
<1> USE DEF RecorderTypeOK, NotYet, Over, To
<1>1. CASE GetStateData(c)
  BY <1>1 DEF GetStateData, End
<1>2. CASE CreateNewFile(c)
  BY <1>2 DEF CreateNewFile, Fails, End
<1>3. CASE WriteFile(c)
  BY <1>3 DEF WriteFile, Fails, End
<1>4. CASE Upload(c)
  BY <1>4 DEF Upload, End
<1>5. CASE ListOldFiles(c)
  BY <1>5 DEF ListOldFiles, Fails, End
<1>6. CASE RemoveOldFile(c)
  BY <1>6 DEF RemoveOldFile
<1>7. CASE Captured(c)
  BY <1>7 DEF Captured, End
<1> QED
  BY <1>1, <1>2, <1>3, <1>4, <1>5, <1>6, <1>7 DEF CaptureStep

\* What a capture may do to the objects.
LEMMA BucketMoves ==
  ASSUME RecorderTypeOK, NEW c \in Captures, CaptureStep(c)
  PROVE  \/ UNCHANGED bucket
         \/ /\ recPc[c] = "upload" /\ name[c] \in DOMAIN local /\ UNCHANGED <<data, name>>
            /\ bucket' = Uploaded(c) /\ To(c, "list") /\ UNCHANGED toRemove
         \/ /\ \E n \in toRemove[c] : bucket' = Deleted(n)
            /\ recPc[c] = "remove" /\ UNCHANGED <<recPc, name, data>>
            /\ toRemove'[c] \subseteq toRemove[c]
<1>1. CASE Upload(c)
  BY <1>1 DEF Upload
<1>2. CASE RemoveOldFile(c)
  BY <1>2 DEF RemoveOldFile, RecorderTypeOK
<1>3. CASE ~Upload(c) /\ ~RemoveOldFile(c)
  BY <1>3 DEF CaptureStep, GetStateData, CreateNewFile, WriteFile, ListOldFiles, Captured, Fails
<1> QED
  BY <1>1, <1>2, <1>3

LEMMA RemovalMoves ==
  ASSUME RecorderTypeOK, NEW c \in Captures, CaptureStep(c)
  PROVE  \/ toRemove'[c] \subseteq toRemove[c]
         \/ toRemove'[c] = OldFiles /\ UNCHANGED bucket
<1> USE DEF RecorderTypeOK
<1>1. CASE ListOldFiles(c)
  BY <1>1 DEF ListOldFiles, Fails, End
<1>2. CASE ~ListOldFiles(c)
  BY <1>2 DEF CaptureStep, GetStateData, CreateNewFile, WriteFile, Upload, RemoveOldFile, Captured,
              Fails, End
<1> QED
  BY <1>1, <1>2

LEMMA PastStays ==
  ASSUME RecorderTypeOK, NEW c \in Captures, CaptureStep(c), NEW d \in Captures, NEW n, Past(d, n)
  PROVE  Past(d, n)'
<1>1. CASE d = c
  BY <1>1, CaptureMoves DEF Past, NotYet
<1>2. CASE d # c
  BY <1>2, CaptureMoves DEF Past
<1> QED
  BY <1>1, <1>2

LEMMA CaptureKeepsPhases ==
  ASSUME RecorderTypeOK, PhaseInv, NEW c \in Captures, CaptureStep(c)
  PROVE  PhaseInv'
<1>1. RecorderTypeOK'
  BY CaptureKeepsTypes
<1>2. ASSUME NEW d \in Captures, recPc'[d] \in {"idle", "create"}
      PROVE  name'[d] = 0
  BY <1>2, CaptureMoves DEF PhaseInv
<1>3. ASSUME NEW d \in Captures,
             recPc'[d] \in {"write", "upload", "list", "remove", "captured"}
      PROVE  name'[d] # 0
  <2>1. CASE d # c
    BY <1>3, <2>1, CaptureMoves DEF PhaseInv
  <2>2. CASE d = c /\ recPc'[c] # "write"
    <3>1. recPc[c] \notin {"idle", "create"} /\ recPc[c] \notin Over
      BY <1>3, <2>2, CaptureMoves
    <3>2. name'[c] = name[c] /\ name[c] # 0
      BY <3>1, CaptureMoves DEF PhaseInv, RecorderTypeOK
    <3> QED
      BY <2>2, <3>2
  <2>3. CASE d = c /\ recPc'[c] = "write"
    <3>1. CreateNewFile(c) /\ name' = [name EXCEPT ![c] = second]
      BY <2>3 DEF CaptureStep, GetStateData, CreateNewFile, WriteFile, Upload, ListOldFiles,
                  RemoveOldFile, Captured, Fails, End, To, RecorderTypeOK
    <3>2. second # 0
      BY DEF RecorderTypeOK
    <3> QED
      BY <2>3, <3>1, <3>2 DEF RecorderTypeOK
  <2> QED
    BY <2>1, <2>2, <2>3
<1>4. ASSUME NEW k \in DOMAIN bucket'
      PROVE  Past(bucket[k].by, bucket[k].name)'
  <2>1. CASE \E i \in DOMAIN bucket : bucket'[k] = bucket[i]
    <3> PICK i \in DOMAIN bucket : bucket'[k] = bucket[i]
      BY <2>1
    <3>1. Past(bucket[i].by, bucket[i].name) /\ bucket[i].by \in Captures
      BY ObjectsAre DEF PhaseInv
    <3> DEFINE b == bucket[i].by
               n == bucket[i].name
    <3>2. name'[b] = n /\ n # 0 /\ recPc'[b] \notin NotYet
      <4> HIDE DEF b, n
      <4>1. Past(b, n) /\ b \in Captures
        BY <3>1 DEF b, n
      <4> QED
        BY <4>1, CaptureMoves DEF Past, NotYet
    <3> QED
      BY <3>2 DEF Past
  <2>2. CASE ~\E i \in DOMAIN bucket : bucket'[k] = bucket[i]
    <3>1. /\ recPc[c] = "upload" /\ name[c] \in DOMAIN local /\ UNCHANGED name
          /\ bucket' = Uploaded(c) /\ To(c, "list")
      BY <1>4, <2>2, BucketMoves, DeletedKeeps
    <3>2. bucket'[k] = [name |-> name[c], by |-> c, data |-> local[name[c]]]
      BY <1>4, <2>2, <3>1, UploadedIs
    <3>3. name[c] # 0 /\ recPc'[c] = "list"
      BY <3>1 DEF PhaseInv, To, RecorderTypeOK
    <3> QED
      BY <3>1, <3>2, <3>3 DEF Past, NotYet
  <2> QED
    BY <2>1, <2>2
<1>5. ASSUME NEW d \in Captures, NEW n \in toRemove'[d]
      PROVE  \E e \in Captures : Past(e, n)'
  <2>1. \E e \in Captures : Past(e, n)
    <3>1. CASE n \in toRemove[d]
      BY <3>1 DEF PhaseInv
    <3>2. CASE n \notin toRemove[d]
      <4>1. n \in OldFiles
        BY <1>5, <3>2, CaptureMoves, RemovalMoves
      <4>2. PICK i \in DOMAIN bucket : n = bucket[i].name
        BY <4>1 DEF OldFiles
      <4> QED
        BY <4>2, ObjectsAre DEF PhaseInv
    <3> QED
      BY <3>1, <3>2
  <2> QED
    BY <2>1, PastStays
<1> QED
  BY <1>2, <1>3, <1>4, <1>5 DEF PhaseInv

\* No two captures have the same name so far.
Distinct == \A c \in Captures : name[c] # 0 => Alone(c)

\* Names are given once, so those that differ have always differed.
LEMMA AloneBefore ==
  ASSUME RecorderTypeOK, PhaseInv, NEW c \in Captures, CaptureStep(c),
         NEW d \in Captures, name[d] # 0, Alone(d)'
  PROVE  Alone(d) /\ name'[d] = name[d]
<1>1. \A e \in Captures : name[e] # 0 => name'[e] = name[e]
  BY CaptureMoves DEF PhaseInv
<1> QED
  BY <1>1 DEF Alone

LEMMA DistinctBefore ==
  ASSUME RecorderTypeOK, PhaseInv, NEW c \in Captures, CaptureStep(c), Distinct'
  PROVE  Distinct
<1>1. ASSUME NEW d \in Captures, name[d] # 0
      PROVE  Alone(d)
  <2>1. name'[d] = name[d]
    BY <1>1, CaptureMoves DEF PhaseInv
  <2>2. Alone(d)'
    BY <1>1, <2>1 DEF Distinct, Alone
  <2> QED
    BY <1>1, <2>2, AloneBefore
<1> QED
  BY <1>1 DEF Distinct

\* When names differ, what a capture uploads is new.
LEMMA UploadIsNew ==
  ASSUME RecorderTypeOK, PhaseInv, NEW c \in Captures, recPc[c] = "upload", Alone(c)
  PROVE  /\ \A d \in Captures : ~Past(d, name[c])
         /\ \A i \in DOMAIN bucket : bucket[i].name # name[c]
<1>1. \A d \in Captures : ~Past(d, name[c])
  BY DEF Past, Alone, NotYet
<1> QED
  BY <1>1, ObjectsAre DEF PhaseInv

\* What is to be removed is old, also after others have removed some objects.
KeepInv ==
  Distinct => \A c \in Captures : \A n \in toRemove[c] : \A i \in DOMAIN bucket :
                bucket[i].name = n => i + NumToKeep <= Len(bucket)

\* Without an object that is old, those that are old are old still.
LEMMA OldStaysOld ==
  ASSUME RecorderTypeOK, NEW n, NEW m,
         \A i \in DOMAIN bucket : bucket[i].name \in {n, m} => i + NumToKeep <= Len(bucket),
         NEW k \in DOMAIN Deleted(n), Deleted(n)[k].name = m
  PROVE  k + NumToKeep <= Len(Deleted(n))
<1>1. bucket \in Seq(Objects) /\ DOMAIN bucket = 1 .. Len(bucket) /\ Len(bucket) \in Nat
  BY DEF RecorderTypeOK
<1>2. NumToKeep \in Nat
  BY StateRecorderAssumption
<1>3. CASE Deleted(n) = bucket
  BY <1>1, <1>3
<1>4. ASSUME NEW d \in 1 .. Len(bucket), bucket[d].name = n,
             Deleted(n) \in Seq(Objects), Len(Deleted(n)) = Len(bucket) - 1,
             \A j \in 1 .. Len(bucket) - 1 : Deleted(n)[j] = bucket[IF j < d THEN j ELSE j + 1]
      PROVE  k + NumToKeep <= Len(Deleted(n))
  <2>1. k \in 1 .. Len(bucket) - 1
    BY <1>1, <1>4
  <2>2. CASE k < d
    <3>1. d + NumToKeep <= Len(bucket)
      BY <1>1, <1>4
    <3> QED
      BY <1>1, <1>2, <1>4, <2>1, <2>2, <3>1
  <2>3. CASE ~(k < d)
    <3>1. bucket[k + 1].name = m /\ k + 1 \in DOMAIN bucket
      BY <1>1, <1>4, <2>1, <2>3
    <3>2. k + 1 + NumToKeep <= Len(bucket)
      BY <3>1
    <3> QED
      BY <1>1, <1>2, <1>4, <2>1, <3>2
  <2> QED
    BY <2>2, <2>3
<1> QED
  BY <1>1, <1>3, <1>4, DeletedIs

LEMMA CaptureKeepsKeepInv ==
  ASSUME RecorderTypeOK, PhaseInv, KeepInv, NEW c \in Captures, CaptureStep(c)
  PROVE  KeepInv'
<1> SUFFICES ASSUME Distinct', NEW d \in Captures, NEW n \in toRemove'[d],
                    NEW k \in DOMAIN bucket', bucket'[k].name = n
             PROVE  k + NumToKeep <= Len(bucket')
  BY DEF KeepInv
<1>1. Distinct
  BY DistinctBefore
<1>2. \A e \in Captures : \A m \in toRemove[e] : \A i \in DOMAIN bucket :
        bucket[i].name = m => i + NumToKeep <= Len(bucket)
  BY <1>1 DEF KeepInv
<1>3. CASE UNCHANGED bucket
  <2>1. CASE n \in toRemove[d]
    BY <1>2, <1>3, <2>1
  <2>2. CASE n \notin toRemove[d]
    <3>1. n \in OldFiles
      BY <2>2, CaptureMoves, RemovalMoves
    <3>2. PICK j \in DOMAIN bucket : n = bucket[j].name /\ j + NumToKeep <= Len(bucket)
      BY <3>1 DEF OldFiles
    <3>3. j = k
      BY <1>3, <3>2 DEF RecorderTypeOK
    <3> QED
      BY <1>3, <3>2, <3>3
  <2> QED
    BY <2>1, <2>2
<1>4. CASE /\ recPc[c] = "upload" /\ name[c] \in DOMAIN local
           /\ bucket' = Uploaded(c) /\ UNCHANGED toRemove
  <2>1. /\ \A e \in Captures : ~Past(e, name[c])
        /\ \A i \in DOMAIN bucket : bucket[i].name # name[c]
    BY <1>1, <1>4, UploadIsNew DEF Distinct, PhaseInv
  <2> DEFINE o == [name |-> name[c], by |-> c, data |-> local[name[c]]]
  <2>2. bucket' = Append(bucket, o)
    <3>1. Deleted(name[c]) = bucket
      BY <2>1 DEF Deleted
    <3> QED
      BY <1>4, <3>1 DEF Uploaded
  <2>3. n # name[c] /\ n \in toRemove[d]
    <3>1. n \in toRemove[d]
      BY <1>4
    <3> QED
      BY <2>1, <3>1 DEF PhaseInv
  <2>4. o.name = name[c]
    OBVIOUS
  <2> HIDE DEF o
  <2>5. bucket \in Seq(Objects) /\ Len(bucket) \in Nat /\ DOMAIN bucket = 1 .. Len(bucket)
    BY DEF RecorderTypeOK
  <2>6. /\ Len(bucket') = Len(bucket) + 1 /\ DOMAIN bucket' = 1 .. Len(bucket) + 1
        /\ bucket'[Len(bucket) + 1] = o
        /\ \A i \in DOMAIN bucket : bucket'[i] = bucket[i]
    BY <2>2, <2>5
  <2>7. k # Len(bucket) + 1
    BY <2>3, <2>4, <2>6
  <2>8. k \in DOMAIN bucket /\ bucket[k].name = n
    BY <2>5, <2>6, <2>7
  <2>9. k + NumToKeep <= Len(bucket)
    BY <1>2, <2>3, <2>8
  <2> QED
    BY <2>5, <2>6, <2>8, <2>9, StateRecorderAssumption
<1>5. ASSUME NEW m \in toRemove[c], bucket' = Deleted(m), toRemove'[c] \subseteq toRemove[c]
      PROVE  k + NumToKeep <= Len(bucket')
  <2>1. n \in toRemove[d]
    BY <1>5, CaptureMoves
  <2>2. \A i \in DOMAIN bucket : bucket[i].name \in {m, n} => i + NumToKeep <= Len(bucket)
    BY <1>2, <2>1
  <2> QED
    BY <1>5, <2>2, OldStaysOld
<1> QED
  BY <1>3, <1>4, <1>5, BucketMoves

\* Unless another capture has the same name, what a capture has written, and
\* then stored, is what it learnt.
DataInv ==
  /\ \A c \in Captures : recPc[c] = "upload" /\ Alone(c) =>
       name[c] \in DOMAIN local /\ local[name[c]] = {data[c]}
  /\ \A i \in DOMAIN bucket : \A c \in Captures :
       bucket[i].by = c /\ Alone(c) /\ recPc[c] \in {"list", "remove", "captured"} =>
         bucket[i].data = {data[c]}

LEMMA LocalMoves ==
  ASSUME RecorderTypeOK, NEW c \in Captures, CaptureStep(c),
         NEW n \in DOMAIN local, n # name'[c]
  PROVE  n \in DOMAIN local' /\ local'[n] = local[n]
<1> USE DEF RecorderTypeOK
<1>1. CASE CreateNewFile(c)
  <2>1. CASE Fails(c)
    BY <2>1 DEF Fails
  <2>2. CASE ~Fails(c)
    BY <1>1, <2>2 DEF CreateNewFile, With
  <2> QED
    BY <2>1, <2>2
<1>2. CASE WriteFile(c)
  <2>1. CASE Fails(c)
    BY <2>1 DEF Fails
  <2>2. CASE ~Fails(c)
    BY <1>2, <2>2 DEF WriteFile, With
  <2> QED
    BY <2>1, <2>2
<1>3. CASE Upload(c)
  BY <1>3 DEF Upload, Without
<1>4. CASE GetStateData(c) \/ ListOldFiles(c) \/ RemoveOldFile(c) \/ Captured(c)
  BY <1>4 DEF GetStateData, ListOldFiles, RemoveOldFile, Captured, Fails
<1> QED
  BY <1>1, <1>2, <1>3, <1>4 DEF CaptureStep

LEMMA DataMoves ==
  ASSUME RecorderTypeOK, NEW c \in Captures, CaptureStep(c)
  PROVE  /\ recPc'[c] \in {"list", "remove", "captured"} => data'[c] = data[c]
         /\ recPc'[c] = "upload" =>
              data' = data /\ name' = name /\ local' = With(local, name[c], {data[c]})
<1> USE DEF RecorderTypeOK, To
<1>1. CASE GetStateData(c) \/ CreateNewFile(c)
  BY <1>1 DEF GetStateData, CreateNewFile, Fails, End
<1>2. CASE WriteFile(c)
  BY <1>2 DEF WriteFile, Fails, End
<1>3. CASE Upload(c)
  BY <1>3 DEF Upload, End
<1>4. CASE ListOldFiles(c) \/ RemoveOldFile(c) \/ Captured(c)
  BY <1>4 DEF ListOldFiles, RemoveOldFile, Captured, Fails, End
<1> QED
  BY <1>1, <1>2, <1>3, <1>4 DEF CaptureStep

LEMMA CaptureKeepsDataInv ==
  ASSUME RecorderTypeOK, PhaseInv, DataInv, NEW c \in Captures, CaptureStep(c)
  PROVE  DataInv'
<1>1. ASSUME NEW d \in Captures, recPc'[d] = "upload", Alone(d)'
      PROVE  name'[d] \in DOMAIN local' /\ local'[name'[d]] = {data'[d]}
  <2>1. CASE d = c
    <3>1. data' = data /\ name' = name /\ local' = With(local, name[c], {data[c]})
      BY <1>1, <2>1, DataMoves
    <3>2. name[c] \in DOMAIN local' /\ local'[name[c]] = {data[c]}
      BY <3>1 DEF With
    <3> QED
      BY <2>1, <3>1, <3>2
  <2>2. CASE d # c
    <3>1. recPc[d] = "upload" /\ name'[d] = name[d] /\ data'[d] = data[d] /\ name[d] # 0
      BY <1>1, <2>2, CaptureMoves DEF PhaseInv
    <3>2. Alone(d) /\ name[d] # name'[c]
      BY <1>1, <2>2, <3>1, AloneBefore DEF Alone
    <3>3. name[d] \in DOMAIN local /\ local[name[d]] = {data[d]}
      BY <3>1, <3>2 DEF DataInv
    <3> QED
      BY <3>1, <3>2, <3>3, LocalMoves
  <2> QED
    BY <2>1, <2>2
<1>2. ASSUME NEW k \in DOMAIN bucket', NEW d \in Captures, bucket'[k].by = d, Alone(d)',
             recPc'[d] \in {"list", "remove", "captured"}
      PROVE  bucket'[k].data = {data'[d]}
  <2>1. CASE \E i \in DOMAIN bucket : bucket'[k] = bucket[i]
    <3> PICK i \in DOMAIN bucket : bucket'[k] = bucket[i]
      BY <2>1
    <3>1. name[d] # 0 /\ recPc[d] \notin NotYet
      BY <1>2 DEF PhaseInv, Past
    <3>2. Alone(d)
      BY <1>2, <3>1, AloneBefore
    <3>3. data'[d] = data[d]
      BY <1>2, CaptureMoves, DataMoves
    <3>4. recPc[d] \in {"list", "remove", "captured"}
      BY <1>2, <3>1, CaptureMoves DEF RecorderTypeOK, NotYet, Over
    <3> QED
      BY <1>2, <3>2, <3>3, <3>4 DEF DataInv
  <2>2. CASE ~\E i \in DOMAIN bucket : bucket'[k] = bucket[i]
    <3>1. recPc[c] = "upload" /\ name[c] \in DOMAIN local /\ bucket' = Uploaded(c) /\ UNCHANGED <<data, name>>
      BY <1>2, <2>2, BucketMoves, DeletedKeeps
    <3>2. bucket'[k] = [name |-> name[c], by |-> c, data |-> local[name[c]]]
      BY <1>2, <2>2, <3>1, UploadedIs
    <3>3. d = c /\ name[c] # 0
      BY <1>2, <3>1, <3>2 DEF PhaseInv
    <3>4. Alone(c)
      BY <1>2, <3>3, AloneBefore
    <3> QED
      BY <3>1, <3>2, <3>3, <3>4 DEF DataInv
  <2> QED
    BY <2>1, <2>2
<1> QED
  BY <1>1, <1>2 DEF DataInv

RecorderInv == RecorderTypeOK /\ PhaseInv /\ KeepInv /\ DataInv

LEMMA RecorderInvInit == StagesInit => RecorderInv
<1>1. StagesInit => PhaseInv /\ KeepInv /\ DataInv
  BY DEF StagesInit, RecorderInit, PhaseInv, KeepInv, DataInv
<1> QED
  BY <1>1, RecorderTypeInit DEF RecorderInv

LEMMA RecorderInvNext == RecorderInv /\ [StagesNext]_stagesVars => RecorderInv'
<1> SUFFICES ASSUME RecorderInv, [StagesNext]_stagesVars
             PROVE  RecorderInv'
  OBVIOUS
<1>1. ASSUME NEW c \in Captures, CaptureStep(c)
      PROVE  RecorderInv'
  BY <1>1, RecorderTypeNext, CaptureKeepsPhases, CaptureKeepsKeepInv, CaptureKeepsDataInv
  DEF RecorderInv
<1>2. CASE UNCHANGED recorder
  BY <1>2, RecorderTypeNext
  DEF recorder, RecorderInv, PhaseInv, Past, KeepInv, Distinct, Alone, DataInv
<1> QED
  BY <1>1, <1>2, RecorderMoves DEF SecondPasses

(* An object is deleted only while as many newer ones are stored as are to *)
(* be kept, although captures that overlap each list the objects and then  *)
(* delete some of them one at a time: what one has listed stays old while  *)
(* others upload and delete.                                               *)
THEOREM NewestKept == StagesSpec => NewestAreKept
<1> DEFINE Kept(i) == \/ \E j \in DOMAIN bucket' : bucket'[j].name = bucket[i].name
                      \/ i + NumToKeep <= Len(bucket)
<1>1. ASSUME RecorderInv, StagesNext, Distinct, NEW i \in DOMAIN bucket
      PROVE  Kept(i)
  <2>1. CASE UNCHANGED bucket
    BY <2>1
  <2>2. ASSUME NEW c \in Captures, CaptureStep(c)
        PROVE  Kept(i)
    <3>1. ASSUME name[c] \in DOMAIN local, bucket' = Uploaded(c)
          PROVE  Kept(i)
      <4> DEFINE o == [name |-> name[c], by |-> c, data |-> local[name[c]]]
      <4>1. /\ \E k \in DOMAIN Uploaded(c) : Uploaded(c)[k] = o
            /\ bucket[i].name # name[c] =>
                 \E k \in DOMAIN Uploaded(c) : Uploaded(c)[k] = bucket[i]
        BY <1>1, <2>2, <3>1, UploadedIs DEF RecorderInv
      <4>2. o.name = name[c]
        OBVIOUS
      <4> HIDE DEF o
      <4>3. \E k \in DOMAIN Uploaded(c) : Uploaded(c)[k].name = bucket[i].name
        BY <4>1, <4>2
      <4> QED
        BY <3>1, <4>3
    <3>2. ASSUME NEW n \in toRemove[c], bucket' = Deleted(n)
          PROVE  Kept(i)
      <4>1. CASE bucket[i].name # n
        <5>1. RecorderTypeOK
          BY <1>1 DEF RecorderInv
        <5>2. \A j \in DOMAIN bucket : bucket[j].name # n =>
                \E k \in DOMAIN Deleted(n) : Deleted(n)[k] = bucket[j]
          BY <5>1, DeletedKeeps, Zenon
        <5>3. PICK k \in DOMAIN Deleted(n) : Deleted(n)[k] = bucket[i]
          BY <4>1, <5>2
        <5> QED
          BY <3>2, <5>3
      <4>2. CASE bucket[i].name = n
        BY <1>1, <3>2, <4>2 DEF RecorderInv, KeepInv
      <4> QED
        BY <4>1, <4>2
    <3> QED
      BY <1>1, <2>1, <2>2, <3>1, <3>2, BucketMoves DEF RecorderInv
  <2> QED
    BY <1>1, <2>1, <2>2, RecorderMoves DEF recorder, SecondPasses
<1>2. RecorderInv /\ [StagesNext]_stagesVars =>
        [(\A c \in Captures : name[c] # 0 => Alone(c)) => \A i \in DOMAIN bucket : Kept(i)]_stagesVars
  BY <1>1 DEF Distinct
<1> QED
  BY <1>2, RecorderInvInit, RecorderInvNext, PTL DEF StagesSpec, NewestAreKept

-----------------------------------------------------------------------------
(* sat bootsys boot --stage k8s-check.                                     *)

\* The record that was read is the newest object or nothing, and a member that
\* is not awaited any more was found complete by that record.
CheckInv ==
  /\ CheckTypeOK
  /\ stage # "k8s-check" => chkPc = "idle"
  /\ chkPc \in {"idle", "api", "members"} => stored = <<>> /\ members = {}
  /\ chkPc = "restored" => awaited = {}
  /\ stored = <<>> \/ stored = <<{}>> \/ (bucket # <<>> /\ stored = <<Last(bucket).data>>)
  /\ \A x \in members \ awaited : stored # <<>> /\ Completed(found, stored[1], x)

LEMMA CheckInvInit == StagesInit => CheckInv
<1> SUFFICES ASSUME StagesInit
             PROVE  CheckInv
  OBVIOUS
<1>1. stage # "k8s-check" /\ CheckInit /\ kind \in DOMAIN States
  BY DEF StagesInit, RecorderInit
<1> QED
  BY <1>1, NothingIsSnapshot DEF CheckInit, CheckInv, CheckTypeOK

\* Nothing but the stage itself moves the check, and nothing moves the bucket
\* during that stage.
LEMMA CheckMoves ==
  ASSUME [StagesNext]_stagesVars
  PROVE  /\ kind' = kind
         /\ \/ stage = "k8s-check" /\ stage' = stage /\ CheckNext
            \/ UNCHANGED check /\ (stage # "k8s-check" \/ (stage' = stage /\ bucket' = bucket))
<1>1. CASE CheckState
  BY <1>1 DEF CheckState, CheckNext
<1>2. CASE Change /\ stage # "session-checks"
  BY <1>2 DEF Change, StateChanges, recorder
<1>3. CASE Change /\ stage = "session-checks"
  BY <1>3 DEF Change
<1>4. CASE Reboot
  BY <1>4 DEF Reboot
<1>5. CASE \/ \E c \in Captures : Capture(CaptureStep(c))
           \/ Capture(SecondPasses) \/ CheckSessions(SessionsNext)
  <2>1. UNCHANGED check /\ stage # "k8s-check"
    BY <1>5 DEF Capture, CheckSessions
  <2> QED
    BY <2>1, RecorderMoves
<1>6. CASE Finished \/ UNCHANGED stagesVars
  BY <1>6 DEF Finished, stagesVars, recorder
<1> QED
  BY <1>1, <1>2, <1>3, <1>4, <1>5, <1>6, RecorderMoves DEF StagesNext

LEMMA StoredIsContents ==
  ASSUME RecorderTypeOK, NEW st \in StoredStates
  PROVE  /\ st \in Contents
         /\ st = {} \/ (bucket # <<>> /\ st = Last(bucket).data)
<1>1. CASE st = {}
  BY <1>1 DEF Contents
<1>2. CASE st # {}
  <2>1. bucket # <<>> /\ st = Last(bucket).data
    BY <1>2 DEF StoredStates
  <2>2. Last(bucket) \in Objects
    BY <2>1 DEF RecorderTypeOK, Last
  <2> QED
    BY <2>1, <2>2 DEF Objects
<1> QED
  BY <1>1, <1>2

LEMMA PollKeepsCheckInv ==
  ASSUME RecorderTypeOK, CheckInv, Poll, kind' = kind, bucket' = bucket, stage' = stage
  PROVE  CheckInv'
<1> USE DEF CheckInv, CheckTypeOK
<1>1. PICK now \in Observable, st \in IF stored = <<>> THEN StoredStates ELSE Range(stored) :
        LET done == {x \in awaited : Completed(now, st, x)}
        IN /\ stored' = <<st>>
           /\ awaited' = awaited \ done
           /\ found' = [x \in Things |-> IF x \in done THEN now[x] ELSE found[x]]
  BY DEF Poll
<1> DEFINE done == {x \in awaited : Completed(now, st, x)}
<1>2. UNCHANGED <<chkPc, members, timeUp>> /\ chkPc = "poll"
  BY DEF Poll
<1>3. Snapshots' = Snapshots /\ Contents' = Contents
  BY DEF Snapshots, Contents
<1>4. now \in Snapshots
  BY ObservedIsSnapshot DEF RecorderTypeOK
<1>5. /\ st \in Contents
      /\ st = {} \/ (bucket # <<>> /\ st = Last(bucket).data)
      /\ stored # <<>> => st = stored[1]
  <2>1. CASE stored = <<>>
    BY <2>1, StoredIsContents
  <2>2. CASE stored # <<>>
    <3>1. PICK s \in Contents : stored = <<s>>
      BY <2>2
    <3>2. st = s
      BY <3>1 DEF Range
    <3> QED
      BY <3>1, <3>2
  <2> QED
    BY <2>1, <2>2
<1>6. found' \in Snapshots
  BY <1>1, <1>4 DEF Snapshots
<1>7. ASSUME NEW x \in members' \ awaited'
      PROVE  Completed(found, stored[1], x)'
  <2>1. stored'[1] = st
    BY <1>1
  <2>2. CASE x \in done
    <3>1. Completed(now, st, x) /\ found'[x] = now[x]
      BY <1>1, <2>2
    <3> QED
      BY <2>1, <3>1 DEF Completed, PodCompleted, PortCompleted, Recorded
  <2>3. CASE x \notin done
    <3>1. x \in members \ awaited /\ found'[x] = found[x]
      BY <1>1, <1>2, <2>3
    <3>2. Completed(found, st, x)
      BY <1>5, <3>1
    <3> QED
      BY <2>1, <3>1, <3>2 DEF Completed, PodCompleted, PortCompleted, Recorded
  <2> QED
    BY <2>2, <2>3
<1>8. stored' = <<st>> /\ awaited' \subseteq awaited
  BY <1>1
<1> HIDE DEF done
<1> QED
  BY <1>2, <1>3, <1>5, <1>6, <1>7, <1>8

LEMMA CheckInvNext == RecorderTypeOK /\ CheckInv /\ [StagesNext]_stagesVars => CheckInv'
<1> SUFFICES ASSUME RecorderTypeOK, CheckInv, [StagesNext]_stagesVars
             PROVE  CheckInv'
  OBVIOUS
<1> USE DEF CheckInv, CheckTypeOK
<1>1. kind' = kind /\ Snapshots' = Snapshots /\ Contents' = Contents
  BY CheckMoves DEF Snapshots, Contents
<1>2. ASSUME UNCHANGED check, stage # "k8s-check" \/ (stage' = stage /\ bucket' = bucket)
      PROVE  CheckInv'
  <2>1. CASE stage # "k8s-check"
    BY <1>1, <1>2, <2>1 DEF check
  <2>2. CASE stage = "k8s-check"
    BY <1>1, <1>2, <2>2 DEF check, Completed, PodCompleted, PortCompleted, Recorded
  <2> QED
    BY <2>1, <2>2
<1>3. ASSUME stage = "k8s-check", stage' = stage, CheckNext
      PROVE  CheckInv'
  <2>1. bucket' = bucket
    BY <1>3 DEF CheckNext, recorder
  <2> USE <1>1, <1>3, <2>1
  <2>2. CASE StartCheck \/ AwaitApi
    BY <2>2 DEF StartCheck, AwaitApi, Completed, PodCompleted, PortCompleted, Recorded
  <2>3. CASE FindMembers
    <3>1. \A ms \in Listed : ms \subseteq Things
      BY StateRecorderAssumption DEF Listed
    <3> QED
      BY <2>3, <3>1 DEF FindMembers, Completed, PodCompleted, PortCompleted, Recorded
  <2>4. CASE Poll
    BY <2>4, PollKeepsCheckInv
  <2>5. CASE PollCrashes \/ WaitTimesOut
    BY <2>5 DEF PollCrashes, WaitTimesOut, Completed, PodCompleted, PortCompleted, Recorded
  <2>6. CASE EndCheck
    BY <2>6 DEF EndCheck, Completed, PodCompleted, PortCompleted, Recorded
  <2> QED
    BY <2>2, <2>3, <2>4, <2>5, <2>6 DEF CheckNext, CheckStep
<1> QED
  BY <1>2, <1>3, CheckMoves

(* When the check after the boot succeeds, every pod (port) it waited for  *)
(* was found as it was in the last capture before the shutdown, unless     *)
(* that could not be read, or it was not there then: of captures that      *)
(* overlap, the newest object holds what its own capture saw.              *)
THEOREM RestoredIsCaptured == StagesSpec => []RestoredAsCaptured
<1>1. RecorderInv /\ CheckInv => RestoredAsCaptured
  <2> SUFFICES ASSUME RecorderInv, CheckInv, NEW c \in Captures,
                      chkPc = "restored", recPc[c] = "captured", Alone(c),
                      Last(bucket).by = c, stored \notin {<<>>, <<{}>>},
                      NEW x \in members
               PROVE  \/ found[x] = data[c][x]
                      \/ found[x] \in {"Running", "Succeeded"} /\ data[c][x] = "absent"
                      \/ found[x] = "enabled"
    BY DEF RestoredAsCaptured
  <2>1. bucket # <<>> /\ stored = <<Last(bucket).data>>
    BY DEF CheckInv
  <2>2. Last(bucket).data = {data[c]}
    <3>1. Len(bucket) \in DOMAIN bucket /\ Last(bucket) = bucket[Len(bucket)]
      BY <2>1 DEF RecorderInv, RecorderTypeOK, Last
    <3> QED
      BY <3>1 DEF RecorderInv, DataInv
  <2>3. Completed(found, {data[c]}, x)
    BY <2>1, <2>2 DEF CheckInv
  <2>4. Recorded({data[c]}, x) = data[c][x]
    BY DEF Recorded
  <2> QED
    BY <2>3, <2>4 DEF Completed, PodCompleted, PortCompleted
<1>2. RecorderInv => RecorderTypeOK
  BY DEF RecorderInv
<1> QED
  BY <1>1, <1>2, RecorderInvInit, RecorderInvNext, CheckInvInit, CheckInvNext, PTL DEF StagesSpec

-----------------------------------------------------------------------------
LEMMA StageIs ==
  /\ StagesInit => stage \in {"capture-state", "session-checks"} /\ changes = 0
  /\ [StagesNext]_stagesVars => stage' \in {stage, "k8s-check"} /\ changes' \in {changes, changes + 1, 0}
<1>1. [StagesNext]_stagesVars => stage' \in {stage, "k8s-check"} /\ changes' \in {changes, changes + 1, 0}
  BY DEF StagesNext, stagesVars, Capture, SecondPasses, Change, CheckSessions, Reboot, CheckState, Finished
<1> QED
  BY <1>1 DEF StagesInit

(* The state of the stages, of the recorder, the check and the session     *)
(* checks keeps its types; no two objects of the bucket have one name.     *)
THEOREM StagesTypeCorrect == StagesSpec => []StagesTypeOK
<1> DEFINE StageOK == stage \in {"capture-state", "session-checks", "k8s-check"} /\ changes \in Nat
<1>1. StagesInit => StageOK
  BY StageIs
<1>2. StageOK /\ [StagesNext]_stagesVars => StageOK'
  BY StageIs
<1>3. RecorderInv /\ CheckInv /\ SessionsInv /\ StageOK => StagesTypeOK
  BY DEF RecorderInv, CheckInv, SessionsInv, StagesTypeOK
<1>4. RecorderInv => RecorderTypeOK
  BY DEF RecorderInv
<1> QED
  BY <1>1, <1>2, <1>3, <1>4, RecorderInvInit, RecorderInvNext, CheckInvInit, CheckInvNext,
     SessionsInvInit, SessionsInvNext, PTL DEF StagesSpec
=============================================================================
