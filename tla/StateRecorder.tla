---------------------------- MODULE StateRecorder ----------------------------
(***************************************************************************)
(* sat bootsys shutdown --stage capture-state: the phases of all pods, or  *)
(* the states of all ports of the high-speed network, are written to a     *)
(* local file, uploaded to object storage, and all but the newest objects  *)
(* are deleted.  Nothing keeps two captures from running at a time.        *)
(* Source: sat/cli/bootsys/state_recorder.py.                              *)
(***************************************************************************)
EXTENDS Naturals, Sequences, SequencesExt

CONSTANTS
  Things,      \* the pods, or the ports
  PortSets,    \* the port sets that the ports belong to
  States,      \* the states of pods, and of ports
  Captures,    \* the captures that are run before the system is shut down
  NumToKeep,   \* bootsys.max_pod_states or bootsys.max_hsn_states
  LastSecond   \* a bound for TLC: the captures take seconds 1 to LastSecond

ASSUME StateRecorderAssumption ==
  /\ DOMAIN States = {"pods", "ports"}
  /\ \A k \in DOMAIN States : "absent" \in States[k]
  /\ UNION PortSets = Things
  /\ NumToKeep \in Nat
  /\ LastSecond \in Nat \ {0}

VARIABLES
  kind,     \* which recorder it is, and which waiter
  state,    \* the state of each thing
  second,   \* the clock, in the resolution of the names
  bucket,   \* the objects stored, from oldest to most recent
  local,    \* the contents of the local file of each name: {} if it is empty
  recPc,    \* where each capture is
  data,     \* state_data; kept as a history when a capture has succeeded
  name,     \* new_file_name
  toRemove  \* candidates_for_removal

recorder == <<bucket, local, recPc, data, name, toRemove>>

Snapshots == [Things -> States[kind]]
Names == 0..LastSecond
Contents == {{}} \cup {{s} : s \in Snapshots}  \* of a file, which may be empty
Objects == [name : Names, by : Captures, data : Contents]
Over == {"captured", "failed", "crashed"}

RecorderTypeOK ==
  /\ kind \in DOMAIN States
  /\ state \in Snapshots
  /\ second \in 1..LastSecond
  /\ bucket \in Seq(Objects)
  /\ \A i, j \in DOMAIN bucket : bucket[i].name = bucket[j].name => i = j
  /\ DOMAIN local \subseteq Names /\ \A n \in DOMAIN local : local[n] \in Contents
  /\ recPc \in [Captures -> {"idle", "create", "write", "upload", "list", "remove"} \cup Over]
  /\ data \in [Captures -> Snapshots]
  /\ name \in [Captures -> Names]
  /\ toRemove \in [Captures -> SUBSET Names]

Nothing == [x \in Things |-> "absent"]

RecorderInit ==
  /\ kind \in DOMAIN States
  /\ state \in Snapshots
  /\ second = 1
  /\ bucket = <<>>
  /\ local = <<>>
  /\ recPc = [c \in Captures |-> "idle"]
  /\ data = [c \in Captures |-> Nothing]
  /\ name = [c \in Captures |-> 0]
  /\ toRemove = [c \in Captures |-> {}]

-----------------------------------------------------------------------------
StateChanges(x) ==
  /\ \E s \in States[kind] : state' = [state EXCEPT ![x] = s]
  /\ UNCHANGED <<kind, second, recorder>>

SecondPasses ==
  /\ second < LastSecond
  /\ second' = second + 1
  /\ UNCHANGED <<kind, state, recorder>>

To(c, pc) == recPc' = [recPc EXCEPT ![c] = pc]

\* do_state_capture: a StateError fails the stage, any other ends the process.
End(c, result) ==
  /\ To(c, result)
  /\ data' = (IF result = "captured" THEN data ELSE [data EXCEPT ![c] = Nothing])
  /\ toRemove' = [toRemove EXCEPT ![c] = {}]

\* What can be learnt of the things: every pod; the ports of those port sets
\* that are answered for.
PortsAnswered ==
  {[x \in Things |-> IF x \in UNION sets THEN state[x] ELSE "absent"] : sets \in SUBSET PortSets}
Observable == IF kind = "pods" THEN {state} ELSE PortsAnswered

\* get_state_data; of pods, the configuration of the API may not be found, and
\* an error of the API is nobody's.
GetStateData(c) ==
  /\ recPc[c] = "idle"
  /\ \/ /\ To(c, "create")
        /\ \E s \in Observable : data' = [data EXCEPT ![c] = s]
        /\ UNCHANGED toRemove
     \/ kind = "pods" /\ End(c, "failed")
     \/ kind = "pods" /\ End(c, "crashed")
  /\ UNCHANGED <<kind, state, second, bucket, local, name>>

Fails(c) == End(c, "failed") /\ UNCHANGED <<bucket, local, name>>

With(f, n, v) == [m \in DOMAIN f \cup {n} |-> IF m = n THEN v ELSE f[m]]
Without(f, n) == [m \in DOMAIN f \ {n} |-> f[m]]

\* Its name has a resolution of one second; a file of that name is emptied.
CreateNewFile(c) ==
  /\ recPc[c] = "create"
  /\ \/ /\ To(c, "write")
        /\ name' = [name EXCEPT ![c] = second]
        /\ local' = With(local, second, {})
        /\ UNCHANGED <<bucket, data, toRemove>>
     \/ Fails(c)
  /\ UNCHANGED <<kind, state, second>>

WriteFile(c) ==
  /\ recPc[c] = "write"
  /\ \/ /\ To(c, "upload")
        /\ local' = With(local, name[c], {data[c]})
        /\ UNCHANGED <<bucket, data, name, toRemove>>
     \/ Fails(c)
  /\ UNCHANGED <<kind, state, second>>

\* The objects but the one of a name, if there is one.
Deleted(n) ==
  LET with == {i \in DOMAIN bucket : bucket[i].name = n}
  IN IF with = {} THEN bucket ELSE RemoveAt(bucket, CHOOSE i \in with : TRUE)

\* An upload makes its object the newest one, or replaces the one of its name.
Uploaded(c) ==
  Append(Deleted(name[c]), [name |-> name[c], by |-> c, data |-> local[name[c]]])

\* The local file is removed in any case; it may be gone already, if another
\* capture has the same name.
Upload(c) ==
  /\ recPc[c] = "upload"
  /\ IF name[c] \notin DOMAIN local
     THEN End(c, "crashed") /\ UNCHANGED <<bucket, local, name>>
     ELSE /\ local' = Without(local, name[c])
          /\ \/ bucket' = Uploaded(c) /\ To(c, "list") /\ UNCHANGED <<data, toRemove>>
             \/ End(c, "failed") /\ UNCHANGED bucket
          /\ UNCHANGED name
  /\ UNCHANGED <<kind, state, second>>

\* Fault: the newest ones are removed.
NewestFiles == {bucket[i].name : i \in {j \in DOMAIN bucket : j > NumToKeep}}

\* All but the last num_to_keep.
OldFiles == {bucket[i].name : i \in {j \in DOMAIN bucket : j + NumToKeep <= Len(bucket)}}

ListOldFiles(c) ==
  /\ recPc[c] = "list"
  /\ \/ /\ To(c, "remove")
        /\ toRemove' = [toRemove EXCEPT ![c] = OldFiles]
        /\ UNCHANGED <<bucket, local, data, name>>
     \/ Fails(c)
  /\ UNCHANGED <<kind, state, second>>

\* A deletion that fails is only warned about.
RemoveOldFile(c) ==
  /\ recPc[c] = "remove"
  /\ \E n \in toRemove[c] :
       /\ toRemove' = [toRemove EXCEPT ![c] = @ \ {n}]
       /\ bucket' \in {bucket, Deleted(n)}
  /\ UNCHANGED <<kind, state, second, local, recPc, data, name>>

\* The objects that are left are listed once more, which may fail.
Captured(c) ==
  /\ recPc[c] = "remove"
  /\ toRemove[c] = {}
  /\ \E result \in {"captured", "failed"} : End(c, result)
  /\ UNCHANGED <<kind, state, second, bucket, local, name>>

CaptureStep(c) ==
  \/ GetStateData(c) \/ CreateNewFile(c) \/ WriteFile(c) \/ Upload(c)
  \/ ListOldFiles(c) \/ RemoveOldFile(c) \/ Captured(c)

-----------------------------------------------------------------------------
\* get_stored_state: {} if it raises StateError, as when the newest object is
\* an empty file.
StoredStates ==
  {{}} \cup (IF bucket = <<>> THEN {} ELSE {Last(bucket).data})
=============================================================================
