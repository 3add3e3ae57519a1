---------------------------- MODULE ConfigsProofs ----------------------------
(***************************************************************************)
(* Proofs about the commands that make something of their input, for any   *)
(* input: the configurations of sat bootprep, the CFS session that         *)
(* customizes an image, sat bmccreds, and the commands that report.  What  *)
(* the parsers of a query return is defined by recursive functions: the    *)
(* lemma Recursion shows that these exist, and FromTheEnd what holds of    *)
(* each of their values.                                                   *)
(***************************************************************************)
EXTENDS ConfigsAndReports, FiniteSetTheorems, SequenceTheorems, TLAPS

\* Every set of naturals has a least element.
LEMMA Least ==
  ASSUME NEW T \in SUBSET Nat, T # {}
  PROVE  \E x \in T : \A y \in T : x <= y
<1> DEFINE R == StrictSubsetOrdering(Nat)
           U == {1 .. x : x \in T}
<1>1. IsWellFoundedOn(R, FiniteSubsetsOf(Nat))
  BY FS_StrictSubsetOrderingWellFounded
<1>2. U \subseteq FiniteSubsetsOf(Nat) /\ U # {}
  <2>1. \A x \in T : 1 .. x \in SUBSET Nat /\ IsFiniteSet(1 .. x)
    BY FS_Interval
  <2> QED
    BY <2>1 DEF FiniteSubsetsOf
<1>3. \E u \in U : \A v \in U : <<v, u>> \notin R
  <2> HIDE DEF R, U
  <2> QED
    BY <1>1, <1>2, WFMin
<1>4. PICK x \in T : \A y \in T : <<1 .. y, 1 .. x>> \notin R
  BY <1>3
<1>5. ASSUME NEW y \in T, y < x
      PROVE  FALSE
  <2>1. 1 .. y \subseteq 1 .. x /\ x \in 1 .. x /\ x \notin 1 .. y
    BY <1>5
  <2>2. <<1 .. y, 1 .. x>> \in R
    BY <2>1 DEF StrictSubsetOrdering
  <2> QED
    BY <1>4, <2>2
<1> QED
  BY <1>5

LEMMA GivenAre ==
  ASSUME NEW used, NEW inputs, inputs # {}, NEW x \in Given(used, inputs)
  PROVE  x \in inputs
  BY DEF Given

LEMMA StepsAre ==
  ASSUME [Next]_vars
  PROVE  /\ ConfigsNext \/ UNCHANGED configs
         /\ SessionNext \/ UNCHANGED sessionVars
         /\ ReportNext \/ UNCHANGED reports
         /\ \/ GetHsmComponents \/ ExpandAndScreen \/ GetBmcXnames \/ ScreenXnameArgs
            \/ GetBmcsByType \/ GetAndFilterBmcs \/ UNCHANGED names
         /\ (tool = "bmccreds" /\ CredsNext) \/ UNCHANGED creds
<1>1. CredsNext => GetBmcsByType \/ GetAndFilterBmcs \/ UNCHANGED names
  BY DEF CredsNext, ValidateArgs, CheckEligibility, Confirm, SetBmcPasswords, GiveUpCreds
<1>2. CASE \/ Configure(ConfigsNext) \/ Customize(SessionNext) \/ Show(ReportNext)
  BY <1>2 DEF Configure, Customize, Show
<1>3. CASE \/ Resolve("sensors", GetHsmComponents \/ ExpandAndScreen)
           \/ Resolve("xnames", GetBmcXnames \/ ScreenXnameArgs)
  BY <1>3 DEF Resolve
<1>4. CASE SetCreds(CredsNext)
  BY <1>1, <1>4 DEF SetCreds
<1>5. CASE UNCHANGED vars
  BY <1>5 DEF vars
<1> QED
  BY <1>2, <1>3, <1>4, <1>5 DEF Next, Ended

-----------------------------------------------------------------------------
(* The configurations of an input file.                                    *)

LayerRecords == [repo : Repos \cup {"none"}, commit : Commits \cup {None}, branch : BOOLEAN]

\* What is given to CFS of a layer of the input file.
Resolves(r, l) ==
  /\ r.repo = l.repo
  /\ IF r.branch THEN ~resolve_branches ELSE r.commit \in Commits

\* The layers that were made are the first ones of the configuration under way.
MadeInOrder ==
  /\ todo = {} => made = <<>>
  /\ \A k \in 1 .. Len(made) : made[k] = FailedLayer \/ Resolves(made[k], Layers[k])

\* What was accepted is whole, and not what the admin meant to keep.
AcceptedWhole ==
  \A n \in ConfigNames : accepted[n] # NoConfig =>
    /\ \E i \in DOMAIN Input : Input[i].name = n /\ IsWhole(accepted[n].layers, Input[i])
    /\ ~dry_run /\ (n \in existing_names => onExisting = "overwrite")

\* Every configuration is still to be made, failed, skipped, or accepted.
NoneForgotten ==
  \A i \in DOMAIN Input :
    \/ i \in todo \cup failed_configs
    \/ dry_run \/ accepted[Input[i].name] # NoConfig
    \/ onExisting = "skip" /\ Input[i].name \in existing_names

ConfigInv ==
  /\ ConfigsTypeOK
  /\ resolve_branches \in BOOLEAN
  /\ made \in Seq(LayerRecords)
  /\ MadeInOrder
  /\ configPc \in {"existing", "choose"} =>
       /\ onExisting \in {"ask", "skip", "overwrite"}
       /\ todo = {} /\ failed_configs = {} /\ \A n \in ConfigNames : accepted[n] = NoConfig
  /\ configPc = "existing" => existing_names = {}
  /\ \A i \in todo : Input[i].name \in existing_names => onExisting = "overwrite"
  /\ AcceptedWhole
  /\ configPc \in {"create", "done"} => NoneForgotten
  /\ configPc = "done" => todo = {} /\ failed_configs = {}

LEMMA ConfigInvInit == Init => ConfigInv
<1> SUFFICES ASSUME Init
             PROVE  ConfigInv
  OBVIOUS
<1>1. /\ configPc = "existing" /\ existing_names = {} /\ todo = {} /\ made = <<>>
      /\ failed_configs = {} /\ accepted = [n \in ConfigNames |-> NoConfig]
  BY DEF Init, ConfigsInit
<1>3. resolve_branches \in BOOLEAN /\ onExisting \in {"ask", "skip", "overwrite"}
  BY GivenAre DEF Init, ConfigsInit
<1>4. head \in [Repos -> {None, First}]
  <2>1. [r \in Repos |-> None] \in [Repos -> {None, First}]
    OBVIOUS
  <2> QED
    BY <2>1, GivenAre DEF Init, ConfigsInit
<1>2. First \in Pushed
  BY InputAssumption DEF First, Pushed
<1> QED
  BY <1>1, <1>2, <1>3, <1>4 DEF ConfigInv, ConfigsTypeOK, MadeInOrder, AcceptedWhole

\* The configuration under way.
LEMMA CurrentIs ==
  ASSUME todo \subseteq DOMAIN Input, todo # {}
  PROVE  /\ Current \in todo /\ Input[Current].name \in ConfigNames
         /\ Layers = Input[Current].layers /\ Layers \in Seq(InputLayers)
<1>1. DOMAIN Input \subseteq Nat
  BY InputAssumption
<1>2. PICK i \in todo : \A j \in todo : i <= j
  BY <1>1, Least
<1>3. Current \in todo
  BY <1>2 DEF Current
<1> DEFINE C == [name : ConfigNames, layers : Seq(InputLayers)]
<1>4. Input[Current] \in C
  <2> HIDE DEF C
  <2>1. Input \in Seq(C)
    BY InputAssumption DEF C
  <2> QED
    BY <1>3, <2>1
<1> QED
  BY <1>3, <1>4 DEF Layers

LEMMA LayerDataIs ==
  ASSUME ConfigsTypeOK, resolve_branches \in BOOLEAN,
         NEW l \in InputLayers, NEW d \in LayerData(l)
  PROVE  d \in LayerRecords /\ (d = FailedLayer \/ Resolves(d, l))
<1>1. l.by \in {"branch", "commit", "version"} /\ l.repo \in Repos
  BY DEF InputLayers
<1>2. /\ GivenCommit \in Commits /\ ReleasedCommit \in Commits
      /\ \A r \in Repos : Resolved(r) \subseteq {None} \cup Commits
  <2> HIDE DEF Pushed
  <2> QED
    BY DEF Commits, Resolved, ConfigsTypeOK
<1>3. CommitOf(l) \subseteq {None} \cup Commits
  <2>1. CASE l.by = "commit"
    BY <1>2, <2>1 DEF CommitOf
  <2>2. CASE l.by = "branch"
    BY <1>1, <1>2, <2>2 DEF CommitOf
  <2>3. CASE l.by = "version"
    BY <1>2, <2>3 DEF CommitOf
  <2> QED
    BY <1>1, <2>1, <2>2, <2>3
<1> DEFINE branch == l.by = "branch" /\ ~resolve_branches
<1>4. PICK c \in CommitOf(l) :
        d = IF HasCloneUrl(l) /\ (c # None \/ branch) THEN Layer(l.repo, c, branch)
            ELSE FailedLayer
  BY DEF LayerData
<1>5. FailedLayer \in LayerRecords
  BY DEF FailedLayer, Layer, LayerRecords
<1>6. CASE d = Layer(l.repo, c, branch) /\ (c # None \/ branch)
  <2>1. d.repo = l.repo /\ d.commit = c /\ d.branch = branch /\ branch \in BOOLEAN
    BY <1>6 DEF Layer
  <2>2. d \in LayerRecords
    BY <1>1, <1>3, <1>6, <2>1 DEF Layer, LayerRecords
  <2> QED
    BY <1>3, <1>6, <2>1, <2>2 DEF Resolves
<1> QED
  BY <1>4, <1>5, <1>6

LEMMA MakeLayerKeepsConfigInv ==
  ASSUME ConfigInv, MakeLayer
  PROVE  ConfigInv'
<1>1. PICK d \in LayerData(Layers[Len(made) + 1]) : made' = Append(made, d)
  BY DEF MakeLayer
<1>2. /\ UNCHANGED <<options, world, configPc, existing_names, todo, failed_configs, accepted>>
      /\ configPc = "create" /\ todo # {} /\ Len(made) < Len(Layers)
  BY DEF MakeLayer
<1>3. Layers \in Seq(InputLayers) /\ made \in Seq(LayerRecords)
  BY <1>2, CurrentIs DEF ConfigInv, ConfigsTypeOK
<1> DEFINE k == Len(made) + 1
<1>4. k \in 1 .. Len(Layers) /\ Layers[k] \in InputLayers
  BY <1>2, <1>3
<1>5. d \in LayerRecords /\ (d = FailedLayer \/ Resolves(d, Layers[k]))
  BY <1>1, <1>4, LayerDataIs DEF ConfigInv
<1>6. /\ made' \in Seq(LayerRecords) /\ Len(made') = k /\ made'[k] = d
      /\ \A j \in 1 .. Len(made) : made'[j] = made[j]
  BY <1>1, <1>3, <1>5
<1>7. Layers' = Layers /\ resolve_branches' = resolve_branches
  BY <1>2 DEF Layers, Current, options
<1>8. MadeInOrder'
  <2>1. \A j \in 1 .. Len(made) : made[j] = FailedLayer \/ Resolves(made[j], Layers[j])
    BY <1>2 DEF ConfigInv, MadeInOrder
  <2>2. \A j \in 1 .. Len(made') : j = k \/ j \in 1 .. Len(made)
    BY <1>3, <1>6
  <2> HIDE DEF k
  <2>3. \A j \in 1 .. Len(made') : made'[j] = FailedLayer \/ Resolves(made'[j], Layers[j])
    BY <1>5, <1>6, <2>1, <2>2
  <2> QED
    BY <1>2, <1>7, <2>3 DEF MadeInOrder, Resolves
<1> QED
  BY <1>2, <1>6, <1>7, <1>8
  DEF ConfigInv, ConfigsTypeOK, AcceptedWhole, NoneForgotten, IsWhole, options, world

LEMMA PutConfigKeepsConfigInv ==
  ASSUME ConfigInv, PutConfig
  PROVE  ConfigInv'
<1> DEFINE name == Input[Current].name
<1>1. PICK outcome \in PutOutcomes :
        /\ accepted' = [n \in ConfigNames |->
                          IF n \in {m \in ConfigNames : outcome.taken /\ m = name}
                            THEN Good ELSE accepted[n]]
        /\ failed_configs' = failed_configs \cup (IF outcome.ok THEN {} ELSE {Current})
  BY DEF PutConfig
<1>2. /\ configPc = "create" /\ todo # {} /\ Len(made) = Len(Layers)
      /\ todo' = todo \ {Current} /\ made' = <<>>
      /\ UNCHANGED <<options, head, configPc, existing_names>>
  BY DEF PutConfig
<1>3. /\ Current \in todo /\ Current \in DOMAIN Input /\ name \in ConfigNames
      /\ Layers = Input[Current].layers /\ Layers \in Seq(InputLayers)
  BY <1>2, CurrentIs DEF ConfigInv, ConfigsTypeOK
<1>4. /\ outcome.taken => ~FailedLayers /\ ~dry_run
      /\ outcome.ok => dry_run \/ outcome.taken
  BY DEF PutOutcomes
<1>5. outcome.taken => IsWhole(made, Input[Current])
  <2> SUFFICES ASSUME outcome.taken
               PROVE  IsWhole(made, Input[Current])
    OBVIOUS
  <2>1. \A k \in DOMAIN made : made[k] # FailedLayer
    BY <1>4 DEF FailedLayers, Range
  <2>2. made \in Seq(LayerRecords)
    BY DEF ConfigInv
  <2>3. \A k \in DOMAIN made : Resolves(made[k], Layers[k])
    BY <1>2, <2>1, <2>2 DEF ConfigInv, MadeInOrder
  <2> QED
    BY <1>2, <1>3, <2>3 DEF IsWhole, Resolves
<1>6. Good.layers = made /\ Good # NoConfig
  BY DEF Good, Config, NoConfig
<1> HIDE DEF name
<1>7. \A n \in ConfigNames :
        /\ outcome.taken /\ n = name => accepted'[n] = Good
        /\ ~(outcome.taken /\ n = name) => accepted'[n] = accepted[n]
  BY <1>1
<1>8. UNCHANGED <<resolve_branches, dry_run, onExisting>>
  BY <1>2 DEF options
<1>9. AcceptedWhole'
  <2> SUFFICES ASSUME NEW n \in ConfigNames, accepted'[n] # NoConfig
               PROVE  /\ \E i \in DOMAIN Input :
                           Input[i].name = n /\ IsWhole(accepted'[n].layers, Input[i])
                      /\ ~dry_run /\ (n \in existing_names => onExisting = "overwrite")
    BY <1>2, <1>8 DEF AcceptedWhole, IsWhole
  <2>1. CASE outcome.taken /\ n = name
    <3>1. accepted'[n].layers = made
      BY <1>6, <1>7, <2>1
    <3>2. Input[Current].name = n /\ IsWhole(accepted'[n].layers, Input[Current])
      BY <1>5, <2>1, <3>1 DEF name
    <3> QED
      BY <1>3, <1>4, <2>1, <3>2 DEF ConfigInv
  <2>2. CASE ~(outcome.taken /\ n = name)
    BY <1>7, <2>2 DEF ConfigInv, AcceptedWhole
  <2> QED
    BY <2>1, <2>2
<1>10. NoneForgotten'
  <2> SUFFICES ASSUME NEW i \in DOMAIN Input
               PROVE  \/ i \in todo' \cup failed_configs'
                      \/ dry_run \/ accepted'[Input[i].name] # NoConfig
                      \/ onExisting = "skip" /\ Input[i].name \in existing_names
    BY <1>2, <1>8 DEF NoneForgotten
  <2>1. Input[i].name \in ConfigNames
    BY DEF ConfigNames
  <2>2. CASE i = Current
    <3>1. CASE outcome.taken
      BY <1>6, <1>7, <2>1, <2>2, <3>1 DEF name
    <3>2. CASE ~outcome.taken /\ ~outcome.ok
      BY <1>1, <2>2, <3>2
    <3> QED
      BY <1>4, <3>1, <3>2
  <2>3. CASE i # Current
    <3>1. \/ i \in todo \cup failed_configs
          \/ dry_run \/ accepted[Input[i].name] # NoConfig
          \/ onExisting = "skip" /\ Input[i].name \in existing_names
      BY <1>2 DEF ConfigInv, NoneForgotten
    <3>2. accepted[Input[i].name] # NoConfig => accepted'[Input[i].name] # NoConfig
      BY <1>6, <1>7, <2>1
    <3>3. i \in todo \cup failed_configs => i \in todo' \cup failed_configs'
      BY <1>1, <1>2, <2>3
    <3> QED
      BY <3>1, <3>2, <3>3
  <2> QED
    BY <2>2, <2>3
<1>11. ConfigsTypeOK'
  BY <1>1, <1>2, <1>3 DEF ConfigInv, ConfigsTypeOK
<1>12. MadeInOrder'
  <2>1. made' = <<>> /\ 1 .. Len(made') = {}
    BY <1>2
  <2> QED
    BY <2>1 DEF MadeInOrder
<1> QED
  BY <1>2, <1>8, <1>9, <1>10, <1>11, <1>12 DEF ConfigInv

LEMMA ConfigInvNext == ConfigInv /\ [Next]_vars => ConfigInv'
<1> SUFFICES ASSUME ConfigInv, [Next]_vars
             PROVE  ConfigInv'
  OBVIOUS
<1>1. CASE ListConfigs
  <2>1. /\ configPc = "existing" /\ configPc' \in {"failed", "choose"}
        /\ existing_names' \subseteq ConfigNames
        /\ UNCHANGED <<options, world, todo, made, failed_configs, accepted>>
    BY <1>1 DEF ListConfigs, ConfigInv
  <2> QED
    BY <2>1 DEF ConfigInv, ConfigsTypeOK, MadeInOrder, AcceptedWhole, options, world
<1>2. CASE ChooseExisting
  <2>1. PICK choice \in Offered :
          /\ configPc' = (CASE choice = "abort" -> "failed"
                            [] choice = "EOF" -> "crashed"
                            [] OTHER -> "create")
          /\ todo' = (CASE choice = "skip" -> NotExisting
                        [] choice = "overwrite" -> DOMAIN Input
                        [] OTHER -> {})
          /\ onExisting' = IF existing_names = {} THEN onExisting ELSE choice
    BY <1>2 DEF ChooseExisting
  <2>2. /\ configPc = "choose"
        /\ UNCHANGED <<resolve_branches, dry_run, product, world, existing_names, made,
                       failed_configs, accepted>>
    BY <1>2 DEF ChooseExisting
  <2>3. /\ todo = {} /\ made = <<>> /\ failed_configs = {}
        /\ \A n \in ConfigNames : accepted[n] = NoConfig
    BY <2>2 DEF ConfigInv, MadeInOrder
  <2>4. /\ todo' \subseteq DOMAIN Input
        /\ configPc' \in {"create", "failed", "crashed"}
        /\ \A i \in todo' : Input[i].name \in existing_names => onExisting' = "overwrite"
        /\ configPc' = "create" =>
             \A i \in DOMAIN Input :
               i \in todo' \/ (onExisting' = "skip" /\ Input[i].name \in existing_names)
    <3>1. CASE choice = "skip"
      <4>0. existing_names # {}
        BY <3>1 DEF Offered
      <4>1. configPc' = "create" /\ todo' = NotExisting
        BY <2>1, <3>1
      <4>2. onExisting' = "skip"
        BY <2>1, <3>1, <4>0
      <4> QED
        BY <4>1, <4>2 DEF NotExisting
    <3>2. CASE choice = "overwrite"
      <4>1. configPc' = "create" /\ todo' = DOMAIN Input
        BY <2>1, <3>2
      <4>2. existing_names # {} => onExisting' = "overwrite"
        BY <2>1, <3>2
      <4> QED
        BY <4>1, <4>2
    <3>3. CASE choice \notin {"skip", "overwrite"}
      <4>1. choice \in {"abort", "EOF"}
        BY <2>2, <3>3 DEF Offered, ConfigInv
      <4>2. todo' = {} /\ configPc' \in {"failed", "crashed"}
        BY <2>1, <3>3, <4>1
      <4> QED
        BY <4>2
    <3> QED
      BY <3>1, <3>2, <3>3
  <2>5. MadeInOrder'
    <3>1. made' = <<>> /\ 1 .. Len(made') = {}
      BY <2>2, <2>3
    <3> QED
      BY <3>1 DEF MadeInOrder
  <2>6. AcceptedWhole' /\ (configPc' = "create" => NoneForgotten')
    BY <2>2, <2>3, <2>4 DEF AcceptedWhole, NoneForgotten
  <2> QED
    BY <2>2, <2>3, <2>4, <2>5, <2>6 DEF ConfigInv, ConfigsTypeOK, world
<1>3. CASE EndConfigs
  <2>1. /\ configPc = "create" /\ todo = {}
        /\ configPc' = IF failed_configs = {} THEN "done" ELSE "failed"
        /\ UNCHANGED <<options, world, existing_names, todo, made, failed_configs, accepted>>
    BY <1>3 DEF EndConfigs
  <2> QED
    BY <2>1 DEF ConfigInv, ConfigsTypeOK, MadeInOrder, AcceptedWhole, NoneForgotten, IsWhole,
                options, world
<1>4. ASSUME UNCHANGED <<options, configPc, existing_names, todo, made, failed_configs, accepted>>,
             head' \in [Repos -> {None} \cup Pushed]
      PROVE  ConfigInv'
  <2>1. Layers' = Layers /\ resolve_branches' = resolve_branches
    BY <1>4 DEF Layers, Current, options
  <2>2. MadeInOrder'
    BY <1>4, <2>1 DEF ConfigInv, MadeInOrder, Resolves
  <2> QED
    BY <1>4, <2>2 DEF ConfigInv, ConfigsTypeOK, AcceptedWhole, NoneForgotten, IsWhole, options
<1>5. ASSUME NEW r \in Repos, Push(r)
      PROVE  head' \in [Repos -> {None} \cup Pushed]
  <2>1. head \in [Repos -> {None} \cup Pushed] /\ head[r] # First + MaxPushes
    BY <1>5 DEF Push, ConfigInv, ConfigsTypeOK
  <2>2. (IF head[r] = None THEN First ELSE head[r] + 1) \in {None} \cup Pushed
    BY <2>1, InputAssumption DEF First, Pushed
  <2> QED
    BY <1>5, <2>1, <2>2 DEF Push
<1>6. CASE \E r \in Repos : Push(r)
  BY <1>4, <1>5, <1>6 DEF Push
<1>7. CASE \E n \in ConfigNames : OtherPuts(n)
  BY <1>4, <1>7 DEF OtherPuts, ConfigInv, ConfigsTypeOK
<1>8. CASE UNCHANGED configs
  BY <1>4, <1>8 DEF configs, world, ConfigInv, ConfigsTypeOK
<1> QED
  BY <1>1, <1>2, <1>3, <1>6, <1>7, <1>8, MakeLayerKeepsConfigInv, PutConfigKeepsConfigInv,
     StepsAre DEF ConfigsNext

(* CFS is never given a part of a configuration, nor one that the admin    *)
(* meant to keep, and if the command succeeds none has been forgotten: for *)
(* any input file, any pushes and any writes by others in between.         *)
THEOREM ConfigurationsWhole == Spec => []ConfigurationsAreWhole
<1>1. ConfigInv => ConfigurationsAreWhole
  <2> SUFFICES ASSUME ConfigInv
               PROVE  ConfigurationsAreWhole
    OBVIOUS
  <2>1. ASSUME configPc = "done", ~dry_run, NEW n \in ConfigNames
        PROVE  (onExisting = "skip" /\ n \in existing_names) \/ accepted[n] # NoConfig
    <3>1. PICK i \in DOMAIN Input : n = Input[i].name
      BY DEF ConfigNames
    <3> QED
      BY <2>1, <3>1 DEF ConfigInv, NoneForgotten
  <2> QED
    BY <2>1 DEF ConfigInv, AcceptedWhole, ConfigurationsAreWhole
<1> QED
  BY <1>1, ConfigInvInit, ConfigInvNext, PTL DEF Spec

-----------------------------------------------------------------------------
(* The session that customizes an image.                                   *)

\* Init containers run one after the other, and the others after them; these do
\* their work in their order.
RunInOrder ==
  /\ \A c \in Inits : container[c] # "waiting" =>
       \A d \in Before(InitContainers, c) : container[d] = "exit 0"
  /\ \A c \in Mains : container[c] # "waiting" => InitDone
  /\ \A c \in Mains : container[c] \in Exited =>
       \A d \in Before(MainContainers, c) : container[d] \in Exited

\* What has been seen of a container that has exited is still so, and one that
\* has failed has been seen together with those before it.
SeenIsSo ==
  /\ \A c \in Inits : init_container_status_by_name[c] = "failed" => container[c] = "exit 1"
  /\ \A c \in Mains :
       /\ container_status_by_name[c] = "succeeded" => container[c] = "exit 0"
       /\ container_status_by_name[c] = "failed" =>
            /\ container[c] = "exit 1"
            /\ \A d \in Before(MainContainers, c) :
                 container_status_by_name[d] \in {"succeeded", "failed"}

SessionInv == SessionTypeOK /\ RunInOrder /\ SeenIsSo /\ FirstFailureIsNamed

LEMMA SessionInvInit == Init => SessionInv
  BY ContainersAssumption
  DEF Init, SessionInit, SessionInv, SessionTypeOK, RunInOrder, SeenIsSo, FirstFailureIsNamed,
      States, Unseen, Shown, Exited

LEMMA FirstOfIs ==
  ASSUME NEW S, NEW seq \in Seq(S), IsInjective(seq),
         NEW T \in SUBSET Range(seq), T # {}
  PROVE  FirstOf(seq, T) \in T /\ T \cap Before(seq, FirstOf(seq, T)) = {}
<1> DEFINE P == {i \in DOMAIN seq : seq[i] \in T}
<1>1. DOMAIN seq \subseteq Nat
  OBVIOUS
<1>2. P \in SUBSET Nat /\ P # {}
  BY <1>1 DEF Range
<1>3. PICK i \in P : \A k \in P : i <= k
  <2> HIDE DEF P
  <2> QED
    BY <1>2, Least
<1>4. T \cap Before(seq, seq[i]) = {}
  <2> SUFFICES ASSUME NEW j \in DOMAIN seq, NEW k \in DOMAIN seq,
                      j < k, seq[k] = seq[i], seq[j] \in T
               PROVE  FALSE
    BY DEF Before
  <2>1. k = i
    BY DEF IsInjective
  <2>2. j \in P /\ i \in Nat /\ j \in Nat
    BY <1>1
  <2> QED
    BY <1>3, <2>1, <2>2
<1>5. seq[i] \in T
  OBVIOUS
<1> HIDE DEF P
<1> QED
  BY <1>4, <1>5 DEF FirstOf

LEMMA BeforeIn ==
  \A c : Before(InitContainers, c) \subseteq Inits /\ Before(MainContainers, c) \subseteq Mains
  BY DEF Before, Inits, Mains, Range

LEMMA PrecedingIn == \A c : Preceding(c) \subseteq Inits \cup Mains
  BY BeforeIn DEF Preceding

\* What a step of the service does to the containers.
LEMMA ServiceMovesOn ==
  ASSUME SessionTypeOK, ServiceStep
  PROVE  /\ SessionTypeOK'
         /\ \A c \in Inits \cup Mains : container[c] \in Exited => container'[c] = container[c]
         /\ \A c \in Inits \cup Mains : container'[c] # "waiting" =>
              \/ container[c] # "waiting"
              \/ IF c \in Inits
                   THEN \A d \in Before(InitContainers, c) : container[d] = "exit 0"
                   ELSE InitDone
         /\ \A c \in Mains : container'[c] \in Exited =>
              \/ container[c] \in Exited
              \/ \A d \in Before(MainContainers, c) : container[d] \in Exited
<1>1. UNCHANGED <<sessionPc, view, debugged>>
  BY DEF ServiceStep
<1>2. CASE PodAdvances \/ SessionAdvances \/ PodDeleted
  <2>1. /\ cfsStatus' \in {None_, "pending", "running", "complete"}
        /\ pod' \in {None_, "pending", "there", "deleted"}
        /\ UNCHANGED container
    BY <1>2 DEF PodAdvances, SessionAdvances, PodDeleted, SessionTypeOK
  <2> QED
    BY <1>1, <2>1 DEF view, SessionTypeOK
<1>3. ASSUME NEW b \in Inits \cup Mains, ContainerStarts(b)
      PROVE  /\ UNCHANGED <<cfsStatus, pod>>
             /\ container' = [container EXCEPT ![b] = "running"] /\ container[b] = "waiting"
             /\ IF b \in Inits THEN \A d \in Before(InitContainers, b) : container[d] = "exit 0"
                ELSE InitDone
  BY <1>3 DEF ContainerStarts
<1>4. ASSUME NEW b \in Inits \cup Mains, ContainerEnds(b)
      PROVE  /\ UNCHANGED <<cfsStatus, pod>> /\ container[b] = "running"
             /\ \E code \in Exited : container' = [container EXCEPT ![b] = code]
             /\ b \in Mains => \A d \in Before(MainContainers, b) : container[d] \in Exited
  BY <1>4 DEF ContainerEnds
<1>5. CASE \E b \in Inits \cup Mains : ContainerStarts(b)
  BY <1>1, <1>3, <1>5 DEF view, SessionTypeOK, States, Exited
<1>6. CASE \E b \in Inits \cup Mains : ContainerEnds(b)
  BY <1>1, <1>4, <1>6 DEF view, SessionTypeOK, States, Exited
<1> QED
  BY <1>2, <1>5, <1>6 DEF ServiceStep

LEMMA ServiceKeepsSessionInv ==
  ASSUME SessionInv, ServiceStep
  PROVE  SessionInv'
<1>1. UNCHANGED <<init_container_status_by_name, container_status_by_name, debugged>>
  BY DEF ServiceStep, view
<1>2. SessionTypeOK' /\ SessionTypeOK
  BY ServiceMovesOn DEF SessionInv
<1>3. \A c \in Inits \cup Mains : container[c] \in Exited => container'[c] = container[c]
  BY ServiceMovesOn DEF SessionInv
<1>4. InitDone => InitDone'
  BY <1>3 DEF InitDone, Exited
<1>5. RunInOrder'
  <2>1. ASSUME NEW c \in Inits, container'[c] # "waiting",
               NEW d \in Before(InitContainers, c)
        PROVE  container'[d] = "exit 0"
    <3>1. container[d] = "exit 0"
      BY <2>1, ServiceMovesOn DEF SessionInv, RunInOrder
    <3> QED
      BY <1>3, <3>1, BeforeIn DEF Exited
  <2>2. ASSUME NEW c \in Mains, container'[c] # "waiting"
        PROVE  InitDone'
    BY <1>4, <2>2, ServiceMovesOn, ContainersAssumption DEF SessionInv, RunInOrder
  <2>3. ASSUME NEW c \in Mains, container'[c] \in Exited,
               NEW d \in Before(MainContainers, c)
        PROVE  container'[d] \in Exited
    <3>1. container[d] \in Exited
      BY <2>3, ServiceMovesOn DEF SessionInv, RunInOrder
    <3> QED
      BY <1>3, <3>1, BeforeIn
  <2> QED
    BY <2>1, <2>2, <2>3 DEF RunInOrder
<1>6. SeenIsSo'
  BY <1>1, <1>3 DEF SessionInv, SeenIsSo, Exited
<1>7. FirstFailureIsNamed'
  BY <1>1, <1>2, <1>3, PrecedingIn DEF SessionInv, SessionTypeOK, FirstFailureIsNamed, Exited
<1> QED
  BY <1>2, <1>5, <1>6, <1>7 DEF SessionInv

\* The container that is suggested is the first one that has failed.
LEMMA SuggestedIsFirst ==
  ASSUME SessionInv, Suggested # None_
  PROVE  /\ Suggested \in Inits \cup Mains
         /\ container[Suggested] = "exit 1"
         /\ \A c \in Preceding(Suggested) : container[c] = "exit 0"
<1> DEFINE inits == FailedOf(init_container_status_by_name)
           mains == FailedOf(container_status_by_name)
           kinds == {Kind[c] : c \in mains} \ {"other"}
<1>1. inits \in SUBSET Inits /\ mains \in SUBSET Mains
  BY DEF FailedOf, SessionInv, SessionTypeOK
<1>2. \A c \in Inits \cup Mains : c \in inits \cup mains => container[c] = "exit 1"
  BY <1>1, ContainersAssumption DEF FailedOf, SessionInv, SeenIsSo
<1>3. CASE inits # {}
  <2>1. Suggested = FirstOf(InitContainers, inits)
    BY <1>3 DEF Suggested
  <2>2. FirstOf(InitContainers, inits) \in inits
    <3> HIDE DEF inits
    <3> QED
      BY <1>1, <1>3, FirstOfIs, ContainersAssumption DEF Inits
  <2>3. Suggested \in Inits /\ container[Suggested] = "exit 1"
    BY <1>1, <1>2, <2>1, <2>2
  <2> QED
    BY <2>3 DEF Preceding, SessionInv, RunInOrder
<1>4. CASE inits = {} /\ kinds # {}
  <2> DEFINE k == FirstOf(Order, kinds)
             same == {c \in mains : Kind[c] = k}
             s == LeastSuffix(same)
  <2>1. kinds \in SUBSET Range(Order)
    <3>1. \A c \in Mains : Kind[c] \in Range(Order) \cup {"other"}
      BY ContainersAssumption
    <3> QED
      BY <1>1, <3>1
  <2>2. Order \in Seq({"inventory", "ansible", "teardown"}) /\ IsInjective(Order)
    <3>1. Order \in Seq({"inventory", "ansible", "teardown"})
      BY DEF Order
    <3>3. Len(Order) = 3
      BY DEF Order
    <3>2. Order[1] = "inventory" /\ Order[2] = "ansible" /\ Order[3] = "teardown"
      BY DEF Order
    <3> QED
      BY <3>1, <3>2, <3>3 DEF IsInjective
  <2>3. k \in kinds /\ kinds \cap Before(Order, k) = {}
    <3> HIDE DEF kinds
    <3> QED
      BY <1>4, <2>1, <2>2, FirstOfIs
  <2>4. same # {} /\ same \subseteq mains
    <3> HIDE DEF k, mains
    <3> QED
      BY <2>3
  <2>5. s \in same /\ \A d \in same : Suffix[s] <= Suffix[d]
    <3> DEFINE T == {Suffix[c] : c \in same}
    <3>1. T \in SUBSET Nat /\ T # {}
      <4> HIDE DEF same, mains
      <4>1. \A c \in Mains : Suffix[c] \in Nat
        BY ContainersAssumption
      <4> QED
        BY <1>1, <2>4, <4>1
    <3>2. PICK n \in T : \A y \in T : n <= y
      <4> HIDE DEF T
      <4> QED
        BY <3>1, Least
    <3>3. PICK c \in same : \A d \in same : Suffix[c] <= Suffix[d]
      <4> HIDE DEF same
      <4> QED
        BY <3>2
    <3> HIDE DEF same
    <3> QED
      BY <3>3 DEF LeastSuffix
  <2>6. Suggested = s
    BY <1>4 DEF Suggested
  <2>7. s \in mains /\ s \in Mains /\ Kind[s] = k /\ k # "other" /\ container[s] = "exit 1"
    <3> HIDE DEF s, mains, inits
    <3>1. k # "other"
      <4> HIDE DEF k
      <4> QED
        BY <2>3
    <3> HIDE DEF k
    <3> QED
      BY <1>1, <1>2, <2>5, <3>1
  <2> HIDE DEF s, k, kinds
  <2>8. ASSUME NEW d \in Before(MainContainers, s), Kind[d] # "other"
        PROVE  container[d] = "exit 0"
    <3>1. d \in Mains
      BY BeforeIn
    <3>2. \/ Kind[d] \in Before(Order, Kind[s])
          \/ Kind[d] = Kind[s] /\ Suffix[d] < Suffix[s]
      BY <2>7, <2>8, ContainersAssumption
    <3>3. d \notin mains
      <4> HIDE DEF mains
      <4>1. ASSUME d \in mains
            PROVE  Kind[d] \in kinds
        BY <2>8, <4>1 DEF kinds
      <4>2. CASE Kind[d] \in Before(Order, Kind[s])
        BY <2>3, <2>7, <4>1, <4>2
      <4>3. CASE Kind[d] = Kind[s] /\ Suffix[d] < Suffix[s]
        <5>1. Suffix[d] \in Nat /\ Suffix[s] \in Nat
          BY <2>7, <3>1, ContainersAssumption
        <5>2. d \notin same
          <6> HIDE DEF same
          <6> QED
            BY <2>5, <4>3, <5>1
        <5> QED
          BY <2>7, <4>3, <5>2
      <4> QED
        BY <3>2, <4>2, <4>3
    <3>4. container_status_by_name[d] \in {"succeeded", "failed"}
      BY <2>7 DEF FailedOf, SessionInv, SeenIsSo
    <3>5. container_status_by_name[d] = "succeeded"
      BY <3>1, <3>3, <3>4 DEF FailedOf, SessionInv, SessionTypeOK
    <3> QED
      BY <3>1, <3>5 DEF SessionInv, SeenIsSo
  <2>9. \A d \in Inits : container[d] = "exit 0"
    BY <2>7 DEF InitDone, SessionInv, RunInOrder
  <2>10. s \notin Inits
    BY <2>7, ContainersAssumption
  <2> QED
    BY <2>6, <2>7, <2>8, <2>9, <2>10 DEF Preceding
<1> QED
  BY <1>3, <1>4 DEF Suggested

LEMMA SessionInvNext == SessionInv /\ [Next]_vars => SessionInv'
<1> SUFFICES ASSUME SessionInv, [Next]_vars
             PROVE  SessionInv'
  OBVIOUS
\* The containers are left alone by all others.
<1>1. ASSUME UNCHANGED <<container, init_container_status_by_name, container_status_by_name>>
      PROVE  RunInOrder' /\ SeenIsSo'
  BY <1>1 DEF SessionInv, RunInOrder, SeenIsSo, InitDone
<1>2. ASSUME UNCHANGED <<container, debugged>>
      PROVE  FirstFailureIsNamed'
  BY <1>2 DEF SessionInv, FirstFailureIsNamed
<1>3. CASE CreateSession
  <2>1. SessionTypeOK'
    BY <1>3 DEF CreateSession, view, SessionInv, SessionTypeOK
  <2> QED
    BY <1>1, <1>2, <1>3, <2>1 DEF CreateSession, view, SessionInv
<1>4. CASE UpdateCfsStatus
  <2>1. SessionTypeOK'
    BY <1>4 DEF UpdateCfsStatus, service, SessionInv, SessionTypeOK
  <2> QED
    BY <1>1, <1>2, <1>4, <2>1 DEF UpdateCfsStatus, service, SessionInv
<1>5. CASE UpdatePodStatus
  <2>1. UNCHANGED <<service, debugged>> /\ sessionPc' \in {"error", "look", "crashed"}
    BY <1>5 DEF UpdatePodStatus
  <2>2. CASE UNCHANGED <<init_container_status_by_name, container_status_by_name>>
    <3>1. SessionTypeOK'
      BY <2>1, <2>2 DEF service, SessionInv, SessionTypeOK
    <3> QED
      BY <1>1, <1>2, <2>1, <2>2, <3>1 DEF service, SessionInv
  <2>3. CASE /\ init_container_status_by_name' = [c \in Inits |-> Description(c)]
             /\ container_status_by_name' = [c \in Mains |-> Description(c)]
    <3>1. \A c \in Inits \cup Mains :
            /\ Description(c) \in Shown
            /\ Description(c) = "succeeded" <=> container[c] = "exit 0"
            /\ Description(c) = "failed" <=> container[c] = "exit 1"
      BY DEF Description, Shown, States, SessionInv, SessionTypeOK
    <3>2. SessionTypeOK'
      BY <2>1, <2>3, <3>1 DEF service, SessionInv, SessionTypeOK
    <3>3. UNCHANGED container
      BY <2>1 DEF service
    <3>4. \A c \in Mains : \A d \in Before(MainContainers, c) :
            container[c] = "exit 1" => Description(d) \in {"succeeded", "failed"}
      BY <3>1, BeforeIn DEF SessionInv, RunInOrder, Exited
    <3>5. SeenIsSo'
      BY <2>3, <3>1, <3>3, <3>4, BeforeIn DEF SeenIsSo
    <3>6. RunInOrder'
      BY <3>3 DEF SessionInv, RunInOrder, InitDone
    <3> QED
      BY <1>2, <2>1, <3>2, <3>3, <3>5, <3>6 DEF SessionInv
  <2> QED
    BY <1>5, <2>2, <2>3 DEF UpdatePodStatus
<1>6. CASE Look
  <2>1. /\ UNCHANGED <<service, view>>
        /\ sessionPc' \in {"cfs", "ended", "error", "failed"}
        /\ debugged' \in {debugged, Suggested}
    BY <1>6 DEF Look
  <2>2. CASE debugged' = debugged
    <3>1. SessionTypeOK'
      BY <2>1, <2>2 DEF service, view, SessionInv, SessionTypeOK
    <3> QED
      BY <1>1, <1>2, <2>1, <2>2, <3>1 DEF service, view, SessionInv
  <2>3. CASE debugged' = Suggested
    <3>1. Suggested # None_ =>
            /\ Suggested \in Inits \cup Mains
            /\ container[Suggested] = "exit 1"
            /\ \A c \in Preceding(Suggested) : container[c] = "exit 0"
      BY SuggestedIsFirst
    <3>2. SessionTypeOK'
      BY <2>1, <2>3, <3>1 DEF service, view, SessionInv, SessionTypeOK
    <3>3. FirstFailureIsNamed'
      BY <2>1, <2>3, <3>1 DEF service, FirstFailureIsNamed
    <3> QED
      BY <1>1, <2>1, <3>2, <3>3 DEF service, view, SessionInv
  <2> QED
    BY <2>1, <2>2, <2>3
<1>7. CASE UNCHANGED sessionVars
  <2>1. SessionTypeOK'
    BY <1>7 DEF sessionVars, service, view, SessionInv, SessionTypeOK
  <2> QED
    BY <1>1, <1>2, <1>7, <2>1 DEF sessionVars, service, view, SessionInv
<1> QED
  BY <1>3, <1>4, <1>5, <1>6, <1>7, ServiceKeepsSessionInv, StepsAre DEF SessionNext, SessionStep

(* The container whose logs sat bootprep names is the one that failed      *)
(* first, for any containers and whatever moments the statuses it has seen *)
(* of the pod are from: a status that is old shows a container that has    *)
(* exited as it still is.                                                  *)
THEOREM FirstFailureNamed == Spec => []FirstFailureIsNamed
<1>1. SessionInv => FirstFailureIsNamed
  BY DEF SessionInv
<1> QED
  BY <1>1, SessionInvInit, SessionInvNext, PTL DEF Spec

-----------------------------------------------------------------------------
(* sat bmccreds.                                                           *)

NamesInv ==
  /\ asked \in Asked
  /\ components \subseteq Components
  /\ listed \subseteq components
  /\ matched \subseteq XNamesKnown

CredsInv ==
  /\ domain \in {"user", "system", "cabinet", "chassis", "bmc"}
  /\ credsPc = "done" =>
       /\ lastTargets \subseteq XNamesKnown
       /\ \E try : \A x \in lastTargets : password[x] = <<DomainOf(x), try>>

LEMMA NamesInvInit == Init => NamesInv /\ CredsInv
<1> SUFFICES ASSUME Init
             PROVE  NamesInv /\ CredsInv
  OBVIOUS
<1>1. asked \in Asked /\ components \subseteq Components
  BY GivenAre, CredentialsAssumption DEF Init, NamesInit
<1>2. domain \in {"user", "system", "cabinet", "chassis", "bmc"}
  BY GivenAre DEF Init, CredsInit
<1>3. listed = {} /\ matched = {} /\ credsPc = "validate"
  BY DEF Init, NamesInit, CredsInit
<1> QED
  BY <1>1, <1>2, <1>3 DEF NamesInv, CredsInv

LEMMA NamesInvNext == NamesInv /\ [Next]_vars => NamesInv'
<1> SUFFICES ASSUME NamesInv, [Next]_vars
             PROVE  NamesInv'
  OBVIOUS
<1> DEFINE ids == {c.id : c \in listed}
<1>1. ids \subseteq XNamesKnown /\ Range(asked) \subseteq XNamesKnown
  BY DEF NamesInv, XNamesKnown
<1>2. OfTypes \subseteq components
  BY DEF OfTypes
<1>3. CASE GetHsmComponents \/ GetBmcXnames \/ GetBmcsByType
  <2>1. /\ UNCHANGED <<asked, components, matched>>
        /\ listed' \in {listed, {}} \/ listed' \subseteq OfTypes
    BY <1>3 DEF GetHsmComponents, GetBmcXnames, GetBmcsByType
  <2> QED
    BY <1>2, <2>1 DEF NamesInv
<1>4. ASSUME UNCHANGED <<asked, components, listed>>, matched' \subseteq ids \cup Range(asked)
      PROVE  NamesInv'
  BY <1>1, <1>4 DEF NamesInv
<1>5. CASE ExpandAndScreen
  BY <1>4, <1>5 DEF ExpandAndScreen
<1>6. CASE ScreenXnameArgs
  BY <1>4, <1>6 DEF ScreenXnameArgs, Matches
<1>7. CASE GetAndFilterBmcs
  <2>1. PICK d, f \in BOOLEAN :
          matched' = ((IF asked = <<>> THEN ids ELSE Range(asked) \cap ids)
                        \ (IF d THEN {} ELSE Disabled)) \ (IF f THEN {} ELSE FailedDiscovery)
    BY <1>7 DEF GetAndFilterBmcs
  <2>2. matched' \subseteq ids
    BY <2>1
  <2> QED
    BY <1>4, <1>7, <2>2 DEF GetAndFilterBmcs
<1>8. CASE UNCHANGED names
  BY <1>8 DEF NamesInv, names
<1> QED
  BY <1>3, <1>5, <1>6, <1>7, <1>8, StepsAre

LEMMA CredsInvNext == NamesInv /\ CredsInv /\ [Next]_vars => CredsInv'
<1> SUFFICES ASSUME NamesInv, CredsInv, [Next]_vars
             PROVE  CredsInv'
  OBVIOUS
<1>1. CASE UNCHANGED creds
  BY <1>1 DEF creds, CredsInv, DomainOf
<1>2. CASE ValidateArgs \/ Confirm \/ GiveUpCreds
  BY <1>2 DEF ValidateArgs, Confirm, GiveUpCreds, CredsInv
<1>3. CASE SetBmcPasswords
  <2>1. UNCHANGED domain /\ (credsPc' = "done" => Post) /\ (credsPc' = "done" \/ credsPc' = "set")
    BY <1>3 DEF SetBmcPasswords
  <2>2. Targets \subseteq XNamesKnown
    BY DEF Targets, NamesInv, XNamesKnown
  <2>3. ASSUME Post
        PROVE  /\ lastTargets' \subseteq XNamesKnown
               /\ \E try : \A x \in lastTargets' : password'[x] = <<DomainOf(x), try>>
    BY <2>2, <2>3 DEF Post, PasswordsByXname
  <2>4. \A x : DomainOf(x)' = DomainOf(x)
    BY <2>1 DEF DomainOf
  <2> QED
    BY <2>1, <2>3, <2>4 DEF CredsInv
<1> QED
  BY <1>1, <1>2, <1>3, StepsAre DEF CredsNext, CheckEligibility

\* Names begin alike exactly if they agree in their first levels.
LEMMA UpToAgrees ==
  ASSUME NEW S, NEW x \in Seq(S), NEW y \in Seq(S), NEW n \in Nat
  PROVE  UpTo(x, n) = UpTo(y, n) <=> Agree(x, y, n)
<1> DEFINE X == IF Len(x) < n THEN Len(x) ELSE n
           Y == IF Len(y) < n THEN Len(y) ELSE n
<1>1. /\ X \in 0 .. Len(x) /\ Y \in 0 .. Len(y)
      /\ \A i \in 1 .. n : (i <= X <=> i <= Len(x)) /\ (i <= Y <=> i <= Len(y))
      /\ X <= n /\ Y <= n
  OBVIOUS
<1>2. /\ UpTo(x, n) = SubSeq(x, 1, X) /\ UpTo(y, n) = SubSeq(y, 1, Y)
  BY DEF UpTo
<1>3. /\ DOMAIN x = 1 .. Len(x) /\ DOMAIN y = 1 .. Len(y) /\ Len(x) \in Nat /\ Len(y) \in Nat
  OBVIOUS
<1> HIDE DEF X, Y
<1>4. /\ UpTo(x, n) \in Seq(S) /\ Len(UpTo(x, n)) = X
      /\ \A i \in 1 .. X : UpTo(x, n)[i] = x[i]
  <2>1. 1 \in 1 .. Len(x) + 1 /\ X \in 1 - 1 .. Len(x)
    BY <1>1, <1>3
  <2> QED
    BY <1>1, <1>2, <1>3, <2>1, SubSeqProperties
<1>5. /\ UpTo(y, n) \in Seq(S) /\ Len(UpTo(y, n)) = Y
      /\ \A i \in 1 .. Y : UpTo(y, n)[i] = y[i]
  <2>1. 1 \in 1 .. Len(y) + 1 /\ Y \in 1 - 1 .. Len(y)
    BY <1>1, <1>3
  <2> QED
    BY <1>1, <1>2, <1>3, <2>1, SubSeqProperties
<1>6. ASSUME UpTo(x, n) = UpTo(y, n)
      PROVE  Agree(x, y, n)
  <2>1. X = Y
    BY <1>4, <1>5, <1>6
  <2> SUFFICES ASSUME NEW i \in 1 .. n, i \in DOMAIN x \cup DOMAIN y
               PROVE  i \in DOMAIN x \cap DOMAIN y /\ x[i] = y[i]
    BY DEF Agree
  <2>2. i \in 1 .. X
    BY <1>1, <1>3, <2>1
  <2>3. x[i] = y[i]
    BY <1>4, <1>5, <1>6, <2>1, <2>2
  <2> QED
    BY <1>1, <1>3, <2>1, <2>2, <2>3
<1>7. ASSUME Agree(x, y, n)
      PROVE  UpTo(x, n) = UpTo(y, n)
  <2>1. \A i \in 1 .. n : i <= Len(x) <=> i <= Len(y)
    BY <1>3, <1>7 DEF Agree
  <2>2. X = Y
    <3>1. CASE X < Y
      <4>1. X + 1 \in 1 .. n /\ X + 1 <= Y /\ ~(X + 1 <= X)
        BY <1>1, <1>3, <3>1
      <4> QED
        BY <1>1, <2>1, <4>1
    <3>2. CASE Y < X
      <4>1. Y + 1 \in 1 .. n /\ Y + 1 <= X /\ ~(Y + 1 <= Y)
        BY <1>1, <1>3, <3>2
      <4> QED
        BY <1>1, <2>1, <4>1
    <3> QED
      BY <1>1, <1>3, <3>1, <3>2
  <2>3. \A i \in 1 .. X : x[i] = y[i]
    <3> SUFFICES ASSUME NEW i \in 1 .. X
                 PROVE  x[i] = y[i]
      OBVIOUS
    <3>1. i \in 1 .. n /\ i \in DOMAIN x
      BY <1>1, <1>3
    <3> QED
      BY <1>7, <3>1 DEF Agree
  <2> QED
    BY <1>4, <1>5, <2>2, <2>3, SeqEqual
<1> QED
  BY <1>6, <1>7

(* When sat bmccreds has succeeded, the BMCs that it set have one password *)
(* exactly if they are in one domain, for any components and xnames, also  *)
(* of odd forms, any number of tries and any part of the BMCs reached.     *)
THEOREM PasswordsByDomain == Spec => []PasswordsFollowDomains
<1>1. CredsInv => PasswordsFollowDomains
  <2> SUFFICES ASSUME CredsInv, credsPc = "done", NEW x \in lastTargets, NEW y \in lastTargets
               PROVE  (password[x] = password[y]) <=> SameDomain(x, y)
    BY DEF PasswordsFollowDomains
  <2>1. (password[x] = password[y]) <=> DomainOf(x) = DomainOf(y)
    BY DEF CredsInv
  <2>2. x \in Seq(STRING \X Nat) /\ y \in Seq(STRING \X Nat)
    BY CredentialsAssumption DEF CredsInv
  <2>3. /\ Cabinet(x) = Cabinet(y) <=> Agree(x, y, 1)
        /\ Chassis(x) = Chassis(y) <=> Agree(x, y, 2)
    BY <2>2, UpToAgrees DEF Cabinet, Chassis
  <2>4. CASE domain \in {"user", "system"}
    BY <2>1, <2>4 DEF DomainOf, SameDomain
  <2>5. CASE domain = "cabinet"
    BY <2>1, <2>3, <2>5 DEF DomainOf, SameDomain
  <2>6. CASE domain = "chassis"
    BY <2>1, <2>3, <2>6 DEF DomainOf, SameDomain
  <2>7. CASE domain = "bmc"
    BY <2>1, <2>7 DEF DomainOf, SameDomain
  <2> QED
    BY <2>4, <2>5, <2>6, <2>7 DEF CredsInv
<1> QED
  BY <1>1, NamesInvInit, NamesInvNext, CredsInvNext, PTL DEF Spec

-----------------------------------------------------------------------------
(* Reports.  How functions are defined by recursion, and what is found by it. *)

\* A value for each place of D that depends on the values at places of a lower
\* rank, of which there are finitely many.
Ranked(D, V, N, rank, step) ==
  /\ V # {} /\ N \in Nat
  /\ rank \in [D -> Nat] /\ \A d \in D : rank[d] <= N
  /\ step \in [D -> [[D -> V] -> V]]
  /\ \A d \in D : \A f, g \in [D -> V] :
       (\A e \in D : rank[e] < rank[d] => f[e] = g[e]) => step[d][f] = step[d][g]

\* Then there is a function that has these values.
LEMMA Recursion ==
  ASSUME NEW D, NEW V, NEW N, NEW rank, NEW step, Ranked(D, V, N, rank, step)
  PROVE  \E f \in [D -> V] : \A d \in D : f[d] = step[d][f]
<1>0. PICK v \in V : TRUE
  BY DEF Ranked
<1> USE DEF Ranked
<1> DEFINE UpToRank(n, f) == \A d \in D : rank[d] < n => f[d] = step[d][f]
           T == {n \in Nat : \A f \in [D -> V] : ~UpToRank(n, f)}
<1>1. 0 \notin T
  <2>1. [d \in D |-> v] \in [D -> V] /\ UpToRank(0, [d \in D |-> v])
    OBVIOUS
  <2> QED
    BY <2>1
<1>2. ASSUME NEW n \in Nat, n \notin T
      PROVE  n + 1 \notin T
  <2> HIDE DEF UpToRank
  <2>1. PICK f \in [D -> V] : UpToRank(n, f)
    BY <1>2
  <2> DEFINE g == [d \in D |-> IF rank[d] = n THEN step[d][f] ELSE f[d]]
  <2>2. g \in [D -> V] /\ \A e \in D : rank[e] < n => g[e] = f[e]
    OBVIOUS
  <2>3. ASSUME NEW d \in D, rank[d] < n + 1
        PROVE  g[d] = step[d][g]
    <3>1. \A e \in D : rank[e] < rank[d] => g[e] = f[e]
      BY <2>2, <2>3
    <3>2. step[d][g] = step[d][f]
      <4> HIDE DEF g
      <4> QED
        BY <2>2, <3>1
    <3>3. CASE rank[d] = n
      BY <3>2, <3>3
    <3>4. CASE rank[d] < n
      BY <2>1, <2>2, <3>2, <3>4 DEF UpToRank
    <3>5. rank[d] \in Nat
      OBVIOUS
    <3> HIDE DEF g, Ranked
    <3> QED
      BY <2>3, <3>3, <3>4, <3>5
  <2>4. UpToRank(n + 1, g)
    <3> HIDE DEF g
    <3> QED
      BY <2>3 DEF UpToRank
  <2> HIDE DEF g
  <2> QED
    BY <2>2, <2>4
<1>3. N + 1 \notin T
  <2> HIDE DEF T
  <2>1. T \in SUBSET Nat
    BY DEF T
  <2>2. ASSUME T # {}
        PROVE  FALSE
    <3>1. PICK x \in T : \A y \in T : x <= y
      BY <2>1, <2>2, Least
    <3>2. x \in Nat /\ x # 0
      BY <1>1, <2>1, <3>1
    <3>3. x - 1 \in Nat /\ x - 1 \notin T
      BY <3>1, <3>2
    <3>4. (x - 1) + 1 \notin T
      BY <1>2, <3>3
    <3> QED
      BY <3>1, <3>2, <3>4
  <2> QED
    BY <2>2
<1>4. PICK f \in [D -> V] : UpToRank(N + 1, f)
  BY <1>3
<1> QED
  BY <1>4

\* The least element is one of them, and no other is less.
LEMMA MinIs ==
  ASSUME NEW S \in SUBSET Nat, S # {}
  PROVE  Min(S) \in S /\ \A y \in S : Min(S) <= y
  BY Least DEF Min

\* A letter of the key is found no later than in any other way to find them, so
\* that the key is found if there is any.
LEMMA GreedyFinds ==
  ASSUME NEW key, NEW h, IsSeq(key), IsSeq(h)
  PROVE  IsSubsequence(key, h) <=> Abbreviates(key, h)
<1> DEFINE n == Len(key)
           m == Len(h)
           D == 0 .. n
           V == 0 .. m + 1
           Behind(f, i) == {j \in DOMAIN h : j > f[i - 1] /\ h[j] = key[i]}
           Body(f, i) == IF i = 0 THEN 0
                         ELSE IF Behind(f, i) = {} THEN m + 1 ELSE Min(Behind(f, i))
           IsPlace(f) == f = [i \in D |-> Body(f, i)]
           place == CHOOSE f : IsPlace(f)
           step == [i \in D |-> [f \in [D -> V] |-> Body(f, i)]]
           rank == [i \in D |-> i]
<1>1. n \in Nat /\ m \in Nat /\ DOMAIN key = 1 .. n /\ DOMAIN h = 1 .. m
  BY DEF IsSeq
<1>2. IsSubsequence(key, h) <=> place[n] <= m
  BY DEF IsSubsequence
<1>3. \A i \in D : \A f : Body(f, i) \in V
  <2> SUFFICES ASSUME NEW i \in D, NEW f
               PROVE  Body(f, i) \in V
    OBVIOUS
  <2>1. Behind(f, i) \in SUBSET Nat /\ Behind(f, i) \subseteq 1 .. m
    BY <1>1
  <2>2. Behind(f, i) # {} => Min(Behind(f, i)) \in Behind(f, i)
    <3> HIDE DEF Behind
    <3> QED
      BY <2>1, MinIs
  <2> QED
    BY <1>1, <2>1, <2>2
<1>4. \E f \in [D -> V] : \A i \in D : f[i] = step[i][f]
  <2>1. 0 \in V /\ rank \in [D -> Nat] /\ \A i \in D : rank[i] <= n
    BY <1>1
  <2>2. step \in [D -> [[D -> V] -> V]]
    <3> HIDE DEF Body, V, D
    <3> QED
      BY <1>3
  <2>3. ASSUME NEW i \in D, NEW f \in [D -> V], NEW g \in [D -> V],
               \A e \in D : rank[e] < rank[i] => f[e] = g[e]
        PROVE  step[i][f] = step[i][g]
    <3>1. i # 0 => f[i - 1] = g[i - 1]
      BY <1>1, <2>3
    <3>2. i # 0 => Behind(f, i) = Behind(g, i)
      BY <3>1
    <3>3. Body(f, i) = Body(g, i)
      <4> HIDE DEF Behind
      <4> QED
        BY <3>2
    <3> HIDE DEF Body, V
    <3> QED
      BY <3>3
  <2> HIDE DEF step, rank, V, D
  <2>4. \A i \in D : \A f, g \in [D -> V] :
          (\A e \in D : rank[e] < rank[i] => f[e] = g[e]) => step[i][f] = step[i][g]
    BY <2>3
  <2>5. Ranked(D, V, n, rank, step)
    BY <1>1, <2>1, <2>2, <2>4 DEF Ranked
  <2> QED
    BY <2>5, Recursion
<1>5. place = [i \in D |-> Body(place, i)] /\ place \in [D -> V]
  <2> HIDE DEF Body, V, D
  <2>1. PICK f \in [D -> V] : \A i \in D : f[i] = Body(f, i)
    BY <1>4
  <2>2. IsPlace(f)
    BY <2>1
  <2>3. IsPlace(place)
    <3> HIDE DEF IsPlace
    <3> QED
      BY <2>2
  <2> HIDE DEF place
  <2> QED
    BY <1>3, <2>3 DEF IsPlace
<1> HIDE DEF place
<1>6. place[0] = 0
  <2> HIDE DEF V
  <2> QED
    BY <1>1, <1>5
<1>7. ASSUME NEW i \in 1 .. n
      PROVE  /\ place[i - 1] \in V /\ place[i] \in V
             /\ place[i] # m + 1 =>
                  place[i] \in 1 .. m /\ place[i - 1] < place[i] /\ h[place[i]] = key[i]
             /\ \A j \in 1 .. m : j > place[i - 1] /\ h[j] = key[i] => place[i] <= j
             /\ place[i - 1] = m + 1 => place[i] = m + 1
  <2>1. i \in D /\ i - 1 \in D /\ i # 0
    BY <1>1
  <2>2. place[i - 1] \in V /\ place[i] \in V
    <3> HIDE DEF V, D
    <3> QED
      BY <1>5, <2>1
  <2>3. place[i] = Body(place, i)
    <3> HIDE DEF Body, D
    <3> QED
      BY <1>5, <2>1
  <2>4. place[i] = IF Behind(place, i) = {} THEN m + 1 ELSE Min(Behind(place, i))
    <3> HIDE DEF Behind
    <3> QED
      BY <2>1, <2>3
  <2>5. Behind(place, i) \in SUBSET Nat
    BY <1>1
  <2>6. Behind(place, i) # {} =>
          place[i] \in Behind(place, i) /\ \A j \in Behind(place, i) : place[i] <= j
    <3> HIDE DEF Behind
    <3> QED
      BY <2>4, <2>5, MinIs
  <2>7. Behind(place, i) = {} => place[i] = m + 1
    <3> HIDE DEF Behind
    <3> QED
      BY <2>4
  <2>8. place[i] # m + 1 =>
          place[i] \in 1 .. m /\ place[i - 1] < place[i] /\ h[place[i]] = key[i]
    BY <1>1, <2>2, <2>6, <2>7
  <2>9. \A j \in 1 .. m : j > place[i - 1] /\ h[j] = key[i] => place[i] <= j
    BY <1>1, <2>6
  <2>10. place[i - 1] = m + 1 => place[i] = m + 1
    BY <1>1, <2>2, <2>8
  <2> QED
    BY <2>2, <2>8, <2>9, <2>10
<1>8. ASSUME Abbreviates(key, h)
      PROVE  place[n] <= m
  <2>1. PICK at \in [1 .. n -> 1 .. m] :
          /\ \A i, j \in 1 .. n : i < j => at[i] < at[j]
          /\ \A i \in 1 .. n : h[at[i]] = key[i]
    BY <1>1, <1>8 DEF Abbreviates
  <2> DEFINE T == {i \in 1 .. n : ~(place[i] <= at[i])}
  <2>2. ASSUME NEW x \in T, \A y \in T : x <= y
        PROVE  FALSE
    <3>1. x \in 1 .. n /\ at[x] \in 1 .. m /\ h[at[x]] = key[x]
      BY <2>1
    <3>2. place[x - 1] < at[x]
      <4>1. CASE x = 1
        BY <1>6, <3>1, <4>1
      <4>2. CASE x # 1
        <5>1. x - 1 \in 1 .. n /\ x - 1 < x
          BY <1>1, <3>1, <4>2
        <5>2. place[x - 1] <= at[x - 1]
          <6>1. x - 1 \notin T
            BY <2>2, <5>1, <1>1, <3>1
          <6> QED
            BY <5>1, <6>1
        <5>3. at[x - 1] < at[x] /\ at[x - 1] \in 1 .. m
          BY <2>1, <3>1, <5>1
        <5>4. place[x - 1] \in V
          BY <1>7, <3>1
        <5> QED
          BY <1>1, <5>2, <5>3, <5>4, <3>1
      <4> QED
        BY <4>1, <4>2
    <3> QED
      BY <1>7, <3>1, <3>2, <2>2
  <2>3. T = {}
    <3> HIDE DEF T
    <3>1. T \in SUBSET Nat
      BY <1>1 DEF T
    <3> QED
      BY <2>2, <3>1, Least
  <2>4. CASE n = 0
    BY <1>1, <1>6, <2>4
  <2>5. CASE n # 0
    <3>1. n \in 1 .. n
      BY <1>1, <2>5
    <3>2. place[n] <= at[n] /\ at[n] \in 1 .. m /\ place[n] \in V
      BY <1>7, <2>1, <2>3, <3>1
    <3> QED
      BY <1>1, <3>2
  <2> QED
    BY <2>4, <2>5
<1>9. ASSUME place[n] <= m
      PROVE  Abbreviates(key, h)
  <2>1. \A i \in D : place[i] # m + 1
    <3> DEFINE T == {j \in D : place[n - j] = m + 1}
    <3>1. ASSUME NEW x \in T, \A y \in T : x <= y
          PROVE  FALSE
      <4>1. x \in 0 .. n /\ place[n - x] = m + 1
        OBVIOUS
      <4>2. x # 0
        BY <1>1, <1>9, <4>1
      <4>3. (n - x) + 1 \in 1 .. n /\ ((n - x) + 1) - 1 = n - x /\ n - (x - 1) = (n - x) + 1
        BY <1>1, <4>1, <4>2
      <4>4. place[(n - x) + 1] = m + 1
        BY <1>7, <4>1, <4>3
      <4>5. x - 1 \in T
        BY <1>1, <4>1, <4>2, <4>3, <4>4
      <4> QED
        BY <1>1, <3>1, <4>1, <4>5
    <3>2. T = {}
      <4> HIDE DEF T
      <4>1. T \in SUBSET Nat
        BY <1>1 DEF T
      <4> QED
        BY <3>1, <4>1, Least
    <3>3. \A i \in D : n - i \in D /\ n - (n - i) = i
      BY <1>1
    <3> QED
      BY <3>2, <3>3
  <2>2. \A i \in 1 .. n :
          place[i] \in 1 .. m /\ place[i - 1] < place[i] /\ h[place[i]] = key[i]
    BY <1>1, <1>7, <2>1
  <2>3. \A i, j \in 1 .. n : i < j => place[i] < place[j]
    <3> DEFINE T == {j \in 1 .. n : \E i \in 1 .. j - 1 : ~(place[i] < place[j])}
    <3>1. ASSUME NEW x \in T, \A y \in T : x <= y
          PROVE  FALSE
      <4>1. PICK i \in 1 .. x - 1 : ~(place[i] < place[x])
        OBVIOUS
      <4>2. x \in 1 .. n /\ i \in 1 .. n /\ i <= x - 1
        BY <1>1, <4>1
      <4>3. i # x - 1
        BY <2>2, <4>1, <4>2
      <4>4. x - 1 \in 1 .. n /\ i \in 1 .. (x - 1) - 1
        BY <1>1, <4>2, <4>3
      <4>5. x - 1 \notin T
        BY <3>1, <4>2
      <4>6. place[i] < place[x - 1]
        BY <4>4, <4>5
      <4>7. place[x - 1] < place[x] /\ place[i] \in 1 .. m /\ place[x - 1] \in 1 .. m /\ place[x] \in 1 .. m
        BY <2>2, <4>2, <4>4
      <4> QED
        BY <1>1, <4>1, <4>6, <4>7
    <3>2. T = {}
      <4> HIDE DEF T
      <4>1. T \in SUBSET Nat
        BY <1>1 DEF T
      <4> QED
        BY <3>1, <4>1, Least
    <3>3. \A i, j \in 1 .. n : i < j => i \in 1 .. j - 1
      BY <1>1
    <3> QED
      BY <3>2, <3>3
  <2> DEFINE at == [i \in 1 .. n |-> place[i]]
  <2>4. /\ at \in [1 .. n -> 1 .. m]
        /\ \A i, j \in 1 .. n : i < j => at[i] < at[j]
        /\ \A i \in 1 .. n : h[at[i]] = key[i]
    BY <2>2, <2>3
  <2> HIDE DEF at
  <2> QED
    BY <1>1, <2>4 DEF Abbreviates
<1> QED
  BY <1>2, <1>8, <1>9

\* What is selected of a sequence is what it has at these places.
LEMMA AtPlacesAre ==
  ASSUME NEW seq, NEW n \in Nat, NEW places \in SUBSET (1 .. n)
  PROVE  /\ Cardinality(places) \in Nat /\ (Cardinality(places) = 0 <=> places = {})
         /\ Len(AtPlaces(seq, places)) = Cardinality(places)
         /\ DOMAIN AtPlaces(seq, places) = 1 .. Cardinality(places)
         /\ \A S : (\A i \in places : seq[i] \in S) => AtPlaces(seq, places) \in Seq(S)
         /\ \A i \in places : \E p \in 1 .. Cardinality(places) : AtPlaces(seq, places)[p] = seq[i]
<1> DEFINE N == Cardinality(places)
           Upto(i) == {j \in places : j <= i}
           rank == [i \in places |-> Cardinality(Upto(i))]
<1>1. /\ IsFiniteSet(places) /\ N \in Nat /\ (N = 0 <=> places = {})
  <2>1. IsFiniteSet(1 .. n)
    BY FS_Interval
  <2> QED
    BY <2>1, FS_Subset, FS_CardinalityType, FS_EmptySet
<1>2. ASSUME NEW i \in places
      PROVE  IsFiniteSet(Upto(i)) /\ rank[i] \in 1 .. N
  <2>1. Upto(i) \in SUBSET places /\ Upto(i) # {}
    OBVIOUS
  <2>2. IsFiniteSet(Upto(i)) /\ Cardinality(Upto(i)) <= N
    BY <1>1, <2>1, FS_Subset
  <2>3. Cardinality(Upto(i)) \in Nat /\ Cardinality(Upto(i)) # 0
    BY <2>1, <2>2, FS_CardinalityType, FS_EmptySet
  <2> QED
    BY <1>1, <2>2, <2>3
<1>3. ASSUME NEW i \in places, NEW j \in places, i < j
      PROVE  rank[i] # rank[j]
  <2>1. i \in 1 .. n /\ j \in 1 .. n /\ \A k \in places : k \in 1 .. n
    OBVIOUS
  <2>2. \A k \in Upto(i) : k \in Upto(j)
    BY <1>3, <2>1
  <2>3. j \in Upto(j) /\ j \notin Upto(i)
    BY <1>3, <2>1
  <2>4. Upto(i) \in SUBSET Upto(j) /\ Upto(i) # Upto(j)
    <3> HIDE DEF Upto
    <3> QED
      BY <2>2, <2>3
  <2> QED
    BY <1>2, <2>4, FS_Subset
<1>4. \A i, j \in places : rank[i] = rank[j] => i = j
  <2>1. \A i, j \in places : i < j \/ j < i \/ i = j
    OBVIOUS
  <2> HIDE DEF rank
  <2> QED
    BY <1>3, <2>1
<1>5. rank \in Injection(places, 1 .. N)
  BY <1>2, <1>4 DEF Injection, IsInjective
<1>6. rank \in Surjection(places, 1 .. N)
  <2>1. IsFiniteSet(1 .. N) /\ Cardinality(1 .. N) = N
    BY <1>1, FS_Interval
  <2> HIDE DEF rank, N
  <2> QED
    BY <1>1, <1>5, <2>1, FS_Injection DEF N
<1>7. \A p \in 1 .. N : \E i \in places : rank[i] = p
  BY <1>6 DEF Surjection
<1>8. AtPlaces(seq, places) =
        [p \in 1 .. N |-> seq[CHOOSE i \in places : Cardinality(Upto(i)) = p]]
  BY DEF AtPlaces
<1>9. ASSUME NEW i \in places
      PROVE  AtPlaces(seq, places)[rank[i]] = seq[i]
  <2>1. (CHOOSE j \in places : Cardinality(Upto(j)) = rank[i]) = i
    <3>1. \A j \in places : Cardinality(Upto(j)) = rank[j]
      OBVIOUS
    <3> HIDE DEF rank, Upto
    <3> QED
      BY <1>4, <3>1
  <2> HIDE DEF Upto, rank
  <2> QED
    BY <1>2, <1>8, <2>1
<1>10. \A p \in 1 .. N : \E i \in places : AtPlaces(seq, places)[p] = seq[i]
  <2> HIDE DEF rank, N
  <2> QED
    BY <1>7, <1>9
<1>11. \A i \in places : rank[i] \in 1 .. N
  BY <1>2
<1>12. \A i \in places : \E p \in 1 .. N : AtPlaces(seq, places)[p] = seq[i]
  <2> HIDE DEF rank, N
  <2> QED
    BY <1>9, <1>11
<1>13. ASSUME NEW S, \A i \in places : seq[i] \in S
       PROVE  AtPlaces(seq, places) \in [1 .. N -> S]
  <2> DEFINE at(p) == seq[CHOOSE i \in places : Cardinality(Upto(i)) = p]
  <2>1. AtPlaces(seq, places) = [p \in 1 .. N |-> at(p)]
    BY <1>8
  <2> HIDE DEF N, at
  <2>2. \A p \in 1 .. N : at(p) \in S
    BY <1>10, <1>13, <2>1
  <2> QED
    BY <2>1, <2>2
<1>14. DOMAIN AtPlaces(seq, places) = 1 .. N /\ Len(AtPlaces(seq, places)) = N
  <2> DEFINE V == {seq[i] : i \in places}
             s == AtPlaces(seq, places)
  <2>1. s \in [1 .. N -> V]
    BY <1>13
  <2> HIDE DEF V, N, s
  <2>2. s \in Seq(V) /\ DOMAIN s = 1 .. N
    BY <1>1, <2>1, SeqDef
  <2>3. Len(s) = N
    BY <1>1, <2>2, LenProperties
  <2> QED
    BY <2>2, <2>3 DEF s
<1>15. \A S : (\A i \in places : seq[i] \in S) => AtPlaces(seq, places) \in Seq(S)
  <2> HIDE DEF N
  <2> QED
    BY <1>1, <1>13, SeqDef
<1> QED
  BY <1>1, <1>12, <1>14, <1>15

\* A set of places to which each place belongs if those behind it do.
LEMMA FromTheEnd ==
  ASSUME NEW n \in Nat, NEW T,
         \A i \in 1 .. n : (\A j \in 1 .. n : j > i => j \in T) => i \in T
  PROVE  \A i \in 1 .. n : i \in T
<1> DEFINE U == {m \in 0 .. n - 1 : n - m \notin T}
<1>1. U \in SUBSET Nat
  OBVIOUS
<1>2. ASSUME NEW x \in U, \A y \in U : x <= y
      PROVE  FALSE
  <2>1. x \in 0 .. n - 1 /\ n - x \in 1 .. n /\ n - x \notin T
    OBVIOUS
  <2>2. ASSUME NEW j \in 1 .. n, j > n - x
        PROVE  j \in T
    <3>1. n - j \in 0 .. n - 1 /\ n - j < x /\ n - (n - j) = j
      BY <2>1, <2>2
    <3>2. n - j \notin U
      BY <1>2, <2>1, <3>1
    <3> QED
      BY <3>1, <3>2
  <2> QED
    BY <2>1, <2>2
<1>3. U = {}
  <2> HIDE DEF U
  <2> QED
    BY <1>1, <1>2, Least
<1>4. ASSUME NEW i \in 1 .. n
      PROVE  i \in T
  <2>1. n - i \in 0 .. n - 1 /\ n - (n - i) = i
    OBVIOUS
  <2> QED
    BY <1>3, <2>1
<1> QED
  BY <1>4

-----------------------------------------------------------------------------
(* The filters that comparisons, functions and combinations of filters are.*)

\* Filters of rows.
FilterSet == [fields : SUBSET Range(Headings), outcome : [Rows -> Outcomes]]

\* A key is the heading of its name, or the first that it abbreviates.
LEMMA MatchQueryKeyIs ==
  ASSUME NEW key, IsSeq(key)
  PROVE  /\ MatchQueryKey(key) \in Range(Headings) \cup {NoHeading}
         /\ key \notin Range(Headings) =>
              LET close == {j \in DOMAIN Headings : Abbreviates(key, Headings[j])}
              IN  MatchQueryKey(key) = IF close = {} THEN NoHeading ELSE Headings[Min(close)]
<1> DEFINE close == {j \in DOMAIN Headings : Abbreviates(key, Headings[j])}
           matching == {i \in DOMAIN Headings : IsSubsequence(key, Headings[i])}
<1>1. DOMAIN Headings \in SUBSET Nat
  BY HeadingsAssumption DEF IsSeq
<1>2. \A i \in DOMAIN Headings : Headings[i] \in Range(Headings)
  BY DEF Range
<1>3. \A i \in DOMAIN Headings : IsSubsequence(key, Headings[i]) <=> Abbreviates(key, Headings[i])
  BY <1>2, HeadingsAssumption, GreedyFinds
<1>4. matching = close
  BY <1>3
<1>5. matching # {} => Min(matching) \in matching
  <2>1. matching \in SUBSET Nat
    BY <1>1
  <2> HIDE DEF matching
  <2> QED
    BY <2>1, MinIs
<1>6. MatchQueryKey(key) = IF key \in Range(Headings) THEN key
                           ELSE IF matching = {} THEN NoHeading ELSE Headings[Min(matching)]
  BY DEF MatchQueryKey
<1>7. matching # {} => Headings[Min(matching)] \in Range(Headings)
  BY <1>2, <1>5
<1> HIDE DEF matching, close
<1> QED
  BY <1>4, <1>6, <1>7 DEF close

\* A comparison with a row says yes or no, or raises.
LEMMA ComparisonOutcomeIs ==
  ASSUME NEW c, c.comparator \in Comparators, NEW row
  PROVE  ComparisonOutcome(c, row) \in Outcomes
<1>1. ASSUME NEW value
      PROVE  Compare(value, c.comparator, c.with) \in Outcomes
  <2> DEFINE equal == IF c.with.type = "str" THEN value.text \in c.with.matched
                      ELSE value.type = "num" /\ value.rank = c.with.rank
             less == value.rank < c.with.rank
             same == value.rank = c.with.rank
  <2>1. \A b : YesIf(b) \in Outcomes
    BY DEF YesIf, Outcomes
  <2>2. "TypeError" \in Outcomes
    BY DEF Outcomes
  <2> HIDE DEF equal, less, same
  <2> QED
    BY <2>1, <2>2 DEF Compare, Comparators, equal, less, same
<1> QED
  BY <1>1 DEF ComparisonOutcome, Outcomes

\* A comparison makes a filter.
LEMMA ComparisonFilterIs ==
  ASSUME NEW c, c.comparator \in Comparators, IsSeq(c.key)
  PROVE  ComparisonFilter(c) \in FilterSet
<1>1. {MatchQueryKey(c.key)} \ {NoHeading} \in SUBSET Range(Headings)
  BY MatchQueryKeyIs
<1>2. [row \in Rows |-> ComparisonOutcome(c, row)] \in [Rows -> Outcomes]
  BY ComparisonOutcomeIs
<1> QED
  BY <1>1, <1>2 DEF ComparisonFilter, FilterSet

\* A function filters by what it keeps of its field.
LEMMA CustomFilterIs ==
  ASSUME NEW fn, fn.field \in Range(Headings)
  PROVE  /\ CustomFilter(fn) \in FilterSet
         /\ CustomFilter(fn).fields = {fn.field}
         /\ \A row \in Rows :
              CustomFilter(fn).outcome[row] = IF row[fn.field] \in fn.kept THEN "yes" ELSE "no"
  BY DEF CustomFilter, FilterSet, YesIf, Outcomes

\* "all" and "any" mean what they say, of any number of filters, but that one
\* that decides may raise.
LEMMA CombinedIs ==
  ASSUME NEW op \in {"all", "any"}, NEW n \in Nat, NEW kids \in [1 .. n -> FilterSet]
  PROVE  /\ Combined(op, kids) \in FilterSet
         /\ Combined(op, kids).fields = UNION {kids[i].fields : i \in 1 .. n}
         /\ \A row \in Rows : LET out == Combined(op, kids).outcome[row] IN
              /\ op = "all" => (out = "yes" <=> \A i \in 1 .. n : kids[i].outcome[row] = "yes")
              /\ op = "any" => (out = "no" <=> \A i \in 1 .. n : kids[i].outcome[row] = "no")
              /\ op = "any" /\ out = "yes" => \E i \in 1 .. n : kids[i].outcome[row] = "yes"
              /\ op = "all" /\ out = "no" => \E i \in 1 .. n : kids[i].outcome[row] = "no"
<1> DEFINE passed == IF op = "all" THEN "yes" ELSE "no"
           deciding(row) == {i \in DOMAIN kids : kids[i].outcome[row] # passed}
           out(row) == IF deciding(row) = {} THEN passed
                       ELSE kids[Min(deciding(row))].outcome[row]
<1>1. \A i \in 1 .. n : kids[i].fields \in SUBSET Range(Headings) /\ kids[i].outcome \in [Rows -> Outcomes]
  BY DEF FilterSet
<1>2. Combined(op, kids) =
        [fields |-> UNION {kids[i].fields : i \in DOMAIN kids}, outcome |-> [row \in Rows |-> out(row)]]
  BY DEF Combined
<1>3. ASSUME NEW row \in Rows
      PROVE  /\ out(row) \in Outcomes
             /\ out(row) = passed <=> \A i \in 1 .. n : kids[i].outcome[row] = passed
             /\ out(row) # passed => \E i \in 1 .. n : kids[i].outcome[row] = out(row)
  <2>1. deciding(row) \in SUBSET Nat
    OBVIOUS
  <2>2. deciding(row) # {} => Min(deciding(row)) \in deciding(row)
    <3> HIDE DEF deciding
    <3> QED
      BY <2>1, MinIs
  <2>3. CASE deciding(row) = {}
    BY <2>3 DEF Outcomes
  <2>4. CASE deciding(row) # {}
    <3>1. PICK i \in 1 .. n : out(row) = kids[i].outcome[row] /\ kids[i].outcome[row] # passed
      BY <2>2, <2>4
    <3>2. kids[i].outcome[row] \in Outcomes
      BY <1>1
    <3> HIDE DEF out, passed
    <3> QED
      BY <3>1, <3>2
  <2> QED
    BY <2>3, <2>4
<1>4. UNION {kids[i].fields : i \in DOMAIN kids} \in SUBSET Range(Headings)
  BY <1>1
<1>5. Combined(op, kids) \in FilterSet
  <2> HIDE DEF out
  <2> QED
    BY <1>2, <1>3, <1>4 DEF FilterSet
<1>6. \A row \in Rows : Combined(op, kids).outcome[row] = out(row)
  <2> HIDE DEF out
  <2> QED
    BY <1>2
<1>7. Combined(op, kids).fields = UNION {kids[i].fields : i \in 1 .. n}
  BY <1>2
<1> HIDE DEF out
<1> QED
  BY <1>3, <1>5, <1>6, <1>7

-----------------------------------------------------------------------------
(* The parser of queries, place by place from the end of a query.          *)

\* The same of two filters.
LEMMA PairIs ==
  ASSUME NEW op \in {"all", "any"}, NEW a \in FilterSet, NEW b \in FilterSet
  PROVE  /\ Combined(op, <<a, b>>) \in FilterSet
         /\ Combined(op, <<a, b>>).fields = a.fields \cup b.fields
         /\ \A row \in Rows : LET out == Combined(op, <<a, b>>).outcome[row] IN
              /\ op = "all" => (out = "yes" <=> a.outcome[row] = "yes" /\ b.outcome[row] = "yes")
              /\ op = "any" => (out = "no" <=> a.outcome[row] = "no" /\ b.outcome[row] = "no")
              /\ op = "any" /\ out = "yes" => a.outcome[row] = "yes" \/ b.outcome[row] = "yes"
<1> DEFINE kids == <<a, b>>
<1>1. 2 \in Nat /\ kids \in [1 .. 2 -> FilterSet] /\ kids[1] = a /\ kids[2] = b
  OBVIOUS
<1>2. \A i : i \in 1 .. 2 <=> i = 1 \/ i = 2
  OBVIOUS
<1> HIDE DEF kids
<1>3. UNION {kids[i].fields : i \in 1 .. 2} = a.fields \cup b.fields
  BY <1>1, <1>2
<1>4. \A value : \A row : (\A i \in 1 .. 2 : kids[i].outcome[row] = value)
                             <=> a.outcome[row] = value /\ b.outcome[row] = value
  BY <1>1, <1>2
<1>5. \A row : (\E i \in 1 .. 2 : kids[i].outcome[row] = "yes")
                  <=> a.outcome[row] = "yes" \/ b.outcome[row] = "yes"
  BY <1>1, <1>2
<1>6. /\ Combined(op, kids) \in FilterSet
      /\ Combined(op, kids).fields = UNION {kids[i].fields : i \in 1 .. 2}
      /\ \A row \in Rows : LET out == Combined(op, kids).outcome[row] IN
           /\ op = "all" => (out = "yes" <=> \A i \in 1 .. 2 : kids[i].outcome[row] = "yes")
           /\ op = "any" => (out = "no" <=> \A i \in 1 .. 2 : kids[i].outcome[row] = "no")
           /\ op = "any" /\ out = "yes" => \E i \in 1 .. 2 : kids[i].outcome[row] = "yes"
           /\ op = "all" /\ out = "no" => \E i \in 1 .. 2 : kids[i].outcome[row] = "no"
  BY <1>1, CombinedIs
<1>7. ASSUME NEW row \in Rows
      PROVE  LET out == Combined(op, kids).outcome[row] IN
              /\ op = "all" => (out = "yes" <=> a.outcome[row] = "yes" /\ b.outcome[row] = "yes")
              /\ op = "any" => (out = "no" <=> a.outcome[row] = "no" /\ b.outcome[row] = "no")
              /\ op = "any" /\ out = "yes" => a.outcome[row] = "yes" \/ b.outcome[row] = "yes"
  BY <1>4, <1>5, <1>6
<1>8. Combined(op, kids).fields = a.fields \cup b.fields /\ Combined(op, kids) \in FilterSet
  BY <1>3, <1>6
<1> QED
  BY <1>7, <1>8 DEF kids

\* What a parser may return.
Parses(q) == [filter : FilterSet, next : 1 .. Len(q.cmps) + 1] \cup {Fails}

\* What is filtered on by some of the comparisons, and that they all hold.
FieldsFrom(q, lo, hi) == UNION {{MatchQueryKey(q.cmps[k].key)} \ {NoHeading} : k \in lo .. hi}

AllHold(q, lo, hi, row) == \A k \in lo .. hi : ComparisonOutcome(q.cmps[k], row) = "yes"

\* A query, and a place in it that may be past its end.
LEMMA QueryIs ==
  ASSUME NEW q, IsQuery(q)
  PROVE  /\ Len(q.cmps) \in Nat /\ DOMAIN q.cmps = 1 .. Len(q.cmps)
         /\ Len(q.ops) \in Nat /\ DOMAIN q.ops = 1 .. Len(q.ops)
         /\ \A k \in DOMAIN q.ops : q.ops[k] \in {"and", "or"}
         /\ \A k \in DOMAIN q.cmps :
              q.cmps[k].comparator \in Comparators /\ IsSeq(q.cmps[k].key)
<1>1. /\ Len(q.cmps) \in Nat /\ DOMAIN q.cmps = 1 .. Len(q.cmps)
      /\ Len(q.ops) \in Nat /\ DOMAIN q.ops = 1 .. Len(q.ops)
  BY DEF IsQuery, IsSeq
<1>2. \A k \in DOMAIN q.ops : q.ops[k] \in {"and", "or"}
  <2>1. q.ops \in Seq({"and", "or"})
    BY DEF IsQuery
  <2> QED
    BY <1>1, <2>1, ElementOfSeq
<1>3. \A k \in DOMAIN q.cmps : q.cmps[k] \in Range(q.cmps)
  BY DEF Range
<1>4. \A c \in Range(q.cmps) : IsSeq(c.key) /\ c.comparator \in Comparators
  BY DEF IsQuery
<1> QED
  BY <1>1, <1>2, <1>3, <1>4

\* A comparison is parsed at every place that has one.
LEMMA ComparisonIs ==
  ASSUME NEW q, IsQuery(q), NEW i \in Nat
  PROVE  /\ Comparison(q, i) \in Parses(q)
         /\ Comparison(q, i).next = 0 <=> i \notin 1 .. Len(q.cmps)
         /\ i \in 1 .. Len(q.cmps) =>
              /\ Comparison(q, i) = [filter |-> ComparisonFilter(q.cmps[i]), next |-> i + 1]
              /\ Comparison(q, i).filter \in FilterSet
              /\ Comparison(q, i).filter.fields = FieldsFrom(q, i, i)
              /\ \A row \in Rows :
                   Comparison(q, i).filter.outcome[row] = ComparisonOutcome(q.cmps[i], row)
<1>1. Len(q.cmps) \in Nat /\ DOMAIN q.cmps = 1 .. Len(q.cmps)
  BY QueryIs
<1>2. CASE i \in 1 .. Len(q.cmps)
  <2>1. Comparison(q, i) = [filter |-> ComparisonFilter(q.cmps[i]), next |-> i + 1]
    BY <1>1, <1>2 DEF Comparison
  <2>2. ComparisonFilter(q.cmps[i]) \in FilterSet
    BY <1>1, <1>2, QueryIs, ComparisonFilterIs
  <2>3. i + 1 \in 1 .. Len(q.cmps) + 1 /\ i + 1 # 0
    BY <1>1, <1>2
  <2>4. ComparisonFilter(q.cmps[i]).fields = FieldsFrom(q, i, i)
    <3>1. \A k : k \in i .. i <=> k = i
      BY <1>1, <1>2
    <3> QED
      BY <3>1 DEF FieldsFrom, ComparisonFilter
  <2>5. \A row \in Rows :
          ComparisonFilter(q.cmps[i]).outcome[row] = ComparisonOutcome(q.cmps[i], row)
    BY DEF ComparisonFilter
  <2> QED
    BY <1>2, <2>1, <2>2, <2>3, <2>4, <2>5 DEF Parses
<1>3. CASE i \notin 1 .. Len(q.cmps)
  BY <1>1, <1>3 DEF Comparison, Parses, Fails
<1> QED
  BY <1>2, <1>3

\* bool_and_expr returns a filter or fails, and so it does at every place.
LEMMA AndResultTyped ==
  ASSUME NEW q, IsQuery(q), NEW i \in Positions(q), NEW more,
         i \in DOMAIN q.cmps => more \in Parses(q)
  PROVE  AndResult(q, i, more) \in Parses(q)
<1>1. i \in Nat /\ i + 1 \in Nat
  BY QueryIs DEF Positions
<1>2. CASE i \notin DOMAIN q.cmps
  BY <1>1, <1>2, QueryIs, ComparisonIs DEF AndResult, Joined, Fails, Parses
<1>3. CASE i \in DOMAIN q.cmps
  <2> DEFINE rhs == IF more.next # 0 THEN more ELSE Comparison(q, i + 1)
  <2>1. rhs \in Parses(q) /\ Comparison(q, i).filter \in FilterSet
    BY <1>1, <1>3, QueryIs, ComparisonIs
  <2>2. ASSUME rhs.next # 0
        PROVE  [filter |-> Combined("all", <<Comparison(q, i).filter, rhs.filter>>),
                next |-> rhs.next] \in Parses(q)
    <3>1. rhs.filter \in FilterSet /\ rhs.next \in 1 .. Len(q.cmps) + 1
      BY <2>1, <2>2 DEF Parses, Fails
    <3> HIDE DEF rhs
    <3> QED
      BY <2>1, <3>1, PairIs DEF Parses
  <2>3. AndResult(q, i, more) =
          IF Comparison(q, i).next = 0 \/ OperBefore(q, i + 1) # "and" \/ rhs.next = 0 THEN Fails
          ELSE [filter |-> Combined("all", <<Comparison(q, i).filter, rhs.filter>>),
                next |-> rhs.next]
    BY DEF AndResult, Joined, OrElse
  <2> HIDE DEF rhs
  <2> QED
    BY <2>2, <2>3 DEF Parses
<1> QED
  BY <1>2, <1>3

\* What holds of all comparisons of two parts, holds of both of them.
LEMMA FromTo ==
  ASSUME NEW q, NEW lo \in Nat, NEW mid \in Nat, NEW hi \in Nat, lo <= mid + 1, mid <= hi
  PROVE  /\ FieldsFrom(q, lo, hi) = FieldsFrom(q, lo, mid) \cup FieldsFrom(q, mid + 1, hi)
         /\ \A row : AllHold(q, lo, hi, row) <=> AllHold(q, lo, mid, row) /\ AllHold(q, mid + 1, hi, row)
<1>1. \A k : k \in lo .. hi <=> k \in lo .. mid \/ k \in mid + 1 .. hi
  OBVIOUS
<1> QED
  BY <1>1 DEF FieldsFrom, AllHold

\* What bool_and_expr returns: all comparisons up to the first that no "and"
\* follows, if there are two of them at least.
IsConjunction(q, i, r) ==
  /\ r \in Parses(q)
  /\ r.next = 0 /\ i \in DOMAIN q.cmps =>
       OperBefore(q, i + 1) # "and" \/ i + 1 \notin DOMAIN q.cmps
  /\ r.next # 0 =>
       /\ r.next \in i + 2 .. Len(q.cmps) + 1
       /\ \A k \in i .. r.next - 2 : k \in DOMAIN q.ops /\ q.ops[k] = "and"
       /\ r.next \in DOMAIN q.cmps => OperBefore(q, r.next) # "and"
       /\ r.filter.fields = FieldsFrom(q, i, r.next - 1)
       /\ \A row \in Rows : r.filter.outcome[row] = "yes" <=> AllHold(q, i, r.next - 1, row)

\* bool_and_expr at a place, from what it returns at the next.
LEMMA AndStep ==
  ASSUME NEW q, IsQuery(q), NEW i \in Positions(q), NEW more,
         i \in DOMAIN q.cmps => IsConjunction(q, i + 1, more)
  PROVE  IsConjunction(q, i, AndResult(q, i, more))
<1> DEFINE r == AndResult(q, i, more)
           lhs == Comparison(q, i)
           rhs == IF more.next # 0 THEN more ELSE Comparison(q, i + 1)
           n == Len(q.cmps)
<1>0. n \in Nat /\ DOMAIN q.cmps = 1 .. n /\ i \in 1 .. n + 1 /\ Positions(q) = 1 .. n + 1
  BY QueryIs DEF Positions
<1>1. r \in Parses(q)
  BY AndResultTyped DEF IsConjunction
<1>2. r = IF lhs.next = 0 \/ OperBefore(q, i + 1) # "and" \/ rhs.next = 0 THEN Fails
          ELSE [filter |-> Combined("all", <<lhs.filter, rhs.filter>>), next |-> rhs.next]
  BY DEF AndResult, Joined, OrElse
<1>3. lhs.next = 0 <=> i \notin DOMAIN q.cmps
  BY <1>0, ComparisonIs
<1>4. CASE i \notin DOMAIN q.cmps
  <2>1. r = Fails
    BY <1>2, <1>3, <1>4
  <2> QED
    BY <1>1, <1>4, <2>1 DEF IsConjunction, Fails
<1>5. CASE i \in DOMAIN q.cmps /\ OperBefore(q, i + 1) # "and"
  <2>1. r = Fails
    BY <1>2, <1>5
  <2> QED
    BY <1>1, <1>5, <2>1 DEF IsConjunction, Fails
<1>6. CASE i \in DOMAIN q.cmps /\ OperBefore(q, i + 1) = "and"
  <2>1. IsConjunction(q, i + 1, more) /\ i \in 1 .. n /\ i + 1 \in Nat
    BY <1>0, <1>6
  <2>2. i \in DOMAIN q.ops /\ q.ops[i] = "and"
    <3>1. (i + 1) - 1 = i
      BY <2>1
    <3> QED
      BY <1>6, <3>1 DEF OperBefore
  <2>3. CASE more.next = 0 /\ i + 1 \notin DOMAIN q.cmps
    <3>1. rhs.next = 0
      BY <2>1, <2>3, ComparisonIs, <1>0
    <3>2. r = Fails
      BY <1>2, <3>1
    <3> QED
      BY <1>1, <2>3, <3>2 DEF IsConjunction, Fails
  <2>4. CASE more.next # 0 \/ i + 1 \in DOMAIN q.cmps
    <3>1. /\ rhs.next \in i + 2 .. n + 1 /\ rhs.filter \in FilterSet
          /\ \A k \in i + 1 .. rhs.next - 2 : k \in DOMAIN q.ops /\ q.ops[k] = "and"
          /\ rhs.next \in DOMAIN q.cmps => OperBefore(q, rhs.next) # "and"
          /\ rhs.filter.fields = FieldsFrom(q, i + 1, rhs.next - 1)
          /\ \A row \in Rows : rhs.filter.outcome[row] = "yes" <=> AllHold(q, i + 1, rhs.next - 1, row)
      <4>1. CASE more.next # 0
        <5>1. more.next \in i + 3 .. n + 1 /\ more.filter \in FilterSet
          BY <1>0, <2>1, <4>1 DEF IsConjunction, Parses, Fails
        <5> QED
          BY <1>0, <2>1, <4>1, <5>1 DEF IsConjunction
      <4>2. CASE more.next = 0 /\ i + 1 \in DOMAIN q.cmps
        <5>1. OperBefore(q, i + 2) # "and" \/ i + 2 \notin DOMAIN q.cmps
          <6>1. (i + 1) + 1 = i + 2
            BY <2>1
          <6> QED
            BY <2>1, <4>2, <6>1 DEF IsConjunction
        <5>2. /\ rhs.next = i + 2 /\ rhs.filter \in FilterSet
              /\ rhs.filter.fields = FieldsFrom(q, i + 1, i + 1)
              /\ \A row \in Rows :
                   rhs.filter.outcome[row] = ComparisonOutcome(q.cmps[i + 1], row)
          <6>1. rhs = Comparison(q, i + 1) /\ i + 1 \in 1 .. n /\ (i + 1) + 1 = i + 2
            BY <1>0, <2>1, <4>2
          <6>2. /\ rhs = [filter |-> ComparisonFilter(q.cmps[i + 1]), next |-> (i + 1) + 1]
                /\ rhs.filter \in FilterSet
                /\ rhs.filter.fields = FieldsFrom(q, i + 1, i + 1)
                /\ \A row \in Rows :
                     rhs.filter.outcome[row] = ComparisonOutcome(q.cmps[i + 1], row)
            <7> HIDE DEF rhs
            <7> QED
              BY <2>1, <6>1, ComparisonIs DEF n
          <6> QED
            BY <6>1, <6>2
        <5>3. (i + 2) - 1 = i + 1 /\ (i + 2) - 2 = i /\ i + 2 \in i + 2 .. n + 1
          <6>1. i \in 1 .. n /\ i + 1 \in 1 .. n /\ n \in Nat
            BY <1>0, <2>1, <4>2
          <6> HIDE DEF n
          <6> QED
            BY <6>1
        <5>4. \A k : k \in i + 1 .. i + 1 <=> k = i + 1
          BY <2>1
        <5>5. \A k : k \notin i + 1 .. i
          BY <2>1
        <5> HIDE DEF rhs, n
        <5> QED
          BY <5>1, <5>2, <5>3, <5>4, <5>5 DEF AllHold
      <4> QED
        BY <2>4, <4>1, <4>2
    <3>2. /\ lhs.filter \in FilterSet /\ lhs.filter.fields = FieldsFrom(q, i, i)
          /\ \A row \in Rows : lhs.filter.outcome[row] = "yes" <=> AllHold(q, i, i, row)
      <4>1. \A k : k \in i .. i <=> k = i
        BY <2>1
      <4> QED
        BY <1>0, <1>6, <2>1, <4>1, ComparisonIs DEF AllHold
    <3> HIDE DEF lhs, rhs, n
    <3>3. rhs.next # 0 /\ rhs.next - 1 \in Nat /\ i <= rhs.next - 1 /\ i \in Nat
      BY <1>0, <2>1, <3>1
    <3>4. r = [filter |-> Combined("all", <<lhs.filter, rhs.filter>>), next |-> rhs.next]
      BY <1>2, <1>3, <1>6, <3>3
    <3>5. /\ r.next = rhs.next
          /\ r.filter.fields = FieldsFrom(q, i, i) \cup FieldsFrom(q, i + 1, rhs.next - 1)
          /\ \A row \in Rows : r.filter.outcome[row] = "yes" <=>
               AllHold(q, i, i, row) /\ AllHold(q, i + 1, rhs.next - 1, row)
      <4>1. LET c == Combined("all", <<lhs.filter, rhs.filter>>) IN
              /\ c.fields = lhs.filter.fields \cup rhs.filter.fields
              /\ \A row \in Rows : c.outcome[row] = "yes" <=>
                   lhs.filter.outcome[row] = "yes" /\ rhs.filter.outcome[row] = "yes"
        BY <3>1, <3>2, PairIs
      <4> HIDE DEF r
      <4> QED
        BY <3>1, <3>2, <3>4, <4>1
    <3>6. /\ r.filter.fields = FieldsFrom(q, i, rhs.next - 1)
          /\ \A row \in Rows : r.filter.outcome[row] = "yes" <=> AllHold(q, i, rhs.next - 1, row)
      <4>1. i <= i + 1 /\ i <= rhs.next - 1
        BY <3>3
      <4>2. /\ FieldsFrom(q, i, rhs.next - 1)
                 = FieldsFrom(q, i, i) \cup FieldsFrom(q, i + 1, rhs.next - 1)
            /\ \A row : AllHold(q, i, rhs.next - 1, row) <=>
                         AllHold(q, i, i, row) /\ AllHold(q, i + 1, rhs.next - 1, row)
        BY <3>3, <4>1, FromTo
      <4> HIDE DEF r
      <4> QED
        BY <3>5, <4>2
    <3>7. \A k \in i .. rhs.next - 2 : k \in DOMAIN q.ops /\ q.ops[k] = "and"
      <4>1. \A k \in i .. rhs.next - 2 : k = i \/ k \in i + 1 .. rhs.next - 2
        BY <2>1, <3>1, <1>0
      <4> QED
        BY <2>2, <3>1, <4>1
    <3> QED
      BY <1>0, <1>1, <2>1, <3>1, <3>3, <3>5, <3>6, <3>7 DEF IsConjunction, n
  <2> QED
    BY <2>3, <2>4
<1> QED
  BY <1>4, <1>5, <1>6

\* bool_and_expr: a conjunction from any place.
LEMMA AndParsed ==
  ASSUME NEW q, IsQuery(q), NEW at \in Positions(q)
  PROVE  IsConjunction(q, at, BoolAndExpr(q, at))
<1> DEFINE D == Positions(q)
           V == Parses(q)
           n == Len(q.cmps) + 1
           IsExpr(f) == f = [i \in D |-> AndResult(q, i, f[i + 1])]
           expr == CHOOSE f : IsExpr(f)
           step == [i \in D |-> [f \in [D -> V] |-> AndResult(q, i, f[i + 1])]]
           rank == [i \in D |-> n - i]
<1>1. n \in Nat /\ D = 1 .. n /\ DOMAIN q.cmps = 1 .. n - 1
  BY QueryIs DEF Positions
<1>2. \A i \in D : i \notin DOMAIN q.cmps => \A more : AndResult(q, i, more) = Fails
  BY <1>1, ComparisonIs DEF AndResult, Joined
<1>3. \A i \in DOMAIN q.cmps : i \in D /\ i + 1 \in D /\ i + 1 > i
  BY <1>1
<1>4. \E f \in [D -> V] : \A i \in D : f[i] = step[i][f]
  <2>1. V # {} /\ rank \in [D -> Nat] /\ \A i \in D : rank[i] <= n
    BY <1>1 DEF Parses
  <2>2. \A i \in D : \A f \in [D -> V] : AndResult(q, i, f[i + 1]) \in V
    <3> HIDE DEF D, V
    <3> QED
      BY <1>3, AndResultTyped DEF D, V
  <2>3. step \in [D -> [[D -> V] -> V]]
    <3> HIDE DEF D, V
    <3> QED
      BY <2>2
  <2>4. \A i \in D : \A f, g \in [D -> V] :
          (\A e \in D : rank[e] < rank[i] => f[e] = g[e]) => step[i][f] = step[i][g]
    <3> SUFFICES ASSUME NEW i \in D, NEW f \in [D -> V], NEW g \in [D -> V],
                        \A e \in D : rank[e] < rank[i] => f[e] = g[e]
                 PROVE  AndResult(q, i, f[i + 1]) = AndResult(q, i, g[i + 1])
      OBVIOUS
    <3>1. CASE i \in DOMAIN q.cmps
      <4>1. rank[i + 1] < rank[i] /\ i + 1 \in D
        BY <1>1, <1>3, <3>1
      <4> HIDE DEF rank, D, V
      <4> QED
        BY <4>1
    <3>2. CASE i \notin DOMAIN q.cmps
      BY <1>2, <3>2
    <3> QED
      BY <3>1, <3>2
  <2> HIDE DEF D, V, step, rank, n
  <2>5. Ranked(D, V, n, rank, step)
    BY <1>1, <2>1, <2>3, <2>4 DEF Ranked
  <2> QED
    BY <2>5, Recursion
<1>5. IsExpr(expr)
  <2> HIDE DEF D, V
  <2>1. PICK f \in [D -> V] : \A i \in D : f[i] = AndResult(q, i, f[i + 1])
    BY <1>4
  <2>2. IsExpr(f)
    BY <2>1
  <2> HIDE DEF IsExpr
  <2> QED
    BY <2>2
<1>6. BoolAndExpr(q, at) = expr[at]
  BY DEF BoolAndExpr
<1> HIDE DEF expr
<1>7. \A i \in D : expr[i] = AndResult(q, i, expr[i + 1])
  <2> HIDE DEF D
  <2> QED
    BY <1>5
<1> DEFINE T == {i \in D : IsConjunction(q, i, expr[i])}
<1>8. ASSUME NEW i \in 1 .. n, \A j \in 1 .. n : j > i => j \in T
      PROVE  i \in T
  <2>1. i \in DOMAIN q.cmps => IsConjunction(q, i + 1, expr[i + 1])
    BY <1>1, <1>3, <1>8
  <2>2. i \in D
    BY <1>1
  <2>3. IsConjunction(q, i, AndResult(q, i, expr[i + 1]))
    BY <2>1, <2>2, AndStep
  <2> HIDE DEF D
  <2> QED
    BY <1>7, <2>2, <2>3
<1>9. \A i \in 1 .. n : i \in T
  <2> HIDE DEF T, n
  <2> QED
    BY <1>1, <1>8, FromTheEnd
<1> QED
  BY <1>1, <1>6, <1>9

\* One of the conjunctions between the "or"s from one comparison to another.
IsConjunct(q, from, to, lo, hi) ==
  /\ lo <= hi
  /\ lo = from \/ q.ops[lo - 1] = "or"
  /\ hi = to \/ q.ops[hi] = "or"
  /\ \A k \in lo .. hi - 1 : q.ops[k] = "and"

\* One of these conjunctions holds.
OneHolds(q, from, to, row) ==
  \E lo, hi \in from .. to : IsConjunct(q, from, to, lo, hi) /\ AllHold(q, lo, hi, row)

\* Without an "or" there is one conjunction.
LEMMA OneConjunct ==
  ASSUME NEW q, NEW i \in Nat \ {0}, NEW m \in Nat, i < m,
         \A k \in i .. m - 2 : q.ops[k] = "and", NEW row
  PROVE  OneHolds(q, i, m - 1, row) <=> AllHold(q, i, m - 1, row)
<1>1. ASSUME AllHold(q, i, m - 1, row)
      PROVE  OneHolds(q, i, m - 1, row)
  <2>1. i \in i .. m - 1 /\ m - 1 \in i .. m - 1 /\ (m - 1) - 1 = m - 2
    OBVIOUS
  <2>2. IsConjunct(q, i, m - 1, i, m - 1)
    BY <2>1 DEF IsConjunct
  <2> QED
    BY <1>1, <2>1, <2>2 DEF OneHolds
<1>2. ASSUME NEW lo \in i .. m - 1, NEW hi \in i .. m - 1, IsConjunct(q, i, m - 1, lo, hi)
      PROVE  lo = i /\ hi = m - 1
  <2>1. lo # i => lo - 1 \in i .. m - 2
    OBVIOUS
  <2>2. hi # m - 1 => hi \in i .. m - 2
    OBVIOUS
  <2> QED
    BY <1>2, <2>1, <2>2 DEF IsConjunct
<1> QED
  BY <1>1, <1>2 DEF OneHolds

\* One comparison is a conjunction.
LEMMA OneAlone ==
  ASSUME NEW q, NEW i \in Nat \ {0}, NEW row
  PROVE  OneHolds(q, i, i, row) <=> AllHold(q, i, i, row)
<1>1. \A k : k \in i .. i <=> k = i
  OBVIOUS
<1>2. i <= i /\ \A k : k \notin i .. i - 1
  OBVIOUS
<1> QED
  BY <1>1, <1>2 DEF OneHolds, IsConjunct

\* With an "or", there is the one before it and those behind it.
LEMMA MoreConjuncts ==
  ASSUME NEW q, NEW i \in Nat \ {0}, NEW m \in Nat, NEW n \in Nat, i < m, m < n,
         \A k \in i .. m - 2 : q.ops[k] = "and", q.ops[m - 1] = "or", NEW row
  PROVE  OneHolds(q, i, n - 1, row) <=> AllHold(q, i, m - 1, row) \/ OneHolds(q, m, n - 1, row)
<1>1. ASSUME AllHold(q, i, m - 1, row)
      PROVE  OneHolds(q, i, n - 1, row)
  <2>1. i \in i .. n - 1 /\ m - 1 \in i .. n - 1 /\ (m - 1) - 1 = m - 2 /\ i <= m - 1
    OBVIOUS
  <2>2. IsConjunct(q, i, n - 1, i, m - 1)
    BY <2>1 DEF IsConjunct
  <2> QED
    BY <1>1, <2>1, <2>2 DEF OneHolds
<1>2. ASSUME OneHolds(q, m, n - 1, row)
      PROVE  OneHolds(q, i, n - 1, row)
  <2>1. PICK lo \in m .. n - 1, hi \in m .. n - 1 :
          IsConjunct(q, m, n - 1, lo, hi) /\ AllHold(q, lo, hi, row)
    BY <1>2 DEF OneHolds
  <2>2. lo \in i .. n - 1 /\ hi \in i .. n - 1
    OBVIOUS
  <2>3. IsConjunct(q, i, n - 1, lo, hi)
    BY <2>1 DEF IsConjunct
  <2> QED
    BY <2>1, <2>2, <2>3 DEF OneHolds
<1>3. ASSUME OneHolds(q, i, n - 1, row)
      PROVE  AllHold(q, i, m - 1, row) \/ OneHolds(q, m, n - 1, row)
  <2>1. PICK lo \in i .. n - 1, hi \in i .. n - 1 :
          IsConjunct(q, i, n - 1, lo, hi) /\ AllHold(q, lo, hi, row)
    BY <1>3 DEF OneHolds
  <2>2. CASE lo < m
    <3>1. lo = i
      <4>1. lo # i => lo - 1 \in i .. m - 2
        BY <2>2
      <4> QED
        BY <2>1, <4>1 DEF IsConjunct
    <3>2. hi <= m - 1
      <4>1. hi > m - 1 => m - 1 \in lo .. hi - 1
        BY <2>2
      <4> QED
        BY <2>1, <4>1 DEF IsConjunct
    <3>3. hi = m - 1
      <4>1. hi # m - 1 => hi \in i .. m - 2 /\ hi # n - 1
        BY <3>2
      <4> QED
        BY <2>1, <4>1 DEF IsConjunct
    <3> QED
      BY <2>1, <3>1, <3>3
  <2>3. CASE lo >= m
    <3>1. lo \in m .. n - 1 /\ hi \in m .. n - 1
      BY <2>1, <2>3 DEF IsConjunct
    <3>2. IsConjunct(q, m, n - 1, lo, hi)
      BY <2>1, <2>3 DEF IsConjunct
    <3> QED
      BY <2>1, <3>1, <3>2 DEF OneHolds
  <2> QED
    BY <2>2, <2>3
<1> QED
  BY <1>1, <1>2, <1>3

\* What bool_expr begins with: all comparisons up to the first that no "and"
\* follows.
Beginning(q, i) ==
  LET both == BoolAndExpr(q, i) IN IF both.next # 0 THEN both ELSE Comparison(q, i)

\* It is a conjunction, or a comparison by itself.
LEMMA FirstIs ==
  ASSUME NEW q, IsQuery(q), NEW i \in Positions(q)
  PROVE  LET lhs == Beginning(q, i) IN
         /\ lhs \in Parses(q)
         /\ lhs.next = 0 <=> i \notin DOMAIN q.cmps
         /\ i \in DOMAIN q.cmps =>
              /\ lhs.next \in i + 1 .. Len(q.cmps) + 1
              /\ \A k \in i .. lhs.next - 2 : k \in DOMAIN q.ops /\ q.ops[k] = "and"
              /\ lhs.next \in DOMAIN q.cmps => OperBefore(q, lhs.next) # "and"
              /\ lhs.filter \in FilterSet
              /\ lhs.filter.fields = FieldsFrom(q, i, lhs.next - 1)
              /\ \A row \in Rows :
                   lhs.filter.outcome[row] = "yes" <=> AllHold(q, i, lhs.next - 1, row)
<1> DEFINE n == Len(q.cmps)
           both == BoolAndExpr(q, i)
           lhs == Beginning(q, i)
<1>1. n \in Nat /\ DOMAIN q.cmps = 1 .. n /\ i \in 1 .. n + 1 /\ i \in Nat
  BY QueryIs DEF Positions
<1>2. IsConjunction(q, i, both)
  BY AndParsed
<1>3. CASE both.next # 0
  <2>1. lhs = both
    BY <1>3 DEF Beginning
  <2>2. both.next \in i + 2 .. n + 1 /\ both.filter \in FilterSet
    BY <1>2, <1>3 DEF IsConjunction, Parses, Fails
  <2>3. i \in DOMAIN q.cmps /\ both.next \in i + 1 .. n + 1
    BY <1>1, <2>2
  <2> HIDE DEF lhs, both
  <2>4. /\ both \in Parses(q)
        /\ \A k \in i .. both.next - 2 : k \in DOMAIN q.ops /\ q.ops[k] = "and"
        /\ both.next \in DOMAIN q.cmps => OperBefore(q, both.next) # "and"
        /\ both.filter.fields = FieldsFrom(q, i, both.next - 1)
        /\ \A row \in Rows : both.filter.outcome[row] = "yes" <=> AllHold(q, i, both.next - 1, row)
    BY <1>2, <1>3 DEF IsConjunction
  <2> QED
    BY <1>3, <2>1, <2>2, <2>3, <2>4 DEF lhs
<1>4. CASE both.next = 0
  <2>1. lhs = Comparison(q, i)
    BY <1>4 DEF Beginning
  <2>2. CASE i \notin DOMAIN q.cmps
    BY <1>1, <2>1, <2>2, ComparisonIs
  <2>3. CASE i \in DOMAIN q.cmps
    <3>1. OperBefore(q, i + 1) # "and" \/ i + 1 \notin DOMAIN q.cmps
      BY <1>2, <1>4, <2>3 DEF IsConjunction
    <3>2. /\ lhs \in Parses(q) /\ lhs.next = i + 1
          /\ lhs.filter \in FilterSet /\ lhs.filter.fields = FieldsFrom(q, i, i)
          /\ \A row \in Rows : lhs.filter.outcome[row] = ComparisonOutcome(q.cmps[i], row)
      <4> HIDE DEF lhs
      <4> QED
        BY <1>1, <2>1, <2>3, ComparisonIs
    <3>3. (i + 1) - 1 = i /\ (i + 1) - 2 = i - 1 /\ i + 1 \in i + 1 .. n + 1 /\ i + 1 # 0
      BY <1>1, <2>3
    <3>4. \A k : (k \in i .. i <=> k = i) /\ k \notin i .. i - 1
      BY <1>1
    <3>5. \A row \in Rows : lhs.filter.outcome[row] = "yes" <=> AllHold(q, i, i, row)
      <4> HIDE DEF lhs
      <4> QED
        BY <3>2, <3>4 DEF AllHold
    <3> HIDE DEF lhs, n
    <3> QED
      BY <2>3, <3>1, <3>2, <3>3, <3>4, <3>5 DEF lhs, n
  <2> QED
    BY <2>2, <2>3
<1> QED
  BY <1>3, <1>4

\* What bool_expr returns: a filter of some comparisons that means what they
\* say, of all of them if there is an operator between any two.
IsDisjunction(q, i, r) ==
  /\ r \in Parses(q)
  /\ r.next # 0 =>
       /\ r.next \in i + 1 .. Len(q.cmps) + 1
       /\ \A k \in i .. r.next - 2 : k \in DOMAIN q.ops
       /\ r.filter.fields = FieldsFrom(q, i, r.next - 1)
       /\ \A row \in Rows :
            /\ r.filter.outcome[row] = "yes" => OneHolds(q, i, r.next - 1, row)
            /\ r.filter.outcome[row] = "no" => ~OneHolds(q, i, r.next - 1, row)
  /\ i \in DOMAIN q.cmps /\ Len(q.ops) = Len(q.cmps) - 1 => r.next = Len(q.cmps) + 1

\* bool_expr at a place, in terms of what it begins with.
LEMMA OrResultIs ==
  ASSUME NEW q, IsQuery(q), NEW i \in Positions(q), NEW expr
  PROVE  LET lhs == Beginning(q, i)
             oper == OperBefore(q, lhs.next)
             rhs == IF expr[lhs.next].next # 0 THEN expr[lhs.next] ELSE Comparison(q, lhs.next)
         IN  OrResult(q, i, expr) =
               IF lhs.next = 0 THEN Fails
               ELSE IF oper = "end" THEN lhs
               ELSE IF rhs.next = 0 THEN Fails
               ELSE [filter |-> Combined(IF oper = "and" THEN "all" ELSE "any",
                                         <<lhs.filter, rhs.filter>>), next |-> rhs.next]
<1> DEFINE lhs == Beginning(q, i)
           oper == OperBefore(q, lhs.next)
           rhs == IF expr[lhs.next].next # 0 THEN expr[lhs.next] ELSE Comparison(q, lhs.next)
<1>1. lhs.next = 0 => lhs = Fails
  <2>1. Comparison(q, i).next = 0 => Comparison(q, i) = Fails
    BY QueryIs DEF Positions, Comparison, Fails
  <2> QED
    BY <2>1 DEF Beginning
<1>2. OrResult(q, i, expr) = OperationOn(q, lhs, expr)
  BY DEF OrResult, OrElse, Beginning
<1>3. OrElse(expr[lhs.next], Comparison(q, lhs.next)) = rhs
  BY DEF OrElse
<1> HIDE DEF lhs, rhs
<1>4. OperationOn(q, lhs, expr) =
        IF lhs.next = 0 \/ oper = "end" THEN lhs
        ELSE Joined(IF oper = "and" THEN "all" ELSE "any", lhs, rhs)
  BY <1>3 DEF OperationOn
<1>5. OrResult(q, i, expr) =
        IF lhs.next = 0 THEN Fails
        ELSE IF oper = "end" THEN lhs
        ELSE IF rhs.next = 0 THEN Fails
        ELSE [filter |-> Combined(IF oper = "and" THEN "all" ELSE "any",
                                  <<lhs.filter, rhs.filter>>), next |-> rhs.next]
  BY <1>1, <1>2, <1>4 DEF Joined
<1> QED
  BY <1>5 DEF lhs, rhs

\* bool_expr returns a filter or fails.
LEMMA OrResultTyped ==
  ASSUME NEW q, IsQuery(q), NEW i \in Positions(q), NEW expr,
         \A j \in Positions(q) : j > i => expr[j] \in Parses(q)
  PROVE  OrResult(q, i, expr) \in Parses(q)
<1> DEFINE n == Len(q.cmps)
           lhs == Beginning(q, i)
           rhs == IF expr[lhs.next].next # 0 THEN expr[lhs.next] ELSE Comparison(q, lhs.next)
           oper == OperBefore(q, lhs.next)
           c == Combined(IF oper = "and" THEN "all" ELSE "any", <<lhs.filter, rhs.filter>>)
<1>1. n \in Nat /\ DOMAIN q.cmps = 1 .. n /\ i \in 1 .. n + 1 /\ Positions(q) = 1 .. n + 1
  BY QueryIs DEF Positions
<1>2. CASE i \notin DOMAIN q.cmps
  <2>1. OrResult(q, i, expr) = Fails
    <3>1. lhs.next = 0
      BY <1>2, FirstIs
    <3> QED
      BY <3>1, OrResultIs
  <2> QED
    BY <2>1 DEF Parses
<1>3. CASE i \in DOMAIN q.cmps
  <2>1. lhs.next \in i + 1 .. n + 1 /\ lhs.filter \in FilterSet /\ lhs \in Parses(q)
    BY <1>3, FirstIs
  <2>2. lhs.next \in Positions(q) /\ lhs.next > i /\ lhs.next \in Nat
    BY <1>1, <2>1
  <2>3. rhs \in Parses(q)
    BY <2>2, ComparisonIs
  <2>4. rhs.next # 0 => [filter |-> c, next |-> rhs.next] \in Parses(q)
    <3>1. rhs.next # 0 => rhs.filter \in FilterSet /\ rhs.next \in 1 .. n + 1
      BY <2>3 DEF Parses, Fails
    <3>2. (IF oper = "and" THEN "all" ELSE "any") \in {"all", "any"}
      OBVIOUS
    <3>3. rhs.next # 0 => c \in FilterSet
      <4> HIDE DEF rhs, lhs, oper
      <4> QED
        BY <2>1, <3>1, <3>2, PairIs
    <3> HIDE DEF c, rhs
    <3> QED
      BY <3>1, <3>3 DEF Parses
  <2>5. OrResult(q, i, expr) =
          IF lhs.next = 0 THEN Fails ELSE IF oper = "end" THEN lhs
          ELSE IF rhs.next = 0 THEN Fails ELSE [filter |-> c, next |-> rhs.next]
    BY OrResultIs
  <2>6. Fails \in Parses(q)
    BY DEF Parses
  <2> HIDE DEF c, rhs, lhs, oper
  <2> QED
    BY <2>1, <2>4, <2>5, <2>6
<1> QED
  BY <1>2, <1>3

\* bool_expr at a place, from what it returns at the places behind.
LEMMA OrStep ==
  ASSUME NEW q, IsQuery(q), NEW i \in Positions(q), NEW expr,
         \A j \in Positions(q) : j > i => IsDisjunction(q, j, expr[j])
  PROVE  IsDisjunction(q, i, OrResult(q, i, expr))
<1> DEFINE n == Len(q.cmps)
           lhs == Beginning(q, i)
           m == lhs.next
           rhs == IF expr[m].next # 0 THEN expr[m] ELSE Comparison(q, m)
           oper == OperBefore(q, m)
           c == Combined("any", <<lhs.filter, rhs.filter>>)
           r == OrResult(q, i, expr)
<1>1. n \in Nat /\ DOMAIN q.cmps = 1 .. n /\ i \in 1 .. n + 1 /\ Positions(q) = 1 .. n + 1
  BY QueryIs DEF Positions
<1>2. Len(q.ops) \in Nat /\ DOMAIN q.ops = 1 .. Len(q.ops)
        /\ \A k \in DOMAIN q.ops : q.ops[k] \in {"and", "or"}
  BY QueryIs
<1>3. r \in Parses(q)
  BY OrResultTyped DEF IsDisjunction
<1>4. CASE i \notin DOMAIN q.cmps
  <2>1. r = Fails
    <3>1. lhs.next = 0
      BY <1>4, FirstIs
    <3> QED
      BY <3>1, OrResultIs
  <2> QED
    BY <1>3, <1>4, <2>1 DEF IsDisjunction, Fails
<1>5. CASE i \in DOMAIN q.cmps
  <2>1. /\ m \in i + 1 .. n + 1 /\ m # 0 /\ lhs.filter \in FilterSet /\ lhs \in Parses(q)
        /\ \A k \in i .. m - 2 : k \in DOMAIN q.ops /\ q.ops[k] = "and"
        /\ m \in DOMAIN q.cmps => oper # "and"
        /\ lhs.filter.fields = FieldsFrom(q, i, m - 1)
        /\ \A row \in Rows : lhs.filter.outcome[row] = "yes" <=> AllHold(q, i, m - 1, row)
    BY <1>1, <1>5, FirstIs
  <2>2. r = IF oper = "end" THEN lhs ELSE IF rhs.next = 0 THEN Fails
            ELSE [filter |-> Combined(IF oper = "and" THEN "all" ELSE "any",
                                      <<lhs.filter, rhs.filter>>), next |-> rhs.next]
    BY <2>1, OrResultIs
  <2>3. i \in 1 .. n /\ m \in Positions(q) /\ m > i /\ m \in Nat /\ i \in Nat \ {0}
    BY <1>1, <1>5, <2>1
  <2>4. IsDisjunction(q, m, expr[m])
    BY <2>3
  <2>5. oper # "end" => m - 1 \in DOMAIN q.ops /\ oper = q.ops[m - 1]
    BY DEF OperBefore
  <2>6. oper = "end" => m - 1 \notin DOMAIN q.ops
    BY <1>2 DEF OperBefore
  <2> HIDE DEF lhs, rhs, oper, c, r
  <2>7. CASE oper = "end"
    <3>1. r = lhs
      BY <2>2, <2>7
    <3>2. \A row : OneHolds(q, i, m - 1, row) <=> AllHold(q, i, m - 1, row)
      BY <2>1, <2>3, OneConjunct
    <3>3. Len(q.ops) = n - 1 => m = n + 1
      <4>1. m - 1 \notin 1 .. Len(q.ops) /\ m - 1 \in 1 .. n
        BY <1>1, <1>2, <2>1, <2>3, <2>6, <2>7
      <4> HIDE DEF m, n
      <4> QED
        BY <1>1, <2>3, <4>1
    <3>4. \A row \in Rows : lhs.filter.outcome[row] = "no" => lhs.filter.outcome[row] # "yes"
      OBVIOUS
    <3> QED
      BY <1>3, <2>1, <3>1, <3>2, <3>3, <3>4 DEF IsDisjunction, r
  <2>8. CASE oper # "end" /\ m \notin DOMAIN q.cmps
    <3>1. m = n + 1
      BY <1>1, <2>1, <2>8
    <3>2. expr[m].next = 0
      <4>1. \A k : k \notin m + 1 .. n + 1
        BY <1>1, <3>1
      <4> QED
        BY <2>4, <4>1 DEF IsDisjunction
    <3>3. rhs.next = 0
      <4>1. rhs = Comparison(q, m)
        BY <3>2 DEF rhs
      <4> QED
        BY <2>3, <2>8, <4>1, <1>1, ComparisonIs
    <3>4. r = Fails
      BY <2>2, <2>8, <3>3
    <3>5. Len(q.ops) # n - 1
      <4>1. n \in 1 .. Len(q.ops)
        <5>1. m - 1 = n
          BY <1>1, <3>1
        <5> QED
          BY <1>2, <2>5, <2>8, <5>1
      <4> HIDE DEF n
      <4> QED
        BY <1>1, <1>2, <4>1
    <3> QED
      BY <1>3, <3>4, <3>5 DEF IsDisjunction, Fails, r
  <2>9. CASE oper # "end" /\ m \in DOMAIN q.cmps
    <3>1. oper = "or" /\ m - 1 \in DOMAIN q.ops /\ q.ops[m - 1] = "or" /\ m \in 1 .. n
      BY <1>1, <1>2, <2>1, <2>5, <2>9
    <3>2. /\ rhs.next \in m + 1 .. n + 1 /\ rhs.filter \in FilterSet
          /\ \A k \in m .. rhs.next - 2 : k \in DOMAIN q.ops
          /\ rhs.filter.fields = FieldsFrom(q, m, rhs.next - 1)
          /\ \A row \in Rows :
               /\ rhs.filter.outcome[row] = "yes" => OneHolds(q, m, rhs.next - 1, row)
               /\ rhs.filter.outcome[row] = "no" => ~OneHolds(q, m, rhs.next - 1, row)
          /\ Len(q.ops) = n - 1 => rhs.next = n + 1
      <4>1. CASE expr[m].next # 0
        <5>1. rhs = expr[m] /\ rhs.next # 0
          BY <4>1 DEF rhs
        <5>2. rhs.filter \in FilterSet
          BY <2>4, <5>1 DEF IsDisjunction, Parses, Fails
        <5> QED
          BY <2>4, <2>9, <5>1, <5>2 DEF IsDisjunction
      <4>2. CASE expr[m].next = 0
        <5>1. rhs = Comparison(q, m)
          BY <4>2 DEF rhs
        <5>2. /\ rhs.next = m + 1 /\ rhs.filter \in FilterSet
              /\ rhs.filter.fields = FieldsFrom(q, m, m)
              /\ \A row \in Rows : rhs.filter.outcome[row] = ComparisonOutcome(q.cmps[m], row)
          <6> HIDE DEF m
          <6>1. rhs = [filter |-> ComparisonFilter(q.cmps[m]), next |-> m + 1]
            BY <2>3, <3>1, <5>1, ComparisonIs
          <6>2. /\ rhs.filter \in FilterSet
                /\ rhs.filter.fields = FieldsFrom(q, m, m)
                /\ \A row \in Rows : rhs.filter.outcome[row] = ComparisonOutcome(q.cmps[m], row)
            BY <2>3, <3>1, <5>1, ComparisonIs
          <6> QED
            BY <6>1, <6>2
        <5>3. /\ (m + 1) - 1 = m /\ m + 1 \in m + 1 .. n + 1
              /\ \A k : k \notin m .. (m + 1) - 2
              /\ \A k : k \in m .. m <=> k = m
              /\ m \in Nat \ {0} /\ m + 1 \in Nat /\ m < m + 1
          <6> HIDE DEF m, n
          <6> QED
            BY <1>1, <3>1
        <5> HIDE DEF m, n
        <5>4. \A row : OneHolds(q, m, m, row) <=> AllHold(q, m, m, row)
          BY <5>3, OneAlone
        <5>5. \A row \in Rows : rhs.filter.outcome[row] = "yes" <=> AllHold(q, m, m, row)
          BY <5>2, <5>3 DEF AllHold
        <5>6. Len(q.ops) # n - 1 \/ rhs.next = n + 1
          <6>1. Len(q.ops) = n - 1 => expr[m].next = n + 1
            BY <2>4, <2>9 DEF IsDisjunction, n
          <6> QED
            BY <1>1, <4>2, <6>1
        <5> QED
          BY <5>2, <5>3, <5>4, <5>5, <5>6
      <4> QED
        BY <4>1, <4>2
    <3>3. rhs.next # 0 /\ rhs.next \in Nat /\ m < rhs.next
      BY <1>1, <2>3, <3>2
    <3>4. r = [filter |-> c, next |-> rhs.next]
      BY <2>2, <2>9, <3>1, <3>3 DEF c
    <3>5. /\ c.fields = lhs.filter.fields \cup rhs.filter.fields
          /\ \A row \in Rows :
               /\ c.outcome[row] = "no" <=> lhs.filter.outcome[row] = "no" /\ rhs.filter.outcome[row] = "no"
               /\ c.outcome[row] = "yes" => lhs.filter.outcome[row] = "yes" \/ rhs.filter.outcome[row] = "yes"
      BY <2>1, <3>2, PairIs DEF c
    <3>6. \A row : OneHolds(q, i, rhs.next - 1, row) <=>
                     AllHold(q, i, m - 1, row) \/ OneHolds(q, m, rhs.next - 1, row)
      BY <2>1, <2>3, <3>1, <3>3, MoreConjuncts
    <3>7. FieldsFrom(q, i, rhs.next - 1) = FieldsFrom(q, i, m - 1) \cup FieldsFrom(q, m, rhs.next - 1)
      <4>1. m - 1 \in Nat /\ i <= (m - 1) + 1 /\ m - 1 <= rhs.next - 1 /\ (m - 1) + 1 = m
              /\ rhs.next - 1 \in Nat
        <5> HIDE DEF m
        <5> QED
          BY <2>3, <3>3
      <4> HIDE DEF m
      <4>2. FieldsFrom(q, i, rhs.next - 1)
              = FieldsFrom(q, i, m - 1) \cup FieldsFrom(q, (m - 1) + 1, rhs.next - 1)
        <5> DEFINE mid == m - 1
                   hi == rhs.next - 1
        <5>1. mid \in Nat /\ hi \in Nat /\ i \in Nat /\ i <= mid + 1 /\ mid <= hi
          BY <2>3, <4>1
        <5> HIDE DEF mid, hi
        <5>2. FieldsFrom(q, i, hi) = FieldsFrom(q, i, mid) \cup FieldsFrom(q, mid + 1, hi)
          BY <5>1, FromTo
        <5> QED
          BY <5>2 DEF mid, hi
      <4> QED
        BY <4>1, <4>2
    <3>8. \A row \in Rows :
            /\ c.outcome[row] = "yes" => OneHolds(q, i, rhs.next - 1, row)
            /\ c.outcome[row] = "no" => ~OneHolds(q, i, rhs.next - 1, row)
      <4> SUFFICES ASSUME NEW row \in Rows
                   PROVE  /\ c.outcome[row] = "yes" => OneHolds(q, i, rhs.next - 1, row)
                          /\ c.outcome[row] = "no" => ~OneHolds(q, i, rhs.next - 1, row)
        OBVIOUS
      <4>1. lhs.filter.outcome[row] = "no" => ~AllHold(q, i, m - 1, row)
        BY <2>1
      <4>2. lhs.filter.outcome[row] = "yes" => AllHold(q, i, m - 1, row)
        BY <2>1
      <4> QED
        BY <3>2, <3>5, <3>6, <4>1, <4>2
    <3>9. \A k \in i .. rhs.next - 2 : k \in DOMAIN q.ops
      <4>1. \A k \in i .. rhs.next - 2 : k \in i .. m - 2 \/ k = m - 1 \/ k \in m .. rhs.next - 2
        <5> HIDE DEF m
        <5> QED
          BY <2>3, <3>3
      <4> QED
        BY <2>1, <3>1, <3>2, <4>1
    <3>10. rhs.next \in i + 1 .. n + 1
      BY <1>1, <2>3, <3>2
    <3> HIDE DEF c, m, n
    <3>11. r.next = rhs.next /\ r.filter = c
      BY <3>4
    <3>12. c.fields = FieldsFrom(q, i, rhs.next - 1)
      BY <2>1, <3>2, <3>5, <3>7
    <3>13. IsDisjunction(q, i, r)
      BY <1>3, <3>2, <3>8, <3>9, <3>10, <3>11, <3>12 DEF IsDisjunction, n
    <3> QED
      BY <3>13 DEF r
  <2> QED
    BY <2>7, <2>8, <2>9
<1> QED
  BY <1>4, <1>5

\* bool_expr at a place depends on those behind it only.
LEMMA OrDepends ==
  ASSUME NEW q, IsQuery(q), NEW i \in Positions(q), NEW f, NEW g,
         \A j \in Positions(q) : j > i => f[j] = g[j]
  PROVE  OrResult(q, i, f) = OrResult(q, i, g)
<1> DEFINE lhs == Beginning(q, i)
           Rest(h) == IF h[lhs.next].next # 0 THEN h[lhs.next] ELSE Comparison(q, lhs.next)
           Result(rhs) ==
             IF OperBefore(q, lhs.next) = "end" THEN lhs
             ELSE IF rhs.next = 0 THEN Fails
             ELSE [filter |-> Combined(IF OperBefore(q, lhs.next) = "and" THEN "all" ELSE "any",
                                       <<lhs.filter, rhs.filter>>), next |-> rhs.next]
<1>1. OrResult(q, i, f) = IF lhs.next = 0 THEN Fails ELSE Result(Rest(f))
  BY OrResultIs
<1>2. OrResult(q, i, g) = IF lhs.next = 0 THEN Fails ELSE Result(Rest(g))
  BY OrResultIs
<1>3. lhs.next # 0 => lhs.next \in Positions(q) /\ lhs.next > i
  <2>1. Len(q.cmps) \in Nat /\ i \in Nat
    BY QueryIs DEF Positions
  <2>2. lhs.next # 0 => lhs.next \in i + 1 .. Len(q.cmps) + 1
    BY FirstIs
  <2> HIDE DEF lhs
  <2> QED
    BY <2>1, <2>2 DEF Positions
<1>4. lhs.next # 0 => Rest(f) = Rest(g)
  <2>1. lhs.next # 0 => f[lhs.next] = g[lhs.next]
    BY <1>3
  <2> HIDE DEF lhs
  <2> QED
    BY <2>1
<1> HIDE DEF Rest, Result, lhs
<1> QED
  BY <1>1, <1>2, <1>4

\* bool_expr: a disjunction from any place.
LEMMA OrParsed ==
  ASSUME NEW q, IsQuery(q), NEW at \in Positions(q)
  PROVE  IsDisjunction(q, at, BoolExpr(q, at))
<1> DEFINE D == Positions(q)
           V == Parses(q)
           n == Len(q.cmps) + 1
           IsExpr(f) == f = [i \in D |-> OrResult(q, i, f)]
           expr == CHOOSE f : IsExpr(f)
           step == [i \in D |-> [f \in [D -> V] |-> OrResult(q, i, f)]]
           rank == [i \in D |-> n - i]
<1>1. n \in Nat /\ D = 1 .. n
  BY QueryIs DEF Positions
<1>2. \E f \in [D -> V] : \A i \in D : f[i] = step[i][f]
  <2>1. V # {} /\ rank \in [D -> Nat] /\ \A i \in D : rank[i] <= n
    BY <1>1 DEF Parses
  <2>2. \A i \in D : \A f \in [D -> V] : OrResult(q, i, f) \in V
    BY OrResultTyped
  <2>3. step \in [D -> [[D -> V] -> V]]
    <3> HIDE DEF D, V
    <3> QED
      BY <2>2
  <2>4. \A i \in D : \A f, g \in [D -> V] :
          (\A e \in D : rank[e] < rank[i] => f[e] = g[e]) => step[i][f] = step[i][g]
    <3> SUFFICES ASSUME NEW i \in D, NEW f \in [D -> V], NEW g \in [D -> V],
                        \A e \in D : rank[e] < rank[i] => f[e] = g[e]
                 PROVE  OrResult(q, i, f) = OrResult(q, i, g)
      OBVIOUS
    <3>1. \A e \in D : e > i => rank[e] < rank[i]
      BY <1>1
    <3>2. \A e \in D : e > i => f[e] = g[e]
      BY <3>1
    <3> QED
      BY <3>2, OrDepends
  <2> HIDE DEF D, V, step, rank, n
  <2>5. Ranked(D, V, n, rank, step)
    BY <1>1, <2>1, <2>3, <2>4 DEF Ranked
  <2> QED
    BY <2>5, Recursion
<1>3. IsExpr(expr)
  <2> HIDE DEF D, V
  <2>1. PICK f \in [D -> V] : \A i \in D : f[i] = OrResult(q, i, f)
    BY <1>2
  <2>2. IsExpr(f)
    BY <2>1
  <2> HIDE DEF IsExpr
  <2> QED
    BY <2>2
<1>4. BoolExpr(q, at) = expr[at]
  BY DEF BoolExpr
<1> HIDE DEF expr
<1>5. \A i \in D : expr[i] = OrResult(q, i, expr)
  <2> HIDE DEF D
  <2> QED
    BY <1>3
<1> DEFINE T == {i \in D : IsDisjunction(q, i, expr[i])}
<1>6. ASSUME NEW i \in 1 .. n, \A j \in 1 .. n : j > i => j \in T
      PROVE  i \in T
  <2>1. i \in D /\ \A j \in D : j > i => IsDisjunction(q, j, expr[j])
    BY <1>1, <1>6
  <2>2. IsDisjunction(q, i, OrResult(q, i, expr))
    BY <2>1, OrStep
  <2> HIDE DEF D
  <2> QED
    BY <1>5, <2>1, <2>2
<1>7. \A i \in 1 .. n : i \in T
  <2> HIDE DEF T, n
  <2> QED
    BY <1>1, <1>6, FromTheEnd
<1> QED
  BY <1>1, <1>4, <1>7

\* A query is parsed if it is an expression, and then selects the rows that it
\* means, unless its filter raises.
LEMMA ParseQueryIs ==
  ASSUME NEW q, IsQuery(q)
  PROVE  LET p == ParseQuery(q) IN
         /\ p.next # 0 <=> IsExpression(q)
         /\ p.next # 0 =>
              /\ p.filter \in FilterSet
              /\ p.filter.fields = FieldsFrom(q, 1, Len(q.cmps))
              /\ \A row \in Rows :
                   /\ p.filter.outcome[row] = "yes" => Selects(q, row)
                   /\ p.filter.outcome[row] = "no" => ~Selects(q, row)
<1> DEFINE n == Len(q.cmps)
           expr == BoolExpr(q, 1)
           parsed == IF expr.next # 0 THEN expr ELSE Comparison(q, 1)
           p == ParseQuery(q)
<1>1. n \in Nat /\ DOMAIN q.cmps = 1 .. n /\ 1 \in Positions(q) /\ Len(q.ops) \in Nat
        /\ DOMAIN q.ops = 1 .. Len(q.ops) /\ (n = 0 <=> q.cmps = <<>>)
  <2>1. q.cmps \in Seq(Range(q.cmps))
    BY DEF IsQuery, IsSeq
  <2> QED
    BY <2>1, QueryIs, EmptySeq DEF Positions
<1>2. IsDisjunction(q, 1, expr)
  BY <1>1, OrParsed
<1>3. p = IF parsed.next = n + 1 /\ OperBefore(q, parsed.next) = "end" THEN parsed ELSE Fails
  BY DEF ParseQuery, Strictly, OrElse
<1>4. \A row : OneHolds(q, 1, n, row) <=> Selects(q, row)
  BY <1>1 DEF OneHolds, Selects, IsConjunct, Disjunct, AllHold
<1>5. IsDisjunction(q, 1, parsed)
  <2>1. CASE expr.next # 0
    BY <1>2, <2>1
  <2>2. CASE expr.next = 0 /\ 1 \notin 1 .. n
    <3>1. parsed \in Parses(q) /\ parsed.next = 0
      BY <1>1, <2>2, ComparisonIs
    <3> HIDE DEF parsed
    <3> QED
      BY <1>1, <2>2, <3>1 DEF IsDisjunction
  <2>3. CASE expr.next = 0 /\ 1 \in 1 .. n
    <3>1. /\ parsed = [filter |-> ComparisonFilter(q.cmps[1]), next |-> 1 + 1]
          /\ parsed \in Parses(q) /\ parsed.filter.fields = FieldsFrom(q, 1, 1)
          /\ \A row \in Rows : parsed.filter.outcome[row] = ComparisonOutcome(q.cmps[1], row)
      BY <2>3, ComparisonIs
    <3> HIDE DEF parsed
    <3>2. parsed.next = 2 /\ 2 - 1 = 1 /\ 2 \in 1 + 1 .. n + 1
      BY <1>1, <2>3, <3>1
    <3>3. (\A k : k \notin 1 .. 2 - 2) /\ \A k : k \in 1 .. 1 <=> k = 1
      OBVIOUS
    <3>4. \A row : OneHolds(q, 1, 1, row) <=> AllHold(q, 1, 1, row)
      BY OneAlone
    <3>5. \A row \in Rows : parsed.filter.outcome[row] = "yes" <=> OneHolds(q, 1, 1, row)
      BY <3>1, <3>3, <3>4 DEF AllHold
    <3>6. ~(1 \in DOMAIN q.cmps /\ Len(q.ops) = n - 1)
      <4>1. 1 \in DOMAIN q.cmps /\ Len(q.ops) = n - 1 => expr.next = n + 1
        BY <1>2 DEF IsDisjunction
      <4> QED
        BY <1>1, <2>3, <4>1
    <3> HIDE DEF n
    <3> QED
      BY <3>1, <3>2, <3>3, <3>5, <3>6 DEF IsDisjunction, n
  <2> QED
    BY <1>1, <2>1, <2>2, <2>3
<1> HIDE DEF expr, parsed, p
<1>6. ASSUME parsed.next = n + 1
      PROVE  /\ 1 \in 1 .. n
             /\ \A k \in 1 .. n - 1 : k \in DOMAIN q.ops
             /\ OperBefore(q, n + 1) = "end" <=> n \notin DOMAIN q.ops
             /\ parsed.filter \in FilterSet
             /\ parsed.filter.fields = FieldsFrom(q, 1, n)
             /\ \A row \in Rows :
                  /\ parsed.filter.outcome[row] = "yes" => OneHolds(q, 1, n, row)
                  /\ parsed.filter.outcome[row] = "no" => ~OneHolds(q, 1, n, row)
  <2>1. n + 1 # 0 /\ (n + 1) - 1 = n /\ (n + 1) - 2 = n - 1
    BY <1>1
  <2>2. n + 1 \in 1 + 1 .. n + 1
    BY <1>5, <1>6, <2>1 DEF IsDisjunction
  <2>3. 1 \in 1 .. n
    BY <1>1, <2>2
  <2>4. parsed.filter \in FilterSet
    BY <1>5, <1>6, <2>1 DEF IsDisjunction, Parses, Fails
  <2>5. OperBefore(q, n + 1) = "end" <=> n \notin DOMAIN q.ops
    <3>1. \A k \in DOMAIN q.ops : q.ops[k] # "end"
      BY QueryIs
    <3> QED
      BY <2>1, <3>1 DEF OperBefore
  <2> HIDE DEF n
  <2> QED
    BY <1>5, <1>6, <2>1, <2>3, <2>4, <2>5 DEF IsDisjunction
<1>7. ASSUME IsExpression(q)
      PROVE  p.next # 0
  <2>1. 1 \in DOMAIN q.cmps /\ Len(q.ops) = n - 1
    BY <1>1, <1>7 DEF IsExpression
  <2>2. parsed.next = n + 1
    BY <1>5, <2>1 DEF IsDisjunction
  <2>3. n \notin DOMAIN q.ops
    BY <1>1, <2>1
  <2> QED
    BY <1>1, <1>3, <1>6, <2>2, <2>3
<1>8. ASSUME p.next # 0
      PROVE  p = parsed /\ parsed.next = n + 1 /\ IsExpression(q)
  <2>1. p = parsed /\ parsed.next = n + 1 /\ OperBefore(q, n + 1) = "end"
    BY <1>3, <1>8 DEF Fails
  <2>2. n \notin 1 .. Len(q.ops) /\ n \in 1 .. n /\ \A k \in 1 .. n - 1 : k \in 1 .. Len(q.ops)
    BY <1>1, <1>6, <2>1
  <2>3. Len(q.ops) = n - 1
    <3>1. n \in Nat /\ Len(q.ops) \in Nat
      BY <1>1
    <3> HIDE DEF n
    <3>2. n - 1 \in 1 .. n - 1 \/ n = 1
      BY <2>2, <3>1
    <3> QED
      BY <2>2, <3>1, <3>2
  <2> QED
    BY <1>1, <2>1, <2>2, <2>3 DEF IsExpression
<1> QED
  BY <1>4, <1>6, <1>7, <1>8 DEF p

\* Queries and functions that may be given, and that a row meets all of them.
IsRequest(queries, fns) ==
  /\ IsSeq(queries) /\ \A q \in Range(queries) : IsQuery(q)
  /\ IsSeq(fns) /\ \A fn \in Range(fns) : fn.field \in Range(Headings)

Meets(queries, fns, row) ==
  /\ \A i \in DOMAIN queries : Selects(queries[i], row)
  /\ \A i \in DOMAIN fns : row[fns[i].field] \in fns[i].kept

\* There is a filter if all queries are expressions, and it selects the rows
\* that they and the functions mean, unless it raises.
LEMMA ParseQueriesIs ==
  ASSUME NEW queries, NEW fns, IsRequest(queries, fns)
  PROVE  LET f == ParseQueries(queries, fns) IN
         /\ f = <<>> <=> \E i \in DOMAIN queries : ~IsExpression(queries[i])
         /\ f # <<>> =>
              /\ f = <<f[1]>> /\ f[1] \in FilterSet
              /\ \A i \in DOMAIN queries :
                   FieldsFrom(queries[i], 1, Len(queries[i].cmps)) \subseteq f[1].fields
              /\ \A row \in Rows :
                   /\ f[1].outcome[row] = "yes" => Meets(queries, fns, row)
                   /\ f[1].outcome[row] = "no" => ~Meets(queries, fns, row)
<1> DEFINE a == Len(queries)
           b == Len(fns)
           parsed == [i \in DOMAIN queries |-> ParseQuery(queries[i])]
           filters == [i \in DOMAIN queries |-> parsed[i].filter]
           given == [i \in DOMAIN fns |-> CustomFilter(fns[i])]
           all == filters \o given
           f == ParseQueries(queries, fns)
           Wrong == \E i \in DOMAIN queries : ~IsExpression(queries[i])
<1>1. a \in Nat /\ b \in Nat /\ DOMAIN queries = 1 .. a /\ DOMAIN fns = 1 .. b
  BY DEF IsRequest, IsSeq
<1>2. \A i \in DOMAIN queries : IsQuery(queries[i])
  BY DEF IsRequest, Range
<1>3. \A i \in DOMAIN fns : fns[i].field \in Range(Headings)
  BY DEF IsRequest, Range
<1>4. \A i \in DOMAIN queries : parsed[i].next = 0 <=> ~IsExpression(queries[i])
  BY <1>2, ParseQueryIs
<1>5. f = IF \E i \in DOMAIN queries : parsed[i].next = 0 THEN <<>>
          ELSE IF Len(all) = 1 THEN all ELSE <<Combined("all", all)>>
  BY DEF ParseQueries
<1>6. CASE Wrong
  <2>1. f = <<>>
    BY <1>4, <1>5, <1>6
  <2> QED
    BY <1>6, <2>1
<1>7. CASE ~Wrong
  <2>1. \A i \in 1 .. a :
          /\ filters[i] \in FilterSet
          /\ filters[i].fields = FieldsFrom(queries[i], 1, Len(queries[i].cmps))
          /\ \A row \in Rows :
               /\ filters[i].outcome[row] = "yes" => Selects(queries[i], row)
               /\ filters[i].outcome[row] = "no" => ~Selects(queries[i], row)
    BY <1>1, <1>2, <1>7, ParseQueryIs
  <2>2. \A i \in 1 .. b :
          /\ given[i] \in FilterSet
          /\ \A row \in Rows :
               /\ given[i].outcome[row] = "yes" => row[fns[i].field] \in fns[i].kept
               /\ given[i].outcome[row] = "no" => ~(row[fns[i].field] \in fns[i].kept)
    BY <1>1, <1>3, CustomFilterIs
  <2>3. filters \in Seq(FilterSet) /\ Len(filters) = a
    <3>1. filters \in [1 .. a -> FilterSet]
      <4>1. filters = [i \in 1 .. a |-> filters[i]]
        BY <1>1
      <4> HIDE DEF filters, a
      <4> QED
        BY <2>1, <4>1
    <3> HIDE DEF filters, a
    <3> QED
      BY <1>1, <3>1, SeqDef, LenProperties
  <2>4. given \in Seq(FilterSet) /\ Len(given) = b
    <3>1. given \in [1 .. b -> FilterSet]
      <4>1. given = [i \in 1 .. b |-> given[i]]
        BY <1>1
      <4> HIDE DEF given, b
      <4> QED
        BY <2>2, <4>1
    <3> HIDE DEF given, b
    <3> QED
      BY <1>1, <3>1, SeqDef, LenProperties
  <2> HIDE DEF filters, given, a, b
  <2>5. /\ all \in [1 .. a + b -> FilterSet] /\ Len(all) = a + b /\ a + b \in Nat
        /\ \A i \in 1 .. a + b : all[i] = IF i <= a THEN filters[i] ELSE given[i - a]
    <3>1. /\ all \in Seq(FilterSet) /\ Len(all) = a + b
          /\ \A i \in 1 .. a + b : all[i] = IF i <= a THEN filters[i] ELSE given[i - a]
      BY <2>3, <2>4, ConcatProperties
    <3> HIDE DEF all
    <3> QED
      BY <1>1, <3>1, LenProperties
  <2> HIDE DEF all
  <2>6. (\A i \in 1 .. a : i \in 1 .. a + b /\ i <= a) /\ a + b \in Nat
          /\ \A i \in 1 .. b : a + i \in 1 .. a + b /\ ~(a + i <= a) /\ (a + i) - a = i
    BY <1>1
  <2>7. (\A i \in 1 .. a : all[i] = filters[i]) /\ \A i \in 1 .. b : all[a + i] = given[i]
    BY <2>5, <2>6
  <2>8. \A i \in 1 .. a + b :
          (i \in 1 .. a /\ all[i] = filters[i]) \/ (i - a \in 1 .. b /\ all[i] = given[i - a])
    BY <1>1, <2>5
  <2>9. ASSUME NEW row \in Rows
        PROVE  /\ (\A i \in 1 .. a + b : all[i].outcome[row] = "yes") => Meets(queries, fns, row)
               /\ (\E i \in 1 .. a + b : all[i].outcome[row] = "no") => ~Meets(queries, fns, row)
    <3>1. ASSUME \A i \in 1 .. a + b : all[i].outcome[row] = "yes"
          PROVE  Meets(queries, fns, row)
      BY <1>1, <2>1, <2>2, <2>6, <2>7, <3>1 DEF Meets, a, b
    <3>2. ASSUME NEW i \in 1 .. a + b, all[i].outcome[row] = "no"
          PROVE  ~Meets(queries, fns, row)
      BY <1>1, <2>1, <2>2, <2>8, <3>2 DEF Meets, a, b
    <3> QED
      BY <3>1, <3>2
  <2>10. f = IF Len(all) = 1 THEN all ELSE <<Combined("all", all)>>
    <3>1. ~(\E i \in DOMAIN queries : parsed[i].next = 0)
      BY <1>4, <1>7
    <3> HIDE DEF parsed
    <3> QED
      BY <1>5, <3>1
  <2> HIDE DEF f, Wrong
  <2>11. /\ f = <<f[1]>> /\ f # <<>> /\ f[1] \in FilterSet
         /\ f[1].fields = UNION {all[i].fields : i \in 1 .. a + b}
         /\ \A row \in Rows :
              /\ f[1].outcome[row] = "yes" => \A i \in 1 .. a + b : all[i].outcome[row] = "yes"
              /\ f[1].outcome[row] = "no" => \E i \in 1 .. a + b : all[i].outcome[row] = "no"
    <3>1. CASE a + b = 1
      <4>1. f = all /\ all \in [1 .. 1 -> FilterSet]
        BY <2>5, <2>10, <3>1
      <4>2. \A i : i \in 1 .. 1 <=> i = 1
        OBVIOUS
      <4>3. f = <<f[1]>> /\ f[1] \in FilterSet /\ f # <<>>
        BY <4>1, <4>2
      <4>4. UNION {all[i].fields : i \in 1 .. 1} = all[1].fields
        BY <4>2
      <4> QED
        BY <3>1, <4>1, <4>2, <4>3, <4>4
    <3>2. CASE a + b # 1
      <4>1. f = <<Combined("all", all)>>
        BY <2>5, <2>10, <3>2
      <4>2. f = <<f[1]>> /\ f # <<>> /\ f[1] = Combined("all", all)
        BY <4>1
      <4>3. /\ Combined("all", all) \in FilterSet
            /\ Combined("all", all).fields = UNION {all[i].fields : i \in 1 .. a + b}
            /\ \A row \in Rows : LET out == Combined("all", all).outcome[row] IN
                 /\ out = "yes" <=> \A i \in 1 .. a + b : all[i].outcome[row] = "yes"
                 /\ out = "no" => \E i \in 1 .. a + b : all[i].outcome[row] = "no"
        BY <2>5, CombinedIs
      <4> QED
        BY <4>2, <4>3
    <3> QED
      BY <3>1, <3>2
  <2>12. \A i \in DOMAIN queries :
           FieldsFrom(queries[i], 1, Len(queries[i].cmps)) \subseteq f[1].fields
    <3> SUFFICES ASSUME NEW i \in 1 .. a
                 PROVE  FieldsFrom(queries[i], 1, Len(queries[i].cmps)) \subseteq f[1].fields
      BY <1>1 DEF a
    <3>1. all[i].fields = FieldsFrom(queries[i], 1, Len(queries[i].cmps)) /\ i \in 1 .. a + b
      BY <2>1, <2>6, <2>7
    <3> QED
      BY <2>11, <3>1
  <2> QED
    BY <1>7, <2>9, <2>11, <2>12 DEF f, Wrong
<1> QED
  BY <1>6, <1>7

-----------------------------------------------------------------------------
(* The report: its rows and columns.                                       *)

\* The entries at these places, by what they are.
LEMMA AtPlacesIn ==
  ASSUME NEW seq, NEW n \in Nat, NEW places \in SUBSET (1 .. n), NEW S,
         \A i \in places : seq[i] \in S
  PROVE  AtPlaces(seq, places) \in Seq(S)
<1>1. \A T : (\A i \in places : seq[i] \in T) => AtPlaces(seq, places) \in Seq(T)
  BY AtPlacesAre
<1> QED
  BY <1>1

\* The headings displayed are headings.
LEMMA DisplayedIs ==
  ASSUME NEW fields, IsSeq(fields), \A f \in Range(fields) : IsSeq(f)
  PROVE  Displayed(fields) \in Seq(Range(Headings))
<1> DEFINE h == [i \in DOMAIN fields |-> MatchQueryKey(fields[i])]
           places == {i \in DOMAIN h : h[i] # NoHeading /\ \A j \in 1 .. i - 1 : h[j] # h[i]}
<1>1. Len(fields) \in Nat /\ DOMAIN fields = 1 .. Len(fields)
  BY DEF IsSeq
<1>2. places \in SUBSET (1 .. Len(fields))
  BY <1>1
<1>3. \A i \in DOMAIN fields : IsSeq(fields[i])
  BY DEF Range
<1>4. \A i \in places : h[i] \in Range(Headings)
  BY <1>3, MatchQueryKeyIs
<1>5. Displayed(fields) = AtPlaces(h, places)
  BY DEF Displayed
<1> HIDE DEF h, places
<1> QED
  BY <1>1, <1>2, <1>4, <1>5, AtPlacesIn

\* What commands add at a time.
Batches == UNION {Range(t) : t \in Tables}

\* The rows of a batch that can be converted are rows.
LEMMA BatchIs ==
  ASSUME NEW batch \in Batches
  PROVE  /\ IsSeq(batch)
         /\ \A i \in DOMAIN batch : Converts(batch[i]) => Converted(batch[i]) \in Rows
<1>1. PICK t \in Tables : batch \in Range(t)
  BY DEF Batches
<1>2. IsSeq(batch)
  BY <1>1, TablesAssumption
<1>3. \A i \in DOMAIN batch : batch[i] \in RawRows
  <2>1. \A i \in DOMAIN batch : batch[i] \in Range(batch)
    BY DEF Range
  <2> QED
    BY <1>1, <2>1 DEF RawRows
<1> QED
  BY <1>2, <1>3 DEF Rows

\* What __init__ makes of the options, from then on.
Prepared ==
  /\ Understood
  /\ filter_fn = IF Filtering THEN ParseQueries(request.filters, request.fns) ELSE <<>>
  /\ FieldsOf(filter_fn) \subseteq force_columns
  /\ display_headings \in Seq(Range(Headings))

\* The inductive invariant: nothing is shown before the end, and then what is
\* wanted.
ReportInv ==
  /\ ReportTypeOK
  /\ request \in Requests
  /\ table \in Seq(Batches)
  /\ rows \in Seq(Rows)
  /\ reportPc \notin {"create", "exit"} => Prepared
  /\ reportPc # "printed" => headings_shown = <<>> /\ rows_shown = <<>>
  /\ ReportIsFiltered

\* The options of a report.
LEMMA RequestIs ==
  ASSUME request \in Requests
  PROVE  IsRequest(request.filters, request.fns)
  BY RequestsAssumption DEF IsRequest

\* Every row has a value for each heading.
LEMMA RowsAre ==
  ASSUME NEW row \in Rows
  PROVE  DOMAIN row = Range(Headings)
  BY DEF Rows, Converted

\* Nothing is filtered or shown at first.
LEMMA ReportInvInit == Init => ReportInv
<1> SUFFICES ASSUME Init
             PROVE  ReportInv
  OBVIOUS
<1>1. ReportInit(tool = "report")
  BY DEF Init
<1>2. request \in Requests /\ table \in Tables
  BY <1>1, GivenAre, RequestsAssumption, TablesAssumption DEF ReportInit
<1>3. table \in Seq(Batches)
  <2>1. table \in Seq(Range(table)) /\ \A x \in Range(table) : x \in Batches
    BY <1>2, TablesAssumption DEF IsSeq, Batches
  <2> QED
    BY <2>1
<1>4. /\ reportPc = "create" /\ filter_fn = <<>> /\ sort_by = NoHeading
      /\ display_headings = <<>> /\ force_columns = {} /\ rows = <<>>
      /\ headings_shown = <<>> /\ rows_shown = <<>>
  BY <1>1 DEF ReportInit
<1>5. ReportTypeOK
  BY <1>4 DEF ReportTypeOK, Range
<1> QED
  BY <1>2, <1>3, <1>4, <1>5 DEF ReportInv, ReportIsFiltered

\* The report is sorted by a heading, or not at all.
LEMMA SortKeyIs ==
  ASSUME request \in Requests
  PROVE  SortKey(request.sort_by) \in Range(Headings) \cup {NoHeading}
<1> DEFINE by == request.sort_by
           n == Len(Headings)
<1>1. n \in Nat /\ DOMAIN Headings = 1 .. n
  BY HeadingsAssumption DEF IsSeq
<1>2. by.kind = "name" => IsSeq(by.name)
  BY RequestsAssumption
<1>3. by.kind = "place" => by.place \in Int
  BY RequestsAssumption
<1>4. by.kind = "name" => MatchQueryKey(by.name) \in Range(Headings) \cup {NoHeading}
  BY <1>2, MatchQueryKeyIs
<1>5. \A i \in 1 .. n : Headings[i] \in Range(Headings)
  BY <1>1 DEF Range
<1>6. by.kind = "place" /\ by.place \in 0 .. n - 1 => Headings[by.place + 1] \in Range(Headings)
  <2>1. by.place \in 0 .. n - 1 => by.place + 1 \in 1 .. n
    BY <1>1
  <2> HIDE DEF n, by
  <2> QED
    BY <1>5, <2>1
<1>7. by.kind = "place" /\ by.place \in -n .. -1 => Headings[n + 1 + by.place] \in Range(Headings)
  <2>1. by.place \in -n .. -1 => n + 1 + by.place \in 1 .. n
    BY <1>1
  <2> HIDE DEF n, by
  <2> QED
    BY <1>5, <2>1
<1>8. SortKey(by) = CASE by.kind = "none" -> NoHeading
                      [] by.kind = "name" -> MatchQueryKey(by.name)
                      [] by.kind = "place" /\ by.place \in 0 .. n - 1 -> Headings[by.place + 1]
                      [] by.kind = "place" /\ by.place \in -n .. -1 -> Headings[n + 1 + by.place]
                      [] OTHER -> NoHeading
  BY DEF SortKey
<1> HIDE DEF by, n
<1>9. \/ SortKey(by) = NoHeading
      \/ by.kind = "name" /\ SortKey(by) = MatchQueryKey(by.name)
      \/ by.kind = "place" /\ by.place \in 0 .. n - 1 /\ SortKey(by) = Headings[by.place + 1]
      \/ by.kind = "place" /\ by.place \in -n .. -1 /\ SortKey(by) = Headings[n + 1 + by.place]
  BY <1>8
<1> QED
  BY <1>4, <1>6, <1>7, <1>9 DEF by

\* What the filter says of a row is what the options mean.
LEMMA FilterMeans ==
  ASSUME request \in Requests, Prepared, NEW row \in Rows
  PROVE  /\ RowOutcome(row) \in Outcomes
         /\ RowOutcome(row) = "yes" => IsWanted(row)
         /\ RowOutcome(row) = "no" => ~IsWanted(row)
<1>1. IsWanted(row) <=> Meets(request.filters, request.fns, row)
  BY DEF IsWanted, Meets
<1>2. CASE ~Filtering
  <2>1. filter_fn = <<>> /\ request.filters = <<>> /\ request.fns = <<>>
    BY <1>2 DEF Prepared, Filtering
  <2>2. IsWanted(row)
    BY <2>1 DEF IsWanted
  <2> QED
    BY <2>1, <2>2 DEF RowOutcome, Outcomes
<1>3. CASE Filtering
  <2> DEFINE f == ParseQueries(request.filters, request.fns)
  <2>1. filter_fn = f
    BY <1>3 DEF Prepared
  <2>2. f # <<>>
    BY RequestIs, ParseQueriesIs DEF Prepared, Understood
  <2>3. /\ f[1] \in FilterSet
        /\ f[1].outcome[row] = "yes" => Meets(request.filters, request.fns, row)
        /\ f[1].outcome[row] = "no" => ~Meets(request.filters, request.fns, row)
    BY <2>2, RequestIs, ParseQueriesIs
  <2>4. RowOutcome(row) = f[1].outcome[row]
    BY <2>1, <2>2 DEF RowOutcome
  <2> HIDE DEF f
  <2>5. f[1].outcome[row] \in Outcomes
    BY <2>3 DEF FilterSet
  <2> QED
    BY <1>1, <2>3, <2>4, <2>5
<1> QED
  BY <1>2, <1>3

\* A column that is filtered on is forced.
LEMMA FilteredOnIs ==
  ASSUME request \in Requests, Prepared, NEW h \in Range(Headings), FilteredOn(h)
  PROVE  h \in force_columns
<1> DEFINE qs == request.filters
           f == ParseQueries(qs, request.fns)
<1> DEFINE Names(i, k) ==
             LET key == qs[i].cmps[k].key
                 close == {j \in DOMAIN Headings : Abbreviates(key, Headings[j])}
             IN  \/ h = key
                 \/ /\ key \notin Range(Headings) /\ close # {}
                    /\ h = Headings[CHOOSE j \in close : \A other \in close : j <= other]
<1>0. PICK i \in DOMAIN qs : \E k \in DOMAIN qs[i].cmps : Names(i, k)
  BY DEF FilteredOn
<1>1. PICK k \in DOMAIN qs[i].cmps : Names(i, k)
  BY <1>0
<1> DEFINE key == qs[i].cmps[k].key
           close == {j \in DOMAIN Headings : Abbreviates(key, Headings[j])}
<1>2. IsRequest(qs, request.fns) /\ IsQuery(qs[i])
  BY RequestIs DEF IsRequest, Range
<1>3. k \in 1 .. Len(qs[i].cmps) /\ IsSeq(key)
  BY <1>1, <1>2, QueryIs
<1>4. MatchQueryKey(key) = h
  <2>1. CASE h = key
    BY <2>1 DEF MatchQueryKey
  <2>2. CASE /\ key \notin Range(Headings) /\ close # {}
             /\ h = Headings[CHOOSE j \in close : \A other \in close : j <= other]
    <3>1. Min(close) = CHOOSE j \in close : \A other \in close : j <= other
      BY DEF Min
    <3>2. MatchQueryKey(key) = IF close = {} THEN NoHeading ELSE Headings[Min(close)]
      BY <1>3, <2>2, MatchQueryKeyIs
    <3> HIDE DEF close
    <3> QED
      BY <2>2, <3>1, <3>2
  <2> QED
    BY <1>1, <2>1, <2>2
<1>5. h # NoHeading
  BY HeadingsAssumption
<1>6. h \in FieldsFrom(qs[i], 1, Len(qs[i].cmps))
  BY <1>3, <1>4, <1>5 DEF FieldsFrom
<1>7. Filtering /\ filter_fn = f
  <2>1. qs # <<>>
    BY <1>1
  <2> QED
    BY <2>1 DEF Prepared, Filtering
<1>8. f # <<>>
  BY <1>2, ParseQueriesIs DEF Prepared, Understood
<1>9. h \in f[1].fields /\ f = <<f[1]>>
  BY <1>2, <1>6, <1>8, ParseQueriesIs
<1>10. h \in FieldsOf(f)
  <2>1. 1 \in DOMAIN f
    <3> HIDE DEF f
    <3>1. DOMAIN <<f[1]>> = 1 .. 1
      OBVIOUS
    <3> QED
      BY <1>9, <3>1
  <2> HIDE DEF f
  <2> QED
    BY <1>9, <2>1 DEF FieldsOf
<1> QED
  BY <1>7, <1>10 DEF Prepared

\* Report.__init__: it leaves exactly if a filter is no expression.
LEMMA CreateKeepsReportInv ==
  ASSUME ReportInv, CreateReport
  PROVE  ReportInv'
<1> DEFINE qs == request.filters
           f == ParseQueries(qs, request.fns)
           filter == IF Filtering THEN f ELSE <<>>
           fields == Displayed(request.fields)
<1>1. /\ request \in Requests /\ reportPc = "create" /\ ReportTypeOK
      /\ UNCHANGED <<request, table, rows, headings_shown, rows_shown>>
      /\ headings_shown = <<>> /\ rows_shown = <<>>
      /\ IsRequest(qs, request.fns)
  BY RequestIs DEF ReportInv, CreateReport, settings, shown
<1>2. f = <<>> <=> ~Understood
  BY <1>1, ParseQueriesIs DEF Understood
<1>3. Understood' <=> Understood
  BY <1>1 DEF Understood
<1>4. CASE Filtering /\ filter = <<>>
  <2>1. reportPc' = "exit" /\ UNCHANGED <<filter_fn, sort_by, display_headings, force_columns>>
    BY <1>4 DEF CreateReport, prepared
  <2>2. ~Understood'
    BY <1>2, <1>3, <1>4
  <2>3. ReportTypeOK'
    BY <1>1, <2>1 DEF ReportTypeOK
  <2> QED
    BY <1>1, <2>1, <2>2, <2>3 DEF ReportInv, ReportIsFiltered
<1>5. CASE ~(Filtering /\ filter = <<>>)
  <2>1. /\ reportPc' = "add" /\ filter_fn' = filter
        /\ sort_by' = SortKey(request.sort_by)
        /\ display_headings' = IF request.fields = <<>> THEN Headings ELSE fields
        /\ force_columns' = FieldsOf(filter) \cup Range(fields)
    BY <1>5 DEF CreateReport
  <2>2. Understood
    BY <1>2, <1>5 DEF Filtering, Understood
  <2>3. fields \in Seq(Range(Headings)) /\ display_headings' \in Seq(Range(Headings))
    BY <1>1, <2>1, DisplayedIs, RequestsAssumption, HeadingsAssumption DEF IsSeq
  <2>4. Range(fields) \subseteq Range(Headings) /\ Range(display_headings)' \subseteq Range(Headings)
    <3> HIDE DEF fields
    <3>1. \A s \in Seq(Range(Headings)) : Range(s) \subseteq Range(Headings)
      BY RangeOfSeq
    <3> QED
      BY <2>3, <3>1
  <2>5. Len(filter) <= 1 /\ FieldsOf(filter) \subseteq Range(Headings)
    <3>1. CASE Filtering
      <4>1. f = <<f[1]>> /\ f[1] \in FilterSet
        BY <1>1, <1>2, <2>2, ParseQueriesIs
      <4> HIDE DEF f
      <4>2. Len(<<f[1]>>) = 1 /\ \A j \in DOMAIN <<f[1]>> : j = 1
        OBVIOUS
      <4>3. Len(f) = 1 /\ \A j \in DOMAIN f : f[j].fields \subseteq Range(Headings)
        BY <4>1, <4>2 DEF FilterSet
      <4>4. FieldsOf(f) \subseteq Range(Headings)
        BY <4>3 DEF FieldsOf
      <4>5. filter = f
        BY <3>1
      <4> HIDE DEF filter
      <4> QED
        BY <4>3, <4>4, <4>5
    <3>2. CASE ~Filtering
      <4>1. filter = <<>> /\ Len(<<>>) = 0 /\ DOMAIN <<>> = {}
        BY <3>2
      <4> QED
        BY <4>1 DEF FieldsOf
    <3> QED
      BY <3>1, <3>2
  <2>6. sort_by' \in Range(Headings) \cup {NoHeading}
    BY <1>1, <2>1, SortKeyIs
  <2>7. ReportTypeOK'
    <3> HIDE DEF filter, fields
    <3> QED
      BY <1>1, <2>1, <2>4, <2>5, <2>6 DEF ReportTypeOK
  <2>8. filter' = filter
    BY <1>1 DEF Filtering
  <2>9. Prepared'
    <3>1. FieldsOf(filter_fn)' \subseteq force_columns'
      <4> HIDE DEF filter, fields
      <4> QED
        BY <2>1 DEF FieldsOf
    <3>2. filter_fn' = filter'
      BY <2>1, <2>8
    <3> QED
      BY <1>3, <2>2, <2>3, <3>1, <3>2 DEF Prepared
  <2> QED
    BY <1>1, <2>1, <2>7, <2>9 DEF ReportInv, ReportIsFiltered
<1> QED
  BY <1>4, <1>5

\* While a report is put together, nothing is shown.
LEMMA RowsKeepReportInv ==
  ASSUME ReportInv, reportPc = "add", UNCHANGED <<request, prepared, shown>>,
         reportPc' \in {"add", "filter", "crashed"}, table' \in Seq(Batches), rows' \in Seq(Rows)
  PROVE  ReportInv'
<1>1. /\ UNCHANGED <<request, filter_fn, sort_by, display_headings, force_columns>>
      /\ headings_shown' = <<>> /\ rows_shown' = <<>>
      /\ ReportTypeOK /\ Prepared /\ request \in Requests
  BY DEF ReportInv, prepared, shown
<1>2. Prepared'
  BY <1>1 DEF Prepared, Understood, Filtering, FieldsOf
<1>3. \A i \in DOMAIN rows' : rows'[i] \in Rows
  BY ElementOfSeq
<1>4. \A i \in DOMAIN rows' : DOMAIN rows'[i] = Range(Headings)
  BY <1>3, RowsAre
<1>5. Len(rows_shown') <= Len(rows')
  BY <1>1, LenProperties, EmptySeq
<1>6. ReportTypeOK'
  BY <1>1, <1>4, <1>5 DEF ReportTypeOK
<1> QED
  BY <1>1, <1>2, <1>6 DEF ReportInv, ReportIsFiltered

\* add_rows: all rows of a batch or none.
LEMMA AddKeepsReportInv ==
  ASSUME ReportInv, AddRows
  PROVE  ReportInv'
<1> DEFINE batch == Head(table)
           more == [i \in DOMAIN batch |-> Converted(batch[i])]
<1>1. /\ reportPc = "add" /\ table # <<>> /\ UNCHANGED <<request, prepared, shown>>
      /\ table \in Seq(Batches) /\ rows \in Seq(Rows)
  BY DEF AddRows, ReportInv
<1>2. batch \in Batches /\ Tail(table) \in Seq(Batches)
  BY <1>1, HeadTailProperties
<1>3. CASE \A i \in DOMAIN batch : Converts(batch[i])
  <2>1. rows' = rows \o more /\ table' = Tail(table) /\ reportPc' = "add"
    BY <1>1, <1>3 DEF AddRows
  <2>2. more \in Seq(Rows)
    <3>1. Len(batch) \in Nat /\ DOMAIN batch = 1 .. Len(batch)
      BY <1>2, BatchIs DEF IsSeq
    <3>2. \A i \in DOMAIN batch : Converted(batch[i]) \in Rows
      BY <1>2, <1>3, BatchIs
    <3>3. more \in [1 .. Len(batch) -> Rows]
      BY <3>1, <3>2
    <3> HIDE DEF more
    <3> QED
      BY <3>1, <3>3, SeqDef
  <2>3. rows' \in Seq(Rows)
    <3> HIDE DEF more
    <3> QED
      BY <1>1, <2>1, <2>2, ConcatProperties
  <2> QED
    BY <1>1, <1>2, <2>1, <2>3, RowsKeepReportInv
<1>4. CASE ~(\A i \in DOMAIN batch : Converts(batch[i]))
  <2>1. reportPc' = "crashed" /\ rows' = rows /\ table' = table
    BY <1>4 DEF AddRows
  <2> QED
    BY <1>1, <2>1, RowsKeepReportInv
<1> QED
  BY <1>3, <1>4

\* sort_data: it moves rows but makes none.
LEMMA SortKeepsReportInv ==
  ASSUME ReportInv, SortData
  PROVE  ReportInv'
<1>1. /\ reportPc = "add" /\ reportPc' = "filter" /\ UNCHANGED <<request, table, prepared, shown>>
      /\ table \in Seq(Batches) /\ rows \in Seq(Rows)
  BY DEF SortData, ReportInv, settings
<1>2. rows' \in Seq(Rows)
  <2>1. CASE sort_by = NoHeading
    BY <1>1, <2>1 DEF SortData
  <2>2. CASE sort_by # NoHeading
    <3>1. PICK p \in Bijection(DOMAIN rows, DOMAIN rows) :
            rows' = [i \in DOMAIN rows |-> rows[p[i]]]
      BY <2>2 DEF SortData
    <3>2. p \in [DOMAIN rows -> DOMAIN rows]
      BY DEF Bijection, Injection
    <3>3. Len(rows) \in Nat /\ DOMAIN rows = 1 .. Len(rows) /\ \A i \in DOMAIN rows : rows[i] \in Rows
      BY <1>1, LenProperties, ElementOfSeq
    <3>4. rows' \in [1 .. Len(rows) -> Rows]
      BY <3>1, <3>2, <3>3
    <3> QED
      BY <3>3, <3>4, SeqDef
  <2> QED
    BY <2>1, <2>2
<1> QED
  BY <1>1, <1>2, RowsKeepReportInv

\* get_rows_to_print: it shows what is wanted.
LEMMA PrintKeepsReportInv ==
  ASSUME ReportInv, GetRowsToPrint
  PROVE  ReportInv'
<1> DEFINE wanted == {i \in DOMAIN rows : IsWanted(rows[i])}
           passed == {i \in DOMAIN rows : RowOutcome(rows[i]) = "yes"}
           selected == AtPlaces(rows, passed)
           columns == Range(display_headings)
           kept == IF selected = <<>> THEN columns ELSE Kept(selected)
           places == {i \in DOMAIN display_headings : display_headings[i] \in kept}
           headings == AtPlaces(display_headings, places)
           N == Cardinality(passed)
           n == Len(rows)
           d == Len(display_headings)
<1>1. /\ reportPc = "filter" /\ reportPc' = "printed" /\ UNCHANGED <<settings, prepared, rows>>
      /\ ReportTypeOK /\ Prepared /\ request \in Requests /\ table \in Seq(Batches)
      /\ rows \in Seq(Rows) /\ headings_shown = <<>> /\ rows_shown = <<>>
  BY DEF GetRowsToPrint, ReportInv
<1>2. UNCHANGED <<request, table, filter_fn, sort_by, display_headings, force_columns, rows>>
  BY <1>1 DEF settings, prepared
<1>3. /\ n \in Nat /\ DOMAIN rows = 1 .. n /\ \A i \in DOMAIN rows : rows[i] \in Rows
      /\ d \in Nat /\ DOMAIN display_headings = 1 .. d
  BY <1>1, LenProperties, ElementOfSeq DEF Prepared
<1>4. Understood' /\ Prepared'
  BY <1>1, <1>2 DEF Prepared, Understood, Filtering, FieldsOf
<1>5. Wanted' = Wanted /\ Raised' = Raised /\ \A h : FilteredOn(h)' = FilteredOn(h)
  BY <1>2 DEF Wanted, IsWanted, Raised, RowOutcome, FilteredOn
<1>6. \A i \in DOMAIN rows :
        /\ RowOutcome(rows[i]) \in Outcomes
        /\ RowOutcome(rows[i]) = "yes" => IsWanted(rows[i])
        /\ RowOutcome(rows[i]) = "no" => ~IsWanted(rows[i])
  BY <1>1, <1>3, FilterMeans
<1>7. ASSUME Len(rows_shown') <= Len(rows), ReportIsFiltered'
      PROVE  ReportInv'
  <2>1. ReportTypeOK'
    BY <1>1, <1>2, <1>7 DEF ReportTypeOK
  <2> QED
    BY <1>1, <1>2, <1>4, <1>7, <2>1 DEF ReportInv
<1>8. CASE Raised
  <2>1. headings_shown' = <<>> /\ rows_shown' = <<>>
    BY <1>1, <1>8 DEF GetRowsToPrint, Raised, shown
  <2>2. Len(rows_shown') <= Len(rows)
    BY <1>3, <2>1, EmptySeq
  <2>3. ReportIsFiltered'
    BY <1>1, <1>4, <1>5, <1>8, <2>1 DEF ReportIsFiltered
  <2> QED
    BY <1>7, <2>2, <2>3
<1>9. CASE ~Raised
  <2>1. passed = wanted /\ selected = Wanted
    <3>1. \A i \in DOMAIN rows : RowOutcome(rows[i]) = "yes" <=> IsWanted(rows[i])
      BY <1>6, <1>9 DEF Raised, Outcomes
    <3>2. passed = wanted
      BY <3>1
    <3> QED
      BY <3>2 DEF Wanted
  <2>2. /\ headings_shown' = headings
        /\ rows_shown' = IF kept = {} THEN <<>>
                         ELSE [i \in DOMAIN selected |-> Restricted(selected[i], kept)]
    <3>1. ~(\E i \in DOMAIN rows : RowOutcome(rows[i]) \in {"KeyError", "TypeError"})
      BY <1>9 DEF Raised
    <3> QED
      BY <3>1 DEF GetRowsToPrint
  <2>3. kept \subseteq columns
    BY DEF Kept
  <2>4. /\ N \in Nat /\ N <= n /\ DOMAIN selected = 1 .. N /\ Len(selected) = N
        /\ (selected = <<>> <=> N = 0)
    <3>1. passed \in SUBSET (1 .. n) /\ \A i \in passed : rows[i] \in Rows
      BY <1>3
    <3> HIDE DEF passed, n
    <3>2. N \in Nat /\ selected \in Seq(Rows) /\ DOMAIN selected = 1 .. N /\ Len(selected) = N
      BY <1>3, <3>1, AtPlacesAre, AtPlacesIn
    <3>3. N <= n
      <4>1. IsFiniteSet(1 .. n) /\ Cardinality(1 .. n) = n
        BY <1>3, FS_Interval
      <4> QED
        BY <3>1, <4>1, FS_Subset DEF N
    <3>4. selected = <<>> <=> N = 0
      BY <3>2, EmptySeq
    <3> QED
      BY <3>2, <3>3, <3>4
  <2>5. headings \in Seq(kept) /\ \A h : h \in Range(headings) <=> h \in kept
    <3>1. places \in SUBSET (1 .. d) /\ \A i \in places : display_headings[i] \in kept
      BY <1>3
    <3>2. \A h \in kept : \E i \in places : display_headings[i] = h
      BY <2>3 DEF Range
    <3> HIDE DEF places, kept, d, columns
    <3>3. headings \in Seq(kept) /\ DOMAIN headings = 1 .. Cardinality(places)
      BY <1>3, <3>1, AtPlacesAre, AtPlacesIn
    <3>4. \A i \in places : \E p \in DOMAIN headings : headings[p] = display_headings[i]
      <4>1. \A i \in places : \E p \in 1 .. Cardinality(places) :
              AtPlaces(display_headings, places)[p] = display_headings[i]
        BY <1>3, <3>1, AtPlacesAre
      <4> QED
        BY <3>3, <4>1
    <3> HIDE DEF headings
    <3>5. \A p \in DOMAIN headings : headings[p] \in kept
      BY <3>3, ElementOfSeq, LenProperties
    <3> QED
      BY <3>2, <3>3, <3>4, <3>5 DEF Range
  <2> HIDE DEF passed, N, n, headings, selected, kept
  <2>6. headings = <<>> => kept = {}
    <3>1. Range(<<>>) = {}
      BY DEF Range
    <3> QED
      BY <2>5, <3>1
  <2>7. kept # {} => /\ DOMAIN rows_shown' = 1 .. N /\ Len(rows_shown') = N
                     /\ \A i \in 1 .. N : \A h \in kept : rows_shown'[i][h] = selected[i][h]
    <3>1. kept # {} => rows_shown' = [i \in 1 .. N |-> Restricted(selected[i], kept)]
      BY <2>2, <2>4
    <3>2. kept # {} => Len(rows_shown') = N
      BY <2>4, <3>1
    <3>3. \A i, h : h \in kept => Restricted(selected[i], kept)[h] = selected[i][h]
      BY DEF Restricted
    <3> QED
      BY <3>1, <3>2, <3>3
  <2>8. Len(rows_shown') <= Len(rows)
    <3>1. kept = {} => rows_shown' = <<>> /\ Len(<<>>) = 0
      BY <2>2
    <3> QED
      BY <1>3, <2>4, <2>7, <3>1 DEF n
  <2>9. ASSUME NEW h \in columns, h \notin kept
        PROVE  /\ (\A i \in DOMAIN selected : selected[i][h] = EMPTY)
                    \/ (\A i \in DOMAIN selected : selected[i][h] = MISSING)
               /\ ~FilteredOn(h)
    <3>1. kept = Kept(selected)
      BY <2>9 DEF kept
    <3>2. /\ h \in Range(Headings)
      BY <1>1 DEF ReportTypeOK
    <3>3. /\ ConstantIn(selected, h, EMPTY) \/ ConstantIn(selected, h, MISSING)
          /\ h \notin force_columns
      BY <2>9, <3>1 DEF Kept
    <3>4. ~FilteredOn(h)
      BY <1>1, <3>2, <3>3, FilteredOnIs
    <3> QED
      BY <3>3, <3>4 DEF ConstantIn
  <2>10. ReportIsFiltered'
    <3>1. columns' = columns
      BY <1>2
    <3>2. IF headings_shown' = <<>> THEN rows_shown' = <<>>
          ELSE /\ Len(rows_shown') = Len(Wanted)
               /\ \A i \in DOMAIN Wanted : \A h \in Range(headings_shown') :
                    rows_shown'[i][h] = Wanted[i][h]
      <4>1. CASE headings = <<>>
        BY <2>2, <2>6, <4>1
      <4>2. CASE headings # <<>> /\ kept # {}
        BY <2>1, <2>2, <2>4, <2>5, <2>7, <4>2
      <4>3. CASE headings # <<>> /\ kept = {}
        <5>1. headings[1] \in kept
          <6>1. Len(headings) \in Nat /\ Len(headings) # 0
            BY <2>5, <4>3, LenProperties, EmptySeq
          <6> QED
            BY <2>5, <6>1, ElementOfSeq
        <5> QED
          BY <4>3, <5>1
      <4> QED
        BY <4>1, <4>2, <4>3
    <3>3. \A h \in columns \ Range(headings_shown') : NothingIn(h)' /\ ~FilteredOn(h)
      <4>1. \A h : NothingIn(h)' <=> \/ \A i \in DOMAIN selected : selected[i][h] = EMPTY
                                     \/ \A i \in DOMAIN selected : selected[i][h] = MISSING
        BY <1>5, <2>1 DEF NothingIn
      <4> QED
        BY <2>2, <2>5, <2>9, <4>1
    <3> QED
      BY <1>1, <1>4, <1>5, <1>9, <3>1, <3>2, <3>3 DEF ReportIsFiltered
  <2> QED
    BY <1>7, <2>8, <2>10
<1> QED
  BY <1>8, <1>9

\* All steps of a report, and of all other commands.
LEMMA ReportInvNext == ReportInv /\ [Next]_vars => ReportInv'
<1> SUFFICES ASSUME ReportInv, [Next]_vars
             PROVE  ReportInv'
  OBVIOUS
<1>1. CASE UNCHANGED reports
  <2>1. UNCHANGED <<request, table, reportPc, filter_fn, sort_by, display_headings, force_columns,
                    rows, headings_shown, rows_shown>>
    BY <1>1 DEF reports, settings, prepared, shown
  <2>2. (Prepared' <=> Prepared) /\ (ReportTypeOK' <=> ReportTypeOK)
    BY <2>1 DEF ReportTypeOK, Prepared, Understood, Filtering, FieldsOf
  <2>3. Wanted' = Wanted /\ (Raised' <=> Raised) /\ (Understood' <=> Understood)
    BY <2>1 DEF Wanted, IsWanted, Raised, RowOutcome, Understood
  <2>4. \A h : (FilteredOn(h)' <=> FilteredOn(h)) /\ (NothingIn(h)' <=> NothingIn(h))
    BY <2>1, <2>3 DEF FilteredOn, NothingIn
  <2>5. ReportIsFiltered' <=> ReportIsFiltered
    BY <2>1, <2>3, <2>4 DEF ReportIsFiltered
  <2> QED
    BY <2>1, <2>2, <2>5 DEF ReportInv
<1>2. CASE ReportNext
  BY <1>2, CreateKeepsReportInv, AddKeepsReportInv, SortKeepsReportInv, PrintKeepsReportInv
  DEF ReportNext
<1> QED
  BY <1>1, <1>2, StepsAre

(* A report shows exactly the rows that its filters mean, in their order,  *)
(* and no column with a value or a filter on it is missing, for any        *)
(* headings, queries, functions and rows, unless a filter raises.          *)
THEOREM ReportFiltered == Spec => []ReportIsFiltered
<1>1. ReportInv => ReportIsFiltered
  BY DEF ReportInv
<1> QED
  BY ReportInvInit, ReportInvNext, <1>1, PTL DEF Spec

-----------------------------------------------------------------------------
(* The types of all commands' state.                                       *)

\* The lists of xnames keep their types.
LEMMA NamesTypeNext == NamesTypeOK /\ NamesInv /\ [Next]_vars => NamesTypeOK'
<1> SUFFICES ASSUME NamesTypeOK, NamesInv, [Next]_vars
             PROVE  NamesTypeOK'
  OBVIOUS
<1>1. OfTypes \subseteq components
  BY DEF OfTypes
<1>2. CASE GetHsmComponents
  BY <1>1, <1>2 DEF GetHsmComponents, NamesTypeOK
<1>3. CASE ExpandAndScreen
  BY <1>3 DEF ExpandAndScreen, NamesTypeOK
<1>4. CASE GetBmcXnames
  BY <1>1, <1>4 DEF GetBmcXnames, NamesTypeOK
<1>5. CASE ScreenXnameArgs
  BY <1>5 DEF ScreenXnameArgs, Matches, NamesTypeOK
<1>6. CASE GetBmcsByType
  BY <1>1, <1>6 DEF GetBmcsByType, NamesTypeOK
<1>7. CASE GetAndFilterBmcs
  BY <1>7 DEF GetAndFilterBmcs, NamesTypeOK
<1>8. CASE UNCHANGED names
  BY <1>8 DEF names, NamesTypeOK
<1> QED
  BY <1>2, <1>3, <1>4, <1>5, <1>6, <1>7, <1>8, StepsAre

\* sat bmccreds keeps its types.
LEMMA CredsTypeNext == CredsTypeOK /\ NamesInv /\ [Next]_vars => CredsTypeOK'
<1> SUFFICES ASSUME CredsTypeOK, NamesInv, [Next]_vars
             PROVE  CredsTypeOK'
  OBVIOUS
<1>1. CASE UNCHANGED creds
  BY <1>1 DEF creds, CredsTypeOK
<1>2. CASE ValidateArgs \/ Confirm \/ GiveUpCreds
  BY <1>2 DEF ValidateArgs, Confirm, GiveUpCreds, CredsTypeOK
<1>3. CASE SetBmcPasswords
  <2>1. Targets \subseteq XNamesKnown
    BY DEF Targets, NamesInv, XNamesKnown
  <2>2. lastTargets' \subseteq XNamesKnown
    BY <1>3, <2>1 DEF SetBmcPasswords, Post
  <2>3. num_tries' \in 1 .. Retries + 1 /\ credsPc' \in {"set", "done"}
    BY <1>3, CredentialsAssumption DEF SetBmcPasswords, CredsTypeOK
  <2> QED
    BY <2>2, <2>3 DEF CredsTypeOK
<1> QED
  BY <1>1, <1>2, <1>3, StepsAre DEF CredsNext, CheckEligibility

\* Another command is never run.
LEMMA ToolNext == tool \in Tools /\ [Next]_vars => tool' \in Tools
  BY DEF Next, Configure, Customize, Show, Resolve, SetCreds, Ended, vars

\* They begin with their types.
LEMMA NamesTypeInit == Init => NamesTypeOK /\ CredsTypeOK
  BY CredentialsAssumption DEF Init, NamesInit, CredsInit, NamesTypeOK, CredsTypeOK

\* The state of every command has the form that its module says.
THEOREM TypeCorrect == Spec => []TypeOK
<1> DEFINE Inv == /\ tool \in Tools /\ ConfigInv /\ SessionInv /\ ReportInv
                  /\ NamesTypeOK /\ NamesInv /\ CredsTypeOK
<1>1. Init => Inv
  BY ConfigInvInit, SessionInvInit, ReportInvInit, NamesInvInit, NamesTypeInit DEF Init
<1>2. Inv /\ [Next]_vars => Inv'
  BY ToolNext, ConfigInvNext, SessionInvNext, ReportInvNext, NamesInvNext, NamesTypeNext, CredsTypeNext
<1>3. Inv => TypeOK
  BY DEF ConfigInv, SessionInv, ReportInv, TypeOK
<1> HIDE DEF Inv
<1> QED
  BY <1>1, <1>2, <1>3, PTL DEF Spec
=============================================================================
