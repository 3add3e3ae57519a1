-------------------------- MODULE CfsConfigurations --------------------------
(***************************************************************************)
(* sat bootprep: the CFS configurations of an input file are created one   *)
(* after the other, each of them from its layers, whose branches are looked*)
(* up in VCS while others push to them and write configurations.  Sources: *)
(* sat/cli/bootprep/configuration.py, sat/cli/bootprep/input/              *)
(* configuration.py, sat/apiclient/vcs.py and cfs.py.                      *)
(***************************************************************************)
EXTENDS Naturals, FiniteSets, Sequences, SequencesExt, Inputs

CONSTANTS
  Input,        \* the configurations of the input file, with their layers
  MaxPushes,    \* how often others push to a branch
  MaxOthers     \* how often others write a configuration

ConfigNames == {Input[i].name : i \in DOMAIN Input}
Repos == UNION {{Input[i].layers[k].repo : k \in DOMAIN Input[i].layers} : i \in DOMAIN Input}

\* A layer is given by a git repository or a product, and by a branch of it, a
\* commit, or (a product) its version.
InputLayers ==
  {l \in [from : {"git", "product"}, by : {"branch", "commit", "version"}, repo : Repos] :
     l.by = "version" => l.from = "product"}

ASSUME InputAssumption ==
  /\ Input # <<>>
  /\ Input \in Seq([name : ConfigNames, layers : Seq(InputLayers)])
  /\ MaxPushes \in Nat

\* Commits are numbered: no commit, the one given, that of the release of a
\* product, and those that are pushed to a branch.
None == 0
GivenCommit == 1
ReleasedCommit == 2
First == 3
Pushed == First..First + MaxPushes
Commits == Pushed \cup {GivenCommit, ReleasedCommit}

Config(owner, layers) == [owner |-> owner, layers |-> layers]
NoConfig == Config("nobody", <<>>)
Foreign == Config("another", <<>>)

Layer(repo, commit, branch) == [repo |-> repo, commit |-> commit, branch |-> branch]
FailedLayer == Layer("none", None, FALSE)  \* ConfigurationCreateError

VARIABLES
  resolve_branches, dry_run, onExisting, \* what the admin asked for
  product,        \* what the product catalog has on the product of a repository
  head,           \* the commit that each branch is at
  cfs,            \* the layers of the configurations in CFS
  others,         \* how many of them others wrote
  configPc,
  existing_names,
  todo,           \* configs_to_create, as indices; the least is under way
  made,           \* what became of its layers so far
  failed_configs,
  accepted        \* history: the layers that CFS took from this command

options == <<resolve_branches, dry_run, onExisting, product>>
world == <<head, cfs, others>>
configs == <<options, world, configPc, existing_names, todo, made, failed_configs, accepted>>

ConfigsInit(used) ==
  /\ resolve_branches \in Given(used, BOOLEAN)
  /\ dry_run \in Given(used, BOOLEAN)
  /\ onExisting \in Given(used, {"ask", "skip", "overwrite"})
  /\ product \in Given(used, [Repos -> {"complete", "no_commit", "no_url", "missing"}])
  /\ head \in Given(used, [Repos -> {None, First}])
  /\ cfs \in Given(used, [ConfigNames -> {NoConfig, Foreign}])
  /\ others = 0
  /\ configPc = "existing"
  /\ existing_names = {}
  /\ todo = {}
  /\ made = <<>>
  /\ failed_configs = {}
  /\ accepted = [n \in ConfigNames |-> NoConfig]

ConfigsTypeOK ==
  /\ head \in [Repos -> {None} \cup Pushed]
  /\ configPc \in {"existing", "choose", "create", "done", "failed", "crashed"}
  /\ existing_names \subseteq ConfigNames
  /\ todo \subseteq DOMAIN Input
  /\ failed_configs \subseteq DOMAIN Input

-----------------------------------------------------------------------------
(* VCS and CFS, which others use as well.                                  *)

Push(r) ==
  /\ head[r] # First + MaxPushes
  /\ head' = [head EXCEPT ![r] = IF @ = None THEN First ELSE @ + 1]
  /\ UNCHANGED <<options, cfs, others, configPc, existing_names, todo, made, failed_configs,
                 accepted>>

OtherPuts(n) ==
  /\ others < MaxOthers
  /\ others' = others + 1
  /\ cfs' = [cfs EXCEPT ![n] = Foreign]
  /\ UNCHANGED <<options, head, configPc, existing_names, todo, made, failed_configs, accepted>>

\* git ls-remote fails, or lists the branch if it is there; None is an error.
Resolved(r) == {None, head[r]}

-----------------------------------------------------------------------------
(* handle_existing_configs.                                                *)

ListConfigs ==
  /\ configPc = "existing"
  /\ \/ configPc' = "failed" /\ UNCHANGED existing_names
     \/ /\ existing_names' = {n \in ConfigNames : cfs[n] # NoConfig}
        /\ configPc' = "choose"
  /\ UNCHANGED <<options, world, todo, made, failed_configs, accepted>>

Offered ==
  IF existing_names = {} THEN {"overwrite"}
  ELSE IF onExisting = "ask" THEN {"skip", "overwrite", "abort", "EOF"}
  ELSE {onExisting}

\* Fault: what exists is not left out.
SkippedNone == DOMAIN Input

NotExisting == {i \in DOMAIN Input : Input[i].name \notin existing_names}

\* At the end of the file there is no answer, and nothing to iterate over.
ChooseExisting ==
  /\ configPc = "choose"
  /\ \E choice \in Offered :
       /\ configPc' = (CASE choice = "abort" -> "failed"
                         [] choice = "EOF" -> "crashed"
                         [] OTHER -> "create")
       /\ todo' = (CASE choice = "skip" -> NotExisting
                     [] choice = "overwrite" -> DOMAIN Input
                     [] OTHER -> {})
       /\ onExisting' = IF existing_names = {} THEN onExisting ELSE choice
  /\ UNCHANGED <<resolve_branches, dry_run, product, world, existing_names, made,
                 failed_configs, accepted>>

-----------------------------------------------------------------------------
(* create_configurations.                                                  *)

HasCloneUrl(l) == l.from = "git" \/ product[l.repo] \in {"complete", "no_commit"}

\* The commits that may be found for a layer; CFS finds that of a branch.
CommitOf(l) ==
  CASE l.by = "commit" -> {GivenCommit}
    [] l.by = "branch" -> IF resolve_branches THEN Resolved(l.repo) ELSE {None}
    [] l.by = "version" -> {IF product[l.repo] = "complete" THEN ReleasedCommit ELSE None}

\* get_cfs_api_data of a layer: the branch is left out if it is resolved.
LayerData(l) ==
  LET branch == l.by = "branch" /\ ~resolve_branches
  IN  {IF HasCloneUrl(l) /\ (c # None \/ branch) THEN Layer(l.repo, c, branch) ELSE FailedLayer
       : c \in CommitOf(l)}

\* The configurations are created in the order of the file.
Current == CHOOSE i \in todo : \A j \in todo : i <= j
Layers == Input[Current].layers

MakeLayer ==
  /\ configPc = "create" /\ todo # {}
  /\ Len(made) < Len(Layers)
  /\ \E data \in LayerData(Layers[Len(made) + 1]) : made' = Append(made, data)
  /\ UNCHANGED <<options, world, configPc, existing_names, todo, failed_configs, accepted>>

\* Fault: layers that cannot be made are logged and passed over.
FailedLayersIgnored == FALSE

FailedLayers == FailedLayer \in Range(made)

Good == Config("sat", made)

\* Whether CFS takes the configuration, and whether the command is told so:
\* put_configuration may be served although it fails.
PutOutcomes ==
  IF FailedLayers THEN {[taken |-> FALSE, ok |-> FALSE]}
  ELSE IF dry_run THEN {[taken |-> FALSE, ok |-> TRUE]}
  ELSE [taken : BOOLEAN, ok : BOOLEAN] \ {[taken |-> FALSE, ok |-> TRUE]}

PutConfig ==
  /\ configPc = "create" /\ todo # {}
  /\ Len(made) = Len(Layers)
  /\ \E outcome \in PutOutcomes :
       LET names == {n \in ConfigNames : outcome.taken /\ n = Input[Current].name}
           With(taken) == [n \in ConfigNames |-> IF n \in names THEN Good ELSE taken[n]]
       IN  /\ cfs' = With(cfs)
           /\ accepted' = With(accepted)
           /\ failed_configs' = failed_configs \cup (IF outcome.ok THEN {} ELSE {Current})
  /\ todo' = todo \ {Current}
  /\ made' = <<>>
  /\ UNCHANGED <<options, head, others, configPc, existing_names>>

EndConfigs ==
  /\ configPc = "create" /\ todo = {}
  /\ configPc' = IF failed_configs = {} THEN "done" ELSE "failed"
  /\ UNCHANGED <<options, world, existing_names, todo, made, failed_configs, accepted>>

ConfigsNext ==
  \/ ListConfigs \/ ChooseExisting \/ MakeLayer \/ PutConfig \/ EndConfigs
  \/ \E r \in Repos : Push(r)
  \/ \E n \in ConfigNames : OtherPuts(n)
=============================================================================
