------------------------------ MODULE ImageBuild ------------------------------
(***************************************************************************)
(* sat/cli/bootprep/image.py and input/image.py: create_images builds the  *)
(* images of an input file.  An image is built from a recipe by an IMS job *)
(* or starts from an existing image, is then customized by a CFS session,  *)
(* and is renamed; an image that starts from another one of the file waits *)
(* for it.  Images of the same name that existed are skipped or, once the  *)
(* new one is there, deleted.                                              *)
(*                                                                         *)
(* The order in which images begin is that of DependencyOrder, which       *)
(* DependencyWaiter implements; the waiter has no timeout here.            *)
(***************************************************************************)
EXTENDS ImsClient

VARIABLES
  base,       \* what each image starts from: a recipe, an id, or a name
  initial,    \* history: the names that existed when the program started
  pc,
  overwritten,\* images whose image_ids_to_delete is not empty
  toCreate,   \* images_to_create
  deps, status, \* see DependencyOrder
  created,    \* images whose _image_create_complete and success are set
  job,        \* the IMS job of each image, as IMS knows it
  session,    \* the CFS session of each image, as CFS knows it
  ims_base    \* the image each one is customized from, once it is known

input == <<customized, base, initial>>
plan == <<overwritten, toCreate, deps>>
progress == <<created, job, session, ims_base>>
imageVars == <<ims, cache, input, pc, plan, status, progress>>

Order == INSTANCE DependencyOrder WITH Members <- Images

Old(n) == Image("old", n)

Init ==
  /\ customized \in SUBSET Images
  /\ base \in [Images -> {"recipe", "id"} \cup Names]
  /\ \A m \in Images : base[m] # m
  /\ initial \in {S \cup {Stock} : S \in SUBSET Images}
  /\ ims = {Old(n) : n \in initial}
  /\ cache = Unread
  /\ pc = "existing"
  /\ overwritten = {}
  /\ toCreate = {}
  /\ deps = [m \in Images |-> {}]
  /\ status = [m \in Images |-> "waiting"]
  /\ created = {}
  /\ job = [m \in Images |-> "none"]
  /\ session = [m \in Images |-> "none"]
  /\ ims_base = [m \in Images |-> {}]

\* Any of the requests made so far failed, or the admin chose to abort.
GiveUp ==
  /\ pc \in {"existing", "validate"}
  /\ pc' = "failed"
  /\ UNCHANGED <<ims, cache, input, plan, status, progress>>

SkipOrOverwrite(existing) ==
  \/ toCreate' = Images \ existing /\ UNCHANGED overwritten
  \/ toCreate' = Images /\ overwritten' = existing

\* handle_existing_images lists the images with a client of its own.
HandleExisting ==
  /\ pc = "existing"
  /\ SkipOrOverwrite(initial \cap Images)
  /\ pc' = "validate"
  /\ UNCHANGED <<ims, cache, input, deps, status, progress>>

Dependencies(m) ==
  IF m \in toCreate /\ base[m] \in toCreate THEN {base[m]} ELSE {}

Acyclic(graph) ==
  \A S \in (SUBSET Images) \ {{}} : \E m \in S : graph[m] \cap S = {}

\* Fault: the bases of all images are looked up, also of the dependent ones.
BasesOfAll == {m \in toCreate : base[m] \in Names}

\* The images whose base validate_image_ims_bases looks up by name.
NamedBases == {m \in toCreate : base[m] \in Names /\ Dependencies(m) = {}}

ResolvedBase(m, listing) ==
  IF m \in NamedBases THEN Matches(listing, base[m])
  ELSE IF base[m] = "id" THEN {Old(Stock)}
  ELSE {}

\* find_image_dependencies, then validate_image_ims_bases.
Validate ==
  /\ pc = "validate"
  /\ deps' = [m \in Images |-> Dependencies(m)]
  /\ Acyclic(deps')
  /\ IF NamedBases = {} THEN UNCHANGED cache ELSE cache' \in Lookups
  /\ \A m \in NamedBases : IsUnique(Matches(cache', base[m]))
  /\ ims_base' = [m \in Images |-> ResolvedBase(m, cache')]
  /\ pc' = "wait"
  /\ UNCHANGED <<ims, input, overwritten, toCreate, status, created, job,
                 session>>

-----------------------------------------------------------------------------
(* IMS and CFS.                                                            *)

JobEnds(m) ==
  /\ job[m] = "running"
  /\ \/ /\ job' = [job EXCEPT ![m] = "success"]
        /\ ims' = ims \cup {Image("built", m)}
     \/ job' = [job EXCEPT ![m] = "error"] /\ UNCHANGED ims
  /\ UNCHANGED <<cache, input, pc, plan, status, created, session, ims_base>>

SessionEnds(m) ==
  /\ session[m] = "running"
  /\ \/ /\ ims_base[m] \subseteq ims
        /\ session' = [session EXCEPT ![m] = "succeeded"]
        /\ ims' = ims \cup {Image("layered", m)}
     \/ session' = [session EXCEPT ![m] = "failed"] /\ UNCHANGED ims
  /\ UNCHANGED <<cache, input, pc, plan, status, created, job, ims_base>>

-----------------------------------------------------------------------------
(* The waiter: begin() and has_completed of an image.                      *)

SetStatus(m, s) == status' = [status EXCEPT ![m] = s]

\* begin_image_create; an image that starts from an image has nothing to build.
Begin(m) ==
  /\ pc = "wait"
  /\ m \in toCreate
  /\ Order!Ready(m)
  /\ \/ /\ base[m] # "recipe"
        /\ created' = created \cup {m}
        /\ SetStatus(m, "running")
        /\ UNCHANGED job
     \/ /\ base[m] = "recipe"
        /\ job' = [job EXCEPT ![m] = "running"]
        /\ SetStatus(m, "running")
        /\ UNCHANGED created
     \/ base[m] = "recipe" /\ SetStatus(m, "failed") /\ UNCHANGED <<job, created>>
  /\ UNCHANGED <<ims, cache, input, pc, plan, session, ims_base>>

\* image_id_to_configure: a built image, or the base, which a dependent image
\* looks up only now.
Sources(m, listing) ==
  IF base[m] = "recipe" THEN {Image("built", m)}
  ELSE IF ims_base[m] # {} THEN ims_base[m]
  ELSE Matches(listing, base[m])

SourceLookups(m) ==
  IF base[m] = "recipe" \/ ims_base[m] # {} THEN {cache} ELSE Lookups

\* begin_image_configure, and the first look at the session.
BeginConfigure(m) ==
  /\ session[m] = "none"
  /\ cache' \in SourceLookups(m)
  /\ LET source == Sources(m, cache')
     IN  \/ SetStatus(m, "failed") /\ UNCHANGED <<session, ims_base>>
         \/ /\ IsUnique(source)
            /\ ims_base' = [ims_base EXCEPT ![m] = source]
            /\ session' = [session EXCEPT ![m] = "running"]
            /\ \/ UNCHANGED status
               \/ SetStatus(m, "failed")
  /\ UNCHANGED ims

\* delete_overwritten_images: every deletion may fail.
DeletedOf(m) == IF m \in overwritten THEN {{}, {Old(m)}} ELSE {{}}

\* Fault: the overwritten images are deleted before the new one is renamed.
OutcomesDeletingFirst(m) ==
  {[ok |-> r.ok, images |-> r.images \ D] : r \in Renames(m), D \in DeletedOf(m)}

\* rename_configured_image, then delete_overwritten_images.
Outcomes(m) ==
  {[ok |-> r.ok, images |-> IF r.ok THEN r.images \ D ELSE r.images] :
     r \in Renames(m), D \in DeletedOf(m)}

\* image_configure_complete, and what follows it.
CheckSession(m) ==
  /\ session[m] # "none"
  /\ \/ SetStatus(m, "failed") /\ UNCHANGED ims
     \/ /\ session[m] = "succeeded"
        /\ \E outcome \in Outcomes(m) :
             /\ ims' = outcome.images
             /\ SetStatus(m, IF outcome.ok THEN "done" ELSE "failed")
  /\ UNCHANGED <<cache, session, ims_base>>

\* Without a configuration there is nothing left to do but the deletions.
FinishUncustomized(m) ==
  /\ \E D \in DeletedOf(m) : ims' = ims \ D
  /\ SetStatus(m, "done")
  /\ UNCHANGED <<cache, session, ims_base>>

CreationFails(m) ==
  /\ m \notin created
  /\ SetStatus(m, "failed")
  /\ UNCHANGED <<ims, cache, created, session, ims_base>>

CreationIsOver(m) ==
  /\ m \in created \/ job[m] = "success"
  /\ created' = created \cup {m}
  /\ IF m \notin customized THEN FinishUncustomized(m)
     ELSE BeginConfigure(m) \/ CheckSession(m)

\* member_has_completed.  A status that cannot be queried fails the image.
Check(m) ==
  /\ pc = "wait"
  /\ status[m] = "running"
  /\ CreationFails(m) \/ CreationIsOver(m)
  /\ UNCHANGED <<input, pc, plan, job>>

\* Fault: images that never began are not waited for.
NothingRuns == \A m \in toCreate : status[m] # "running"

WaiterIsDone ==
  \A m \in toCreate : status[m] # "running" /\ ~ Order!Ready(m)

\* The waiter returned: images failed, or all were created and their jobs are
\* cleaned up if the admin asked for it.
FinishImages ==
  /\ pc = "wait"
  /\ WaiterIsDone
  /\ \/ /\ \E m \in toCreate : status[m] = "failed"
        /\ pc' = "failed"
        /\ UNCHANGED job
     \/ /\ \A m \in toCreate : status[m] # "failed"
        /\ pc' = "clear"
        /\ \E S \in SUBSET {m \in toCreate : job[m] # "none"} :
             job' = [m \in Images |-> IF m \in S THEN "deleted" ELSE job[m]]
  /\ UNCHANGED <<ims, cache, input, plan, status, created, session, ims_base>>

CreateImages ==
  \/ GiveUp \/ HandleExisting \/ Validate \/ FinishImages
  \/ \E m \in Images : Begin(m) \/ Check(m)

ImageServices == \E m \in Images : JobEnds(m) \/ SessionEnds(m)
=============================================================================
