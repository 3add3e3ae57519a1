------------------------------- MODULE Bootprep -------------------------------
(***************************************************************************)
(* sat/cli/bootprep/main.py, do_bootprep_run: after the images of an input *)
(* file were created (ImageBuild), its BOS session templates are, each of  *)
(* them naming an image of the file or one that is in IMS (input/base.py,  *)
(* input/session_template.py).  CFS configurations come before the images  *)
(* and are independent of them.                                            *)
(***************************************************************************)
EXTENDS ImageBuild, TLC

VARIABLES
  items_to_create, \* the templates still to create, by the image they name
  failed_items,    \* the templates that could not be created
  template         \* the image each template in BOS was created for

vars == <<imageVars, items_to_create, failed_items, template>>
templateVars == <<items_to_create, failed_items, template>>

BootprepInit ==
  /\ Init
  /\ items_to_create = {}
  /\ failed_items = {}
  /\ template = [n \in Names |-> {}]

ClearCache ==
  /\ pc = "clear"
  /\ cache' = Cleared
  /\ pc' = "templates"
  /\ UNCHANGED <<ims, input, plan, status, progress, templateVars>>

\* handle_existing_items: the file names any templates, of which some may
\* exist and be skipped; the listing may fail, and the admin may abort.
HandleExistingTemplates ==
  /\ pc = "templates"
  /\ \/ pc' = "failed" /\ UNCHANGED items_to_create
     \/ pc' = "validate_templates" /\ items_to_create' \in SUBSET Names
  /\ UNCHANGED <<ims, cache, input, plan, status, progress, failed_items, template>>

\* validate_image_exists looks up the images that are not of the input file.
ValidateTemplates ==
  /\ pc = "validate_templates"
  /\ LET names == items_to_create \ Images
     IN  /\ IF names = {} THEN UNCHANGED cache ELSE cache' \in Lookups
         /\ IF \A n \in names : IsUnique(Matches(cache', n))
              THEN pc' \in {"create_templates", "failed"}
              ELSE pc' = "failed"
  /\ UNCHANGED <<ims, input, plan, status, progress, templateVars>>

\* create_items.  An image that is not found raises InputItemValidateError,
\* which nothing catches.
CreateTemplate(n) ==
  /\ pc = "create_templates"
  /\ n \in items_to_create
  /\ cache' \in Lookups
  /\ LET found == Matches(cache', n)
     IN  IF IsUnique(found)
           THEN /\ items_to_create' = items_to_create \ {n}
                /\ \/ /\ template' = [template EXCEPT ![n] = found]
                      /\ UNCHANGED failed_items
                   \/ failed_items' = failed_items \cup {n} /\ UNCHANGED template
                /\ UNCHANGED pc
           ELSE pc' = "crashed" /\ UNCHANGED templateVars
  /\ UNCHANGED <<ims, input, plan, status, progress>>

FinishTemplates ==
  /\ pc = "create_templates"
  /\ items_to_create = {}
  /\ pc' = IF failed_items = {} THEN "done" ELSE "failed"
  /\ UNCHANGED <<ims, cache, input, plan, status, progress, templateVars>>

Ended == pc \in {"done", "failed", "crashed"} /\ UNCHANGED vars

Next ==
  \/ (CreateImages \/ ImageServices) /\ UNCHANGED templateVars
  \/ ClearCache \/ HandleExistingTemplates \/ ValidateTemplates
  \/ \E n \in Names : CreateTemplate(n)
  \/ FinishTemplates \/ Ended

Spec == BootprepInit /\ [][Next]_vars

\* For TLC: no image is distinguished.
Renamings == Permutations(Images)

-----------------------------------------------------------------------------
TypeOK ==
  /\ customized \subseteq Images
  /\ base \in [Images -> {"recipe", "id"} \cup Names]
  /\ initial \subseteq Names
  /\ ims \subseteq ImageIds
  /\ cache.read \in {"no", "yes", "failed"} /\ cache.images \subseteq ImageIds
  /\ overwritten \subseteq toCreate /\ toCreate \subseteq Images
  /\ deps \in [Images -> SUBSET Images]
  /\ status \in [Images -> Order!Statuses]
  /\ created \subseteq Images
  /\ job \in [Images -> {"none", "running", "success", "error", "deleted"}]
  /\ session \in [Images -> {"none", "running", "succeeded", "failed"}]
  /\ ims_base \in [Images -> SUBSET ImageIds]
  /\ items_to_create \subseteq Names /\ failed_items \subseteq Names
  /\ template \in [Names -> SUBSET ImageIds]

\* Images that are there to be booted or customized under a name.
Usable(n) == {i \in Matches(Listing(ims), n) : i.kind # "partial"}

\* The input asks for a new image, and not just for a name for its base.
MakesAnImage(m) == base[m] = "recipe" \/ m \in customized

(* A name that had a usable image before has one at every moment, whatever  *)
(* fails on the way to a new image of that name (delete_overwritten_images *)
(* comes last).  Not for images with neither a recipe nor a configuration. *)
NamesStayUsable ==
  \A n \in initial : (n \in Images /\ ~ MakesAnImage(n)) \/ Usable(n) # {}

(* What existed is gone only if it was to be overwritten and the image that *)
(* takes its name is complete.                                             *)
KeptUnlessOverwritten ==
  \A n \in initial : Old(n) \in ims \/ (n \in overwritten /\ status[n] = "done")

(* When session templates are looked at, every image that was to be created *)
(* is in IMS under its name, whichever images depended on which: the waiter*)
(* reported no failure, so it forgot no image.                             *)
SuccessMeansCreated ==
  pc \in {"clear", "templates", "validate_templates", "create_templates", "done"} =>
    \A m \in toCreate : MakesAnImage(m) =>
      \E i \in Usable(m) : i.kind # "old"

IsNew(images) == \A i \in images : i.kind # "old"

\* Every image starts from a recipe, from an image given by its id, or from
\* image d of the input file.
OnlyBase(d) ==
  /\ d \in toCreate /\ MakesAnImage(d)
  /\ \A m \in toCreate : base[m] \in {"recipe", "id"} \/ deps[m] = {d}

(* The example of find_image_dependencies: images that start from one image *)
(* of the file are customized from the image that was made for it, not from*)
(* the one of that name it replaces.  With several such bases, or a base   *)
(* that is looked up in IMS first, the listing of the client may be older. *)
SharedBaseIsUsed ==
  \A d \in Images : OnlyBase(d) =>
    \A m \in Images : session[m] # "none" /\ deps[m] = {d} => IsNew(ims_base[m])

(* The comment at main.py:201: clearing the cache makes the images that were*)
(* created known to the session templates that name them.                  *)
TemplatesUseNewImages ==
  \A m \in toCreate : MakesAnImage(m) => IsNew(template[m])
=============================================================================
