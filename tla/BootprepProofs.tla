---------------------------- MODULE BootprepProofs ----------------------------
(***************************************************************************)
(* What is proved of sat bootprep, for any images and whatever fails: it   *)
(* deletes no image but one it was told to overwrite and whose successor is*)
(* complete; a name that had an image has one; success means that all were *)
(* created; images that share a base of the file are made from it; and the *)
(* type invariant.                                                         *)
(***************************************************************************)
EXTENDS Bootprep, TLAPS

\* The part of the types the argument needs.
Shapes ==
  /\ status \in [Images -> {"waiting", "running", "done", "failed"}]
  /\ overwritten \subseteq Images

\* Nothing is deleted before it is known what is to be overwritten.
NotDecided == pc = "existing" => overwritten = {}

Inv == Shapes /\ NotDecided /\ KeptUnlessOverwritten

\* What a finished or failed renaming leaves of the images that were there.
LEMMA RenamesKeepOld ==
  ASSUME NEW m \in Images, NEW r \in Renames(m), NEW n, Old(n) \in ims
  PROVE  Old(n) \in r.images
  BY DEF Renames, Old, Image

\* A member that completes may lose the images it overwrites, any other none.
LEMMA OutcomesKeepOld ==
  ASSUME NEW m \in Images, NEW r \in Outcomes(m), NEW n, Old(n) \in ims
  PROVE  Old(n) \in r.images \/ (r.ok /\ n = m /\ m \in overwritten)
<1>1. PICK q \in Renames(m), D \in DeletedOf(m) :
        r = [ok |-> q.ok, images |-> IF q.ok THEN q.images \ D ELSE q.images]
  BY DEF Outcomes
<1>2. Old(n) \in q.images
  BY RenamesKeepOld
<1>3. Old(n) \in D => n = m /\ m \in overwritten
  BY DEF DeletedOf, Old, Image
<1> QED BY <1>1, <1>2, <1>3

LEMMA InitInv == BootprepInit => Inv
  BY DEF BootprepInit, Init, Inv, Shapes, NotDecided, KeptUnlessOverwritten

\* The one action that deletes.
LEMMA CheckInv ==
  ASSUME Inv, NEW m \in Images, Check(m)
  PROVE  Inv'
<1>1. /\ status[m] = "running"
      /\ pc' = pc /\ pc = "wait"
      /\ UNCHANGED <<initial, overwritten>>
  BY DEF Check, input, plan
<1>2. \A n \in Images : status[n] = "done" => n # m
  BY <1>1
<1>3. /\ \E s \in {"running", "done", "failed"} : status' = [status EXCEPT ![m] = s]
      /\ \A n : Old(n) \in ims =>
           Old(n) \in ims' \/ (n = m /\ m \in overwritten /\ status'[m] = "done")
  <2>1. CASE CreationFails(m)
    BY <2>1 DEF CreationFails, SetStatus
  <2>2. CASE m \notin customized /\ FinishUncustomized(m)
    BY <2>2 DEF FinishUncustomized, DeletedOf, Old, Image, SetStatus, Inv, Shapes
  <2>3. CASE BeginConfigure(m)
    <3>1. status' = status \/ SetStatus(m, "failed")
      BY <2>3 DEF BeginConfigure
    <3>2. status = [status EXCEPT ![m] = "running"]
      BY <1>1 DEF Inv, Shapes
    <3> QED BY <2>3, <3>1, <3>2 DEF BeginConfigure, SetStatus
  <2>4. CASE CheckSession(m)
    <3>1. CASE SetStatus(m, "failed") /\ UNCHANGED ims
      BY <3>1 DEF SetStatus
    <3>2. CASE \E outcome \in Outcomes(m) :
                 /\ ims' = outcome.images
                 /\ SetStatus(m, IF outcome.ok THEN "done" ELSE "failed")
      <4>1. PICK r \in Outcomes(m) :
              /\ ims' = r.images
              /\ SetStatus(m, IF r.ok THEN "done" ELSE "failed")
        BY <3>2
      <4>2. \A n : Old(n) \in ims => Old(n) \in r.images \/ (r.ok /\ n = m /\ m \in overwritten)
        BY OutcomesKeepOld
      <4>3. r.ok => status'[m] = "done"
        BY <4>1 DEF SetStatus, Inv, Shapes
      <4> QED BY <4>1, <4>2, <4>3 DEF SetStatus
    <3> QED BY <2>4, <3>1, <3>2 DEF CheckSession
  <2> QED BY <2>1, <2>2, <2>3, <2>4 DEF Check, CreationIsOver
<1>4. Shapes'
  BY <1>1, <1>3 DEF Inv, Shapes
<1>5. NotDecided'
  BY <1>1 DEF NotDecided
<1>6. KeptUnlessOverwritten'
  <2> SUFFICES ASSUME NEW n \in initial, Old(n) \notin ims'
               PROVE  n \in overwritten /\ status'[n] = "done"
    BY <1>1 DEF KeptUnlessOverwritten, Old, Image
  <2>1. CASE Old(n) \in ims
    BY <2>1, <1>3
  <2>2. CASE Old(n) \notin ims
    <3>1. n \in overwritten /\ status[n] = "done"
      BY <2>2 DEF Inv, KeptUnlessOverwritten
    <3>2. n # m /\ n \in Images
      BY <3>1, <1>2 DEF Inv, Shapes
    <3> QED BY <3>1, <3>2, <1>3 DEF Inv, Shapes
  <2> QED BY <2>1, <2>2
<1> QED BY <1>4, <1>5, <1>6 DEF Inv

\* A step that changes no image, no plan and no status.
LEMMA QuietInv ==
  ASSUME Inv, UNCHANGED <<initial, overwritten, status>>,
         ims \subseteq ims', pc' # "existing" \/ pc = "existing"
  PROVE  Inv'
  BY DEF Inv, Shapes, NotDecided, KeptUnlessOverwritten, Old, Image

LEMMA NextInv == Inv /\ [Next]_vars => Inv'
<1> SUFFICES ASSUME Inv, [Next]_vars PROVE Inv'
  OBVIOUS
<1> USE DEF input, plan, progress, imageVars, templateVars
<1>1. CASE GiveUp
  BY <1>1, QuietInv DEF GiveUp
<1>2. CASE HandleExisting
  <2>1. \A n \in initial : Old(n) \in ims
    BY <1>2 DEF HandleExisting, Inv, NotDecided, KeptUnlessOverwritten
  <2>2. overwritten' \subseteq Images
    BY <1>2 DEF HandleExisting, SkipOrOverwrite, Inv, Shapes
  <2> QED BY <1>2, <2>1, <2>2
        DEF HandleExisting, Inv, Shapes, NotDecided, KeptUnlessOverwritten, Old, Image
<1>3. CASE Validate
  BY <1>3, QuietInv DEF Validate
<1>4. CASE FinishImages
  BY <1>4, QuietInv DEF FinishImages
<1>5. ASSUME NEW m \in Images, Begin(m) PROVE Inv'
  <2>1. status[m] = "waiting" /\ UNCHANGED <<ims, initial, overwritten, pc>>
    BY <1>5 DEF Begin, Order!Ready
  <2>2. \E s \in {"running", "failed"} : status' = [status EXCEPT ![m] = s]
    BY <1>5 DEF Begin, SetStatus
  <2> QED BY <2>1, <2>2 DEF Inv, Shapes, NotDecided, KeptUnlessOverwritten, Old, Image
<1>6. ASSUME NEW m \in Images, Check(m) PROVE Inv'
  BY <1>6, CheckInv
<1>7. ASSUME NEW m \in Images, JobEnds(m) \/ SessionEnds(m) PROVE Inv'
  BY <1>7, QuietInv DEF JobEnds, SessionEnds
<1>8. CASE ClearCache \/ HandleExistingTemplates \/ ValidateTemplates \/ FinishTemplates \/ Ended
  BY <1>8, QuietInv DEF ClearCache, HandleExistingTemplates, ValidateTemplates,
                        FinishTemplates, Ended, vars
<1>9. ASSUME NEW n \in Names, CreateTemplate(n) PROVE Inv'
  BY <1>9, QuietInv DEF CreateTemplate
<1>10. CASE UNCHANGED vars
  BY <1>10, QuietInv DEF vars
<1> QED BY <1>1, <1>2, <1>3, <1>4, <1>5, <1>6, <1>7, <1>8, <1>9, <1>10
      DEF Next, CreateImages, ImageServices

(* What existed is gone only if it was to be overwritten and the image that *)
(* takes its name is complete, for any images, dependencies and failures.  *)
THEOREM OnlyOverwrittenImagesGo == Spec => []KeptUnlessOverwritten
<1>1. Inv => KeptUnlessOverwritten
  BY DEF Inv
<1> QED BY InitInv, NextInv, <1>1, PTL DEF Spec

-----------------------------------------------------------------------------
(* That nothing is missing when the images are reported to be created.     *)

AfterImages == {"clear", "templates", "validate_templates", "create_templates", "done"}

Types ==
  /\ Shapes
  /\ toCreate \subseteq Images
  /\ deps \in [Images -> SUBSET Images]
  /\ job \in [Images -> {"none", "running", "success", "error", "deleted"}]

\* The waiter only starts on an acyclic graph of images to be created.
Planned ==
  pc = "wait" => Acyclic(deps) /\ \A m \in Images : deps[m] \subseteq toCreate

\* A job that succeeded has left an image.
Built ==
  \A m \in Images :
    job[m] = "success" \/ (m \in created /\ base[m] = "recipe") =>
      Image("built", m) \in ims

HasNewImage(m) ==
  Image("renamed", m) \in ims \/ (m \notin customized /\ Image("built", m) \in ims)

Made == \A m \in Images : status[m] = "done" /\ MakesAnImage(m) => HasNewImage(m)

AllDone == pc \in AfterImages => \A m \in toCreate : status[m] = "done"

CreatedInv == Types /\ Planned /\ Built /\ Made /\ AllDone

LEMMA NewImageIsUsable ==
  ASSUME NEW m \in Images, HasNewImage(m)
  PROVE  \E i \in Usable(m) : i.kind # "old"
<1>1. CASE Image("renamed", m) \in ims
  <2>1. Image("renamed", m) \in Usable(m)
    BY <1>1 DEF Usable, Matches, Listing, HasName, Image
  <2>2. Image("renamed", m).kind # "old"
    BY DEF Image
  <2> QED BY <2>1, <2>2
<1>2. CASE m \notin customized /\ Image("built", m) \in ims
  <2>1. Image("built", m) \in Usable(m)
    BY <1>2 DEF Usable, Matches, Listing, HasName, Image
  <2>2. Image("built", m).kind # "old"
    BY DEF Image
  <2> QED BY <2>1, <2>2
<1> QED BY <1>1, <1>2 DEF HasNewImage

LEMMA CreatedImplies == CreatedInv => SuccessMeansCreated
  BY NewImageIsUsable DEF CreatedInv, AllDone, AfterImages, Made, SuccessMeansCreated, Types

\* In an acyclic graph something is ready as long as something waits and
\* nothing runs or has failed: no image is forgotten.
LEMMA NothingForgotten ==
  ASSUME Types, Planned, pc = "wait", WaiterIsDone,
         \A m \in toCreate : status[m] # "failed"
  PROVE  \A m \in toCreate : status[m] = "done"
<1> DEFINE S == {m \in toCreate : status[m] = "waiting"}
<1>1. \A m \in toCreate : status[m] \in {"waiting", "done"}
  BY DEF Types, Shapes, WaiterIsDone
<1>2. SUFFICES S = {}
  BY <1>1
<1>3. SUFFICES ASSUME S # {} PROVE FALSE
  OBVIOUS
<1>4. S \in (SUBSET Images) \ {{}}
  BY <1>3 DEF Types
<1>5. PICK m \in S : deps[m] \cap S = {}
  BY <1>4 DEF Planned, Acyclic
<1>6. \A d \in deps[m] : status[d] = "done"
  BY <1>1, <1>5 DEF Planned, Types
<1> QED BY <1>5, <1>6 DEF WaiterIsDone, Order!Ready

LEMMA InitCreatedInv == BootprepInit => CreatedInv
  BY DEF BootprepInit, Init, CreatedInv, Types, Shapes, Planned, Built, Made,
         AllDone, AfterImages

\* No outcome takes a built or renamed image away.
LEMMA OutcomesKeepNew ==
  ASSUME NEW m \in Images, NEW r \in Outcomes(m), NEW i \in ims,
         i.kind \in {"built", "renamed"}
  PROVE  i \in r.images
<1>1. PICK q \in Renames(m), D \in DeletedOf(m) :
        r = [ok |-> q.ok, images |-> IF q.ok THEN q.images \ D ELSE q.images]
  BY DEF Outcomes
<1>2. i \in q.images
  BY DEF Renames, Image
<1>3. i \notin D
  BY DEF DeletedOf, Old, Image
<1> QED BY <1>1, <1>2, <1>3

LEMMA OutcomesRename ==
  ASSUME NEW m \in Images, NEW r \in Outcomes(m), r.ok
  PROVE  Image("renamed", m) \in r.images
<1>1. PICK q \in Renames(m), D \in DeletedOf(m) :
        r = [ok |-> q.ok, images |-> IF q.ok THEN q.images \ D ELSE q.images]
  BY DEF Outcomes
<1>2. q.ok /\ Image("renamed", m) \in q.images
  BY <1>1 DEF Renames, Image
<1>3. Image("renamed", m) \notin D
  BY DEF DeletedOf, Old, Image
<1> QED BY <1>1, <1>2, <1>3

\* One check of an image: nothing new is lost, and it ends with its image.
LEMMA CheckMakes ==
  ASSUME CreatedInv, NEW m \in Images, Check(m)
  PROVE  /\ \A i \in ims : i.kind \in {"built", "renamed"} => i \in ims'
         /\ created' = created
              \/ (created' = created \cup {m} /\ (m \in created \/ job[m] = "success"))
         /\ \E s \in {"running", "done", "failed"} :
              /\ status' = [status EXCEPT ![m] = s]
              /\ s = "done" /\ MakesAnImage(m) => HasNewImage(m)'
<1>0. status[m] = "running" /\ UNCHANGED <<customized, base, job>>
  BY DEF Check, input
<1>1. CASE CreationFails(m)
  BY <1>1 DEF CreationFails, SetStatus
<1>2. CASE CreationIsOver(m)
  <2>1. created' = created \cup {m} /\ (m \in created \/ job[m] = "success")
    BY <1>2 DEF CreationIsOver
  <2>2. CASE m \notin customized /\ FinishUncustomized(m)
    <3>1. \A i \in ims : i.kind \in {"built", "renamed"} => i \in ims'
      BY <2>2 DEF FinishUncustomized, DeletedOf, Old, Image
    <3>2. MakesAnImage(m) => Image("built", m) \in ims
      BY <2>1, <2>2 DEF MakesAnImage, CreatedInv, Built
    <3>3. MakesAnImage(m) => HasNewImage(m)'
      BY <3>1, <3>2, <2>2, <1>0 DEF HasNewImage, Image
    <3> QED BY <2>1, <2>2, <3>1, <3>3 DEF FinishUncustomized, SetStatus
  <2>3. CASE BeginConfigure(m)
    <3>1. status' = status \/ status' = [status EXCEPT ![m] = "failed"]
      BY <2>3 DEF BeginConfigure, SetStatus
    <3>2. status = [status EXCEPT ![m] = "running"]
      BY <1>0 DEF CreatedInv, Types, Shapes
    <3>3. ims' = ims
      BY <2>3 DEF BeginConfigure
    <3> QED BY <2>1, <3>1, <3>2, <3>3
  <2>4. CASE CheckSession(m)
    <3>1. CASE SetStatus(m, "failed") /\ UNCHANGED ims
      BY <2>1, <3>1 DEF SetStatus
    <3>2. CASE \E outcome \in Outcomes(m) :
                 /\ ims' = outcome.images
                 /\ SetStatus(m, IF outcome.ok THEN "done" ELSE "failed")
      <4>1. PICK r \in Outcomes(m) :
              /\ ims' = r.images
              /\ SetStatus(m, IF r.ok THEN "done" ELSE "failed")
        BY <3>2
      <4>2. \A i \in ims : i.kind \in {"built", "renamed"} => i \in ims'
        BY <4>1, OutcomesKeepNew
      <4>3. r.ok => HasNewImage(m)'
        BY <4>1, OutcomesRename DEF HasNewImage
      <4>4. CASE r.ok
        BY <2>1, <4>1, <4>2, <4>3, <4>4 DEF SetStatus
      <4>5. CASE ~ r.ok
        BY <2>1, <4>1, <4>2, <4>5 DEF SetStatus
      <4> QED BY <4>4, <4>5
    <3> QED BY <2>4, <3>1, <3>2 DEF CheckSession
  <2> QED BY <1>2, <2>2, <2>3, <2>4 DEF CreationIsOver
<1> QED BY <1>1, <1>2 DEF Check

LEMMA CheckCreatedInv ==
  ASSUME CreatedInv, NEW m \in Images, Check(m)
  PROVE  CreatedInv'
<1>1. /\ pc = "wait" /\ status[m] = "running"
      /\ UNCHANGED <<customized, base, pc, overwritten, toCreate, deps, job>>
  BY DEF Check, input, plan
<1>2. PICK s \in {"running", "done", "failed"} :
        /\ status' = [status EXCEPT ![m] = s]
        /\ s = "done" /\ MakesAnImage(m) => HasNewImage(m)'
  BY CheckMakes
<1>3. \A i \in ims : i.kind \in {"built", "renamed"} => i \in ims'
  BY CheckMakes
<1>4. \A n \in Images : n \in created' => n \in created \/ (n = m /\ job[m] = "success")
  BY CheckMakes
<1>5. \A n : /\ Image("built", n) \in ims => Image("built", n) \in ims'
             /\ Image("renamed", n) \in ims => Image("renamed", n) \in ims'
  BY <1>3 DEF Image
<1>6. Types'
  BY <1>1, <1>2 DEF CreatedInv, Types, Shapes
<1>7. Planned' /\ AllDone'
  BY <1>1 DEF CreatedInv, Planned, AllDone, AfterImages, Acyclic
<1>8. Built'
  BY <1>1, <1>4, <1>5 DEF CreatedInv, Built
<1>9. Made'
  <2> SUFFICES ASSUME NEW n \in Images, status'[n] = "done", MakesAnImage(n)'
               PROVE  HasNewImage(n)'
    BY DEF Made
  <2>1. CASE n = m
    BY <2>1, <1>1, <1>2 DEF CreatedInv, Types, Shapes, MakesAnImage
  <2>2. CASE n # m
    <3>1. HasNewImage(n)
      BY <2>2, <1>1, <1>2 DEF CreatedInv, Types, Shapes, Made, MakesAnImage
    <3> QED BY <3>1, <1>1, <1>5 DEF HasNewImage
  <2> QED BY <2>1, <2>2
<1> QED BY <1>6, <1>7, <1>8, <1>9 DEF CreatedInv

\* A step after the waiter, or one that changes neither plan nor status.
LEMMA QuietCreatedInv ==
  ASSUME CreatedInv,
         UNCHANGED <<customized, base, ims, overwritten, toCreate, deps, status,
                     created, job>>,
         pc' # "wait" \/ pc = "wait",
         pc' \in AfterImages => pc \in AfterImages
  PROVE  CreatedInv'
  BY DEF CreatedInv, Types, Shapes, Planned, Built, Made, AllDone, HasNewImage,
         MakesAnImage, Acyclic

LEMMA NextCreatedInv == CreatedInv /\ [Next]_vars => CreatedInv'
<1> SUFFICES ASSUME CreatedInv, [Next]_vars PROVE CreatedInv'
  OBVIOUS
<1> USE DEF input, plan, progress, imageVars, templateVars
<1>1. CASE GiveUp
  BY <1>1, QuietCreatedInv DEF GiveUp, AfterImages
<1>2. CASE HandleExisting
  <2>1. toCreate' \subseteq Images /\ overwritten' \subseteq Images
    BY <1>2 DEF HandleExisting, SkipOrOverwrite, CreatedInv, Types, Shapes
  <2>2. Types'
    BY <1>2, <2>1 DEF HandleExisting, CreatedInv, Types, Shapes
  <2> QED BY <1>2, <2>2 DEF HandleExisting, CreatedInv, Planned, Built, Made, AllDone,
                            AfterImages, HasNewImage, MakesAnImage
<1>3. CASE Validate
  <2>1. \A m \in Images : deps'[m] = Dependencies(m) /\ Dependencies(m) \subseteq toCreate
    BY <1>3 DEF Validate, Dependencies
  <2>2. Types'
    BY <1>3, <2>1 DEF Validate, CreatedInv, Types, Shapes
  <2>3. Planned'
    BY <1>3, <2>1 DEF Validate, Planned, Acyclic
  <2> QED BY <1>3, <2>2, <2>3 DEF Validate, CreatedInv, Built, Made, AllDone,
                                  AfterImages, HasNewImage, MakesAnImage
<1>4. CASE FinishImages
  <2>1. /\ pc = "wait" /\ pc' \in {"failed", "clear"}
        /\ UNCHANGED <<customized, base, ims, overwritten, toCreate, deps, status, created>>
    BY <1>4 DEF FinishImages
  <2>2. /\ job' \in [Images -> {"none", "running", "success", "error", "deleted"}]
        /\ \A m \in Images : job'[m] = "success" => job[m] = "success"
    BY <1>4 DEF FinishImages, CreatedInv, Types
  <2>3. AllDone'
    BY <1>4, <2>1, NothingForgotten DEF FinishImages, CreatedInv, AllDone, AfterImages
  <2> QED BY <2>1, <2>2, <2>3 DEF CreatedInv, Types, Shapes, Planned, Built, Made,
                                  HasNewImage, MakesAnImage
<1>5. ASSUME NEW m \in Images, Begin(m) PROVE CreatedInv'
  <2>1. /\ pc = "wait" /\ status[m] = "waiting"
        /\ UNCHANGED <<customized, base, ims, pc, overwritten, toCreate, deps>>
    BY <1>5 DEF Begin, Order!Ready
  <2>2. \E s \in {"running", "failed"} : status' = [status EXCEPT ![m] = s]
    BY <1>5 DEF Begin, SetStatus
  <2>3. job' = job \/ job' = [job EXCEPT ![m] = "running"]
    BY <1>5 DEF Begin
  <2>4. created' = created \/ (base[m] # "recipe" /\ created' = created \cup {m})
    BY <1>5 DEF Begin
  <2>5. Types'
    BY <2>1, <2>2, <2>3 DEF CreatedInv, Types, Shapes
  <2>6. Planned' /\ AllDone'
    BY <2>1 DEF CreatedInv, Planned, AllDone, AfterImages, Acyclic
  <2>7. Built'
    BY <2>1, <2>3, <2>4 DEF CreatedInv, Types, Built
  <2>8. Made'
    BY <2>1, <2>2 DEF CreatedInv, Types, Shapes, Made, HasNewImage, MakesAnImage
  <2> QED BY <2>5, <2>6, <2>7, <2>8 DEF CreatedInv
<1>6. ASSUME NEW m \in Images, Check(m) PROVE CreatedInv'
  BY <1>6, CheckCreatedInv
<1>7. ASSUME NEW m \in Images, JobEnds(m) PROVE CreatedInv'
  <2>1. UNCHANGED <<customized, base, pc, overwritten, toCreate, deps, status, created>>
    BY <1>7 DEF JobEnds
  <2>2. /\ \E s \in {"success", "error"} : job' = [job EXCEPT ![m] = s]
        /\ ims \subseteq ims'
        /\ job'[m] = "success" => Image("built", m) \in ims'
    BY <1>7 DEF JobEnds, CreatedInv, Types
  <2> QED BY <2>1, <2>2 DEF CreatedInv, Types, Shapes, Planned, Built, Made, AllDone,
                            HasNewImage, MakesAnImage, Acyclic
<1>8. ASSUME NEW m \in Images, SessionEnds(m) PROVE CreatedInv'
  <2>1. /\ UNCHANGED <<customized, base, pc, overwritten, toCreate, deps, status,
                       created, job>>
        /\ ims \subseteq ims'
    BY <1>8 DEF SessionEnds
  <2> QED BY <2>1 DEF CreatedInv, Types, Shapes, Planned, Built, Made, AllDone,
                      HasNewImage, MakesAnImage, Acyclic
<1>9. CASE ClearCache \/ HandleExistingTemplates \/ ValidateTemplates \/ FinishTemplates \/ Ended
  BY <1>9, QuietCreatedInv
  DEF ClearCache, HandleExistingTemplates, ValidateTemplates, FinishTemplates, Ended,
      AfterImages, vars
<1>10. ASSUME NEW n \in Names, CreateTemplate(n) PROVE CreatedInv'
  BY <1>10, QuietCreatedInv DEF CreateTemplate, AfterImages
<1>11. CASE UNCHANGED vars
  BY <1>11, QuietCreatedInv DEF vars
<1> QED BY <1>1, <1>2, <1>3, <1>4, <1>5, <1>6, <1>7, <1>8, <1>9, <1>10, <1>11
      DEF Next, CreateImages, ImageServices

(* When session templates are looked at, every image that was to be created *)
(* is in IMS under its name: no image is forgotten, whatever the graph.    *)
THEOREM CreatedImagesAreThere == Spec => []SuccessMeansCreated
  BY InitCreatedInv, NextCreatedInv, CreatedImplies, PTL DEF Spec

\* An old image goes only when the new one is there.
LEMMA NamesImplied == Inv /\ CreatedInv => NamesStayUsable
<1> SUFFICES ASSUME Inv, CreatedInv, NEW n \in initial,
                    ~ (n \in Images /\ ~ MakesAnImage(n))
             PROVE  Usable(n) # {}
  BY DEF NamesStayUsable
<1>1. CASE Old(n) \in ims
  BY <1>1 DEF Usable, Matches, Listing, HasName, Old, Image
<1>2. CASE Old(n) \notin ims
  <2>1. n \in Images /\ status[n] = "done"
    BY <1>2 DEF Inv, KeptUnlessOverwritten, Shapes
  <2>2. HasNewImage(n)
    BY <2>1 DEF CreatedInv, Made
  <2> QED BY <2>1, <2>2, NewImageIsUsable
<1> QED BY <1>1, <1>2

(* A name that had a usable image has one at every moment, whatever fails   *)
(* on the way to its successor.                                            *)
THEOREM NamesRemainUsable == Spec => []NamesStayUsable
  BY InitInv, NextInv, InitCreatedInv, NextCreatedInv, NamesImplied, PTL DEF Spec

-----------------------------------------------------------------------------
(***************************************************************************)
(* That images which start from one common image of the file get the new   *)
(* one.  Nothing reads the listing of images before that image is done, so *)
(* the listing, once there, has the new image of that name; if it has the  *)
(* old one as well, the name is ambiguous and the dependent image fails.   *)
(***************************************************************************)
FoundNew(d) ==
  Matches(cache, d) = {} \/ \E i \in Matches(cache, d) : i.kind # "old"

BaseTypes ==
  /\ session \in [Images -> {"none", "running", "succeeded", "failed"}]
  /\ ims_base = [m \in Images |-> ims_base[m]]

\* Nothing is looked up, and nothing begins, before the plan is made.
BeforePlan ==
  pc \in {"existing", "validate"} =>
    /\ cache = Unread
    /\ \A m \in Images : deps[m] = {} /\ session[m] = "none" /\ status[m] = "waiting"

DepsDone ==
  \A m \in Images :
    /\ status[m] # "waiting" => m \in toCreate
    /\ status[m] = "running" => \A x \in deps[m] : status[x] = "done"

BasesKnown ==
  pc = "wait" => \A m \in toCreate :
    /\ base[m] = "id" => ims_base[m] # {}
    /\ \A d \in Images : deps[m] = {d} =>
         base[m] = d /\ (session[m] = "none" => ims_base[m] = {})

NewBases ==
  \A d \in Images : OnlyBase(d) =>
    /\ pc = "wait" => FoundNew(d)
    /\ \A m \in Images : session[m] # "none" /\ deps[m] = {d} => IsNew(ims_base[m])

BaseInv == BaseTypes /\ BeforePlan /\ DepsDone /\ BasesKnown /\ NewBases

LEMMA InitBaseInv == BootprepInit => BaseInv
<1> SUFFICES ASSUME BootprepInit PROVE BaseInv
  OBVIOUS
<1>1. BaseTypes /\ BeforePlan
  BY DEF BootprepInit, Init, BaseTypes, BeforePlan
<1>2. \A m \in Images : status[m] = "waiting" /\ session[m] = "none" /\ pc = "existing"
  BY DEF BootprepInit, Init
<1> QED
  BY <1>1, <1>2 DEF BaseInv, DepsDone, BasesKnown, NewBases, BootprepInit, Init

\* A listing made when an image is done has its new image.
LEMMA LookupFindsNew ==
  ASSUME CreatedInv, NEW d \in Images, status[d] = "done", MakesAnImage(d),
         FoundNew(d), NEW listing \in Lookups
  PROVE  Matches(listing, d) = {} \/ \E i \in Matches(listing, d) : i.kind # "old"
<1>1. CASE listing = cache
  BY <1>1 DEF FoundNew
<1>2. CASE listing = Unreadable
  BY <1>2 DEF Matches, Unreadable
<1>3. CASE listing = Listing(ims)
  <2>1. HasNewImage(d)
    BY DEF CreatedInv, Made
  <2>2. PICK i \in Usable(d) : i.kind # "old"
    BY <2>1, NewImageIsUsable
  <2>3. i \in Matches(Listing(ims), d)
    BY DEF Usable
  <2> QED
    BY <1>3, <2>2, <2>3
<1> QED
  BY <1>1, <1>2, <1>3 DEF Lookups

LEMMA CheckNewBases ==
  ASSUME CreatedInv, BaseInv, NEW m \in Images, Check(m)
  PROVE  BaseInv'
<1>1. /\ pc = "wait" /\ status[m] = "running" /\ m \in toCreate
      /\ UNCHANGED <<customized, base, pc, toCreate, deps>>
  BY DEF Check, input, plan, BaseInv, DepsDone
<1>2. PICK s \in {"running", "done", "failed"} : status' = [status EXCEPT ![m] = s]
  BY CheckMakes
<1>3. status \in [Images -> {"waiting", "running", "done", "failed"}]
  BY DEF CreatedInv, Types, Shapes
<1>4. BeforePlan' /\ DepsDone'
  BY <1>1, <1>2, <1>3 DEF BaseInv, BeforePlan, DepsDone
<1>5. CASE UNCHANGED <<cache, session, ims_base>>
  BY <1>1, <1>4, <1>5 DEF BaseInv, BaseTypes, BasesKnown, NewBases, OnlyBase, MakesAnImage, FoundNew,
                          Matches, HasName
<1>6. CASE BeginConfigure(m)
  <2>1. /\ session[m] = "none" /\ cache' \in SourceLookups(m)
        /\ \/ UNCHANGED <<session, ims_base>>
           \/ /\ IsUnique(Sources(m, cache'))
              /\ ims_base' = [ims_base EXCEPT ![m] = Sources(m, cache')]
              /\ session' = [session EXCEPT ![m] = "running"]
    BY <1>6 DEF BeginConfigure
  <2>2. ASSUME NEW d \in Images, OnlyBase(d)
        PROVE  /\ FoundNew(d)'
               /\ deps[m] = {d} /\ session'[m] # "none" => IsNew(ims_base'[m])
    <3>1. FoundNew(d)
      BY <1>1, <2>2 DEF BaseInv, NewBases
    <3>2. CASE deps[m] = {d}
      <4>1. base[m] = d /\ base[m] # "recipe" /\ ims_base[m] = {} /\ status[d] = "done"
        BY <1>1, <2>1, <3>2, NamesAssumption DEF BaseInv, BasesKnown, DepsDone, Names
      <4>2. cache' \in Lookups /\ Sources(m, cache') = Matches(cache', d)
        BY <2>1, <4>1 DEF SourceLookups, Sources
      <4>3. Matches(cache', d) = {} \/ \E i \in Matches(cache', d) : i.kind # "old"
        BY <2>2, <3>1, <4>1, <4>2, LookupFindsNew DEF OnlyBase
      <4>4. IsUnique(Matches(cache', d)) => IsNew(Matches(cache', d))
        BY <4>3 DEF IsUnique, IsNew
      <4>5. session'[m] # "none" => IsNew(ims_base'[m])
        BY <2>1, <4>2, <4>4 DEF BaseInv, BaseTypes
      <4>6. FoundNew(d)'
        BY <4>3, <1>6, <1>1 DEF FoundNew, Matches, HasName
      <4> QED
        BY <4>5, <4>6
    <3>3. CASE deps[m] # {d}
      <4>1. base[m] = "recipe" \/ ims_base[m] # {}
        BY <1>1, <2>2, <3>3 DEF OnlyBase, BaseInv, BasesKnown
      <4>2. cache' = cache
        BY <2>1, <4>1 DEF SourceLookups
      <4> QED
        BY <1>1, <3>1, <3>3, <4>2 DEF FoundNew, Matches, HasName
    <3> QED
      BY <3>2, <3>3
  <2>3. BaseTypes'
    BY <2>1 DEF BaseInv, BaseTypes
  <2>4. \A x \in Images \ {m} : session'[x] = session[x] /\ ims_base'[x] = ims_base[x]
    BY <2>1 DEF BaseInv, BaseTypes
  <2>5. (session'[m] = "none" => ims_base'[m] = ims_base[m])
        /\ (ims_base[m] # {} => ims_base'[m] # {})
    BY <2>1 DEF BaseInv, BaseTypes, IsUnique
  <2>6. BasesKnown'
    BY <1>1, <2>1, <2>4, <2>5 DEF BaseInv, BasesKnown, CreatedInv, Types
  <2>7. NewBases'
    <3> SUFFICES ASSUME NEW d \in Images, OnlyBase(d)'
                 PROVE  /\ FoundNew(d)'
                        /\ \A x \in Images : session'[x] # "none" /\ deps'[x] = {d} => IsNew(ims_base'[x])
      BY DEF NewBases, IsNew
    <3>1. OnlyBase(d)
      BY <1>1 DEF OnlyBase, MakesAnImage
    <3>2. \A x \in Images : session[x] # "none" /\ deps[x] = {d} => IsNew(ims_base[x])
      BY <3>1 DEF BaseInv, NewBases
    <3> QED
      BY <1>1, <2>2, <2>4, <3>1, <3>2 DEF IsNew
  <2> QED
    BY <1>4, <2>3, <2>6, <2>7 DEF BaseInv
<1>7. UNCHANGED <<cache, session, ims_base>> \/ BeginConfigure(m)
  BY DEF Check, CreationFails, CreationIsOver, FinishUncustomized, CheckSession
<1> QED
  BY <1>5, <1>6, <1>7

LEMMA ValidateBaseInv ==
  ASSUME CreatedInv, BaseInv, Validate
  PROVE  BaseInv'
<1>1. /\ pc = "validate" /\ pc' = "wait"
      /\ UNCHANGED <<customized, base, toCreate, status, session>>
      /\ \A m \in Images : deps'[m] = Dependencies(m)
      /\ \A m \in Images : ims_base'[m] = ResolvedBase(m, cache')
      /\ ims_base' = [m \in Images |-> ims_base'[m]]
  BY DEF Validate, input
<1>2. \A m \in Images : session[m] = "none" /\ status[m] = "waiting"
  BY <1>1 DEF BaseInv, BeforePlan
<1>3. \A m \in Images : base[m] = "id" => m \notin NamedBases
  BY NamesAssumption DEF NamedBases
<1>4. BasesKnown'
  <2> SUFFICES ASSUME NEW m \in toCreate
               PROVE  /\ base[m] = "id" => ims_base'[m] # {}
                      /\ \A d \in Images : deps'[m] = {d} => base[m] = d /\ ims_base'[m] = {}
    BY <1>1 DEF BasesKnown
  <2>1. m \in Images
    BY DEF CreatedInv, Types
  <2>2. base[m] = "id" => ims_base'[m] # {}
    BY <1>1, <1>3, <2>1 DEF ResolvedBase
  <2>3. ASSUME NEW d \in Images, deps'[m] = {d}
        PROVE  base[m] = d /\ ims_base'[m] = {}
    <3>1. Dependencies(m) = {base[m]} /\ base[m] = d /\ m \notin NamedBases
      BY <1>1, <2>1, <2>3 DEF Dependencies, NamedBases
    <3> QED
      BY <1>1, <2>1, <3>1, NamesAssumption DEF ResolvedBase, Names
  <2> QED
    BY <2>2, <2>3
<1>5. NewBases'
  <2> SUFFICES ASSUME NEW d \in Images, OnlyBase(d)'
               PROVE  FoundNew(d)'
    BY <1>1, <1>2 DEF NewBases
  <2>1. NamedBases = {}
    <3> SUFFICES ASSUME NEW m \in NamedBases PROVE FALSE
      OBVIOUS
    <3>1. m \in toCreate /\ m \in Images /\ base[m] \in Names /\ deps'[m] = {}
      BY <1>1 DEF NamedBases, CreatedInv, Types
    <3>2. base[m] \in {"recipe", "id"} \/ deps'[m] = {d}
      BY <1>1, <3>1 DEF OnlyBase
    <3> QED
      BY <3>1, <3>2, NamesAssumption
  <2>2. cache' = Unread
    BY <2>1, <1>1 DEF Validate, BaseInv, BeforePlan
  <2>3. Matches(cache', d) = {}
    BY <2>2 DEF Matches, Unread
  <2> QED
    BY <1>1, <2>3 DEF FoundNew, Matches, HasName
<1> QED
  BY <1>1, <1>2, <1>4, <1>5 DEF BaseInv, BaseTypes, BeforePlan, DepsDone

\* A step that changes nothing of the plan or of what was looked up for it.
LEMMA QuietBaseInv ==
  ASSUME BaseInv,
         UNCHANGED <<customized, base, toCreate, deps, status, session, ims_base>>,
         pc' \in {"existing", "validate", "wait"} => pc' = pc /\ cache' = cache
  PROVE  BaseInv'
<1>1. BaseTypes' /\ BeforePlan' /\ DepsDone' /\ BasesKnown'
  BY DEF BaseInv, BaseTypes, BeforePlan, DepsDone, BasesKnown
<1>2. NewBases'
  BY DEF BaseInv, NewBases, OnlyBase, MakesAnImage, FoundNew, Matches, HasName
<1> QED
  BY <1>1, <1>2 DEF BaseInv

LEMMA NextBaseInv == CreatedInv /\ BaseInv /\ [Next]_vars => BaseInv'
<1> SUFFICES ASSUME CreatedInv, BaseInv, [Next]_vars PROVE BaseInv'
  OBVIOUS
<1> USE DEF input, plan, progress, imageVars, templateVars
<1>1. CASE GiveUp
  BY <1>1, QuietBaseInv DEF GiveUp
<1>2. CASE HandleExisting
  <2>1. /\ pc = "existing" /\ pc' = "validate"
        /\ UNCHANGED <<cache, deps, status, session, ims_base>>
    BY <1>2 DEF HandleExisting
  <2> QED
    BY <2>1 DEF BaseInv, BaseTypes, BeforePlan, DepsDone, BasesKnown, NewBases
<1>3. CASE Validate
  BY <1>3, ValidateBaseInv
<1>4. CASE FinishImages
  BY <1>4, QuietBaseInv DEF FinishImages
<1>5. ASSUME NEW m \in Images, Begin(m) PROVE BaseInv'
  <2>1. /\ pc = "wait" /\ m \in toCreate
        /\ UNCHANGED <<customized, base, cache, pc, toCreate, deps, session, ims_base>>
        /\ \A x \in deps[m] : status[x] = "done"
        /\ status[m] = "waiting"
    BY <1>5 DEF Begin, Order!Ready
  <2>2. \E s \in {"running", "failed"} : status' = [status EXCEPT ![m] = s]
    BY <1>5 DEF Begin, SetStatus
  <2>3. DepsDone'
    BY <2>1, <2>2 DEF BaseInv, DepsDone, CreatedInv, Types, Shapes
  <2>4. NewBases'
    BY <2>1 DEF BaseInv, NewBases, OnlyBase, MakesAnImage, FoundNew, Matches, HasName
  <2> QED
    BY <2>1, <2>3, <2>4 DEF BaseInv, BaseTypes, BeforePlan, BasesKnown
<1>6. ASSUME NEW m \in Images, Check(m) PROVE BaseInv'
  BY <1>6, CheckNewBases
<1>7. ASSUME NEW m \in Images, JobEnds(m) PROVE BaseInv'
  BY <1>7, QuietBaseInv DEF JobEnds
<1>8. ASSUME NEW m \in Images, SessionEnds(m) PROVE BaseInv'
  <2>1. /\ UNCHANGED <<customized, base, cache, pc, toCreate, deps, status, ims_base>>
        /\ session[m] = "running"
        /\ \E s \in {"succeeded", "failed"} : session' = [session EXCEPT ![m] = s]
    BY <1>8 DEF SessionEnds
  <2>2. \A x \in Images : session'[x] = "none" <=> session[x] = "none"
    BY <2>1 DEF BaseInv, BaseTypes
  <2>3. BaseTypes'
    BY <2>1 DEF BaseInv, BaseTypes
  <2>4. NewBases'
    BY <2>1, <2>2 DEF BaseInv, NewBases, OnlyBase, MakesAnImage, FoundNew, Matches, HasName
  <2> QED
    BY <2>1, <2>2, <2>3, <2>4 DEF BaseInv, BeforePlan, DepsDone, BasesKnown
<1>9. CASE ClearCache \/ HandleExistingTemplates \/ ValidateTemplates \/ FinishTemplates \/ Ended
  BY <1>9, QuietBaseInv
  DEF ClearCache, HandleExistingTemplates, ValidateTemplates, FinishTemplates, Ended, vars
<1>10. ASSUME NEW n \in Names, CreateTemplate(n) PROVE BaseInv'
  BY <1>10, QuietBaseInv DEF CreateTemplate
<1>11. CASE UNCHANGED vars
  BY <1>11, QuietBaseInv DEF vars
<1> QED BY <1>1, <1>2, <1>3, <1>4, <1>5, <1>6, <1>7, <1>8, <1>9, <1>10, <1>11
      DEF Next, CreateImages, ImageServices

(* Images that start from one common image of the file are customized from *)
(* the image that was made for it, for any number of them and whatever     *)
(* fails.                                                                  *)
THEOREM SharedBaseUsed == Spec => []SharedBaseIsUsed
<1>1. BaseInv => SharedBaseIsUsed
  BY DEF BaseInv, NewBases, SharedBaseIsUsed
<1> QED
  BY <1>1, InitCreatedInv, NextCreatedInv, InitBaseInv, NextBaseInv, PTL DEF Spec
-----------------------------------------------------------------------------
(* The types.  Of the plan, what is overwritten is created only because    *)
(* nothing is overwritten before it is decided what to create.             *)

BootprepTypeInv == TypeOK /\ NotDecided

LEMMA ImageIsId ==
  ASSUME NEW k \in Kinds, NEW n \in Names
  PROVE  Image(k, n) \in ImageIds
  BY DEF ImageIds

LEMMA LookupTypes ==
  ASSUME TypeOK, NEW listing \in Lookups
  PROVE  listing.read \in {"no", "yes", "failed"} /\ listing.images \subseteq ImageIds
  BY DEF TypeOK, Lookups, Listing, Unreadable

\* What is found by a name is an image.
LEMMA MatchTypes ==
  ASSUME NEW listing, listing.images \subseteq ImageIds, NEW n
  PROVE  Matches(listing, n) \in SUBSET ImageIds
  BY DEF Matches

LEMMA OutcomeTypes ==
  ASSUME TypeOK, NEW m \in Images, NEW r \in Outcomes(m)
  PROVE  r.images \subseteq ImageIds
<1>1. PICK q \in Renames(m), D \in DeletedOf(m) :
        r = [ok |-> q.ok, images |-> IF q.ok THEN q.images \ D ELSE q.images]
  BY DEF Outcomes
<1>2. Image("partial", m) \in ImageIds /\ Image("renamed", m) \in ImageIds
  BY ImageIsId DEF Kinds, Names
<1>3. q.images \subseteq ImageIds
  BY <1>2 DEF Renames, TypeOK
<1> QED BY <1>1, <1>3

\* A step of the waiter, by what it may change.
LEMMA WaiterTypes ==
  ASSUME BootprepTypeInv, UNCHANGED <<input, pc, plan, templateVars>>,
         ims' \subseteq ImageIds,
         cache'.read \in {"no", "yes", "failed"}, cache'.images \subseteq ImageIds,
         status' \in [Images -> Order!Statuses], created' \subseteq Images,
         job' \in [Images -> {"none", "running", "success", "error", "deleted"}],
         session' \in [Images -> {"none", "running", "succeeded", "failed"}],
         ims_base' \in [Images -> SUBSET ImageIds]
  PROVE  BootprepTypeInv'
  BY DEF BootprepTypeInv, TypeOK, NotDecided, input, plan, templateVars

LEMMA BeginConfigureTypes ==
  ASSUME TypeOK, NEW m \in Images, BeginConfigure(m)
  PROVE  /\ cache'.read \in {"no", "yes", "failed"} /\ cache'.images \subseteq ImageIds
         /\ status' \in [Images -> Order!Statuses]
         /\ session' \in [Images -> {"none", "running", "succeeded", "failed"}]
         /\ ims_base' \in [Images -> SUBSET ImageIds]
<1>1. cache' \in Lookups \/ cache' = cache
  BY DEF BeginConfigure, SourceLookups
<1>2. cache'.read \in {"no", "yes", "failed"} /\ cache'.images \subseteq ImageIds
  BY <1>1, LookupTypes DEF TypeOK
<1>3. Sources(m, cache') \in SUBSET ImageIds
  <2>1. Image("built", m) \in ImageIds
    BY ImageIsId DEF Kinds, Names
  <2>2. ims_base[m] \in SUBSET ImageIds
    BY DEF TypeOK
  <2>3. Matches(cache', base[m]) \in SUBSET ImageIds
    BY <1>2, MatchTypes
  <2> QED BY <2>1, <2>2, <2>3 DEF Sources
<1>4. status' = status \/ status' = [status EXCEPT ![m] = "failed"]
  BY DEF BeginConfigure, SetStatus
<1>5. status' \in [Images -> Order!Statuses]
  BY <1>4 DEF TypeOK, Order!Statuses
<1>6. session' = session \/ session' = [session EXCEPT ![m] = "running"]
  BY DEF BeginConfigure
<1>7. session' \in [Images -> {"none", "running", "succeeded", "failed"}]
  BY <1>6 DEF TypeOK
<1>8. ims_base' = ims_base \/ ims_base' = [ims_base EXCEPT ![m] = Sources(m, cache')]
  BY DEF BeginConfigure
<1>9. ims_base' \in [Images -> SUBSET ImageIds]
  BY <1>3, <1>8 DEF TypeOK
<1> QED BY <1>2, <1>5, <1>7, <1>9

LEMMA CheckTypes ==
  ASSUME BootprepTypeInv, NEW m \in Images, Check(m), UNCHANGED templateVars
  PROVE  BootprepTypeInv'
<1>1. TypeOK /\ UNCHANGED <<input, pc, plan, templateVars, job>>
  BY DEF BootprepTypeInv, Check
<1>2. \A s \in {"done", "failed"} :
        SetStatus(m, s) => status' \in [Images -> Order!Statuses]
  BY <1>1 DEF SetStatus, TypeOK, Order!Statuses
<1>3. CASE CreationFails(m)
  <2>1. status' \in [Images -> Order!Statuses]
    BY <1>2, <1>3 DEF CreationFails
  <2> QED BY <1>1, <1>3, <2>1, WaiterTypes DEF CreationFails, TypeOK
<1>4. CASE CreationIsOver(m)
  <2>1. created' \subseteq Images
    BY <1>1, <1>4 DEF CreationIsOver, TypeOK
  <2>2. CASE FinishUncustomized(m)
    <3>1. status' \in [Images -> Order!Statuses]
      BY <1>2, <2>2 DEF FinishUncustomized
    <3>2. ims' \subseteq ImageIds
      BY <1>1, <2>2 DEF FinishUncustomized, TypeOK
    <3> QED BY <1>1, <2>1, <2>2, <3>1, <3>2, WaiterTypes DEF FinishUncustomized, TypeOK
  <2>3. CASE BeginConfigure(m)
    <3>1. ims' \subseteq ImageIds
      BY <1>1, <2>3 DEF BeginConfigure, TypeOK
    <3> QED BY <1>1, <2>1, <2>3, <3>1, BeginConfigureTypes, WaiterTypes DEF TypeOK
  <2>4. CASE CheckSession(m)
    <3>1. ims' \subseteq ImageIds
      BY <1>1, <2>4, OutcomeTypes DEF CheckSession, TypeOK
    <3>2. SetStatus(m, "done") \/ SetStatus(m, "failed")
      BY <2>4 DEF CheckSession
    <3>3. status' \in [Images -> Order!Statuses]
      BY <1>2, <3>2
    <3> QED BY <1>1, <2>1, <2>4, <3>1, <3>3, WaiterTypes DEF CheckSession, TypeOK
  <2> QED BY <1>4, <2>2, <2>3, <2>4 DEF CreationIsOver
<1> QED BY <1>3, <1>4 DEF Check

LEMMA PlanTypes ==
  ASSUME BootprepTypeInv, UNCHANGED templateVars,
         GiveUp \/ HandleExisting \/ Validate \/ FinishImages
  PROVE  BootprepTypeInv'
<1> USE DEF input, plan, progress, templateVars
<1>1. CASE GiveUp
  BY <1>1 DEF GiveUp, BootprepTypeInv, TypeOK, NotDecided
<1>2. CASE HandleExisting
  <2>1. overwritten = {}
    BY <1>2 DEF HandleExisting, BootprepTypeInv, NotDecided
  <2>2. overwritten' \subseteq toCreate' /\ toCreate' \subseteq Images
    BY <1>2, <2>1 DEF HandleExisting, SkipOrOverwrite
  <2> QED BY <1>2, <2>2 DEF HandleExisting, BootprepTypeInv, TypeOK, NotDecided
<1>3. CASE Validate
  <2>1. cache' \in Lookups \/ cache' = cache
    BY <1>3 DEF Validate
  <2>2. cache'.read \in {"no", "yes", "failed"} /\ cache'.images \subseteq ImageIds
    BY <2>1, LookupTypes DEF BootprepTypeInv, TypeOK
  <2>3. Old(Stock) \in ImageIds
    BY ImageIsId DEF Old, Kinds, Names
  <2>4. \A m \in Images : ResolvedBase(m, cache') \in SUBSET ImageIds
    BY <2>2, <2>3, MatchTypes DEF ResolvedBase
  <2>5. ims_base' \in [Images -> SUBSET ImageIds]
    BY <1>3, <2>4 DEF Validate
  <2>6. \A m \in Images : Dependencies(m) \in SUBSET Images
    BY DEF Dependencies, BootprepTypeInv, TypeOK
  <2>7. deps' \in [Images -> SUBSET Images]
    BY <1>3, <2>6 DEF Validate
  <2> QED BY <1>3, <2>2, <2>5, <2>7 DEF Validate, BootprepTypeInv, TypeOK, NotDecided
<1>4. CASE FinishImages
  <2>1. job' \in [Images -> {"none", "running", "success", "error", "deleted"}]
    BY <1>4 DEF FinishImages, BootprepTypeInv, TypeOK
  <2>2. pc' # "existing"
    BY <1>4 DEF FinishImages
  <2> QED BY <1>4, <2>1, <2>2 DEF FinishImages, BootprepTypeInv, TypeOK, NotDecided
<1> QED BY <1>1, <1>2, <1>3, <1>4

LEMMA ServiceTypes ==
  ASSUME BootprepTypeInv, NEW m \in Images, UNCHANGED templateVars,
         Begin(m) \/ JobEnds(m) \/ SessionEnds(m)
  PROVE  BootprepTypeInv'
<1> USE DEF plan
<1>1. CASE Begin(m)
  <2>1. \E s \in {"running", "failed"} : status' = [status EXCEPT ![m] = s]
    BY <1>1 DEF Begin, SetStatus
  <2>2. status' \in [Images -> Order!Statuses]
    BY <2>1 DEF BootprepTypeInv, TypeOK, Order!Statuses
  <2>3. created' = created \/ created' = created \cup {m}
    BY <1>1 DEF Begin
  <2>4. job' = job \/ job' = [job EXCEPT ![m] = "running"]
    BY <1>1 DEF Begin
  <2>5. job' \in [Images -> {"none", "running", "success", "error", "deleted"}]
    BY <2>4 DEF BootprepTypeInv, TypeOK
  <2> QED BY <1>1, <2>2, <2>3, <2>5, WaiterTypes DEF Begin, BootprepTypeInv, TypeOK
<1>2. CASE JobEnds(m)
  <2>1. Image("built", m) \in ImageIds
    BY ImageIsId DEF Kinds, Names
  <2>2. \E s \in {"success", "error"} : job' = [job EXCEPT ![m] = s]
    BY <1>2 DEF JobEnds
  <2>3. job' \in [Images -> {"none", "running", "success", "error", "deleted"}]
    BY <2>2 DEF BootprepTypeInv, TypeOK
  <2>4. ims' \subseteq ImageIds
    BY <1>2, <2>1 DEF JobEnds, BootprepTypeInv, TypeOK
  <2> QED BY <1>2, <2>3, <2>4, WaiterTypes DEF JobEnds, BootprepTypeInv, TypeOK
<1>3. CASE SessionEnds(m)
  <2>1. Image("layered", m) \in ImageIds
    BY ImageIsId DEF Kinds, Names
  <2>2. \E s \in {"succeeded", "failed"} : session' = [session EXCEPT ![m] = s]
    BY <1>3 DEF SessionEnds
  <2>3. session' \in [Images -> {"none", "running", "succeeded", "failed"}]
    BY <2>2 DEF BootprepTypeInv, TypeOK
  <2>4. ims' \subseteq ImageIds
    BY <1>3, <2>1 DEF SessionEnds, BootprepTypeInv, TypeOK
  <2> QED BY <1>3, <2>3, <2>4, WaiterTypes DEF SessionEnds, BootprepTypeInv, TypeOK
<1> QED BY <1>1, <1>2, <1>3

LEMMA TemplateTypes ==
  ASSUME BootprepTypeInv,
         \/ ClearCache \/ HandleExistingTemplates \/ ValidateTemplates
         \/ \E n \in Names : CreateTemplate(n)
         \/ FinishTemplates \/ Ended
  PROVE  BootprepTypeInv'
<1> USE DEF input, plan, progress, templateVars
<1>1. CASE ClearCache
  <2>1. cache' = Unread \/ cache' = cache
    BY <1>1 DEF ClearCache, Cleared
  <2>2. cache'.read \in {"no", "yes", "failed"} /\ cache'.images \subseteq ImageIds
    BY <2>1 DEF Unread, BootprepTypeInv, TypeOK
  <2> QED BY <1>1, <2>2 DEF ClearCache, BootprepTypeInv, TypeOK, NotDecided
<1>2. CASE HandleExistingTemplates
  BY <1>2 DEF HandleExistingTemplates, BootprepTypeInv, TypeOK, NotDecided
<1>3. CASE ValidateTemplates
  <2>1. cache' \in Lookups \/ cache' = cache
    BY <1>3 DEF ValidateTemplates
  <2>2. cache'.read \in {"no", "yes", "failed"} /\ cache'.images \subseteq ImageIds
    BY <2>1, LookupTypes DEF BootprepTypeInv, TypeOK
  <2>3. pc' # "existing"
    BY <1>3 DEF ValidateTemplates
  <2> QED BY <1>3, <2>2, <2>3 DEF ValidateTemplates, BootprepTypeInv, TypeOK, NotDecided
<1>4. ASSUME NEW n \in Names, CreateTemplate(n) PROVE BootprepTypeInv'
  <2>1. cache'.read \in {"no", "yes", "failed"} /\ cache'.images \subseteq ImageIds
    BY <1>4, LookupTypes DEF CreateTemplate, BootprepTypeInv
  <2>2. Matches(cache', n) \in SUBSET ImageIds
    BY <2>1, MatchTypes
  <2>3. template' = template \/ template' = [template EXCEPT ![n] = Matches(cache', n)]
    BY <1>4 DEF CreateTemplate
  <2>4. template' \in [Names -> SUBSET ImageIds]
    BY <2>2, <2>3 DEF BootprepTypeInv, TypeOK
  <2>5. items_to_create' \subseteq Names /\ failed_items' \subseteq Names
    BY <1>4 DEF CreateTemplate, BootprepTypeInv, TypeOK
  <2>6. pc' # "existing"
    BY <1>4 DEF CreateTemplate
  <2> QED BY <1>4, <2>1, <2>4, <2>5, <2>6
          DEF CreateTemplate, BootprepTypeInv, TypeOK, NotDecided
<1>5. CASE FinishTemplates
  BY <1>5 DEF FinishTemplates, BootprepTypeInv, TypeOK, NotDecided
<1>6. CASE Ended
  BY <1>6 DEF Ended, vars, imageVars, BootprepTypeInv, TypeOK, NotDecided
<1> QED BY <1>1, <1>2, <1>3, <1>4, <1>5, <1>6

(* No image, template or session but those asked for comes into being, for *)
(* any images, bases and failures, and nothing is marked as to be deleted  *)
(* whose successor is not to be created.                                   *)
THEOREM TypeCorrect == Spec => []TypeOK
<1>1. BootprepInit => BootprepTypeInv
  <2> SUFFICES ASSUME BootprepInit PROVE BootprepTypeInv
    OBVIOUS
  <2>1. initial \subseteq Names
    BY DEF BootprepInit, Init, Names
  <2>2. \A n \in Names : Old(n) \in ImageIds
    BY ImageIsId DEF Old, Kinds
  <2>3. ims \subseteq ImageIds
    BY <2>1, <2>2 DEF BootprepInit, Init
  <2>4. cache.read \in {"no", "yes", "failed"} /\ cache.images \subseteq ImageIds
    BY DEF BootprepInit, Init, Unread
  <2> QED BY <2>1, <2>3, <2>4
          DEF BootprepInit, Init, BootprepTypeInv, TypeOK, NotDecided, Order!Statuses
<1>2. BootprepTypeInv /\ [Next]_vars => BootprepTypeInv'
  <2>1. BootprepTypeInv /\ Next => BootprepTypeInv'
    BY CheckTypes, PlanTypes, ServiceTypes, TemplateTypes
    DEF Next, CreateImages, ImageServices
  <2>2. BootprepTypeInv /\ UNCHANGED vars => BootprepTypeInv'
    BY DEF vars, imageVars, input, plan, progress, BootprepTypeInv, TypeOK, NotDecided
  <2> QED BY <2>1, <2>2
<1>3. BootprepTypeInv => TypeOK
  BY DEF BootprepTypeInv
<1> QED BY <1>1, <1>2, <1>3, PTL DEF Spec
=============================================================================
