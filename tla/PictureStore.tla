---------------------------- MODULE PictureStore ----------------------------
(***************************************************************************)
(* The two stores of composed pictures (composition_storage.py) as the     *)
(* composition and revision services use them: save a picture under a      *)
(* fresh id, then either commit a row that refers to it or delete it again.*)
(* On a server's disk a picture is two files, written beside and renamed;  *)
(* on a platform it is two objects of the bucket.  Which of the two the    *)
(* program is built with is chosen once (app.py _stores_from_environment). *)
(***************************************************************************)
EXTENDS ObjectStorage

CONSTANT Pictures  \* artifact ids, each drawn once by uuid4

VARIABLES
  deployment,  \* "files" or "objects"; never changes
  saves        \* the request each picture was rendered by: its step, whether it
               \* is a revision, the files its clean-up has still to remove, whether
               \* a row refers to the picture, and whether its commit raised

pictureVars == <<objects, late, deployment, saves>>

Picture(p) == {<<p, "png">>, <<p, "json">>}
Partial(p) == {<<p, "png.part">>, <<p, "json.part">>}

PictureInit ==
  /\ StorageInit
  /\ deployment \in {"files", "objects"}
  /\ saves = [p \in Pictures |-> [step |-> "new", revision |-> FALSE, remaining |-> {},
                                  row |-> FALSE, raised |-> FALSE]]

At(p, step) == saves[p].step = step
Goto(p, step) ==
  saves' = [saves EXCEPT ![p].step = step, ![p].remaining = {}] /\ UNCHANGED deployment

SaveBegin(p) ==
  /\ At(p, "new")
  /\ \E revision \in BOOLEAN :
       saves' = [saves EXCEPT ![p].step = IF deployment = "files" THEN "save_png_part"
                                                                  ELSE "save_png",
                              ![p].revision = revision]
  /\ UNCHANGED <<deployment, storageVars>>

-----------------------------------------------------------------------------
(* CompositionArtifactStore: four file operations, each of which may raise *)
(* OSError, and a clean-up of all four paths that may raise one too.       *)

FileStep(p, from, removed, added, to) ==
  /\ deployment = "files" /\ At(p, from)
  /\ \/ objects' = (objects \ removed) \cup added /\ Goto(p, to)
     \/ /\ saves' = [saves EXCEPT ![p].step = "clean",
                                  ![p].remaining = Picture(p) \cup Partial(p)]
        /\ UNCHANGED <<objects, deployment>>
  /\ UNCHANGED late

SavePngPart(p) == FileStep(p, "save_png_part", {}, {<<p, "png.part">>}, "save_json_part")
SaveJsonPart(p) == FileStep(p, "save_json_part", {}, {<<p, "json.part">>}, "save_png")
ReplacePng(p) == FileStep(p, "save_png", {<<p, "png.part">>}, {<<p, "png">>}, "save_json")
ReplaceJson(p) == FileStep(p, "save_json", {<<p, "json.part">>}, {<<p, "json">>}, "saved")

\* The files are removed in a fixed order: parts first, then png, then json.
Order == <<"png.part", "json.part", "png", "json">>
CleanNext(p) ==
  /\ deployment = "files" /\ At(p, "clean")
  /\ \E i \in 1..4 :
       /\ <<p, Order[i]>> \in saves[p].remaining
       /\ \A j \in 1..(i - 1) : <<p, Order[j]>> \notin saves[p].remaining
       /\ \/ /\ objects' = objects \ {<<p, Order[i]>>}
             /\ IF i = 4 THEN Goto(p, "unsaved")
                ELSE /\ saves' = [saves EXCEPT ![p].remaining = @ \ {<<p, Order[i]>>}]
                     /\ UNCHANGED deployment
          \/ Goto(p, "failed") /\ UNCHANGED objects
  /\ UNCHANGED late

\* delete: the png, then the json.
UnlinkPng(p) ==
  /\ deployment = "files" /\ At(p, "discard")
  /\ \/ objects' = objects \ {<<p, "png">>} /\ Goto(p, "discard_json")
     \/ Goto(p, "failed") /\ UNCHANGED objects
  /\ UNCHANGED late
UnlinkJson(p) ==
  /\ deployment = "files" /\ At(p, "discard_json")
  /\ \/ objects' = objects \ {<<p, "json">>} /\ Goto(p, "discarded")
     \/ Goto(p, "failed") /\ UNCHANGED objects
  /\ UNCHANGED late

-----------------------------------------------------------------------------
(* CloudCompositionArtifactStore: two puts without a clean-up, one delete. *)
(* The load that save begins with finds nothing under a fresh id.          *)

PutPng(p) ==
  /\ deployment = "objects" /\ At(p, "save_png")
  /\ \/ Succeeds(PutNew(<<p, "png">>)) /\ Goto(p, "save_json")
     \/ Fails(PutNew(<<p, "png">>)) /\ Goto(p, "unsaved")

\* Mutant of PutJson: the answer to the second put is not looked at.
PutJsonUnchecked(p) ==
  /\ deployment = "objects" /\ At(p, "save_json")
  /\ Succeeds(PutNew(<<p, "json">>)) \/ Fails(PutNew(<<p, "json">>))
  /\ Goto(p, "saved")

PutJson(p) ==
  /\ deployment = "objects" /\ At(p, "save_json")
  /\ \/ Succeeds(PutNew(<<p, "json">>)) /\ Goto(p, "saved")
     \/ Fails(PutNew(<<p, "json">>)) /\ Goto(p, "unsaved")

\* Mutant of DeleteObjects: only what makes the picture known is deleted.
DeleteJson(p) ==
  /\ deployment = "objects" /\ At(p, "discard")
  /\ \/ Succeeds(Remove({<<p, "json">>})) /\ Goto(p, "discarded")
     \/ Fails(Remove({<<p, "json">>})) /\ Goto(p, "failed")

DeleteObjects(p) ==
  /\ deployment = "objects" /\ At(p, "discard")
  /\ \/ Succeeds(Remove(Picture(p))) /\ Goto(p, "discarded")
     \/ Fails(Remove(Picture(p))) /\ Goto(p, "failed")

-----------------------------------------------------------------------------
(* The services.                                                           *)

\* A commit that raises is taken for one that failed: the picture is deleted,
\* also where the row was written and only the answer or the read back was lost.
Commit(p) ==
  /\ At(p, "saved")
  /\ \E row, raised \in BOOLEAN :
       /\ row \/ raised
       /\ saves' = [saves EXCEPT ![p].step = IF raised THEN "discard" ELSE "referenced",
                                ![p].row = row, ![p].raised = raised]
  /\ UNCHANGED <<deployment, storageVars>>

\* A failed save: generate deletes what it may have left, _execute does not
\* (artifact_saved is still False).
GiveUp(p) ==
  /\ At(p, "unsaved")
  /\ Goto(p, IF saves[p].revision THEN "failed" ELSE "discard")
  /\ UNCHANGED storageVars

\* The process ends.
PictureCrash(p) ==
  /\ saves[p].step \notin {"new", "referenced", "discarded", "failed"}
  /\ Goto(p, "failed")
  /\ UNCHANGED storageVars

LatePicture == Land /\ UNCHANGED <<deployment, saves>>

PictureNext ==
  \/ \E p \in Pictures :
       \/ SaveBegin(p)
       \/ SavePngPart(p) \/ SaveJsonPart(p) \/ ReplacePng(p) \/ ReplaceJson(p)
       \/ CleanNext(p) \/ UnlinkPng(p) \/ UnlinkJson(p)
       \/ PutPng(p) \/ PutJson(p) \/ DeleteObjects(p)
       \/ Commit(p) \/ GiveUp(p) \/ PictureCrash(p)
  \/ LatePicture

PictureSpec == PictureInit /\ [][PictureNext]_pictureVars

-----------------------------------------------------------------------------
\* load: the metadata, then the picture; both have to be there.
Loadable(p) == Picture(p) \subseteq objects

\* On either deployment a picture is an item: loadable from one moment on and,
\* once it was discarded or its save given up, never again, also when a put
\* that was reported failed is executed after the delete.
MayLoad(p) ==
  \/ saves[p].step \in {"new", "save_png_part", "save_json_part", "save_png", "save_json"}
  \/ ~At(p, "discarded") /\ \E request \in late :
       request.op = "put_new" /\ request.keys \subseteq Picture(p)
PictureLife(p) ==
  IF Loadable(p) THEN "open" ELSE IF MayLoad(p) THEN "new" ELSE "closed"

PictureItem(p) == INSTANCE ItemLifecycle WITH life <- PictureLife(p)
PicturesImplementItemLifecycle ==
  /\ \A p \in Pictures : PictureItem(p)!LifecycleInit
  /\ [][\A p \in Pictures : [PictureItem(p)!LifecycleNext]_(PictureLife(p))]_pictureVars

\* What a row refers to can be loaded, on either deployment, unless the commit of
\* that row raised: the services then delete what the row may refer to (save,
\* and the except clauses of generate and _execute).
ReferencedPicturesLoad ==
  \A p \in Pictures : saves[p].row /\ ~saves[p].raised => Loadable(p)
=============================================================================
