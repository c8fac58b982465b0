----------------------------- MODULE CloudAssets -----------------------------
(***************************************************************************)
(* CloudAssetStore (asset_storage.py) and the two endpoints in front of it *)
(* (app.py upload_asset, delete_asset): an ad is two objects and, once it  *)
(* is deleted, a tombstone.  Every request of a handler to the bucket is a *)
(* step, may fail, and may land after the handler has gone on.             *)
(***************************************************************************)
EXTENDS ObjectStorage, CapabilityTokens

CONSTANTS
  Assets,    \* ids uuid4 draws, each for one upload
  Deletions, \* handlers of deletions at work at once
  TTL,       \* the life of an ad, and of the capability to delete it: 24 h
  MaxTime,   \* bound of the clock
  None

ASSUME TTLAssumption == TTL \in Nat \ {0} /\ TTL % Second = 0

VARIABLES
  clock,
  uploads,  \* the upload of each asset: its step, extension, and two instants
  removals, \* the deletion each handler is at: its step, asset and extension
  deleted   \* history: the assets whose deletion was acknowledged

cloudVars == <<clock, objects, late, uploads, removals, deleted>>

Extensions == {"png", "jpg"}
Key(a, part) == <<a, part>>
Whole(a) == {Key(a, uploads[a].ext), Key(a, "meta")}
Parts(a) == {Key(a, part) : part \in Extensions \cup {"meta"}}
Buried(a) == Key(a, "tombstone") \in objects

NoUpload == [step |-> "new", ext |-> None, created |-> 0, issued |-> 0]
NoRemoval == [step |-> "rest", asset |-> None, ext |-> None]

CloudInit ==
  /\ clock = 0 /\ StorageInit
  /\ uploads = [a \in Assets |-> NoUpload]
  /\ removals = [d \in Deletions |-> NoRemoval]
  /\ deleted = {}

Upload(a, step) == uploads[a].step = step
Removal(d, step) == removals[d].step = step
UploadGoes(a, step) == uploads' = [uploads EXCEPT ![a].step = step]
RemovalGoes(d, step) == removals' = [removals EXCEPT ![d].step = step]
UploadOnly == UNCHANGED <<clock, removals, deleted>>
RemovalOnly == UNCHANGED <<clock, uploads>>

-----------------------------------------------------------------------------
(* upload_asset: store, then the capability.  A valid ad of an id nobody   *)
(* has used; the tombstone it looks for first is not there, or the look    *)
(* fails and ends the request.                                             *)

UploadBegin(a) ==
  /\ Upload(a, "new")
  /\ \E ext \in Extensions, step \in {"put_content", "failed"} :
       uploads' = [uploads EXCEPT ![a] = [step |-> step, ext |-> ext,
                                          created |-> clock, issued |-> 0]]
  /\ UploadOnly /\ UNCHANGED storageVars

PutContent(a) ==
  /\ Upload(a, "put_content")
  /\ LET request == PutNew(Key(a, uploads[a].ext)) IN
       \/ Succeeds(request) /\ UploadGoes(a, "put_meta")
       \/ Fails(request) /\ UploadGoes(a, "undo")
  /\ UploadOnly

PutMeta(a) ==
  /\ Upload(a, "put_meta")
  /\ LET request == PutNew(Key(a, "meta")) IN
       \/ Succeeds(request) /\ UploadGoes(a, "issue")
       \/ Fails(request) /\ UploadGoes(a, "undo")
  /\ UploadOnly

\* Mutant of Undo: only the object whose put failed is deleted.
UndoMeta(a) ==
  /\ Upload(a, "undo")
  /\ LET request == Remove({Key(a, "meta")}) IN
       \/ Succeeds(request) /\ UploadGoes(a, "failed")
       \/ Fails(request) /\ UploadGoes(a, "abandoned")
  /\ UploadOnly

\* One request for both objects; when it fails too, its error is the answer.
Undo(a) ==
  /\ Upload(a, "undo")
  /\ LET request == Remove(Whole(a)) IN
       \/ Succeeds(request) /\ UploadGoes(a, "failed")
       \/ Fails(request) /\ UploadGoes(a, "abandoned")
  /\ UploadOnly

\* For a drawn id and a fixed time to live tokens.issue cannot raise.
IssueToken(a) ==
  /\ Upload(a, "issue")
  /\ uploads' = [uploads EXCEPT ![a].step = "done", ![a].issued = clock]
  /\ UploadOnly /\ UNCHANGED storageVars

-----------------------------------------------------------------------------
(* delete_asset, by the client that got the capability.                    *)

HoldsToken(a) == Upload(a, "done")
TokenAccepted(a) == Accepts(Expiry(uploads[a].issued, TTL), clock)

RemovalBegin(d, a) ==
  /\ Removal(d, "rest")
  /\ HoldsToken(a) /\ TokenAccepted(a)
  /\ removals' = [removals EXCEPT ![d] = [step |-> "read", asset |-> a, ext |-> None]]
  /\ RemovalOnly /\ UNCHANGED <<storageVars, deleted>>

\* The extension is read from the metadata; whatever goes wrong makes it png.
ReadMeta(d) ==
  /\ Removal(d, "read")
  /\ LET a == removals[d].asset IN
       \E ext \in {"png"} \cup (IF Key(a, "meta") \in objects THEN {uploads[a].ext} ELSE {}) :
         removals' = [removals EXCEPT ![d].step = "bury", ![d].ext = ext]
  /\ RemovalOnly /\ UNCHANGED <<storageVars, deleted>>

\* Mutant of Bury: the ad is deleted first, the tombstone put after it.
BuryLast(d) ==
  /\ Removal(d, "bury")
  /\ LET a == removals[d].asset
         request == Remove(Parts(a)) IN
       \/ Succeeds(request) /\ RemovalGoes(d, "remove")
       \/ Fails(request) /\ removals' = [removals EXCEPT ![d] = NoRemoval]
  /\ RemovalOnly /\ UNCHANGED deleted

Bury(d) ==
  /\ Removal(d, "bury")
  /\ LET request == Put(Key(removals[d].asset, "tombstone")) IN
       \/ Succeeds(request) /\ RemovalGoes(d, "remove")
       \/ Fails(request) /\ removals' = [removals EXCEPT ![d] = NoRemoval]
  /\ RemovalOnly /\ UNCHANGED deleted

\* Mutant of Removed: the second extension is left out.
RemovedAsRead(a, ext) == {Key(a, "meta"), Key(a, ext)}

\* The keys of the one delete request.
Removed(a, ext) == {Key(a, "meta"), Key(a, ext), Key(a, "jpg")}

RemoveObjects(d) ==
  /\ Removal(d, "remove")
  /\ LET a == removals[d].asset
         request == Remove(Removed(a, removals[d].ext)) IN
       \/ Succeeds(request) /\ deleted' = deleted \cup {a}
       \/ Fails(request) /\ UNCHANGED deleted
  /\ removals' = [removals EXCEPT ![d] = NoRemoval]
  /\ RemovalOnly

-----------------------------------------------------------------------------
\* The process of a handler ends (a platform instance is stopped at will).
UploadCrash(a) ==
  /\ uploads[a].step \in {"put_content", "put_meta", "undo", "issue"}
  /\ UploadGoes(a, "crashed")
  /\ UploadOnly /\ UNCHANGED storageVars

RemovalCrash(d) ==
  /\ ~Removal(d, "rest")
  /\ removals' = [removals EXCEPT ![d] = NoRemoval]
  /\ RemovalOnly /\ UNCHANGED <<storageVars, deleted>>

LateRequest == Land /\ UNCHANGED <<clock, uploads, removals, deleted>>

Tick ==
  /\ clock < MaxTime /\ clock' = clock + 1
  /\ UNCHANGED <<storageVars, uploads, removals, deleted>>

CloudNext ==
  \/ \E a \in Assets :
       \/ UploadBegin(a) \/ PutContent(a) \/ PutMeta(a) \/ Undo(a) \/ IssueToken(a)
       \/ UploadCrash(a)
  \/ \E d \in Deletions :
       \/ \E a \in Assets : RemovalBegin(d, a)
       \/ ReadMeta(d) \/ Bury(d) \/ RemoveObjects(d) \/ RemovalCrash(d)
  \/ LateRequest \/ Tick

CloudSpec == CloudInit /\ [][CloudNext]_cloudVars

-----------------------------------------------------------------------------
\* load: no tombstone, both objects, and not expired.
Readable(a) ==
  /\ ~Upload(a, "new")
  /\ ~Buried(a) /\ Whole(a) \subseteq objects
  /\ clock < uploads[a].created + TTL

\* After an acknowledged deletion the bucket holds nothing of the ad, whichever
\* earlier deletions failed, whatever they read, and whatever lands later.
CloudDeletionComplete == \A a \in deleted : Parts(a) \cap objects = {}

\* A deletion that fails half way leaves the ad whole, or closed: an analysis
\* never meets a stored ad with a part missing (delete: tombstone first).
ClosedOrWhole ==
  \A a \in Assets : Upload(a, "done") => Buried(a) \/ Whole(a) \subseteq objects

\* Who uploaded an ad can delete it as long as it can be read, but for the last
\* second at most, which the truncation of the token's expiry may cost; and the
\* capability never outlives the day it was given for (issue, verify).
CapabilitiesCoverAds ==
  \A a \in Assets : HoldsToken(a) =>
    /\ Readable(a) /\ clock + Second <= uploads[a].created + TTL => TokenAccepted(a)
    /\ TokenAccepted(a) => clock < uploads[a].issued + TTL

\* An ad in the bucket is an item like any other: readable once, and closed for
\* good by its deletion, its expiry or the clean-up of a failed upload, also
\* when a put that was reported failed is executed after the clean-up.
MayOpen(a) ==
  \/ Upload(a, "new")
  \/ /\ clock < uploads[a].created + TTL
     /\ \/ uploads[a].step \in {"put_content", "put_meta"}
        \/ ~Upload(a, "failed") /\ \E request \in late :
             request.op = "put_new" /\ request.keys \subseteq Whole(a)
Life(a) == IF Readable(a) THEN "open" ELSE IF MayOpen(a) THEN "new" ELSE "closed"

Item(a) == INSTANCE ItemLifecycle WITH life <- Life(a)
AdsImplementItemLifecycle ==
  /\ \A a \in Assets : Item(a)!LifecycleInit
  /\ [][\A a \in Assets : [Item(a)!LifecycleNext]_(Life(a))]_cloudVars
=============================================================================
