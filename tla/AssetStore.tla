----------------------------- MODULE AssetStore -----------------------------
(***************************************************************************)
(* Uploaded source ads on the local file system (asset_storage.py): the    *)
(* API server stores, loads and deletes them, and purges the expired ones  *)
(* when it starts; the operator's purge script is a second process on the  *)
(* same directory.  A lock makes the operations of one process exclude     *)
(* each other, so a process is a sequential actor; between processes       *)
(* nothing excludes anything, and a step here is one file operation.       *)
(***************************************************************************)
EXTENDS Integers

CONSTANTS
  Servers, Scripts,    \* API server processes, purge script processes
  Assets, Contents,    \* asset ids, bytes of an upload
  GivenIds,            \* ids a caller passes to store; any other is drawn once by uuid4
  AssetTTL, TombstoneTTL,
  Faults,              \* {"disk", "crash"} or a part of it
  MaxTime, MaxDeletes, \* bounds: the clock, deletions a client asks per asset
  None

ASSUME TTLAssumption == /\ AssetTTL \in Nat \ {0}
                        /\ TombstoneTTL \in Nat
                        /\ AssetTTL < TombstoneTTL
                        /\ MaxTime \in Nat /\ MaxDeletes \in Nat
ASSUME NoneIsNoData == /\ None \notin Contents \cup Assets \cup Nat
                       /\ None \notin [data : Contents, at : Nat]

VARIABLES
  clock,
  files,      \* files[a][path]: what the file holds, None when it is absent
  tombstone,  \* tombstone[a]: deleted_at, None without tombstone
  closing,    \* closing[a]: deleted_at in the tombstone's .part file, or None
  task,       \* task[p]: what process p is in the middle of
  drawn,      \* ids store has ever been called with
  stored,     \* stored[a]: the last write of a that store acknowledged, or None
  asked,      \* asked[a]: deletions of a that clients asked for
  deleted     \* assets whose deletion was acknowledged since store was last begun on them

disk == <<files, tombstone, closing>>
history == <<drawn, stored, asked, deleted>>
vars == <<clock, disk, task, history>>

Processes == Servers \cup Scripts
Times == 0..MaxTime

\* The files of an asset, in the order store removes them when it gives up.
Order == [part |-> 1, meta_part |-> 2, content |-> 3, meta |-> 4]
Paths == DOMAIN Order
Absent == [path \in Paths |-> None]
Present(a) == {path \in Paths : files[a][path] # None}

Rest == [step |-> "rest", asset |-> None, now |-> 0, data |-> None, paths |-> {},
         batch |-> {}, purging |-> FALSE, late |-> FALSE]

Init ==
  /\ clock = 0
  /\ files = [a \in Assets |-> Absent]
  /\ tombstone = [a \in Assets |-> None]
  /\ closing = [a \in Assets |-> None]
  /\ task = [p \in Processes |-> Rest]
  /\ drawn = {}
  /\ stored = [a \in Assets |-> None]
  /\ asked = [a \in Assets |-> 0]
  /\ deleted = {}

At(p, step) == task[p].step = step
Goto(p, step) == task' = [task EXCEPT ![p].step = step]
Return(p) == task' = [task EXCEPT ![p] = Rest]
Closed(a) == tombstone[a] # None                                \* _is_closed

\* Mutant of Expired: an asset outlives its last instant.
ExpiredLate(write, now) == write.at + AssetTTL < now

Expired(write, now) == write.at + AssetTTL <= now
Put(a, path, value) == files' = [files EXCEPT ![a][path] = value]
Rename(a, from, to) == files' = [files EXCEPT ![a][to] = files[a][from], ![a][from] = None]

-----------------------------------------------------------------------------
(* store.  Each check of the tombstone is one step with the file operation *)
(* before it.  Giving up, for whatever reason, removes the four files.     *)

StoreBegin(p, a, c) ==
  /\ p \in Servers /\ At(p, "rest")
  /\ a \notin drawn \/ a \in GivenIds
  /\ ~Closed(a)
  /\ task' = [task EXCEPT ![p] = [Rest EXCEPT !.step = "write_part", !.asset = a,
                                              !.data = c, !.now = clock]]
  /\ drawn' = drawn \cup {a}
  /\ deleted' = deleted \ {a}
  /\ UNCHANGED <<clock, disk, stored, asked>>

GiveUp(p) == task' = [task EXCEPT ![p].step = "clean", ![p].paths = Paths]

\* The next step of store, unless the lifecycle was closed meanwhile.
GoOn(p, step) == IF Closed(task[p].asset) THEN GiveUp(p) ELSE Goto(p, step)

WritePart(p) ==
  LET a == task[p].asset IN
  /\ At(p, "write_part")
  /\ IF files[a].part = None
       THEN Put(a, "part", [data |-> task[p].data, at |-> task[p].now]) /\ Goto(p, "write_meta_part")
       ELSE UNCHANGED files /\ GiveUp(p)
  /\ UNCHANGED <<clock, tombstone, closing, history>>

WriteMetaPart(p) ==
  LET a == task[p].asset IN
  /\ At(p, "write_meta_part")
  /\ IF files[a].meta_part = None
       THEN Put(a, "meta_part", [data |-> task[p].data, at |-> task[p].now]) /\ GoOn(p, "commit_content")
       ELSE UNCHANGED files /\ GiveUp(p)
  /\ UNCHANGED <<clock, tombstone, closing, history>>

CommitContent(p) ==
  LET a == task[p].asset IN
  /\ At(p, "commit_content")
  /\ IF files[a].part # None
       THEN Rename(a, "part", "content") /\ GoOn(p, "commit_meta")
       ELSE UNCHANGED files /\ GiveUp(p)
  /\ UNCHANGED <<clock, tombstone, closing, history>>

CommitMeta(p) ==
  LET a == task[p].asset IN
  /\ At(p, "commit_meta")
  /\ IF files[a].meta_part # None
       THEN Rename(a, "meta_part", "meta") /\ Goto(p, "confirm")
       ELSE UNCHANGED files /\ GiveUp(p)
  /\ UNCHANGED <<clock, tombstone, closing, history>>

\* Mutant of Confirm: the last look at the tombstone is forgotten.
ConfirmBlindly(p) ==
  LET a == task[p].asset IN
  /\ At(p, "confirm")
  /\ Return(p)
  /\ stored' = [stored EXCEPT ![a] = [data |-> task[p].data, at |-> task[p].now]]
  /\ UNCHANGED <<clock, disk, drawn, asked, deleted>>

Confirm(p) ==
  LET a == task[p].asset IN
  /\ At(p, "confirm")
  /\ IF Closed(a)
       THEN GiveUp(p) /\ UNCHANGED stored
       ELSE /\ Return(p)
            /\ stored' = [stored EXCEPT ![a] = [data |-> task[p].data, at |-> task[p].now]]
  /\ UNCHANGED <<clock, disk, drawn, asked, deleted>>

\* An operating system error anywhere in store (a full disk) makes it give up.
StoreFails(p) ==
  /\ "disk" \in Faults
  /\ task[p].step \in {"write_part", "write_meta_part", "commit_content", "commit_meta"}
  /\ GiveUp(p)
  /\ UNCHANGED <<clock, disk, history>>

-----------------------------------------------------------------------------
(* load: the metadata, then the content, which must match it.              *)

LoadBegin(p, a) ==
  LET write == files[a].meta IN
  /\ p \in Servers /\ At(p, "rest")
  /\ ~Closed(a)
  /\ write # None /\ write.at <= clock /\ ~Expired(write, clock)
  /\ task' = [task EXCEPT ![p] = [Rest EXCEPT !.step = "load_content", !.asset = a, !.now = clock,
                                              !.data = write.data, !.late = a \in deleted]]
  /\ UNCHANGED <<clock, disk, history>>

Matches(p) == files[task[p].asset].content \in [data: {task[p].data}, at: Times]

ServeContent(p) ==
  At(p, "load_content") /\ Matches(p) /\ Return(p) /\ UNCHANGED <<clock, disk, history>>

LoadFails(p) ==
  At(p, "load_content") /\ ~Matches(p) /\ Return(p) /\ UNCHANGED <<clock, disk, history>>

-----------------------------------------------------------------------------
(* delete, for a client or inside a purge.  The files to remove are listed *)
(* before the tombstone is written.                                        *)

\* Mutant of Deleting: an asset with a tombstone is taken to be gone.
DeletingOnce(p, a) == [task[p] EXCEPT
  !.step = IF Closed(a) THEN "unlink" ELSE "write_tombstone", !.asset = a,
  !.paths = IF Closed(a) THEN {} ELSE Present(a)]

Deleting(p, a) == [task[p] EXCEPT
  !.step = IF Closed(a) THEN "unlink" ELSE "write_tombstone", !.asset = a, !.paths = Present(a)]

DeleteBegin(p, a) ==
  /\ p \in Servers /\ At(p, "rest")
  /\ stored[a] # None               \* the delete capability comes with store's answer
  /\ asked[a] < MaxDeletes
  /\ task' = [task EXCEPT ![p] = [Deleting(p, a) EXCEPT !.now = clock]]
  /\ asked' = [asked EXCEPT ![a] = @ + 1]
  /\ UNCHANGED <<clock, disk, drawn, stored, deleted>>

\* What a process does after its operation: a purge that fails ends with it,
\* and a server that fails to purge does not come up.
Abandon(p) ==
  task' = [task EXCEPT ![p] =
             IF @.purging /\ p \in Servers THEN [Rest EXCEPT !.step = "down"] ELSE Rest]

\* Exclusive creation: when another process holds the .part file, that file is
\* removed and this deletion fails.
WriteTombstone(p) ==
  LET a == task[p].asset IN
  /\ At(p, "write_tombstone")
  /\ IF closing[a] = None
       THEN closing' = [closing EXCEPT ![a] = task[p].now] /\ Goto(p, "commit_tombstone")
       ELSE closing' = [closing EXCEPT ![a] = None] /\ Abandon(p)
  /\ UNCHANGED <<clock, files, tombstone, history>>

CommitTombstone(p) ==
  LET a == task[p].asset IN
  /\ At(p, "commit_tombstone")
  /\ IF closing[a] # None
       THEN tombstone' = [tombstone EXCEPT ![a] = closing[a]] /\ Goto(p, "unlink")
       ELSE UNCHANGED tombstone /\ Abandon(p)
  /\ closing' = [closing EXCEPT ![a] = None]
  /\ UNCHANGED <<clock, files, history>>

\* Removes one of the files still to go: a delete in any order, store's clean-up in its own.
Unlink(p) ==
  \E path \in task[p].paths :
    /\ task[p].step \in {"unlink", "clean"}
    /\ At(p, "clean") => \A other \in task[p].paths : Order[path] <= Order[other]
    /\ Put(task[p].asset, path, None)
    /\ task' = [task EXCEPT ![p].paths = @ \ {path}]
    /\ UNCHANGED <<clock, tombstone, closing, history>>

StoreRefused(p) ==
  At(p, "clean") /\ task[p].paths = {} /\ Return(p) /\ UNCHANGED <<clock, disk, history>>

DeleteDone(p) ==
  LET a == task[p].asset IN
  /\ At(p, "unlink") /\ task[p].paths = {}
  /\ deleted' = deleted \cup {a}
  /\ IF task[p].purging
       THEN task' = [task EXCEPT ![p].step = "purge_next", ![p].asset = None, ![p].batch = @ \ {a}]
       ELSE Return(p)
  /\ UNCHANGED <<clock, disk, drawn, stored, asked>>

DeleteFails(p) ==
  /\ "disk" \in Faults
  /\ \/ task[p].step \in {"write_tombstone", "commit_tombstone"}
     \/ At(p, "unlink") /\ task[p].paths # {}
  /\ closing' = IF At(p, "unlink") THEN closing ELSE [closing EXCEPT ![task[p].asset] = None]
  /\ Abandon(p)
  /\ UNCHANGED <<clock, files, tombstone, history>>

-----------------------------------------------------------------------------
(* purge_expired: when a server starts, or by the script.  It lists the    *)
(* metadata files, reads them all, deletes the expired assets and then     *)
(* removes old tombstones.                                                 *)

PurgeBegin(p) ==
  /\ At(p, IF p \in Servers THEN "down" ELSE "rest")
  /\ task' = [task EXCEPT ![p] = [Rest EXCEPT !.step = "purge_read", !.now = clock, !.purging = TRUE,
                                    !.batch = {a \in Assets : files[a].meta # None}]]
  /\ UNCHANGED <<clock, disk, history>>

\* Mutant of PurgeRead: expired or not, what has metadata is purged.
PurgeReadAll(p) ==
  /\ At(p, "purge_read")
  /\ Goto(p, "purge_next")
  /\ UNCHANGED <<clock, disk, history>>

\* A listed metadata file that vanished before it is read fails the whole purge.
PurgeRead(p) ==
  /\ At(p, "purge_read")
  /\ IF \E a \in task[p].batch : files[a].meta = None
       THEN Abandon(p)
       ELSE task' = [task EXCEPT ![p].step = "purge_next",
                                 ![p].batch = {a \in @ : Expired(files[a].meta, task[p].now)}]
  /\ UNCHANGED <<clock, disk, history>>

PurgeNext(p) ==
  /\ At(p, "purge_next")
  /\ \E a \in task[p].batch : task' = [task EXCEPT ![p] = Deleting(p, a)]
  /\ UNCHANGED <<clock, disk, history>>

\* Mutant of PurgeDone: tombstones go with the purge, whatever their age.
PurgeDoneForgetting(p) ==
  /\ At(p, "purge_next") /\ task[p].batch = {}
  /\ tombstone' = [a \in Assets |-> None]
  /\ Return(p)
  /\ UNCHANGED <<clock, files, closing, history>>

PurgeDone(p) ==
  /\ At(p, "purge_next") /\ task[p].batch = {}
  /\ tombstone' = [a \in Assets |->
       IF Closed(a) /\ tombstone[a] <= task[p].now - TombstoneTTL THEN None ELSE tombstone[a]]
  /\ Return(p)
  /\ UNCHANGED <<clock, files, closing, history>>

-----------------------------------------------------------------------------
\* A process ends anywhere; a server then has to start, and so to purge, again.
Crash(p) ==
  /\ "crash" \in Faults
  /\ task[p].step \notin {"rest", "down"}
  /\ task' = [task EXCEPT ![p] = IF p \in Servers THEN [Rest EXCEPT !.step = "down"] ELSE Rest]
  /\ UNCHANGED <<clock, disk, history>>

\* One unit of time is far longer than any operation: none outlasts two ticks.
Tick ==
  /\ clock < MaxTime
  /\ \A p \in Processes : task[p].step \in {"rest", "down"} \/ task[p].now = clock
  /\ clock' = clock + 1
  /\ UNCHANGED <<disk, task, history>>

StoreStep(p) == \/ WritePart(p) \/ WriteMetaPart(p) \/ CommitContent(p) \/ CommitMeta(p)
                \/ Confirm(p) \/ StoreRefused(p)
LoadStep(p) == ServeContent(p) \/ LoadFails(p)
DeleteStep(p) == WriteTombstone(p) \/ CommitTombstone(p) \/ Unlink(p) \/ DeleteDone(p)
PurgeStep(p) == PurgeRead(p) \/ PurgeNext(p) \/ PurgeDone(p)
Continue(p) == StoreStep(p) \/ LoadStep(p) \/ DeleteStep(p) \/ PurgeStep(p)

Begin(p) == \/ \E a \in Assets : \/ \E c \in Contents : StoreBegin(p, a, c)
                                 \/ LoadBegin(p, a)
                                 \/ DeleteBegin(p, a)
            \/ PurgeBegin(p)

Next == \/ \E p \in Processes : \/ Begin(p) \/ Continue(p)
                                \/ StoreFails(p) \/ DeleteFails(p) \/ Crash(p)
        \/ Tick

Spec == Init /\ [][Next]_vars

\* A started operation goes on, the script runs again and again, and a server
\* that is down is started again.
Fairness == \A p \in Processes : WF_vars(Continue(p)) /\ WF_vars(PurgeBegin(p))

FairSpec == Spec /\ Fairness

-----------------------------------------------------------------------------
\* An upload store acknowledged can be loaded until it expires, unless a client
\* asked for its deletion: no crash, failing neighbour or purge takes it away.
KeptUntilExpiry ==
  \A a \in Assets \ GivenIds :
    stored[a] # None /\ asked[a] = 0 /\ ~Expired(stored[a], clock)
      => ~Closed(a) /\ files[a].content = stored[a] /\ files[a].meta = stored[a]

\* Once a deletion was acknowledged nothing of the asset is on disk, whatever
\* else was going on with it when it was deleted (delete, purge_expired).
DeletionComplete == \A a \in deleted \ GivenIds : files[a] = Absent

\* Once the deletion of an asset was acknowledged, a load that begins returns
\* nothing, even when a late store left files behind, and a store that was under
\* way does not succeed: "a tombstoned identifier cannot be committed by a late
\* write" (load's first check, store's last one).
DeletedStaysDeleted ==
  [][/\ \A p \in Processes : ServeContent(p) => ~task[p].late
     /\ \A a \in deleted : stored'[a] = stored[a]]_vars

\* An asset whose id was drawn can be read once, for one stretch of time, and
\* not again after it: neither an error half way, nor a crash, nor the end of
\* its tombstone brings it back (store, load, delete, purge_expired).
Readable(a) ==
  /\ ~Closed(a)
  /\ files[a].meta # None /\ ~Expired(files[a].meta, clock)
  /\ files[a].content = files[a].meta
StoreUnderWay(a) ==
  \E p \in Servers : task[p].asset = a
    /\ task[p].step \in {"write_part", "write_meta_part", "commit_content", "commit_meta"}
Life(a) == CASE Readable(a) -> "open"
             [] ~Readable(a) /\ (a \notin drawn \/ StoreUnderWay(a)) -> "new"
             [] OTHER -> "closed"

Item(a) == INSTANCE ItemLifecycle WITH life <- Life(a)
ImplementsItemLifecycle ==
  /\ \A a \in Assets \ GivenIds : Item(a)!LifecycleInit
  /\ [][\A a \in Assets \ GivenIds : [Item(a)!LifecycleNext]_(Life(a))]_vars

\* An expired asset is removed in the end, however deletes and purges collide.
ExpiredAssetsRemoved ==
  \A a \in Assets \ GivenIds :
    (files[a].meta # None /\ files[a].meta.at + AssetTTL <= clock) ~> (files[a] = Absent)
=============================================================================
