# CultureShift in TLA+

CultureShift localizes one advertisement: a client uploads a source ad, creates a
*Run*, has it analysed, confirms a *Brand Lock* (what must not change), gets a
draft, a composed picture and a critique - *version 1* - and may ask for one
revision - *version 2* - with one technical retry. This directory models the part
of the program in which those promises are kept or broken: the rows a Run has in
the database and how a start migrates them, the request handlers that work on them
concurrently, the content they pass on and what each of them refuses, the artifacts
the rows refer to, the stores of ads and pictures on a disk and in a bucket, and the
Studio page through which a user drives it all.

Source paths below are relative to the repository; `cultureshift/` is short for
`src/cultureshift/`.

## 1. Inventory

| Part | State | Operations | Talks to |
|---|---|---|---|
| Run domain, workflow policy (`domain.py`, `workflow.py`) | none: closed vocabularies, the transition table, the retry policy | `with_status`, `decide_retry` | repository, revision service |
| Run repository (`repository.py`, `postgres_repository.py`) | `project_runs`, `project_run_contexts`, `project_run_revisions`, `project_run_operations` | 11 write transactions, a getter per column, the schema migration | called by every handler; the only shared state of the handlers beside the files |
| Run endpoints (`app.py`) | none of their own; local variables between transactions | create, analyze, confirm, draft, composition, critic, feedback, retry, exports, uploads | repository, services, stores |
| Composition service (`composition_service.py`) | local variables | `generate` | repository, artifact store |
| Revision service (`revision_service.py`) | local variables | `submit_feedback`, `retry`, `_execute` | repository, artifact store |
| Composition artifact stores (`composition_storage.py`) | a PNG and a metadata file, or two objects, per artifact | save, load, delete | services, exports; the bucket |
| Temporary asset store (`asset_storage.py`) | content, metadata and tombstone files | store, load, delete, purge | upload, delete and analyze endpoints, the purge script (another process) |
| Cloud asset store (`asset_storage.py`, `cloud_storage.py`) | the same as objects of a bucket | store, load, delete; its purge does nothing | the same endpoints; one HTTP request per operation |
| Analysis pipeline (`analysis_pipeline.py`) | local | request gate, provider, one repair, result gate | analyze endpoint |
| Brand Lock confirmation, draft generation, Critic, revision engine | none | validation, fixture tables, rules | handlers |
| Compositor and providers (`composition.py`, `image_provider.py`, `fixture_assets.py`) | none | checks, text fit, layout, pixel work | services |
| Capability tokens, rate limiter | none; a window start and a count per client | issue/verify, allow | upload and deletion endpoints |
| Studio (`apps/web/src/studio`, `app/studio`) | a reducer state, idempotency keys in refs | asynchronous calls to the API | endpoints |
| Revision demo (`apps/web/src/revision`) | a local state machine over fixtures | submit, retry | none |

**What is hard here.** Synchronous endpoints run on a thread pool, so handlers of one
Run interleave between any two transactions (the four `async` ones - composition,
critic, feedback and retry - are serial within one process, but not across the instances
of a deployment on Postgres; the model lets all of them interleave). Every long-running
endpoint reads rows, works without a transaction, and commits against rows that may have
moved. Artifacts are written before the row that refers to them, so a lost race, a
failed commit or a crash leaves either an orphan or a dangling reference. Several
repository methods read their result back on a second connection *after* the commit: to
their caller a committed transaction can look like a failed one. Claims (an analysis, an
operation) are not leases: nobody releases one. A request to the bucket that was
reported failed may still be executed, after the handler has cleaned up. Five components
check a version's content, each against a Brand Lock it got from somewhere else. And
every start of a server alters the schema statement by statement, beside other servers
that do the same. The list of hazards, each at its line, is in `PROJECT.json`.

**What makes each part correct.**

- *Repository*: status, columns, operations and revision never contradict each
  other, although four tables hold them and no constraint ties them together;
  version 1 is written once; one operation at a time; one revision; a retry has one
  source; a final end has a reason.
- *Handlers*: a claim has one owner; an answer stays true; unguarded transactions
  are only called where their missing guard does not matter; a file a row refers to
  exists, a file no row refers to goes away; every claim is settled.
- *Asset store*: an acknowledged upload stays until it expires or is deleted, and
  nothing of it is left or served afterwards, although two processes work on one
  directory without a common lock; in a bucket the same, whatever lands late; an ad and
  a picture can be read for one stretch of time.
- *Content*: every version keeps what the request locked; the Critic can report on
  every version the others let through, and rejects none of them but for the
  provider's own refusal; a revision adds no issue; a text gets the largest font that
  fits.
- *Start*: whoever serves has a migrated database under it, and everybody gets to.
- *Capabilities, limiter*: an uploader can delete as long as the ad can be read; no
  caller gets more than twice the limit through.
- *Studio*: an answer is only taken by the session that asked, no phase is a trap, a
  version shown as ready was published, a retry is offered only when it is
  authorized, and no click changes a Run twice.

## 2. Modules

| Module | Models | Lines of code it stands for |
|---|---|---|
| `RunDomain` | statuses, transition table, verdicts, retry policy | `domain.py`, `workflow.py` |
| `RunLifecycle` | *abstract specification*: what a Run promises its client, as a phase and two verdicts | - |
| `RunRepository` | the rows of one Run and every write transaction the service calls; the invariants; the mapping to `RunLifecycle` | `repository.py` |
| `Handlers` | what handlers share: steps, local variables, answers, fresh artifacts, faults, crashes | `app.py`, `_connect` |
| `InitialVersion` | analyze, confirm, draft, composition, critic | `app.py`, `composition_service.py` |
| `RevisionService` | feedback and retry | `revision_service.py` |
| `RunService` | the composition of all handlers over the rows and the artifact store, with fairness; its properties | - |
| `Migration` | `initialize` in several processes at once: ALTER by ALTER, the back-fill, cut-off starts, service beside it | `repository.py` |
| `CreativeRules` | the rules on content as operators: lock confirmation, gates, compositor, revision engine, Critic and the contracts they end in | `critic.py`, `draft_generation.py`, `revision.py`, `brand_lock_confirmation.py`, `contracts.py` |
| `Pipeline` | one Run's content through all of them, from the request to version 2 | `app.py`, `analysis_pipeline.py`, the services |
| `TextFit` | the two loops that choose a font size and break lines | `composition.py` |
| `Layout` | where the compositor puts its layers (no state) | `composition.py`, `contracts.py` |
| `ItemLifecycle` | *abstract specification*: what every store promises of an item with an id of its own | - |
| `AssetStore` | uploaded ads on the file system: servers and purge scripts as processes, one file operation a step, crashes, full disks, time | `asset_storage.py`, `purge_expired_assets.py` |
| `ObjectStorage` | a bucket whose requests fail, get lost or land late | `cloud_storage.py` |
| `CapabilityTokens` | the times of a token, in whole seconds | `capability_tokens.py` |
| `CloudAssets` | uploads and deletions of ads in a bucket, with the token a deletion needs | `asset_storage.py`, `app.py` |
| `PictureStore` | composed pictures on a disk or in a bucket, and what the services do with them | `composition_storage.py` |
| `RateLimiter` | the fixed window of each caller | `rate_limits.py` |
| `Studio` | the page: reducer, handlers suspended in awaits, refs and object URLs, the answers of the service | `studio-state.ts`, `studio-client.tsx`, `studio-api.ts`, `brand-lock-form.tsx` |
| `RunRepositoryProofs`, `RunServiceProofs`, `MigrationProofs`, `PipelineProofs`, `AssetStoreProofs`, `StorageProofs`, `CompositionProofs`, `StudioProofs` | the theorems: of the rows, of the handlers over them, of a start, of the content, of ads on a disk, of the bucket, pictures, tokens and limiter, of layers and texts, of the page | - |
| `MCRunRepository`, `MCRunService`, `MCAssetStore`, `MCStorage`, `MCPipeline`, `MCStudio` | the instances TLC checks | - |

`RunService` extends the two handler modules, which extend `Handlers`, which extends
`RunRepository`: an action of a handler *contains* the transaction it runs (for
example `ReviseCommit` contains `CompleteRevision`), so the composition is by
conjunction and the repository is not modelled twice. `RunRepository` instantiates
`RunLifecycle`, and `RunService` states `RepositorySpec` as a property of itself: a
chain of two refinements, `RunService` => `RepositorySpec` => `LifecycleSpec`.
`Studio` sees a Run as `RunLifecycle` does and instantiates it once per session:
`ServersFollowLifecycle` checks that the service the page is modelled against is the
one the chain of refinements provides. `AssetStore`, `CloudAssets` and `PictureStore`
each implement `ItemLifecycle`, item by item; the two cloud stores extend
`ObjectStorage`, and `CloudAssets` uses the operators of `CapabilityTokens`. They share
no state with the handlers: a Run loads its ad once (an outcome of `AnalyzeRun`), and
what a row refers to is `stored` there, a set of ids whose files `PictureStore` looks
into. `Pipeline` is the same workflow as `InitialVersion` and `RevisionService` with
the roles of control and data exchanged: a handler is one step, and the content is
there.

### State and actions of `RunRepository`

One variable per column or table that a guard or a property looks at. `status`,
`generationCount`, `revisionCount` and `attemptCount` are the columns of those
meanings. `analysis`, `confirmed` and `draft` hold the Brand Lock that column
carries, because equality of Brand Locks is all the code compares; `composition`
holds the artifact id, `critique` the verdict. `operations` is the table
`project_run_operations`, by its unique key (kind, key digest); `"absent"` is a row
not inserted. `revision` is the row of `project_run_revisions`.

Each action is a transaction that *commits*; its conjuncts are the conditions under
which the code does not raise. `BEGIN IMMEDIATE` (SQLite) or the advisory lock
(`postgres_repository.py`) makes a transaction one step. Every statement is keyed by
the Run's id, so Runs do not interact and **one Run** is enough.

`RepositoryNext` is what callers may ask. `complete_analysis` and `record_failure`
do not look whether the Run is still being analysed, so `RepositoryNext` allows them
only then (`BeingAnalysed`), and `ImplementsRepository` checks that the handlers keep
to it: drop the check of the claim in `analyze_run` and that run fails.

`RetryAccounting` and `RowsConsistent` are conjunctions of named parts, which the
proofs use one by one.

Left out: run creation (one insert before anybody knows the id; `RepositoryInit` is
its result), time stamps and their order checks, the text of requests, drafts and
revisions, the value of warning codes (the flag `warned` says one was appended), and
`increment_technical_attempt` and `update_status`, which nothing in the service calls.

### State and actions of the handlers

`pc[w]` is the step worker `w` takes next, `local[w]` what its request has read,
`reply[w]` the answer it gave last, `stored` the artifacts in the store. A handler is
cut where the code leaves a transaction or the store and another worker can run.
Columns are written once, so a read of several of them in a row is one step; the
status does change, so its read is a step of its own wherever the code decides on it
later (`critic_read`, `analyze_fail`).

| Endpoint | Steps |
|---|---|
| analyze | `AnalyzeRequest` (reads the status), `AnalyzeClaim`, `AnalyzeRun` (asset and pipeline), `AnalyzeComplete` or `AnalyzeFail` |
| confirm | `ConfirmRequest` |
| draft | `DraftRequest`, `DraftSave` |
| composition | `ComposeRequest`, `ComposeRender` (file), `ComposeSave` (row), `ComposeDiscard` |
| critic | `CriticRequest` (reads the status), `CriticRead`, `CriticSave`, `CriticAnswer` |
| feedback | `FeedbackRequest` (claim), `ReviseRun` (file), `ReviseCommit` (rows), `ReviseDiscard`, `ReviseFail` |
| retry | `RetryRequest` (claim), `RetryDecide`, then as feedback |

An answer is `"ok"` with what it carries, or a code: `"rejected"` stands for every
4xx or 5xx code no property tells apart, `"brand_lock_unconfirmed"` is the draft
gate's, `"revision_failed"` covers it and `retry_failed`, `"invalid_response"` is a
server error because the response violates its own contract.

**Faults.** A run gives a set of fault profiles (`FaultProfiles`); a behaviour is under
one of them (`faults`, chosen at the start, constant), and a property says which faults
it excludes:

| Fault | In the code |
|---|---|
| `render` | an exception an `except` clause names, before anything is saved (compositor, fixture, provider, validation, a refused commit) |
| `save` | the artifact store fails to save: none, some or all of the artifact is there, or will be when a late put lands; or the artifact is saved and its summary does not validate |
| `unexpected` | any other exception |
| `database` | a connection that fails before the commit |
| `acknowledgement` | the commit took effect and the call raised |
| `reread` | the same, by the second connection that reads the result back |
| `discard` | the artifact store fails to delete (`delete` raises) |
| `crash` | the process ends: no answer, no cleanup |

Assumptions: `uuid4` never repeats an id in
use; the artifact store is not purged while a Run is in use (artifacts expire after
24 hours and nothing purges them). An artifact in `stored` is one of which the store
holds, or may yet hold, a part.

After a save that failed, `generate` discards (`ComposeDiscard`, unless the summary
was at fault), `_execute` does not: it notes `artifact_saved` only when `save` has
returned, and the store's own clean-up is none in a bucket and may raise on a disk. So
`ReviseRun` leaves what the save left, which is why `NoOrphansAtRest` excludes the fault
`save` beside `discard` and `crash`. `DraftSave` compares Brand Locks only: the draft that
is saved follows from the lock, so a second one is a replay. `DraftRequest` has one
rejection for all codes of a generation error, which change no row.

### State and actions of `AssetStore`

`files[a]` holds the four files of an asset (`.part`, `.meta.part`, content,
metadata), each with the write it stems from; `tombstone[a]` and `closing[a]` the
tombstone and its `.part`. `task[p]` is the operation process `p` is in the middle
of. Inside one process a lock makes operations exclude each other, so a process does
one thing at a time; nothing excludes two processes, so a step is one file operation.
A check of the tombstone is one step with the file operation before it, and the reads
of a purge are one step: between them the process touches nothing, and a check made
earlier only sees less.

| Operation | Steps |
|---|---|
| store | `StoreBegin`, `WritePart`, `WriteMetaPart`, `CommitContent`, `CommitMeta`, `Confirm`; giving up: `Unlink` in the code's order, `StoreRefused` |
| load | `LoadBegin` (tombstone, metadata, expiry), then `ServeContent` or `LoadFails` |
| delete | `DeleteBegin` (lists the files), `WriteTombstone`, `CommitTombstone`, `Unlink` in any order, `DeleteDone` or `DeleteFails` |
| purge | `PurgeBegin` (lists), `PurgeRead`, then a delete per expired asset, `PurgeDone` (old tombstones) |

A server that crashed is `"down"` and comes up only through a purge that succeeds, as
`lifespan` has it. An upload whose delete capability cannot be issued is a delete
right after the store. Validation refusals change nothing and are left out; the media
type, which only chooses the name of the content file, is too. `drawn`, `stored`,
`asked` and `deleted` are history variables. Ids are drawn once unless they are in
`GivenIds`, which stands for callers that pass an id to `store`.

Assumption `Tick`: a unit of time (a fraction of 24 hours) is longer than any file
operation, so no operation outlasts two ticks.

`Life` maps an ad whose id was drawn to `ItemLifecycle`: *open* while it can be read,
*new* as long as a store of it may still make it so, *closed* otherwise.

### State and actions of the bucket: `ObjectStorage`, `CloudAssets`, `PictureStore`

`objects` is the set of keys that hold an object. A request *succeeds* (`Succeeds`), or
is reported failed (`Fails`): then it was refused, got lost, or stands in `late` and is
executed by `Land` at any later time, or never. A `put` that must create is refused
when the key is taken. Every request of a handler is a step, and a handler's process
may end between two of them.

`CloudAssets`: `uploads[a]` is the upload of ad `a` (`UploadBegin`, `PutContent`,
`PutMeta`, `IssueToken`; `Undo` when a put failed), `removals[d]` a deletion at work
(`RemovalBegin` with the token checked, `ReadMeta` for the extension, `Bury` for the
tombstone, `RemoveObjects`). There is no lock: deletions of one ad overlap. What `load`
looks at is `Readable`; reading changes nothing and has no action of its own.

`PictureStore`: `deployment` is chosen once, as `_stores_from_environment` does.
`saves[p]` is where the request that rendered picture `p` stands. On a disk `save` is
two writes and two renames, each of which may raise, with a clean-up in a fixed order
that may raise too; in the bucket two puts without a clean-up. `Commit` stands for the
row's transaction: it may take effect (`row`), raise (`raised`), or both, and after a
call that raised the handler discards the picture. `ReferencedPicturesLoad` excepts the
third case, which is finding 1, as `ReferencedArtifactsStored` does. `GiveUp` stands for
a failed save, which `generate` cleans up and `_execute` does not.

The store's own answers are external: what the code does with them is modelled, what
the bucket promises is one atomic execution per request.

### State and actions of `RateLimiter` and `CapabilityTokens`

`entries` is the code's dictionary, `Allow` a call that returns true; a call that
returns false changes nothing. `Current` is the window after the reset the code does
first. `grants` is history. `Restart` empties both: the limiter lives in one process,
and what it promises it promises of one. `CapabilityTokens` has no state: `Second`
instants make a second, `Expiry` is the claim `exp`, `Accepts` the test of `verify`.

### State and actions of `Migration`

`schema` is the set of columns of `project_run_contexts` that a back-fill or a check
depends on, `rows` what each row holds, `server[s]` how far the start of process `s` is:
`ReadColumns`, `AddColumn` (one ALTER, which `sqlite3` commits by itself; a duplicate
column raises), `Backfill` (the UPDATEs and what follows, one transaction). A start
that raised is down and may start again; `CrashStarting` cuts one off. A server that is
ready serves (`Serve`: the three transactions that fill those columns) while others
start. `Init` is any schema an earlier version of the program left, with any rows it
may have written.

### State and actions of `Pipeline`, `CreativeRules`, `TextFit`

A Brand Lock is a record of members of small sets and sequences; `identity` stands for
the product name and the layout template, which are only compared. A text of a copy is
*short* or *long*, as the Critic's readability limits see it; a hypothesis claims
something *plain*, *absolute* or *stereotype*, which is what the Critic's patterns
recognise. `Kinds` is the fixture registry. The variables of `Pipeline` are the columns
of the Run that carry content; an action is a handler that succeeds, or one of the
failures that are recorded. `Answers` are the provider results that satisfy their
contract; the first that does, initial or repaired, meets the gate. `Copies` is any
copywriter's output, not only the fixture one's (the class takes any `Copywriter`), so
that the gates behind it have something to refuse.

`TextFit` is the loop of `_wrap_text` inside the loop of `_fit_font`, one turn a step. A
unit is where it begins and ends at size 1 if the text were set on one line, spaces
between units included; a line is as wide as from the beginning of its first unit to the
end of its last, times the size. So the space before a unit does not count where a line
starts, as in the code. `Measure` tests width and height of the box around the lines, as
`_fit_font` does; the font is taken to measure additively, and the box around the lines
stands for the box around their ink, which Pillow may find a little smaller or larger.
`Possible` is the reference: any way to distribute the units over lines, in order.
`Layout` has the numbers of `compose` and no state.

### State and actions of `Studio`

`ui` is the reducer's state; a field of it, of the refs or of the object URLs (`page`)
holds the number of the *session* (upload and Run) its value stems from, 0 when it is
undefined, which is exactly what the properties tell apart. `task[h]` is the request
handler `h` awaits: a handler keeps the Run it was started with and goes on to its
next request whatever became of the page. `Reduced` is the reducer, `Receive` the
continuation of every handler (dispatch, refs, next request), the actions from
`StartRun` to `DeleteSource` the buttons with their guards.

`server[s]` is the lifecycle of the Run plus the `job` it is working on; analysis and
revisions take two steps, and end whether or not anybody waits. Faults: `error` (a
refusal that changes nothing), `lost` (request or answer), `revision` (a failure
recorded as retryable or final) and `unrecorded` (a failure answered but not
recorded, or a published revision reported as failed: findings 1 and 5 of section 5).
Focus, form inputs, fixtures and wording are left out, and so is the revocation of
object URLs, which changes nothing the page can show later.

## 3. Runs

| Run | Question | Properties |
|---|---|---|
| `repository` | Are the transactions alone enough, whatever order callers use? | `RowsConsistent`, `OneActiveOperation`, `RevisionAccounting`, `RetryAccounting`, `EndsForAReason`, `VersionOneImmutable`, `ImplementsLifecycle` |
| `service_faults` | Do two handlers keep claims exclusive and answers true under every fault? | `ClaimsHaveOneOwner`, `AnswersAgreeWithRows`, `OneTechnicalRetry`, `ImplementsRepository` |
| `service_settles` | Do racing handlers delete a referenced artifact, leave an orphan or a claim nobody settles? Each property names the faults it excludes. | `ReferencedArtifactsStored`, `NoOrphansAtRest`, `AnalysisIsSettled`, `OperationsAreSettled` |
| `asset_service` | Do crashes, full disks, deletions and purges of two processes keep the promise to the uploader? | `KeptUntilExpiry`, `DeletionComplete`, `ImplementsItemLifecycle` |
| `asset_race` | Can a store that is under way undo a deletion of the same id? | `DeletedStaysDeleted` |
| `asset_liveness` | Are expired assets removed although deletions and purges make each other fail? | `ExpiredAssetsRemoved` |
| `storage` | Is a deletion final, a referenced picture loadable and a capability long enough, whichever requests to the bucket fail or land late? What passes the limiter? | `CloudDeletionComplete`, `ClosedOrWhole`, `CapabilitiesCoverAds`, `ReferencedPicturesLoad`, `BurstsAreBounded`, `AdsImplementItemLifecycle`, `PicturesImplementItemLifecycle` |
| `migration` | Do starts that collide or are cut off leave a server on a half-migrated database, or keep each other down? | `ReadyMeansMigrated`, `StartsConverge` |
| `pipeline` | Do the checks on content agree with each other? Does the text fit lose anything? | `ReviewsCanBeReported`, `RevisionsRaiseNothingNew`, `RejectsOnlyUnsafe`, `VersionsKeepTheRequest`, `LargestFontThatFits` |
| `studio` | With two requests out at once, over two sessions: does the page show and offer what the service holds, do the guards hold against clicks, and does progress end? | `VisibleIsPublished`, `RetryIsAuthorized`, `PageNeverConflicts`, `OnlyLateAnswersMixSessions`, `BusyEnds`, `ServersFollowLifecycle` |
| `dangling_artifact`, `studio_reset` | Does the code do what the documents say? | one each, violated (section 5) |

`storage` and `pipeline` explore several systems that share nothing side by side: the
variable `part` of `MCStorage` and `MCPipeline` says which one a behaviour is about, so
their state spaces add up instead of multiplying.

**Bounds.** Two keys of each kind and two request bodies give every case of the
claims: a known key with the same or another body, and a second key against a first.
Three Brand Locks: the analysed one, one that may be confirmed although it differs,
one that may not. Two verdicts at the service level, because only `reject` is told
apart; all four at the repository level. Two workers are the smallest number that
races. `Artifacts` bounds the ids in use at one time (one per version and one per
worker), not the ids ever made: an id nothing refers to any more is reused. Every
counter of the repository is bounded by the protocol itself, so no state constraint
is used anywhere. Workers, keys and artifacts are symmetric; runs with liveness use no
symmetry.

For the asset store, a server and the purge script are the two kinds of process there
are, and two assets make a purge do more than one deletion; two servers with an id of
the caller's are the only way a store and a deletion of one id overlap. `MaxTime` lets
an asset be stored, expire and its tombstone run out (in `asset_service`, where
`TombstoneTTL` is 2; expiry plays no part in `asset_race`), and one deletion per asset
is asked for, because the second finds what the first left only through a purge or a
race, which the model has. For the Studio, two sessions are what a leftover needs; two
handlers are one answer arriving while another handler acts. `RetryIsAuthorized` and
`PageNeverConflicts` speak of the first session: a late answer of the first can open the
form or the retry of the second too early, which is finding 2 again.

In the bucket, two deletions of one ad overlap, and `MaxLate` lets two requests that
were reported failed land after each other; a second is two instants and a life two
seconds, so that an instant falls inside a second and both truncations round; the clock
goes on three instants past the expiry of an ad stored at 0. Two pictures only share the
bound on late requests. A limit and a window of 2 with the clock to 5 see a burst across
a boundary; the theorem is for every limit. Two starting processes collide, and three
cut-off starts leave every prefix of the ALTERs to both. `pipeline` has three
hypotheses and reports of at most three issues (`MaxItems`, 32 in the code), so that
reports that are full, and too full, are reached; hypothesis ids are symmetric. Texts
have at most five units of width 1 to 3 in a box where two sizes are tried and three
lines may fit.

**Fairness.** `WF_vars(Step(w))` per worker: a handler that has started goes on, which
is what the thread pool and the event loop give. Requests and crashes are not fair: no
client has to call, no process has to end. The two liveness properties of
`service_settles` speak of behaviours whose profile is within `{"render", "save"}`
(`OnlyNamedErrors`), because with any of the other faults the code does leave claims
unsettled (section 5, and the crash hazards); the other profile of that run, `{"render",
"unexpected", "database"}`, is for its two invariants. `NoOrphansAtRest` is about that
one, where everything but the store and the process may fail;
`ReferencedArtifactsStored` is about both. In `Migration` a server that could not start
is started again, as a supervisor or platform does, and a start goes on; cut-off starts
are not fair, and bounded. In the asset store a begun operation goes on, the script runs
again and again (it is a scheduled job) and a stopped server is started again; uploads,
loads and deletions are not fair, and a run with fairness has no faults: with `disk`
faults that never end nothing is removed. In the Studio the service answers every
request, its jobs end and the event loop delivers; clicks are not fair. A fetch has no
timeout in the code, so a service that never answers keeps the page busy: that is what
the fairness of `Serve` assumes away.

**Deadlock** checking is off: a Run that nobody calls, or that is closed, rests, and so
do a directory nobody works on and a page nobody clicks.

Each property has a mutant: the definition it depends on, changed the way a plausible
bug would change it, which the property's run must refute. Mutants stand before their
originals and are marked in comments.

## 4. Proofs

Every safety invariant, action property and refinement of a passing run is also a
theorem, for every value of the constants: any number of keys, workers, processes,
ads, requests that land late, handlers of the page, rows, texts. TLC checked the
inductive invariants on small instances before they were proved.

`RunRepositoryProofs` proves that `RepositorySpec` implies the type
invariant, the five safety invariants and the action property of the `repository`
run, that every change of the status is in the table of `domain.py`, and
`ImplementsLifecycle`: each transaction is a step of the lifecycle or a stutter, under
the mapping of `RunRepository` (`Phase`: three meanings of `in_progress`, told apart by
the columns).

No invariant but the type is inductive alone. `OneActiveOperation` needs to know that
a ready Run without a revision has no operations (so that a claim is the only one),
which needs to know when the status is ready, which needs the columns. The inductive
invariant `IInv` is their conjunction with `RowsConsistent`, the relation between
status, columns and tables that no schema constraint states. One lemma per transaction
shows that it keeps `IInv`. The transactions before the critique share
`NothingClaimedBeforeCritique`: nothing is claimed yet, so all that is said about
operations goes on holding of none. The four revision transactions each say what they
do to the set of ids in each state and derive every conjunct from that.
`RetryAccounting` is the source of a retry, part of `IInv`, and `AttemptsCounted`, an
induction of its own on top of `IInv`, with a lemma that a transaction either leaves the
counter and the accepted retries alone or adds one to both.

`RunServiceProofs` is about any number of workers and any fault profiles.
`ServiceInv` joins `IInv` to what each request has in hand between two steps: at most
one request owns the Run (`Owners`), an owner's claim is still unsettled, and the response
a revision is about to commit still names the rows it was built from. That is what makes
every transaction a handler asks for one that `RepositoryNext` allows, so
`ServiceImplementsRepository` comes out of the same induction as `ClaimsAreOwned`, and
with the theorem above the handlers implement the lifecycle
(`ServiceImplementsLifecycle`). Three inductions rest on it:

- `RetryInv`: the counter alone does not say why it stops at one; a retry is offered only
  while it is 0, and a revision that is a first attempt is in progress only then.
- `AnswersInv`: an answer tells what a column written once, or an operation that
  succeeded, holds; and the Critic's last step answers the verdict it has written.
- `ArtifactsInv`: a request that made an artifact has it to itself, and no row refers to
  it until the commit. Between an error and the deletion that follows it this is true
  only when errors mean that nothing was committed, which is the hypothesis of
  `ReferencedArtifactsStored` and finding 1. For `NoOrphansStay` the invariant also has
  the other direction: what no row refers to is in some request's hands. A failed save
  takes it out of them (`Spills`), so the theorem is about behaviours without one.

`MigrationProofs` proves `ReadyMeansMigrated` for any number of processes, rows and
cut-off starts. What a start read (`seen`) stays true because no statement removes a
column; so `MigrationInv` adds that every column before the one a start is at exists,
whoever added it. Rows a server fills while another starts are complete because the
server was ready.

`PipelineProofs` is about any Brand Locks, provider results, copywriters and registry.
`ContentInv` says where each artifact came from: the analysis from a valid answer, the
draft from an accepted copy under the analysed lock, the picture from that lock, the
reports from the Critic. From it follow `GatesLeaveSafety` (the three other blocking checks
of the Critic cannot fire on what the gates let through), `RevisionsAreSafe` (shortening a
text adds no issue, and fewer issues of the same kinds do not reject),
`VersionsAreTheRequests`, and `ReviewsFit`: of the issues a report may have, all but two
kinds need something the gates refuse, or belong to a hypothesis.
`ReviewsAreConsistent` needs no invariant: for any input the Critic's report satisfies
`CritiqueReport`, but for the number of its issues.

`AssetStoreProofs` is about any number of servers, purge scripts, ads and faults, and any
times to live. None of the promises is inductive: what a store may conclude depends on
what deletions have seen, and the other way round. `StoreInvariant` says of each ad that all
that is known of it (files, the answer of `store`, the hands of a store under way) comes
from one write; that nobody adds a file once that store has committed (`Settled`); that a
deletion at work has listed every file there is; and that whoever closes an ad was asked
to, or it is old (`Dead`). `DeletionIsFinal` follows from it for ids that were drawn,
however long the system runs. An id a caller gives is protected by its tombstone alone,
so for those the theorem assumes that no tombstone runs out (`TombstonesLast`, true of
`asset_race`), and `DeletedInv` carries the tombstone along.

`StorageProofs` holds the theorems about the bucket (`CloudInv`, `PictureInv`): at each
step of an upload or a save, which keys are in the bucket, and which requests can be
late. A late put creates a part of an ad that was given up, of which another part is
missing for good; a late removal is of an ad that is buried or was given up. The same
for pictures, with the second deployment, where nothing is late; `RowInv` adds that the
request that committed the row without an error is done, so nothing will discard the
picture. It also proves `BurstsAreBounded` for every limit and window. The property
speaks of the times of the grants, the code only of the window a grant falls in;
`LimiterInv` relates them: windows do not overlap, none holds more than `Limit` grants,
the first grant of a window opens it, and the entry is the window of the last grants. A
grant and the one `2 * Limit - 1` after it are then a whole window apart.
`LimiterRefusesLate` is the other direction: a refusal has `Limit` recent grants behind
it. `TokenTimes` is about the operators of `CapabilityTokens` alone, and carries
`CapabilitiesCover`.

`StudioProofs` is about any number of handlers and sessions. `RunsInv` relates a task to the
Run it asks about: a positive answer on its way to the page is still true of the Run when it
arrives, because a Run neither loses a version nor changes a verdict
(`PageUsesLifecycle`). `FirstSessionInv` is about the first session: which phases the
page can be in while a request is out (`OutIn`), that requests that change the Run are out
one at a time, and what each phase says of the Run. It ends with the second upload, because
a late answer of the first session breaks it (finding 2); `SessionsMixLate` shows that
nothing else mixes sessions.

`CompositionProofs` proves `LargestFontIsChosen` for any texts and boxes. `FitInv` says that
the lines closed so far hold the units before the current line, in order and none too wide;
that no way to set the text at all gets the first unit of the current line on an earlier line
than the loop does (`GreedyInv`); and that every larger size is impossible. Giving up a
size is then a proof that it cannot be used, and the lines at the end are a way to use
it. `LayersSatisfyContract` and `LayersStayApart` are about the numbers of `Layout` alone.

**Assumptions.** All are named in the modules, and TLC evaluates them in every run.
`None` is no value of the data it stands beside (`NoneAssumption`, `NoneIsNoData`,
`NoReplyAssumption`, `NoEntryAssumption`); keys are finite; the request's Brand Lock is
confirmable and legal; callers record conditions and actions of `workflow.py`
(`FailuresAssumption`, and `RecordedFailuresAssumption` for the two classifications
`_execute` records); fault profiles consist of the named faults; an ad's life is shorter than
its tombstone's (`asset_storage.py`, 24 hours and seven days); a life in the
bucket is a whole number of seconds; a provider's answer is within the bounds of its contract
(`AnswersAssumption`); the units of a text follow each other on a line
(`TextAssumption`), and sizes and boxes are numbers (`SizeAssumption`, `BoxAssumption`).
The bounds of TLC (`MaxTime`, `MaxTick`, `MaxCrashes`, `MaxSessions`, `MaxLate`, and the
sets) are any numbers and sets in the theorems.

**Only model-checked.** Liveness, which is beyond the prover: `AnalysisIsSettled`,
`OperationsAreSettled`, `ExpiredAssetsRemoved`, `StartsConverge` and `BusyEnds`. And what the
models take for granted: that a transaction is one step, how the bucket fails, that the
font measures additively.

## 5. Where the code and its documents disagree

With a run that shows the violation:

1. **`dangling_artifact`.** The revision specification (day 15, line 179) has only
   unreferenced artifacts deleted. `complete_revision` reads its result back after the
   commit; if that read raises, the handler deletes the artifact of the version 2 it has
   just committed.
2. **`studio_reset`.** The deletion "clears the entire in-memory Studio session" (day 16,
   line 132). It is offered while requests are out, and no event names its Run: the
   analysis or the picture of the deleted session can turn up in the next one.
   `OnlyLateAnswersMixSessions` shows that this is the only way.

Met while modelling, without a run of their own; the model behaves as the code does:

3. *A Brand Lock that cannot be drafted.* Users may change two fields of the Brand Lock
   before they confirm (day 10, line 22), and drafts are generated for confirmed Runs
   (day 11, line 26). `DraftGenerator.generate` asks for equality with the analysed Brand
   Lock, so a Run confirmed with such a change stays in progress without ever getting a
   draft. The Critic asks for the same equality (`LockPreserved`), so the gate is also
   what keeps such a Run from being rejected.
4. *A critic call during a revision.* The critic specification (day 14, line 187) says
   the endpoint returns the stored response on repeat calls. `run_critic` (`app.py`, line
   876) builds `CritiqueCompleted` outside its `try` with the Run's current status, and
   the contract admits two statuses: during a revision the replay is a server error.
5. *A revision that stays in progress.* Non-retryable failures become `failed_final`
   (day 15, line 159). The last `except` of `_execute` (`revision_service.py`, line 326)
   answers a failure and fails nothing: operation and Run stay in progress, and no call
   can move them. A deletion of the artifact that raises inside an `except` clause ends
   the same way.
6. *Bytes no purge finds.* ADR 4 (line 13) intends temporary assets to expire within 24
   hours. The purge (`asset_storage.py`, line 290) looks for metadata files; bytes whose
   metadata a crashed `store` had not yet put in place are never found.
7. *A bucket nobody purges.* ADR 9 (line 34) asks for a "bounded scheduled operation"
   that cleans up expired objects. `CloudAssetStore.purge_expired` (line 449) returns 0:
   objects of ads nobody deletes stay, although nobody can read them.
8. *An analysis that a bucket error leaves open.* `CloudAssetStore.load` (line 395) looks
   for the tombstone outside the `try` that turns errors into `AssetStorageError`; a look
   that fails ends `analyze_run` after its claim, and the Run stays in progress. (An
   instance of the fault `unexpected`.)
9. *More hypotheses than a report holds.* A provider may answer with 32 hypotheses, each
   of which becomes an issue of the Critic; a safety refusal and an unreadable text are
   two more. `CritiqueReport` holds 32: beyond that `run_critic` answers `critic_failed`,
   and does so again. `ReviewsCanBeReported` asks for the room.
10. *A version 2 shown as ready.* A rejected result "never appears as an approved result"
    (day 16, line 110). `revision_succeeded` (`studio-state.ts`, line 183) leads to
    `ready_v2` whatever the critic said of version 2; for version 1 the reducer looks at
    the status. With the engine the service has, `RevisionsAreSafe` shows that version 2
    is never rejected, so the page is right as long as that engine is.
11. *A retry nobody authorized.* A retry control "appears only after a server-authorized
    `failed_retryable` outcome" (day 16, line 122). The page goes by the code
    `revision_failed` (line 201), which the service also answers when it recorded nothing:
    `RetryIsAuthorized` holds of Runs whose failure was reported as it was recorded.
12. *A page without an exit.* The error summary (`studio-client.tsx`, line 445) says to
    delete the source and begin a clean run. After a failed upload there is no source to
    delete, and nothing dispatches `reset`.
13. *A deletion that fails.* Every transition advances or records an error code (day 16,
    line 175). A failed deletion does neither: the reducer ignores failures while
    `deleting`, and nothing leaves that phase; `BusyEnds` leaves it out.

14. *What a failed save of a revision leaves.* Day 15 (line 235) has unreferenced
    artifacts cleaned up when the rows cannot be stored. It says nothing of a save that
    fails: `_execute` sets `artifact_saved` after `save` returned (`revision_service.py`,
    line 226), so line 310 deletes nothing, while the bucket's `save`
    (`composition_storage.py`, line 185) has no clean-up after its two puts and the disk's
    (line 99) may raise. Objects nobody refers to stay, and nothing purges them.

## 6. Not modelled, and the plan

Next, in this order:

1. Proofs of the links between the models: that what `Pipeline` calls a handler that
   succeeds is a path through `InitialVersion` and `RevisionService`; that `Studio`'s service is
   an instance of `RunService`, not only of the same lifecycle; and, for the liveness
   properties, the safety half of each: that the step which would settle a claim is
   possible whenever one is open, stated without `ENABLED`.
2. The integrity checks of `composition_export.py` and of the stores' `load` (a file that
   was replaced or truncated), and the expiry of pictures.

Not modelled, and why:

- authentication but for the times of a token, request parsing, string patterns of the
  contracts: they refuse a request before anything changes;
- cryptography, the database, the bucket, the font library and the providers: external,
  modelled as their callers meet them;
- pixel work, texts of fixtures, the recognition of claims in a text, and how
  `_text_units` cuts a text into units: data no property tells apart;
- `increment_technical_attempt` and `update_status` of the repository: nothing in the
  service calls them;
- the public revision demo: a local state machine over fixtures;
- schema export and other scripts that only read and write files.
