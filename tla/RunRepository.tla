--------------------------- MODULE RunRepository ---------------------------
(***************************************************************************)
(* The rows that repository.py keeps for one Run, and its write            *)
(* transactions.  Every statement of the repository is keyed by the Run's  *)
(* id, so Runs do not interact and one Run stands for all.  A transaction  *)
(* takes the write lock first (BEGIN IMMEDIATE, or the advisory lock of    *)
(* postgres_repository.py), so each is one atomic step.                    *)
(*                                                                         *)
(* An action here is a transaction that COMMITS.  One that raises changes  *)
(* no row; who calls what, what a call answers and what fails around it is *)
(* the business of RunService.                                             *)
(***************************************************************************)
EXTENDS RunDomain, FiniteSets

CONSTANTS
  Keys,         \* digests of the clients' idempotency keys
  Prints,       \* fingerprints of the canonical request bodies
  Locks,        \* Brand Lock snapshots
  RequestLock,  \* the snapshot the Run was created with
  Confirmable,  \* the snapshots validate_brand_lock_confirmation accepts
  Artifacts,    \* ids of composition artifacts
  Failures,     \* the <<condition, action>> pairs callers record
  None          \* SQL NULL

\* What version 2 is, and what its creator is answered (RevisionCompleted).
Revisions == [artifact : Artifacts, verdict : Verdicts]
Responses == [artifact : Artifacts, verdict : Verdicts,
              previous : Artifacts, attempts : Nat]

ASSUME LocksAssumption ==
  /\ RequestLock \in Confirmable
  /\ Confirmable \subseteq Locks
ASSUME NoneAssumption ==
  /\ None \notin Locks \cup Artifacts \cup Prints \cup Verdicts
  /\ None \notin RetryConditions \cup RetryActions
  /\ None \notin Revisions \cup Responses
ASSUME KeysAssumption == IsFiniteSet(Keys)
ASSUME FailuresAssumption == Failures \subseteq RetryConditions \X RetryActions

VARIABLES
  status,           \* project_runs.status
  warned,           \* a failure code has been appended to warning_codes_json
  analysis,         \* the Brand Lock in analysis_json, or None
  confirmed,        \* confirmed_brand_lock_json
  draft,            \* the Brand Lock the draft columns were written for
  composition,      \* the artifact id in composition_json
  critique,         \* the verdict in critique_json
  generationCount,  \* initial_generation_count
  revisionCount,    \* human_revision_count
  attemptCount,     \* technical_attempt_count
  operations,       \* project_run_operations, by <<kind, key digest>>
  revision          \* project_run_revisions: artifact and verdict of version 2

versionOne == <<analysis, confirmed, draft, composition, critique, generationCount>>
versionTwo == <<operations, revision, revisionCount, attemptCount>>
repositoryVars == <<status, warned, versionOne, versionTwo>>

\* UNIQUE(run_id, operation_kind, idempotency_key_digest)
OperationIds == {"feedback", "retry"} \X Keys
OperationStates == {"in_progress", "succeeded", "failed_retryable", "failed_final"}

\* "absent" is the row that has not been inserted.
Operations == [state     : OperationStates \cup {"absent"},
               print     : Prints \cup {None},
               condition : RetryConditions \cup {None},
               action    : RetryActions \cup {None},
               response  : Responses \cup {None}]

NoOperation == [state |-> "absent", print |-> None, condition |-> None,
                action |-> None, response |-> None]

IdsIn(state) == {id \in OperationIds : operations[id].state = state}
RetrySources == {id \in IdsIn("failed_retryable") : id[1] = "feedback"}

----------------------------------------------------------------------------
\* create: the row a new Run starts from.
RepositoryInit ==
  /\ status = "pending"
  /\ warned = FALSE
  /\ analysis = None
  /\ confirmed = None
  /\ draft = None
  /\ composition = None
  /\ critique = None
  /\ generationCount = 0
  /\ revisionCount = 0
  /\ attemptCount = 0
  /\ operations = [id \in OperationIds |-> NoOperation]
  /\ revision = None

\* Mutant of ClaimAnalysis: the UPDATE has no condition on the status.
ClaimAnalysisBlindly ==
  /\ status' = "in_progress"
  /\ UNCHANGED <<warned, versionOne, versionTwo>>

ClaimAnalysis ==
  /\ status = "pending"
  /\ status' = "in_progress"
  /\ UNCHANGED <<warned, versionOne, versionTwo>>

\* The analysis must carry the Brand Lock of the stored request.
CompleteAnalysis(lock) ==
  /\ lock = RequestLock
  /\ status = "in_progress"
  /\ status' = "awaiting_brand_lock"
  /\ analysis' = lock
  /\ UNCHANGED <<warned, confirmed, draft, composition, critique,
                 generationCount, versionTwo>>

\* with_status checks the status read on an earlier connection; the UPDATE
\* has no condition on the status it overwrites.
RecordFailure(seen, target) ==
  /\ target \in {"blocked", "failed"} \cap AllowedTransitions[seen]
  /\ status' = target
  /\ warned' = TRUE
  /\ UNCHANGED <<versionOne, versionTwo>>

ConfirmBrandLock(lock) ==
  /\ confirmed = None
  /\ status = "awaiting_brand_lock"
  /\ analysis # None
  /\ lock \in Confirmable
  /\ confirmed' = lock
  /\ status' = "in_progress"
  /\ UNCHANGED <<warned, analysis, draft, composition, critique,
                 generationCount, versionTwo>>

SaveDraft(lock) ==
  /\ draft = None
  /\ status = "in_progress"
  /\ confirmed # None
  /\ lock = confirmed
  /\ draft' = lock
  /\ UNCHANGED <<status, warned, analysis, confirmed, composition, critique,
                 generationCount, versionTwo>>

\* Mutant of SaveComposition: a later composition replaces the stored one.
SaveCompositionAgain(artifact) ==
  /\ status = "in_progress"
  /\ None \notin {confirmed, draft}
  /\ composition' = artifact
  /\ generationCount' = 1
  /\ UNCHANGED <<status, warned, analysis, confirmed, draft, critique, versionTwo>>

SaveComposition(artifact) ==
  /\ composition = None
  /\ status = "in_progress"
  /\ confirmed # None
  /\ draft # None
  /\ generationCount = 0
  /\ composition' = artifact
  /\ generationCount' = 1
  /\ UNCHANGED <<status, warned, analysis, confirmed, draft, critique, versionTwo>>

SaveCritique(verdict) ==
  /\ critique = None
  /\ status = "in_progress"
  /\ None \notin {confirmed, draft, composition}
  /\ generationCount = 1
  /\ critique' = verdict
  /\ status' = StatusAfter(verdict)
  /\ UNCHANGED <<warned, analysis, confirmed, draft, composition,
                 generationCount, versionTwo>>

\* The row claim_feedback_operation inserts.
InsertFeedback(id, print) ==
  operations' = [operations EXCEPT
                   ![id] = [NoOperation EXCEPT !.state = "in_progress",
                                               !.print = print]]

\* Mutant of ClaimFeedback: the Run stays ready while the operation runs.
ClaimFeedbackStayingReady(id, print) ==
  /\ id[1] = "feedback"
  /\ operations[id].state = "absent"
  /\ revision = None
  /\ status = "ready"
  /\ InsertFeedback(id, print)
  /\ UNCHANGED <<status, warned, versionOne, revision, revisionCount, attemptCount>>

\* Mutant of ClaimFeedback: a Run that awaits its retry takes new feedback.
ClaimFeedbackInsteadOfRetry(id, print) ==
  /\ id[1] = "feedback"
  /\ operations[id].state = "absent"
  /\ revision = None
  /\ status \in {"ready", "failed_retryable"}
  /\ InsertFeedback(id, print)
  /\ status' = "in_progress"
  /\ UNCHANGED <<warned, versionOne, revision, revisionCount, attemptCount>>

\* Mutant of ClaimFeedback: nobody looks for an existing revision.
ClaimFeedbackAfterRevision(id, print) ==
  /\ id[1] = "feedback"
  /\ operations[id].state = "absent"
  /\ status = "ready"
  /\ InsertFeedback(id, print)
  /\ status' = "in_progress"
  /\ UNCHANGED <<warned, versionOne, revision, revisionCount, attemptCount>>

ClaimFeedback(id, print) ==
  /\ id[1] = "feedback"
  /\ operations[id].state = "absent"
  /\ revision = None
  /\ \A other \in IdsIn("in_progress") : other[1] # "feedback"
  /\ status = "ready"
  /\ InsertFeedback(id, print)
  /\ status' = "in_progress"
  /\ UNCHANGED <<warned, versionOne, revision, revisionCount, attemptCount>>

\* The retry inherits the stored decision of the operation it retries.
InsertRetry(id, print) ==
  \E source \in RetrySources :
    operations' = [operations EXCEPT
                     ![id] = [NoOperation EXCEPT
                                !.state = "in_progress",
                                !.print = print,
                                !.condition = operations[source].condition,
                                !.action = operations[source].action]]

ClaimRetry(id, print) ==
  /\ id[1] = "retry"
  /\ operations[id].state = "absent"
  /\ status = "failed_retryable"
  /\ InsertRetry(id, print)
  /\ attemptCount' = attemptCount + 1
  /\ status' = "in_progress"
  /\ UNCHANGED <<warned, versionOne, revision, revisionCount>>

\* Mutant of FailOperation: the Run does not learn of the failure.
FailOperationKeepingRun(id, condition, action) ==
  /\ operations[id].state = "in_progress"
  /\ operations' = [operations EXCEPT ![id].state = "failed_final",
                                      ![id].condition = condition,
                                      ![id].action = action]
  /\ UNCHANGED <<status, warned, versionOne, revision, revisionCount, attemptCount>>

\* fail_revision_operation: the action decides whether a retry may follow.
FailOperation(id, condition, action) ==
  LET outcome == IF action \in OnceActions THEN "failed_retryable"
                                           ELSE "failed_final"
  IN /\ operations[id].state = "in_progress"
     /\ operations' = [operations EXCEPT ![id].state = outcome,
                                         ![id].condition = condition,
                                         ![id].action = action]
     /\ status' = outcome
     /\ UNCHANGED <<warned, versionOne, revision, revisionCount, attemptCount>>

\* The operations complete_revision marks succeeded: its own, and with a
\* retry the feedback operation whose failure it makes good.
Settled(id) == {id} \cup (IF id[1] = "retry" THEN RetrySources ELSE {})

\* Mutant of CompleteRevision: the feedback operation a retry made good is
\* marked succeeded with no response to replay.
CompleteRevisionOwnResponse(id, response) ==
  /\ operations[id].state = "in_progress"
  /\ revision = None
  /\ revisionCount = 0
  /\ revision' = [artifact |-> response.artifact, verdict |-> response.verdict]
  /\ revisionCount' = 1
  /\ operations' = [other \in OperationIds |->
                      IF other = id
                      THEN [operations[other] EXCEPT !.state = "succeeded",
                                                     !.response = response]
                      ELSE IF other \in Settled(id)
                      THEN [operations[other] EXCEPT !.state = "succeeded"]
                      ELSE operations[other]]
  /\ status' = StatusAfter(response.verdict)
  /\ UNCHANGED <<warned, versionOne, attemptCount>>

CompleteRevision(id, response) ==
  /\ operations[id].state = "in_progress"
  /\ revision = None
  /\ revisionCount = 0
  /\ revision' = [artifact |-> response.artifact, verdict |-> response.verdict]
  /\ revisionCount' = 1
  /\ operations' = [other \in OperationIds |->
                      IF other \in Settled(id)
                      THEN [operations[other] EXCEPT !.state = "succeeded",
                                                     !.response = response]
                      ELSE operations[other]]
  /\ status' = StatusAfter(response.verdict)
  /\ UNCHANGED <<warned, versionOne, attemptCount>>

----------------------------------------------------------------------------
\* The response of the revision that saves `artifact` as version 2 now.
ResponseNow(artifact, verdict) ==
  [artifact |-> artifact, verdict |-> verdict,
   previous |-> composition, attempts |-> attemptCount]

(***************************************************************************)
(* What callers may ask of the repository.  Two of its transactions rely   *)
(* on their caller: complete_analysis and record_failure do not look       *)
(* whether the Run is still being analysed, so only the request that won   *)
(* claim_analysis may call them, and only while no analysis is stored.     *)
(* RunService shows that the request handlers keep to this.                *)
(***************************************************************************)
BeingAnalysed == status = "in_progress" /\ analysis = None

RepositoryNext ==
  \/ ClaimAnalysis
  \/ BeingAnalysed /\ CompleteAnalysis(RequestLock)
  \/ \E target \in {"blocked", "failed"} :
        BeingAnalysed /\ RecordFailure(status, target)
  \/ \E lock \in Locks : ConfirmBrandLock(lock) \/ SaveDraft(lock)
  \/ \E artifact \in Artifacts : SaveComposition(artifact)
  \/ \E verdict \in Verdicts : SaveCritique(verdict)
  \/ \E id \in OperationIds :
        \/ \E print \in Prints : ClaimFeedback(id, print) \/ ClaimRetry(id, print)
        \/ \E failure \in Failures : FailOperation(id, failure[1], failure[2])
        \/ \E artifact \in Artifacts \ {composition}, verdict \in Verdicts :
              CompleteRevision(id, ResponseNow(artifact, verdict))

RepositorySpec == RepositoryInit /\ [][RepositoryNext]_repositoryVars

----------------------------------------------------------------------------
\* Every column holds a value of its type.
TypeOK ==
  /\ status \in Status
  /\ warned \in BOOLEAN
  /\ analysis \in Locks \cup {None}
  /\ confirmed \in Locks \cup {None}
  /\ draft \in Locks \cup {None}
  /\ composition \in Artifacts \cup {None}
  /\ critique \in Verdicts \cup {None}
  /\ generationCount \in 0..1
  /\ revisionCount \in 0..1
  /\ attemptCount \in Nat
  /\ operations \in [OperationIds -> Operations]
  /\ revision \in Revisions \cup {None}
(***************************************************************************)
(* What ties the status to the columns, the operations and the revision.   *)
(* No statement of the schema says so: it is what the conditions of the    *)
(* transactions add up to, and what each of them relies on.                *)
(***************************************************************************)
ColumnsFilledInOrder ==
  /\ draft # None => confirmed # None
  /\ composition # None => draft # None
  /\ critique # None => composition # None
  /\ generationCount = (IF composition = None THEN 0 ELSE 1)

StatusFitsColumns ==
  /\ analysis = None =>
       confirmed = None /\ status \in {"pending", "in_progress", "blocked", "failed"}
  /\ analysis # None /\ confirmed = None <=> status = "awaiting_brand_lock"
  /\ analysis # None /\ critique = None =>
       status \in {"awaiting_brand_lock", "in_progress"}
  /\ critique # None => confirmed # None
       /\ status \in {"in_progress", "ready", "failed_retryable", "failed_final"}
  /\ critique = "reject" => status = "failed_final"

NothingClaimedYet == \A id \in OperationIds : operations[id].state = "absent"

StatusFitsOperations ==
  /\ critique \in {None, "reject"} => NothingClaimedYet /\ revision = None
  /\ status = "ready" /\ revision = None => NothingClaimedYet
  /\ status = "failed_retryable" => IdsIn("in_progress") = {} /\ RetrySources # {}
  /\ status \in {"in_progress", "failed_retryable"} => revision = None
  /\ revision = None => revisionCount = 0 /\ IdsIn("succeeded") = {}
  /\ \A id \in IdsIn("in_progress") : id[1] = "retry" => RetrySources # {}

RowsConsistent == ColumnsFilledInOrder /\ StatusFitsColumns /\ StatusFitsOperations

(***************************************************************************)
(* At most one operation is in progress, of either kind, and one is        *)
(* exactly when the reviewed Run is in progress: the status column and the *)
(* operations table, which no constraint ties together, never disagree.    *)
(***************************************************************************)
OneActiveOperation ==
  /\ \A id, other \in IdsIn("in_progress") : id = other
  /\ IdsIn("in_progress") # {} <=> status = "in_progress" /\ critique # None

(***************************************************************************)
(* complete_revision: version 2, its counter and the stored responses come *)
(* and stay together.  Every operation that succeeded, the failed one that *)
(* a retry made good included, replays the response of the one revision.   *)
(***************************************************************************)
RevisionAccounting ==
  /\ revision # None <=> revisionCount = 1
  /\ revision # None <=> IdsIn("succeeded") # {}
  /\ \A id \in IdsIn("succeeded") :
        LET response == operations[id].response
        IN /\ response # None
           /\ revision = [artifact |-> response.artifact,
                          verdict |-> response.verdict]
           /\ response.previous = composition
           /\ response.attempts = attemptCount

(***************************************************************************)
(* A Run that offers a retry has exactly one stored decision to retry, so  *)
(* the "latest" that claim_retry_operation looks up is never a choice.     *)
(***************************************************************************)
RetryHasOneSource ==
  /\ status = "failed_retryable" => RetrySources # {}
  /\ \A id, other \in OperationIds :
        /\ id[1] = "feedback" /\ operations[id].state # "absent"
        /\ other[1] = "feedback" /\ operations[other].state # "absent"
        => id = other

\* technical_attempt_count is the number of retries ever accepted.
AcceptedRetries ==
  {id \in OperationIds : id[1] = "retry" /\ operations[id].state # "absent"}
AttemptsCounted == attemptCount = Cardinality(AcceptedRetries)

\* What claim_retry_operation decides by and counts with: the one stored
\* decision, and every retry accepted under it.
RetryAccounting == RetryHasOneSource /\ AttemptsCounted

(***************************************************************************)
(* A ready Run's newest version was not rejected; a Run that failed for    *)
(* good has a rejected version or an operation that failed for good.       *)
(***************************************************************************)
NewestVerdict == IF revision # None THEN revision.verdict ELSE critique
EndsForAReason ==
  /\ status = "ready" => NewestVerdict \in Verdicts \ {"reject"}
  /\ status = "failed_final" =>
       NewestVerdict = "reject" \/ IdsIn("failed_final") # {}

(***************************************************************************)
(* Analysis, confirmed Brand Lock, draft, composition and critique are     *)
(* written once; no later transaction, of a stale request or a revision,   *)
(* replaces them.                                                          *)
(***************************************************************************)
Fixed(old, new) == old # None => new = old
VersionOneImmutable ==
  [][/\ Fixed(analysis, analysis') /\ Fixed(confirmed, confirmed')
     /\ Fixed(draft, draft') /\ Fixed(composition, composition')
     /\ Fixed(critique, critique') /\ Fixed(revision, revision')]_repositoryVars

\* No transaction changes the status against the table of domain.py, though
\* only three of them consult it.
TransitionsAllowed ==
  [][status' \in {status} \cup AllowedTransitions[status]]_repositoryVars
----------------------------------------------------------------------------
\* "in_progress" stands for three phases, told apart by the columns.
Phase ==
  CASE status = "in_progress" /\ analysis = None -> "analysing"
    [] status = "in_progress" /\ analysis # None /\ critique = None -> "producing"
    [] status = "in_progress" /\ analysis # None /\ critique # None -> "revising"
    [] status = "pending" -> "new"
    [] status \in {"blocked", "failed"} -> "refused"
    [] status = "awaiting_brand_lock" -> "awaiting"
    [] status = "ready" -> "open"
    [] status = "failed_retryable" -> "retryable"
    [] OTHER -> "closed"

Lifecycle == INSTANCE RunLifecycle WITH
  Unpublished <- None,
  phase  <- Phase,
  first  <- critique,
  second <- IF revision = None THEN None ELSE revision.verdict

(***************************************************************************)
(* The rows implement the lifecycle promised to the client: each           *)
(* transaction is one of its steps or changes nothing a client can see.    *)
(***************************************************************************)
ImplementsLifecycle == Lifecycle!LifecycleSpec
============================================================================
