----------------------------- MODULE RunService -----------------------------
(***************************************************************************)
(* The request handlers of one Run running together over its rows and the  *)
(* artifact store: the properties a client and an operator rely on while   *)
(* requests interleave, fail half way and are sent again.                  *)
(***************************************************************************)
EXTENDS InitialVersion, RevisionService

Init == RepositoryInit /\ HandlersInit

Step(w) == InitialVersionStep(w) \/ RevisionStep(w)
Request(w) == InitialVersionRequest(w) \/ RevisionRequest(w)

Next == \E w \in Workers : Request(w) \/ Step(w) \/ Crash(w)

\* A handler that has started runs on; nobody has to send a request.
Fairness == \A w \in Workers : WF_vars(Step(w))

Spec == Init /\ [][Next]_vars /\ Fairness

----------------------------------------------------------------------------
OperationSteps == {"retry_decide", "revise_run", "revise_commit", "revise_fail"}

\* Workers analysing, and workers that still have to settle an operation.
Analysing == {w \in Workers : pc[w] \in {"analyze_run", "analyze_fail", "analyze_complete"}}
Executing == {w \in Workers :
                \/ pc[w] \in OperationSteps
                \/ pc[w] = "revise_discard" /\ local[w].next = "fail"}

(***************************************************************************)
(* A claim has one owner.  At most one request analyses the Run and at     *)
(* most one executes an operation, what it claimed is still unsettled, and *)
(* never are both at work: nobody else's write can be lost under a commit  *)
(* that only looks at the status.                                          *)
(***************************************************************************)
ClaimsHaveOneOwner ==
  /\ \A w, x \in Analysing \cup Executing : w = x
  /\ Analysing # {} => BeingAnalysed
  /\ \A w \in Executing : operations[local[w].operation].state = "in_progress"

(***************************************************************************)
(* The handlers ask of the repository only what its callers may ask: the   *)
(* unguarded complete_analysis and record_failure are called by the        *)
(* claimant while the Run is being analysed, and a response is committed   *)
(* over the very rows it was built from.                                   *)
(***************************************************************************)
ImplementsRepository == RepositorySpec

(***************************************************************************)
(* An answer stays true: what a client was told succeeded is what the rows *)
(* hold from then on, so every replay of a call gives the same result,     *)
(* whichever worker, key or retry produced it.                             *)
(***************************************************************************)
AnswersAgreeWithRows ==
  \A w \in Workers : reply[w].code = "ok" =>
    /\ reply[w].to = To("confirm") => reply[w].body = confirmed
    /\ reply[w].to = To("draft") => reply[w].body = draft
    /\ reply[w].to = To("composition") => reply[w].body = composition
    /\ reply[w].to = To("critic") => reply[w].body = critique
    /\ reply[w].to \in OperationIds =>
         /\ reply[w].body = operations[reply[w].to].response
         /\ revision = [artifact |-> reply[w].body.artifact,
                        verdict |-> reply[w].body.verdict]

\* ReviseFail: a Run gets one technical retry, however often and under
\* however many keys the client asks.
OneTechnicalRetry == attemptCount <= 1

(***************************************************************************)
(* "Existing version-1 and version-2 artifacts are never deleted": an      *)
(* artifact a row refers to is in the store, as long as no commit raises   *)
(* after it took effect.                                                   *)
(***************************************************************************)
CommitsAreTruthful == faults \cap {"acknowledgement", "reread"} = {}
ReferencedArtifactsStored == CommitsAreTruthful => Referenced \subseteq stored

\* Nor does any request leave an artifact behind that no version refers to,
\* unless its process ends or a save or delete of the artifact store fails it:
\* generate's and _execute's clean-up covers the loser of a race, a refused
\* commit, and an error anywhere else.  (After a save that failed, _execute
\* deletes nothing, nor does generate when the summary of a saved artifact does
\* not validate: both are the fault "save".)
NoOrphansAtRest ==
  /\ CommitsAreTruthful /\ faults \cap {"crash", "save", "discard"} = {}
  /\ \A w \in Workers : pc[w] = "idle"
  => stored \subseteq Referenced

(***************************************************************************)
(* Liveness, where a handler meets only errors its except clauses name, a  *)
(* store that fails a save among them (CompositionArtifactError):          *)
(* a claimed analysis and a claimed operation are settled, and the Run     *)
(* does not stay in progress with nobody working on it.                    *)
(***************************************************************************)
OnlyNamedErrors == faults \subseteq {"render", "save"}
AnalysisIsSettled == OnlyNamedErrors /\ BeingAnalysed ~> ~BeingAnalysed
OperationsAreSettled ==
  \A id \in OperationIds :
    OnlyNamedErrors /\ operations[id].state = "in_progress"
      ~> operations[id].state # "in_progress"

----------------------------------------------------------------------------
\* What a document of the repository says of the service.

\* A committed version keeps its artifact whatever the connection does ("never
\* deleted by a retry conflict").
CommittedVersionsKeepArtifacts == Referenced \subseteq stored
=============================================================================
