------------------------------ MODULE Pipeline ------------------------------
(***************************************************************************)
(* One Run's content, from the request to the reviewed second version: what *)
(* the handlers of app.py and the two services pass from the provider to   *)
(* the draft, the picture, the Critic and the revision, and what each of   *)
(* them refuses.  A handler is one action here, and one that refuses       *)
(* changes nothing; how handlers interleave, fail halfway and claim a Run  *)
(* is RunService's subject, how a text is set TextFit's.                   *)
(***************************************************************************)
EXTENDS CreativeRules

CONSTANTS
  Locks,       \* Brand Locks a client may send
  Answers,     \* valid provider results: [locale, hypotheses, warnings, refusals]
  Copies,      \* copywriter results: [locale, cta, facts, rules, headline, body, label]
  Kinds,       \* the fixture registry: asset id to kind
  MaxItems,    \* longest sequence the contracts allow (32)
  None

ASSUME LocksAssumption == \A lock \in Locks : LegalLock(lock)

\* A valid answer is within the bounds of AdAnalysis (contracts.py:191).
ASSUME AnswersAssumption ==
  /\ MaxItems \in Nat
  /\ \A answer \in Answers :
       /\ IsFiniteSet(DOMAIN answer.hypotheses)
       /\ IsFiniteSet(answer.warnings) /\ Cardinality(answer.warnings) <= MaxItems

VARIABLES
  request,    \* RunCreate: direction and Brand Lock
  status, codes,
  analysis,   \* AdAnalysis or None
  confirmed,  \* the confirmed Brand Lock or None
  draft, picture, critique,  \* version 1
  revision    \* version 2: [draft, picture, critique] or None

pipelineVars ==
  <<request, status, codes, analysis, confirmed, draft, picture, critique, revision>>

PipelineInit ==
  /\ \E direction \in Directions, lock \in Locks :
       request = [direction |-> direction, lock |-> lock]
  /\ status = "pending" /\ codes = {}
  /\ analysis = None /\ confirmed = None
  /\ draft = None /\ picture = None /\ critique = None /\ revision = None

-----------------------------------------------------------------------------
(* analyze_run: the asset, the request gate, the provider with one repair  *)
(* of an answer outside the contract, the result gate.                     *)

Fail(to, code) ==
  /\ status' = to /\ codes' = codes \cup {code}
  /\ UNCHANGED <<request, analysis, confirmed, draft, picture, critique, revision>>

\* The asset is gone or differs, or it is not what SafetyGate admits.
RefuseRequest ==
  /\ status = "pending"
  /\ \E code \in {"asset_lifecycle_closed", "asset_validation_failed",
                  "invalid_analysis_input", "unsupported_analysis_scope"} :
       Fail("blocked", code)

\* A provider that raises is not asked again; one that breaks the contract
\* is, once.
ProviderFails ==
  /\ status = "pending"
  /\ \E code \in {"provider_failed", "provider_output_invalid"} : Fail("failed", code)

\* Every valid answer, the first one or the repaired one, meets the gate.
AnswerRefused(answer) ==
  /\ status = "pending"
  /\ \/ /\ answer.refusals # {}
        /\ Fail("blocked", IF "instruction_like_content" \in answer.refusals
                             THEN "instruction_like_content" ELSE "prohibited_content")
     \/ /\ answer.refusals = {}
        /\ ~HypothesesAllowed(answer.hypotheses, request.direction)
        /\ Fail("blocked", "unsafe_hypothesis")

Analyze(answer) ==
  /\ status = "pending"
  /\ answer.refusals = {}
  /\ HypothesesAllowed(answer.hypotheses, request.direction)
  /\ analysis' = [locale |-> answer.locale, lock |-> request.lock,
                  hypotheses |-> answer.hypotheses, warnings |-> answer.warnings]
  /\ status' = "awaiting_brand_lock"
  /\ UNCHANGED <<request, codes, confirmed, draft, picture, critique, revision>>

-----------------------------------------------------------------------------
(* confirm_brand_lock, generate_draft, CompositionService.generate,        *)
(* run_critic: version 1.                                                  *)

Confirm(proposed) ==
  /\ status = "awaiting_brand_lock"
  /\ ConfirmationAllowed(proposed, analysis.lock)
  /\ confirmed' = proposed /\ status' = "in_progress"
  /\ UNCHANGED <<request, codes, analysis, draft, picture, critique, revision>>

Draft(copy) ==
  /\ status = "in_progress" /\ draft = None
  /\ DraftAllowed(analysis, confirmed, request.direction)
  /\ CopyAccepted(copy, confirmed, request.direction)
  /\ copy.facts # <<>> /\ ItemsOf(copy.facts) \subseteq ItemsOf(confirmed.facts)
  /\ draft' = DraftOf(copy, confirmed, request.direction)
  /\ UNCHANGED <<request, status, codes, analysis, confirmed, picture, critique, revision>>

Composable(version) ==
  /\ BackgroundAllowed(request.direction, version.locale)
  /\ PictureAllowed(PictureOf(confirmed), confirmed, version.cta, Kinds)

Compose ==
  /\ status = "in_progress" /\ draft # None /\ picture = None
  /\ Composable(draft)
  /\ picture' = PictureOf(confirmed)
  /\ UNCHANGED <<request, status, codes, analysis, confirmed, draft, critique, revision>>

FirstReport == Review(analysis, confirmed, draft, picture, codes)

Critique ==
  /\ status = "in_progress" /\ picture # None /\ critique = None
  /\ ContractAllows(FirstReport, MaxItems)
  /\ critique' = FirstReport
  /\ status' = IF FirstReport.status = "reject" THEN "failed_final" ELSE "ready"
  /\ UNCHANGED <<request, codes, analysis, confirmed, draft, picture, revision>>

-----------------------------------------------------------------------------
(* RevisionService._execute and complete_revision: version 2.              *)

SecondVersion(changes) ==
  LET version == Revised(draft, changes)
      shown   == PictureOf(confirmed)
  IN [draft |-> version, picture |-> shown,
      critique |-> Review(analysis, confirmed, version, shown, codes)]

Revise(changes) ==
  /\ status = "ready" /\ revision = None
  /\ LET second == SecondVersion(changes) IN
       /\ Composable(second.draft)
       /\ ContractAllows(second.critique, MaxItems)
       /\ revision' = second
       /\ status' = IF second.critique.status = "reject" THEN "failed_final" ELSE "ready"
  /\ UNCHANGED <<request, codes, analysis, confirmed, draft, picture, critique>>

PipelineNext ==
  \/ RefuseRequest
  \/ ProviderFails
  \/ \E answer \in Answers : AnswerRefused(answer) \/ Analyze(answer)
  \/ \E proposed \in Locks : Confirm(proposed)
  \/ \E copy \in Copies : Draft(copy)
  \/ Compose
  \/ Critique
  \/ \E changes \in SUBSET Changes : changes # {} /\ Revise(changes)

PipelineSpec == PipelineInit /\ [][PipelineNext]_pipelineVars

-----------------------------------------------------------------------------
\* Four components check the copy and the picture before the Critic sees
\* them, each against what it was given; between them they leave the Critic
\* one reason to reject a version: a safety refusal the provider put among
\* its warnings (critic.py review against DraftGenerator.generate,
\* _validate_request of composition.py and save_draft).
RejectsOnlyUnsafe ==
  \A report \in {critique} \cup (IF revision = None THEN {} ELSE {revision.critique}) :
    report # None /\ report.status = "reject" => report.warnings \cap SafetyRefusals # {}

\* A Run that is composed can always be reviewed: the report the Critic makes
\* satisfies the contract it is parsed by, as long as the hypotheses leave
\* room for the two other issues there can be.  With fewer places the report
\* is refused by its own type, the handler answers critic_failed, and does so
\* again whenever it is asked (CritiqueReport, run_critic).
ReviewsCanBeReported ==
  picture # None /\ Cardinality(DOMAIN analysis.hypotheses) + 2 <= MaxItems
    => ContractAllows(FirstReport, MaxItems)

\* Version 2 has no issue version 1 did not have, whatever was asked for and
\* whoever wrote the copy; so what a person has approved of is not lost by a
\* request to shorten it, and version 2 is never rejected
\* (FixtureRevisionEngine.revise, _execute).
RevisionsRaiseNothingNew ==
  revision # None =>
    /\ revision.critique.issues \subseteq critique.issues
    /\ revision.critique.status # "reject"

\* Every version shown to a client keeps what the request locked, through
\* analysis, confirmation, copy and picture: one Brand Lock, its call to
\* action, its facts, its logo as the logo and its interface as the interface
\* (the validators of ResultVersion and ProjectRunContract, which no handler
\* runs).
VersionsKeepTheRequest ==
  \A version \in {[draft |-> draft, picture |-> picture]} \cup
                 (IF revision = None THEN {} ELSE {revision}) :
    version.picture # None =>
      /\ analysis.lock = request.lock /\ version.draft.lock = request.lock
      /\ version.draft.direction = request.direction
      /\ version.draft.cta = request.lock.cta
      /\ version.draft.facts = request.lock.facts
      /\ version.picture.logo = request.lock.logo
      /\ Kinds[version.picture.logo] = "logo"
      /\ version.picture.ui \in ItemsOf(request.lock.uis)
      /\ Kinds[version.picture.ui] = "product_ui"
=============================================================================
