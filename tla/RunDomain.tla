----------------------------- MODULE RunDomain -----------------------------
(***************************************************************************)
(* The closed vocabularies of a Run and the one table that says which      *)
(* status may follow which (domain.py), the Critic verdicts (contracts.py) *)
(* and the retry policy (workflow.py).                                     *)
(***************************************************************************)
EXTENDS Naturals

\* "completed" is reserved: no code path of the service enters it.
Status == {"pending", "in_progress", "awaiting_brand_lock", "blocked",
           "completed", "failed", "ready", "failed_retryable", "failed_final"}

\* _ALLOWED_TRANSITIONS, the table ProjectRun.with_status consults.
AllowedTransitions ==
  [s \in Status |->
     CASE s = "pending"             -> {"in_progress", "blocked", "failed"}
       [] s = "in_progress"         -> Status \ {"pending", "in_progress"}
       [] s = "awaiting_brand_lock" -> {"in_progress", "failed"}
       [] s = "blocked"             -> {"in_progress", "failed"}
       [] s = "ready"               -> {"in_progress"}
       [] s = "failed_retryable"    -> {"in_progress"}
       [] OTHER                     -> {}]

Verdicts == {"pass", "revise", "needs_human_review", "reject"}

\* Mutant of StatusAfter: a rejected version leaves the Run ready.
StatusAfterIgnoringReject(verdict) == "ready"

\* What a critique does to the Run, in save_critique and complete_revision.
StatusAfter(verdict) == IF verdict = "reject" THEN "failed_final" ELSE "ready"

----------------------------------------------------------------------------
RetryConditions ==
  {"connection_before_acceptance", "accepted_with_call_id",
   "acceptance_unknown", "invalid_schema", "safety_refusal",
   "brand_lock_failure", "cultural_ambiguity"}

\* The actions that authorise exactly one more technical attempt.
OnceActions == {"retry_once", "repair_once", "recompose_same_layers_once"}

RetryActions ==
  OnceActions \cup {"poll_existing", "require_explicit_acknowledgement",
                    "require_human_review", "do_not_retry"}

OnceActionFor(condition) ==
  CASE condition = "connection_before_acceptance" -> "retry_once"
    [] condition = "brand_lock_failure"           -> "recompose_same_layers_once"
    [] condition = "invalid_schema"               -> "repair_once"

(***************************************************************************)
(* decide_retry: the action for a failure after `attempts` technical       *)
(* attempts.  The next_status of its result is never read by the service;  *)
(* the status a failure leads to is that of fail_revision_operation.       *)
(***************************************************************************)
DecideRetry(condition, attempts) ==
  CASE condition \in {"connection_before_acceptance", "brand_lock_failure",
                      "invalid_schema"} ->
         IF attempts >= 1 THEN "do_not_retry" ELSE OnceActionFor(condition)
    [] condition = "accepted_with_call_id" -> "poll_existing"
    [] condition = "acceptance_unknown"    -> "require_explicit_acknowledgement"
    [] condition = "cultural_ambiguity"    -> "require_human_review"
    [] OTHER                               -> "do_not_retry"
============================================================================
