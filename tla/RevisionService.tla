-------------------------- MODULE RevisionService --------------------------
(***************************************************************************)
(* revision_service.py: the feedback and retry endpoints.  A request       *)
(* claims its operation, works outside any transaction, and finishes or    *)
(* fails the operation in a second transaction.                            *)
(***************************************************************************)
EXTENDS Handlers

\* _execute records one classification, with one of two actions.
ASSUME RecordedFailuresAssumption ==
  {"connection_before_acceptance"} \X {"retry_once", "do_not_retry"} \subseteq Failures

Replays(id, print) ==
  operations[id].state = "succeeded" /\ operations[id].print = print

\* The rows of a key that is known already: replayed, or refused.
Known(w, id, print) ==
  /\ operations[id].state # "absent"
  /\ IF Replays(id, print)
     THEN Respond(w, Answer(id, "ok", operations[id].response))
     ELSE Reject(w, id)
  /\ UNCHANGED repositoryVars

FeedbackRequest(w, key, print) ==
  LET id == <<"feedback", key>>
  IN /\ pc[w] = "idle"
     /\ \/ Known(w, id, print)
        \/ /\ ClaimFeedback(id, print)
           /\ Continue(w, "revise_run", [NoLocal EXCEPT !.operation = id])
        \/ /\ "acknowledgement" \in faults
           /\ ClaimFeedback(id, print) /\ Reject(w, id)
        \/ /\ \/ operations[id].state = "absent"
                 /\ (revision # None \/ status # "ready")
              \/ "database" \in faults
           /\ Reject(w, id)
           /\ UNCHANGED repositoryVars
     /\ UNCHANGED stored

RetryRequest(w, key, print) ==
  LET id == <<"retry", key>>
  IN /\ pc[w] = "idle"
     /\ \/ Known(w, id, print)
        \/ /\ ClaimRetry(id, print)
           /\ Continue(w, "retry_decide", [NoLocal EXCEPT !.operation = id])
        \/ /\ "acknowledgement" \in faults
           /\ ClaimRetry(id, print) /\ Reject(w, id)
        \/ /\ \/ operations[id].state = "absent"
                 /\ (status # "failed_retryable" \/ RetrySources = {})
              \/ "database" \in faults
           /\ Reject(w, id)
           /\ UNCHANGED repositoryVars
     /\ UNCHANGED stored

\* The stored decision must be the one decide_retry makes for the attempts
\* before this one; refusing here leaves the claimed operation in progress.
RetryDecide(w) ==
  LET id == local[w].operation
      action == DecideRetry(operations[id].condition, attemptCount - 1)
      authorized == action = operations[id].action /\ action \in OnceActions
  IN /\ pc[w] = "retry_decide"
     /\ \/ authorized /\ Continue(w, "revise_run", local[w])
        \/ /\ ~authorized \/ "database" \in faults
           /\ Reject(w, id)
     /\ UNCHANGED <<repositoryVars, stored>>

(***************************************************************************)
(* _execute up to the commit: read the rows of version 1, revise, render,  *)
(* save the artifact under a fresh id, review, and build the response from *)
(* the Run as read last.  Only the operation's own request writes any of   *)
(* these rows, so the reads are one step.                                  *)
(***************************************************************************)
VersionOneReviewed ==
  /\ None \notin {analysis, confirmed, draft, composition, critique}
  /\ critique # "reject"

ReviseRun(w) ==
  LET id == local[w].operation
  IN /\ pc[w] = "revise_run"
     /\ \/ /\ VersionOneReviewed
           /\ \E artifact \in FreshArtifacts, verdict \in CriticVerdicts :
                /\ stored' = stored \cup {artifact}
                /\ Continue(w, "revise_commit",
                     [local[w] EXCEPT !.artifact = artifact,
                                      !.response = ResponseNow(artifact, verdict)])
        \* a classified error before the artifact is saved
        \/ /\ "render" \in faults
           /\ Continue(w, "revise_fail", local[w])
           /\ UNCHANGED stored
        \* the save fails half way: artifact_saved is False, so what it left
        \* (two puts without an undo, a put that is executed late) stays
        \/ /\ "save" \in faults
           /\ \E artifact \in FreshArtifacts : stored' = stored \cup {artifact}
           /\ \/ Continue(w, "revise_fail", local[w])
              \* an OSError of the save's own clean-up
              \/ /\ "unexpected" \in faults
                 /\ Respond(w, Answer(id, "revision_failed", None))
        \* an error after it, classified or not
        \/ /\ faults \cap {"render", "unexpected", "database"} # {}
           /\ \E artifact \in FreshArtifacts :
                /\ stored' = stored \cup {artifact}
                /\ \E next \in (IF "render" \in faults THEN {"fail"} ELSE {})
                          \cup (IF faults \cap {"unexpected", "database"} # {}
                                THEN {"answer"} ELSE {}) :
                     Continue(w, "revise_discard",
                        [local[w] EXCEPT !.artifact = artifact, !.next = next])
        \* any other error before it: nobody fails the operation
        \/ /\ ~VersionOneReviewed \/ faults \cap {"unexpected", "database"} # {}
           /\ Respond(w, Answer(id, "revision_failed", None))
           /\ UNCHANGED stored
     /\ UNCHANGED repositoryVars

\* complete_revision reads the revision back on a second connection.
ReviseCommit(w) ==
  LET id == local[w].operation
      response == local[w].response
      discard == Continue(w, "revise_discard", [local[w] EXCEPT !.next = "answer"])
  IN /\ pc[w] = "revise_commit"
     /\ \/ /\ CompleteRevision(id, response)
           /\ Respond(w, Answer(id, "ok", response))
        \/ /\ CommittedButRaised
           /\ CompleteRevision(id, response) /\ discard
        \/ /\ \/ operations[id].state # "in_progress" \/ revision # None
              \/ "database" \in faults
           /\ discard
           /\ UNCHANGED repositoryVars
     /\ UNCHANGED stored

\* The except clauses delete the saved artifact first.  When that raises
\* (cloud_storage.py) the rest of the clause is lost: nobody fails the operation.
ReviseDiscard(w) ==
  /\ pc[w] = "revise_discard"
  /\ \/ /\ stored' = stored \ {local[w].artifact}
        /\ IF local[w].next = "fail"
           THEN Continue(w, "revise_fail", [local[w] EXCEPT !.artifact = None])
           ELSE Respond(w, Answer(local[w].operation, "revision_failed", None))
     \/ "discard" \in faults /\ Reject(w, local[w].operation) /\ UNCHANGED stored
  /\ UNCHANGED repositoryVars

\* Mutant of ReviseFail: a failed retry may be retried like a failed feedback.
ReviseFailRetryable(w) ==
  /\ pc[w] = "revise_fail"
  /\ FailOperation(local[w].operation, "connection_before_acceptance", "retry_once")
  /\ Respond(w, Answer(local[w].operation, "revision_failed", None))
  /\ UNCHANGED stored

\* Mutant of ReviseFail: the operation is not failed.
ReviseFailUnrecorded(w) ==
  /\ pc[w] = "revise_fail"
  /\ Respond(w, Answer(local[w].operation, "revision_failed", None))
  /\ UNCHANGED <<repositoryVars, stored>>

\* A failed retry is never offered again.  An error of the transaction
\* itself is suppressed.
ReviseFail(w) ==
  LET id == local[w].operation
      action == IF id[1] = "retry" THEN "do_not_retry" ELSE "retry_once"
  IN /\ pc[w] = "revise_fail"
     /\ \/ FailOperation(id, "connection_before_acceptance", action)
        \/ /\ operations[id].state # "in_progress" \/ "database" \in faults
           /\ UNCHANGED repositoryVars
     /\ Respond(w, Answer(id, "revision_failed", None))
     /\ UNCHANGED stored

----------------------------------------------------------------------------
RevisionStep(w) ==
  \/ RetryDecide(w)
  \/ ReviseRun(w) \/ ReviseCommit(w) \/ ReviseDiscard(w) \/ ReviseFail(w)

RevisionRequest(w) ==
  \E key \in Keys, print \in Prints :
     FeedbackRequest(w, key, print) \/ RetryRequest(w, key, print)
=============================================================================
