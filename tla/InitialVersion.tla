--------------------------- MODULE InitialVersion ---------------------------
(***************************************************************************)
(* The endpoints of app.py that take a Run from its creation to a reviewed *)
(* version 1: analyze, confirm, draft, composition (composition_service.py)*)
(* and critic.  Columns are written once, so reads of several of them that *)
(* the code makes in a row are one step; a read of the status, which does  *)
(* change, is kept apart from what is decided on it later.                 *)
(***************************************************************************)
EXTENDS Handlers

AnalyzeRequest(w) ==
  /\ pc[w] = "idle"
  /\ CASE status = "awaiting_brand_lock" /\ analysis # None ->
            Respond(w, Answer(To("analyze"), "ok", analysis))
       [] status = "pending" -> Continue(w, "analyze_claim", NoLocal)
       [] OTHER -> Reject(w, To("analyze"))
  /\ UNCHANGED <<repositoryVars, stored>>

\* claim_analysis reads the Run back on a second connection.
\* Mutant of AnalyzeClaim: a lost claim is not noticed.
AnalyzeClaimUnchecked(w) ==
  /\ pc[w] = "analyze_claim"
  /\ \/ ClaimAnalysis
     \/ status # "pending" /\ UNCHANGED repositoryVars
  /\ Continue(w, "analyze_run", NoLocal)
  /\ UNCHANGED stored

AnalyzeClaim(w) ==
  /\ pc[w] = "analyze_claim"
  /\ \/ ClaimAnalysis /\ Continue(w, "analyze_run", NoLocal)
     \/ /\ CommittedButRaised
        /\ ClaimAnalysis /\ Reject(w, To("analyze"))
     \/ /\ status # "pending" \/ "database" \in faults
        /\ Reject(w, To("analyze"))
        /\ UNCHANGED repositoryVars
  /\ UNCHANGED stored

\* Load the asset, run the pipeline.  Its errors are either kind of failure;
\* record_failure reads the status before it writes.
AnalyzeRun(w) ==
  /\ pc[w] = "analyze_run"
  /\ \/ Continue(w, "analyze_complete", NoLocal)
     \/ \E target \in {"blocked", "failed"} :
          Continue(w, "analyze_fail", [NoLocal EXCEPT !.seen = status, !.next = target])
     \/ /\ faults \cap {"unexpected", "database"} # {}
        /\ Reject(w, To("analyze"))
  /\ UNCHANGED <<repositoryVars, stored>>

\* Mutant of AnalyzeFail: the failure is answered and not recorded.
AnalyzeFailUnrecorded(w) ==
  /\ pc[w] = "analyze_fail"
  /\ Reject(w, To("analyze"))
  /\ UNCHANGED <<repositoryVars, stored>>

AnalyzeFail(w) ==
  LET seen == local[w].seen
      target == local[w].next
  IN /\ pc[w] = "analyze_fail"
     /\ \/ RecordFailure(seen, target)
        \/ /\ target \notin AllowedTransitions[seen] \/ "database" \in faults
           /\ UNCHANGED repositoryVars
     /\ Reject(w, To("analyze"))
     /\ UNCHANGED stored

AnalyzeComplete(w) ==
  /\ pc[w] = "analyze_complete"
  /\ \/ /\ CompleteAnalysis(RequestLock)
        /\ Respond(w, Answer(To("analyze"), "ok", RequestLock))
     \/ /\ "acknowledgement" \in faults
        /\ CompleteAnalysis(RequestLock) /\ Reject(w, To("analyze"))
     \/ /\ status # "in_progress" \/ "database" \in faults
        /\ Reject(w, To("analyze"))
        /\ UNCHANGED repositoryVars
  /\ UNCHANGED stored

ConfirmRequest(w, lock) ==
  /\ pc[w] = "idle"
  /\ \/ /\ ConfirmBrandLock(lock)
        /\ Respond(w, Answer(To("confirm"), "ok", lock))
     \/ /\ confirmed = lock
        /\ Respond(w, Answer(To("confirm"), "ok", confirmed))
        /\ UNCHANGED repositoryVars
     \/ /\ "acknowledgement" \in faults
        /\ ConfirmBrandLock(lock) /\ Reject(w, To("confirm"))
     \/ /\ \/ confirmed \notin {None, lock}
           \/ confirmed = None /\ status # "awaiting_brand_lock"
           \/ confirmed = None /\ lock \notin Confirmable
           \/ "database" \in faults
        /\ Reject(w, To("confirm"))
        /\ UNCHANGED repositoryVars
  /\ UNCHANGED stored

----------------------------------------------------------------------------
\* The generator asks that the confirmed Brand Lock is the analysed one; its
\* other errors are answers that change no row.
DraftRequest(w) ==
  /\ pc[w] = "idle"
  /\ CASE draft # None -> Respond(w, Answer(To("draft"), "ok", draft))
       [] draft = None /\ (None \in {analysis, confirmed} \/ status # "in_progress") ->
            Reject(w, To("draft"))
       [] draft = None /\ status = "in_progress"
          /\ None \notin {analysis, confirmed} /\ analysis # confirmed ->
            Respond(w, Answer(To("draft"), "brand_lock_unconfirmed", None))
       [] OTHER ->
            \/ Continue(w, "draft_save", [NoLocal EXCEPT !.lock = confirmed])
            \/ /\ faults \cap {"render", "unexpected", "database"} # {}
               /\ Reject(w, To("draft"))
  /\ UNCHANGED <<repositoryVars, stored>>

\* save_draft answers an equal draft with the stored one.  A draft is named by
\* the Brand Lock it was written for: the copy follows from it.
DraftSave(w) ==
  LET lock == local[w].lock
  IN /\ pc[w] = "draft_save"
     /\ \/ SaveDraft(lock) /\ Respond(w, Answer(To("draft"), "ok", lock))
        \/ /\ draft = lock
           /\ Respond(w, Answer(To("draft"), "ok", draft))
           /\ UNCHANGED repositoryVars
        \/ /\ "acknowledgement" \in faults
           /\ SaveDraft(lock) /\ Reject(w, To("draft"))
        \/ /\ \/ draft \notin {None, lock}
              \/ draft = None /\ (status # "in_progress" \/ confirmed # lock)
              \/ "database" \in faults
           /\ Reject(w, To("draft"))
           /\ UNCHANGED repositoryVars
     /\ UNCHANGED stored

----------------------------------------------------------------------------
ComposeRequest(w) ==
  /\ pc[w] = "idle"
  /\ CASE composition # None ->
            Respond(w, Answer(To("composition"), "ok", composition))
       [] composition = None
          /\ (None \in {analysis, confirmed, draft} \/ status # "in_progress") ->
            Reject(w, To("composition"))
       [] OTHER -> Continue(w, "compose_render", NoLocal)
  /\ UNCHANGED <<repositoryVars, stored>>

\* Render and save the artifact under a fresh id.  What a failed save left is
\* deleted, unless the error is not the store's own: an OSError of its clean-up,
\* or a summary that does not validate after the save.
ComposeRender(w) ==
  /\ pc[w] = "compose_render"
  /\ \/ \E artifact \in FreshArtifacts :
          /\ stored' = stored \cup {artifact}
          /\ Continue(w, "compose_save", [NoLocal EXCEPT !.artifact = artifact])
     \/ /\ "save" \in faults
        /\ \E artifact \in FreshArtifacts :
             /\ stored' = stored \cup {artifact}
             /\ \/ Continue(w, "compose_discard",
                     [NoLocal EXCEPT !.artifact = artifact, !.next = "unsaved"])
                \/ Reject(w, To("composition"))
     \/ /\ faults \cap {"render", "unexpected"} # {}
        /\ Reject(w, To("composition"))
        /\ UNCHANGED stored
  /\ UNCHANGED repositoryVars

ComposeSave(w) ==
  LET artifact == local[w].artifact
      discard(next) == Continue(w, "compose_discard", [local[w] EXCEPT !.next = next])
  IN /\ pc[w] = "compose_save"
     /\ \/ /\ SaveComposition(artifact)
           /\ Respond(w, Answer(To("composition"), "ok", artifact))
        \/ /\ "acknowledgement" \in faults
           /\ SaveComposition(artifact) /\ discard("answer")
        \/ /\ composition # None
           /\ discard("replay")
           /\ UNCHANGED repositoryVars
        \/ /\ \/ composition = None
                 /\ (status # "in_progress" \/ None \in {confirmed, draft})
              \/ "database" \in faults
           /\ discard("answer")
           /\ UNCHANGED repositoryVars
     /\ UNCHANGED stored

\* Mutant of ComposeDiscard: the loser of a race answers its own artifact.
ComposeDiscardAnsweringOwn(w) ==
  /\ pc[w] = "compose_discard"
  /\ stored' = stored \ {local[w].artifact}
  /\ IF local[w].next = "replay"
     THEN Respond(w, Answer(To("composition"), "ok", local[w].artifact))
     ELSE Reject(w, To("composition"))
  /\ UNCHANGED repositoryVars

\* Mutant of ComposeDiscard: it deletes the artifact the row refers to.
ComposeDiscardStored(w) ==
  /\ pc[w] = "compose_discard"
  /\ stored' = stored \ {composition}
  /\ IF local[w].next = "replay"
     THEN Respond(w, Answer(To("composition"), "ok", composition))
     ELSE Reject(w, To("composition"))
  /\ UNCHANGED repositoryVars

\* Mutant of ComposeDiscard: the artifact of the loser is left behind.
ComposeDiscardNothing(w) ==
  /\ pc[w] = "compose_discard"
  /\ IF local[w].next = "replay"
     THEN Respond(w, Answer(To("composition"), "ok", composition))
     ELSE Reject(w, To("composition"))
  /\ UNCHANGED <<repositoryVars, stored>>

\* A delete that fails (cloud_storage.py) raises out of the except clause; a put
\* that was reported failed may be executed after it.
ComposeDiscard(w) ==
  /\ pc[w] = "compose_discard"
  /\ \/ /\ stored' = stored \ {local[w].artifact}
        /\ IF local[w].next = "replay" /\ composition # None
           THEN Respond(w, Answer(To("composition"), "ok", composition))
           ELSE Reject(w, To("composition"))
     \/ /\ \/ "discard" \in faults
           \/ "save" \in faults /\ local[w].next = "unsaved"
        /\ Reject(w, To("composition"))
        /\ UNCHANGED stored
  /\ UNCHANGED repositoryVars

----------------------------------------------------------------------------
\* CritiqueCompleted admits two statuses, and is built outside the try block.
AnswerCritique(w, seen, verdict) ==
  Respond(w, IF seen \in {"ready", "failed_final"}
             THEN Answer(To("critic"), "ok", verdict)
             ELSE Answer(To("critic"), "invalid_response", verdict))

CriticRequest(w) ==
  /\ pc[w] = "idle"
  /\ Continue(w, "critic_read", [NoLocal EXCEPT !.seen = status])
  /\ UNCHANGED <<repositoryVars, stored>>

CriticRead(w) ==
  /\ pc[w] = "critic_read"
  /\ \/ critique # None /\ AnswerCritique(w, local[w].seen, critique)
     \/ /\ critique = None
        /\ None \notin {analysis, confirmed, draft, composition}
        /\ \E verdict \in CriticVerdicts :
             Continue(w, "critic_save", [NoLocal EXCEPT !.verdict = verdict])
     \/ /\ \/ critique = None /\ None \in {analysis, confirmed, draft, composition}
           \/ faults \cap {"unexpected", "database"} # {}
        /\ Reject(w, To("critic"))
  /\ UNCHANGED <<repositoryVars, stored>>

\* Two reports differ at least in their time: a second one is refused.
CriticSave(w) ==
  /\ pc[w] = "critic_save"
  /\ \/ SaveCritique(local[w].verdict) /\ Continue(w, "critic_answer", local[w])
     \/ /\ "acknowledgement" \in faults
        /\ SaveCritique(local[w].verdict) /\ Reject(w, To("critic"))
     \/ /\ \/ critique # None \/ status # "in_progress"
           \/ "database" \in faults
        /\ Reject(w, To("critic"))
        /\ UNCHANGED repositoryVars
  /\ UNCHANGED stored

\* The status is read back after the commit.
CriticAnswer(w) ==
  /\ pc[w] = "critic_answer"
  /\ \/ AnswerCritique(w, status, local[w].verdict)
     \/ faults \cap {"database", "reread"} # {} /\ Reject(w, To("critic"))
  /\ UNCHANGED <<repositoryVars, stored>>

----------------------------------------------------------------------------
\* The steps a handler takes on its own, once a request has arrived.
InitialVersionStep(w) ==
  \/ AnalyzeClaim(w) \/ AnalyzeRun(w) \/ AnalyzeFail(w) \/ AnalyzeComplete(w)
  \/ DraftSave(w)
  \/ ComposeRender(w) \/ ComposeSave(w) \/ ComposeDiscard(w)
  \/ CriticRead(w) \/ CriticSave(w) \/ CriticAnswer(w)

InitialVersionRequest(w) ==
  \/ AnalyzeRequest(w)
  \/ \E lock \in Locks : ConfirmRequest(w, lock)
  \/ DraftRequest(w)
  \/ ComposeRequest(w)
  \/ CriticRequest(w)
=============================================================================
