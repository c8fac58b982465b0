------------------------------- MODULE Studio -------------------------------
(***************************************************************************)
(* The Studio page (apps/web): the reducer that keeps its state, the async *)
(* handlers behind its buttons, and the requests they make.  A handler     *)
(* keeps the Run it was started with across every await, and what it       *)
(* dispatches meets whatever state the page is in by then.  The service is *)
(* the RunLifecycle of each Run, with the answers its endpoints give.      *)
(***************************************************************************)
EXTENDS Integers

CONSTANTS
  Handlers,    \* how many handlers may be running at a time: one for a user who
               \* clicks nothing while an answer is outstanding
  MaxSessions, \* bound: sessions the user starts
  Faults       \* {"error", "lost", "revision", "unrecorded"} or a part of it

ASSUME SessionsAssumption == MaxSessions \in Nat \ {0}

Sessions == 1..MaxSessions
Undefined == 0  \* a field of the page without a value; else the session it stems from

VARIABLES
  ui,        \* StudioState
  page,      \* refs and object URLs the component keeps beside it
  forms,     \* the Brand Lock form of each session
  session,   \* sessions started so far
  task,      \* task[h]: the request handler h awaits
  server     \* server[s]: the Run of session s

vars == <<ui, page, forms, session, task, server>>

Fields == {"upload", "run", "analysis", "confirmation", "draft", "composition",
           "critique", "revision"}
Busy == {"uploading", "analyzing", "generating_draft", "composing", "reviewing",
         "submitting_revision", "deleting"}
Phases == Busy \cup {"configure", "awaiting_brand_lock", "ready_v1", "ready_v2",
                     "retryable_failure", "conflict", "final_failure"}

InitialState == [phase |-> "configure", field |-> [f \in Fields |-> Undefined],
                 visible |-> 0, error |-> "none"]
InitialPage == [feedbackKey |-> Undefined, retryKey |-> Undefined,
                revisionRequest |-> Undefined,
                versionOneUrl |-> Undefined, versionTwoUrl |-> Undefined]

Verdicts == {"pass", "reject"}  \* every verdict but reject leaves the Run ready
NewRun == [phase |-> "new", first |-> "none", second |-> "none", job |-> "none",
           misreported |-> FALSE]  \* history: a revision ended otherwise than answered

Idle == [by |-> "nobody", session |-> Undefined, call |-> "none", answer |-> "none"]
Answers == {"ok", "rejected", "conflict", "revision_failed", "failed"}

Init ==
  /\ ui = InitialState
  /\ page = InitialPage
  /\ forms = [s \in Sessions |-> "ready"]
  /\ session = 0
  /\ task = [h \in Handlers |-> Idle]
  /\ server = [s \in Sessions |-> NewRun]

-----------------------------------------------------------------------------
(* The guards and the reducer.                                             *)

Defined(st, f) == st.field[f] # Undefined
CanConfirmBrandLock(st) ==
  st.phase = "awaiting_brand_lock" /\ Defined(st, "analysis") /\ ~Defined(st, "confirmation")

\* Mutant of CanGenerate: a confirmed Brand Lock is enough.
CanGenerateAgain(st) == Defined(st, "confirmation")

CanGenerate(st) == st.phase = "awaiting_brand_lock" /\ Defined(st, "confirmation")

CanSubmitRevision(st) == st.phase = "ready_v1" /\ ~Defined(st, "revision")
CanRetry(st) == st.phase = "retryable_failure" /\ st.error = "revision_failed"
CanDelete(st) == Defined(st, "upload") /\ st.phase \notin {"uploading", "deleting"}

\* The events that only store an answer: in which phase they count, what they
\* need, where they lead.
Progress ==
  [upload      |-> [from |-> "uploading", needs |-> {}, to |-> "uploading", sets |-> "upload"],
   create      |-> [from |-> "uploading", needs |-> {"upload"}, to |-> "analyzing", sets |-> "run"],
   analyze     |-> [from |-> "analyzing", needs |-> {"run"}, to |-> "awaiting_brand_lock",
                    sets |-> "analysis"],
   draft       |-> [from |-> "generating_draft", needs |-> {}, to |-> "composing", sets |-> "draft"],
   composition |-> [from |-> "composing", needs |-> {"draft"}, to |-> "reviewing",
                    sets |-> "composition"]]

Progressed(st, event, s) ==
  IF st.phase = event.from /\ \A f \in event.needs : Defined(st, f)
    THEN [st EXCEPT !.phase = event.to, !.field[event.sets] = s]
    ELSE st

Confirmed(st, s) == IF CanConfirmBrandLock(st) THEN [st EXCEPT !.field.confirmation = s] ELSE st

\* Mutant of Reviewed: the status of the answer is not looked at.
ReviewedBlindly(st, s, answer) ==
  IF st.phase = "reviewing" /\ Defined(st, "composition")
    THEN [st EXCEPT !.field.critique = s, !.phase = "ready_v1", !.visible = 1, !.error = "none"]
    ELSE st

Reviewed(st, s, answer) ==
  CASE st.phase # "reviewing" \/ ~Defined(st, "composition") -> st
    [] OTHER -> [st EXCEPT !.field.critique = s,
                           !.phase = IF answer = "ok" THEN "ready_v1" ELSE "final_failure",
                           !.visible = IF answer = "ok" THEN 1 ELSE @,
                           !.error = IF answer = "ok" THEN "none" ELSE "critic_failed"]

\* The result version and revision count of an answer are fixed by its schema,
\* its status is not consulted.
Revised(st, s) ==
  IF st.phase \in {"submitting_revision", "ready_v2"}
    THEN [st EXCEPT !.phase = "ready_v2", !.field.revision = s, !.visible = 2, !.error = "none"]
    ELSE st

\* Mutant of Failed: a failure before the Run exists is not shown.
FailedLate(st, code) ==
  CASE st.phase \in {"configure", "deleting", "uploading"} -> st
    [] OTHER -> [st EXCEPT !.phase = "final_failure", !.error = "other"]

\* Mutant of Failed: any failure offers the retry.
FailedRetryable(st, code) ==
  IF st.phase \in {"configure", "deleting"} THEN st
  ELSE [st EXCEPT !.phase = "retryable_failure", !.error = "revision_failed"]

Failed(st, code) ==
  IF st.phase \in {"configure", "deleting"} THEN st
  ELSE CASE code = "conflict"        -> [st EXCEPT !.phase = "conflict", !.error = code]
         [] code = "revision_failed" -> [st EXCEPT !.phase = "retryable_failure", !.error = code]
         [] OTHER                    -> [st EXCEPT !.phase = "final_failure", !.error = "other"]

\* The state after the event with which a handler takes the answer to a request.
Reduced(st, c) ==
  IF c.answer \notin {"ok", "rejected"} THEN Failed(st, c.answer)
  ELSE CASE c.call \in DOMAIN Progress       -> Progressed(st, Progress[c.call], c.session)
         [] c.call = "confirm"               -> Confirmed(st, c.session)
         [] c.call = "critic"                -> Reviewed(st, c.session, c.answer)
         [] c.call \in {"feedback", "retry"} -> Revised(st, c.session)
         [] c.call = "delete" -> IF st.phase = "deleting" THEN InitialState ELSE st
         [] OTHER             -> st

-----------------------------------------------------------------------------
(* What the user clicks.  Each handler captures its Run, dispatches its    *)
(* opening event and sends its first request.                              *)

Send(h, by, s, call) ==
  /\ task[h] = Idle
  /\ task' = [task EXCEPT ![h] = [by |-> by, session |-> s, call |-> call, answer |-> "sent"]]
  /\ UNCHANGED server

StartRun(h) ==
  /\ ui.phase = "configure" /\ session < MaxSessions
  /\ session' = session + 1
  /\ Send(h, "start", session + 1, "upload")
  /\ ui' = [ui EXCEPT !.phase = "uploading"]
  /\ UNCHANGED <<page, forms>>

\* The form stays on the page whatever the phase, and can be submitted again
\* after a failure.
SubmitBrandLock(h) ==
  /\ Defined(ui, "analysis") /\ Defined(ui, "run")
  /\ forms[ui.field.run] = "ready"
  /\ Send(h, "confirm", ui.field.run, "confirm")
  /\ forms' = [forms EXCEPT ![ui.field.run] = "pending"]
  /\ UNCHANGED <<ui, page, session>>

GenerateVersionOne(h) ==
  /\ CanGenerate(ui) /\ Defined(ui, "run")
  /\ Send(h, "generate", ui.field.run, "draft")
  /\ ui' = [ui EXCEPT !.phase = "generating_draft"]
  /\ UNCHANGED <<page, forms, session>>

KeepOrDraw(key) == IF key = Undefined THEN session ELSE key

CreateVersionTwo(h) ==
  /\ CanSubmitRevision(ui) /\ Defined(ui, "run")
  /\ Send(h, "revise", ui.field.run, "feedback")
  /\ page' = [page EXCEPT !.feedbackKey = KeepOrDraw(@), !.revisionRequest = ui.field.run]
  /\ ui' = [ui EXCEPT !.phase = "submitting_revision", !.error = "none"]
  /\ UNCHANGED <<forms, session>>

RetryVersionTwo(h) ==
  /\ CanRetry(ui) /\ Defined(ui, "run") /\ page.revisionRequest # Undefined
  /\ Send(h, "retry", ui.field.run, "retry")
  /\ page' = [page EXCEPT !.retryKey = KeepOrDraw(@)]
  /\ ui' = [ui EXCEPT !.phase = "submitting_revision", !.error = "none"]
  /\ UNCHANGED <<forms, session>>

DownloadVersion(h) ==
  /\ Defined(ui, "run")
  /\ \/ ui.phase \in {"ready_v1", "ready_v2"} /\ Send(h, "download", ui.field.run, "export1")
     \/ ui.phase = "ready_v2" /\ Send(h, "download", ui.field.run, "export2")
  /\ UNCHANGED <<ui, page, forms, session>>

DeleteSource(h) ==
  /\ CanDelete(ui)
  /\ Send(h, "delete", ui.field.upload, "delete")
  /\ ui' = [ui EXCEPT !.phase = "deleting"]
  /\ UNCHANGED <<page, forms, session>>

-----------------------------------------------------------------------------
(* The service.  Analysis and revisions take a while: the Run shows they   *)
(* are under way, and they end whether or not the page still waits.        *)

Asked(h, call) == task[h].call = call /\ task[h].answer = "sent"
Run(h) == server[task[h].session]

Answer(h, answer, run) ==
  /\ task' = [task EXCEPT ![h].answer = answer]
  /\ server' = [server EXCEPT ![task[h].session] = run]
  /\ UNCHANGED <<ui, page, forms, session>>

Begin(h, call, allowed, phase, refusal) ==
  /\ Asked(h, call)
  /\ IF allowed THEN Answer(h, "working", [Run(h) EXCEPT !.phase = phase, !.job = call])
                ELSE Answer(h, refusal, Run(h))

ServeAnalyze(h) == Begin(h, "analyze", Run(h).phase = "new", "analysing", "failed")

\* A second revision, or one beside another, is a conflict; a Run that is not
\* ready is an error like any other.
ServeFeedback(h) ==
  Begin(h, "feedback", Run(h).phase = "open" /\ Run(h).second = "none", "revising",
        IF Run(h).second # "none" \/ Run(h).phase = "revising" THEN "conflict" ELSE "failed")

ServeRetry(h) == Begin(h, "retry", Run(h).phase = "retryable", "revising", "failed")

ServeConfirm(h) ==
  /\ Asked(h, "confirm")
  /\ CASE Run(h).phase = "awaiting" -> Answer(h, "ok", [Run(h) EXCEPT !.phase = "producing"])
       [] Run(h).phase \in {"new", "analysing", "refused"} -> Answer(h, "failed", Run(h))
       \* confirmed before, with the same Brand Lock or another
       [] OTHER -> \E answer \in {"ok", "failed"} : Answer(h, answer, Run(h))

ServeCritic(h) ==
  /\ Asked(h, "critic")
  /\ IF Run(h).phase = "producing"
       THEN \E verdict \in Verdicts :
              Answer(h, IF verdict = "reject" THEN "rejected" ELSE "ok",
                     [Run(h) EXCEPT !.first = verdict,
                                    !.phase = IF verdict = "reject" THEN "closed" ELSE "open"])
       ELSE Answer(h, "failed", Run(h))

\* The requests that leave the Run where it stands.
Granted(run) ==
  {"upload", "create", "delete"}
    \cup (IF run.phase = "producing" THEN {"draft", "composition"} ELSE {})
    \cup (IF run.first # "none" THEN {"export1"} ELSE {})
    \cup (IF run.second # "none" THEN {"export2"} ELSE {})

ServeOther(h) ==
  /\ task[h].answer = "sent"
  /\ task[h].call \in {"upload", "create", "delete", "draft", "composition", "export1", "export2"}
  /\ Answer(h, IF task[h].call \in Granted(Run(h)) THEN "ok" ELSE "failed", Run(h))

\* A request is turned down for any other reason, and changes nothing.
ServeError(h) == "error" \in Faults /\ task[h].answer = "sent" /\ Answer(h, "failed", Run(h))

\* The connection drops: the request never arrives, or its answer does not.
Disconnect(h) ==
  /\ "lost" \in Faults
  /\ task[h] # Idle /\ task[h].answer # "failed"
  /\ Answer(h, "failed", Run(h))

End(s, run, answer) ==
  /\ server' = [server EXCEPT ![s] = [run EXCEPT !.job = "none"]]
  /\ task' = [h \in Handlers |->
       IF task[h].session = s /\ task[h].answer = "working"
         THEN [task[h] EXCEPT !.answer = answer] ELSE task[h]]
  /\ UNCHANGED <<ui, page, forms, session>>

EndAnalysis(s) ==
  /\ server[s].job = "analyze"
  /\ \/ End(s, [server[s] EXCEPT !.phase = "awaiting"], "ok")
     \/ "error" \in Faults /\ End(s, [server[s] EXCEPT !.phase = "refused"], "failed")

\* Mutant of Published: a rejected version 2 leaves the Run open.
PublishedOpen(run, verdict) == [run EXCEPT !.second = verdict, !.phase = "open"]

Published(run, verdict) ==
  [run EXCEPT !.second = verdict, !.phase = IF verdict = "reject" THEN "closed" ELSE "open"]

EndRevision(s) ==
  LET run == server[s]
      failure == IF run.job = "feedback" THEN "revision_failed" ELSE "failed"
  IN /\ run.job \in {"feedback", "retry"}
     /\ \/ \E verdict \in Verdicts :
             \/ End(s, Published(run, verdict), IF verdict = "reject" THEN "rejected" ELSE "ok")
             \* published, but reported as failed
             \/ "unrecorded" \in Faults
                  /\ End(s, [Published(run, verdict) EXCEPT !.misreported = TRUE], failure)
        \/ /\ "revision" \in Faults
           /\ End(s, [run EXCEPT !.phase = IF run.job = "feedback" THEN "retryable" ELSE "closed"],
                  failure)
        \* failed, but not recorded as failed
        \/ "unrecorded" \in Faults /\ End(s, [run EXCEPT !.misreported = TRUE], failure)

-----------------------------------------------------------------------------
(* An answer arrives: the handler dispatches and goes on to its next       *)
(* request, whatever became of the page meanwhile.                         *)

Following == [upload |-> "create", create |-> "analyze", draft |-> "composition",
              composition |-> "critic", critic |-> "export1", feedback |-> "export2",
              retry |-> "export2"]

Good(c) == c.answer \in {"ok", "rejected"}

NextTask(c) ==
  IF /\ Good(c) /\ c.call \in DOMAIN Following
     /\ ~(c.call = "critic" /\ c.answer = "rejected")
    THEN [c EXCEPT !.call = Following[c.call], !.answer = "sent"]
    ELSE Idle

\* Mutant of Kept: the idempotency keys survive the session.
KeptKeys(c) ==
  CASE Good(c) /\ c.call = "delete"
         -> [InitialPage EXCEPT !.feedbackKey = page.feedbackKey, !.retryKey = page.retryKey]
    [] Good(c) /\ c.by = "generate" /\ c.call = "export1" -> [page EXCEPT !.versionOneUrl = c.session]
    [] Good(c) /\ c.by # "download" /\ c.call = "export2" -> [page EXCEPT !.versionTwoUrl = c.session]
    [] OTHER -> page

Kept(c) ==
  CASE Good(c) /\ c.call = "delete" -> InitialPage
    [] Good(c) /\ c.by = "generate" /\ c.call = "export1" -> [page EXCEPT !.versionOneUrl = c.session]
    [] Good(c) /\ c.by # "download" /\ c.call = "export2" -> [page EXCEPT !.versionTwoUrl = c.session]
    [] OTHER -> page

Receive(h) ==
  LET c == task[h] IN
  /\ c.answer \in Answers
  /\ ui' = Reduced(ui, c)
  /\ page' = Kept(c)
  /\ forms' = IF c.call # "confirm" THEN forms
              ELSE [forms EXCEPT ![c.session] = IF Good(c) THEN "confirmed" ELSE "ready"]
  /\ task' = [task EXCEPT ![h] = NextTask(c)]
  /\ UNCHANGED <<session, server>>

Click(h) == \/ StartRun(h) \/ SubmitBrandLock(h) \/ GenerateVersionOne(h)
            \/ CreateVersionTwo(h) \/ RetryVersionTwo(h) \/ DownloadVersion(h) \/ DeleteSource(h)
Serve(h) == \/ ServeAnalyze(h) \/ ServeFeedback(h) \/ ServeRetry(h)
            \/ ServeConfirm(h) \/ ServeCritic(h) \/ ServeOther(h)
EndJob(s) == EndAnalysis(s) \/ EndRevision(s)

Next == \/ \E h \in Handlers : \/ Click(h) \/ Serve(h) \/ Receive(h)
                               \/ ServeError(h) \/ Disconnect(h)
        \/ \E s \in Sessions : EndJob(s)

Spec == Init /\ [][Next]_vars

\* The service answers, the event loop runs, analysis and revision end.
Fairness == /\ \A h \in Handlers : WF_vars(Serve(h)) /\ WF_vars(Receive(h))
            /\ \A s \in Sessions : WF_vars(EndJob(s))

FairSpec == Spec /\ Fairness

-----------------------------------------------------------------------------
\* Everything the page shows or sends stems from the session it is in: nothing
\* of a deleted session is left or comes back (deleteSource, the handlers' awaits).
SessionIsOne ==
  LET current == {Undefined} \cup (IF ui.phase = "configure" THEN {} ELSE {session})
  IN /\ \A f \in Fields : ui.field[f] \in current
     /\ \A f \in DOMAIN page : page[f] \in current

\* The deletion itself leaves nothing of the session, nor does any click bring
\* something of another one: only the answer to a request that was out when the
\* source was deleted can mix two sessions (README, section 5).
Stale(h) == task[h].session # session \/ ui.phase = "configure"
OnlyLateAnswersMixSessions ==
  [][SessionIsOne /\ ~SessionIsOne' => \E h \in Handlers : Stale(h) /\ Receive(h)]_vars

\* A version the page shows as ready was published under a critique that let it
\* pass, or is the second of its Run (critic_succeeded, revision_succeeded).
VisibleIsPublished ==
  /\ ui.phase = "ready_v1" => server[ui.field.critique].first = "pass"
  /\ ui.visible = 2 => server[ui.field.revision].second # "none"

\* In its first session the retry button is there only while the service would
\* accept a retry, unless it misreported the revision (canRetry; the service's
\* failed_retryable).
RetryIsAuthorized ==
  session = 1 /\ CanRetry(ui) /\ ~server[1].misreported
    => Defined(ui, "run") /\ server[ui.field.run].phase = "retryable"

\* In its first session the page never gets in its own way, however fast the
\* user clicks: it never has two requests under way that change the same Run,
\* and never meets a conflict, as from a second revision (the guards and phases
\* of the reducer, canSubmitRevision).  A late answer of that session can break
\* this in the next one.
Changing == {"analyze", "confirm", "draft", "composition", "critic", "feedback", "retry"}
PageNeverConflicts ==
  session = 1 =>
    /\ ui.phase # "conflict"
    /\ \A g, h \in Handlers :
         g # h /\ task[g].call \in Changing /\ task[h].call \in Changing
           => task[g].session # task[h].session

\* A page that shows progress does not show it for ever: some answer, even one
\* of a session already deleted, or a failure ends it (the handlers' catch).
BusyEnds == (ui.phase \in Busy \ {"deleting"}) ~> (ui.phase \notin Busy \ {"deleting"})

\* The Runs behind the page are used as RunLifecycle says, so what RunService
\* promises for it is enough for the page.
Lifecycle(s) == INSTANCE RunLifecycle WITH
  Verdicts <- Verdicts, Unpublished <- "none",
  phase <- server[s].phase, first <- server[s].first, second <- server[s].second

ServersFollowLifecycle ==
  /\ \A s \in Sessions : Lifecycle(s)!LifecycleInit
  /\ [][\A s \in Sessions : [Lifecycle(s)!LifecycleNext]_(Lifecycle(s)!lifecycleVars)]_server
=============================================================================
