---------------------------- MODULE StudioProofs ----------------------------
(***************************************************************************)
(* The Studio page, for any number of handlers and sessions and any        *)
(* faults: what it shows was published, in its first session it offers a   *)
(* retry only where the service takes one and never gets in its own way,   *)
(* only a late answer mixes two sessions, and the Runs behind it follow    *)
(* their lifecycle.  The first invariant relates a task to the Run it asks *)
(* about; the second, of the first session alone, relates the phase of the *)
(* page to the request that may be out in it.                              *)
(***************************************************************************)
EXTENDS Studio, TLAPS

Errors == {"none", "critic_failed", "conflict", "revision_failed", "other"}
Buttons == {"nobody", "start", "confirm", "generate", "revise", "retry", "download", "delete"}
Calls == {"none", "upload", "create", "analyze", "confirm", "draft", "composition", "critic",
          "feedback", "retry", "export1", "export2", "delete"}
AnswerStates == Answers \cup {"none", "sent", "working"}
Outcomes == Verdicts \cup {"none"}
RunPhases == {"new", "analysing", "refused", "awaiting", "producing", "open", "revising",
              "retryable", "closed"}
States(known) == [phase: Phases, field: [Fields -> known], visible: 0..2, error: Errors]
Pages(known) == [feedbackKey: known, retryKey: known, revisionRequest: known,
                 versionOneUrl: known, versionTwoUrl: known]
Runs == [phase: RunPhases, first: Outcomes, second: Outcomes,
         job: {"none", "analyze", "feedback", "retry"}, misreported: BOOLEAN]

TypeInv ==
  /\ session \in 0..MaxSessions
  /\ ui \in States(0..session)
  /\ page \in Pages(0..session)
  /\ forms \in [Sessions -> {"ready", "pending", "confirmed"}]
  /\ task \in [Handlers -> [by: Buttons, session: 0..session, call: Calls,
                            answer: AnswerStates]]
  /\ server \in [Sessions -> Runs]

-----------------------------------------------------------------------------
(* The first invariant: Runs, the tasks about them, what the page shows.   *)

RunInv(run) ==
  /\ run.job = "analyze" => run.phase = "analysing"
  /\ run.job \in {"feedback", "retry"} => run.phase = "revising"
  /\ run.first # "none" <=> run.phase \in {"open", "revising", "retryable", "closed"}
  /\ run.phase \in {"revising", "retryable"} => run.second = "none"

TaskInv(c) ==
  /\ c = Idle <=> c.answer = "none"
  /\ c # Idle =>
       /\ c.session \in Sessions /\ c.call # "none"
       /\ c.answer = "working" =>
            c.call \in {"analyze", "feedback", "retry"} /\ server[c.session].job = c.call
       /\ c.answer = "ok" /\ c.call = "critic" => server[c.session].first = "pass"
       /\ Good(c) /\ c.call \in {"feedback", "retry"} => server[c.session].second # "none"

ShownInv ==
  /\ ui.phase = "ready_v1" =>
       ui.field.critique \in Sessions /\ server[ui.field.critique].first = "pass"
  /\ ui.visible = 2 =>
       ui.field.revision \in Sessions /\ server[ui.field.revision].second # "none"

RunsInv ==
  /\ TypeInv
  /\ \A s \in Sessions : RunInv(server[s])
  /\ \A h \in Handlers : TaskInv(task[h])
  /\ ShownInv

-----------------------------------------------------------------------------
(* The second invariant.  In its first session one request at a time may   *)
(* change the Run; OutIn says where the page can be while it is out.       *)

Left == {"deleting", "configure"}
OutIn(call, phase) ==
  /\ call \in {"upload", "create"} => phase = "uploading"
  /\ call = "analyze" => phase \in {"analyzing"} \cup Left
  /\ call = "confirm" => phase \in {"awaiting_brand_lock", "final_failure"} \cup Left
  /\ call = "draft" => phase \in {"generating_draft"} \cup Left
  /\ call = "composition" => phase \in {"composing"} \cup Left
  /\ call = "critic" => phase \in {"reviewing"} \cup Left
  /\ call \in {"feedback", "retry"} =>
       phase \in {"submitting_revision", "final_failure"} \cup Left
  /\ call \in {"export1", "export2"} =>
       phase \in {"ready_v1", "submitting_revision", "ready_v2", "retryable_failure",
                  "final_failure"} \cup Left
  /\ call = "delete" => phase \in Left

Alone == Changing \cup {"upload", "create"}
BeforeConfirmed == {"uploading", "analyzing", "awaiting_brand_lock", "final_failure"} \cup Left
BeforeRevision == {"uploading", "analyzing", "awaiting_brand_lock", "generating_draft",
                   "composing", "reviewing", "ready_v1"}

RetryTaken == server[1].misreported \/ server[1].phase = "retryable"

FirstTaskInv(c) ==
  /\ OutIn(c.call, ui.phase)
  /\ c.answer # "conflict"
  /\ c.call \in {"upload", "create", "analyze"} => ~Defined(ui, "analysis")
  /\ c.call = "create" => Defined(ui, "upload")
  /\ c.call = "confirm" =>
       forms[1] = "pending" /\ (ui.phase # "configure" => Defined(ui, "analysis"))
  /\ c.call \in {"draft", "composition", "critic", "feedback", "retry"} => forms[1] = "confirmed"
  /\ c.call = "feedback" /\ c.answer = "sent" =>
       server[1].second = "none" /\ server[1].phase \notin {"revising", "retryable"}
  /\ c.answer = "revision_failed" => c.call = "feedback" /\ RetryTaken

FirstPageInv ==
  /\ ui.phase # "conflict"
  /\ ui.phase = "configure" => \A f \in Fields : ~Defined(ui, f)
  /\ ui.phase \in {"uploading", "analyzing"} => ~Defined(ui, "analysis")
  /\ Defined(ui, "analysis") => Defined(ui, "run")
  /\ Defined(ui, "confirmation") => forms[1] = "confirmed"
  /\ forms[1] = "confirmed" /\ ui.phase # "configure" => Defined(ui, "analysis")
  /\ forms[1] # "confirmed" => ui.phase \in BeforeConfirmed
  /\ ui.phase = "composing" => Defined(ui, "draft")
  /\ ui.phase = "reviewing" => Defined(ui, "composition")
  /\ ui.phase \in BeforeRevision =>
       server[1].second = "none" /\ server[1].phase \notin {"revising", "retryable"}
  /\ ui.phase = "retryable_failure" => RetryTaken

OneAtATime ==
  \A g, h \in Handlers : g # h /\ task[g].call \in Alone => task[h].call \notin Alone

Untouched ==
  /\ ui = InitialState
  /\ \A h \in Handlers : task[h] = Idle
  /\ \A s \in Sessions : server[s] = NewRun /\ forms[s] = "ready"

FirstSessionInv ==
  /\ session = 0 => Untouched
  /\ session = 1 => FirstPageInv /\ OneAtATime /\ \A h \in Handlers : FirstTaskInv(task[h])

-----------------------------------------------------------------------------
(* What the service does to a Run and to the request about it, whichever   *)
(* request it is.                                                          *)

\* What a Run may become in one step, by RunLifecycle.
Follows(run, next) ==
  \/ /\ next.first = run.first /\ next.second = run.second
     /\ \/ next.phase = run.phase
        \/ run.phase = "new" /\ next.phase = "analysing"
        \/ run.phase = "analysing" /\ next.phase \in {"refused", "awaiting"}
        \/ run.phase = "awaiting" /\ next.phase = "producing"
        \/ run.phase = "open" /\ next.phase = "revising" /\ run.second = "none"
        \/ run.phase = "revising" /\ next.phase \in {"retryable", "closed"}
        \/ run.phase = "retryable" /\ next.phase = "revising"
  \/ /\ run.phase = "producing" /\ run.first = "none"
     /\ next.first \in Verdicts /\ next.second = run.second
     /\ next.phase = IF next.first = "reject" THEN "closed" ELSE "open"
  \/ /\ run.phase = "revising" /\ run.first # "none" /\ run.second = "none"
     /\ next.second \in Verdicts /\ next.first = run.first
     /\ next.phase = IF next.second = "reject" THEN "closed" ELSE "open"

\* A request is answered, or accepted, and the Run left as run.
ServedAs(h, answer, run) ==
  /\ Answer(h, answer, run)
  /\ task[h] # Idle /\ answer \in Answers \cup {"working"} /\ answer # "revision_failed"
  /\ run \in Runs /\ RunInv(run) /\ Follows(Run(h), run)
  /\ Run(h).first # "none" => run.first = Run(h).first
  /\ run.second = Run(h).second /\ run.misreported = Run(h).misreported
  /\ Run(h).job # "none" => run.job = Run(h).job
  /\ answer = "working" =>
       task[h].call \in {"analyze", "feedback", "retry"} /\ run.job = task[h].call
  /\ answer = "ok" /\ task[h].call = "critic" => run.first = "pass"
  /\ answer \in {"ok", "rejected"} => task[h].call \notin {"feedback", "retry"}
  /\ answer = "conflict" =>
       /\ task[h].call = "feedback" /\ task[h].answer = "sent"
       /\ Run(h).second # "none" \/ Run(h).phase = "revising"
  /\ run.phase \in {"revising", "retryable"} =>
       Run(h).phase \in {"revising", "retryable"} \/ task[h].call = "feedback"
  /\ Run(h).phase = "retryable" => run.phase = "retryable" \/ task[h].call = "retry"

LEMMA Tasks ==
  ASSUME RunsInv, NEW h \in Handlers, task[h] # Idle
  PROVE  /\ task[h].session \in Sessions /\ task[h].session \in 1..session
         /\ Run(h) \in Runs /\ RunInv(Run(h))
         /\ task[h].answer # "none" /\ task[h].by \in Buttons
         /\ task[h].call \in Calls \ {"none"}
<1>1. task[h].session \in Sessions /\ task[h].answer # "none" /\ task[h].call # "none"
  BY DEF RunsInv, TaskInv
<1>2. task[h].session \in 0..session /\ task[h].by \in Buttons /\ task[h].call \in Calls
      /\ session \in Nat
  BY SessionsAssumption DEF RunsInv, TypeInv
<1>3. Run(h) \in Runs /\ RunInv(Run(h))
  BY <1>1 DEF RunsInv, TypeInv, Run
<1> QED BY <1>1, <1>2, <1>3, SessionsAssumption DEF Sessions

\* A request answered without touching the Run.
LEMMA AnsweredOnly ==
  ASSUME RunsInv, NEW h \in Handlers, task[h] # Idle,
         NEW answer \in {"ok", "failed", "conflict"}, Answer(h, answer, Run(h)),
         answer = "ok" => task[h].call \notin {"critic", "feedback", "retry"},
         answer = "conflict" => /\ task[h].call = "feedback" /\ task[h].answer = "sent"
                                /\ Run(h).second # "none" \/ Run(h).phase = "revising"
  PROVE  ServedAs(h, answer, Run(h))
  BY Tasks DEF ServedAs, Answers, Follows

\* A request that starts work on the Run.
LEMMA Accepted ==
  ASSUME RunsInv, NEW h \in Handlers, task[h] # Idle,
         NEW call \in {"analyze", "feedback", "retry"}, task[h].call = call,
         NEW phase \in {"analysing", "revising"},
         (call = "analyze" /\ Run(h).phase = "new" /\ phase = "analysing")
           \/ (call = "feedback" /\ Run(h).phase = "open" /\ Run(h).second = "none"
                /\ phase = "revising")
           \/ (call = "retry" /\ Run(h).phase = "retryable" /\ phase = "revising"),
         Answer(h, "working", [Run(h) EXCEPT !.phase = phase, !.job = call])
  PROVE  \E run : ServedAs(h, "working", run)
<1> DEFINE r == Run(h)
<1>1. r \in Runs /\ RunInv(r)
  BY Tasks
<1>2. PICK run : run = [r EXCEPT !.phase = phase, !.job = call]
  OBVIOUS
<1>3. /\ run \in Runs /\ run.phase = phase /\ run.job = call /\ run.first = r.first
      /\ run.second = r.second /\ run.misreported = r.misreported
  BY <1>1, <1>2 DEF Runs, RunPhases
<1>4. Answer(h, "working", run)
  BY <1>2
<1> HIDE DEF r
<1>5. RunInv(run)
  BY <1>1, <1>3, r = Run(h) DEF RunInv, r
<1>6. r.job = "none"
  BY <1>1 DEF RunInv, r, Runs
<1>7. Follows(Run(h), run)
  BY <1>3 DEF Follows, r
<1> QED BY <1>1, <1>3, <1>4, <1>5, <1>6, <1>7 DEF ServedAs, RunInv, r

LEMMA ServiceStep ==
  ASSUME RunsInv, NEW h \in Handlers, Serve(h) \/ ServeError(h) \/ Disconnect(h)
  PROVE  \E answer, run : ServedAs(h, answer, run)
<1>1. CASE ServeAnalyze(h)
  <2>1. task[h] # Idle
    BY <1>1 DEF ServeAnalyze, Begin, Asked, Idle
  <2>2. task[h].call = "analyze"
    BY <1>1 DEF ServeAnalyze, Begin, Asked
  <2>3. CASE Run(h).phase = "new"
    BY <1>1, <2>1, <2>2, <2>3, Accepted DEF ServeAnalyze, Begin
  <2>4. CASE Run(h).phase # "new"
    BY <1>1, <2>1, <2>2, <2>4, AnsweredOnly DEF ServeAnalyze, Begin
  <2> QED BY <2>3, <2>4
<1>2. CASE ServeFeedback(h)
  <2>1. task[h] # Idle /\ task[h].call = "feedback" /\ task[h].answer = "sent"
    BY <1>2 DEF ServeFeedback, Begin, Asked, Idle
  <2>2. CASE Run(h).phase = "open" /\ Run(h).second = "none"
    BY <1>2, <2>1, <2>2, Accepted DEF ServeFeedback, Begin
  <2>3. CASE ~(Run(h).phase = "open" /\ Run(h).second = "none")
    <3>1. CASE Run(h).second # "none" \/ Run(h).phase = "revising"
      BY <1>2, <2>1, <2>3, <3>1, AnsweredOnly DEF ServeFeedback, Begin
    <3>2. CASE ~(Run(h).second # "none" \/ Run(h).phase = "revising")
      BY <1>2, <2>1, <2>3, <3>2, AnsweredOnly DEF ServeFeedback, Begin
    <3> QED BY <3>1, <3>2
  <2> QED BY <2>2, <2>3
<1>3. CASE ServeRetry(h)
  <2>1. task[h] # Idle /\ task[h].call = "retry"
    BY <1>3 DEF ServeRetry, Begin, Asked, Idle
  <2>2. CASE Run(h).phase = "retryable"
    BY <1>3, <2>1, <2>2, Accepted DEF ServeRetry, Begin
  <2>3. CASE Run(h).phase # "retryable"
    BY <1>3, <2>1, <2>3, AnsweredOnly DEF ServeRetry, Begin
  <2> QED BY <2>2, <2>3
<1>4. CASE ServeConfirm(h)
  <2>1. task[h] # Idle /\ task[h].call = "confirm"
    BY <1>4 DEF ServeConfirm, Asked, Idle
  <2>2. CASE Run(h).phase = "awaiting"
    <3>1. Answer(h, "ok", [Run(h) EXCEPT !.phase = "producing"])
      BY <1>4, <2>2 DEF ServeConfirm
    <3>2. PICK run : run = [Run(h) EXCEPT !.phase = "producing"]
      OBVIOUS
    <3>3. Run(h) \in Runs /\ RunInv(Run(h))
      BY <2>1, Tasks
    <3>4. /\ run \in Runs /\ run.phase = "producing" /\ run.job = Run(h).job
          /\ run.first = Run(h).first /\ run.second = Run(h).second
          /\ run.misreported = Run(h).misreported
      BY <3>2, <3>3 DEF Runs, RunPhases
    <3>5. RunInv(run)
      BY <2>2, <3>3, <3>4 DEF RunInv
    <3>6. ServedAs(h, "ok", run)
      BY <2>1, <2>2, <3>1, <3>2, <3>4, <3>5 DEF ServedAs, Answers, Follows
    <3> QED BY <3>6
  <2>3. CASE Run(h).phase # "awaiting"
    <3>1. \E answer \in {"ok", "failed"} : Answer(h, answer, Run(h))
      <4>1. CASE Run(h).phase \in {"new", "analysing", "refused"}
        BY <1>4, <2>3, <4>1, Zenon DEF ServeConfirm
      <4>2. CASE Run(h).phase \notin {"new", "analysing", "refused"}
        BY <1>4, <2>3, <4>2, Zenon DEF ServeConfirm
      <4> QED BY <4>1, <4>2
    <3> QED BY <2>1, <3>1, AnsweredOnly
  <2> QED BY <2>2, <2>3
<1>5. CASE ServeCritic(h)
  <2>1. task[h] # Idle /\ task[h].call = "critic"
    <3>1. Asked(h, "critic")
      BY <1>5, Zenon DEF ServeCritic
    <3> QED BY <3>1 DEF Asked, Idle
  <2>2. CASE Run(h).phase = "producing"
    <3>1. PICK verdict \in Verdicts :
            Answer(h, IF verdict = "reject" THEN "rejected" ELSE "ok",
                   [Run(h) EXCEPT !.first = verdict,
                                  !.phase = IF verdict = "reject" THEN "closed" ELSE "open"])
      BY <1>5, <2>2 DEF ServeCritic
    <3>2. PICK answer : answer = IF verdict = "reject" THEN "rejected" ELSE "ok"
      OBVIOUS
    <3>3. PICK phase : phase = IF verdict = "reject" THEN "closed" ELSE "open"
      OBVIOUS
    <3>4. PICK run : run = [Run(h) EXCEPT !.first = verdict, !.phase = phase]
      OBVIOUS
    <3>5. Answer(h, answer, run)
      BY <3>1, <3>2, <3>3, <3>4, Zenon
    <3>6. Run(h) \in Runs /\ RunInv(Run(h))
      BY <2>1, Tasks
    <3>7. /\ run \in Runs /\ run.phase = phase /\ run.job = Run(h).job
          /\ run.first = verdict /\ run.second = Run(h).second
          /\ run.misreported = Run(h).misreported
      BY <3>3, <3>4, <3>6 DEF Runs, RunPhases, Outcomes
    <3>8. RunInv(run)
      BY <2>2, <3>3, <3>6, <3>7 DEF RunInv, Verdicts
    <3>9. Follows(Run(h), run)
      BY <2>2, <3>3, <3>6, <3>7 DEF Follows, RunInv
    <3>10. ServedAs(h, answer, run)
      BY <2>1, <2>2, <3>2, <3>3, <3>5, <3>6, <3>7, <3>8, <3>9
      DEF ServedAs, Answers, RunInv, Verdicts
    <3> QED BY <3>10
  <2>3. CASE Run(h).phase # "producing"
    BY <1>5, <2>1, <2>3, AnsweredOnly DEF ServeCritic
  <2> QED BY <2>2, <2>3
<1>6. CASE ServeOther(h)
  <2>1. task[h] # Idle /\ task[h].call \notin {"critic", "feedback", "retry"}
    BY <1>6 DEF ServeOther, Idle
  <2>2. \E answer \in {"ok", "failed"} : Answer(h, answer, Run(h))
    BY <1>6 DEF ServeOther
  <2> QED BY <2>1, <2>2, AnsweredOnly
<1>7. CASE ServeError(h) \/ Disconnect(h)
  <2>1. task[h] # Idle
    BY <1>7 DEF ServeError, Disconnect, Idle
  <2>2. Answer(h, "failed", Run(h))
    BY <1>7 DEF ServeError, Disconnect
  <2> QED BY <2>1, <2>2, AnsweredOnly
<1> QED BY <1>1, <1>2, <1>3, <1>4, <1>5, <1>6, <1>7 DEF Serve

-----------------------------------------------------------------------------
(* What the end of an analysis or of a revision does.                      *)

EndedAs(s, run, answer) ==
  /\ server[s].job # "none" /\ answer \in Answers
  /\ run \in Runs /\ RunInv(run) /\ Follows(server[s], run)
  /\ server' = [server EXCEPT ![s] = run]
  /\ task' = [h \in Handlers |->
       IF task[h].session = s /\ task[h].answer = "working"
         THEN [task[h] EXCEPT !.answer = answer] ELSE task[h]]
  /\ UNCHANGED <<ui, page, forms, session>>
  /\ run.first = server[s].first
  /\ server[s].second # "none" => run.second = server[s].second
  /\ server[s].misreported => run.misreported
  /\ answer \in {"ok", "rejected"} /\ server[s].job # "analyze" => run.second # "none"
  /\ answer # "conflict"
  /\ answer = "revision_failed" =>
       server[s].job = "feedback" /\ (run.misreported \/ run.phase = "retryable")
  /\ server[s].job = "analyze" =>
       run.second = server[s].second /\ run.phase \notin {"revising", "retryable"}

LEMMA RunDone ==
  ASSUME NEW r \in Runs, NEW run, run = [r EXCEPT !.job = "none"]
  PROVE  /\ run \in Runs /\ run.phase = r.phase /\ run.first = r.first /\ run.second = r.second
         /\ run.misreported = r.misreported /\ run.job = "none"
  BY DEF Runs

LEMMA AnalysisEnds ==
  ASSUME RunsInv, NEW s \in Sessions, EndAnalysis(s)
  PROVE  \E run, answer : EndedAs(s, run, answer)
<1>1. server[s] \in Runs /\ RunInv(server[s]) /\ server[s].job = "analyze"
  BY DEF RunsInv, TypeInv, EndAnalysis
<1>2. PICK phase \in {"awaiting", "refused"} :
        End(s, [server[s] EXCEPT !.phase = phase], IF phase = "awaiting" THEN "ok" ELSE "failed")
  BY DEF EndAnalysis
<1>3. PICK r : r = [server[s] EXCEPT !.phase = phase]
  OBVIOUS
<1>4. PICK run : run = [r EXCEPT !.job = "none"]
  OBVIOUS
<1>5. PICK answer : answer = IF phase = "awaiting" THEN "ok" ELSE "failed"
  OBVIOUS
<1>6. End(s, r, answer)
  BY <1>2, <1>3, <1>5
<1>7. /\ r \in Runs /\ r.phase = phase /\ r.first = server[s].first
      /\ r.second = server[s].second /\ r.misreported = server[s].misreported
  BY <1>1, <1>3 DEF Runs, RunPhases
<1>8. RunInv(run)
  BY <1>1, <1>4, <1>7, RunDone DEF RunInv
<1>9. /\ run \in Runs /\ run.phase = phase /\ run.first = server[s].first
      /\ run.second = server[s].second /\ run.misreported = server[s].misreported
  BY <1>4, <1>7, RunDone
<1>10. answer \in {"ok", "failed"} /\ answer \in Answers
  BY <1>5 DEF Answers
<1>11. Follows(server[s], run)
  BY <1>1, <1>9 DEF Follows, RunInv
<1>12. EndedAs(s, run, answer)
  BY <1>1, <1>4, <1>6, <1>8, <1>9, <1>10, <1>11 DEF EndedAs, End
<1> QED BY <1>12

LEMMA RevisionEnds ==
  ASSUME RunsInv, NEW s \in Sessions, EndRevision(s)
  PROVE  \E run, answer : EndedAs(s, run, answer)
<1> DEFINE failure == IF server[s].job = "feedback" THEN "revision_failed" ELSE "failed"
<1>1. /\ server[s] \in Runs /\ RunInv(server[s]) /\ server[s].job \in {"feedback", "retry"}
      /\ server[s].phase = "revising" /\ server[s].first # "none" /\ server[s].second = "none"
  BY DEF RunsInv, TypeInv, EndRevision, RunInv
\* Whatever the revision ends as, its Run and its answer have the shape asked for.
<1>2. ASSUME NEW r \in Runs, NEW answer \in Answers, End(s, r, answer),
             r.first = server[s].first, server[s].misreported => r.misreported,
             Follows(server[s], r),
             r.phase \in {"open", "closed", "revising", "retryable"},
             r.second # "none" => r.phase \in {"open", "closed"},
             answer \in {"ok", "rejected"} => r.second # "none", answer # "conflict",
             answer = "revision_failed" =>
               server[s].job = "feedback" /\ (r.misreported \/ r.phase = "retryable")
      PROVE  \E run, ans : EndedAs(s, run, ans)
  <2>1. PICK run : run = [r EXCEPT !.job = "none"]
    OBVIOUS
  <2>2. RunInv(run)
    BY <1>1, <1>2, <2>1, RunDone DEF RunInv
  <2>3. EndedAs(s, run, answer)
    BY <1>1, <1>2, <2>1, <2>2, RunDone DEF EndedAs, End, Follows
  <2> QED BY <2>3
<1>3. failure \in {"revision_failed", "failed"}
      /\ (failure = "revision_failed" => server[s].job = "feedback")
  OBVIOUS
<1>4. ASSUME NEW verdict \in Verdicts
      PROVE  LET r == Published(server[s], verdict) IN
               /\ r \in Runs /\ r.first = server[s].first
               /\ r.misreported = server[s].misreported
               /\ r.phase = IF verdict = "reject" THEN "closed" ELSE "open"
               /\ r.second = verdict /\ r.second # "none" /\ Follows(server[s], r)
  <2>1. PICK phase : phase = IF verdict = "reject" THEN "closed" ELSE "open"
    OBVIOUS
  <2>2. Published(server[s], verdict) = [server[s] EXCEPT !.second = verdict, !.phase = phase]
    BY <2>1, Zenon DEF Published
  <2> DEFINE r == Published(server[s], verdict)
  <2>3. /\ r \in Runs /\ r.first = server[s].first
        /\ r.misreported = server[s].misreported
        /\ r.phase = phase /\ r.second = verdict /\ r.second # "none"
    BY <1>1, <2>1, <2>2 DEF Runs, RunPhases, Outcomes, Verdicts
  <2> HIDE DEF r
  <2>4. Follows(server[s], r)
    BY <1>1, <2>1, <2>3 DEF Follows
  <2> QED BY <2>1, <2>3, <2>4 DEF r
<1>5. ASSUME NEW r \in Runs, NEW m, m = [r EXCEPT !.misreported = TRUE],
             Follows(server[s], r)
      PROVE  /\ m \in Runs /\ m.first = r.first /\ m.second = r.second /\ m.phase = r.phase
             /\ m.misreported /\ Follows(server[s], m)
  <2>1. /\ m \in Runs /\ m.first = r.first /\ m.second = r.second /\ m.phase = r.phase
        /\ m.misreported
    BY <1>5 DEF Runs
  <2> QED BY <1>5, <2>1 DEF Follows
<1>6. \/ \E verdict \in Verdicts :
           End(s, Published(server[s], verdict), IF verdict = "reject" THEN "rejected" ELSE "ok")
      \/ \E verdict \in Verdicts :
           End(s, [Published(server[s], verdict) EXCEPT !.misreported = TRUE], failure)
      \/ End(s, [server[s] EXCEPT !.phase = IF server[s].job = "feedback"
                                              THEN "retryable" ELSE "closed"], failure)
      \/ End(s, [server[s] EXCEPT !.misreported = TRUE], failure)
  BY DEF EndRevision
<1> HIDE DEF failure
<1>7. ASSUME NEW verdict \in Verdicts,
             End(s, Published(server[s], verdict), IF verdict = "reject" THEN "rejected" ELSE "ok")
      PROVE  \E run, ans : EndedAs(s, run, ans)
  <2>1. PICK answer : answer = IF verdict = "reject" THEN "rejected" ELSE "ok"
    OBVIOUS
  <2>2. End(s, Published(server[s], verdict), answer)
    BY <1>7, <2>1
  <2>3. answer \in {"rejected", "ok"} /\ answer \in Answers
    BY <2>1 DEF Answers
  <2> QED BY <1>2, <1>4, <2>2, <2>3
<1>8. ASSUME NEW verdict \in Verdicts,
             End(s, [Published(server[s], verdict) EXCEPT !.misreported = TRUE], failure)
      PROVE  \E run, ans : EndedAs(s, run, ans)
  <2>1. PICK m : m = [Published(server[s], verdict) EXCEPT !.misreported = TRUE]
    OBVIOUS
  <2>2. End(s, m, failure)
    BY <1>8, <2>1
  <2> QED BY <1>2, <1>3, <1>4, <1>5, <2>1, <2>2 DEF Answers
<1>9. ASSUME End(s, [server[s] EXCEPT !.phase = IF server[s].job = "feedback"
                                                  THEN "retryable" ELSE "closed"], failure)
      PROVE  \E run, ans : EndedAs(s, run, ans)
  <2>1. PICK phase : phase = IF server[s].job = "feedback" THEN "retryable" ELSE "closed"
    OBVIOUS
  <2>2. PICK r : r = [server[s] EXCEPT !.phase = phase]
    OBVIOUS
  <2>3. End(s, r, failure)
    BY <1>9, <2>1, <2>2
  <2>4. /\ r \in Runs /\ r.phase = phase /\ r.first = server[s].first /\ r.second = "none"
        /\ r.misreported = server[s].misreported
    BY <1>1, <2>1, <2>2 DEF Runs, RunPhases
  <2>5. Follows(server[s], r)
    BY <1>1, <2>1, <2>4 DEF Follows
  <2> QED BY <1>2, <1>3, <2>1, <2>3, <2>4, <2>5 DEF Answers
<1>10. ASSUME End(s, [server[s] EXCEPT !.misreported = TRUE], failure)
       PROVE  \E run, ans : EndedAs(s, run, ans)
  <2>1. PICK m : m = [server[s] EXCEPT !.misreported = TRUE]
    OBVIOUS
  <2>2. End(s, m, failure)
    BY <1>10, <2>1
  <2>3. Follows(server[s], server[s])
    BY DEF Follows
  <2> QED BY <1>1, <1>2, <1>3, <1>5, <2>1, <2>2, <2>3 DEF Answers
<1> QED BY <1>6, <1>7, <1>8, <1>9, <1>10

-----------------------------------------------------------------------------
(* The reducer.                                                            *)

\* A failure moves the page, unless it has been left, and keeps what it shows.
LEMMA Failures ==
  ASSUME NEW known, NEW st \in States(known), NEW code, NEW n, n = Failed(st, code)
  PROVE  /\ n \in States(known) /\ n.field = st.field /\ n.visible = st.visible
         /\ st.phase \in {"configure", "deleting"} => n = st
         /\ st.phase \notin {"configure", "deleting"} =>
              n.phase = IF code = "conflict" THEN "conflict"
                        ELSE IF code = "revision_failed" THEN "retryable_failure"
                        ELSE "final_failure"
<1>1. CASE st.phase \in {"configure", "deleting"}
  <2>1. Failed(st, code) = st
    BY <1>1 DEF Failed
  <2> QED BY <1>1, <2>1
<1>2. CASE st.phase \notin {"configure", "deleting"} /\ code = "conflict"
  <2>1. n = [st EXCEPT !.phase = "conflict", !.error = code]
    BY <1>2, Zenon DEF Failed
  <2> QED BY <1>2, <2>1 DEF States, Errors, Phases
<1>3. CASE st.phase \notin {"configure", "deleting"} /\ code = "revision_failed"
  <2>1. n = [st EXCEPT !.phase = "retryable_failure", !.error = code]
    BY <1>3 DEF Failed
  <2> QED BY <1>3, <2>1 DEF States, Errors, Phases
<1>4. CASE st.phase \notin {"configure", "deleting"} /\ code \notin {"conflict", "revision_failed"}
  <2>1. n = [st EXCEPT !.phase = "final_failure", !.error = "other"]
    BY <1>4, Zenon DEF Failed
  <2> QED BY <1>4, <2>1 DEF States, Errors, Phases
<1> QED BY <1>1, <1>2, <1>3, <1>4

\* The requests whose answer is only stored.
Storing == {"upload", "create", "analyze", "draft", "composition"}

Stored(st, n, f, s) == n.field = [st.field EXCEPT ![f] = s]

LEMMA Progresses ==
  ASSUME NEW known, NEW st \in States(known), NEW s \in known,
         NEW call \in Storing,
         NEW n, n = Progressed(st, Progress[call], s)
  PROVE  /\ n \in States(known)
         /\ n # st =>
              /\ n.visible = st.visible
              /\ call = "upload" =>
                   st.phase = "uploading" /\ n.phase = "uploading" /\ Stored(st, n, "upload", s)
              /\ call = "create" =>
                   st.phase = "uploading" /\ n.phase = "analyzing" /\ Stored(st, n, "run", s)
              /\ call = "analyze" =>
                   /\ st.phase = "analyzing" /\ n.phase = "awaiting_brand_lock"
                   /\ Stored(st, n, "analysis", s) /\ Defined(st, "run")
              /\ call = "draft" =>
                   /\ st.phase = "generating_draft" /\ n.phase = "composing"
                   /\ Stored(st, n, "draft", s)
              /\ call = "composition" =>
                   /\ st.phase = "composing" /\ n.phase = "reviewing"
                   /\ Stored(st, n, "composition", s)
         /\ n = st =>
              /\ call = "upload" => st.phase # "uploading" \/ st.field.upload = s
              /\ call = "create" => st.phase # "uploading" \/ ~Defined(st, "upload")
              /\ call = "draft" => st.phase # "generating_draft"
              /\ call = "composition" => st.phase # "composing" \/ ~Defined(st, "draft")
<1> DEFINE event == Progress[call]
<1>1. /\ call = "upload" => /\ event.from = "uploading" /\ event.needs = {}
                            /\ event.to = "uploading" /\ event.sets = "upload"
      /\ call = "create" => /\ event.from = "uploading" /\ event.needs = {"upload"}
                            /\ event.to = "analyzing" /\ event.sets = "run"
      /\ call = "analyze" => /\ event.from = "analyzing" /\ event.needs = {"run"}
                             /\ event.to = "awaiting_brand_lock" /\ event.sets = "analysis"
      /\ call = "draft" => /\ event.from = "generating_draft" /\ event.needs = {}
                           /\ event.to = "composing" /\ event.sets = "draft"
      /\ call = "composition" => /\ event.from = "composing" /\ event.needs = {"draft"}
                                 /\ event.to = "reviewing" /\ event.sets = "composition"
      /\ call \in {"upload", "create", "analyze", "draft", "composition"}
  BY DEF Progress, Storing
<1> HIDE DEF event
<1>2. n = IF st.phase = event.from /\ \A f \in event.needs : Defined(st, f)
            THEN [st EXCEPT !.phase = event.to, !.field[event.sets] = s] ELSE st
  BY DEF Progressed, event
<1>3. CASE ~(st.phase = event.from /\ \A f \in event.needs : Defined(st, f))
  <2>1. n = st
    BY <1>2, <1>3
  <2> QED BY <1>1, <1>3, <2>1
<1>4. CASE st.phase = event.from /\ \A f \in event.needs : Defined(st, f)
  <2>1. n = [st EXCEPT !.phase = event.to, !.field[event.sets] = s]
    BY <1>2, <1>4
  <2>2. event.to \in Phases /\ event.sets \in Fields
    BY <1>1 DEF Phases, Busy, Fields
  <2>3. /\ n \in States(known) /\ n.phase = event.to /\ n.visible = st.visible
        /\ n.field = [st.field EXCEPT ![event.sets] = s]
    <3>1. PICK field : field = [st.field EXCEPT ![event.sets] = s]
      OBVIOUS
    <3>2. n = [st EXCEPT !.phase = event.to, !.field = field]
      BY <2>1, <3>1
    <3>3. field \in [Fields -> known]
      BY <2>2, <3>1 DEF States
    <3> QED BY <2>2, <3>1, <3>2, <3>3 DEF States
  <2>4. st.field \in [Fields -> known]
    BY DEF States
  <2>5. n # st => n.visible = st.visible /\ st.phase = event.from /\ n.phase = event.to
                  /\ Stored(st, n, event.sets, s) /\ \A f \in event.needs : Defined(st, f)
    BY <1>4, <2>3 DEF Stored
  <2>6. n = st => event.to = event.from /\ st.field[event.sets] = s
    BY <1>4, <2>2, <2>3, <2>4
  <2> QED BY <1>1, <2>3, <2>5, <2>6
<1> QED BY <1>3, <1>4

LEMMA Others ==
  ASSUME NEW known, NEW st \in States(known), NEW s \in known
  PROVE  /\ Confirmed(st, s) \in States(known)
         /\ Confirmed(st, s) # st =>
              /\ CanConfirmBrandLock(st) /\ Confirmed(st, s).phase = st.phase
              /\ Confirmed(st, s).visible = st.visible
              /\ Stored(st, Confirmed(st, s), "confirmation", s)
         /\ Revised(st, s) \in States(known)
         /\ Revised(st, s) # st =>
              /\ st.phase \in {"submitting_revision", "ready_v2"}
              /\ Revised(st, s).phase = "ready_v2" /\ Stored(st, Revised(st, s), "revision", s)
         /\ st.phase = "submitting_revision" => Revised(st, s) # st
<1>1. st.field \in [Fields -> known] /\ st.phase \in Phases
  BY DEF States
<1>2. ASSUME NEW n, n = [st EXCEPT !.field.confirmation = s]
      PROVE  /\ n \in States(known) /\ n.phase = st.phase /\ n.visible = st.visible
             /\ Stored(st, n, "confirmation", s)
  BY <1>2 DEF States, Fields, Stored
<1>3. ASSUME NEW n, n = [st EXCEPT !.phase = "ready_v2", !.field.revision = s, !.visible = 2,
                                   !.error = "none"]
      PROVE  n \in States(known) /\ n.phase = "ready_v2" /\ Stored(st, n, "revision", s)
  <2>1. PICK field : field = [st.field EXCEPT !["revision"] = s]
    OBVIOUS
  <2>2. n = [st EXCEPT !.phase = "ready_v2", !.field = field, !.visible = 2, !.error = "none"]
    BY <1>3, <2>1
  <2>3. field \in [Fields -> known]
    BY <1>1, <2>1
  <2>4. "ready_v2" \in Phases /\ 2 \in 0..2 /\ "none" \in Errors
    BY DEF Phases, Errors
  <2> QED BY <2>1, <2>2, <2>3, <2>4 DEF States, Stored
<1>4. Confirmed(st, s) = st \/ (/\ CanConfirmBrandLock(st)
                                /\ Confirmed(st, s) = [st EXCEPT !.field.confirmation = s])
  BY DEF Confirmed
<1>5. /\ st.phase \notin {"submitting_revision", "ready_v2"} => Revised(st, s) = st
      /\ st.phase \in {"submitting_revision", "ready_v2"} =>
           Revised(st, s) = [st EXCEPT !.phase = "ready_v2", !.field.revision = s, !.visible = 2,
                                       !.error = "none"]
  BY DEF Revised
<1>6. st.phase \in {"submitting_revision", "ready_v2"} =>
        /\ Revised(st, s) \in States(known) /\ Revised(st, s).phase = "ready_v2"
        /\ Stored(st, Revised(st, s), "revision", s)
  BY <1>3, <1>5
<1> QED BY <1>2, <1>4, <1>5, <1>6

LEMMA Reviews ==
  ASSUME NEW known, NEW st \in States(known), NEW s \in known, NEW answer,
         NEW n, n = Reviewed(st, s, answer)
  PROVE  /\ n \in States(known)
         /\ n # st => /\ st.phase = "reviewing" /\ Stored(st, n, "critique", s)
                      /\ n.phase = IF answer = "ok" THEN "ready_v1" ELSE "final_failure"
                      /\ n.visible = 2 => st.visible = 2
         /\ st.phase = "reviewing" /\ Defined(st, "composition") => n # st
<1>1. st.field \in [Fields -> known] /\ st.visible \in 0..2
  BY DEF States
<1>2. CASE ~(st.phase = "reviewing" /\ Defined(st, "composition"))
  <2>1. n = st
    BY <1>2, Zenon DEF Reviewed
  <2> QED BY <1>2, <2>1
<1>3. CASE st.phase = "reviewing" /\ Defined(st, "composition")
  <2>1. PICK phase, visible, error :
          /\ phase = IF answer = "ok" THEN "ready_v1" ELSE "final_failure"
          /\ visible = IF answer = "ok" THEN 1 ELSE st.visible
          /\ error = IF answer = "ok" THEN "none" ELSE "critic_failed"
    OBVIOUS
  <2>2. n = [st EXCEPT !.field.critique = s, !.phase = phase, !.visible = visible,
                       !.error = error]
    BY <1>3, <2>1, Zenon DEF Reviewed
  <2>3. phase \in Phases /\ visible \in 0..2 /\ error \in Errors
    BY <1>1, <2>1 DEF Phases, Errors
  <2>4. /\ n \in States(known) /\ n.phase = phase /\ n.visible = visible
        /\ Stored(st, n, "critique", s)
    <3>1. PICK field : field = [st.field EXCEPT !["critique"] = s]
      OBVIOUS
    <3>2. n = [st EXCEPT !.field = field, !.phase = phase, !.visible = visible, !.error = error]
      BY <2>2, <3>1
    <3>3. field \in [Fields -> known]
      BY <1>1, <3>1
    <3> QED BY <2>3, <3>1, <3>2, <3>3 DEF States, Stored
  <2> QED BY <1>3, <2>1, <2>4
<1> QED BY <1>2, <1>3

-----------------------------------------------------------------------------
(* The first invariant is kept.                                            *)

LEMMA RunsInit == Init => RunsInv
<1> SUFFICES ASSUME Init PROVE RunsInv
  OBVIOUS
<1>1. TypeInv
  <2>1. session \in 0..MaxSessions /\ 0 \in 0..session
    BY SessionsAssumption DEF Init
  <2>2. ui \in States(0..session)
    BY <2>1 DEF Init, InitialState, States, Phases, Undefined, Errors
  <2>3. page \in Pages(0..session)
    BY <2>1 DEF Init, InitialPage, Pages, Undefined
  <2>4. /\ forms \in [Sessions -> {"ready", "pending", "confirmed"}]
        /\ server \in [Sessions -> Runs]
    BY DEF Init, NewRun, Runs, RunPhases, Outcomes
  <2>5. Idle \in [by: Buttons, session: 0..session, call: Calls, answer: AnswerStates]
    BY <2>1 DEF Idle, Undefined, Buttons, Calls, AnswerStates
  <2>6. task \in [Handlers -> [by: Buttons, session: 0..session, call: Calls,
                               answer: AnswerStates]]
    BY <2>5 DEF Init
  <2> QED BY <2>1, <2>2, <2>3, <2>4, <2>6 DEF TypeInv
<1>2. \A s \in Sessions : RunInv(server[s])
  BY DEF Init, NewRun, RunInv
<1>3. \A h \in Handlers : TaskInv(task[h])
  BY DEF Init, Idle, TaskInv
<1>4. ShownInv
  BY DEF Init, InitialState, ShownInv
<1> QED BY <1>1, <1>2, <1>3, <1>4 DEF RunsInv

TaskType(known) == [by: Buttons, session: known, call: Calls, answer: AnswerStates]

LEMMA ServedKeeps ==
  ASSUME RunsInv, NEW h \in Handlers, NEW answer, NEW run, ServedAs(h, answer, run)
  PROVE  RunsInv'
<1> DEFINE c == task[h]
           s == c.session
<1>1. /\ task[h] # Idle /\ answer \in Answers \cup {"working"}
      /\ run \in Runs /\ RunInv(run)
      /\ task' = [task EXCEPT ![h].answer = answer]
      /\ server' = [server EXCEPT ![s] = run]
      /\ UNCHANGED <<ui, page, forms, session>>
  BY DEF ServedAs, Answer
<1>2. s \in Sessions /\ s \in 1..session /\ Run(h) = server[s]
  BY <1>1, Tasks DEF Run
<1>3. TypeInv
  BY DEF RunsInv
<1>4. PICK t : t = [c EXCEPT !.answer = answer]
  OBVIOUS
<1>5. /\ t.session = s /\ t.call = c.call /\ t.answer = answer /\ t.by = c.by
      /\ t \in TaskType(0..session)
  BY <1>1, <1>3, <1>4 DEF TypeInv, TaskType, AnswerStates
<1>6. task' = [task EXCEPT ![h] = t]
  BY <1>1, <1>4
<1>7. \A g \in Handlers : task'[g] = IF g = h THEN t ELSE task[g]
  BY <1>3, <1>6 DEF TypeInv
<1>8. \A r \in Sessions : server'[r] = IF r = s THEN run ELSE server[r]
  BY <1>1, <1>2, <1>3 DEF TypeInv
<1>9. TypeInv'
  <2>1. task \in [Handlers -> TaskType(0..session)]
    BY <1>3 DEF TypeInv, TaskType
  <2>2. task' \in [Handlers -> TaskType(0..session)]
    BY <1>5, <1>6, <2>1
  <2>3. server' \in [Sessions -> Runs]
    BY <1>1, <1>3 DEF TypeInv
  <2> QED BY <1>1, <1>3, <2>2, <2>3 DEF TypeInv, TaskType
<1>10. \A r \in Sessions : RunInv(server[r])'
  <2> SUFFICES ASSUME NEW r \in Sessions PROVE RunInv(server'[r])
    BY DEF RunInv
  <2>1. server'[r] = run \/ server'[r] = server[r]
    BY <1>8
  <2> QED BY <1>1, <2>1 DEF RunsInv
<1>11. \A g \in Handlers : TaskInv(task[g])'
  <2> SUFFICES ASSUME NEW g \in Handlers PROVE TaskInv(task[g])'
    OBVIOUS
  <2>1. TaskInv(task[g])
    BY DEF RunsInv
  <2>2. CASE g = h
    <3>1. task'[g] = t /\ server'[s] = run
      BY <1>2, <1>7, <1>8, <2>2
    <3>2. t # Idle /\ t.answer # "none" /\ t.call # "none"
      BY <1>1, <1>5, Tasks DEF Idle, Answers
    <3>3. /\ answer = "working" => c.call \in {"analyze", "feedback", "retry"} /\ run.job = c.call
          /\ answer = "ok" /\ c.call = "critic" => run.first = "pass"
          /\ answer \in {"ok", "rejected"} => c.call \notin {"feedback", "retry"}
      BY DEF ServedAs
    <3> QED BY <1>2, <1>5, <3>1, <3>2, <3>3 DEF TaskInv, Good
  <2>3. CASE g # h
    <3>1. task'[g] = task[g]
      BY <1>7, <2>3
    <3>2. \A r \in Sessions :
            /\ server[r].first = "pass" => server'[r].first = "pass"
            /\ server[r].second # "none" => server'[r].second # "none"
            /\ server[r].job \in {"analyze", "feedback", "retry"} => server'[r].job = server[r].job
      BY <1>2, <1>8 DEF ServedAs
    <3> QED BY <2>1, <3>1, <3>2 DEF TaskInv
  <2> QED BY <2>2, <2>3
<1>12. ShownInv'
  <2>1. \A r \in Sessions :
            /\ server[r].first = "pass" => server'[r].first = "pass"
            /\ server[r].second # "none" => server'[r].second # "none"
    BY <1>2, <1>8 DEF ServedAs
  <2> QED BY <1>1, <2>1 DEF RunsInv, ShownInv
<1> QED BY <1>9, <1>10, <1>11, <1>12 DEF RunsInv

LEMMA EndedKeeps ==
  ASSUME RunsInv, NEW s \in Sessions, NEW answer, NEW run, EndedAs(s, run, answer)
  PROVE  RunsInv'
<1>1. /\ answer \in Answers /\ run \in Runs /\ RunInv(run)
      /\ server' = [server EXCEPT ![s] = run]
      /\ UNCHANGED <<ui, page, forms, session>>
  BY DEF EndedAs
<1>2. TypeInv
  BY DEF RunsInv
<1>3. \A r \in Sessions : server'[r] = IF r = s THEN run ELSE server[r]
  BY <1>1, <1>2 DEF TypeInv
<1>4. \A r \in Sessions :
        /\ server[r].first = "pass" => server'[r].first = "pass"
        /\ server[r].second # "none" => server'[r].second # "none"
  BY <1>3 DEF EndedAs
<1>5. ASSUME NEW g \in Handlers
      PROVE  /\ task[g] \in TaskType(0..session) /\ task'[g] \in TaskType(0..session)
             /\ task'[g].session = task[g].session /\ task'[g].call = task[g].call
             /\ task[g].session = s /\ task[g].answer = "working" => task'[g].answer = answer
             /\ ~(task[g].session = s /\ task[g].answer = "working") => task'[g] = task[g]
  <2>1. task[g] \in TaskType(0..session)
    BY <1>2 DEF TypeInv, TaskType
  <2>2. CASE task[g].session = s /\ task[g].answer = "working"
    <3>1. task'[g] = [task[g] EXCEPT !.answer = answer]
      BY <2>2 DEF EndedAs
    <3> QED BY <1>1, <2>1, <2>2, <3>1 DEF TaskType, AnswerStates
  <2>3. CASE ~(task[g].session = s /\ task[g].answer = "working")
    <3>1. task'[g] = task[g]
      BY <2>3 DEF EndedAs
    <3> QED BY <2>1, <2>3, <3>1
  <2> QED BY <2>2, <2>3
<1>6. TypeInv'
  <2>1. task' \in [Handlers -> TaskType(0..session)]
    <3>1. task' = [g \in Handlers |-> task'[g]]
      BY DEF EndedAs
    <3> QED BY <1>5, <3>1
  <2>2. server' \in [Sessions -> Runs]
    BY <1>1, <1>2 DEF TypeInv
  <2> QED BY <1>1, <1>2, <2>1, <2>2 DEF TypeInv, TaskType
<1>7. \A r \in Sessions : RunInv(server[r])'
  <2> SUFFICES ASSUME NEW r \in Sessions PROVE RunInv(server'[r])
    BY DEF RunInv
  <2>1. server'[r] = run \/ server'[r] = server[r]
    BY <1>3
  <2> QED BY <1>1, <2>1 DEF RunsInv
<1>8. ASSUME NEW g \in Handlers PROVE TaskInv(task[g])'
  <2>1. TaskInv(task[g])
    BY DEF RunsInv
  <2>2. CASE task[g].session = s /\ task[g].answer = "working"
    <3>1. /\ task'[g].answer = answer /\ task'[g].session = s /\ task'[g].call = task[g].call
          /\ answer # "none" /\ answer # "working" /\ task'[g] # Idle
      BY <1>1, <1>5, <2>2 DEF Idle, Answers
    <3>2. /\ task[g].call \in {"analyze", "feedback", "retry"} /\ server[s].job = task[g].call
          /\ s \in Sessions
      BY <2>1, <2>2 DEF TaskInv, Idle
    <3>3. answer \in {"ok", "rejected"} /\ task[g].call \in {"feedback", "retry"}
            => server'[s].second # "none"
      BY <1>3, <3>2 DEF EndedAs
    <3> QED BY <3>1, <3>2, <3>3 DEF TaskInv, Good
  <2>3. CASE task[g].session # s /\ task[g].answer = "working"
    <3>1. task'[g] = task[g]
      BY <1>5, <2>3
    <3>2. task[g].session \in Sessions => server'[task[g].session] = server[task[g].session]
      BY <1>3, <2>3
    <3> QED BY <2>1, <3>1, <3>2 DEF TaskInv
  <2>4. CASE task[g].answer # "working"
    <3>1. task'[g] = task[g]
      BY <1>5, <2>4
    <3> QED BY <1>4, <2>1, <2>4, <3>1 DEF TaskInv
  <2> QED BY <2>2, <2>3, <2>4
<1>9. ShownInv'
  BY <1>1, <1>4 DEF RunsInv, ShownInv
<1> QED BY <1>6, <1>7, <1>8, <1>9 DEF RunsInv

-----------------------------------------------------------------------------
(* A click sends one request about the Run of the page and at most opens   *)
(* another phase.                                                          *)

Sent(h, by, s, call, opened) ==
  /\ task[h] = Idle
  /\ task' = [task EXCEPT ![h] = [by |-> by, session |-> s, call |-> call, answer |-> "sent"]]
  /\ server' = server
  /\ session' \in {session, session + 1} /\ session' <= MaxSessions /\ s \in 1..session'
  /\ by \in Buttons /\ call \in Calls \ {"none"}
  /\ ui' = ui \/ opened # "ready_v1"
  /\ ui' \in States(0..session) /\ ui'.phase = opened
  /\ ui'.field = ui.field /\ ui'.visible = ui.visible
  /\ page' \in Pages(0..session)
  /\ forms' \in [Sessions -> {"ready", "pending", "confirmed"}]

LEMMA PageKeys ==
  ASSUME NEW known, NEW p \in Pages(known), NEW a \in known, NEW b \in known, NEW n,
         n = [p EXCEPT !.feedbackKey = a, !.revisionRequest = b] \/ n = [p EXCEPT !.retryKey = a]
  PROVE  n \in Pages(known)
  BY DEF Pages

LEMMA ClickStep ==
  ASSUME RunsInv, NEW h \in Handlers, Click(h)
  PROVE  \E by, s, call, opened : Sent(h, by, s, call, opened)
<1>1. /\ session \in 0..MaxSessions /\ ui \in States(0..session) /\ page \in Pages(0..session)
      /\ forms \in [Sessions -> {"ready", "pending", "confirmed"}] /\ MaxSessions \in Nat
  BY SessionsAssumption DEF RunsInv, TypeInv
<1>2. /\ \A f \in Fields : ui.field[f] \in 0..session
      /\ \A f \in Fields : Defined(ui, f) => ui.field[f] \in 1..session
      /\ "run" \in Fields /\ "upload" \in Fields /\ ui.phase \in Phases
  BY <1>1 DEF States, Defined, Undefined, Fields
<1>3. \A f \in {"feedbackKey", "retryKey"} : KeepOrDraw(page[f]) \in 0..session
  BY <1>1 DEF KeepOrDraw, Pages
<1>4. /\ {"nobody", "start", "confirm", "generate", "revise", "retry", "download", "delete"}
           \subseteq Buttons
      /\ {"upload", "confirm", "draft", "feedback", "retry", "export1", "export2", "delete"}
           \subseteq Calls \ {"none"}
      /\ {"uploading", "generating_draft", "submitting_revision", "deleting"} \subseteq Phases
  BY DEF Buttons, Calls, Phases, Busy
<1>5. CASE StartRun(h)
  <2>1. ui' = [ui EXCEPT !.phase = "uploading"]
    BY <1>5 DEF StartRun
  <2>2. /\ ui' \in States(0..session) /\ ui'.phase = "uploading"
       /\ ui'.field = ui.field /\ ui'.visible = ui.visible
    BY <1>1, <1>4, <2>1 DEF States, Errors
  <2>3. Sent(h, "start", session + 1, "upload", "uploading")
    BY <1>1, <1>4, <1>5, <2>1, <2>2 DEF StartRun, Send, Sent
  <2> QED BY <2>3
<1>6. CASE SubmitBrandLock(h)
  <2>1. forms' \in [Sessions -> {"ready", "pending", "confirmed"}]
    BY <1>1, <1>6 DEF SubmitBrandLock
  <2>2. Sent(h, "confirm", ui.field.run, "confirm", ui.phase)
    BY <1>1, <1>2, <1>4, <1>6, <2>1 DEF SubmitBrandLock, Send, Sent
  <2> QED BY <2>2
<1>7. CASE GenerateVersionOne(h)
  <2>1. ui' = [ui EXCEPT !.phase = "generating_draft"]
    BY <1>7 DEF GenerateVersionOne
  <2>2. /\ ui' \in States(0..session) /\ ui'.phase = "generating_draft"
       /\ ui'.field = ui.field /\ ui'.visible = ui.visible
    BY <1>1, <1>4, <2>1 DEF States, Errors
  <2>3. Sent(h, "generate", ui.field.run, "draft", "generating_draft")
    BY <1>1, <1>2, <1>4, <1>7, <2>1, <2>2 DEF GenerateVersionOne, Send, Sent
  <2> QED BY <2>3
<1>8. CASE CreateVersionTwo(h)
  <2>1. ui' = [ui EXCEPT !.phase = "submitting_revision", !.error = "none"]
    BY <1>8 DEF CreateVersionTwo
  <2>2. /\ ui' \in States(0..session) /\ ui'.phase = "submitting_revision"
       /\ ui'.field = ui.field /\ ui'.visible = ui.visible
    BY <1>1, <1>4, <2>1 DEF States, Errors
  <2>3. PICK a : a = KeepOrDraw(page.feedbackKey)
    OBVIOUS
  <2>4. page' = [page EXCEPT !.feedbackKey = a, !.revisionRequest = ui.field.run]
    BY <1>8, <2>3 DEF CreateVersionTwo
  <2>5. page' \in Pages(0..session)
    BY <1>1, <1>2, <1>3, <2>3, <2>4, PageKeys
  <2>6. Sent(h, "revise", ui.field.run, "feedback", "submitting_revision")
    BY <1>1, <1>2, <1>4, <1>8, <2>1, <2>5, <2>2 DEF CreateVersionTwo, Send, Sent
  <2> QED BY <2>6
<1>9. CASE RetryVersionTwo(h)
  <2>1. ui' = [ui EXCEPT !.phase = "submitting_revision", !.error = "none"]
    BY <1>9 DEF RetryVersionTwo
  <2>2. /\ ui' \in States(0..session) /\ ui'.phase = "submitting_revision"
       /\ ui'.field = ui.field /\ ui'.visible = ui.visible
    BY <1>1, <1>4, <2>1 DEF States, Errors
  <2>3. PICK a : a = KeepOrDraw(page.retryKey)
    OBVIOUS
  <2>4. page' = [page EXCEPT !.retryKey = a]
    BY <1>9, <2>3 DEF RetryVersionTwo
  <2>5. page' \in Pages(0..session)
    BY <1>1, <1>2, <1>3, <2>3, <2>4, PageKeys
  <2>6. Sent(h, "retry", ui.field.run, "retry", "submitting_revision")
    BY <1>1, <1>2, <1>4, <1>9, <2>1, <2>5, <2>2 DEF RetryVersionTwo, Send, Sent
  <2> QED BY <2>6
<1>10. CASE DownloadVersion(h)
  <2>1. PICK call \in {"export1", "export2"} : Send(h, "download", ui.field.run, call)
    BY <1>10 DEF DownloadVersion
  <2>2. Sent(h, "download", ui.field.run, call, ui.phase)
    BY <1>1, <1>2, <1>4, <1>10, <2>1 DEF DownloadVersion, Send, Sent
  <2> QED BY <2>2
<1>11. CASE DeleteSource(h)
  <2>1. ui' = [ui EXCEPT !.phase = "deleting"] /\ Defined(ui, "upload")
    BY <1>11 DEF DeleteSource, CanDelete
  <2>2. /\ ui' \in States(0..session) /\ ui'.phase = "deleting"
       /\ ui'.field = ui.field /\ ui'.visible = ui.visible
    BY <1>1, <1>4, <2>1 DEF States, Errors
  <2>3. Sent(h, "delete", ui.field.upload, "delete", "deleting")
    BY <1>1, <1>2, <1>4, <1>11, <2>1, <2>2 DEF DeleteSource, Send, Sent
  <2> QED BY <2>3
<1> QED BY <1>5, <1>6, <1>7, <1>8, <1>9, <1>10, <1>11 DEF Click

LEMMA SentKeeps ==
  ASSUME RunsInv, NEW h \in Handlers, NEW by, NEW s, NEW call, NEW opened,
         Sent(h, by, s, call, opened)
  PROVE  RunsInv'
<1> DEFINE t == [by |-> by, session |-> s, call |-> call, answer |-> "sent"]
<1>1. TypeInv /\ session \in 0..MaxSessions /\ MaxSessions \in Nat
  BY SessionsAssumption DEF RunsInv, TypeInv
<1>2. /\ session' \in 0..MaxSessions /\ 0..session \subseteq 0..session'
      /\ s \in 0..session' /\ s \in Sessions
  BY <1>1 DEF Sent, Sessions
<1>3. t \in TaskType(0..session')
  BY <1>2 DEF Sent, TaskType, AnswerStates
<1>4. t.answer = "sent" /\ t.session = s /\ t # Idle /\ t.call # "none"
  BY DEF Idle, Sent
<1> HIDE DEF t
<1>5. task' = [task EXCEPT ![h] = t]
  BY DEF Sent, t
<1>6. TypeInv'
  <2>1. task \in [Handlers -> TaskType(0..session')]
    BY <1>1, <1>2 DEF TypeInv, TaskType
  <2>2. task' \in [Handlers -> TaskType(0..session')]
    BY <1>3, <1>5, <2>1
  <2>3. ui' \in States(0..session') /\ page' \in Pages(0..session')
    BY <1>2 DEF Sent, States, Pages
  <2> QED BY <1>1, <1>2, <2>2, <2>3 DEF TypeInv, TaskType, Sent
<1>7. \A r \in Sessions : RunInv(server[r])'
  BY DEF RunsInv, Sent, RunInv
<1>8. ASSUME NEW g \in Handlers PROVE TaskInv(task[g])'
  <2>1. TaskInv(task[g])
    BY DEF RunsInv
  <2>2. task'[g] = IF g = h THEN t ELSE task[g]
    BY <1>1, <1>5 DEF TypeInv
  <2>3. CASE g = h
    BY <1>2, <1>4, <2>2, <2>3 DEF TaskInv, Good
  <2>4. CASE g # h
    BY <2>1, <2>2, <2>4 DEF TaskInv, Sent
  <2> QED BY <2>3, <2>4
<1>9. ShownInv'
  BY DEF RunsInv, ShownInv, Sent
<1> QED BY <1>6, <1>7, <1>8, <1>9 DEF RunsInv

-----------------------------------------------------------------------------
(* An answer is taken: which case of the reducer it meets.                 *)

LEMMA Reductions ==
  ASSUME NEW st, NEW c, c.answer \in Answers
  PROVE  /\ ~Good(c) => Reduced(st, c) = Failed(st, c.answer)
         /\ Good(c) =>
              /\ c.call \in Storing
                   => Reduced(st, c) = Progressed(st, Progress[c.call], c.session)
              /\ c.call = "confirm" => Reduced(st, c) = Confirmed(st, c.session)
              /\ c.call = "critic" => Reduced(st, c) = Reviewed(st, c.session, c.answer)
              /\ c.call \in {"feedback", "retry"} => Reduced(st, c) = Revised(st, c.session)
              /\ c.call = "delete" =>
                   Reduced(st, c) = IF st.phase = "deleting" THEN InitialState ELSE st
              /\ c.call \in {"none", "export1", "export2"} => Reduced(st, c) = st
<1>1. DOMAIN Progress = Storing
  BY DEF Progress, Storing
<1>2. CASE ~Good(c)
  <2>1. c.answer \notin {"ok", "rejected"}
    BY <1>2 DEF Good
  <2> QED BY <1>2, <2>1 DEF Reduced
<1>3. CASE Good(c)
  <2>1. Reduced(st, c) =
          CASE c.call \in DOMAIN Progress       -> Progressed(st, Progress[c.call], c.session)
            [] c.call = "confirm"               -> Confirmed(st, c.session)
            [] c.call = "critic"                -> Reviewed(st, c.session, c.answer)
            [] c.call \in {"feedback", "retry"} -> Revised(st, c.session)
            [] c.call = "delete" -> IF st.phase = "deleting" THEN InitialState ELSE st
            [] OTHER             -> st
    BY <1>3 DEF Reduced, Good
  <2> QED BY <1>1, <1>3, <2>1 DEF Storing
<1> QED BY <1>2, <1>3

LEMMA ProgressShows ==
  ASSUME NEW known, NEW st \in States(known), NEW s \in known,
         NEW call \in Storing,
         NEW n, n = Progressed(st, Progress[call], s)
  PROVE  /\ n \in States(known) /\ n.visible = st.visible
         /\ n.field["revision"] = st.field["revision"]
         /\ n.phase = "ready_v1" =>
              st.phase = "ready_v1" /\ n.field["critique"] = st.field["critique"]
<1>1. CASE n = st
  BY <1>1
<1>2. CASE n # st
  <2>1. /\ n \in States(known) /\ n.visible = st.visible /\ n.phase # "ready_v1"
        /\ \/ Stored(st, n, "upload", s) \/ Stored(st, n, "run", s)
           \/ Stored(st, n, "analysis", s) \/ Stored(st, n, "draft", s)
           \/ Stored(st, n, "composition", s)
    BY <1>2, Progresses DEF Storing
  <2>2. st.field \in [Fields -> known] /\ "revision" \in Fields
    BY DEF States, Fields
  <2>3. n.field["revision"] = st.field["revision"]
    BY <2>1, <2>2 DEF Stored
  <2> QED BY <2>1, <2>3
<1> QED BY <1>1, <1>2

\* The Run a version is shown of is still the one it was, or the one answered.
LEMMA ReducedShows ==
  ASSUME NEW known, NEW st \in States(known), NEW c, c.answer \in Answers, c.call \in Calls,
         c.session \in known, 0 \in known, NEW n, n = Reduced(st, c)
  PROVE  /\ n \in States(known)
         /\ n.phase = "ready_v1" =>
              \/ st.phase = "ready_v1" /\ n.field["critique"] = st.field["critique"]
              \/ c.call = "critic" /\ c.answer = "ok" /\ n.field["critique"] = c.session
         /\ n.visible = 2 =>
              \/ st.visible = 2 /\ n.field["revision"] = st.field["revision"]
              \/ c.call \in {"feedback", "retry"} /\ Good(c) /\ n.field["revision"] = c.session
<1>1. st.field \in [Fields -> known]
  BY DEF States
<1>2. \A f \in {"critique", "revision", "confirmation", "upload", "run", "analysis", "draft",
                 "composition"} : f \in Fields
  BY DEF Fields
<1>3. CASE ~Good(c)
  <2>1. n = Failed(st, c.answer)
    BY <1>3, Reductions
  <2>2. /\ n \in States(known) /\ n.field = st.field /\ n.visible = st.visible
        /\ st.phase \in {"configure", "deleting"} => n = st
        /\ st.phase \notin {"configure", "deleting"} => n.phase # "ready_v1"
    BY <2>1, Failures
  <2> QED BY <2>2
<1>4. CASE Good(c) /\ c.call \in Storing
  <2>1. n = Progressed(st, Progress[c.call], c.session)
    BY <1>4, Reductions
  <2>2. /\ n \in States(known) /\ n.visible = st.visible
        /\ n.field["revision"] = st.field["revision"]
        /\ n.phase = "ready_v1" =>
             st.phase = "ready_v1" /\ n.field["critique"] = st.field["critique"]
    BY <1>4, <2>1, ProgressShows
  <2> QED BY <2>2
<1>5. CASE Good(c) /\ c.call = "confirm"
  <2>1. n = Confirmed(st, c.session)
    BY <1>5, Reductions
  <2>2. /\ n \in States(known)
        /\ n # st => /\ st.phase = "awaiting_brand_lock" /\ n.phase = st.phase
                     /\ n.visible = st.visible /\ Stored(st, n, "confirmation", c.session)
    BY <2>1, Others DEF CanConfirmBrandLock
  <2>3. n # st => n.field["revision"] = st.field["revision"]
    BY <1>1, <1>2, <2>2 DEF Stored
  <2> QED BY <2>2, <2>3
<1>6. CASE Good(c) /\ c.call = "critic"
  <2>1. n = Reviewed(st, c.session, c.answer)
    BY <1>6, Reductions
  <2>2. /\ n \in States(known)
        /\ n # st => /\ Stored(st, n, "critique", c.session)
                     /\ n.phase = "ready_v1" => c.answer = "ok"
                     /\ n.visible = 2 => st.visible = 2
    BY <2>1, Reviews
  <2>3. n # st => /\ n.field["revision"] = st.field["revision"]
                  /\ n.field["critique"] = c.session
    BY <1>1, <1>2, <2>2 DEF Stored
  <2> QED BY <1>6, <2>2, <2>3
<1>7. CASE Good(c) /\ c.call \in {"feedback", "retry"}
  <2>1. n = Revised(st, c.session)
    BY <1>7, Reductions
  <2>2. /\ n \in States(known)
        /\ n # st => n.phase = "ready_v2" /\ Stored(st, n, "revision", c.session)
    BY <2>1, Others
  <2>3. n # st => n.field["revision"] = c.session
    BY <1>1, <1>2, <2>2 DEF Stored
  <2> QED BY <1>7, <2>2, <2>3
<1>8. CASE Good(c) /\ c.call = "delete"
  <2>1. n = st \/ n = InitialState
    BY <1>8, Reductions
  <2>2. InitialState \in States(known) /\ InitialState.phase = "configure"
        /\ InitialState.visible = 0
    BY DEF InitialState, States, Phases, Errors, Undefined
  <2> QED BY <2>1, <2>2
<1>9. CASE Good(c) /\ c.call \in {"none", "export1", "export2"}
  <2>1. n = st
    BY <1>9, Reductions
  <2> QED BY <2>1
<1> QED BY <1>3, <1>4, <1>5, <1>6, <1>7, <1>8, <1>9 DEF Calls, Storing

LEMMA KeptPages ==
  ASSUME NEW known, 0 \in known, page \in Pages(known), NEW c, c.session \in known
  PROVE  /\ Kept(c) \in Pages(known)
         /\ Kept(c) \in {page, InitialPage, [page EXCEPT !.versionOneUrl = c.session],
                         [page EXCEPT !.versionTwoUrl = c.session]}
<1>1. Kept(c) \in {page, InitialPage, [page EXCEPT !.versionOneUrl = c.session],
                   [page EXCEPT !.versionTwoUrl = c.session]}
  BY Zenon DEF Kept
<1>2. InitialPage \in Pages(known)
  BY DEF InitialPage, Pages, Undefined
<1>3. /\ [page EXCEPT !.versionOneUrl = c.session] \in Pages(known)
      /\ [page EXCEPT !.versionTwoUrl = c.session] \in Pages(known)
  BY DEF Pages
<1> QED BY <1>1, <1>2, <1>3

LEMMA NextTasks ==
  ASSUME NEW known, 0 \in known, NEW c \in TaskType(known), NEW t, t = NextTask(c)
  PROVE  /\ t \in TaskType(known)
         /\ t # Idle =>
              /\ Good(c) /\ t.session = c.session /\ t.answer = "sent"
              /\ \/ c.call = "upload" /\ t.call = "create"
                 \/ c.call = "create" /\ t.call = "analyze"
                 \/ c.call = "draft" /\ t.call = "composition"
                 \/ c.call = "composition" /\ t.call = "critic"
                 \/ c.call = "critic" /\ t.call = "export1" /\ c.answer # "rejected"
                 \/ c.call \in {"feedback", "retry"} /\ t.call = "export2"
<1>1. Idle \in TaskType(known)
  BY DEF Idle, TaskType, Buttons, Calls, AnswerStates, Undefined
<1>2. DOMAIN Following = {"upload", "create", "draft", "composition", "critic", "feedback", "retry"}
  BY DEF Following
<1>3. /\ Following["upload"] = "create" /\ Following["create"] = "analyze"
      /\ Following["draft"] = "composition" /\ Following["composition"] = "critic"
      /\ Following["critic"] = "export1" /\ Following["feedback"] = "export2"
      /\ Following["retry"] = "export2"
  BY DEF Following
<1>4. CASE t = Idle
  BY <1>1, <1>4
<1>5. CASE t # Idle
  <2>1. /\ Good(c) /\ c.call \in DOMAIN Following
        /\ ~(c.call = "critic" /\ c.answer = "rejected")
        /\ t = [c EXCEPT !.call = Following[c.call], !.answer = "sent"]
    BY <1>5 DEF NextTask
  <2>2. PICK next : next = Following[c.call]
    OBVIOUS
  <2>3. t = [c EXCEPT !.call = next, !.answer = "sent"]
    BY <2>1, <2>2
  <2>4. next \in Calls
    BY <1>2, <1>3, <2>1, <2>2 DEF Calls
  <2>5. /\ t \in TaskType(known) /\ t.session = c.session /\ t.call = next /\ t.answer = "sent"
    BY <2>3, <2>4 DEF TaskType, AnswerStates
  <2> QED BY <1>2, <1>3, <2>1, <2>2, <2>5
<1> QED BY <1>4, <1>5

LEMMA ReceiveKeeps ==
  ASSUME RunsInv, NEW h \in Handlers, Receive(h)
  PROVE  RunsInv'
<1> DEFINE c == task[h]
           known == 0..session
           t == NextTask(c)
<1>1. /\ c.answer \in Answers /\ ui' = Reduced(ui, c) /\ page' = Kept(c)
      /\ forms' = IF c.call # "confirm" THEN forms
                  ELSE [forms EXCEPT ![c.session] = IF Good(c) THEN "confirmed" ELSE "ready"]
      /\ task' = [task EXCEPT ![h] = t]
      /\ UNCHANGED <<session, server>>
  BY DEF Receive
<1>2. TypeInv /\ ShownInv /\ TaskInv(c) /\ c \in TaskType(known) /\ session \in Nat
  BY SessionsAssumption DEF RunsInv, TypeInv, TaskType
<1>3. c # Idle
  BY <1>1 DEF Idle, Answers
<1>4. /\ c.session \in Sessions /\ c.session \in known /\ 0 \in known /\ c.call \in Calls
      /\ c.answer = "ok" /\ c.call = "critic" => server[c.session].first = "pass"
      /\ Good(c) /\ c.call \in {"feedback", "retry"} => server[c.session].second # "none"
  BY <1>2, <1>3 DEF TaskInv, TaskType
<1>5. ui \in States(known) /\ page \in Pages(known)
  BY <1>2 DEF TypeInv
<1> HIDE DEF known
<1>6. /\ ui' \in States(known)
      /\ ui'.phase = "ready_v1" =>
           \/ ui.phase = "ready_v1" /\ ui'.field["critique"] = ui.field["critique"]
           \/ c.call = "critic" /\ c.answer = "ok" /\ ui'.field["critique"] = c.session
      /\ ui'.visible = 2 =>
           \/ ui.visible = 2 /\ ui'.field["revision"] = ui.field["revision"]
           \/ c.call \in {"feedback", "retry"} /\ Good(c) /\ ui'.field["revision"] = c.session
  BY <1>1, <1>4, <1>5, ReducedShows
<1>7. page' \in Pages(known)
  BY <1>1, <1>4, <1>5, KeptPages
<1>8. /\ t \in TaskType(known)
      /\ t # Idle => t.session = c.session /\ t.answer = "sent" /\ t.call # "none"
  BY <1>2, <1>4, NextTasks
<1> HIDE DEF t
<1>9. forms' \in [Sessions -> {"ready", "pending", "confirmed"}]
  BY <1>1, <1>2 DEF TypeInv
<1>10. TypeInv'
  <2>1. task \in [Handlers -> TaskType(known)]
    BY <1>2 DEF TypeInv, TaskType, known
  <2>2. task' \in [Handlers -> TaskType(known)]
    BY <1>1, <1>8, <2>1
  <2>3. known' = known
    BY <1>1 DEF known
  <2> QED BY <1>1, <1>2, <1>6, <1>7, <1>9, <2>2, <2>3 DEF TypeInv, TaskType, known
<1>11. \A r \in Sessions : RunInv(server[r])'
  BY <1>1 DEF RunsInv, RunInv
<1>12. ASSUME NEW g \in Handlers PROVE TaskInv(task[g])'
  <2>1. TaskInv(task[g])
    BY DEF RunsInv
  <2>2. task'[g] = IF g = h THEN t ELSE task[g]
    BY <1>1, <1>2 DEF TypeInv
  <2>3. CASE g = h /\ t = Idle
    BY <1>1, <2>2, <2>3 DEF TaskInv, Idle
  <2>4. CASE g = h /\ t # Idle
    BY <1>1, <1>4, <1>8, <2>2, <2>4 DEF TaskInv, Good, Idle
  <2>5. CASE g # h
    BY <1>1, <2>1, <2>2, <2>5 DEF TaskInv
  <2> QED BY <2>3, <2>4, <2>5
<1>13. ShownInv'
  BY <1>1, <1>2, <1>4, <1>6 DEF ShownInv
<1> QED BY <1>10, <1>11, <1>12, <1>13 DEF RunsInv

LEMMA RunsStep == RunsInv /\ [Next]_vars => RunsInv'
<1> SUFFICES ASSUME RunsInv, [Next]_vars PROVE RunsInv'
  OBVIOUS
<1>1. ASSUME NEW h \in Handlers, Click(h) PROVE RunsInv'
  BY <1>1, ClickStep, SentKeeps
<1>2. ASSUME NEW h \in Handlers, Serve(h) \/ ServeError(h) \/ Disconnect(h) PROVE RunsInv'
  BY <1>2, ServiceStep, ServedKeeps
<1>3. ASSUME NEW h \in Handlers, Receive(h) PROVE RunsInv'
  BY <1>3, ReceiveKeeps
<1>4. ASSUME NEW s \in Sessions, EndJob(s) PROVE RunsInv'
  BY <1>4, AnalysisEnds, RevisionEnds, EndedKeeps DEF EndJob
<1>5. ASSUME UNCHANGED vars PROVE RunsInv'
  <2>1. UNCHANGED <<ui, page, forms, session, task, server>>
    BY <1>5 DEF vars
  <2> QED BY <2>1 DEF RunsInv, TypeInv, RunInv, TaskInv, ShownInv
<1> QED BY <1>1, <1>2, <1>3, <1>4, <1>5 DEF Next

\* The page, the requests and the Runs they are about fit together.
THEOREM StudioInvariantHolds == Spec => []RunsInv
  BY RunsInit, RunsStep, PTL DEF Spec

\* A version is shown only if it was published, and version 1 only if its
\* critique let it pass (critic_succeeded and revision_succeeded).
THEOREM ShownWasPublished == Spec => []VisibleIsPublished
<1>1. RunsInv => VisibleIsPublished
  BY DEF RunsInv, ShownInv, VisibleIsPublished
<1> QED BY <1>1, StudioInvariantHolds, PTL

-----------------------------------------------------------------------------
(* The Runs behind the page follow RunLifecycle.                           *)

\* A step of the service is one of the lifecycle, or leaves it where it is.
LEMMA FollowingIsLifecycle ==
  ASSUME RunsInv, NEW s \in Sessions, Follows(server[s], server'[s])
  PROVE  [Lifecycle(s)!LifecycleNext]_(Lifecycle(s)!lifecycleVars)
<1> DEFINE run == server[s]
           next == server'[s]
<1>1. CASE /\ next.first = run.first /\ next.second = run.second
           /\ \/ next.phase = run.phase
              \/ run.phase = "new" /\ next.phase = "analysing"
              \/ run.phase = "analysing" /\ next.phase \in {"refused", "awaiting"}
              \/ run.phase = "awaiting" /\ next.phase = "producing"
              \/ run.phase = "open" /\ next.phase = "revising" /\ run.second = "none"
              \/ run.phase = "revising" /\ next.phase \in {"retryable", "closed"}
              \/ run.phase = "retryable" /\ next.phase = "revising"
  BY <1>1 DEF Lifecycle!LifecycleNext, Lifecycle!lifecycleVars, Lifecycle!Analyse,
              Lifecycle!Confirm, Lifecycle!StartRevision, Lifecycle!FailRevision,
              Lifecycle!RetryRevision, Lifecycle!Move
<1>2. CASE /\ run.phase = "producing" /\ run.first = "none"
           /\ next.first \in Verdicts /\ next.second = run.second
           /\ next.phase = IF next.first = "reject" THEN "closed" ELSE "open"
  <2>1. Lifecycle(s)!PublishFirst(next.first)
    BY <1>2 DEF Lifecycle!PublishFirst, Lifecycle!PhaseAfter
  <2> QED BY <1>2, <2>1 DEF Lifecycle!LifecycleNext
<1>3. CASE /\ run.phase = "revising" /\ run.first # "none" /\ run.second = "none"
           /\ next.second \in Verdicts /\ next.first = run.first
           /\ next.phase = IF next.second = "reject" THEN "closed" ELSE "open"
  <2>1. Lifecycle(s)!PublishSecond(next.second)
    BY <1>3 DEF Lifecycle!PublishSecond, Lifecycle!PhaseAfter
  <2> QED BY <1>3, <2>1 DEF Lifecycle!LifecycleNext
<1> QED BY <1>1, <1>2, <1>3 DEF Follows

LEMMA RunsFollow ==
  ASSUME RunsInv, [Next]_vars, NEW s \in Sessions
  PROVE  server'[s] = server[s] \/ Follows(server[s], server'[s])
<1>1. ASSUME NEW r \in Sessions, NEW run, Follows(server[r], run),
             server' = [server EXCEPT ![r] = run]
      PROVE  server'[s] = server[s] \/ Follows(server[s], server'[s])
  <2>1. server'[s] = IF s = r THEN run ELSE server[s]
    BY <1>1 DEF RunsInv, TypeInv
  <2> QED BY <1>1, <2>1
<1>2. ASSUME NEW h \in Handlers, Click(h) PROVE server' = server
  BY <1>2, ClickStep DEF Sent
<1>3. ASSUME NEW h \in Handlers, Serve(h) \/ ServeError(h) \/ Disconnect(h)
      PROVE  server'[s] = server[s] \/ Follows(server[s], server'[s])
  <2>1. PICK answer, run : ServedAs(h, answer, run)
    BY <1>3, ServiceStep
  <2>2. task[h].session \in Sessions
    BY <2>1, Tasks DEF ServedAs
  <2> QED BY <1>1, <2>1, <2>2 DEF ServedAs, Answer, Run
<1>4. ASSUME NEW h \in Handlers, Receive(h) PROVE server' = server
  BY <1>4 DEF Receive
<1>5. ASSUME NEW r \in Sessions, EndJob(r)
      PROVE  server'[s] = server[s] \/ Follows(server[s], server'[s])
  <2>1. PICK run, answer : EndedAs(r, run, answer)
    BY <1>5, AnalysisEnds, RevisionEnds DEF EndJob
  <2> QED BY <1>1, <2>1 DEF EndedAs
<1>6. ASSUME UNCHANGED vars PROVE server' = server
  BY <1>6 DEF vars
<1> QED BY <1>2, <1>3, <1>4, <1>5, <1>6 DEF Next

\* Each Run behind the page is used as RunLifecycle says (the endpoints of
\* app.py that the page calls).
THEOREM PageUsesLifecycle == Spec => ServersFollowLifecycle
<1>1. ASSUME Init, NEW s \in Sessions PROVE Lifecycle(s)!LifecycleInit
  BY <1>1 DEF Init, NewRun, Lifecycle!LifecycleInit
<1>2. ASSUME RunsInv, [Next]_vars, NEW s \in Sessions
      PROVE  [Lifecycle(s)!LifecycleNext]_(Lifecycle(s)!lifecycleVars)
  <2>1. CASE server'[s] = server[s]
    BY <2>1 DEF Lifecycle!lifecycleVars
  <2>2. CASE Follows(server[s], server'[s])
    BY <1>2, <2>2, FollowingIsLifecycle
  <2> QED BY <1>2, <2>1, <2>2, RunsFollow
<1>3. Init => \A s \in Sessions : Lifecycle(s)!LifecycleInit
  BY <1>1
<1>4. RunsInv /\ [Next]_vars
        => [\A s \in Sessions :
              [Lifecycle(s)!LifecycleNext]_(Lifecycle(s)!lifecycleVars)]_server
  BY <1>2
<1> QED BY <1>3, <1>4, StudioInvariantHolds, PTL DEF Spec, ServersFollowLifecycle

-----------------------------------------------------------------------------
(* Only a late answer mixes two sessions.                                  *)

Current == {Undefined} \cup (IF ui.phase = "configure" THEN {} ELSE {session})

LEMMA PagesOf ==
  ASSUME NEW known, NEW kept, NEW p \in Pages(known)
  PROVE  (\A f \in DOMAIN p : p[f] \in kept) <=> p \in Pages(kept)
<1>1. /\ p = [feedbackKey |-> p.feedbackKey, retryKey |-> p.retryKey,
              revisionRequest |-> p.revisionRequest, versionOneUrl |-> p.versionOneUrl,
              versionTwoUrl |-> p.versionTwoUrl]
      /\ DOMAIN p = {"feedbackKey", "retryKey", "revisionRequest", "versionOneUrl",
                     "versionTwoUrl"}
  BY DEF Pages
<1>2. (\A f \in DOMAIN p : p[f] \in kept)
        <=> /\ p.feedbackKey \in kept /\ p.retryKey \in kept /\ p.revisionRequest \in kept
            /\ p.versionOneUrl \in kept /\ p.versionTwoUrl \in kept
  BY <1>1
<1> QED BY <1>1, <1>2 DEF Pages

LEMMA OneSession ==
  ASSUME TypeInv
  PROVE  SessionIsOne <=> (\A f \in Fields : ui.field[f] \in Current) /\ page \in Pages(Current)
<1>1. page \in Pages(0..session)
  BY DEF TypeInv
<1> QED BY <1>1, PagesOf DEF SessionIsOne, Current

\* A click adds nothing to the page but what is of its session.
LEMMA ClickKeepsSession ==
  ASSUME RunsInv, NEW h \in Handlers, Click(h), SessionIsOne
  PROVE  /\ \A f \in Fields : ui'.field[f] \in Current'
         /\ page' \in Pages(Current')
<1>1. /\ session \in Nat /\ ui \in States(0..session) /\ ui.field \in [Fields -> 0..session]
      /\ "run" \in Fields /\ "upload" \in Fields
  BY SessionsAssumption DEF RunsInv, TypeInv, States, Fields
<1>2. /\ \A f \in Fields : ui.field[f] \in Current
      /\ page \in Pages(Current)
  BY OneSession DEF RunsInv
<1>3. CASE StartRun(h)
  <2>1. Current = {Undefined} /\ ui' = [ui EXCEPT !.phase = "uploading"] /\ page' = page
    BY <1>3 DEF StartRun, Current
  <2>2. ui'.field = ui.field
    BY <1>1, <2>1 DEF States
  <2>3. Undefined \in Current'
    BY DEF Current
  <2> QED BY <1>2, <2>1, <2>2, <2>3 DEF Pages
<1>4. ASSUME session' = session, ui.phase # "configure", ui'.phase # "configure"
      PROVE  Current' = Current /\ Current = {Undefined, session}
  BY <1>4 DEF Current
<1>5. CASE SubmitBrandLock(h) \/ DownloadVersion(h)
  <2>1. UNCHANGED <<ui, page, session>>
    BY <1>5 DEF SubmitBrandLock, DownloadVersion
  <2> QED BY <1>2, <2>1 DEF Current
<1>6. CASE GenerateVersionOne(h) \/ DeleteSource(h)
  <2>1. PICK phase \in {"generating_draft", "deleting"} : ui' = [ui EXCEPT !.phase = phase]
    BY <1>6 DEF GenerateVersionOne, DeleteSource
  <2>2. UNCHANGED <<page, session>> /\ ui'.phase = phase /\ ui'.field = ui.field
    BY <1>1, <1>6, <2>1 DEF GenerateVersionOne, DeleteSource, States
  <2>3. ui.phase # "configure"
    <3>1. CASE GenerateVersionOne(h)
      BY <3>1 DEF GenerateVersionOne, CanGenerate
    <3>2. CASE DeleteSource(h)
      <4>1. ui.field["upload"] # Undefined
        BY <3>2 DEF DeleteSource, CanDelete, Defined
      <4> QED BY <1>1, <1>2, <4>1 DEF Current
    <3> QED BY <1>6, <3>1, <3>2
  <2> QED BY <1>2, <1>4, <2>2, <2>3
<1>7. CASE CreateVersionTwo(h) \/ RetryVersionTwo(h)
  <2>1. ui' = [ui EXCEPT !.phase = "submitting_revision", !.error = "none"]
    BY <1>7 DEF CreateVersionTwo, RetryVersionTwo
  <2>2. ui'.phase = "submitting_revision" /\ ui'.field = ui.field
    BY <1>1, <2>1 DEF States
  <2>3. session' = session /\ ui.phase # "configure"
    BY <1>7 DEF CreateVersionTwo, RetryVersionTwo, CanSubmitRevision, CanRetry
  <2>4. Current' = Current /\ session \in Current /\ ui.field["run"] \in Current
    BY <1>1, <1>2, <1>4, <2>2, <2>3
  <2>5. \A f \in {"feedbackKey", "retryKey"} : KeepOrDraw(page[f]) \in Current
    BY <1>2, <2>4 DEF KeepOrDraw, Pages
  <2>6. page' \in Pages(Current)
    <3>1. CASE CreateVersionTwo(h)
      <4>1. PICK a : a = KeepOrDraw(page.feedbackKey)
        OBVIOUS
      <4>2. page' = [page EXCEPT !.feedbackKey = a, !.revisionRequest = ui.field.run]
        BY <3>1, <4>1 DEF CreateVersionTwo
      <4> QED BY <1>2, <2>4, <2>5, <4>1, <4>2, PageKeys
    <3>2. CASE RetryVersionTwo(h)
      <4>1. PICK a : a = KeepOrDraw(page.retryKey)
        OBVIOUS
      <4>2. page' = [page EXCEPT !.retryKey = a]
        BY <3>2, <4>1 DEF RetryVersionTwo
      <4> QED BY <1>2, <2>4, <2>5, <4>1, <4>2, PageKeys
    <3> QED BY <1>7, <3>1, <3>2
  <2> QED BY <1>2, <2>2, <2>4, <2>6
<1> QED BY <1>3, <1>5, <1>6, <1>7 DEF Click

\* What the reducer stores is the session of the answer, and it opens the
\* first page again only after a deletion.
LEMMA ReducedStores ==
  ASSUME NEW known, NEW st \in States(known), NEW c, c.answer \in Answers, c.call \in Calls,
         c.session \in known, NEW n, n = Reduced(st, c)
  PROVE  \/ n = InitialState /\ Good(c) /\ c.call = "delete"
         \/ /\ n.phase = "configure" => st.phase = "configure"
            /\ \A f \in Fields : n.field[f] \in {st.field[f], c.session}
<1>1. st.field \in [Fields -> known]
  BY DEF States
<1>2. ASSUME NEW f \in Fields, Stored(st, n, f, c.session)
      PROVE  \A g \in Fields : n.field[g] \in {st.field[g], c.session}
  BY <1>1, <1>2 DEF Stored
<1>3. \A f \in {"critique", "revision", "confirmation", "upload", "run", "analysis", "draft",
                 "composition"} : f \in Fields
  BY DEF Fields
<1>4. CASE n = st
  BY <1>4
<1>5. CASE ~Good(c)
  <2>1. n = Failed(st, c.answer)
    BY <1>5, Reductions
  <2> QED BY <2>1, Failures
<1>6. CASE Good(c) /\ c.call \in Storing /\ n # st
  <2>1. n = Progressed(st, Progress[c.call], c.session)
    BY <1>6, Reductions
  <2>2. /\ n.phase # "configure"
        /\ \/ Stored(st, n, "upload", c.session) \/ Stored(st, n, "run", c.session)
           \/ Stored(st, n, "analysis", c.session) \/ Stored(st, n, "draft", c.session)
           \/ Stored(st, n, "composition", c.session)
    <3>1. PICK call \in Storing : call = c.call
      BY <1>6
    <3>2. n = Progressed(st, Progress[call], c.session)
      BY <2>1, <3>1
    <3>3. /\ n # st =>
               /\ call = "upload" => n.phase = "uploading" /\ Stored(st, n, "upload", c.session)
               /\ call = "create" => n.phase = "analyzing" /\ Stored(st, n, "run", c.session)
               /\ call = "analyze" =>
                    n.phase = "awaiting_brand_lock" /\ Stored(st, n, "analysis", c.session)
               /\ call = "draft" => n.phase = "composing" /\ Stored(st, n, "draft", c.session)
               /\ call = "composition" =>
                    n.phase = "reviewing" /\ Stored(st, n, "composition", c.session)
      BY <3>2, Progresses
    <3> QED BY <1>6, <3>3 DEF Storing
  <2> QED BY <1>2, <1>3, <2>2
<1>7. CASE Good(c) /\ c.call = "confirm" /\ n # st
  <2>1. n = Confirmed(st, c.session)
    BY <1>7, Reductions
  <2>2. n.phase = st.phase /\ Stored(st, n, "confirmation", c.session)
    BY <1>7, <2>1, Others
  <2> QED BY <1>2, <1>3, <2>2
<1>8. CASE Good(c) /\ c.call = "critic" /\ n # st
  <2>1. n = Reviewed(st, c.session, c.answer)
    BY <1>8, Reductions
  <2>2. n.phase # "configure" /\ Stored(st, n, "critique", c.session)
    BY <1>8, <2>1, Reviews
  <2> QED BY <1>2, <1>3, <2>2
<1>9. CASE Good(c) /\ c.call \in {"feedback", "retry"} /\ n # st
  <2>1. n = Revised(st, c.session)
    BY <1>9, Reductions
  <2>2. n.phase # "configure" /\ Stored(st, n, "revision", c.session)
    BY <1>9, <2>1, Others
  <2> QED BY <1>2, <1>3, <2>2
<1>10. CASE Good(c) /\ c.call = "delete" /\ n # st
  <2>1. n = InitialState
    BY <1>10, Reductions
  <2> QED BY <1>10, <2>1
<1>11. CASE Good(c) /\ c.call \in {"none", "export1", "export2"}
  BY <1>4, <1>11, Reductions
<1> QED BY <1>4, <1>5, <1>6, <1>7, <1>8, <1>9, <1>10, <1>11 DEF Calls, Storing

LEMMA AnswerKeepsSession ==
  ASSUME RunsInv, NEW h \in Handlers, Receive(h), ~Stale(h), SessionIsOne
  PROVE  /\ \A f \in Fields : ui'.field[f] \in Current'
         /\ page' \in Pages(Current')
<1> DEFINE c == task[h]
<1>1. /\ c.answer \in Answers /\ ui' = Reduced(ui, c) /\ page' = Kept(c) /\ session' = session
      /\ c.session = session /\ ui.phase # "configure"
  BY DEF Receive, Stale
<1>2. /\ \A f \in Fields : ui.field[f] \in Current
      /\ page \in Pages(Current)
  BY OneSession DEF RunsInv
<1>3. Current = {Undefined, session} /\ Undefined = 0
  BY <1>1 DEF Current, Undefined
<1>4. /\ ui \in States(0..session) /\ c.call \in Calls /\ c.session \in 0..session
  BY DEF RunsInv, TypeInv
<1> HIDE DEF c
<1>5. Kept(c) \in Pages(Current)
  BY <1>1, <1>2, <1>3, KeptPages
<1>6. CASE ui' = InitialState /\ Good(c) /\ c.call = "delete"
  <2>1. Current' = {Undefined}
    BY <1>6 DEF Current, InitialState
  <2>2. page' = InitialPage
    BY <1>1, <1>6, Zenon DEF Kept
  <2>3. InitialPage \in Pages({Undefined})
    BY DEF InitialPage, Pages
  <2>4. \A f \in Fields : ui'.field[f] = Undefined
    BY <1>6 DEF InitialState
  <2> QED BY <2>1, <2>2, <2>3, <2>4
<1>7. CASE /\ ui'.phase # "configure"
           /\ \A f \in Fields : ui'.field[f] \in {ui.field[f], c.session}
  <2>1. Current' = Current
    BY <1>1, <1>7 DEF Current
  <2> QED BY <1>1, <1>2, <1>3, <1>5, <1>7, <2>1
<1> QED BY <1>1, <1>4, <1>6, <1>7, ReducedStores

\* The page mixes two sessions only by an answer to a request that was out when
\* the source was deleted (deleteSource, and the awaits of the handlers).
THEOREM SessionsMixLate == Spec => OnlyLateAnswersMixSessions
<1>1. ASSUME RunsInv, [Next]_vars, RunsInv', SessionIsOne, ~SessionIsOne'
      PROVE  \E h \in Handlers : Stale(h) /\ Receive(h)
  <2>1. ASSUME UNCHANGED <<ui, page, session>> PROVE FALSE
    BY <1>1, <2>1 DEF SessionIsOne
  <2>2. ~((\A f \in Fields : ui'.field[f] \in Current') /\ page' \in Pages(Current'))
    <3>1. page' \in Pages(0..session')
      BY <1>1 DEF RunsInv, TypeInv
    <3> QED BY <1>1, <3>1, PagesOf DEF SessionIsOne, Current
  <2>3. ASSUME NEW h \in Handlers, Click(h) PROVE FALSE
    BY <1>1, <2>2, <2>3, ClickKeepsSession
  <2>4. ASSUME NEW h \in Handlers, Serve(h) \/ ServeError(h) \/ Disconnect(h) PROVE FALSE
    BY <1>1, <2>1, <2>4, ServiceStep DEF ServedAs, Answer
  <2>5. ASSUME NEW h \in Handlers, Receive(h) PROVE Stale(h)
    BY <1>1, <2>2, <2>5, AnswerKeepsSession
  <2>6. ASSUME NEW s \in Sessions, EndJob(s) PROVE FALSE
    BY <1>1, <2>1, <2>6, AnalysisEnds, RevisionEnds DEF EndJob, EndedAs
  <2>7. ~UNCHANGED vars
    BY <2>1 DEF vars
  <2> QED BY <1>1, <2>3, <2>4, <2>5, <2>6, <2>7 DEF Next
<1>2. RunsInv /\ RunsInv' /\ [Next]_vars
        => [SessionIsOne /\ ~SessionIsOne' => \E h \in Handlers : Stale(h) /\ Receive(h)]_vars
  BY <1>1
<1> QED BY <1>2, StudioInvariantHolds, PTL DEF Spec, OnlyLateAnswersMixSessions

-----------------------------------------------------------------------------
(* The second invariant is kept: it holds before the first session, and    *)
(* the first click opens it.                                               *)

LEMMA FirstInit == Init => FirstSessionInv
  BY DEF Init, FirstSessionInv, Untouched, InitialState, Idle

\* Before the first session there is nothing but the button that starts it.
LEMMA FirstClick ==
  ASSUME RunsInv, session = 0, Untouched, [Next]_vars
  PROVE  FirstSessionInv'
<1>1. /\ \A h \in Handlers : task[h] = Idle
      /\ \A s \in Sessions : server[s] = NewRun /\ forms[s] = "ready"
      /\ ui = InitialState /\ session = 0 /\ 1 \in Sessions
      /\ ui.phase = "configure" /\ ui.error = "none" /\ \A f \in Fields : ~Defined(ui, f)
      /\ ui \in States(0..session)
  BY SessionsAssumption DEF Untouched, Sessions, InitialState, Defined, RunsInv, TypeInv
<1>2. ASSUME NEW h \in Handlers, Serve(h) \/ ServeError(h) \/ Disconnect(h) PROVE FALSE
  BY <1>1, <1>2, ServiceStep DEF ServedAs
<1>3. ASSUME NEW h \in Handlers, Receive(h) PROVE FALSE
  BY <1>1, <1>3 DEF Receive, Idle, Answers
<1>4. ASSUME NEW s \in Sessions, EndJob(s) PROVE FALSE
  BY <1>1, <1>4 DEF EndJob, EndAnalysis, EndRevision, NewRun
<1>5. ASSUME NEW h \in Handlers, Click(h) PROVE StartRun(h)
  <2>1. "run" \in Fields /\ "upload" \in Fields /\ "confirmation" \in Fields
    BY DEF Fields
  <2> QED BY <1>1, <1>5, <2>1
      DEF Click, SubmitBrandLock, GenerateVersionOne, CanGenerate, CreateVersionTwo,
          CanSubmitRevision, RetryVersionTwo, CanRetry, DownloadVersion, DeleteSource, CanDelete
<1>6. ASSUME NEW h \in Handlers, StartRun(h) PROVE FirstSessionInv'
  <2>1. PICK t : t = [by |-> "start", session |-> 1, call |-> "upload", answer |-> "sent"]
    OBVIOUS
  <2>2. /\ session' = 1 /\ task' = [task EXCEPT ![h] = t] /\ UNCHANGED <<server, forms>>
        /\ ui' = [ui EXCEPT !.phase = "uploading"]
    BY <1>1, <1>6, <2>1 DEF StartRun, Send
  <2>3. ui'.phase = "uploading" /\ ui'.field = ui.field
    BY <1>1, <2>2 DEF States
  <2>4. \A f \in Fields : ~Defined(ui, f)'
    BY <1>1, <2>3 DEF Defined
  <2>5. /\ forms'[1] = "ready" /\ server'[1] = NewRun
    BY <1>1, <2>2
  <2>6. FirstPageInv'
    BY <2>3, <2>4, <2>5 DEF FirstPageInv, NewRun, Fields, BeforeConfirmed, BeforeRevision, RetryTaken
  <2>7. \A g \in Handlers : task'[g] = IF g = h THEN t ELSE Idle
    BY <1>1, <2>2 DEF RunsInv, TypeInv
  <2>8. OneAtATime'
    BY <2>7 DEF OneAtATime, Alone, Changing, Idle
  <2>9. ASSUME NEW g \in Handlers PROVE FirstTaskInv(task[g])'
    <3>1. "analysis" \in Fields
      BY DEF Fields
    <3> QED BY <2>1, <2>3, <2>4, <2>7, <3>1 DEF FirstTaskInv, OutIn, Idle
  <2> QED BY <2>2, <2>6, <2>8, <2>9 DEF FirstSessionInv
<1>7. ASSUME UNCHANGED vars PROVE FirstSessionInv'
  BY <1>1, <1>7 DEF vars, FirstSessionInv, Untouched
<1> QED BY <1>2, <1>3, <1>4, <1>5, <1>6, <1>7 DEF Next

InFirst == session = 1 /\ FirstPageInv /\ OneAtATime /\ \A h \in Handlers : FirstTaskInv(task[h])

\* Every request of the first session is about its Run.
LEMMA FirstTasks ==
  ASSUME RunsInv, session = 1, NEW h \in Handlers, task[h] # Idle
  PROVE  task[h].session = 1 /\ Run(h) = server[1] /\ 1 \in Sessions
  BY Tasks DEF Run

LEMMA FirstServed ==
  ASSUME RunsInv, InFirst, NEW h \in Handlers, NEW answer, NEW run, ServedAs(h, answer, run)
  PROVE  FirstSessionInv'
<1>1. /\ session = 1 /\ FirstPageInv /\ OneAtATime /\ FirstTaskInv(task[h])
      /\ task[h].session = 1 /\ Run(h) = server[1] /\ 1 \in Sessions
  BY FirstTasks DEF InFirst, ServedAs
<1>2. /\ UNCHANGED <<ui, page, forms, session>>
      /\ task' = [task EXCEPT ![h].answer = answer] /\ server'[1] = run
  BY <1>1 DEF ServedAs, Answer, RunsInv, TypeInv
<1>3. PICK t : t = [task[h] EXCEPT !.answer = answer]
  OBVIOUS
<1>4. \A g \in Handlers : task'[g] = IF g = h THEN t ELSE task[g]
  BY <1>2, <1>3 DEF RunsInv, TypeInv
<1>5. t.call = task[h].call /\ t.answer = answer
  BY <1>3 DEF RunsInv, TypeInv
<1>6. /\ run.second = server[1].second /\ run.misreported = server[1].misreported
      /\ run.phase \in {"revising", "retryable"} =>
           server[1].phase \in {"revising", "retryable"} \/ task[h].call = "feedback"
      /\ server[1].phase = "retryable" => run.phase = "retryable" \/ task[h].call = "retry"
      /\ answer # "revision_failed" /\ answer # "sent"
      /\ answer = "conflict" =>
           /\ task[h].call = "feedback" /\ task[h].answer = "sent"
           /\ server[1].second # "none" \/ server[1].phase = "revising"
  BY <1>1 DEF ServedAs, Answers
<1>7. FirstPageInv'
  <2>1. task[h].call \in {"feedback", "retry"}
          => ui.phase \notin BeforeRevision \cup {"retryable_failure"}
    BY <1>1 DEF FirstTaskInv, OutIn, Left, BeforeRevision
  <2>2. ui.phase \in BeforeRevision =>
          run.second = "none" /\ run.phase \notin {"revising", "retryable"}
    BY <1>1, <1>6, <2>1 DEF FirstPageInv
  <2>3. ui.phase = "retryable_failure" => run.misreported \/ run.phase = "retryable"
    BY <1>1, <1>6, <2>1 DEF FirstPageInv, RetryTaken
  <2> QED BY <1>1, <1>2, <2>2, <2>3 DEF FirstPageInv, RetryTaken, Defined
<1>8. OneAtATime'
  BY <1>1, <1>4, <1>5 DEF OneAtATime
<1>9. FirstTaskInv(task[h])'
  <2>1. answer # "conflict"
    BY <1>1, <1>6 DEF FirstTaskInv
  <2> QED BY <1>1, <1>2, <1>4, <1>5, <1>6, <2>1 DEF FirstTaskInv, Defined
<1>10. ASSUME NEW g \in Handlers, g # h PROVE FirstTaskInv(task[g])'
  <2>1. FirstTaskInv(task[g]) /\ task'[g] = task[g]
    BY <1>4, <1>10 DEF InFirst
  <2>2. task[g].call = "feedback" => task[h].call \notin {"feedback", "retry"}
    BY <1>1, <1>10 DEF OneAtATime, Alone, Changing
  <2>3. task[g].call = "feedback" /\ task[g].answer = "sent" =>
          run.second = "none" /\ run.phase \notin {"revising", "retryable"}
    BY <1>6, <2>1, <2>2 DEF FirstTaskInv
  <2>4. task[g].answer = "revision_failed" => run.misreported \/ run.phase = "retryable"
    BY <1>6, <2>1, <2>2 DEF FirstTaskInv, RetryTaken
  <2> QED BY <1>2, <2>1, <2>3, <2>4 DEF FirstTaskInv, RetryTaken, Defined
<1> QED BY <1>1, <1>2, <1>7, <1>8, <1>9, <1>10 DEF FirstSessionInv

LEMMA FirstEnded ==
  ASSUME RunsInv, InFirst, NEW s \in Sessions, NEW answer, NEW run, EndedAs(s, run, answer)
  PROVE  FirstSessionInv'
<1>1. /\ session = 1 /\ FirstPageInv /\ OneAtATime /\ 1 \in Sessions
      /\ UNCHANGED <<ui, page, forms, session>>
      /\ server' = [server EXCEPT ![s] = run] /\ RunInv(server[s])
  BY SessionsAssumption DEF InFirst, EndedAs, Sessions, RunsInv
<1>2. ASSUME NEW g \in Handlers
      PROVE  /\ task'[g].call = task[g].call
             /\ \/ task'[g] = task[g]
                \/ task[g].session = s /\ task[g].answer = "working" /\ task'[g].answer = answer
  <2>1. task'[g] = IF task[g].session = s /\ task[g].answer = "working"
                     THEN [task[g] EXCEPT !.answer = answer] ELSE task[g]
    BY DEF EndedAs
  <2> QED BY <2>1 DEF RunsInv, TypeInv
<1>3. OneAtATime'
  BY <1>1, <1>2 DEF OneAtATime
<1>4. CASE s # 1
  <2>1. server'[1] = server[1]
    BY <1>1, <1>4
  <2>2. ASSUME NEW g \in Handlers PROVE task'[g] = task[g]
    BY <1>1, <1>2, <1>4, <2>2, FirstTasks DEF Idle
  <2>3. FirstPageInv'
    BY <1>1, <2>1 DEF FirstPageInv, RetryTaken, Defined
  <2>4. ASSUME NEW g \in Handlers PROVE FirstTaskInv(task[g])'
    BY <1>1, <2>1, <2>2 DEF InFirst, FirstTaskInv, RetryTaken, Defined
  <2> QED BY <1>1, <1>3, <2>3, <2>4 DEF FirstSessionInv
<1>5. CASE s = 1
  <2>1. /\ server'[1] = run /\ server[1].job \in {"analyze", "feedback", "retry"}
    BY <1>1, <1>5 DEF EndedAs, RunsInv, TypeInv, Runs
  <2>2. /\ answer # "conflict" /\ answer # "sent"
        /\ server[1].phase # "retryable"
        /\ server[1].misreported => run.misreported
        /\ answer = "revision_failed" =>
             server[1].job = "feedback" /\ (run.misreported \/ run.phase = "retryable")
        /\ server[1].phase # "revising" =>
             run.second = server[1].second /\ run.phase \notin {"revising", "retryable"}
    <3>1. server[1].misreported => run.misreported
      BY <1>5 DEF EndedAs
    <3>2. server[1].phase # "retryable" /\ (server[1].phase # "revising" => server[1].job = "analyze")
      BY <1>1, <1>5, <2>1 DEF RunInv
    <3> QED BY <1>5, <3>1, <3>2 DEF EndedAs, Answers
  <2>3. FirstPageInv'
    <3>1. ui.phase \in BeforeRevision =>
            run.second = "none" /\ run.phase \notin {"revising", "retryable"}
      BY <1>1, <2>2 DEF FirstPageInv
    <3>2. ui.phase = "retryable_failure" => run.misreported \/ run.phase = "retryable"
      BY <1>1, <2>2 DEF FirstPageInv, RetryTaken
    <3> QED BY <1>1, <2>1, <3>1, <3>2 DEF FirstPageInv, RetryTaken, Defined
  <2>4. ASSUME NEW g \in Handlers PROVE FirstTaskInv(task[g])'
    <3>1. FirstTaskInv(task[g]) /\ TaskInv(task[g])
      BY DEF InFirst, RunsInv
    <3>2. CASE task'[g] = task[g]
      <4>1. task[g].call = "feedback" /\ task[g].answer = "sent" =>
              run.second = "none" /\ run.phase \notin {"revising", "retryable"}
        BY <2>2, <3>1 DEF FirstTaskInv
      <4>2. task[g].answer = "revision_failed" => run.misreported \/ run.phase = "retryable"
        BY <2>2, <3>1 DEF FirstTaskInv, RetryTaken
      <4> QED BY <1>1, <2>1, <3>1, <3>2, <4>1, <4>2 DEF FirstTaskInv, RetryTaken, Defined
    <3>3. CASE task[g].session = s /\ task[g].answer = "working" /\ task'[g].answer = answer
      <4>1. server[1].job = task[g].call
        BY <1>5, <3>1, <3>3 DEF TaskInv, Idle
      <4> QED BY <1>1, <1>2, <2>1, <2>2, <3>1, <3>3, <4>1 DEF FirstTaskInv, RetryTaken, Defined
    <3> QED BY <1>2, <3>2, <3>3
  <2> QED BY <1>1, <1>3, <2>3, <2>4 DEF FirstSessionInv
<1> QED BY <1>4, <1>5

\* What a click leaves as it was, and the request it sends.
Clicked(h, call, opened) ==
  /\ session' = 1 /\ server' = server
  /\ ui'.phase = opened /\ ui'.field = ui.field
  /\ task[h] = Idle /\ task'[h].call = call /\ task'[h].answer = "sent"
  /\ \A g \in Handlers : g # h => task'[g] = task[g]

LEMMA FirstClicked ==
  ASSUME RunsInv, InFirst, NEW h \in Handlers, Click(h), ~StartRun(h)
  PROVE  \/ /\ Clicked(h, "confirm", ui.phase) /\ forms' = [forms EXCEPT ![1] = "pending"]
            /\ Defined(ui, "analysis") /\ forms[1] = "ready"
         \/ /\ Clicked(h, "draft", "generating_draft") /\ forms' = forms
            /\ ui.phase = "awaiting_brand_lock" /\ Defined(ui, "confirmation")
         \/ /\ Clicked(h, "feedback", "submitting_revision") /\ forms' = forms
            /\ ui.phase = "ready_v1"
         \/ /\ Clicked(h, "retry", "submitting_revision") /\ forms' = forms
            /\ ui.phase = "retryable_failure"
         \/ \E call \in {"export1", "export2"} :
              /\ Clicked(h, call, ui.phase) /\ forms' = forms
              /\ ui.phase \in {"ready_v1", "ready_v2"}
         \/ /\ Clicked(h, "delete", "deleting") /\ forms' = forms
            /\ Defined(ui, "upload") /\ ui.phase \notin {"uploading", "deleting"}
<1>1. ui \in States(0..session) /\ session = 1
  BY DEF RunsInv, TypeInv, InFirst
<1>2. Defined(ui, "run") => ui.field.run = 1
  BY <1>1 DEF Defined, Undefined, States, Fields
<1>3. ASSUME NEW by, NEW s, NEW call, Send(h, by, s, call), session' = session,
             NEW opened, ui'.phase = opened, ui'.field = ui.field
      PROVE  Clicked(h, call, opened)
  <2>1. PICK t : t = [by |-> by, session |-> s, call |-> call, answer |-> "sent"]
    OBVIOUS
  <2>2. \A g \in Handlers : task'[g] = IF g = h THEN t ELSE task[g]
    BY <1>3, <2>1 DEF Send, RunsInv, TypeInv
  <2>3. t.call = call /\ t.answer = "sent"
    BY <2>1
  <2> QED BY <1>1, <1>3, <2>2, <2>3 DEF Clicked, Send
<1>4. CASE SubmitBrandLock(h)
  BY <1>1, <1>2, <1>3, <1>4 DEF SubmitBrandLock
<1>5. ASSUME NEW phase, ui' = [ui EXCEPT !.phase = phase] \/
                        ui' = [ui EXCEPT !.phase = phase, !.error = "none"]
      PROVE  ui'.phase = phase /\ ui'.field = ui.field
  BY <1>1, <1>5 DEF States
<1>6. CASE GenerateVersionOne(h)
  BY <1>3, <1>5, <1>6 DEF GenerateVersionOne, CanGenerate
<1>7. CASE CreateVersionTwo(h)
  BY <1>3, <1>5, <1>7 DEF CreateVersionTwo, CanSubmitRevision
<1>8. CASE RetryVersionTwo(h)
  BY <1>3, <1>5, <1>8 DEF RetryVersionTwo, CanRetry
<1>9. CASE DownloadVersion(h)
  BY <1>3, <1>9 DEF DownloadVersion
<1>10. CASE DeleteSource(h)
  BY <1>3, <1>5, <1>10 DEF DeleteSource, CanDelete
<1> QED BY <1>4, <1>6, <1>7, <1>8, <1>9, <1>10 DEF Click

\* The request clicked for is the only one that may change the Run.
LEMMA FirstClickKeeps ==
  ASSUME RunsInv, InFirst, NEW h \in Handlers, Click(h), ~StartRun(h)
  PROVE  FirstSessionInv'
<1>1. FirstPageInv /\ OneAtATime /\ \A g \in Handlers : FirstTaskInv(task[g])
  BY DEF InFirst
<1>2. forms[1] \in {"ready", "pending", "confirmed"} /\ 1 \in Sessions
      /\ forms \in [Sessions -> {"ready", "pending", "confirmed"}]
  BY SessionsAssumption DEF RunsInv, TypeInv, InFirst, Sessions
<1>3. \A f \in {"upload", "run", "analysis", "confirmation", "draft", "composition"} : f \in Fields
  BY DEF Fields
<1>4. ASSUME NEW call, NEW opened, Clicked(h, call, opened)
      PROVE  /\ \A f \in Fields : Defined(ui, f)' <=> Defined(ui, f)
             /\ RetryTaken' <=> RetryTaken
             /\ session' = 1 /\ server'[1] = server[1] /\ ui'.phase = opened
             /\ \A g \in Handlers : g # h => task'[g] = task[g]
             /\ task'[h].call = call /\ task'[h].answer = "sent"
             /\ (call \in Alone => \A g \in Handlers : task[g].call \notin Alone) => OneAtATime'
  <2>1. (call \in Alone => \A g \in Handlers : task[g].call \notin Alone) => OneAtATime'
    BY <1>1, <1>4 DEF Clicked, OneAtATime
  <2> QED BY <1>4, <2>1 DEF Clicked, Defined, RetryTaken
<1>5. CASE /\ Clicked(h, "confirm", ui.phase) /\ forms' = [forms EXCEPT ![1] = "pending"]
           /\ Defined(ui, "analysis") /\ forms[1] = "ready"
  <2>1. \A g \in Handlers : task[g].call \notin Alone
    BY <1>1, <1>5 DEF FirstTaskInv, Alone, Changing
  <2>2. OneAtATime'
    BY <1>4, <1>5, <2>1
  <2>3. forms'[1] = "pending"
    BY <1>2, <1>5
  <2>4. FirstPageInv'
    BY <1>1, <1>3, <1>4, <1>5, <2>3 DEF FirstPageInv
  <2>5. FirstTaskInv(task[h])'
    BY <1>1, <1>3, <1>4, <1>5, <2>3 DEF FirstPageInv, FirstTaskInv, OutIn, Left, BeforeConfirmed
  <2>6. ASSUME NEW g \in Handlers, g # h PROVE FirstTaskInv(task[g])'
    <3>1. FirstTaskInv(task[g]) /\ task'[g] = task[g] /\ task[g].call \notin Alone
      BY <1>1, <1>4, <1>5, <2>1, <2>6
    <3> QED BY <1>3, <1>4, <1>5, <3>1 DEF FirstTaskInv, Alone, Changing
  <2> QED BY <1>4, <1>5, <2>2, <2>4, <2>5, <2>6 DEF FirstSessionInv
<1>6. CASE /\ Clicked(h, "draft", "generating_draft") /\ forms' = forms
           /\ ui.phase = "awaiting_brand_lock" /\ Defined(ui, "confirmation")
  <2>1. forms[1] = "confirmed"
    BY <1>1, <1>6 DEF FirstPageInv
  <2>2. \A g \in Handlers : task[g].call \notin Alone
                            /\ task[g].call \notin {"export1", "export2", "delete"}
    BY <1>1, <1>6, <2>1 DEF FirstTaskInv, OutIn, Left, Alone, Changing
  <2>3. OneAtATime'
    BY <1>4, <1>6, <2>2
  <2>4. FirstPageInv'
    BY <1>1, <1>3, <1>4, <1>6, <2>1 DEF FirstPageInv, BeforeRevision
  <2>5. FirstTaskInv(task[h])'
    BY <1>4, <1>6, <2>1 DEF FirstTaskInv, OutIn
  <2>6. ASSUME NEW g \in Handlers, g # h PROVE FirstTaskInv(task[g])'
    <3>1. /\ FirstTaskInv(task[g]) /\ task'[g] = task[g]
          /\ task[g].call \notin Alone \cup {"export1", "export2", "delete"}
      BY <1>1, <1>4, <1>6, <2>2, <2>6
    <3> QED BY <3>1 DEF FirstTaskInv, OutIn, Alone, Changing
  <2> QED BY <1>4, <1>6, <2>3, <2>4, <2>5, <2>6 DEF FirstSessionInv
<1>7. ASSUME NEW call \in {"feedback", "retry"}, Clicked(h, call, "submitting_revision"),
             forms' = forms, call = "feedback" => ui.phase = "ready_v1",
             ui.phase \in {"ready_v1", "retryable_failure"}
      PROVE  FirstSessionInv'
  <2>1. forms[1] = "confirmed"
    BY <1>1, <1>7 DEF FirstPageInv, BeforeConfirmed, Left
  <2>2. \A g \in Handlers : task[g].call \notin Alone /\ task[g].call # "delete"
    BY <1>1, <1>7 DEF FirstTaskInv, OutIn, Left, Alone, Changing
  <2>3. OneAtATime'
    BY <1>4, <1>7, <2>2
  <2>4. FirstPageInv'
    BY <1>1, <1>3, <1>4, <1>7, <2>1 DEF FirstPageInv, BeforeRevision
  <2>5. FirstTaskInv(task[h])'
    BY <1>1, <1>4, <1>7, <2>1 DEF FirstTaskInv, FirstPageInv, OutIn, BeforeRevision
  <2>6. ASSUME NEW g \in Handlers, g # h PROVE FirstTaskInv(task[g])'
    <3>1. /\ FirstTaskInv(task[g]) /\ task'[g] = task[g]
          /\ task[g].call \notin Alone \cup {"delete"}
      BY <1>1, <1>4, <1>7, <2>2, <2>6
    <3> QED BY <1>4, <1>7, <3>1 DEF FirstTaskInv, OutIn, Alone, Changing
  <2> QED BY <1>4, <1>7, <2>3, <2>4, <2>5, <2>6 DEF FirstSessionInv
<1>8. ASSUME NEW call \in {"export1", "export2"}, Clicked(h, call, ui.phase), forms' = forms,
             ui.phase \in {"ready_v1", "ready_v2"}
      PROVE  FirstSessionInv'
  <2>1. OneAtATime'
    BY <1>4, <1>8 DEF Alone, Changing
  <2>2. FirstPageInv'
    BY <1>1, <1>3, <1>4, <1>8 DEF FirstPageInv
  <2>3. FirstTaskInv(task[h])'
    BY <1>4, <1>8 DEF FirstTaskInv, OutIn
  <2>4. ASSUME NEW g \in Handlers, g # h PROVE FirstTaskInv(task[g])'
    BY <1>1, <1>3, <1>4, <1>8, <2>4 DEF FirstTaskInv
  <2> QED BY <1>4, <1>8, <2>1, <2>2, <2>3, <2>4 DEF FirstSessionInv
<1>9. CASE /\ Clicked(h, "delete", "deleting") /\ forms' = forms
           /\ Defined(ui, "upload") /\ ui.phase \notin {"uploading", "deleting"}
  <2>1. ui.phase # "configure"
    BY <1>1, <1>3, <1>9 DEF FirstPageInv
  <2>2. OneAtATime'
    BY <1>4, <1>9 DEF Alone, Changing
  <2>3. FirstPageInv'
    BY <1>1, <1>3, <1>4, <1>9, <2>1 DEF FirstPageInv, BeforeConfirmed, BeforeRevision, Left
  <2>4. FirstTaskInv(task[h])'
    BY <1>4, <1>9 DEF FirstTaskInv, OutIn, Left
  <2>5. ASSUME NEW g \in Handlers, g # h PROVE FirstTaskInv(task[g])'
    <3>1. /\ FirstTaskInv(task[g]) /\ task'[g] = task[g]
          /\ task[g].call \notin {"upload", "create"}
      BY <1>1, <1>4, <1>9, <2>5 DEF FirstTaskInv, OutIn
    <3> QED BY <1>3, <1>4, <1>9, <2>1, <3>1 DEF FirstTaskInv, OutIn, Left
  <2> QED BY <1>4, <1>9, <2>2, <2>3, <2>4, <2>5 DEF FirstSessionInv
<1> QED BY <1>5, <1>6, <1>7, <1>8, <1>9, FirstClicked

\* What an answer of the first session does to the page: a failure moves it on,
\* unless it has been left; an answer that comes in time is stored and opens the
\* next phase; a deletion opens the first page; any other leaves it.
FailedIn(c) ==
  /\ ui'.field = ui.field
  /\ IF ui.phase \in Left THEN ui'.phase = ui.phase
     ELSE ui'.phase = IF c.answer = "revision_failed" THEN "retryable_failure" ELSE "final_failure"

Opens(from, field, to) ==
  /\ ui.phase = from /\ ui'.phase = to
  /\ ui'.field[field] = 1
  /\ \A f \in Fields \ {field} : ui'.field[f] = ui.field[f]

StaysIn(phases) == ui.phase \in phases /\ ui'.phase = ui.phase /\ ui'.field = ui.field

Turned(c) ==
  \/ ~Good(c) /\ FailedIn(c)
  \/ /\ Good(c) /\ c.call = "upload" /\ Opens("uploading", "upload", "uploading")
  \/ /\ Good(c) /\ c.call = "create" /\ Opens("uploading", "run", "analyzing")
  \/ /\ Good(c) /\ c.call = "analyze"
     /\ \/ Opens("analyzing", "analysis", "awaiting_brand_lock") /\ Defined(ui, "run")
        \/ StaysIn({"analyzing"} \cup Left)
  \/ /\ Good(c) /\ c.call = "confirm"
     /\ \/ Opens("awaiting_brand_lock", "confirmation", "awaiting_brand_lock")
        \/ StaysIn(Phases)
  \/ /\ Good(c) /\ c.call = "draft"
     /\ Opens("generating_draft", "draft", "composing") \/ StaysIn(Left)
  \/ /\ Good(c) /\ c.call = "composition"
     /\ Opens("composing", "composition", "reviewing") \/ StaysIn(Left)
  \/ /\ Good(c) /\ c.call = "critic"
     /\ \/ Opens("reviewing", "critique", IF c.answer = "ok" THEN "ready_v1" ELSE "final_failure")
        \/ StaysIn(Left)
  \/ /\ Good(c) /\ c.call \in {"feedback", "retry"}
     /\ \/ Opens("submitting_revision", "revision", "ready_v2")
        \/ StaysIn({"final_failure"} \cup Left)
  \/ /\ Good(c) /\ c.call = "delete"
     /\ StaysIn(Left) \/ (ui.phase = "deleting" /\ ui' = InitialState)
  \/ /\ Good(c) /\ c.call \in {"export1", "export2"} /\ StaysIn(Phases)

LEMMA FirstTurn ==
  ASSUME RunsInv, InFirst, NEW h \in Handlers, Receive(h)
  PROVE  Turned(task[h])
<1> DEFINE c == task[h]
<1>1. c \in TaskType(0..1) /\ ui \in States(0..1) /\ ui.field \in [Fields -> 0..1] /\ session = 1
  BY DEF RunsInv, TypeInv, InFirst, TaskType, States
<1>2. /\ c # Idle /\ c.answer \in Answers /\ ui' = Reduced(ui, c)
  BY DEF Receive, Idle, Answers
<1>3. c.session = 1 /\ c.call \in Calls \ {"none"}
  BY <1>1, <1>2, Tasks, FirstTasks
<1>4. FirstPageInv /\ FirstTaskInv(c)
  BY DEF InFirst
<1>5. \A f \in {"upload", "run", "analysis", "confirmation", "draft", "composition", "critique",
                 "revision"} : f \in Fields
  BY DEF Fields
<1> HIDE DEF c
<1>6. ASSUME NEW f \in Fields, Stored(ui, ui', f, 1)
      PROVE  ui'.field[f] = 1 /\ \A g \in Fields \ {f} : ui'.field[g] = ui.field[g]
  BY <1>1, <1>6 DEF Stored
<1>7. CASE ~Good(c)
  <2>1. ui' = Failed(ui, c.answer)
    BY <1>2, <1>7, Reductions
  <2>2. c.answer # "conflict"
    BY <1>4 DEF FirstTaskInv
  <2>3. FailedIn(c)
    BY <1>1, <2>1, <2>2, Failures DEF FailedIn, Left
  <2> QED BY <1>7, <2>3 DEF Turned, c
<1>8. CASE Good(c) /\ c.call \in Storing
  <2>1. ui' = Progressed(ui, Progress[c.call], 1)
    BY <1>2, <1>3, <1>8, Reductions
  <2>2. 1 \in 0..1
    OBVIOUS
  <2>3. CASE ui' # ui
    <3>1. /\ c.call = "upload" =>
               ui.phase = "uploading" /\ ui'.phase = "uploading" /\ Stored(ui, ui', "upload", 1)
          /\ c.call = "create" =>
               ui.phase = "uploading" /\ ui'.phase = "analyzing" /\ Stored(ui, ui', "run", 1)
          /\ c.call = "analyze" =>
               /\ ui.phase = "analyzing" /\ ui'.phase = "awaiting_brand_lock"
               /\ Stored(ui, ui', "analysis", 1) /\ Defined(ui, "run")
          /\ c.call = "draft" =>
               /\ ui.phase = "generating_draft" /\ ui'.phase = "composing"
               /\ Stored(ui, ui', "draft", 1)
          /\ c.call = "composition" =>
               /\ ui.phase = "composing" /\ ui'.phase = "reviewing"
               /\ Stored(ui, ui', "composition", 1)
      BY <1>1, <1>8, <2>1, <2>2, <2>3, Progresses
    <3>2. /\ c.call = "upload" => Opens("uploading", "upload", "uploading")
          /\ c.call = "create" => Opens("uploading", "run", "analyzing")
          /\ c.call = "analyze" =>
               Opens("analyzing", "analysis", "awaiting_brand_lock") /\ Defined(ui, "run")
          /\ c.call = "draft" => Opens("generating_draft", "draft", "composing")
          /\ c.call = "composition" => Opens("composing", "composition", "reviewing")
      BY <1>5, <1>6, <3>1 DEF Opens
    <3> QED BY <1>8, <3>2 DEF Turned, Storing, c
  <2>4. CASE ui' = ui
    <3>1. /\ c.call = "upload" => ui.phase # "uploading" \/ ui.field.upload = 1
          /\ c.call = "create" => ui.phase # "uploading" \/ ~Defined(ui, "upload")
          /\ c.call = "draft" => ui.phase # "generating_draft"
          /\ c.call = "composition" => ui.phase # "composing" \/ ~Defined(ui, "draft")
      BY <1>1, <1>8, <2>1, <2>2, <2>4, Progresses
    <3>2. c.call = "upload" => Opens("uploading", "upload", "uploading")
      BY <1>4, <2>4, <3>1 DEF FirstTaskInv, OutIn, Opens
    <3>3. c.call # "create"
      BY <1>4, <3>1 DEF FirstTaskInv, OutIn
    <3>4. c.call = "analyze" => StaysIn({"analyzing"} \cup Left)
      BY <1>4, <2>4 DEF FirstTaskInv, OutIn, StaysIn
    <3>5. c.call \in {"draft", "composition"} => StaysIn(Left)
      BY <1>4, <2>4, <3>1 DEF FirstTaskInv, FirstPageInv, OutIn, StaysIn
    <3> QED BY <1>8, <3>2, <3>3, <3>4, <3>5 DEF Turned, Storing, c
  <2> QED BY <2>3, <2>4
<1>9. CASE Good(c) /\ c.call = "confirm"
  <2>1. ui' = Confirmed(ui, 1)
    BY <1>2, <1>3, <1>9, Reductions
  <2>2. 1 \in 0..1
    OBVIOUS
  <2>3. CASE ui' = ui
    BY <1>1, <1>9, <2>3 DEF Turned, StaysIn, States, c
  <2>4. CASE ui' # ui
    <3>1. /\ ui.phase = "awaiting_brand_lock" /\ ui'.phase = ui.phase
          /\ Stored(ui, ui', "confirmation", 1)
      BY <1>1, <2>1, <2>2, <2>4, Others DEF CanConfirmBrandLock
    <3>2. Opens("awaiting_brand_lock", "confirmation", "awaiting_brand_lock")
      BY <1>5, <1>6, <3>1 DEF Opens
    <3> QED BY <1>9, <3>2 DEF Turned, c
  <2> QED BY <2>3, <2>4
<1>10. CASE Good(c) /\ c.call = "critic"
  <2>1. ui' = Reviewed(ui, 1, c.answer)
    BY <1>2, <1>3, <1>10, Reductions
  <2>2. 1 \in 0..1 /\ ui.phase \in {"reviewing"} \cup Left
        /\ (ui.phase = "reviewing" => Defined(ui, "composition"))
    BY <1>4, <1>10 DEF FirstTaskInv, FirstPageInv, OutIn
  <2>3. CASE ui' = ui
    BY <1>1, <1>10, <2>1, <2>2, <2>3, Reviews DEF Turned, StaysIn, c
  <2>4. CASE ui' # ui
    <3>1. /\ ui.phase = "reviewing" /\ Stored(ui, ui', "critique", 1)
          /\ ui'.phase = IF c.answer = "ok" THEN "ready_v1" ELSE "final_failure"
      BY <1>1, <2>1, <2>2, <2>4, Reviews
    <3>2. Opens("reviewing", "critique", IF c.answer = "ok" THEN "ready_v1" ELSE "final_failure")
      BY <1>5, <1>6, <3>1 DEF Opens
    <3> QED BY <1>10, <3>2 DEF Turned, c
  <2> QED BY <2>3, <2>4
<1>11. CASE Good(c) /\ c.call \in {"feedback", "retry"}
  <2>1. ui' = Revised(ui, 1)
    BY <1>2, <1>3, <1>11, Reductions
  <2>2. 1 \in 0..1 /\ ui.phase \in {"submitting_revision", "final_failure"} \cup Left
    BY <1>4, <1>11 DEF FirstTaskInv, OutIn
  <2>3. CASE ui' = ui
    BY <1>1, <1>11, <2>1, <2>2, <2>3, Others DEF Turned, StaysIn, c
  <2>4. CASE ui' # ui
    <3>1. Opens("submitting_revision", "revision", "ready_v2")
      BY <1>1, <1>5, <1>6, <2>1, <2>2, <2>4, Others DEF Opens, Left
    <3> QED BY <1>11, <3>1 DEF Turned, c
  <2> QED BY <2>3, <2>4
<1>12. CASE Good(c) /\ c.call = "delete"
  <2>1. ui' = IF ui.phase = "deleting" THEN InitialState ELSE ui
    BY <1>2, <1>12, Reductions
  <2>2. ui.phase \in Left
    BY <1>4, <1>12 DEF FirstTaskInv, OutIn
  <2> QED BY <1>12, <2>1, <2>2 DEF Turned, StaysIn, Left, c
<1>13. CASE Good(c) /\ c.call \in {"export1", "export2"}
  <2>1. ui' = ui
    BY <1>2, <1>13, Reductions
  <2> QED BY <1>1, <1>13, <2>1 DEF Turned, StaysIn, States, c
<1> QED BY <1>3, <1>7, <1>8, <1>9, <1>10, <1>11, <1>12, <1>13 DEF Calls, Storing, c

\* An answer and the request that follows it: one takes the place of the other.
LEMMA FirstReceived ==
  ASSUME RunsInv, InFirst, NEW h \in Handlers, Receive(h)
  PROVE  FirstSessionInv'
<1> DEFINE c == task[h]
<1> DEFINE t == NextTask(c)
<1>1. /\ FirstPageInv /\ OneAtATime /\ FirstTaskInv(c) /\ Turned(c) /\ session = 1
      /\ 1 \in Sessions /\ c.answer \in Answers
  <2>1. Turned(c)
    BY FirstTurn
  <2> QED BY <2>1, SessionsAssumption DEF InFirst, Sessions, Receive
<1>2. c \in TaskType(0..1) /\ forms \in [Sessions -> {"ready", "pending", "confirmed"}]
      /\ ui.field \in [Fields -> 0..1]
  BY <1>1 DEF RunsInv, TypeInv, TaskType, States
<1>3. c # Idle /\ c.session = 1 /\ c.call \in Calls \ {"none"}
  BY <1>1, <1>2, Tasks, FirstTasks DEF Idle, Answers
<1>4. t # Idle =>
        /\ Good(c) /\ t.answer = "sent"
        /\ \/ c.call = "upload" /\ t.call = "create"
           \/ c.call = "create" /\ t.call = "analyze"
           \/ c.call = "draft" /\ t.call = "composition"
           \/ c.call = "composition" /\ t.call = "critic"
           \/ c.call = "critic" /\ t.call = "export1" /\ c.answer # "rejected"
           \/ c.call \in {"feedback", "retry"} /\ t.call = "export2"
  BY <1>2, NextTasks
<1>5. /\ \A g \in Handlers : task'[g] = IF g = h THEN t ELSE task[g]
      /\ session' = 1 /\ server' = server
      /\ forms' = IF c.call # "confirm" THEN forms
                  ELSE [forms EXCEPT ![c.session] = IF Good(c) THEN "confirmed" ELSE "ready"]
  BY <1>1 DEF Receive, RunsInv, TypeInv
<1> HIDE DEF t, c
<1>6. forms'[1] = IF c.call # "confirm" THEN forms[1]
                  ELSE IF Good(c) THEN "confirmed" ELSE "ready"
  BY <1>1, <1>2, <1>3, <1>5
<1>7. RetryTaken' <=> RetryTaken
  BY <1>5 DEF RetryTaken
<1>8. Idle.call = "none" /\ Idle.answer = "none"
  BY DEF Idle
<1>9. \A f \in {"upload", "run", "analysis", "confirmation", "draft", "composition", "critique",
                 "revision"} : f \in Fields
  BY DEF Fields
<1>10. OneAtATime'
  <2>1. t.call \in Alone => c.call \in Alone
    BY <1>4, <1>8 DEF Alone, Changing
  <2> QED BY <1>1, <1>5, <2>1 DEF OneAtATime, c
<1>11. ASSUME NEW g \in Handlers, g # h
       PROVE  /\ FirstTaskInv(task[g]) /\ task'[g] = task[g]
              /\ c.call \in Alone =>
                   task[g].call \notin Alone /\ task[g].answer # "revision_failed"
  BY <1>1, <1>5, <1>11 DEF InFirst, OneAtATime, FirstTaskInv, Alone, Changing, c
\* The page is where the other requests expect it.
<1>12. CASE ~Good(c)
  <2>1. FailedIn(c) /\ t = Idle
    BY <1>1, <1>4, <1>12 DEF Turned
  <2>2. c.answer = "revision_failed" => c.call = "feedback" /\ RetryTaken
    BY <1>1 DEF FirstTaskInv
  <2>3. \A f \in Fields : Defined(ui, f)' <=> Defined(ui, f)
    BY <2>1 DEF FailedIn, Defined
  <2>4. FirstPageInv'
    <3>1. c.call \in {"feedback", "confirm"} =>
            forms[1] = IF c.call = "feedback" THEN "confirmed" ELSE "pending"
      BY <1>1 DEF FirstTaskInv
    <3>2. forms'[1] = "confirmed" <=> forms[1] = "confirmed"
      BY <1>6, <1>12, <3>1
    <3>3. \/ ui'.phase = ui.phase
          \/ ui'.phase = "final_failure" /\ ui.phase # "configure"
          \/ ui'.phase = "retryable_failure" /\ forms[1] = "confirmed" /\ RetryTaken
               /\ ui.phase # "configure"
      BY <2>1, <2>2, <3>1 DEF FailedIn, Left
    <3> QED BY <1>1, <1>5, <1>7, <1>9, <2>3, <3>2, <3>3
        DEF FirstPageInv, BeforeConfirmed, BeforeRevision, Left
  <2>5. FirstTaskInv(task[h])'
    BY <1>5, <1>8, <2>1 DEF FirstTaskInv, OutIn
  <2>6. ASSUME NEW g \in Handlers, g # h PROVE FirstTaskInv(task[g])'
    <3>1. c.call \in {"upload", "create"} => ui.phase \notin Left
      BY <1>1 DEF FirstTaskInv, OutIn, Left
    <3>2. OutIn(task[g].call, ui'.phase)
      <4>1. CASE c.call \in Alone
        BY <1>1, <1>11, <2>1, <2>2, <2>6, <4>1
        DEF FailedIn, FirstTaskInv, OutIn, Left, Alone, Changing
      <4>2. CASE c.call \notin Alone
        BY <1>1, <1>3, <1>11, <2>1, <2>2, <2>6, <4>2
        DEF FailedIn, FirstTaskInv, OutIn, Left, Alone, Changing, Calls
      <4> QED BY <4>1, <4>2
    <3>3. forms'[1] = forms[1] \/ task[g].call \notin Alone
      BY <1>6, <1>11, <2>6 DEF Alone, Changing
    <3>4. ui'.phase = "configure" <=> ui.phase = "configure"
      BY <2>1 DEF FailedIn, Left
    <3> QED BY <1>5, <1>7, <1>9, <1>11, <2>3, <2>6, <3>2, <3>3, <3>4
        DEF FirstTaskInv, Alone, Changing
  <2> QED BY <1>5, <1>10, <2>4, <2>5, <2>6 DEF FirstSessionInv
\* An answer in time opens the next phase, where the next request belongs.
<1>13. ASSUME NEW from, NEW field \in Fields, NEW to, Opens(from, field, to)
       PROVE  /\ ui.phase = from /\ ui'.phase = to /\ Defined(ui, field)'
              /\ \A f \in Fields : f # field => (Defined(ui, f)' <=> Defined(ui, f))
              /\ \A f \in Fields : Defined(ui, f) => Defined(ui, f)'
  BY <1>13 DEF Opens, Defined, Undefined
<1>14. ASSUME NEW phases, StaysIn(phases)
       PROVE  /\ ui.phase \in phases /\ ui'.phase = ui.phase
              /\ \A f \in Fields : Defined(ui, f)' <=> Defined(ui, f)
  BY <1>14 DEF StaysIn, Defined
\* The requests beside this one, when the page moves on and when it stays.
<1>15. ASSUME NEW g \in Handlers, g # h, c.call \in Alone, ui.phase \notin Left
       PROVE  /\ task[g].call \in {"none", "export1", "export2"}
              /\ ui.phase \in {"uploading", "analyzing", "awaiting_brand_lock",
                               "generating_draft", "composing", "reviewing"}
                   => task[g].call = "none"
  <2>1. task[g].call \in Calls
    BY <1>15 DEF RunsInv, TypeInv
  <2> QED BY <1>11, <1>15, <2>1 DEF FirstTaskInv, OutIn, Left, Calls, Alone, Changing
<1>16. ASSUME NEW from, NEW field \in Fields, NEW to, Opens(from, field, to), c.call \in Alone,
              from \in {"uploading", "analyzing", "awaiting_brand_lock", "generating_draft",
                       "composing", "reviewing"}
                \/ (from = "submitting_revision" /\ to = "ready_v2"),
              NEW g \in Handlers, g # h
       PROVE  FirstTaskInv(task[g])'
  <2>1. /\ task[g].call \in {"none", "export1", "export2"}
        /\ from # "submitting_revision" => task[g].call = "none"
    BY <1>13, <1>15, <1>16 DEF Left
  <2>2. OutIn(task[g].call, ui'.phase)
    BY <1>13, <1>16, <2>1 DEF OutIn
  <2> QED BY <1>11, <1>16, <2>1, <2>2 DEF FirstTaskInv
<1>17. ASSUME NEW phases, StaysIn(phases), Good(c)
       PROVE  FirstPageInv' /\ \A g \in Handlers : g # h => FirstTaskInv(task[g])'
  <2>1. c.call = "confirm" => /\ forms[1] = "pending" /\ forms'[1] = "confirmed"
                              /\ ui.phase # "configure" => Defined(ui, "analysis")
    BY <1>1, <1>6, <1>17 DEF FirstTaskInv
  <2>2. FirstPageInv'
    BY <1>1, <1>5, <1>6, <1>7, <1>9, <1>14, <1>17, <2>1 DEF FirstPageInv
  <2>3. ASSUME NEW g \in Handlers, g # h PROVE FirstTaskInv(task[g])'
    <3>1. forms'[1] = forms[1] \/ task[g].call \notin Alone
      BY <1>6, <1>11, <2>3 DEF Alone, Changing
    <3> QED BY <1>5, <1>7, <1>9, <1>11, <1>14, <1>17, <2>3, <3>1
        DEF FirstTaskInv, Alone, Changing
  <2> QED BY <2>2, <2>3
<1>18. ASSUME t # Idle PROVE FirstTaskInv(task[h])' <=>
         /\ OutIn(t.call, ui'.phase)
         /\ t.call \in {"create", "analyze"} => ~Defined(ui, "analysis")'
         /\ t.call = "create" => Defined(ui, "upload")'
         /\ t.call \in {"composition", "critic"} => forms'[1] = "confirmed"
  BY <1>4, <1>5, <1>18 DEF FirstTaskInv
<1>19. t = Idle => FirstTaskInv(task[h])'
  BY <1>5, <1>8 DEF FirstTaskInv, OutIn
<1>20. ASSUME FirstPageInv', FirstTaskInv(task[h])',
              \A g \in Handlers : g # h => FirstTaskInv(task[g])'
       PROVE  FirstSessionInv'
  BY <1>5, <1>10, <1>20 DEF FirstSessionInv
<1>21. CASE Good(c) /\ c.call \in {"upload", "create"}
  <2>1. PICK field \in Fields, to \in Phases :
          /\ Opens("uploading", field, to)
          /\ c.call = "upload" => field = "upload" /\ to = "uploading"
          /\ c.call = "create" => field = "run" /\ to = "analyzing"
    BY <1>1, <1>9, <1>21 DEF Turned, Phases, Busy
  <2>2. /\ ui'.phase = to /\ ~Defined(ui, "analysis") /\ ~Defined(ui, "analysis")'
        /\ Defined(ui, "confirmation")' <=> Defined(ui, "confirmation")
        /\ c.call = "upload" => Defined(ui, "upload")'
        /\ ui.phase = "uploading" /\ forms'[1] = forms[1]
    BY <1>1, <1>6, <1>9, <1>13, <1>21, <2>1 DEF FirstTaskInv
  <2>3. FirstPageInv'
    BY <1>1, <1>5, <1>7, <1>21, <2>1, <2>2 DEF FirstPageInv, BeforeConfirmed, BeforeRevision
  <2>4. FirstTaskInv(task[h])'
    BY <1>4, <1>18, <1>19, <1>21, <2>1, <2>2 DEF OutIn
  <2>5. \A g \in Handlers : g # h => FirstTaskInv(task[g])'
    BY <1>16, <1>21, <2>1 DEF Alone
  <2> QED BY <1>20, <2>3, <2>4, <2>5
<1>22. CASE Good(c) /\ c.call = "analyze"
  <2>1. t = Idle
    BY <1>4, <1>22
  <2>2. CASE Opens("analyzing", "analysis", "awaiting_brand_lock") /\ Defined(ui, "run")
    <3>1. /\ ui.phase = "analyzing" /\ ui'.phase = "awaiting_brand_lock"
          /\ Defined(ui, "analysis")' /\ Defined(ui, "run")' /\ forms'[1] = forms[1]
          /\ Defined(ui, "confirmation")' <=> Defined(ui, "confirmation")
      BY <1>6, <1>9, <1>13, <1>22, <2>2
    <3>2. FirstPageInv'
      BY <1>1, <1>5, <1>7, <3>1 DEF FirstPageInv, BeforeConfirmed, BeforeRevision
    <3>3. \A g \in Handlers : g # h => FirstTaskInv(task[g])'
      BY <1>9, <1>16, <1>22, <2>2 DEF Alone, Changing
    <3> QED BY <1>19, <1>20, <2>1, <3>2, <3>3
  <2>3. CASE StaysIn({"analyzing"} \cup Left)
    BY <1>17, <1>19, <1>20, <1>22, <2>1, <2>3
  <2> QED BY <1>1, <1>22, <2>2, <2>3 DEF Turned
<1>23. CASE Good(c) /\ c.call = "confirm"
  <2>1. t = Idle
    BY <1>4, <1>23
  <2>2. CASE Opens("awaiting_brand_lock", "confirmation", "awaiting_brand_lock")
    <3>1. /\ ui.phase = "awaiting_brand_lock" /\ ui'.phase = ui.phase
          /\ \A f \in Fields \ {"confirmation"} : Defined(ui, f)' <=> Defined(ui, f)
          /\ forms'[1] = "confirmed" /\ Defined(ui, "analysis")
      BY <1>1, <1>6, <1>9, <1>13, <1>23, <2>2 DEF FirstTaskInv
    <3>2. FirstPageInv'
      BY <1>1, <1>5, <1>7, <1>9, <3>1 DEF FirstPageInv
    <3>3. \A g \in Handlers : g # h => FirstTaskInv(task[g])'
      BY <1>9, <1>16, <1>23, <2>2 DEF Alone, Changing
    <3> QED BY <1>19, <1>20, <2>1, <3>2, <3>3
  <2>3. CASE StaysIn(Phases)
    BY <1>17, <1>19, <1>20, <1>23, <2>1, <2>3
  <2> QED BY <1>1, <1>23, <2>2, <2>3 DEF Turned
<1>24. CASE Good(c) /\ c.call \in {"draft", "composition"}
  <2>1. forms[1] = "confirmed" /\ forms'[1] = "confirmed"
    BY <1>1, <1>6, <1>24 DEF FirstTaskInv
  <2>2. ASSUME NEW from, NEW to, NEW field \in {"draft", "composition"}, field = c.call,
               Opens(from, field, to), c.call = "draft" => from = "generating_draft" /\ to = "composing",
               c.call = "composition" => from = "composing" /\ to = "reviewing"
        PROVE  FirstSessionInv'
    <3>1. /\ ui.phase = from /\ ui'.phase = to /\ Defined(ui, field)'
          /\ \A f \in Fields \ {field} : Defined(ui, f)' <=> Defined(ui, f)
      BY <1>9, <1>13, <1>24, <2>2
    <3>2. FirstPageInv'
      BY <1>1, <1>5, <1>7, <1>9, <1>24, <2>1, <2>2, <3>1 DEF FirstPageInv, BeforeRevision
    <3>3. FirstTaskInv(task[h])'
      BY <1>4, <1>18, <1>19, <1>24, <2>1, <2>2, <3>1 DEF OutIn
    <3>4. \A g \in Handlers : g # h => FirstTaskInv(task[g])'
      BY <1>9, <1>16, <1>24, <2>2 DEF Alone, Changing
    <3> QED BY <1>20, <3>2, <3>3, <3>4
  <2>3. CASE StaysIn(Left)
    <3>1. FirstTaskInv(task[h])'
      BY <1>4, <1>14, <1>18, <1>19, <1>24, <2>1, <2>3 DEF OutIn
    <3> QED BY <1>17, <1>20, <1>24, <2>3, <3>1
  <2> QED BY <1>1, <1>24, <2>2, <2>3 DEF Turned
<1>25. CASE Good(c) /\ c.call = "critic"
  <2>1. forms[1] = "confirmed" /\ forms'[1] = "confirmed"
    BY <1>1, <1>6, <1>25 DEF FirstTaskInv
  <2>2. ASSUME NEW to, to = IF c.answer = "ok" THEN "ready_v1" ELSE "final_failure",
               Opens("reviewing", "critique", to)
        PROVE  FirstSessionInv'
    <3>1. /\ ui.phase = "reviewing" /\ ui'.phase = to
          /\ \A f \in Fields \ {"critique"} : Defined(ui, f)' <=> Defined(ui, f)
      BY <1>9, <1>13, <2>2
    <3>2. FirstPageInv'
      BY <1>1, <1>5, <1>7, <1>9, <2>1, <2>2, <3>1 DEF FirstPageInv, BeforeRevision
    <3>3. FirstTaskInv(task[h])'
      BY <1>4, <1>18, <1>19, <1>25, <2>1, <2>2, <3>1 DEF OutIn
    <3>4. \A g \in Handlers : g # h => FirstTaskInv(task[g])'
      BY <1>9, <1>16, <1>25, <2>2 DEF Alone, Changing
    <3> QED BY <1>20, <3>2, <3>3, <3>4
  <2>3. CASE StaysIn(Left)
    <3>1. FirstTaskInv(task[h])'
      BY <1>4, <1>14, <1>18, <1>19, <1>25, <2>1, <2>3 DEF OutIn
    <3> QED BY <1>17, <1>20, <1>25, <2>3, <3>1
  <2> QED BY <1>1, <1>25, <2>2, <2>3 DEF Turned
<1>26. CASE Good(c) /\ c.call \in {"feedback", "retry"}
  <2>1. forms[1] = "confirmed" /\ forms'[1] = "confirmed"
    BY <1>1, <1>6, <1>26 DEF FirstTaskInv
  <2>2. CASE Opens("submitting_revision", "revision", "ready_v2")
    <3>1. /\ ui.phase = "submitting_revision" /\ ui'.phase = "ready_v2"
          /\ \A f \in Fields \ {"revision"} : Defined(ui, f)' <=> Defined(ui, f)
      BY <1>9, <1>13, <2>2
    <3>2. FirstPageInv'
      BY <1>1, <1>5, <1>7, <1>9, <2>1, <3>1 DEF FirstPageInv, BeforeRevision
    <3>3. FirstTaskInv(task[h])'
      BY <1>4, <1>18, <1>19, <1>26, <2>1, <3>1 DEF OutIn
    <3>4. \A g \in Handlers : g # h => FirstTaskInv(task[g])'
      BY <1>9, <1>16, <1>26, <2>2 DEF Alone, Changing
    <3> QED BY <1>20, <3>2, <3>3, <3>4
  <2>3. CASE StaysIn({"final_failure"} \cup Left)
    <3>1. FirstTaskInv(task[h])'
      BY <1>4, <1>14, <1>18, <1>19, <1>26, <2>1, <2>3 DEF OutIn
    <3> QED BY <1>17, <1>20, <1>26, <2>3, <3>1
  <2> QED BY <1>1, <1>26, <2>2, <2>3 DEF Turned
<1>27. CASE Good(c) /\ c.call \in {"export1", "export2"}
  <2>1. t = Idle /\ StaysIn(Phases)
    BY <1>1, <1>4, <1>27 DEF Turned
  <2> QED BY <1>17, <1>19, <1>20, <1>27, <2>1
<1>28. CASE Good(c) /\ c.call = "delete"
  <2>1. t = Idle
    BY <1>4, <1>28
  <2>2. CASE ui.phase = "deleting" /\ ui' = InitialState
    <3>1. ui'.phase = "configure" /\ \A f \in Fields : ~Defined(ui, f)'
      BY <2>2 DEF InitialState, Defined
    <3>2. FirstPageInv'
      BY <1>9, <3>1 DEF FirstPageInv, BeforeConfirmed, BeforeRevision, Left
    <3>3. ASSUME NEW g \in Handlers, g # h PROVE FirstTaskInv(task[g])'
      <4>1. task[g].call \notin {"upload", "create"} /\ OutIn(task[g].call, ui'.phase)
        BY <1>11, <2>2, <3>1, <3>3 DEF FirstTaskInv, OutIn, Left
      <4> QED BY <1>5, <1>6, <1>7, <1>9, <1>11, <1>28, <3>1, <3>3, <4>1 DEF FirstTaskInv
    <3> QED BY <1>19, <1>20, <2>1, <3>2, <3>3
  <2>3. CASE StaysIn(Left)
    BY <1>17, <1>19, <1>20, <1>28, <2>1, <2>3
  <2> QED BY <1>1, <1>28, <2>2, <2>3 DEF Turned
<1> QED BY <1>3, <1>12, <1>21, <1>22, <1>23, <1>24, <1>25, <1>26, <1>27, <1>28 DEF Calls

LEMMA FirstStep == RunsInv /\ RunsInv' /\ FirstSessionInv /\ [Next]_vars => FirstSessionInv'
<1> SUFFICES ASSUME RunsInv, RunsInv', FirstSessionInv, [Next]_vars PROVE FirstSessionInv'
  OBVIOUS
<1>1. session \in Nat
  BY SessionsAssumption DEF RunsInv, TypeInv
<1>2. CASE session = 0
  BY <1>2, FirstClick DEF FirstSessionInv
<1>3. CASE session = 1
  <2>1. InFirst
    BY <1>3 DEF InFirst, FirstSessionInv
  <2>2. ASSUME NEW h \in Handlers, Click(h) PROVE FirstSessionInv'
    <3>1. CASE StartRun(h)
      BY <1>3, <3>1 DEF StartRun, FirstSessionInv
    <3> QED BY <2>1, <2>2, <3>1, FirstClickKeeps
  <2>3. ASSUME NEW h \in Handlers, Serve(h) \/ ServeError(h) \/ Disconnect(h)
        PROVE  FirstSessionInv'
    BY <2>1, <2>3, ServiceStep, FirstServed
  <2>4. ASSUME NEW h \in Handlers, Receive(h) PROVE FirstSessionInv'
    BY <2>1, <2>4, FirstReceived
  <2>5. ASSUME NEW s \in Sessions, EndJob(s) PROVE FirstSessionInv'
    BY <2>1, <2>5, AnalysisEnds, RevisionEnds, FirstEnded DEF EndJob
  <2>6. ASSUME UNCHANGED vars PROVE FirstSessionInv'
    <3>1. UNCHANGED <<ui, page, forms, session, task, server>>
      BY <2>6 DEF vars
    <3> QED BY <1>3, <2>1, <3>1
        DEF FirstSessionInv, InFirst, FirstPageInv, OneAtATime, FirstTaskInv, RetryTaken, Defined
  <2> QED BY <2>2, <2>3, <2>4, <2>5, <2>6 DEF Next
<1>4. CASE session > 1
  <2>1. session' \in {session, session + 1}
    <3>1. ASSUME NEW h \in Handlers, Click(h) PROVE session' \in {session, session + 1}
      BY <3>1, ClickStep DEF Sent
    <3>2. ASSUME NEW h \in Handlers, Serve(h) \/ ServeError(h) \/ Disconnect(h)
          PROVE  session' = session
      BY <3>2, ServiceStep DEF ServedAs, Answer
    <3>3. ASSUME NEW h \in Handlers, Receive(h) PROVE session' = session
      BY <3>3 DEF Receive
    <3>4. ASSUME NEW s \in Sessions, EndJob(s) PROVE session' = session
      BY <3>4, AnalysisEnds, RevisionEnds DEF EndJob, EndedAs
    <3> QED BY <3>1, <3>2, <3>3, <3>4 DEF Next, vars
  <2> QED BY <1>1, <1>4, <2>1 DEF FirstSessionInv
<1> QED BY <1>1, <1>2, <1>3, <1>4

\* In its first session the phase of the page says which request may be out.
THEOREM FirstSessionHolds == Spec => []FirstSessionInv
  BY FirstInit, FirstStep, StudioInvariantHolds, PTL DEF Spec

\* The retry button is there only while the service would accept a retry
\* (canRetry; failed_retryable in revision_service.py).
THEOREM RetriesAreAuthorized == Spec => []RetryIsAuthorized
<1>1. RunsInv /\ FirstSessionInv => RetryIsAuthorized
  <2> SUFFICES ASSUME RunsInv, FirstSessionInv, session = 1, CanRetry(ui), ~server[1].misreported
               PROVE  Defined(ui, "run") /\ server[ui.field.run].phase = "retryable"
    BY DEF RetryIsAuthorized
  <2>1. FirstPageInv /\ ui.phase = "retryable_failure"
    BY DEF FirstSessionInv, CanRetry
  <2>2. forms[1] = "confirmed"
    BY <2>1 DEF FirstPageInv, BeforeConfirmed, Left
  <2>3. Defined(ui, "run") /\ server[1].phase = "retryable"
    BY <2>1, <2>2 DEF FirstPageInv, RetryTaken
  <2>4. ui.field.run \in 0..1 /\ ui.field.run # 0
    BY <2>3 DEF RunsInv, TypeInv, States, Fields, Defined, Undefined
  <2> QED BY <2>3, <2>4
<1> QED BY <1>1, StudioInvariantHolds, FirstSessionHolds, PTL

\* However fast the user clicks, two requests that change the Run are never
\* under way at once, and no conflict is shown (the guards of the reducer).
THEOREM FirstSessionHasNoConflict == Spec => []PageNeverConflicts
<1>1. RunsInv /\ FirstSessionInv => PageNeverConflicts
  BY DEF FirstSessionInv, FirstPageInv, OneAtATime, Alone, PageNeverConflicts
<1> QED BY <1>1, StudioInvariantHolds, FirstSessionHolds, PTL
==============================================================================
