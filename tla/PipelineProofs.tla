--------------------------- MODULE PipelineProofs ---------------------------
(***************************************************************************)
(* For any locks, answers, copywriters and registry: what the Critic can   *)
(* say of a version that came through the gates, and that a revision adds  *)
(* nothing to it.  The invariant says where each artifact came from: the   *)
(* analysis from a valid answer, the draft from an accepted copy under the *)
(* analysed lock, the picture from that lock, the reports from the Critic. *)
(***************************************************************************)
EXTENDS Pipeline, FiniteSetTheorems, TLAPS

FromCopy(d) ==
  \E copy \in Copies :
    /\ CopyAccepted(copy, confirmed, request.direction)
    /\ copy.facts # <<>> /\ ItemsOf(copy.facts) \subseteq ItemsOf(confirmed.facts)
    /\ d = DraftOf(copy, confirmed, request.direction)

FromAnswer(a) ==
  \E answer \in Answers : a.hypotheses = answer.hypotheses /\ a.warnings = answer.warnings

AnalysisInv ==
  /\ status = "pending" => codes = {}
  /\ status \notin {"pending", "blocked", "failed"} =>
       codes = {} /\ analysis.lock = request.lock /\ FromAnswer(analysis)

DraftInv ==
  draft # None =>
    /\ status \in {"in_progress", "ready", "failed_final"}
    /\ confirmed = analysis.lock
    /\ FromCopy(draft)

PictureInv ==
  picture # None =>
    /\ draft # None
    /\ picture = PictureOf(confirmed)
    /\ PictureAllowed(picture, confirmed, draft.cta, Kinds)

Approved == picture # None /\ critique = FirstReport /\ critique.status # "reject"

CritiqueInv ==
  /\ critique # None => picture # None /\ critique = FirstReport
  /\ status = "ready" => Approved

RevisionInv ==
  revision # None =>
    /\ status \in {"ready", "failed_final"}
    /\ Approved
    /\ \E changes \in SUBSET Changes : revision = SecondVersion(changes)

ContentInv == AnalysisInv /\ DraftInv /\ PictureInv /\ CritiqueInv /\ RevisionInv

-----------------------------------------------------------------------------
(* The Critic's rules.                                                     *)

\* Only the three protected checks block.
LEMMA BlockingIssues ==
  ASSUME NEW a, NEW lock, NEW d, NEW p, NEW warnings,
         NEW issue \in Issues(a, lock, d, p, warnings), issue.severity = "blocking"
  PROVE  \/ warnings \cap SafetyRefusals # {}
         \/ ~LockPreserved(a, lock, d, p)
         \/ ~(d.facts # <<>> /\ ItemsOf(d.facts) \subseteq ItemsOf(lock.facts))
<1>1. ASSUME NEW h, issue \in HypothesisIssues(h, a.hypotheses[h]) PROVE FALSE
  BY <1>1 DEF HypothesisIssues, Issue
<1>2. issue # Issue("copy_unreadable", "readability", "warning", FALSE, "run")
  BY DEF Issue
<1> SUFFICES ASSUME warnings \cap SafetyRefusals = {}, LockPreserved(a, lock, d, p),
                    d.facts # <<>>, ItemsOf(d.facts) \subseteq ItemsOf(lock.facts)
             PROVE  FALSE
  OBVIOUS
<1> DEFINE texts == IF "long" \notin {d.headline, d.body, d.label} THEN {}
                    ELSE {Issue("copy_unreadable", "readability", "warning", FALSE, "run")}
           culture == UNION {HypothesisIssues(h, a.hypotheses[h]) : h \in DOMAIN a.hypotheses}
<1>3. Issues(a, lock, d, p, warnings) = UNION {{}, {}, {}, texts, culture}
  BY DEF Issues
<1>4. issue \notin texts /\ issue \notin culture
  BY <1>1, <1>2
<1> QED BY <1>3, <1>4

LEMMA Verdicts ==
  ASSUME NEW issues
  PROVE  /\ Verdict(issues) = "reject" <=> Blocks(issues)
         /\ Verdict(issues) = "needs_human_review" => NeedsHuman(issues)
         /\ Verdict(issues) = "pass" => issues = {} /\ ~NeedsHuman(issues)
  BY DEF Verdict

\* Whatever version it is shown, the report the Critic makes satisfies the
\* validator of its contract: only the number of issues can make it fail
\* (critic.py review against contracts.py CritiqueReport).
THEOREM ReviewsAreConsistent ==
  ASSUME NEW a, NEW lock, NEW d, NEW p, NEW c
  PROVE  Consistent(Review(a, lock, d, p, c))
<1> DEFINE issues == Issues(a, lock, d, p, a.warnings \cup c)
           report == Review(a, lock, d, p, c)
<1>1. /\ report.issues = issues /\ report.status = Verdict(issues)
      /\ report.human = NeedsHuman(issues)
      /\ report.preserved = LockPreserved(a, lock, d, p)
  BY DEF Review
<1>2. ASSUME ~LockPreserved(a, lock, d, p)
      PROVE  \E issue \in issues : issue.category = "brand_lock" /\ issue.severity = "blocking"
  <2>1. Issue("brand_lock_mismatch", "brand_lock", "blocking", FALSE, "run") \in issues
    BY <1>2 DEF Issues
  <2> QED BY <2>1 DEF Issue
<1> HIDE DEF issues, report
<1>3. Consistent(report)
  BY <1>1, <1>2, Verdicts DEF Consistent
<1> QED BY <1>3 DEF report

\* A version whose lock and facts are in order is rejected for safety alone.
LEMMA SafetyRejects ==
  ASSUME NEW a, NEW lock, NEW d, NEW p, NEW c,
         LockPreserved(a, lock, d, p),
         d.facts # <<>>, ItemsOf(d.facts) \subseteq ItemsOf(lock.facts),
         Review(a, lock, d, p, c).status = "reject"
  PROVE  Review(a, lock, d, p, c).warnings \cap SafetyRefusals # {}
<1>1. /\ Review(a, lock, d, p, c).status = Verdict(Issues(a, lock, d, p, a.warnings \cup c))
      /\ Review(a, lock, d, p, c).warnings = a.warnings \cup c
  BY DEF Review
<1>2. PICK issue \in Issues(a, lock, d, p, a.warnings \cup c) : issue.severity = "blocking"
  BY <1>1, Verdicts DEF Blocks
<1> QED BY <1>1, <1>2, BlockingIssues

\* Shortening a version adds no issue to it.
LEMMA ShorteningAddsNothing ==
  ASSUME NEW a, NEW lock, NEW d, NEW e, NEW p, NEW warnings,
         e.lock = d.lock, e.cta = d.cta, e.facts = d.facts, e.label = d.label,
         e.headline \in {d.headline, "short"}, e.body \in {d.body, "short"}
  PROVE  Issues(a, lock, e, p, warnings) \subseteq Issues(a, lock, d, p, warnings)
<1>1. LockPreserved(a, lock, e, p) <=> LockPreserved(a, lock, d, p)
  BY DEF LockPreserved
<1>2. "long" \in {e.headline, e.body, e.label} => "long" \in {d.headline, d.body, d.label}
  OBVIOUS
<1> DEFINE safety == IF warnings \cap SafetyRefusals = {} THEN {}
                       ELSE {Issue("safety_refusal", "safety", "blocking", FALSE, "run")}
           protected(v) == IF LockPreserved(a, lock, v, p) THEN {}
                       ELSE {Issue("brand_lock_mismatch", "brand_lock", "blocking", FALSE, "run")}
           facts(v) == IF v.facts # <<>> /\ ItemsOf(v.facts) \subseteq ItemsOf(lock.facts) THEN {}
                       ELSE {Issue("unsupported_fact", "fact", "blocking", FALSE, "run")}
           texts(v) == IF "long" \notin {v.headline, v.body, v.label} THEN {}
                       ELSE {Issue("copy_unreadable", "readability", "warning", FALSE, "run")}
           culture == UNION {HypothesisIssues(h, a.hypotheses[h]) : h \in DOMAIN a.hypotheses}
<1>3. /\ Issues(a, lock, e, p, warnings)
           = UNION {safety, protected(e), facts(e), texts(e), culture}
      /\ Issues(a, lock, d, p, warnings)
           = UNION {safety, protected(d), facts(d), texts(d), culture}
  BY Zenon DEF Issues
<1>4. protected(e) = protected(d) /\ facts(e) = facts(d)
  BY <1>1
<1>5. texts(e) \subseteq texts(d)
  BY <1>2
<1> HIDE DEF safety, protected, facts, texts, culture
<1> QED BY <1>3, <1>4, <1>5

-----------------------------------------------------------------------------
(* The invariant.                                                          *)

LEMMA ContentInit == PipelineInit => ContentInv
  BY DEF PipelineInit, ContentInv, AnalysisInv, DraftInv, PictureInv, CritiqueInv, RevisionInv

LEMMA ContentStep == ContentInv /\ [PipelineNext]_pipelineVars => ContentInv'
<1> SUFFICES ASSUME ContentInv, [PipelineNext]_pipelineVars PROVE ContentInv'
  OBVIOUS
<1> USE DEF ContentInv
<1>1. ASSUME NEW to \in {"blocked", "failed"}, NEW code, status = "pending", Fail(to, code)
      PROVE  ContentInv'
  <2>1. draft = None /\ picture = None /\ critique = None /\ revision = None
    BY <1>1 DEF DraftInv, PictureInv, CritiqueInv, RevisionInv
  <2>2. AnalysisInv'
    BY <1>1 DEF Fail, AnalysisInv
  <2>3. (DraftInv /\ PictureInv /\ CritiqueInv /\ RevisionInv)'
    BY <1>1, <2>1 DEF Fail, DraftInv, PictureInv, CritiqueInv, RevisionInv
  <2> QED BY <2>2, <2>3
<1>2. ASSUME NEW answer \in Answers, Analyze(answer) PROVE ContentInv'
  <2>1. draft = None /\ picture = None /\ critique = None /\ revision = None
    BY <1>2 DEF Analyze, DraftInv, PictureInv, CritiqueInv, RevisionInv, Approved
  <2>2. AnalysisInv'
    BY <1>2 DEF Analyze, AnalysisInv, FromAnswer
  <2>3. (DraftInv /\ PictureInv /\ CritiqueInv /\ RevisionInv)'
    BY <1>2, <2>1 DEF Analyze, DraftInv, PictureInv, CritiqueInv, RevisionInv
  <2> QED BY <2>2, <2>3
<1>3. ASSUME NEW proposed \in Locks, Confirm(proposed) PROVE ContentInv'
  <2>1. draft = None /\ picture = None /\ critique = None /\ revision = None
    BY <1>3 DEF Confirm, DraftInv, PictureInv, CritiqueInv, RevisionInv, Approved
  <2>2. AnalysisInv'
    BY <1>3 DEF Confirm, AnalysisInv, FromAnswer
  <2>3. (DraftInv /\ PictureInv /\ CritiqueInv /\ RevisionInv)'
    BY <1>3, <2>1 DEF Confirm, DraftInv, PictureInv, CritiqueInv, RevisionInv
  <2> QED BY <2>2, <2>3
<1>4. ASSUME NEW copy \in Copies, Draft(copy) PROVE ContentInv'
  <2>1. picture = None /\ critique = None /\ revision = None
    BY <1>4 DEF Draft, PictureInv, CritiqueInv, RevisionInv, Approved
  <2>2. AnalysisInv'
    BY <1>4 DEF Draft, AnalysisInv, FromAnswer
  <2>3. DraftInv'
    BY <1>4 DEF Draft, DraftInv, DraftAllowed, FromCopy
  <2>4. (PictureInv /\ CritiqueInv /\ RevisionInv)'
    BY <1>4, <2>1 DEF Draft, PictureInv, CritiqueInv, RevisionInv
  <2> QED BY <2>2, <2>3, <2>4
<1>5. ASSUME Compose PROVE ContentInv'
  <2>1. critique = None /\ revision = None
    BY <1>5 DEF Compose, CritiqueInv, RevisionInv, Approved
  <2>2. AnalysisInv' /\ DraftInv'
    BY <1>5 DEF Compose, AnalysisInv, FromAnswer, DraftInv, FromCopy
  <2>3. PictureInv'
    BY <1>5 DEF Compose, PictureInv, Composable
  <2>4. (CritiqueInv /\ RevisionInv)'
    BY <1>5, <2>1 DEF Compose, CritiqueInv, RevisionInv
  <2> QED BY <2>2, <2>3, <2>4
<1>6. ASSUME Critique PROVE ContentInv'
  <2>1. FirstReport' = FirstReport
    BY <1>6 DEF Critique, FirstReport
  <2>2. revision = None
    BY <1>6 DEF Critique, RevisionInv
  <2>3. AnalysisInv' /\ DraftInv' /\ PictureInv'
    BY <1>6 DEF Critique, AnalysisInv, FromAnswer, DraftInv, FromCopy, PictureInv
  <2>4. CritiqueInv'
    BY <1>6, <2>1 DEF Critique, CritiqueInv, Approved
  <2>5. RevisionInv'
    BY <1>6, <2>2 DEF Critique, RevisionInv
  <2> QED BY <2>3, <2>4, <2>5
<1>7. ASSUME NEW changes \in SUBSET Changes, Revise(changes) PROVE ContentInv'
  <2>1. FirstReport' = FirstReport /\ \A c : SecondVersion(c)' = SecondVersion(c)
    BY <1>7 DEF Revise, FirstReport, SecondVersion
  <2>2. AnalysisInv' /\ DraftInv' /\ PictureInv'
    BY <1>7 DEF Revise, AnalysisInv, FromAnswer, DraftInv, FromCopy, PictureInv
  <2>3. Approved'
    BY <1>7, <2>1 DEF Revise, CritiqueInv, Approved
  <2>4. CritiqueInv'
    BY <1>7, <2>1, <2>3 DEF Revise, CritiqueInv
  <2>5. RevisionInv'
    BY <1>7, <2>1, <2>3 DEF Revise, RevisionInv
  <2> QED BY <2>2, <2>4, <2>5
<1>8. ASSUME UNCHANGED pipelineVars PROVE ContentInv'
  BY <1>8 DEF pipelineVars, AnalysisInv, FromAnswer, DraftInv, FromCopy, PictureInv, CritiqueInv,
     RevisionInv, Approved, FirstReport, SecondVersion
<1> QED
  BY <1>1, <1>2, <1>3, <1>4, <1>5, <1>6, <1>7, <1>8
  DEF PipelineNext, RefuseRequest, ProviderFails, AnswerRefused

LEMMA ContentInvariant == PipelineSpec => []ContentInv
  BY ContentInit, ContentStep, PTL DEF PipelineSpec

-----------------------------------------------------------------------------
(* What it implies.                                                        *)

\* The draft of version 1, and what a revision keeps of it.
LEMMA DraftFields ==
  ASSUME ContentInv, draft # None
  PROVE  /\ draft.lock = confirmed /\ draft.cta = confirmed.cta
         /\ draft.direction = request.direction
         /\ draft.facts = confirmed.facts /\ draft.facts # <<>>
         /\ \A changes :
              LET d == Revised(draft, changes) IN
                /\ d.lock = draft.lock /\ d.cta = draft.cta /\ d.facts = draft.facts
                /\ d.direction = draft.direction /\ d.label = draft.label
                /\ d.headline \in {draft.headline, "short"}
                /\ d.body \in {draft.body, "short"}
<1>1. PICK copy \in Copies :
        /\ CopyAccepted(copy, confirmed, request.direction)
        /\ copy.facts # <<>>
        /\ draft = DraftOf(copy, confirmed, request.direction)
  BY DEF ContentInv, DraftInv, FromCopy
<1> QED BY <1>1 DEF DraftOf, CopyAccepted, Revised

LEMMA VersionsInOrder ==
  ASSUME ContentInv, picture # None
  PROVE  /\ LockPreserved(analysis, confirmed, draft, picture)
         /\ \A changes :
              LockPreserved(analysis, confirmed, Revised(draft, changes), PictureOf(confirmed))
  BY DraftFields DEF ContentInv, DraftInv, PictureInv, PictureAllowed, LockPreserved

\* A version that passed the gates is rejected for nothing but a safety
\* refusal (critic.py review, draft_generation.py, composition.py).
THEOREM GatesLeaveSafety == PipelineSpec => []RejectsOnlyUnsafe
<1>1. ContentInv => RejectsOnlyUnsafe
  <2> SUFFICES ASSUME ContentInv,
                      NEW report \in {critique} \cup
                            (IF revision = None THEN {} ELSE {revision.critique}),
                      report # None, report.status = "reject"
               PROVE  report.warnings \cap SafetyRefusals # {}
    BY DEF RejectsOnlyUnsafe
  <2>1. CASE report = critique
    <3>1. picture # None /\ draft # None
          /\ report = Review(analysis, confirmed, draft, picture, codes)
      BY <2>1 DEF ContentInv, CritiqueInv, PictureInv, FirstReport
    <3> QED BY <3>1, DraftFields, VersionsInOrder, SafetyRejects
  <2>2. CASE revision # None /\ report = revision.critique
    <3>1. PICK changes \in SUBSET Changes : revision = SecondVersion(changes)
      BY <2>2 DEF ContentInv, RevisionInv
    <3>2. picture # None /\ draft # None
      BY <2>2 DEF ContentInv, RevisionInv, Approved, PictureInv
    <3>3. report = Review(analysis, confirmed, Revised(draft, changes), PictureOf(confirmed),
                          codes)
      BY <2>2, <3>1 DEF SecondVersion
    <3>4. /\ Revised(draft, changes).facts = confirmed.facts
          /\ Revised(draft, changes).facts # <<>>
      BY <3>2, DraftFields
    <3> QED BY <3>2, <3>3, <3>4, VersionsInOrder, SafetyRejects
  <2> QED BY <2>1, <2>2
<1> QED BY <1>1, ContentInvariant, PTL

\* A revision has no issue its first version did not have, and is never
\* rejected (FixtureRevisionEngine.revise, RevisionService._execute).
THEOREM RevisionsAreSafe == PipelineSpec => []RevisionsRaiseNothingNew
<1>1. ContentInv => RevisionsRaiseNothingNew
  <2> SUFFICES ASSUME ContentInv, revision # None
               PROVE  /\ revision.critique.issues \subseteq critique.issues
                      /\ revision.critique.status # "reject"
    BY DEF RevisionsRaiseNothingNew
  <2>1. PICK changes \in SUBSET Changes : revision = SecondVersion(changes)
    BY DEF ContentInv, RevisionInv
  <2>2. /\ picture = PictureOf(confirmed) /\ draft # None
        /\ critique = FirstReport /\ critique.status # "reject"
    BY DEF ContentInv, RevisionInv, Approved, PictureInv
  <2> DEFINE first  == Issues(analysis, confirmed, draft, picture, analysis.warnings \cup codes)
             second == Issues(analysis, confirmed, Revised(draft, changes), picture,
                              analysis.warnings \cup codes)
  <2>3. /\ critique.issues = first /\ critique.status = Verdict(first)
        /\ revision.critique.issues = second /\ revision.critique.status = Verdict(second)
    BY <2>1, <2>2 DEF FirstReport, SecondVersion, Review
  <2>4. second \subseteq first
    BY <2>2, DraftFields, ShorteningAddsNothing
  <2> HIDE DEF first, second
  <2>5. Blocks(second) => Blocks(first)
    BY <2>4 DEF Blocks
  <2> QED BY <2>2, <2>3, <2>4, <2>5, Verdicts
<1> QED BY <1>1, ContentInvariant, PTL

\* Every version keeps what the request locked (ResultVersion,
\* ProjectRunContract).
THEOREM VersionsAreTheRequests == PipelineSpec => []VersionsKeepTheRequest
<1>1. ContentInv => VersionsKeepTheRequest
  <2> SUFFICES ASSUME ContentInv,
                      NEW version \in {[draft |-> draft, picture |-> picture]} \cup
                            (IF revision = None THEN {} ELSE {revision}),
                      version.picture # None
               PROVE  /\ analysis.lock = request.lock /\ version.draft.lock = request.lock
                      /\ version.draft.direction = request.direction
                      /\ version.draft.cta = request.lock.cta
                      /\ version.draft.facts = request.lock.facts
                      /\ version.picture.logo = request.lock.logo
                      /\ Kinds[version.picture.logo] = "logo"
                      /\ version.picture.ui \in ItemsOf(request.lock.uis)
                      /\ Kinds[version.picture.ui] = "product_ui"
    BY DEF VersionsKeepTheRequest
  <2>1. picture # None /\ draft # None
    BY DEF ContentInv, RevisionInv, Approved, PictureInv
  <2>2. confirmed = request.lock /\ analysis.lock = request.lock
    BY <2>1 DEF ContentInv, DraftInv, AnalysisInv
  <2>3. version.picture = picture
        /\ (version.draft = draft \/ \E changes : version.draft = Revised(draft, changes))
    BY DEF ContentInv, RevisionInv, Approved, PictureInv, SecondVersion
  <2>4. PictureAllowed(picture, confirmed, draft.cta, Kinds)
    BY <2>1 DEF ContentInv, PictureInv
  <2>5. /\ version.draft.lock = confirmed /\ version.draft.cta = confirmed.cta
        /\ version.draft.facts = confirmed.facts
        /\ version.draft.direction = request.direction
    BY <2>1, <2>3, DraftFields
  <2> QED BY <2>2, <2>3, <2>4, <2>5 DEF PictureAllowed
<1> QED BY <1>1, ContentInvariant, PTL

-----------------------------------------------------------------------------
(* How many issues there can be.                                           *)

CultureIssues(a) == UNION {HypothesisIssues(h, a.hypotheses[h]) : h \in DOMAIN a.hypotheses}

\* A hypothesis has one issue at most.
LEMMA CultureIsBounded ==
  ASSUME NEW a, IsFiniteSet(DOMAIN a.hypotheses)
  PROVE  /\ IsFiniteSet(CultureIssues(a))
         /\ Cardinality(CultureIssues(a)) <= Cardinality(DOMAIN a.hypotheses)
<1> DEFINE about == [issue \in CultureIssues(a) |-> issue.about]
<1>1. ASSUME NEW h, NEW hypothesis, NEW issue \in HypothesisIssues(h, hypothesis)
      PROVE  issue.about = h /\ HypothesisIssues(h, hypothesis) = {issue}
  <2>1. \A code, category, severity, human : Issue(code, category, severity, human, h).about = h
    BY DEF Issue
  <2>2. \E code, category, severity, human :
          HypothesisIssues(h, hypothesis) = {Issue(code, category, severity, human, h)}
    BY <1>1 DEF HypothesisIssues
  <2> QED BY <1>1, <2>1, <2>2
<1>2. \A issue \in CultureIssues(a) :
        /\ issue.about \in DOMAIN a.hypotheses
        /\ HypothesisIssues(issue.about, a.hypotheses[issue.about]) = {issue}
  <2> SUFFICES ASSUME NEW issue \in CultureIssues(a)
               PROVE  /\ issue.about \in DOMAIN a.hypotheses
                      /\ HypothesisIssues(issue.about, a.hypotheses[issue.about]) = {issue}
    OBVIOUS
  <2>1. PICK h \in DOMAIN a.hypotheses : issue \in HypothesisIssues(h, a.hypotheses[h])
    BY DEF CultureIssues
  <2> QED BY <2>1, <1>1
<1>3. about \in Injection(CultureIssues(a), DOMAIN a.hypotheses)
  <2>1. about \in [CultureIssues(a) -> DOMAIN a.hypotheses]
    BY <1>2
  <2>2. ASSUME NEW i \in CultureIssues(a), NEW j \in CultureIssues(a), about[i] = about[j]
        PROVE  i = j
    <3>1. i.about = j.about
      BY <2>2
    <3> QED BY <1>2, <3>1
  <2> HIDE DEF about
  <2>3. IsInjective(about)
    BY <2>1, <2>2 DEF IsInjective
  <2> QED BY <2>1, <2>3 DEF Injection
<1> QED BY <1>3, FS_Injection

LEMMA AtMostOneMore ==
  ASSUME NEW S, IsFiniteSet(S), NEW x
  PROVE  /\ IsFiniteSet(S \cup {x})
         /\ Cardinality(S) \in Nat /\ Cardinality(S \cup {x}) \in Nat
         /\ Cardinality(S \cup {x}) <= Cardinality(S) + 1
<1>1. Cardinality(S) \in Nat
  BY FS_CardinalityType
<1>2. /\ IsFiniteSet(S \cup {x})
      /\ Cardinality(S \cup {x}) = IF x \in S THEN Cardinality(S) ELSE Cardinality(S) + 1
  BY FS_AddElement
<1> QED BY <1>1, <1>2

LEMMA AtMostTwoMore ==
  ASSUME NEW S, IsFiniteSet(S), NEW U, IsFiniteSet(U), Cardinality(S) <= Cardinality(U),
         NEW x, NEW y, NEW T \in SUBSET ((S \cup {x}) \cup {y})
  PROVE  IsFiniteSet(T) /\ Cardinality(T) <= Cardinality(U) + 2
<1>1. /\ IsFiniteSet(S \cup {x}) /\ Cardinality(S) \in Nat /\ Cardinality(S \cup {x}) \in Nat
      /\ Cardinality(S \cup {x}) <= Cardinality(S) + 1
  BY AtMostOneMore
<1> DEFINE both == (S \cup {x}) \cup {y}
<1>2. /\ IsFiniteSet(both) /\ Cardinality(both) \in Nat
      /\ Cardinality(both) <= Cardinality(S \cup {x}) + 1
  BY <1>1, AtMostOneMore
<1>3. IsFiniteSet(T) /\ Cardinality(T) <= Cardinality(both)
  <2> HIDE DEF both
  <2>1. T \in SUBSET both
    BY DEF both
  <2> QED BY <1>2, <2>1, FS_Subset
<1>4. Cardinality(T) \in Nat /\ Cardinality(U) \in Nat
  BY <1>3, FS_CardinalityType
<1> QED BY <1>1, <1>2, <1>3, <1>4

\* A version whose lock and facts are in order has, besides what is said of
\* its hypotheses, two issues at most: a refusal and a text too long.
LEMMA IssuesAreBounded ==
  ASSUME NEW a, NEW lock, NEW d, NEW p, NEW warnings,
         LockPreserved(a, lock, d, p),
         d.facts # <<>>, ItemsOf(d.facts) \subseteq ItemsOf(lock.facts),
         IsFiniteSet(DOMAIN a.hypotheses)
  PROVE  /\ IsFiniteSet(Issues(a, lock, d, p, warnings))
         /\ Cardinality(Issues(a, lock, d, p, warnings)) <= Cardinality(DOMAIN a.hypotheses) + 2
<1> DEFINE refusal    == Issue("safety_refusal", "safety", "blocking", FALSE, "run")
           unreadable == Issue("copy_unreadable", "readability", "warning", FALSE, "run")
<1>1. Issues(a, lock, d, p, warnings) \subseteq (CultureIssues(a) \cup {refusal}) \cup {unreadable}
  <2> DEFINE safety == IF warnings \cap SafetyRefusals = {} THEN {} ELSE {refusal}
             texts  == IF "long" \notin {d.headline, d.body, d.label} THEN {} ELSE {unreadable}
  <2>1. Issues(a, lock, d, p, warnings) = UNION {safety, {}, {}, texts, CultureIssues(a)}
    BY DEF Issues, CultureIssues
  <2>2. safety \subseteq {refusal} /\ texts \subseteq {unreadable}
    OBVIOUS
  <2> HIDE DEF safety, texts, refusal, unreadable
  <2> QED BY <2>1, <2>2
<1> HIDE DEF refusal, unreadable
<1> QED BY <1>1, CultureIsBounded, AtMostTwoMore

\* A composed version can be reported on whenever the hypotheses leave room
\* for the two other issues (critic.py review, contracts.py CritiqueReport).
THEOREM ReviewsFit == PipelineSpec => []ReviewsCanBeReported
<1>1. ContentInv => ReviewsCanBeReported
  <2> SUFFICES ASSUME ContentInv, picture # None,
                      Cardinality(DOMAIN analysis.hypotheses) + 2 <= MaxItems
               PROVE  ContractAllows(FirstReport, MaxItems)
    BY DEF ReviewsCanBeReported
  <2>1. draft # None /\ status \in {"in_progress", "ready", "failed_final"}
    BY DEF ContentInv, PictureInv, DraftInv
  <2>2. PICK answer \in Answers :
          analysis.hypotheses = answer.hypotheses /\ analysis.warnings = answer.warnings
    BY <2>1 DEF ContentInv, AnalysisInv, FromAnswer
  <2>3. codes = {}
    BY <2>1 DEF ContentInv, AnalysisInv
  <2>4. /\ FirstReport.issues
             = Issues(analysis, confirmed, draft, picture, analysis.warnings \cup codes)
        /\ FirstReport.warnings = analysis.warnings \cup codes
    BY DEF FirstReport, Review
  <2>5. Consistent(FirstReport)
    BY ReviewsAreConsistent DEF FirstReport
  <2>6. /\ MaxItems \in Nat /\ IsFiniteSet(DOMAIN analysis.hypotheses)
        /\ Cardinality(analysis.warnings) <= MaxItems
    BY <2>2, AnswersAssumption
  <2>7. draft.facts # <<>> /\ ItemsOf(draft.facts) \subseteq ItemsOf(confirmed.facts)
    BY <2>1, DraftFields
  <2>8. Cardinality(FirstReport.issues) <= Cardinality(DOMAIN analysis.hypotheses) + 2
    BY <2>4, <2>6, <2>7, VersionsInOrder, IssuesAreBounded
  <2>9. IsFiniteSet(FirstReport.issues)
    BY <2>4, <2>6, <2>7, VersionsInOrder, IssuesAreBounded
  <2>10. Cardinality(FirstReport.warnings) <= MaxItems
    <3>1. analysis.warnings \cup {} = analysis.warnings
      OBVIOUS
    <3> QED BY <2>3, <2>4, <2>6, <3>1
  <2>11. Cardinality(FirstReport.issues) <= MaxItems
    BY <2>6, <2>8, <2>9, FS_CardinalityType
  <2> QED BY <2>5, <2>10, <2>11 DEF ContractAllows
<1> QED BY <1>1, ContentInvariant, PTL
=============================================================================
