---------------------------- MODULE CreativeRules ----------------------------
(***************************************************************************)
(* The rules a Run's content is held to, as operators: what a confirmed    *)
(* Brand Lock may change, what the draft gate and the compositor refuse,   *)
(* what the revision engine rewrites and what the Critic reports.          *)
(*   lock     [identity, logo, cta, facts, uis, order, fields]; facts,     *)
(*            uis, order and fields are sequences, identity stands for the *)
(*            product name and the layout template                         *)
(*   analysis [locale, lock, hypotheses, warnings]; hypotheses maps an id  *)
(*            to [market, claim, status]                                   *)
(*   draft    brief and copy: [direction, lock, locale, cta, facts, rules, *)
(*            headline, body, label]; a text is "short" or "long", by the  *)
(*            Critic's limits of readability                               *)
(*   picture  [logo, ui], the assets its two protected layers show         *)
(***************************************************************************)
EXTENDS Naturals, FiniteSets, Sequences

ItemsOf(seq) == {seq[i] : i \in DOMAIN seq}

-----------------------------------------------------------------------------
(* contracts.py BrandLock and brand_lock_confirmation.py.                  *)

Unique(seq) == \A i, j \in DOMAIN seq : seq[i] = seq[j] => i = j

LegalLock(lock) ==
  \A seq \in {lock.facts, lock.uis, lock.order, lock.fields} : seq # <<>> /\ Unique(seq)

ConfirmationAllowed(proposed, analyzed) ==
  /\ \A field \in {"identity", "logo", "cta", "facts", "uis"} :
       proposed[field] = analyzed[field]
  /\ Len(proposed.order) = Len(analyzed.order)
  /\ ItemsOf(proposed.order) = ItemsOf(analyzed.order)
  /\ ItemsOf(proposed.fields) \subseteq ItemsOf(analyzed.fields)

-----------------------------------------------------------------------------
(* The two directions: markets, locales and the rules a draft must cite.   *)

Directions == {"china_to_uk", "uk_to_china"}
TargetMarket(direction) == IF direction = "china_to_uk" THEN "united_kingdom" ELSE "china"
TargetLocale(direction) == IF direction = "china_to_uk" THEN "en-GB" ELSE "zh-CN"
SourceLocale(direction) == IF direction = "china_to_uk" THEN "zh-CN" ELSE "en-GB"
Rules(direction) == IF direction = "china_to_uk" THEN "ZEU" ELSE "EZC"

(* SafetyGate.validate_result, after the two refusals it reports by name.  *)
HypothesesAllowed(hypotheses, direction) ==
  \A h \in DOMAIN hypotheses :
    hypotheses[h].status = "pending" /\ hypotheses[h].market = TargetMarket(direction)

(* DraftGenerator.generate, before and after it calls the copywriter.      *)
\* Mutant of DraftAllowed: any confirmed Brand Lock is good for a draft.
DraftAllowedAnyLock(analysis, lock, direction) ==
  /\ analysis.locale = SourceLocale(direction)
  /\ \A h \in DOMAIN analysis.hypotheses : analysis.hypotheses[h].status = "pending"

DraftAllowed(analysis, lock, direction) ==
  /\ analysis.lock = lock
  /\ analysis.locale = SourceLocale(direction)
  /\ \A h \in DOMAIN analysis.hypotheses : analysis.hypotheses[h].status = "pending"

CopyAccepted(copy, lock, direction) ==
  /\ copy.locale = TargetLocale(direction)
  /\ copy.cta = lock.cta
  /\ copy.rules = Rules(direction)
  /\ copy.facts = lock.facts

FixtureCopy(lock, direction) ==
  [locale |-> TargetLocale(direction), cta |-> lock.cta, facts |-> lock.facts,
   rules |-> Rules(direction), headline |-> "short", body |-> "short", label |-> "short"]

DraftOf(copy, lock, direction) ==
  [direction |-> direction, lock |-> lock, locale |-> copy.locale, cta |-> copy.cta,
   facts |-> copy.facts, rules |-> copy.rules, headline |-> copy.headline,
   body |-> copy.body, label |-> copy.label]

-----------------------------------------------------------------------------
(* The background request, the fixture registry and the compositor.        *)

BackgroundAllowed(direction, locale) == locale = TargetLocale(direction)

\* kinds gives the kind of a registered asset; the registry resolves no other.
PictureAllowed(picture, lock, cta, kinds) ==
  /\ picture.logo \in DOMAIN kinds /\ picture.ui \in DOMAIN kinds
  /\ picture.logo = lock.logo /\ kinds[picture.logo] = "logo"
  /\ picture.ui \in ItemsOf(lock.uis) /\ kinds[picture.ui] = "product_ui"
  /\ cta = lock.cta

PictureOf(lock) == [logo |-> lock.logo, ui |-> lock.uis[1]]

-----------------------------------------------------------------------------
(* FixtureRevisionEngine.revise: the texts asked for, and nothing else.    *)

Changes == {"shorten_headline", "shorten_body"}

\* Mutant of Revised: the revised copy cites no facts.
RevisedUncited(draft, changes) ==
  [draft EXCEPT !.headline = IF "shorten_headline" \in changes THEN "short" ELSE @,
                !.facts = <<>>]

Revised(draft, changes) ==
  [draft EXCEPT !.headline = IF "shorten_headline" \in changes THEN "short" ELSE @,
                !.body = IF "shorten_body" \in changes THEN "short" ELSE @]

-----------------------------------------------------------------------------
(* critic.py: the issues of a version and the report made of them.         *)

SafetyRefusals == {"prohibited_content", "instruction_like_content", "safety_refusal"}

LockPreserved(analysis, lock, draft, picture) ==
  /\ analysis.lock = lock
  /\ draft.lock = lock
  /\ draft.cta = lock.cta
  /\ picture.logo = lock.logo
  /\ picture.ui \in ItemsOf(lock.uis)

Issue(code, category, severity, human, about) ==
  [code |-> code, category |-> category, severity |-> severity, human |-> human,
   about |-> about]

\* Mutant of HypothesisIssues: a claim about a whole population blocks.
HypothesisIssuesBlocking(h, hypothesis) ==
  IF hypothesis.claim = "absolute"
    THEN {Issue("absolute_cultural_claim", "culture", "blocking", FALSE, h)}
  ELSE IF hypothesis.claim = "stereotype"
    THEN {Issue("possible_stereotype", "culture", "warning", TRUE, h)}
  ELSE IF hypothesis.status = "pending"
    THEN {Issue("cultural_hypothesis_pending", "culture", "warning", TRUE, h)}
  ELSE {}

\* What the Critic says of one hypothesis; the first rule that fits decides.
HypothesisIssues(h, hypothesis) ==
  IF hypothesis.claim = "absolute"
    THEN {Issue("absolute_cultural_claim", "culture", "warning", FALSE, h)}
  ELSE IF hypothesis.claim = "stereotype"
    THEN {Issue("possible_stereotype", "culture", "warning", TRUE, h)}
  ELSE IF hypothesis.status = "pending"
    THEN {Issue("cultural_hypothesis_pending", "culture", "warning", TRUE, h)}
  ELSE {}

Issues(analysis, lock, draft, picture, warnings) ==
  UNION {
    IF warnings \cap SafetyRefusals = {} THEN {}
      ELSE {Issue("safety_refusal", "safety", "blocking", FALSE, "run")},
    IF LockPreserved(analysis, lock, draft, picture) THEN {}
      ELSE {Issue("brand_lock_mismatch", "brand_lock", "blocking", FALSE, "run")},
    IF draft.facts # <<>> /\ ItemsOf(draft.facts) \subseteq ItemsOf(lock.facts) THEN {}
      ELSE {Issue("unsupported_fact", "fact", "blocking", FALSE, "run")},
    IF "long" \notin {draft.headline, draft.body, draft.label} THEN {}
      ELSE {Issue("copy_unreadable", "readability", "warning", FALSE, "run")},
    UNION {HypothesisIssues(h, analysis.hypotheses[h]) : h \in DOMAIN analysis.hypotheses} }

Blocks(issues) == \E issue \in issues : issue.severity = "blocking"
NeedsHuman(issues) == \E issue \in issues : issue.human

\* Mutant of Verdict: what a human must look at comes before what blocks.
VerdictHumanFirst(issues) ==
  IF NeedsHuman(issues) THEN "needs_human_review"
  ELSE IF Blocks(issues) THEN "reject"
  ELSE IF issues # {} THEN "revise" ELSE "pass"

Verdict(issues) ==
  IF Blocks(issues) THEN "reject"
  ELSE IF NeedsHuman(issues) THEN "needs_human_review"
  ELSE IF issues # {} THEN "revise" ELSE "pass"

Review(analysis, lock, draft, picture, codes) ==
  LET warnings == analysis.warnings \cup codes
      issues   == Issues(analysis, lock, draft, picture, warnings)
  IN [status |-> Verdict(issues), issues |-> issues, warnings |-> warnings,
      preserved |-> LockPreserved(analysis, lock, draft, picture),
      human |-> NeedsHuman(issues)]

\* contracts.py CritiqueReport: what a report must satisfy to exist at all.
Consistent(report) ==
  /\ ~report.preserved =>
       \E issue \in report.issues : issue.category = "brand_lock" /\ issue.severity = "blocking"
  /\ Blocks(report.issues) <=> report.status = "reject"
  /\ report.status = "pass" => report.issues = {} /\ ~report.human
  /\ report.status = "needs_human_review" => report.human

ContractAllows(report, maxItems) ==
  /\ Consistent(report)
  /\ Cardinality(report.issues) <= maxItems
  /\ Cardinality(report.warnings) <= maxItems
=============================================================================
