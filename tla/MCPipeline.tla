----------------------------- MODULE MCPipeline -----------------------------
(* The content of a Run and the setting of a text, for TLC: two systems    *)
(* that share nothing, explored side by side; `part` says which of them a  *)
(* behaviour is about.                                                     *)
EXTENDS Pipeline, TextFit, TLC

CONSTANT Ids  \* hypothesis ids

MCLocks ==
  [identity: {"orbit"}, logo: {"logo_1", "ui_1"}, cta: {"try"}, facts: {<<"f1", "f2">>},
   uis: {<<"ui_1", "logo_1">>, <<"logo_1", "ui_1">>}, order: {<<"b1", "b2">>, <<"b2", "b1">>},
   fields: {<<"language">>, <<"language", "narrative">>}]

MCKinds == [asset \in {"logo_1", "ui_1"} |-> IF asset = "logo_1" THEN "logo" ELSE "product_ui"]

Hypotheses ==
  [market: {"china", "united_kingdom"}, claim: {"plain", "absolute", "stereotype"},
   status: {"pending"}]
  \cup [market: {"china"}, claim: {"plain"}, status: {"accepted"}]

MCAnswers ==
  [locale: {"zh-CN", "en-GB"}, hypotheses: UNION {[some -> Hypotheses] : some \in SUBSET Ids},
   warnings: {{"human_review_required"}, {"safety_refusal"}}, refusals: {{}}]
  \cup
  [locale: {"zh-CN"}, hypotheses: {<<>>}, warnings: {{}},
   refusals: (SUBSET {"instruction_like_content", "prohibited_content"}) \ {{}}]

MCCopies ==
  [locale: {"zh-CN", "en-GB"}, cta: {"try", "buy"}, facts: {<<"f1", "f2">>, <<"f1">>},
   rules: {"ZEU", "EZC"}, headline: {"short", "long"}, body: {"short", "long"},
   label: {"short", "long"}]
  \cup UNION {{FixtureCopy(lock, direction) : lock \in MCLocks} : direction \in Directions}

\* Up to five units, of width 1 to 3 and with or without a space before them.
Placed(units) ==
  LET to[i \in 0..Len(units)] ==
        IF i = 0 THEN 0 ELSE to[i - 1] + units[i].space + units[i].width
  IN [i \in DOMAIN units |-> [from |-> to[i] - units[i].width, to |-> to[i]]]

MCTexts ==
  {Placed(units) : units \in
     {some \in UNION {[1..n -> [width: 1..3, space: 0..1]] : n \in 1..5} : some[1].space = 0}}

Symmetry == Permutations(Ids)

VARIABLE part

MCInit ==
  /\ part \in {"content", "text"}
  /\ PipelineInit /\ FitInit
  /\ part = "content" => text = <<[from |-> 0, to |-> 1]>>
  /\ part = "text" => request = [direction |-> "china_to_uk", lock |-> CHOOSE lock \in Locks : TRUE]

MCNext ==
  /\ \/ part = "content" /\ PipelineNext /\ UNCHANGED fitVars
     \/ part = "text" /\ FitNext /\ UNCHANGED pipelineVars
  /\ UNCHANGED part

MCSpec == MCInit /\ [][MCNext]_<<pipelineVars, fitVars, part>>
=============================================================================
