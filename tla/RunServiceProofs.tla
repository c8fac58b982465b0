-------------------------- MODULE RunServiceProofs --------------------------
(***************************************************************************)
(* Theorems about RunService, for every number of workers, every set of    *)
(* keys, bodies, Brand Locks and artifacts, and every profile of faults.   *)
(* The inductive invariant joins that of the rows to what each request     *)
(* has in hand: a request that is past its claim still owns it, and what   *)
(* it read is what the rows still hold.                                    *)
(***************************************************************************)
EXTENDS RunService, RunRepositoryProofs

----------------------------------------------------------------------------
Steps ==
  {"idle", "analyze_claim", "analyze_run", "analyze_fail", "analyze_complete",
   "draft_save", "compose_render", "compose_save", "compose_discard",
   "critic_read", "critic_save", "critic_answer",
   "retry_decide", "revise_run", "revise_commit", "revise_fail", "revise_discard"}

Locals ==
  [seen : Status \cup {None}, lock : Locks \cup {None},
   verdict : Verdicts \cup {None}, artifact : Artifacts \cup {None},
   operation : OperationIds \cup {None}, response : Responses \cup {None},
   next : {"blocked", "failed", "answer", "replay", "fail", "unsaved", None}]

HandlersTypeOK ==
  /\ pc \in [Workers -> Steps]
  /\ local \in [Workers -> Locals]
  /\ reply = [w \in Workers |-> reply[w]]
  /\ stored \subseteq Artifacts

Owners == Analysing \cup Executing

\* The response of x still names the rows it was built from.
BuiltFromRows(x) ==
  /\ local[x].artifact # composition
  /\ \E verdict \in Verdicts :
       local[x].response = ResponseNow(local[x].artifact, verdict)

\* What the request of x relies on between two of its steps.
Holds(x) ==
  /\ x \in Analysing => BeingAnalysed
  /\ x \in Executing => operations[local[x].operation].state = "in_progress"
  /\ pc[x] = "revise_commit" => BuiltFromRows(x)

\* What its locals are at the steps that use them.
HasInHand(x) ==
  /\ pc[x] = "analyze_fail" =>
       local[x].seen = "in_progress" /\ local[x].next \in {"blocked", "failed"}
  /\ pc[x] = "draft_save" => local[x].lock \in Locks
  /\ pc[x] \in {"compose_save", "revise_commit"} => local[x].artifact \in Artifacts
  /\ pc[x] \in {"critic_save", "critic_answer"} => local[x].verdict \in Verdicts
  /\ pc[x] \in OperationSteps \cup {"revise_discard"} =>
       local[x].operation \in OperationIds

ServiceInv ==
  /\ IInv
  /\ HandlersTypeOK
  /\ \A x, y \in Owners : x = y
  /\ \A x \in Workers : Holds(x) /\ HasInHand(x)

----------------------------------------------------------------------------
\* What a request goes on with, and what the others keep.
LEMMA Continues ==
  ASSUME HandlersTypeOK, NEW w \in Workers, NEW step \in Steps, NEW values \in Locals,
         Continue(w, step, values)
  PROVE  /\ pc' \in [Workers -> Steps] /\ local' \in [Workers -> Locals]
         /\ reply' = [x \in Workers |-> reply'[x]]
         /\ pc'[w] = step /\ local'[w] = values /\ reply'[w] = NoReply
         /\ \A x \in Workers \ {w} :
              pc'[x] = pc[x] /\ local'[x] = local[x] /\ reply'[x] = reply[x]
         /\ faults' = faults
  BY DEF Continue, HandlersTypeOK

\* A request that ends, and what the others keep.
LEMMA Responds ==
  ASSUME HandlersTypeOK, NEW w \in Workers, NEW answer, Respond(w, answer)
  PROVE  /\ pc' \in [Workers -> Steps] /\ local' \in [Workers -> Locals]
         /\ reply' = [x \in Workers |-> reply'[x]]
         /\ pc'[w] = "idle" /\ local'[w] = NoLocal /\ reply'[w] = answer
         /\ \A x \in Workers \ {w} :
              pc'[x] = pc[x] /\ local'[x] = local[x] /\ reply'[x] = reply[x]
         /\ faults' = faults
  <1>1. NoLocal \in Locals
    BY DEF NoLocal, Locals
  <1> QED
    BY <1>1 DEF Respond, HandlersTypeOK, Steps
----------------------------------------------------------------------------
\* What an owner knows of the status, and that nobody owns a Run otherwise.
LEMMA OwnedIsInProgress ==
  ASSUME ServiceInv, NEW x \in Owners
  PROVE  /\ status = "in_progress"
         /\ x \in Analysing => analysis = None /\ critique = None
         /\ x \in Executing => /\ analysis # None /\ critique # None
                               /\ local[x].operation \in OperationIds
                               /\ operations[local[x].operation].state = "in_progress"
  <1>1. x \in Workers
    BY DEF Owners, Analysing, Executing
  <1>2. CASE x \in Analysing
    <2>1. BeingAnalysed
      BY <1>1, <1>2 DEF ServiceInv, Holds
    <2>2. critique = None
      BY <2>1 DEF ServiceInv, IInv, RowsConsistent, ColumnsFilledInOrder,
                  StatusFitsColumns, BeingAnalysed
    <2>3. x \notin Executing
      BY <1>2 DEF Analysing, Executing, OperationSteps
    <2> QED
      BY <1>2, <2>1, <2>2, <2>3 DEF BeingAnalysed
  <1>3. CASE x \in Executing
    <2>1. operations[local[x].operation].state = "in_progress"
      BY <1>1, <1>3 DEF ServiceInv, Holds
    <2>2. pc[x] \in OperationSteps \cup {"revise_discard"}
      BY <1>3 DEF Executing
    <2>3. local[x].operation \in OperationIds
      BY <1>1, <2>2 DEF ServiceInv, HasInHand
    <2>4. status = "in_progress" /\ critique # None
      BY <2>1, <2>3 DEF ServiceInv, IInv, OneActiveOperation, IdsIn
    <2>5. analysis # None
      BY <2>4 DEF ServiceInv, IInv, RowsConsistent, ColumnsFilledInOrder, StatusFitsColumns
    <2>6. x \notin Analysing
      BY <2>2 DEF Analysing, OperationSteps
    <2> QED
      BY <2>1, <2>3, <2>4, <2>5, <2>6
  <1> QED
    BY <1>2, <1>3 DEF Owners

\* What a transaction of one request must leave to the others: a Run that is
\* being analysed, an operation in progress and the rows its response names.
KeepsClaims ==
  /\ BeingAnalysed => BeingAnalysed'
  /\ \A id \in OperationIds :
       operations[id].state = "in_progress" =>
         /\ operations'[id].state = "in_progress"
         /\ composition' = composition /\ attemptCount' = attemptCount

LEMMA UnchangedKeepsClaims ==
  ASSUME UNCHANGED repositoryVars
  PROVE  KeepsClaims
  BY DEF KeepsClaims, BeingAnalysed, repositoryVars, versionOne, versionTwo

\* The transactions that write columns of version 1.
LEMMA VersionOneKeepsClaims ==
  ASSUME IInv,
         \/ ClaimAnalysis
         \/ \E lock \in Locks : ConfirmBrandLock(lock) \/ SaveDraft(lock)
         \/ \E artifact \in Artifacts : SaveComposition(artifact)
         \/ \E verdict \in Verdicts : SaveCritique(verdict)
  PROVE  KeepsClaims
  <1>1. /\ critique = None
        /\ UNCHANGED versionTwo
        /\ ~BeingAnalysed
    <2>1. CASE ClaimAnalysis
      BY <2>1 DEF ClaimAnalysis, BeingAnalysed, IInv, RowsConsistent,
                  ColumnsFilledInOrder, StatusFitsColumns
    <2>2. CASE \E lock \in Locks : ConfirmBrandLock(lock)
      BY <2>2 DEF ConfirmBrandLock, BeingAnalysed, IInv, RowsConsistent,
                  ColumnsFilledInOrder, StatusFitsColumns
    <2>3. CASE \E lock \in Locks : SaveDraft(lock)
      BY <2>3 DEF SaveDraft, BeingAnalysed, IInv, RowsConsistent,
                  ColumnsFilledInOrder, StatusFitsColumns
    <2>4. CASE \E artifact \in Artifacts : SaveComposition(artifact)
      BY <2>4 DEF SaveComposition, BeingAnalysed, IInv, RowsConsistent,
                  ColumnsFilledInOrder, StatusFitsColumns
    <2>5. CASE \E verdict \in Verdicts : SaveCritique(verdict)
      BY <2>5 DEF SaveCritique, BeingAnalysed, IInv, RowsConsistent,
                  ColumnsFilledInOrder, StatusFitsColumns
    <2> QED
      BY <2>1, <2>2, <2>3, <2>4, <2>5
  <1>2. IdsIn("in_progress") = {}
    BY <1>1 DEF IInv, OneActiveOperation
  <1> QED
    BY <1>1, <1>2 DEF KeepsClaims, IdsIn

\* The transactions that claim an operation: none was in progress.
LEMMA ClaimKeepsClaims ==
  ASSUME IInv, NEW id \in OperationIds, NEW print \in Prints,
         ClaimFeedback(id, print) \/ ClaimRetry(id, print)
  PROVE  /\ KeepsClaims /\ status # "in_progress"
         /\ operations'[id].state = "in_progress"
  <1>1. status \in {"ready", "failed_retryable"}
    BY DEF ClaimFeedback, ClaimRetry
  <1>2. IdsIn("in_progress") = {}
    BY <1>1 DEF IInv, OneActiveOperation
  <1>3. operations'[id].state = "in_progress"
    <2>1. \E row : /\ row.state = "in_progress"
                   /\ operations' = [operations EXCEPT ![id] = row]
      BY DEF ClaimFeedback, ClaimRetry, InsertFeedback, InsertRetry, NoOperation
    <2> QED
      BY <2>1 DEF IInv, TypeOK
  <1> QED
    BY <1>1, <1>2, <1>3 DEF KeepsClaims, BeingAnalysed, IdsIn

----------------------------------------------------------------------------
\* A step of w leaves the others what they hold, if its transaction keeps all
\* claims or w is the one owner.
LEMMA OthersKeep ==
  ASSUME ServiceInv, NEW w \in Workers, NEW x \in Workers \ {w},
         pc'[x] = pc[x], local'[x] = local[x], KeepsClaims \/ w \in Owners
  PROVE  /\ Holds(x)' /\ HasInHand(x)'
         /\ x \in Owners' <=> x \in Owners
  <1>1. /\ x \in Analysing' <=> x \in Analysing
        /\ x \in Executing' <=> x \in Executing
    BY DEF Analysing, Executing
  <1>2. Holds(x) /\ HasInHand(x)
    BY DEF ServiceInv
  <1>3. HasInHand(x)'
    BY <1>2 DEF HasInHand
  <1>4. CASE w \in Owners
    <2>1. x \notin Owners
      BY <1>4 DEF ServiceInv
    <2>2. pc[x] # "revise_commit"
      BY <2>1 DEF Owners, Executing, OperationSteps
    <2> QED
      BY <1>1, <1>3, <2>1, <2>2 DEF Holds, Owners
  <1>5. CASE KeepsClaims
    <2>1. x \in Analysing' => BeingAnalysed'
      BY <1>1, <1>2, <1>5 DEF Holds, KeepsClaims
    <2>2. ASSUME x \in Executing
          PROVE  /\ operations'[local[x].operation].state = "in_progress"
                 /\ composition' = composition /\ attemptCount' = attemptCount
      <3>1. /\ local[x].operation \in OperationIds
            /\ operations[local[x].operation].state = "in_progress"
        BY <2>2, OwnedIsInProgress DEF Owners
      <3> QED
        BY <1>5, <3>1 DEF KeepsClaims
    <2>3. pc[x] = "revise_commit" => x \in Executing
      BY DEF Executing, OperationSteps
    <2>4. ASSUME pc[x] = "revise_commit"
          PROVE  BuiltFromRows(x)'
      BY <1>2, <2>2, <2>3, <2>4 DEF Holds, BuiltFromRows, ResponseNow
    <2>5. x \in Executing => operations'[local'[x].operation].state = "in_progress"
      BY <2>2
    <2> QED
      BY <1>1, <1>3, <2>1, <2>4, <2>5 DEF Holds, Owners
  <1> QED
    BY <1>4, <1>5

\* What a step of w has to show for the invariant to hold after it.
LEMMA StepKeepsInv ==
  ASSUME ServiceInv, NEW w \in Workers, [RepositoryNext]_repositoryVars,
         HandlersTypeOK',
         \A x \in Workers \ {w} : pc'[x] = pc[x] /\ local'[x] = local[x],
         KeepsClaims \/ w \in Owners,
         w \notin Owners' \/ w \in Owners \/ Owners = {},
         Holds(w)', HasInHand(w)'
  PROVE  ServiceInv'
  <1>1. IInv'
    BY NextIInv DEF ServiceInv
  <1>2. \A x \in Workers : Holds(x)' /\ HasInHand(x)'
    BY OthersKeep
  <1>3. \A x \in Owners' : x \in Workers
    BY DEF Owners, Analysing, Executing
  <1>4. \A x \in Workers \ {w} : x \in Owners' => x \in Owners
    BY OthersKeep
  <1>5. ASSUME NEW x \in Owners', NEW y \in Owners'
        PROVE  x = y
    BY <1>3, <1>4, <1>5 DEF ServiceInv
  <1> QED
    BY <1>1, <1>2, <1>5 DEF ServiceInv

\* A request that ends gives up what it held.
LEMMA EndKeepsInv ==
  ASSUME ServiceInv, NEW w \in Workers, [RepositoryNext]_repositoryVars,
         NEW answer, Respond(w, answer), stored' \subseteq Artifacts,
         KeepsClaims \/ w \in Owners
  PROVE  ServiceInv'
  <1>1. /\ HandlersTypeOK' /\ pc'[w] = "idle"
        /\ \A x \in Workers \ {w} : pc'[x] = pc[x] /\ local'[x] = local[x]
    BY Responds DEF HandlersTypeOK, ServiceInv
  <1>2. w \notin Owners' /\ w \notin Analysing' /\ w \notin Executing'
    BY <1>1 DEF Owners, Analysing, Executing, OperationSteps
  <1>3. Holds(w)' /\ HasInHand(w)'
    BY <1>1, <1>2 DEF Holds, HasInHand, OperationSteps
  <1> QED
    BY <1>1, <1>2, <1>3, StepKeepsInv

\* A request that goes on holds what its next step relies on.
LEMMA ContinueKeepsInv ==
  ASSUME ServiceInv, NEW w \in Workers, [RepositoryNext]_repositoryVars,
         NEW step \in Steps, NEW values \in Locals, Continue(w, step, values),
         stored' \subseteq Artifacts, KeepsClaims \/ w \in Owners,
         w \notin Owners' \/ w \in Owners \/ Owners = {},
         Holds(w)', HasInHand(w)'
  PROVE  ServiceInv'
  <1>1. /\ HandlersTypeOK'
        /\ \A x \in Workers \ {w} : pc'[x] = pc[x] /\ local'[x] = local[x]
    BY Continues DEF HandlersTypeOK, ServiceInv
  <1> QED
    BY <1>1, StepKeepsInv

\* The steps at which a request holds no claim.
LEMMA UnclaimedKeepsInv ==
  ASSUME ServiceInv, NEW w \in Workers, [RepositoryNext]_repositoryVars,
         NEW step \in {"analyze_claim", "draft_save", "compose_render", "compose_save",
                       "compose_discard", "critic_read", "critic_save", "critic_answer"},
         NEW values \in Locals, Continue(w, step, values),
         stored' \subseteq Artifacts, KeepsClaims,
         step = "draft_save" => values.lock \in Locks,
         step = "compose_save" => values.artifact \in Artifacts,
         step \in {"critic_save", "critic_answer"} => values.verdict \in Verdicts
  PROVE  ServiceInv'
  <1>1. step \in Steps
    BY DEF Steps
  <1>2. pc'[w] = step /\ local'[w] = values
    BY <1>1, Continues DEF ServiceInv
  <1>3. w \notin Owners' /\ w \notin Analysing' /\ w \notin Executing'
    BY <1>2 DEF Owners, Analysing, Executing, OperationSteps
  <1>4. Holds(w)'
    BY <1>2, <1>3 DEF Holds
  <1>5. HasInHand(w)'
    BY <1>2 DEF HasInHand, OperationSteps
  <1> QED
    BY <1>1, <1>3, <1>4, <1>5, ContinueKeepsInv
----------------------------------------------------------------------------
\* The rows nobody writes are a stutter of the repository.
LEMMA NoTransaction ==
  ASSUME UNCHANGED <<repositoryVars, stored>>, ServiceInv
  PROVE  /\ [RepositoryNext]_repositoryVars /\ KeepsClaims
         /\ stored' \subseteq Artifacts
  <1>1. UNCHANGED repositoryVars /\ stored' = stored
    OBVIOUS
  <1> QED
    BY <1>1, UnchangedKeepsClaims DEF ServiceInv, HandlersTypeOK

LEMMA NothingInHand ==
  /\ NoLocal \in Locals
  /\ NoLocal.artifact = None /\ NoLocal.operation = None
  /\ \A id \in OperationIds :
       /\ [NoLocal EXCEPT !.operation = id] \in Locals
       /\ [NoLocal EXCEPT !.operation = id].operation = id
  /\ \A lock \in Locks :
       /\ [NoLocal EXCEPT !.lock = lock] \in Locals
       /\ [NoLocal EXCEPT !.lock = lock].lock = lock
  /\ \A verdict \in Verdicts :
       /\ [NoLocal EXCEPT !.verdict = verdict] \in Locals
       /\ [NoLocal EXCEPT !.verdict = verdict].verdict = verdict
  /\ \A artifact \in Artifacts :
       /\ [NoLocal EXCEPT !.artifact = artifact] \in Locals
       /\ [NoLocal EXCEPT !.artifact = artifact].artifact = artifact
  /\ \A seen \in Status :
       [NoLocal EXCEPT !.seen = seen] \in Locals
  /\ \A seen \in Status, next \in {"blocked", "failed"} :
       /\ [NoLocal EXCEPT !.seen = seen, !.next = next] \in Locals
       /\ [NoLocal EXCEPT !.seen = seen, !.next = next].seen = seen
       /\ [NoLocal EXCEPT !.seen = seen, !.next = next].next = next
  BY DEF NoLocal, Locals

\* The endpoints of version 1 up to their first transaction.
LEMMA InitialRequestKeeps ==
  ASSUME ServiceInv, NEW w \in Workers,
         AnalyzeRequest(w) \/ DraftRequest(w) \/ ComposeRequest(w) \/ CriticRequest(w)
  PROVE  [RepositoryNext]_repositoryVars /\ ServiceInv'
  <1>1. UNCHANGED <<repositoryVars, stored>>
    BY DEF AnalyzeRequest, DraftRequest, ComposeRequest, CriticRequest
  <1>2. /\ [RepositoryNext]_repositoryVars /\ KeepsClaims
        /\ stored' \subseteq Artifacts
    BY <1>1, NoTransaction
  <1>3. CASE AnalyzeRequest(w)
    <2>1. \/ \E answer : Respond(w, answer)
          \/ Continue(w, "analyze_claim", NoLocal)
      BY <1>3, Zenon DEF AnalyzeRequest, Reject
    <2> QED
      BY <1>2, <2>1, EndKeepsInv, UnclaimedKeepsInv, NothingInHand
  <1>4. CASE DraftRequest(w)
    <2>1. \/ \E answer : Respond(w, answer)
          \/ /\ Continue(w, "draft_save", [NoLocal EXCEPT !.lock = confirmed])
             /\ None \notin {analysis, confirmed}
      BY <1>4, Zenon DEF DraftRequest, Reject
    <2>2. confirmed \in Locks \cup {None}
      BY DEF ServiceInv, IInv, TypeOK
    <2>3. CASE \E answer : Respond(w, answer)
      BY <1>2, <2>3, EndKeepsInv
    <2>4. CASE Continue(w, "draft_save", [NoLocal EXCEPT !.lock = confirmed])
               /\ None \notin {analysis, confirmed}
      <3> DEFINE values == [NoLocal EXCEPT !.lock = confirmed]
      <3>1. values \in Locals /\ values.lock \in Locks
        BY <2>2, <2>4, NothingInHand
      <3> HIDE DEF values
      <3> QED
        BY <1>2, <2>4, <3>1, UnclaimedKeepsInv DEF values
    <2> QED
      BY <2>1, <2>3, <2>4
  <1>5. CASE ComposeRequest(w)
    <2>1. \/ \E answer : Respond(w, answer)
          \/ Continue(w, "compose_render", NoLocal)
      BY <1>5, Zenon DEF ComposeRequest, Reject
    <2> QED
      BY <1>2, <2>1, EndKeepsInv, UnclaimedKeepsInv, NothingInHand
  <1>6. CASE CriticRequest(w)
    <2>1. Continue(w, "critic_read", [NoLocal EXCEPT !.seen = status])
      BY <1>6 DEF CriticRequest
    <2>2. status \in Status
      BY DEF ServiceInv, IInv, TypeOK
    <2> QED
      BY <1>2, <2>1, <2>2, UnclaimedKeepsInv, NothingInHand
  <1> QED
    BY <1>3, <1>4, <1>5, <1>6

\* claim_analysis and what the request that won it does: it owns the Run until
\* complete_analysis or record_failure, or for good.
LEMMA AnalyzeClaimKeeps ==
  ASSUME ServiceInv, NEW w \in Workers, AnalyzeClaim(w)
  PROVE  [RepositoryNext]_repositoryVars /\ ServiceInv'
  <1>1. stored' \subseteq Artifacts
    BY DEF AnalyzeClaim, ServiceInv, HandlersTypeOK
  <1>2. CASE ClaimAnalysis
    <2>1. KeepsClaims /\ [RepositoryNext]_repositoryVars
      BY <1>2, VersionOneKeepsClaims DEF ServiceInv, RepositoryNext
    <2>2. Owners = {} /\ BeingAnalysed'
      <3>1. status = "pending"
        BY <1>2 DEF ClaimAnalysis
      <3>2. analysis = None
        BY <3>1 DEF ServiceInv, IInv, RowsConsistent, ColumnsFilledInOrder, StatusFitsColumns
      <3> QED
        BY <1>2, <3>1, <3>2, OwnedIsInProgress
           DEF ClaimAnalysis, BeingAnalysed, versionOne
    <2>3. CASE Continue(w, "analyze_run", NoLocal)
      <3>1. "analyze_run" \in Steps
        BY DEF Steps
      <3>2. pc'[w] = "analyze_run"
        BY <2>3, <3>1, Continues, NothingInHand DEF ServiceInv
      <3>3. Holds(w)' /\ HasInHand(w)'
        BY <2>2, <3>2 DEF Holds, HasInHand, Executing, OperationSteps
      <3> QED
        BY <1>1, <2>1, <2>2, <2>3, <3>1, <3>3, ContinueKeepsInv, NothingInHand
    <2>4. CASE Reject(w, To("analyze"))
      BY <1>1, <2>1, <2>4, EndKeepsInv DEF Reject
    <2> QED
      <3>1. status' # status
        BY <1>2 DEF ClaimAnalysis
      <3>2. ~UNCHANGED repositoryVars
        BY <3>1 DEF repositoryVars
      <3> QED
        BY <2>1, <2>3, <2>4, <3>2 DEF AnalyzeClaim
  <1>3. CASE Reject(w, To("analyze")) /\ UNCHANGED repositoryVars
    BY <1>1, <1>3, UnchangedKeepsClaims, EndKeepsInv DEF Reject
  <1> QED
    BY <1>2, <1>3 DEF AnalyzeClaim

LEMMA AnalyzeRunKeeps ==
  ASSUME ServiceInv, NEW w \in Workers, AnalyzeRun(w)
  PROVE  [RepositoryNext]_repositoryVars /\ ServiceInv'
  <1>1. /\ [RepositoryNext]_repositoryVars /\ KeepsClaims
        /\ stored' \subseteq Artifacts
    BY NoTransaction DEF AnalyzeRun
  <1>2. w \in Analysing /\ w \in Owners
    BY DEF AnalyzeRun, Analysing, Owners
  <1>3. BeingAnalysed /\ BeingAnalysed' /\ status = "in_progress"
    BY <1>1, <1>2 DEF ServiceInv, Holds, KeepsClaims, BeingAnalysed
  <1>4. CASE \E answer : Respond(w, answer)
    BY <1>1, <1>4, EndKeepsInv
  <1>5. CASE Continue(w, "analyze_complete", NoLocal)
    <2>1. "analyze_complete" \in Steps
      BY DEF Steps
    <2>2. pc'[w] = "analyze_complete"
      BY <1>5, <2>1, Continues, NothingInHand DEF ServiceInv
    <2>3. Holds(w)' /\ HasInHand(w)'
      BY <1>3, <2>2 DEF Holds, HasInHand, Executing, OperationSteps
    <2> QED
      BY <1>1, <1>2, <1>5, <2>1, <2>3, ContinueKeepsInv, NothingInHand
  <1>6. ASSUME NEW target \in {"blocked", "failed"},
               Continue(w, "analyze_fail", [NoLocal EXCEPT !.seen = status, !.next = target])
        PROVE  ServiceInv'
    <2> DEFINE values == [NoLocal EXCEPT !.seen = status, !.next = target]
    <2>1. "analyze_fail" \in Steps
      BY DEF Steps
    <2>2. status \in Status
      BY DEF ServiceInv, IInv, TypeOK
    <2>3. values \in Locals /\ values.seen = status /\ values.next = target
      BY <2>2, NothingInHand
    <2> HIDE DEF values
    <2>4. pc'[w] = "analyze_fail" /\ local'[w] = values
      BY <1>6, <2>1, <2>3, Continues DEF ServiceInv, values
    <2>5. Holds(w)' /\ HasInHand(w)'
      BY <1>3, <2>3, <2>4 DEF Holds, HasInHand, Executing, OperationSteps
    <2> QED
      BY <1>1, <1>2, <1>6, <2>1, <2>3, <2>5, ContinueKeepsInv DEF values
  <1> QED
    BY <1>1, <1>4, <1>5, <1>6 DEF AnalyzeRun, Reject

LEMMA AnalyzeFailKeeps ==
  ASSUME ServiceInv, NEW w \in Workers, AnalyzeFail(w)
  PROVE  [RepositoryNext]_repositoryVars /\ ServiceInv'
  <1>1. w \in Analysing /\ w \in Owners
    BY DEF AnalyzeFail, Analysing, Owners
  <1>2. BeingAnalysed /\ local[w].seen = status /\ local[w].next \in {"blocked", "failed"}
    BY <1>1 DEF AnalyzeFail, ServiceInv, Holds, HasInHand, BeingAnalysed
  <1>3. [RepositoryNext]_repositoryVars
    BY <1>2 DEF AnalyzeFail, RepositoryNext
  <1>4. Respond(w, Answer(To("analyze"), "rejected", None)) /\ stored' \subseteq Artifacts
    BY DEF AnalyzeFail, Reject, ServiceInv, HandlersTypeOK
  <1> QED
    BY <1>1, <1>3, <1>4, EndKeepsInv

LEMMA AnalyzeCompleteKeeps ==
  ASSUME ServiceInv, NEW w \in Workers, AnalyzeComplete(w)
  PROVE  [RepositoryNext]_repositoryVars /\ ServiceInv'
  <1>1. w \in Analysing /\ w \in Owners
    BY DEF AnalyzeComplete, Analysing, Owners
  <1>2. BeingAnalysed
    BY <1>1 DEF ServiceInv, Holds
  <1>3. [RepositoryNext]_repositoryVars
    BY <1>2 DEF AnalyzeComplete, RepositoryNext
  <1>4. (\E answer : Respond(w, answer)) /\ stored' \subseteq Artifacts
    BY DEF AnalyzeComplete, Reject, ServiceInv, HandlersTypeOK
  <1> QED
    BY <1>1, <1>3, <1>4, EndKeepsInv

\* confirm and draft: their transactions only fill a column of version 1.
LEMMA ConfirmRequestKeeps ==
  ASSUME ServiceInv, NEW w \in Workers, NEW lock \in Locks, ConfirmRequest(w, lock)
  PROVE  [RepositoryNext]_repositoryVars /\ ServiceInv'
  <1>1. (\E answer : Respond(w, answer)) /\ stored' \subseteq Artifacts
    BY DEF ConfirmRequest, Reject, ServiceInv, HandlersTypeOK
  <1>2. CASE ConfirmBrandLock(lock)
    BY <1>1, <1>2, VersionOneKeepsClaims, EndKeepsInv DEF ServiceInv, RepositoryNext
  <1>3. CASE UNCHANGED repositoryVars
    BY <1>1, <1>3, UnchangedKeepsClaims, EndKeepsInv
  <1> QED
    BY <1>2, <1>3 DEF ConfirmRequest

LEMMA DraftSaveKeeps ==
  ASSUME ServiceInv, NEW w \in Workers, DraftSave(w)
  PROVE  [RepositoryNext]_repositoryVars /\ ServiceInv'
  <1>1. (\E answer : Respond(w, answer)) /\ stored' \subseteq Artifacts
    BY DEF DraftSave, Reject, ServiceInv, HandlersTypeOK
  <1>2. local[w].lock \in Locks
    BY DEF DraftSave, ServiceInv, HasInHand
  <1>3. CASE SaveDraft(local[w].lock)
    BY <1>1, <1>2, <1>3, VersionOneKeepsClaims, EndKeepsInv DEF ServiceInv, RepositoryNext
  <1>4. CASE UNCHANGED repositoryVars
    BY <1>1, <1>4, UnchangedKeepsClaims, EndKeepsInv
  <1> QED
    BY <1>3, <1>4 DEF DraftSave
----------------------------------------------------------------------------
\* The composition service: the artifact is saved under an id of its own
\* before save_composition looks at the rows.
LEMMA ComposeRenderKeeps ==
  ASSUME ServiceInv, NEW w \in Workers, ComposeRender(w)
  PROVE  [RepositoryNext]_repositoryVars /\ ServiceInv'
  <1>1. [RepositoryNext]_repositoryVars /\ KeepsClaims
    BY UnchangedKeepsClaims DEF ComposeRender
  <1>2. ASSUME NEW artifact \in FreshArtifacts, stored' = stored \cup {artifact},
               Continue(w, "compose_save", [NoLocal EXCEPT !.artifact = artifact])
        PROVE  ServiceInv'
    <2> DEFINE values == [NoLocal EXCEPT !.artifact = artifact]
    <2>1. artifact \in Artifacts
      BY DEF FreshArtifacts
    <2>2. values \in Locals /\ values.artifact \in Artifacts
      BY <2>1, NothingInHand
    <2>3. stored' \subseteq Artifacts
      BY <1>2, <2>1 DEF ServiceInv, HandlersTypeOK
    <2> HIDE DEF values
    <2> QED
      BY <1>1, <1>2, <2>2, <2>3, UnclaimedKeepsInv DEF values
  <1>3. stored' \subseteq Artifacts
    BY DEF ComposeRender, FreshArtifacts, ServiceInv, HandlersTypeOK
  <1>4. CASE Reject(w, To("composition"))
    BY <1>1, <1>3, <1>4, EndKeepsInv DEF Reject
  <1>5. ASSUME NEW artifact \in FreshArtifacts,
               Continue(w, "compose_discard",
                 [NoLocal EXCEPT !.artifact = artifact, !.next = "unsaved"])
        PROVE  ServiceInv'
    <2> DEFINE values == [NoLocal EXCEPT !.artifact = artifact, !.next = "unsaved"]
    <2>1. values \in Locals
      BY DEF FreshArtifacts, NoLocal, Locals
    <2> HIDE DEF values
    <2> QED
      BY <1>1, <1>3, <1>5, <2>1, UnclaimedKeepsInv DEF values
  <1> QED
    BY <1>1, <1>2, <1>4, <1>5 DEF ComposeRender

LEMMA ComposeSaveKeeps ==
  ASSUME ServiceInv, NEW w \in Workers, ComposeSave(w)
  PROVE  [RepositoryNext]_repositoryVars /\ ServiceInv'
  <1>1. local[w].artifact \in Artifacts /\ local[w] \in Locals
    BY DEF ComposeSave, ServiceInv, HasInHand, HandlersTypeOK
  <1>2. stored' \subseteq Artifacts
    BY DEF ComposeSave, ServiceInv, HandlersTypeOK
  <1>3. [RepositoryNext]_repositoryVars /\ KeepsClaims
    <2>1. CASE SaveComposition(local[w].artifact)
      BY <1>1, <2>1, VersionOneKeepsClaims DEF ServiceInv, RepositoryNext
    <2>2. CASE UNCHANGED repositoryVars
      BY <2>2, UnchangedKeepsClaims
    <2> QED
      BY <2>1, <2>2 DEF ComposeSave
  <1>4. CASE \E answer : Respond(w, answer)
    BY <1>2, <1>3, <1>4, EndKeepsInv
  <1>5. ASSUME NEW next \in {"answer", "replay"},
               Continue(w, "compose_discard", [local[w] EXCEPT !.next = next])
        PROVE  ServiceInv'
    <2> DEFINE values == [local[w] EXCEPT !.next = next]
    <2>1. values \in Locals
      BY <1>1 DEF Locals
    <2> HIDE DEF values
    <2> QED
      BY <1>2, <1>3, <1>5, <2>1, UnclaimedKeepsInv DEF values
  <1> QED
    BY <1>3, <1>4, <1>5 DEF ComposeSave

LEMMA ComposeDiscardKeeps ==
  ASSUME ServiceInv, NEW w \in Workers, ComposeDiscard(w)
  PROVE  [RepositoryNext]_repositoryVars /\ ServiceInv'
  <1>1. [RepositoryNext]_repositoryVars /\ KeepsClaims
    BY UnchangedKeepsClaims DEF ComposeDiscard
  <1>2. (\E answer : Respond(w, answer)) /\ stored' \subseteq Artifacts
    BY DEF ComposeDiscard, Reject, ServiceInv, HandlersTypeOK
  <1> QED
    BY <1>1, <1>2, EndKeepsInv

----------------------------------------------------------------------------
\* The critic endpoint.
LEMMA CriticReadKeeps ==
  ASSUME ServiceInv, NEW w \in Workers, CriticRead(w)
  PROVE  [RepositoryNext]_repositoryVars /\ ServiceInv'
  <1>1. /\ [RepositoryNext]_repositoryVars /\ KeepsClaims
        /\ stored' \subseteq Artifacts
    BY NoTransaction DEF CriticRead
  <1>2. CASE \E answer : Respond(w, answer)
    BY <1>1, <1>2, EndKeepsInv
  <1>3. ASSUME NEW verdict \in CriticVerdicts,
               Continue(w, "critic_save", [NoLocal EXCEPT !.verdict = verdict])
        PROVE  ServiceInv'
    <2> DEFINE values == [NoLocal EXCEPT !.verdict = verdict]
    <2>1. verdict \in Verdicts
      BY CriticAssumption
    <2>2. values \in Locals /\ values.verdict \in Verdicts
      BY <2>1, NothingInHand
    <2> HIDE DEF values
    <2> QED
      BY <1>1, <1>3, <2>2, UnclaimedKeepsInv DEF values
  <1> QED
    BY <1>1, <1>2, <1>3 DEF CriticRead, AnswerCritique, Reject

LEMMA CriticSaveKeeps ==
  ASSUME ServiceInv, NEW w \in Workers, CriticSave(w)
  PROVE  [RepositoryNext]_repositoryVars /\ ServiceInv'
  <1>1. local[w].verdict \in Verdicts /\ local[w] \in Locals
    BY DEF CriticSave, ServiceInv, HasInHand, HandlersTypeOK
  <1>2. stored' \subseteq Artifacts
    BY DEF CriticSave, ServiceInv, HandlersTypeOK
  <1>3. [RepositoryNext]_repositoryVars /\ KeepsClaims
    <2>1. CASE SaveCritique(local[w].verdict)
      BY <1>1, <2>1, VersionOneKeepsClaims DEF ServiceInv, RepositoryNext
    <2>2. CASE UNCHANGED repositoryVars
      BY <2>2, UnchangedKeepsClaims
    <2> QED
      BY <2>1, <2>2 DEF CriticSave
  <1>4. CASE \E answer : Respond(w, answer)
    BY <1>2, <1>3, <1>4, EndKeepsInv
  <1>5. CASE Continue(w, "critic_answer", local[w])
    BY <1>1, <1>2, <1>3, <1>5, UnclaimedKeepsInv
  <1> QED
    BY <1>3, <1>4, <1>5 DEF CriticSave, Reject

LEMMA CriticAnswerKeeps ==
  ASSUME ServiceInv, NEW w \in Workers, CriticAnswer(w)
  PROVE  [RepositoryNext]_repositoryVars /\ ServiceInv'
  <1>1. /\ [RepositoryNext]_repositoryVars /\ KeepsClaims
        /\ stored' \subseteq Artifacts
    BY NoTransaction DEF CriticAnswer
  <1>2. \E answer : Respond(w, answer)
    BY DEF CriticAnswer, AnswerCritique, Reject
  <1> QED
    BY <1>1, <1>2, EndKeepsInv

LEMMA InitialVersionKeeps ==
  ASSUME ServiceInv, NEW w \in Workers,
         InitialVersionRequest(w) \/ InitialVersionStep(w)
  PROVE  [RepositoryNext]_repositoryVars /\ ServiceInv'
  BY InitialRequestKeeps, AnalyzeClaimKeeps, AnalyzeRunKeeps, AnalyzeFailKeeps,
     AnalyzeCompleteKeeps, ConfirmRequestKeeps, DraftSaveKeeps,
     ComposeRenderKeeps, ComposeSaveKeeps, ComposeDiscardKeeps,
     CriticReadKeeps, CriticSaveKeeps, CriticAnswerKeeps
     DEF InitialVersionRequest, InitialVersionStep
----------------------------------------------------------------------------
\* The revision service: the feedback and retry endpoints claim an operation.
LEMMA RevisionRequestKeeps ==
  ASSUME ServiceInv, NEW w \in Workers, RevisionRequest(w)
  PROVE  [RepositoryNext]_repositoryVars /\ ServiceInv'
  <1>1. PICK id \in OperationIds, print \in Prints, step \in {"revise_run", "retry_decide"} :
          /\ UNCHANGED stored
          /\ \/ UNCHANGED repositoryVars /\ \E answer : Respond(w, answer)
             \/ /\ ClaimFeedback(id, print) \/ ClaimRetry(id, print)
                /\ \/ \E answer : Respond(w, answer)
                   \/ Continue(w, step, [NoLocal EXCEPT !.operation = id])
    <2>1. PICK key \in Keys, print \in Prints :
            FeedbackRequest(w, key, print) \/ RetryRequest(w, key, print)
      BY DEF RevisionRequest
    <2>2. <<"feedback", key>> \in OperationIds /\ <<"retry", key>> \in OperationIds
      BY DEF OperationIds
    <2>3. CASE FeedbackRequest(w, key, print)
      BY <2>2, <2>3 DEF FeedbackRequest, Known, Reject
    <2>4. CASE RetryRequest(w, key, print)
      BY <2>2, <2>4 DEF RetryRequest, Known, Reject
    <2> QED
      BY <2>1, <2>3, <2>4
  <1>2. stored' \subseteq Artifacts
    BY <1>1 DEF ServiceInv, HandlersTypeOK
  <1>3. CASE UNCHANGED repositoryVars /\ \E answer : Respond(w, answer)
    BY <1>2, <1>3, UnchangedKeepsClaims, EndKeepsInv
  <1>4. CASE ClaimFeedback(id, print) \/ ClaimRetry(id, print)
    <2>1. [RepositoryNext]_repositoryVars
      BY <1>4 DEF RepositoryNext
    <2>2. /\ KeepsClaims /\ status # "in_progress"
          /\ operations'[id].state = "in_progress"
      BY <1>4, ClaimKeepsClaims DEF ServiceInv
    <2>3. Owners = {}
      BY <2>2, OwnedIsInProgress
    <2>4. CASE \E answer : Respond(w, answer)
      BY <1>2, <2>1, <2>2, <2>4, EndKeepsInv
    <2>5. CASE Continue(w, step, [NoLocal EXCEPT !.operation = id])
      <3> DEFINE values == [NoLocal EXCEPT !.operation = id]
      <3>1. values \in Locals /\ values.operation = id /\ step \in Steps
        BY NothingInHand DEF Steps
      <3> HIDE DEF values
      <3>2. pc'[w] = step /\ local'[w] = values
        BY <2>5, <3>1, Continues DEF ServiceInv, values
      <3>3. Holds(w)' /\ HasInHand(w)'
        BY <2>2, <3>1, <3>2 DEF Holds, HasInHand, Analysing
      <3> QED
        BY <1>2, <2>1, <2>2, <2>3, <2>5, <3>1, <3>3, ContinueKeepsInv DEF values
    <2>6. repositoryVars' # repositoryVars
      BY <1>4, <2>2 DEF ClaimFeedback, ClaimRetry, repositoryVars
    <2> QED
      BY <1>1, <2>1, <2>4, <2>5, <2>6
  <1>5. CASE UNCHANGED repositoryVars \/ ClaimFeedback(id, print) \/ ClaimRetry(id, print)
    BY <1>1, <1>3, <1>4, <1>5
  <1> QED
    BY <1>1, <1>5

\* A request that executes an operation, between its claim and its commit.
LEMMA ExecutingContinues ==
  ASSUME ServiceInv, NEW w \in Executing, UNCHANGED repositoryVars,
         stored' \subseteq Artifacts,
         NEW step \in {"revise_run", "revise_commit", "revise_fail", "revise_discard"},
         NEW values \in Locals, values.operation = local[w].operation,
         Continue(w, step, values),
         step = "revise_commit" =>
           /\ values.artifact \in Artifacts /\ values.artifact # composition
           /\ \E verdict \in Verdicts : values.response = ResponseNow(values.artifact, verdict)
  PROVE  ServiceInv'
  <1>1. w \in Workers /\ w \in Owners /\ step \in Steps
    BY DEF Executing, Owners, Steps
  <1>2. pc'[w] = step /\ local'[w] = values
    BY <1>1, Continues DEF ServiceInv
  <1>3. /\ local[w].operation \in OperationIds
        /\ operations[local[w].operation].state = "in_progress"
    BY <1>1, OwnedIsInProgress
  <1>4. [RepositoryNext]_repositoryVars /\ KeepsClaims
    BY UnchangedKeepsClaims
  <1>5. operations' = operations /\ composition' = composition /\ attemptCount' = attemptCount
    BY DEF repositoryVars, versionOne, versionTwo
  <1>6. step = "revise_commit" => BuiltFromRows(w)'
    BY <1>2, <1>5 DEF BuiltFromRows, ResponseNow
  <1>7. Holds(w)'
    BY <1>2, <1>3, <1>5, <1>6 DEF Holds, Analysing
  <1>8. HasInHand(w)'
    BY <1>2, <1>3 DEF HasInHand
  <1> QED
    BY <1>1, <1>4, <1>7, <1>8, ContinueKeepsInv
LEMMA RetryDecideKeeps ==
  ASSUME ServiceInv, NEW w \in Workers, RetryDecide(w)
  PROVE  [RepositoryNext]_repositoryVars /\ ServiceInv'
  <1>1. /\ [RepositoryNext]_repositoryVars /\ KeepsClaims
        /\ stored' \subseteq Artifacts
    BY NoTransaction DEF RetryDecide
  <1>2. w \in Executing /\ local[w] \in Locals /\ UNCHANGED repositoryVars
    BY DEF RetryDecide, Executing, OperationSteps, ServiceInv, HandlersTypeOK
  <1>3. CASE Continue(w, "revise_run", local[w])
    BY <1>1, <1>2, <1>3, ExecutingContinues
  <1>4. CASE Reject(w, local[w].operation)
    BY <1>1, <1>4, EndKeepsInv DEF Reject
  <1> QED
    BY <1>1, <1>3, <1>4 DEF RetryDecide

\* Rendering the revision saves an artifact no row refers to, and builds the
\* response from rows nobody else writes meanwhile.
LEMMA ReviseRunKeeps ==
  ASSUME ServiceInv, NEW w \in Workers, ReviseRun(w)
  PROVE  [RepositoryNext]_repositoryVars /\ ServiceInv'
  <1>1. w \in Executing /\ local[w] \in Locals /\ UNCHANGED repositoryVars
    BY DEF ReviseRun, Executing, OperationSteps, ServiceInv, HandlersTypeOK
  <1>2. [RepositoryNext]_repositoryVars /\ KeepsClaims
    BY <1>1, UnchangedKeepsClaims
  <1>3. \A artifact \in FreshArtifacts :
          artifact \in Artifacts /\ artifact # composition /\ artifact # None
    BY NoneAssumption DEF FreshArtifacts, Referenced
  <1>4. stored' \subseteq Artifacts
    <2>1. stored \subseteq Artifacts
      BY DEF ServiceInv, HandlersTypeOK
    <2>2. UNCHANGED stored \/ \E artifact \in FreshArtifacts : stored' = stored \cup {artifact}
      BY DEF ReviseRun
    <2> QED
      BY <1>3, <2>1, <2>2
  <1>5. ASSUME NEW artifact \in FreshArtifacts, NEW verdict \in CriticVerdicts,
               VersionOneReviewed,
               Continue(w, "revise_commit",
                 [local[w] EXCEPT !.artifact = artifact,
                                  !.response = ResponseNow(artifact, verdict)])
        PROVE  ServiceInv'
    <2> DEFINE values == [local[w] EXCEPT !.artifact = artifact,
                                          !.response = ResponseNow(artifact, verdict)]
    <2>1. verdict \in Verdicts /\ artifact \in Artifacts /\ artifact # composition
      BY <1>3, CriticAssumption
    <2>2. ResponseNow(artifact, verdict) \in Responses
      BY <1>5, <2>1 DEF ResponseNow, Responses, VersionOneReviewed, ServiceInv, IInv, TypeOK
    <2>3. /\ values \in Locals /\ values.operation = local[w].operation
          /\ values.artifact = artifact /\ values.response = ResponseNow(artifact, verdict)
      BY <1>1, <2>1, <2>2 DEF Locals
    <2> HIDE DEF values
    <2>4. Continue(w, "revise_commit", values)
      BY <1>5 DEF values
    <2> QED
      BY <1>1, <1>4, <2>1, <2>3, <2>4, ExecutingContinues
  <1>6. ASSUME Continue(w, "revise_fail", local[w])
        PROVE  ServiceInv'
    BY <1>1, <1>4, <1>6, ExecutingContinues
  <1>7. ASSUME NEW artifact \in FreshArtifacts, NEW next \in {"fail", "answer"},
               Continue(w, "revise_discard",
                 [local[w] EXCEPT !.artifact = artifact, !.next = next])
        PROVE  ServiceInv'
    <2> DEFINE values == [local[w] EXCEPT !.artifact = artifact, !.next = next]
    <2>1. values \in Locals /\ values.operation = local[w].operation
      BY <1>1, <1>3 DEF Locals
    <2> HIDE DEF values
    <2>2. Continue(w, "revise_discard", values)
      BY <1>7 DEF values
    <2> QED
      BY <1>1, <1>4, <2>1, <2>2, ExecutingContinues
  <1>8. ASSUME NEW answer, Respond(w, answer)
        PROVE  ServiceInv'
    BY <1>2, <1>4, <1>8, EndKeepsInv
  <1>9. \/ \E artifact \in FreshArtifacts, verdict \in CriticVerdicts :
             /\ VersionOneReviewed
             /\ Continue(w, "revise_commit",
                  [local[w] EXCEPT !.artifact = artifact,
                                   !.response = ResponseNow(artifact, verdict)])
        \/ Continue(w, "revise_fail", local[w])
        \/ \E artifact \in FreshArtifacts, next \in {"fail", "answer"} :
             Continue(w, "revise_discard",
                      [local[w] EXCEPT !.artifact = artifact, !.next = next])
        \/ \E answer : Respond(w, answer)
    BY DEF ReviseRun
  <1> QED
    BY <1>2, <1>5, <1>6, <1>7, <1>8, <1>9

LEMMA ReviseCommitKeeps ==
  ASSUME ServiceInv, NEW w \in Workers, ReviseCommit(w)
  PROVE  [RepositoryNext]_repositoryVars /\ ServiceInv'
  <1>1. /\ w \in Executing /\ w \in Owners
        /\ local[w] \in Locals /\ stored' \subseteq Artifacts
    BY DEF ReviseCommit, Executing, Owners, OperationSteps, ServiceInv, HandlersTypeOK
  <1>2. local[w].operation \in OperationIds /\ local[w].artifact \in Artifacts
    BY DEF ReviseCommit, ServiceInv, HasInHand, OperationSteps
  <1>3. BuiltFromRows(w)
    BY DEF ReviseCommit, ServiceInv, Holds
  <1>4. CASE CompleteRevision(local[w].operation, local[w].response)
    <2>1. [RepositoryNext]_repositoryVars
      BY <1>2, <1>3, <1>4 DEF BuiltFromRows, RepositoryNext
    <2>2. CASE \E answer : Respond(w, answer)
      BY <1>1, <2>1, <2>2, EndKeepsInv
    <2>3. CASE Continue(w, "revise_discard", [local[w] EXCEPT !.next = "answer"])
      <3> DEFINE values == [local[w] EXCEPT !.next = "answer"]
      <3>1. /\ values \in Locals /\ values.operation = local[w].operation
            /\ values.next = "answer" /\ "revise_discard" \in Steps
        BY <1>1 DEF Locals, Steps
      <3> HIDE DEF values
      <3>2. Continue(w, "revise_discard", values)
        BY <2>3 DEF values
      <3>3. pc'[w] = "revise_discard" /\ local'[w] = values
        BY <3>1, <3>2, Continues DEF ServiceInv
      <3>4. Holds(w)' /\ HasInHand(w)'
        BY <1>2, <3>1, <3>3 DEF Holds, HasInHand, Analysing, Executing, OperationSteps
      <3> QED
        BY <1>1, <2>1, <3>1, <3>2, <3>4, ContinueKeepsInv
    <2> QED
      <3>1. revision = None /\ revision' # None
        <4>1. PICK verdict \in Verdicts :
                local[w].response = ResponseNow(local[w].artifact, verdict)
          BY <1>3 DEF BuiltFromRows
        <4>2. /\ local[w].response.artifact = local[w].artifact
              /\ local[w].response.verdict = verdict
          BY <4>1 DEF ResponseNow
        <4>3. revision' = [artifact |-> local[w].artifact, verdict |-> verdict]
          BY <1>4, <4>2, Zenon DEF CompleteRevision
        <4>4. revision' \in Revisions
          BY <1>2, <4>3 DEF Revisions
        <4> QED
          BY <1>4, <4>4, NoneAssumption DEF CompleteRevision
      <3>2. ~UNCHANGED repositoryVars
        BY <3>1 DEF repositoryVars, versionTwo
      <3> QED
        BY <2>1, <2>2, <2>3, <3>2 DEF ReviseCommit
  <1>5. CASE UNCHANGED repositoryVars
             /\ Continue(w, "revise_discard", [local[w] EXCEPT !.next = "answer"])
    <2> DEFINE values == [local[w] EXCEPT !.next = "answer"]
    <2>1. values \in Locals /\ values.operation = local[w].operation
      BY <1>1 DEF Locals
    <2> HIDE DEF values
    <2>2. Continue(w, "revise_discard", values)
      BY <1>5 DEF values
    <2> QED
      BY <1>1, <1>5, <2>1, <2>2, ExecutingContinues
  <1> QED
    BY <1>4, <1>5 DEF ReviseCommit

LEMMA ReviseDiscardKeeps ==
  ASSUME ServiceInv, NEW w \in Workers, ReviseDiscard(w)
  PROVE  [RepositoryNext]_repositoryVars /\ ServiceInv'
  <1>1. /\ [RepositoryNext]_repositoryVars /\ KeepsClaims
        /\ UNCHANGED repositoryVars
    BY UnchangedKeepsClaims DEF ReviseDiscard
  <1>2. local[w] \in Locals /\ stored' \subseteq Artifacts
    BY DEF ReviseDiscard, ServiceInv, HandlersTypeOK
  <1>3. CASE \E answer : Respond(w, answer)
    BY <1>1, <1>2, <1>3, EndKeepsInv
  <1>4. CASE /\ local[w].next = "fail"
             /\ Continue(w, "revise_fail", [local[w] EXCEPT !.artifact = None])
    <2> DEFINE values == [local[w] EXCEPT !.artifact = None]
    <2>1. values \in Locals /\ values.operation = local[w].operation
      BY <1>2 DEF Locals
    <2> HIDE DEF values
    <2>2. Continue(w, "revise_fail", values)
      BY <1>4 DEF values
    <2>3. w \in Executing
      BY <1>4 DEF ReviseDiscard, Executing
    <2> QED
      BY <1>1, <1>2, <2>1, <2>2, <2>3, ExecutingContinues
  <1> QED
    BY <1>1, <1>3, <1>4 DEF ReviseDiscard, Reject

LEMMA ReviseFailKeeps ==
  ASSUME ServiceInv, NEW w \in Workers, ReviseFail(w)
  PROVE  [RepositoryNext]_repositoryVars /\ ServiceInv'
  <1> DEFINE id == local[w].operation
             action == IF id[1] = "retry" THEN "do_not_retry" ELSE "retry_once"
  <1>1. w \in Owners /\ (\E answer : Respond(w, answer)) /\ stored' \subseteq Artifacts
    BY DEF ReviseFail, Executing, Owners, OperationSteps, ServiceInv, HandlersTypeOK
  <1>2. id \in OperationIds
    BY DEF ReviseFail, ServiceInv, HasInHand, OperationSteps
  <1>3. <<"connection_before_acceptance", action>> \in Failures
    BY RecordedFailuresAssumption
  <1>4. CASE FailOperation(id, "connection_before_acceptance", action)
    <2>1. PICK failure \in Failures :
            failure[1] = "connection_before_acceptance" /\ failure[2] = action
      BY <1>3
    <2> HIDE DEF id, action
    <2>2. FailOperation(id, failure[1], failure[2])
      BY <1>4, <2>1
    <2> QED
      BY <1>1, <1>2, <2>2, EndKeepsInv DEF RepositoryNext
  <1>5. CASE UNCHANGED repositoryVars
    BY <1>1, <1>5, EndKeepsInv
  <1> QED
    BY <1>4, <1>5 DEF ReviseFail

\* A process that ends drops what it held: no other request takes it up.
LEMMA CrashKeeps ==
  ASSUME ServiceInv, NEW w \in Workers, Crash(w)
  PROVE  [RepositoryNext]_repositoryVars /\ ServiceInv'
  <1>1. [RepositoryNext]_repositoryVars /\ KeepsClaims
    BY UnchangedKeepsClaims DEF Crash
  <1>2. /\ HandlersTypeOK' /\ pc'[w] = "idle"
        /\ \A x \in Workers \ {w} : pc'[x] = pc[x] /\ local'[x] = local[x]
    <2>1. "idle" \in Steps /\ NoLocal \in Locals
      BY NothingInHand DEF Steps
    <2>2. /\ pc' = [pc EXCEPT ![w] = "idle"] /\ local' = [local EXCEPT ![w] = NoLocal]
          /\ reply' = reply /\ stored' = stored
      BY DEF Crash
    <2>3. HandlersTypeOK
      BY DEF ServiceInv
    <2> QED
      BY <2>1, <2>2, <2>3 DEF HandlersTypeOK
  <1>3. w \notin Owners' /\ w \notin Analysing' /\ w \notin Executing'
    BY <1>2 DEF Owners, Analysing, Executing, OperationSteps
  <1>4. Holds(w)' /\ HasInHand(w)'
    BY <1>2, <1>3 DEF Holds, HasInHand, OperationSteps
  <1> QED
    BY <1>1, <1>2, <1>3, <1>4, StepKeepsInv

----------------------------------------------------------------------------
LEMMA InitServiceInv == Init => ServiceInv
  <1> SUFFICES ASSUME Init PROVE ServiceInv
    OBVIOUS
  <1>1. IInv
    BY InitIInv DEF Init
  <1>2. HandlersTypeOK
    BY NothingInHand DEF Init, HandlersInit, HandlersTypeOK, Steps
  <1>3. \A x \in Workers : pc[x] = "idle"
    BY DEF Init, HandlersInit
  <1>4. Analysing = {} /\ Executing = {}
    BY <1>3 DEF Analysing, Executing, OperationSteps
  <1>5. \A x \in Workers : Holds(x) /\ HasInHand(x)
    BY <1>3, <1>4 DEF Holds, HasInHand, OperationSteps
  <1> QED
    BY <1>1, <1>2, <1>4, <1>5 DEF ServiceInv, Owners

LEMMA ServiceStepKeeps ==
  ASSUME ServiceInv, [Next]_vars
  PROVE  [RepositoryNext]_repositoryVars /\ ServiceInv'
  <1>1. ASSUME NEW w \in Workers, Request(w) \/ Step(w) \/ Crash(w)
        PROVE  [RepositoryNext]_repositoryVars /\ ServiceInv'
    <2>1. CASE InitialVersionRequest(w) \/ InitialVersionStep(w)
      BY <2>1, InitialVersionKeeps
    <2>2. CASE RevisionRequest(w)
      BY <2>2, RevisionRequestKeeps
    <2>3. CASE RevisionStep(w)
      BY <2>3, RetryDecideKeeps, ReviseRunKeeps, ReviseCommitKeeps,
         ReviseDiscardKeeps, ReviseFailKeeps DEF RevisionStep
    <2>4. CASE Crash(w)
      BY <2>4, CrashKeeps
    <2> QED
      BY <1>1, <2>1, <2>2, <2>3, <2>4 DEF Request, Step
  <1>2. CASE UNCHANGED vars
    <2>1. UNCHANGED repositoryVars /\ UNCHANGED <<pc, local, reply, stored>>
      BY <1>2 DEF vars, handlerVars
    <2>2. IInv'
      BY <2>1, NextIInv DEF ServiceInv
    <2>3. Analysing' = Analysing /\ Executing' = Executing /\ Owners' = Owners
      BY <2>1 DEF Analysing, Executing, Owners
    <2>4. operations' = operations /\ status' = status /\ analysis' = analysis
          /\ composition' = composition /\ attemptCount' = attemptCount
      BY <2>1 DEF repositoryVars, versionOne, versionTwo
    <2>5. ASSUME NEW x \in Workers PROVE Holds(x)' /\ HasInHand(x)'
      <3>1. Holds(x) /\ HasInHand(x)
        BY DEF ServiceInv
      <3> QED
        BY <2>1, <2>3, <2>4, <3>1
           DEF Holds, HasInHand, BuiltFromRows, ResponseNow, BeingAnalysed
    <2> QED
      BY <2>1, <2>2, <2>3, <2>5 DEF ServiceInv, HandlersTypeOK
  <1> QED
    BY <1>1, <1>2 DEF Next

THEOREM ServiceInvariantHolds == Spec => []ServiceInv
  <1>1. ServiceInv /\ [Next]_vars => ServiceInv'
    BY ServiceStepKeeps
  <1> QED
    BY InitServiceInv, <1>1, PTL DEF Spec

\* However many requests interleave, fail half way, crash and are sent again, a
\* claimed analysis or operation is worked on by one of them only, and stays
\* claimed until that one settles it (claim_analysis, claim_feedback_operation,
\* claim_retry_operation and their callers).
THEOREM ClaimsAreOwned == Spec => []ClaimsHaveOneOwner
  <1>1. ServiceInv => ClaimsHaveOneOwner
    <2> SUFFICES ASSUME ServiceInv PROVE ClaimsHaveOneOwner
      OBVIOUS
    <2>1. \A w, x \in Analysing \cup Executing : w = x
      BY DEF ServiceInv, Owners
    <2>2. ASSUME NEW w \in Analysing PROVE BeingAnalysed
      BY DEF ServiceInv, Holds, Analysing
    <2>3. \A w \in Executing : operations[local[w].operation].state = "in_progress"
      BY OwnedIsInProgress DEF Owners
    <2> QED
      BY <2>1, <2>2, <2>3 DEF ClaimsHaveOneOwner
  <1> QED
    BY ServiceInvariantHolds, <1>1, PTL

\* Every step of every handler is a transaction its callers may ask of the
\* repository, or changes no row: complete_analysis and record_failure, which
\* look at no claim, are called by the claimant, and complete_revision commits
\* a response over the rows it was built from.
THEOREM ServiceImplementsRepository == Spec => ImplementsRepository
  <1>1. Init => RepositoryInit
    BY DEF Init
  <1>2. ServiceInv /\ [Next]_vars => [RepositoryNext]_repositoryVars
    BY ServiceStepKeeps
  <1> QED
    BY ServiceInvariantHolds, <1>1, <1>2, PTL DEF Spec, ImplementsRepository, RepositorySpec

\* So what the service as a whole does to a Run is what RunLifecycle promises
\* its client.
THEOREM ServiceImplementsLifecycle == Spec => ImplementsLifecycle
  BY ServiceImplementsRepository, RepositoryImplementsLifecycle, PTL
     DEF ImplementsRepository

----------------------------------------------------------------------------
(***************************************************************************)
(* One technical retry.  The counter alone does not say why it stops at    *)
(* one: a retry is offered only before the first, and a retry that fails   *)
(* fails for good.                                                         *)
(***************************************************************************)
RetryInv ==
  /\ attemptCount <= 1
  /\ status = "failed_retryable" => attemptCount = 0
  /\ \A id \in IdsIn("in_progress") : id[1] = "feedback" => attemptCount = 0
  /\ NothingClaimedYet => attemptCount = 0

LEMMA InitialVersionLeavesOperations ==
  ASSUME NEW w \in Workers, InitialVersionRequest(w) \/ InitialVersionStep(w)
  PROVE  operations' = operations
  <1>1. UNCHANGED repositoryVars => operations' = operations
    BY DEF repositoryVars, versionTwo
  <1>2. UNCHANGED versionTwo => operations' = operations
    BY DEF versionTwo
  <1>3. AnalyzeRequest(w) \/ DraftRequest(w) \/ ComposeRequest(w) \/ CriticRequest(w)
          => operations' = operations
    BY <1>1 DEF AnalyzeRequest, DraftRequest, ComposeRequest, CriticRequest
  <1>4. AnalyzeClaim(w) => operations' = operations
    BY <1>1, <1>2 DEF AnalyzeClaim, ClaimAnalysis
  <1>5. AnalyzeFail(w) => operations' = operations
    BY <1>1, <1>2 DEF AnalyzeFail, RecordFailure
  <1>6. AnalyzeComplete(w) => operations' = operations
    BY <1>1, <1>2 DEF AnalyzeComplete, CompleteAnalysis
  <1>7. AnalyzeRun(w) \/ ComposeRender(w) \/ ComposeDiscard(w) \/ CriticRead(w) \/ CriticAnswer(w)
          => operations' = operations
    BY <1>1 DEF AnalyzeRun, ComposeRender, ComposeDiscard, CriticRead, CriticAnswer
  <1>8. (\E lock \in Locks : ConfirmRequest(w, lock)) => operations' = operations
    BY <1>1, <1>2 DEF ConfirmRequest, ConfirmBrandLock
  <1>9. DraftSave(w) => operations' = operations
    BY <1>1, <1>2 DEF DraftSave, SaveDraft
  <1>10. ComposeSave(w) => operations' = operations
    BY <1>1, <1>2 DEF ComposeSave, SaveComposition
  <1>11. CriticSave(w) => operations' = operations
    BY <1>1, <1>2 DEF CriticSave, SaveCritique
  <1> QED
    BY <1>3, <1>4, <1>5, <1>6, <1>7, <1>8, <1>9, <1>10, <1>11
       DEF InitialVersionRequest, InitialVersionStep

\* _execute: a retry that fails is not offered again.
LEMMA RetriesFailForGood ==
  ASSUME ServiceInv, [Next]_vars, NEW id \in OperationIds,
         id[1] = "retry", operations[id].state = "in_progress"
  PROVE  operations'[id].state # "failed_retryable"
  <1>1. /\ operations \in [OperationIds -> Operations]
        /\ UNCHANGED repositoryVars => operations' = operations
    BY DEF ServiceInv, IInv, TypeOK, repositoryVars, versionTwo
  <1>2. ASSUME NEW w \in Workers, RevisionRequest(w)
        PROVE  operations'[id].state # "failed_retryable"
    <2>1. PICK key \in Keys, print \in Prints :
            FeedbackRequest(w, key, print) \/ RetryRequest(w, key, print)
      BY <1>2 DEF RevisionRequest
    <2>2. \/ UNCHANGED repositoryVars
          \/ \E other \in OperationIds :
               ClaimFeedback(other, print) \/ ClaimRetry(other, print)
      BY <2>1 DEF FeedbackRequest, RetryRequest, Known, OperationIds
    <2>3. CASE UNCHANGED repositoryVars
      BY <1>1, <2>3
    <2>4. ASSUME NEW other \in OperationIds,
                 ClaimFeedback(other, print) \/ ClaimRetry(other, print)
          PROVE  operations'[id].state # "failed_retryable"
      <3>1. \E row : operations' = [operations EXCEPT ![other] = row]
                     /\ row.state = "in_progress"
        BY <2>4 DEF ClaimFeedback, ClaimRetry, InsertFeedback, InsertRetry, NoOperation
      <3> QED
        BY <1>1, <3>1
    <2> QED
      BY <2>2, <2>3, <2>4
  <1>3. ASSUME NEW w \in Workers, RevisionStep(w)
        PROVE  operations'[id].state # "failed_retryable"
    <2>1. CASE RetryDecide(w) \/ ReviseRun(w) \/ ReviseDiscard(w)
      BY <1>1, <2>1 DEF RetryDecide, ReviseRun, ReviseDiscard
    <2>2. CASE ReviseCommit(w)
      <3>1. CASE CompleteRevision(local[w].operation, local[w].response)
        <4>1. \/ operations'[id] = operations[id]
              \/ operations'[id] = [operations[id] EXCEPT !.state = "succeeded",
                                                          !.response = local[w].response]
          BY <3>1 DEF CompleteRevision
        <4>2. operations[id] \in Operations
          BY <1>1
        <4> QED
          BY <4>1, <4>2 DEF Operations
      <3>2. CASE UNCHANGED repositoryVars
        BY <1>1, <3>2
      <3> QED
        BY <2>2, <3>1, <3>2 DEF ReviseCommit
    <2>3. CASE ReviseFail(w)
      <3>1. CASE UNCHANGED repositoryVars
        BY <1>1, <3>1
      <3>2. CASE local[w].operation # id /\ ~UNCHANGED repositoryVars
        <4>1. operations'[id] = operations[id]
          BY <1>1, <2>3, <3>2 DEF ReviseFail, FailOperation
        <4> QED
          BY <4>1
      <3>3. CASE local[w].operation = id /\ ~UNCHANGED repositoryVars
        <4>1. FailOperation(id, "connection_before_acceptance", "do_not_retry")
          BY <2>3, <3>3 DEF ReviseFail
        <4>2. "do_not_retry" \notin OnceActions
          BY DEF OnceActions
        <4>3. operations' = [operations EXCEPT ![id].state = "failed_final",
                                      ![id].condition = "connection_before_acceptance",
                                      ![id].action = "do_not_retry"]
          BY <4>1, <4>2 DEF FailOperation
        <4>4. operations[id] \in Operations
          BY <1>1
        <4> QED
          BY <1>1, <4>3, <4>4 DEF Operations
      <3> QED
        BY <3>1, <3>2, <3>3
    <2> QED
      BY <1>3, <2>1, <2>2, <2>3 DEF RevisionStep
  <1>4. ASSUME NEW w \in Workers, Crash(w)
        PROVE  operations'[id].state # "failed_retryable"
    BY <1>1, <1>4 DEF Crash
  <1>5. CASE UNCHANGED vars
    BY <1>1, <1>5 DEF vars
  <1> QED
    BY <1>2, <1>3, <1>4, <1>5, InitialVersionLeavesOperations DEF Next, Request, Step

\* A transaction that leaves the operations and their counter alone never
\* offers a retry.
LEMMA NoNewOffer ==
  ASSUME IInv, RetryInv, UNCHANGED versionTwo,
         status' = "failed_retryable" => status = "failed_retryable"
  PROVE  RetryInv'
  <1>1. operations' = operations /\ attemptCount' = attemptCount
    BY DEF versionTwo
  <1>2. /\ IdsIn("in_progress")' = IdsIn("in_progress")
        /\ NothingClaimedYet' <=> NothingClaimedYet
    BY <1>1, OperationsUntouched
  <1> QED
    BY <1>1, <1>2 DEF RetryInv

\* The transactions keep the count of retries, given that a retry which fails
\* fails for good.
LEMMA RetryInvKept ==
  ASSUME IInv, IInv', RetryInv, [RepositoryNext]_repositoryVars,
         \A id \in OperationIds :
           id[1] = "retry" /\ operations[id].state = "in_progress"
             => operations'[id].state # "failed_retryable"
  PROVE  RetryInv'
  <1>1. CASE UNCHANGED repositoryVars
    BY <1>1, NoNewOffer DEF repositoryVars
  <1>2. CASE ClaimAnalysis \/ CompleteAnalysis(RequestLock)
    BY <1>2, NoNewOffer DEF ClaimAnalysis, CompleteAnalysis
  <1>3. CASE \E target \in {"blocked", "failed"} : RecordFailure(status, target)
    BY <1>3, NoNewOffer DEF RecordFailure
  <1>4. CASE \E lock \in Locks : ConfirmBrandLock(lock) \/ SaveDraft(lock)
    BY <1>4, NoNewOffer DEF ConfirmBrandLock, SaveDraft
  <1>5. CASE \E artifact \in Artifacts : SaveComposition(artifact)
    BY <1>5, NoNewOffer DEF SaveComposition
  <1>6. CASE \E verdict \in Verdicts : SaveCritique(verdict)
    BY <1>6, NoNewOffer, StatusOfCritique DEF SaveCritique
  <1>7. ASSUME NEW id \in OperationIds, NEW print \in Prints, ClaimFeedback(id, print)
        PROVE  RetryInv'
    <2>1. NothingClaimedYet
      BY <1>7 DEF ClaimFeedback, IInv, RowsConsistent, StatusFitsOperations
    <2>2. attemptCount = 0 /\ attemptCount' = 0 /\ status' = "in_progress"
      BY <1>7, <2>1 DEF ClaimFeedback, RetryInv
    <2> QED
      BY <2>2 DEF RetryInv
  <1>8. ASSUME NEW id \in OperationIds, NEW print \in Prints, ClaimRetry(id, print)
        PROVE  RetryInv'
    <2>1. attemptCount' = 1 /\ status' = "in_progress" /\ id[1] = "retry"
      BY <1>8 DEF ClaimRetry, RetryInv
    <2>2. operations'[id].state = "in_progress"
      BY <1>8, ClaimKeepsClaims
    <2>3. \A other \in IdsIn("in_progress")' : other = id
      BY <2>2 DEF IInv, OneActiveOperation, IdsIn
    <2>4. ~NothingClaimedYet'
      BY <2>2 DEF NothingClaimedYet
    <2> QED
      BY <2>1, <2>3, <2>4 DEF RetryInv
  <1>9. ASSUME NEW id \in OperationIds, operations[id].state = "in_progress",
               operations'[id].state # "absent", attemptCount' = attemptCount,
               status' # "in_progress",
               status' = "failed_retryable" => operations'[id].state = "failed_retryable"
        PROVE  RetryInv'
    <2>1. IdsIn("in_progress")' = {}
      BY <1>9 DEF IInv, OneActiveOperation
    <2>2. ~NothingClaimedYet'
      BY <1>9 DEF NothingClaimedYet
    <2>3. ASSUME status' = "failed_retryable" PROVE attemptCount = 0
      <3>1. id[1] # "retry"
        BY <1>9, <2>3
      <3>2. id[1] = "feedback"
        BY <3>1 DEF OperationIds
      <3> QED
        BY <1>9, <3>2 DEF RetryInv, IdsIn
    <2> QED
      BY <1>9, <2>1, <2>2, <2>3 DEF RetryInv
  <1>10. ASSUME NEW id \in OperationIds, NEW failure \in Failures,
                FailOperation(id, failure[1], failure[2])
         PROVE  RetryInv'
    <2> DEFINE outcome == IF failure[2] \in OnceActions THEN "failed_retryable"
                                                        ELSE "failed_final"
    <2>1. /\ operations[id].state = "in_progress" /\ operations'[id].state = outcome
          /\ status' = outcome /\ attemptCount' = attemptCount
      BY <1>10 DEF FailOperation, IInv, TypeOK, Operations
    <2>2. outcome \in {"failed_retryable", "failed_final"}
      OBVIOUS
    <2> HIDE DEF outcome
    <2> QED
      BY <1>9, <2>1, <2>2
  <1>11. ASSUME NEW id \in OperationIds, NEW response,
                CompleteRevision(id, response), response.verdict \in Verdicts
         PROVE  RetryInv'
    <2>1. /\ operations[id].state = "in_progress" /\ operations'[id].state = "succeeded"
          /\ attemptCount' = attemptCount
      BY <1>11 DEF CompleteRevision, Settled, IInv, TypeOK, Operations
    <2>2. status' \in {"ready", "failed_final"}
      BY <1>11, StatusOfCritique DEF CompleteRevision
    <2> QED
      BY <1>9, <2>1, <2>2
  <1>12. \A artifact \in Artifacts, verdict \in Verdicts :
           ResponseNow(artifact, verdict).verdict \in Verdicts
    BY DEF ResponseNow
  <1> QED
    BY <1>1, <1>2, <1>3, <1>4, <1>5, <1>6, <1>7, <1>8, <1>10, <1>11, <1>12
       DEF RepositoryNext

\* However often and under however many keys a client asks, a Run gets one
\* technical retry (claim_retry_operation, and _execute, which records
\* do_not_retry for a retry that fails).
THEOREM RetriedOnce == Spec => []OneTechnicalRetry
  <1>1. Init => RetryInv
    BY DEF Init, RepositoryInit, RetryInv, IdsIn, NoOperation
  <1>2. ServiceInv /\ ServiceInv' /\ RetryInv /\ [Next]_vars => RetryInv'
    BY ServiceStepKeeps, RetriesFailForGood, RetryInvKept DEF ServiceInv
  <1>3. RetryInv => OneTechnicalRetry
    BY DEF RetryInv, OneTechnicalRetry
  <1> QED
    BY ServiceInvariantHolds, <1>1, <1>2, <1>3, PTL DEF Spec

----------------------------------------------------------------------------
(***************************************************************************)
(* Answers stay true.  An answer tells what a column written once, or the  *)
(* row of an operation that succeeded, holds; the Critic answers a verdict *)
(* it wrote itself.                                                        *)
(***************************************************************************)
AnswerIsTrue(answer) ==
  answer.code = "ok" =>
    /\ answer.to = To("confirm") => answer.body = confirmed /\ confirmed # None
    /\ answer.to = To("draft") => answer.body = draft /\ draft # None
    /\ answer.to = To("composition") => answer.body = composition /\ composition # None
    /\ answer.to = To("critic") => answer.body = critique /\ critique # None
    /\ answer.to \in OperationIds =>
         /\ operations[answer.to].state = "succeeded"
         /\ answer.body = operations[answer.to].response

AnswersInv ==
  \A x \in Workers :
    /\ AnswerIsTrue(reply[x])
    /\ pc[x] = "critic_answer" => critique = local[x].verdict

\* What an endpoint has to show for its answer to be true.
LEMMA AnswersMade ==
  ASSUME NEW body
  PROVE  /\ \A to, code : code # "ok" => AnswerIsTrue(Answer(to, code, body))'
         /\ AnswerIsTrue(NoReply)'
         /\ AnswerIsTrue(Answer(To("analyze"), "ok", body))'
         /\ body = confirmed' /\ body # None => AnswerIsTrue(Answer(To("confirm"), "ok", body))'
         /\ body = draft' /\ body # None => AnswerIsTrue(Answer(To("draft"), "ok", body))'
         /\ body = composition' /\ body # None =>
              AnswerIsTrue(Answer(To("composition"), "ok", body))'
         /\ body = critique' /\ body # None => AnswerIsTrue(Answer(To("critic"), "ok", body))'
         /\ \A id \in OperationIds :
              operations'[id].state = "succeeded" /\ body = operations'[id].response
                => AnswerIsTrue(Answer(id, "ok", body))'
  <1>1. \A endpoint \in {"analyze", "confirm", "draft", "composition", "critic"} :
          To(endpoint) \notin OperationIds
    BY DEF To, OperationIds
  <1>2. \A one, other : To(one) = To(other) => one = other
    BY DEF To
  <1>3. \A to, code : /\ Answer(to, code, body).to = to
                      /\ Answer(to, code, body).code = code
                      /\ Answer(to, code, body).body = body
    BY DEF Answer
  <1>4. NoReply.code # "ok"
    BY NoReplyAssumption DEF NoReply
  <1>5. \A to, code : code # "ok" => AnswerIsTrue(Answer(to, code, body))'
    BY <1>3 DEF AnswerIsTrue
  <1>6. AnswerIsTrue(NoReply)'
    BY <1>4 DEF AnswerIsTrue
  <1>7. AnswerIsTrue(Answer(To("analyze"), "ok", body))'
    BY <1>1, <1>2, <1>3 DEF AnswerIsTrue
  <1>8. body = confirmed' /\ body # None => AnswerIsTrue(Answer(To("confirm"), "ok", body))'
    BY <1>1, <1>2, <1>3 DEF AnswerIsTrue
  <1>9. body = draft' /\ body # None => AnswerIsTrue(Answer(To("draft"), "ok", body))'
    BY <1>1, <1>2, <1>3 DEF AnswerIsTrue
  <1>10. body = composition' /\ body # None =>
           AnswerIsTrue(Answer(To("composition"), "ok", body))'
    BY <1>1, <1>2, <1>3 DEF AnswerIsTrue
  <1>11. body = critique' /\ body # None => AnswerIsTrue(Answer(To("critic"), "ok", body))'
    BY <1>1, <1>2, <1>3 DEF AnswerIsTrue
  <1>12. ASSUME NEW id \in OperationIds, operations'[id].state = "succeeded",
                body = operations'[id].response
         PROVE  AnswerIsTrue(Answer(id, "ok", body))'
    <2>1. \A endpoint \in {"confirm", "draft", "composition", "critic"} : id # To(endpoint)
      BY <1>1
    <2> QED
      BY <1>3, <1>12, <2>1 DEF AnswerIsTrue
  <1> QED
    BY <1>5, <1>6, <1>7, <1>8, <1>9, <1>10, <1>11, <1>12

\* What was true before a step of the service is true after it.
LEMMA TrueAnswersStay ==
  ASSUME ServiceInv, [Next]_vars, NEW answer, AnswerIsTrue(answer)
  PROVE  AnswerIsTrue(answer)'
  <1>1. IInv /\ [RepositoryNext]_repositoryVars
    BY ServiceStepKeeps DEF ServiceInv
  <1>2. /\ Fixed(confirmed, confirmed') /\ Fixed(draft, draft')
        /\ Fixed(composition, composition') /\ Fixed(critique, critique')
    BY <1>1, TransactionsReplaceNothing
  <1>3. \A id \in OperationIds :
          operations[id].state = "succeeded" => operations'[id] = operations[id]
    BY <1>1, SucceededStay
  <1> QED
    BY <1>2, <1>3 DEF AnswerIsTrue, Fixed

\* A request that goes on, or ends with a true answer.
TellsTruth(w) ==
  \/ \E answer : Respond(w, answer) /\ AnswerIsTrue(answer)'
  \/ \E step, values : /\ Continue(w, step, values)
                       /\ step = "critic_answer" => critique' = values.verdict

LEMMA RejectTellsTruth ==
  ASSUME NEW w \in Workers, NEW to, Reject(w, to)
  PROVE  TellsTruth(w)
  BY AnswersMade DEF Reject, TellsTruth

LEMMA GoesOn ==
  ASSUME NEW w \in Workers, NEW step, NEW values, Continue(w, step, values),
         step # "critic_answer"
  PROVE  TellsTruth(w)
  BY DEF TellsTruth

LEMMA CritiqueTellsTruth ==
  ASSUME NEW w \in Workers, NEW seen, NEW verdict, AnswerCritique(w, seen, verdict),
         verdict = critique', verdict # None
  PROVE  TellsTruth(w)
  BY AnswersMade DEF AnswerCritique, TellsTruth

LEMMA RowsUnchanged ==
  ASSUME UNCHANGED repositoryVars
  PROVE  /\ confirmed' = confirmed /\ draft' = draft /\ composition' = composition
         /\ critique' = critique /\ operations' = operations
  BY DEF repositoryVars, versionOne, versionTwo

LEMMA InitialRequestTells ==
  ASSUME NEW w \in Workers,
         AnalyzeRequest(w) \/ DraftRequest(w) \/ ComposeRequest(w) \/ CriticRequest(w)
  PROVE  TellsTruth(w)
  <1>1. /\ confirmed' = confirmed /\ draft' = draft /\ composition' = composition
    BY RowsUnchanged DEF AnalyzeRequest, DraftRequest, ComposeRequest, CriticRequest
  <1>2. CASE AnalyzeRequest(w)
    <2>1. \/ Respond(w, Answer(To("analyze"), "ok", analysis))
          \/ Continue(w, "analyze_claim", NoLocal)
          \/ Reject(w, To("analyze"))
      BY <1>2, Zenon DEF AnalyzeRequest
    <2> QED
      BY <2>1, AnswersMade, RejectTellsTruth, GoesOn DEF TellsTruth
  <1>3. CASE DraftRequest(w)
    <2>1. \/ Respond(w, Answer(To("draft"), "ok", draft)) /\ draft # None
          \/ Reject(w, To("draft"))
          \/ Respond(w, Answer(To("draft"), "brand_lock_unconfirmed", None))
          \/ Continue(w, "draft_save", [NoLocal EXCEPT !.lock = confirmed])
      BY <1>3, Zenon DEF DraftRequest
    <2>2. AnswerIsTrue(Answer(To("draft"), "brand_lock_unconfirmed", None))'
      BY AnswersMade
    <2>3. PICK body : body = draft
      OBVIOUS
    <2>4. body # None => AnswerIsTrue(Answer(To("draft"), "ok", body))'
      BY <1>1, <2>3, AnswersMade
    <2> QED
      BY <2>1, <2>2, <2>3, <2>4, RejectTellsTruth, GoesOn DEF TellsTruth
  <1>4. CASE ComposeRequest(w)
    <2>1. \/ Respond(w, Answer(To("composition"), "ok", composition)) /\ composition # None
          \/ Reject(w, To("composition"))
          \/ Continue(w, "compose_render", NoLocal)
      BY <1>4, Zenon DEF ComposeRequest
    <2> QED
      BY <1>1, <2>1, AnswersMade, RejectTellsTruth, GoesOn DEF TellsTruth
  <1>5. CASE CriticRequest(w)
    BY <1>5, GoesOn DEF CriticRequest
  <1> QED
    BY <1>2, <1>3, <1>4, <1>5

LEMMA AnalysisTells ==
  ASSUME NEW w \in Workers,
         AnalyzeClaim(w) \/ AnalyzeRun(w) \/ AnalyzeFail(w) \/ AnalyzeComplete(w)
  PROVE  TellsTruth(w)
  <1>1. \/ Reject(w, To("analyze"))
        \/ Respond(w, Answer(To("analyze"), "ok", RequestLock))
        \/ \E step \in {"analyze_run", "analyze_complete", "analyze_fail"} :
             \E values : Continue(w, step, values)
    BY DEF AnalyzeClaim, AnalyzeRun, AnalyzeFail, AnalyzeComplete
  <1> QED
    BY <1>1, AnswersMade, RejectTellsTruth, GoesOn DEF TellsTruth

LEMMA LockAndDraftTell ==
  ASSUME ServiceInv, NEW w \in Workers,
         DraftSave(w) \/ \E lock \in Locks : ConfirmRequest(w, lock)
  PROVE  TellsTruth(w)
  <1>1. None \notin Locks
    BY NoneAssumption
  <1>2. CASE DraftSave(w)
    <2>1. PICK lock \in Locks : lock = local[w].lock
      BY <1>2 DEF DraftSave, ServiceInv, HasInHand
    <2>2. \/ Reject(w, To("draft"))
          \/ draft' = lock /\ Respond(w, Answer(To("draft"), "ok", lock))
      BY <1>2, <2>1, RowsUnchanged DEF DraftSave, SaveDraft
    <2>3. draft' = lock => AnswerIsTrue(Answer(To("draft"), "ok", lock))'
      BY <1>1, AnswersMade
    <2> QED
      BY <2>2, <2>3, RejectTellsTruth DEF TellsTruth
  <1>3. ASSUME NEW lock \in Locks, ConfirmRequest(w, lock)
        PROVE  TellsTruth(w)
    <2>1. \/ Reject(w, To("confirm"))
          \/ confirmed' = lock /\ Respond(w, Answer(To("confirm"), "ok", lock))
      BY <1>3, RowsUnchanged DEF ConfirmRequest, ConfirmBrandLock
    <2> QED
      BY <1>1, <2>1, AnswersMade, RejectTellsTruth DEF TellsTruth
  <1> QED
    BY <1>2, <1>3

LEMMA CompositionTells ==
  ASSUME ServiceInv, NEW w \in Workers,
         ComposeRender(w) \/ ComposeSave(w) \/ ComposeDiscard(w)
  PROVE  TellsTruth(w)
  <1>1. None \notin Artifacts
    BY NoneAssumption
  <1>2. CASE ComposeRender(w)
    <2>1. \/ Reject(w, To("composition"))
          \/ \E step \in {"compose_save", "compose_discard"} : \E values :
               Continue(w, step, values)
      BY <1>2 DEF ComposeRender
    <2> QED
      BY <2>1, RejectTellsTruth, GoesOn
  <1>3. CASE ComposeSave(w)
    <2>1. PICK artifact \in Artifacts : artifact = local[w].artifact
      BY <1>3 DEF ComposeSave, ServiceInv, HasInHand
    <2>2. \/ \E values : Continue(w, "compose_discard", values)
          \/ /\ composition' = artifact
             /\ Respond(w, Answer(To("composition"), "ok", artifact))
      BY <1>3, <2>1 DEF ComposeSave, SaveComposition
    <2>3. composition' = artifact => AnswerIsTrue(Answer(To("composition"), "ok", artifact))'
      BY <1>1, AnswersMade
    <2> QED
      BY <2>2, <2>3, GoesOn DEF TellsTruth
  <1>4. CASE ComposeDiscard(w)
    <2>1. \/ Reject(w, To("composition"))
          \/ /\ composition # None /\ composition' = composition
             /\ Respond(w, Answer(To("composition"), "ok", composition))
      BY <1>4, RowsUnchanged DEF ComposeDiscard
    <2> QED
      BY <2>1, AnswersMade, RejectTellsTruth DEF TellsTruth
  <1> QED
    BY <1>2, <1>3, <1>4

LEMMA CriticTells ==
  ASSUME ServiceInv, AnswersInv, NEW w \in Workers,
         CriticRead(w) \/ CriticSave(w) \/ CriticAnswer(w)
  PROVE  TellsTruth(w)
  <1>1. CASE CriticRead(w)
    <2>1. \/ Reject(w, To("critic"))
          \/ \E values : Continue(w, "critic_save", values)
          \/ /\ critique # None /\ critique' = critique
             /\ AnswerCritique(w, local[w].seen, critique)
      BY <1>1, RowsUnchanged DEF CriticRead
    <2> QED
      BY <2>1, RejectTellsTruth, GoesOn, CritiqueTellsTruth
  <1>2. CASE CriticSave(w)
    BY <1>2, RejectTellsTruth DEF CriticSave, SaveCritique, TellsTruth
  <1>3. CASE CriticAnswer(w)
    <2>1. \/ Reject(w, To("critic"))
          \/ critique' = critique /\ AnswerCritique(w, status, local[w].verdict)
      BY <1>3, RowsUnchanged DEF CriticAnswer
    <2>2. critique = local[w].verdict
      BY <1>3 DEF CriticAnswer, AnswersInv
    <2>3. local[w].verdict # None
      BY <1>3, NoneAssumption DEF CriticAnswer, ServiceInv, HasInHand
    <2> QED
      BY <2>1, <2>2, <2>3, RejectTellsTruth, CritiqueTellsTruth
  <1> QED
    BY <1>1, <1>2, <1>3

LEMMA RevisionRequestTells ==
  ASSUME NEW w \in Workers, RevisionRequest(w)
  PROVE  TellsTruth(w)
  <1>1. PICK id \in OperationIds, print \in Prints :
          \/ Known(w, id, print)
          \/ Reject(w, id)
          \/ \E step \in {"revise_run", "retry_decide"} :
               \E values : Continue(w, step, values)
    <2>1. PICK key \in Keys, print \in Prints :
            FeedbackRequest(w, key, print) \/ RetryRequest(w, key, print)
      BY DEF RevisionRequest
    <2>2. <<"feedback", key>> \in OperationIds /\ <<"retry", key>> \in OperationIds
      BY DEF OperationIds
    <2> QED
      BY <2>1, <2>2 DEF FeedbackRequest, RetryRequest
  <1>2. CASE Known(w, id, print)
    <2>1. \/ Reject(w, id)
          \/ /\ operations'[id] = operations[id] /\ operations[id].state = "succeeded"
             /\ Respond(w, Answer(id, "ok", operations[id].response))
      BY <1>2, RowsUnchanged DEF Known, Replays
    <2> QED
      BY <2>1, AnswersMade, RejectTellsTruth DEF TellsTruth
  <1> QED
    BY <1>1, <1>2, RejectTellsTruth, GoesOn

LEMMA RevisionTells ==
  ASSUME ServiceInv, NEW w \in Workers, RevisionStep(w)
  PROVE  TellsTruth(w)
  <1>1. CASE RetryDecide(w)
    BY <1>1, RejectTellsTruth, GoesOn DEF RetryDecide
  <1>2. CASE ReviseRun(w)
    <2>1. \/ \E step \in {"revise_commit", "revise_fail", "revise_discard"} : \E values :
               Continue(w, step, values)
          \/ Respond(w, Answer(local[w].operation, "revision_failed", None))
      BY <1>2 DEF ReviseRun
    <2> QED
      BY <2>1, AnswersMade, GoesOn DEF TellsTruth
  <1>3. CASE ReviseCommit(w)
    <2> DEFINE id == local[w].operation
               response == local[w].response
    <2>1. id \in OperationIds /\ operations \in [OperationIds -> Operations]
      BY <1>3 DEF ReviseCommit, ServiceInv, HasInHand, OperationSteps, IInv, TypeOK
    <2>2. \/ \E values : Continue(w, "revise_discard", values)
          \/ CompleteRevision(id, response) /\ Respond(w, Answer(id, "ok", response))
      BY <1>3 DEF ReviseCommit
    <2>3. ASSUME CompleteRevision(id, response)
          PROVE  operations'[id].state = "succeeded" /\ operations'[id].response = response
      BY <2>1, <2>3 DEF CompleteRevision, Settled, Operations
    <2> HIDE DEF id, response
    <2> QED
      BY <2>1, <2>2, <2>3, AnswersMade, GoesOn DEF TellsTruth
  <1>4. CASE ReviseDiscard(w)
    <2>1. \/ Reject(w, local[w].operation)
          \/ \E values : Continue(w, "revise_fail", values)
          \/ Respond(w, Answer(local[w].operation, "revision_failed", None))
      BY <1>4 DEF ReviseDiscard
    <2> QED
      BY <2>1, AnswersMade, RejectTellsTruth, GoesOn DEF TellsTruth
  <1>5. CASE ReviseFail(w)
    BY <1>5, AnswersMade DEF ReviseFail, TellsTruth
  <1> QED
    BY <1>1, <1>2, <1>3, <1>4, <1>5 DEF RevisionStep

LEMMA StepTells ==
  ASSUME ServiceInv, AnswersInv, NEW w \in Workers, Request(w) \/ Step(w)
  PROVE  TellsTruth(w)
  BY InitialRequestTells, AnalysisTells, LockAndDraftTell, CompositionTells,
     CriticTells, RevisionRequestTells, RevisionTells
     DEF Request, Step, InitialVersionRequest, InitialVersionStep

LEMMA AnswersInvKept ==
  ASSUME ServiceInv, AnswersInv, [Next]_vars
  PROVE  AnswersInv'
  <1>1. \A answer : AnswerIsTrue(answer) => AnswerIsTrue(answer)'
    BY TrueAnswersStay
  <1>2. Fixed(critique, critique') /\ HandlersTypeOK
    BY ServiceStepKeeps, TransactionsReplaceNothing DEF ServiceInv
  <1>3. ASSUME NEW x \in Workers, reply'[x] = reply[x],
               pc'[x] = "critic_answer" => pc[x] = "critic_answer" /\ local'[x] = local[x]
        PROVE  /\ AnswerIsTrue(reply[x])' 
               /\ pc'[x] = "critic_answer" => critique' = local'[x].verdict
    <2>1. AnswerIsTrue(reply[x])'
      BY <1>1, <1>3 DEF AnswersInv, AnswerIsTrue
    <2>2. ASSUME pc'[x] = "critic_answer" PROVE critique' = local'[x].verdict
      <3>1. critique = local[x].verdict /\ local[x].verdict \in Verdicts
        BY <1>3, <2>2 DEF AnswersInv, ServiceInv, HasInHand
      <3> QED
        BY <1>2, <1>3, <2>2, <3>1, NoneAssumption DEF Fixed
    <2> QED
      BY <2>1, <2>2
  <1>4. ASSUME NEW w \in Workers, TellsTruth(w) PROVE AnswersInv'
    <2>1. CASE \E answer : Respond(w, answer) /\ AnswerIsTrue(answer)'
      <3>1. PICK answer : Respond(w, answer) /\ AnswerIsTrue(answer)'
        BY <2>1
      <3>2. /\ pc'[w] = "idle" /\ reply'[w] = answer
            /\ \A x \in Workers \ {w} :
                 pc'[x] = pc[x] /\ local'[x] = local[x] /\ reply'[x] = reply[x]
        BY <1>2, <3>1, Responds
      <3>3. AnswerIsTrue(reply[w])'
        BY <3>1, <3>2 DEF AnswerIsTrue
      <3> QED
        BY <1>3, <3>2, <3>3 DEF AnswersInv
    <2>2. CASE \E step, values : /\ Continue(w, step, values)
                                 /\ step = "critic_answer" => critique' = values.verdict
      <3>1. PICK step, values : /\ Continue(w, step, values)
                                /\ step = "critic_answer" => critique' = values.verdict
        BY <2>2
      <3>2. /\ pc'[w] = step /\ local'[w] = values /\ reply'[w] = NoReply
            /\ \A x \in Workers \ {w} :
                 pc'[x] = pc[x] /\ local'[x] = local[x] /\ reply'[x] = reply[x]
        BY <1>2, <3>1 DEF Continue, HandlersTypeOK
      <3>3. AnswerIsTrue(reply[w])'
        BY <3>2, AnswersMade DEF AnswerIsTrue, NoReply
      <3> QED
        BY <1>3, <3>1, <3>2, <3>3 DEF AnswersInv
    <2> QED
      BY <1>4, <2>1, <2>2 DEF TellsTruth
  <1>5. ASSUME NEW w \in Workers, Crash(w) PROVE AnswersInv'
    <2>1. /\ pc'[w] = "idle" /\ \A x \in Workers : reply'[x] = reply[x]
          /\ \A x \in Workers \ {w} : pc'[x] = pc[x] /\ local'[x] = local[x]
      BY <1>2, <1>5 DEF Crash, HandlersTypeOK
    <2> QED
      BY <1>3, <2>1 DEF AnswersInv
  <1>6. CASE UNCHANGED vars
    <2>1. pc' = pc /\ local' = local /\ reply' = reply
      BY <1>6 DEF vars, handlerVars
    <2> QED
      BY <1>3, <2>1 DEF AnswersInv
  <1> QED
    BY <1>4, <1>5, <1>6, StepTells DEF Next

THEOREM AnswersInvariantHolds == Spec => []AnswersInv
  <1>1. Init => AnswersInv
    <2> SUFFICES ASSUME Init, NEW x \in Workers
        PROVE  AnswerIsTrue(reply[x]) /\ pc[x] # "critic_answer"
      BY DEF AnswersInv
    <2>1. reply[x] = NoReply /\ pc[x] = "idle"
      BY DEF Init, HandlersInit
    <2> QED
      BY <2>1, NoReplyAssumption DEF NoReply, AnswerIsTrue
  <1>2. ServiceInv /\ AnswersInv /\ [Next]_vars => AnswersInv'
    BY AnswersInvKept
  <1> QED
    BY ServiceInvariantHolds, <1>1, <1>2, PTL DEF Spec

\* What a client was told succeeded is what the rows hold from then on, so a
\* replay of a call, under whatever worker, key or retry, answers the same.
THEOREM AnswersStayTrue == Spec => []AnswersAgreeWithRows
  <1>1. ServiceInv /\ AnswersInv => AnswersAgreeWithRows
    <2> SUFFICES ASSUME ServiceInv, AnswersInv PROVE AnswersAgreeWithRows
      OBVIOUS
    <2>1. ASSUME NEW id \in OperationIds, operations[id].state = "succeeded"
          PROVE  revision = [artifact |-> operations[id].response.artifact,
                             verdict |-> operations[id].response.verdict]
      BY <2>1 DEF ServiceInv, IInv, RevisionAccounting, IdsIn
    <2> QED
      BY <2>1 DEF AnswersInv, AnswerIsTrue, AnswersAgreeWithRows
  <1> QED
    BY ServiceInvariantHolds, AnswersInvariantHolds, <1>1, PTL

----------------------------------------------------------------------------
(***************************************************************************)
(* Artifacts.  A request that made one has it to itself until it commits   *)
(* or discards it; that no row refers to it then is what makes discarding  *)
(* it safe, and holds only where an error means that nothing was committed.*)
(***************************************************************************)
Saved == {"compose_save", "revise_commit"}
Discarding == {"compose_discard", "revise_discard"}
HandsFree(x) == pc[x] \notin Saved \cup Discarding /\ local[x].artifact = None

Making(x) ==
  /\ pc[x] \notin Saved \cup Discarding => local[x].artifact = None
  /\ pc[x] \in Saved => local[x].artifact \in stored \ Referenced
  /\ pc[x] \in Discarding /\ CommitsAreTruthful => local[x].artifact \notin Referenced

NothingIsLeft == faults \cap {"crash", "save", "discard"} = {}

ArtifactsInv ==
  /\ \A x, y \in Workers :
       x # y /\ local[x].artifact # None => local[x].artifact # local[y].artifact
  /\ \A x \in Workers : Making(x)
  /\ CommitsAreTruthful => Referenced \subseteq stored
  /\ CommitsAreTruthful /\ NothingIsLeft =>
       stored \subseteq Referenced \cup {local[x].artifact : x \in Workers}

\* What a step of w may do to the artifacts.
Leaves(w) ==
  /\ UNCHANGED <<stored, Referenced>>
  /\ local[w].artifact = None \/ ~NothingIsLeft
  /\ HandsFree(w)'
Makes(w) ==
  /\ \E artifact \in FreshArtifacts :
       stored' = stored \cup {artifact} /\ local'[w].artifact = artifact
  /\ UNCHANGED Referenced
  /\ pc[w] \notin Saved \cup Discarding /\ pc'[w] \in Saved \cup Discarding
Commits(w) ==
  /\ pc[w] \in Saved
  /\ Referenced' = Referenced \cup {local[w].artifact}
  /\ UNCHANGED stored
  /\ \/ HandsFree(w)'
     \/ /\ ~CommitsAreTruthful
        /\ pc'[w] \in Discarding /\ local'[w].artifact = local[w].artifact
GivesUp(w) ==
  /\ pc[w] \in Saved
  /\ UNCHANGED <<stored, Referenced>>
  /\ pc'[w] \in Discarding /\ local'[w].artifact = local[w].artifact
Discards(w) ==
  /\ pc[w] \in Discarding
  /\ stored' = stored \ {local[w].artifact}
  /\ UNCHANGED Referenced
  /\ HandsFree(w)'
Spills(w) ==
  /\ ~NothingIsLeft
  /\ \E artifact \in FreshArtifacts : stored' = stored \cup {artifact}
  /\ UNCHANGED Referenced
  /\ HandsFree(w) /\ HandsFree(w)'

Handles(w) ==
  Leaves(w) \/ Makes(w) \/ Commits(w) \/ GivesUp(w) \/ Discards(w) \/ Spills(w)

LEMMA ArtifactsKept ==
  ASSUME ServiceInv, ArtifactsInv, NEW w \in Workers, Handles(w), UNCHANGED faults,
         \A x \in Workers \ {w} : pc'[x] = pc[x] /\ local'[x] = local[x]
  PROVE  ArtifactsInv'
  <1>1. /\ CommitsAreTruthful' <=> CommitsAreTruthful
        /\ NothingIsLeft' <=> NothingIsLeft
    BY DEF CommitsAreTruthful, NothingIsLeft
  <1>2. stored \subseteq Artifacts /\ None \notin Artifacts
    BY NoneAssumption DEF ServiceInv, HandlersTypeOK
  <1>3. Saved \cap Discarding = {}
    BY DEF Saved, Discarding
  <1>4. FreshArtifacts \subseteq Artifacts
        /\ \A artifact \in FreshArtifacts :
             /\ artifact \notin stored \cup Referenced
             /\ \A x \in Workers : artifact # local[x].artifact
    BY DEF FreshArtifacts
  <1>5. ASSUME NEW x \in Workers, NEW y \in Workers, x # y, local'[x].artifact # None
        PROVE  local'[x].artifact # local'[y].artifact
    <2>1. \A z \in Workers : z # w => local'[z].artifact = local[z].artifact
      OBVIOUS
    <2>2. \/ local'[w].artifact = None
          \/ local'[w].artifact = local[w].artifact
          \/ local'[w].artifact \in FreshArtifacts
      BY DEF Handles, Leaves, Makes, Commits, GivesUp, Discards, Spills, HandsFree
    <2> QED
      BY <1>2, <1>4, <1>5, <2>1, <2>2 DEF ArtifactsInv
  <1>6. ASSUME NEW x \in Workers, x # w PROVE Making(x)'
    <2>1. Making(x) /\ pc'[x] = pc[x] /\ local'[x] = local[x]
      BY <1>6 DEF ArtifactsInv
    <2>2. CASE Leaves(w) \/ GivesUp(w)
      BY <1>1, <2>1, <2>2 DEF Making, Leaves, GivesUp
    <2>3. CASE Makes(w)
      BY <1>1, <2>1, <2>3 DEF Making, Makes
    <2>4. CASE Commits(w)
      <3>1. local[w].artifact \in Artifacts
        BY <1>2, <2>4 DEF Commits, ArtifactsInv, Making
      <3>2. local[x].artifact # local[w].artifact
        BY <1>2, <1>6, <3>1 DEF ArtifactsInv
      <3> QED
        BY <1>1, <2>1, <2>4, <3>2 DEF Making, Commits
    <2>5. CASE Discards(w)
      <3>1. pc[x] \in Saved => local[x].artifact # None
        BY <1>2, <2>1 DEF Making
      <3>2. pc[x] \in Saved => local[x].artifact # local[w].artifact
        BY <1>6, <3>1 DEF ArtifactsInv
      <3> QED
        BY <1>1, <2>1, <2>5, <3>2 DEF Making, Discards
    <2>6. CASE Spills(w)
      BY <1>1, <2>1, <2>6 DEF Making, Spills
    <2> QED
      BY <2>2, <2>3, <2>4, <2>5, <2>6 DEF Handles
  <1>7. Making(w)'
    <2>1. Making(w)
      BY DEF ArtifactsInv
    <2>2. CASE HandsFree(w)'
      BY <2>2 DEF HandsFree, Making
    <2>3. CASE Makes(w)
      BY <1>4, <2>3 DEF Makes, Making
    <2>4. CASE GivesUp(w)
      BY <1>1, <1>3, <2>1, <2>4 DEF GivesUp, Making
    <2>5. CASE Commits(w) /\ ~HandsFree(w)'
      BY <1>1, <1>3, <2>5 DEF Commits, Making
    <2> QED
      BY <2>2, <2>3, <2>4, <2>5 DEF Handles, Leaves, Discards, Spills
  <1>8. ASSUME CommitsAreTruthful PROVE Referenced' \subseteq stored'
    <2>1. Referenced \subseteq stored /\ Making(w)
      BY <1>8 DEF ArtifactsInv
    <2> QED
      BY <1>8, <2>1 DEF Handles, Leaves, Makes, Commits, GivesUp, Discards, Spills, Making
  <1>9. ASSUME CommitsAreTruthful, NothingIsLeft, NEW artifact \in stored'
        PROVE  artifact \in Referenced' \cup {local'[x].artifact : x \in Workers}
    <2>1. CASE artifact = local'[w].artifact
      BY <2>1
    <2>2. CASE artifact \in Referenced
      BY <1>9, <2>2 DEF Handles, Leaves, Makes, Commits, GivesUp, Discards, Spills
    <2>3. ASSUME artifact # local'[w].artifact, artifact \notin Referenced
          PROVE  artifact \in Referenced' \cup {local'[x].artifact : x \in Workers}
      <3>1. artifact \in stored
        BY <1>9, <2>3 DEF Handles, Leaves, Makes, Commits, GivesUp, Discards, Spills
      <3>2. PICK x \in Workers : artifact = local[x].artifact
        BY <1>9, <2>3, <3>1 DEF ArtifactsInv
      <3>3. CASE x = w
        <4>1. artifact # None
          BY <1>2, <3>1
        <4>2. ~Leaves(w) /\ ~GivesUp(w)
          BY <1>9, <2>3, <3>2, <3>3, <4>1 DEF Leaves, GivesUp
        <4>3. ~Discards(w)
          BY <1>9, <3>2, <3>3 DEF Discards
        <4>4. ~Makes(w)
          BY <3>2, <3>3, <4>1 DEF ArtifactsInv, Making, Makes
        <4>5. CASE Commits(w)
          BY <3>2, <3>3, <4>5 DEF Commits
        <4> QED
          BY <1>9, <4>2, <4>3, <4>4, <4>5 DEF Handles, Spills
      <3>4. CASE x # w
        BY <3>2, <3>4
      <3> QED
        BY <3>3, <3>4
    <2> QED
      BY <2>1, <2>2, <2>3
  <1> QED
    BY <1>1, <1>5, <1>6, <1>7, <1>8, <1>9 DEF ArtifactsInv

\* What a request has in hand when it ends, or goes on.
LEMMA AtTheEnd ==
  ASSUME HandlersTypeOK, NEW w \in Workers, NEW answer, Respond(w, answer)
  PROVE  HandsFree(w)' /\ \A x \in Workers \ {w} : pc'[x] = pc[x] /\ local'[x] = local[x]
  BY Responds DEF HandsFree, NoLocal, Saved, Discarding

LEMMA GoingOn ==
  ASSUME HandlersTypeOK, NEW w \in Workers, NEW step, NEW values, Continue(w, step, values)
  PROVE  /\ pc'[w] = step /\ local'[w] = values
         /\ \A x \in Workers \ {w} : pc'[x] = pc[x] /\ local'[x] = local[x]
  BY DEF Continue, HandlersTypeOK

LEMMA ReferencesUnchanged ==
  /\ UNCHANGED <<composition, revision>> => UNCHANGED Referenced
  /\ UNCHANGED repositoryVars => UNCHANGED Referenced
  BY DEF Referenced, repositoryVars, versionOne, versionTwo

\* A step with no artifact in hand before or after it.
LEMMA FreeStep ==
  ASSUME ServiceInv, ArtifactsInv, NEW w \in Workers, HandsFree(w),
         UNCHANGED <<stored, Referenced>>,
         \/ \E answer : Respond(w, answer)
         \/ \E step, values : /\ Continue(w, step, values)
                              /\ step \notin Saved \cup Discarding
                              /\ values.artifact = None
  PROVE  Handles(w)
  <1>1. HandsFree(w)'
    BY AtTheEnd, GoingOn DEF ServiceInv, HandsFree
  <1> QED
    BY <1>1 DEF Handles, Leaves, HandsFree

\* A request that ends, or goes on with nothing in hand, after a failed save.
LEMMA SpillingStep ==
  ASSUME ServiceInv, ArtifactsInv, NEW w \in Workers, HandsFree(w),
         "save" \in faults, NEW artifact \in FreshArtifacts,
         stored' = stored \cup {artifact}, UNCHANGED Referenced,
         \/ \E answer : Respond(w, answer)
         \/ \E step, values : /\ Continue(w, step, values)
                              /\ step \notin Saved \cup Discarding
                              /\ values.artifact = None
  PROVE  Handles(w)
  <1>1. HandsFree(w)'
    BY AtTheEnd, GoingOn DEF ServiceInv, HandsFree
  <1> QED
    BY <1>1 DEF Handles, Spills, NothingIsLeft

LEMMA NothingMade ==
  /\ NoLocal.artifact = None
  /\ \A id : [NoLocal EXCEPT !.operation = id].artifact = None
  /\ \A lock : [NoLocal EXCEPT !.lock = lock].artifact = None
  /\ \A verdict : [NoLocal EXCEPT !.verdict = verdict].artifact = None
  /\ \A seen : [NoLocal EXCEPT !.seen = seen].artifact = None
  /\ \A seen, next : [NoLocal EXCEPT !.seen = seen, !.next = next].artifact = None
  BY DEF NoLocal

LEMMA HandsAreFree ==
  ASSUME ArtifactsInv, NEW w \in Workers, pc[w] \notin Saved \cup Discarding
  PROVE  HandsFree(w)
  BY DEF ArtifactsInv, Making, HandsFree

LEMMA InitialRequestHandles ==
  ASSUME ServiceInv, ArtifactsInv, NEW w \in Workers, InitialVersionRequest(w)
  PROVE  Handles(w)
  <1>1. pc[w] = "idle" /\ UNCHANGED stored
    BY DEF InitialVersionRequest, AnalyzeRequest, DraftRequest, ComposeRequest,
           CriticRequest, ConfirmRequest
  <1>2. HandsFree(w)
    BY <1>1, HandsAreFree DEF Saved, Discarding
  <1>3. UNCHANGED Referenced
    <2>1. CASE \E lock \in Locks : ConfirmRequest(w, lock)
      BY <2>1, ReferencesUnchanged DEF ConfirmRequest, ConfirmBrandLock, versionTwo
    <2> QED
      BY <2>1, ReferencesUnchanged
         DEF InitialVersionRequest, AnalyzeRequest, DraftRequest, ComposeRequest, CriticRequest
  <1>4. CASE AnalyzeRequest(w)
    <2>1. (\E answer : Respond(w, answer)) \/ Continue(w, "analyze_claim", NoLocal)
      BY <1>4, Zenon DEF AnalyzeRequest, Reject
    <2> QED
      BY <1>1, <1>2, <1>3, <2>1, FreeStep, NothingMade DEF Saved, Discarding
  <1>5. CASE DraftRequest(w)
    <2>1. \/ \E answer : Respond(w, answer)
          \/ Continue(w, "draft_save", [NoLocal EXCEPT !.lock = confirmed])
      BY <1>5, Zenon DEF DraftRequest, Reject
    <2> QED
      BY <1>1, <1>2, <1>3, <2>1, FreeStep, NothingMade DEF Saved, Discarding
  <1>6. CASE ComposeRequest(w)
    <2>1. (\E answer : Respond(w, answer)) \/ Continue(w, "compose_render", NoLocal)
      BY <1>6, Zenon DEF ComposeRequest, Reject
    <2> QED
      BY <1>1, <1>2, <1>3, <2>1, FreeStep, NothingMade DEF Saved, Discarding
  <1>7. CASE CriticRequest(w)
    BY <1>1, <1>2, <1>3, <1>7, FreeStep, NothingMade DEF CriticRequest, Saved, Discarding
  <1>8. CASE \E lock \in Locks : ConfirmRequest(w, lock)
    <2>1. \E answer : Respond(w, answer)
      BY <1>8 DEF ConfirmRequest, Reject
    <2> QED
      BY <1>1, <1>2, <1>3, <2>1, FreeStep
  <1> QED
    BY <1>4, <1>5, <1>6, <1>7, <1>8 DEF InitialVersionRequest

\* The steps of the analysis, the draft and the Critic make no artifact.
LEMMA TextStepHandles ==
  ASSUME ServiceInv, ArtifactsInv, NEW w \in Workers,
         \/ AnalyzeClaim(w) \/ AnalyzeRun(w) \/ AnalyzeFail(w) \/ AnalyzeComplete(w)
         \/ DraftSave(w) \/ CriticRead(w) \/ CriticSave(w) \/ CriticAnswer(w)
  PROVE  Handles(w)
  <1>1. HandsFree(w) /\ UNCHANGED stored
    BY HandsAreFree DEF Saved, Discarding, AnalyzeClaim, AnalyzeRun, AnalyzeFail,
       AnalyzeComplete, DraftSave, CriticRead, CriticSave, CriticAnswer
  <1>2. UNCHANGED Referenced
    <2>1. UNCHANGED repositoryVars \/ UNCHANGED <<composition, revision>>
      BY DEF AnalyzeClaim, AnalyzeRun, AnalyzeFail, AnalyzeComplete, DraftSave,
         CriticRead, CriticSave, CriticAnswer, ClaimAnalysis, RecordFailure,
         CompleteAnalysis, SaveDraft, SaveCritique, versionOne, versionTwo
    <2> QED
      BY <2>1, ReferencesUnchanged
  <1>3. CASE AnalyzeClaim(w) \/ AnalyzeRun(w) \/ AnalyzeFail(w) \/ AnalyzeComplete(w)
    <2>1. \/ \E answer : Respond(w, answer)
          \/ \E step \in {"analyze_run", "analyze_complete"} : Continue(w, step, NoLocal)
          \/ \E target : Continue(w, "analyze_fail",
                                  [NoLocal EXCEPT !.seen = status, !.next = target])
      BY <1>3 DEF AnalyzeClaim, AnalyzeRun, AnalyzeFail, AnalyzeComplete, Reject
    <2>2. ASSUME NEW target,
                 Continue(w, "analyze_fail", [NoLocal EXCEPT !.seen = status, !.next = target])
          PROVE  Handles(w)
      <3>1. [NoLocal EXCEPT !.seen = status, !.next = target].artifact = None
        BY NothingMade
      <3>2. "analyze_fail" \notin Saved \cup Discarding
        BY DEF Saved, Discarding
      <3> QED
        BY <1>1, <1>2, <2>2, <3>1, <3>2, FreeStep
    <2> QED
      BY <1>1, <1>2, <2>1, <2>2, FreeStep, NothingMade DEF Saved, Discarding
  <1>4. CASE DraftSave(w) \/ CriticAnswer(w)
    <2>1. \E answer : Respond(w, answer)
      BY <1>4 DEF DraftSave, CriticAnswer, AnswerCritique, Reject
    <2> QED
      BY <1>1, <1>2, <2>1, FreeStep
  <1>5. CASE CriticRead(w)
    <2>1. \/ \E answer : Respond(w, answer)
          \/ \E verdict : Continue(w, "critic_save", [NoLocal EXCEPT !.verdict = verdict])
      BY <1>5 DEF CriticRead, AnswerCritique, Reject
    <2>2. ASSUME NEW verdict,
                 Continue(w, "critic_save", [NoLocal EXCEPT !.verdict = verdict])
          PROVE  Handles(w)
      <3>1. [NoLocal EXCEPT !.verdict = verdict].artifact = None
        BY NothingMade
      <3>2. "critic_save" \notin Saved \cup Discarding
        BY DEF Saved, Discarding
      <3> QED
        BY <1>1, <1>2, <2>2, <3>1, <3>2, FreeStep
    <2> QED
      BY <1>1, <1>2, <2>1, <2>2, FreeStep
  <1>6. CASE CriticSave(w)
    <2>1. (\E answer : Respond(w, answer)) \/ Continue(w, "critic_answer", local[w])
      BY <1>6 DEF CriticSave, Reject
    <2> QED
      BY <1>1, <1>2, <2>1, FreeStep DEF Saved, Discarding, HandsFree
  <1> QED
    BY <1>3, <1>4, <1>5, <1>6

LEMMA ComposeHandles ==
  ASSUME ServiceInv, ArtifactsInv, NEW w \in Workers,
         ComposeRender(w) \/ ComposeSave(w) \/ ComposeDiscard(w)
  PROVE  Handles(w)
  <1>1. local[w] \in Locals
    BY DEF ServiceInv, HandlersTypeOK
  <1>2. None \notin Artifacts
    BY NoneAssumption
  <1>3. CASE ComposeRender(w)
    <2>1. pc[w] \notin Saved \cup Discarding /\ HandsFree(w) /\ UNCHANGED Referenced
      BY <1>3, HandsAreFree, ReferencesUnchanged DEF ComposeRender, Saved, Discarding
    <2>2. ASSUME NEW artifact \in FreshArtifacts, stored' = stored \cup {artifact},
                 Continue(w, "compose_save", [NoLocal EXCEPT !.artifact = artifact])
          PROVE  Handles(w)
      <3> DEFINE values == [NoLocal EXCEPT !.artifact = artifact]
      <3>1. values.artifact = artifact
        BY DEF NoLocal
      <3> HIDE DEF values
      <3>2. pc'[w] = "compose_save" /\ local'[w] = values
        BY <2>2, GoingOn DEF ServiceInv, values
      <3> QED
        BY <2>1, <2>2, <3>1, <3>2 DEF Handles, Makes, Saved
    <2>3. CASE Reject(w, To("composition")) /\ UNCHANGED stored
      BY <2>1, <2>3, FreeStep DEF Reject
    <2>4. ASSUME NEW artifact \in FreshArtifacts, stored' = stored \cup {artifact},
                 Continue(w, "compose_discard",
                   [NoLocal EXCEPT !.artifact = artifact, !.next = "unsaved"])
          PROVE  Handles(w)
      <3> DEFINE values == [NoLocal EXCEPT !.artifact = artifact, !.next = "unsaved"]
      <3>1. values.artifact = artifact
        BY DEF NoLocal
      <3> HIDE DEF values
      <3>2. pc'[w] = "compose_discard" /\ local'[w] = values
        BY <2>4, GoingOn DEF ServiceInv, values
      <3> QED
        BY <2>1, <2>4, <3>1, <3>2 DEF Handles, Makes, Discarding
    <2>5. ASSUME NEW artifact \in FreshArtifacts, stored' = stored \cup {artifact},
                 "save" \in faults, Reject(w, To("composition"))
          PROVE  Handles(w)
      BY <2>1, <2>5, SpillingStep DEF Reject
    <2> QED
      BY <1>3, <2>2, <2>3, <2>4, <2>5 DEF ComposeRender
  <1>4. CASE ComposeSave(w)
    <2>1. /\ pc[w] \in Saved /\ UNCHANGED stored
          /\ local[w].artifact \in Artifacts
      BY <1>4 DEF ComposeSave, Saved, ServiceInv, HasInHand
    <2>2. SaveComposition(local[w].artifact) =>
            Referenced' = Referenced \cup {local[w].artifact}
      BY <1>2, <2>1 DEF SaveComposition, Referenced, versionTwo
    <2>3. ASSUME NEW next, Continue(w, "compose_discard", [local[w] EXCEPT !.next = next])
          PROVE  pc'[w] \in Discarding /\ local'[w].artifact = local[w].artifact
      <3> DEFINE values == [local[w] EXCEPT !.next = next]
      <3>1. values.artifact = local[w].artifact
        BY <1>1 DEF Locals
      <3> HIDE DEF values
      <3>2. pc'[w] = "compose_discard" /\ local'[w] = values
        BY <2>3, GoingOn DEF ServiceInv, values
      <3> QED
        BY <3>1, <3>2 DEF Discarding
    <2>4. \/ /\ SaveComposition(local[w].artifact)
             /\ \/ \E answer : Respond(w, answer)
                \/ /\ ~CommitsAreTruthful
                   /\ Continue(w, "compose_discard", [local[w] EXCEPT !.next = "answer"])
          \/ /\ UNCHANGED repositoryVars
             /\ \/ Continue(w, "compose_discard", [local[w] EXCEPT !.next = "replay"])
                \/ Continue(w, "compose_discard", [local[w] EXCEPT !.next = "answer"])
      BY <1>4 DEF ComposeSave, CommitsAreTruthful
    <2>5. (\E answer : Respond(w, answer)) => HandsFree(w)'
      BY AtTheEnd DEF ServiceInv
    <2> QED
      BY <2>1, <2>2, <2>3, <2>4, <2>5, ReferencesUnchanged DEF Handles, Commits, GivesUp
  <1>5. CASE ComposeDiscard(w)
    <2>1. pc[w] \in Discarding /\ UNCHANGED Referenced
      BY <1>5, ReferencesUnchanged DEF ComposeDiscard, Discarding
    <2>2. \E answer : Respond(w, answer)
      BY <1>5 DEF ComposeDiscard, Reject
    <2>3. HandsFree(w)'
      BY <2>2, AtTheEnd DEF ServiceInv
    <2>4. \/ stored' = stored \ {local[w].artifact}
          \/ faults \cap {"save", "discard"} # {} /\ UNCHANGED stored
      BY <1>5 DEF ComposeDiscard
    <2> QED
      BY <2>1, <2>3, <2>4 DEF Handles, Discards, Leaves, NothingIsLeft
  <1> QED
    BY <1>3, <1>4, <1>5

LEMMA RevisionRequestHandles ==
  ASSUME ServiceInv, ArtifactsInv, NEW w \in Workers, RevisionRequest(w)
  PROVE  Handles(w)
  <1>1. PICK key \in Keys, print \in Prints :
          FeedbackRequest(w, key, print) \/ RetryRequest(w, key, print)
    BY DEF RevisionRequest
  <1>2. HandsFree(w) /\ UNCHANGED stored
    BY <1>1, HandsAreFree DEF FeedbackRequest, RetryRequest, Saved, Discarding
  <1>3. UNCHANGED repositoryVars \/ UNCHANGED <<composition, revision>>
    BY <1>1 DEF FeedbackRequest, RetryRequest, Known, ClaimFeedback, ClaimRetry, versionOne
  <1>4. \/ \E answer : Respond(w, answer)
        \/ Continue(w, "revise_run", [NoLocal EXCEPT !.operation = <<"feedback", key>>])
        \/ Continue(w, "retry_decide", [NoLocal EXCEPT !.operation = <<"retry", key>>])
    BY <1>1 DEF FeedbackRequest, RetryRequest, Known, Reject
  <1>5. /\ [NoLocal EXCEPT !.operation = <<"feedback", key>>].artifact = None
        /\ [NoLocal EXCEPT !.operation = <<"retry", key>>].artifact = None
    BY NothingMade
  <1>6. "revise_run" \notin Saved \cup Discarding /\ "retry_decide" \notin Saved \cup Discarding
    BY DEF Saved, Discarding
  <1>7. UNCHANGED <<stored, Referenced>>
    BY <1>2, <1>3, ReferencesUnchanged
  <1> QED
    BY <1>2, <1>4, <1>5, <1>6, <1>7, FreeStep

LEMMA ReviseRunHandles ==
  ASSUME ServiceInv, ArtifactsInv, NEW w \in Workers, ReviseRun(w)
  PROVE  Handles(w)
  <1>1. local[w] \in Locals
    BY DEF ServiceInv, HandlersTypeOK
  <1>2. pc[w] \notin Saved \cup Discarding /\ HandsFree(w) /\ UNCHANGED Referenced
    BY HandsAreFree, ReferencesUnchanged DEF ReviseRun, Saved, Discarding
  <1>3. ASSUME NEW artifact \in FreshArtifacts, NEW step \in Saved \cup Discarding,
               NEW values, values.artifact = artifact,
               stored' = stored \cup {artifact}, Continue(w, step, values)
        PROVE  Handles(w)
    <2>1. pc'[w] = step /\ local'[w] = values
      BY <1>3, GoingOn DEF ServiceInv
    <2> QED
      BY <1>2, <1>3, <2>1 DEF Handles, Makes
  <1>4. ASSUME NEW artifact \in FreshArtifacts, NEW verdict,
               stored' = stored \cup {artifact},
               Continue(w, "revise_commit",
                  [local[w] EXCEPT !.artifact = artifact,
                                   !.response = ResponseNow(artifact, verdict)])
        PROVE  Handles(w)
    <2> DEFINE values == [local[w] EXCEPT !.artifact = artifact,
                                          !.response = ResponseNow(artifact, verdict)]
    <2>1. values.artifact = artifact /\ "revise_commit" \in Saved \cup Discarding
      BY <1>1 DEF Locals, Saved
    <2> HIDE DEF values
    <2> QED
      BY <1>3, <1>4, <2>1 DEF values
  <1>5. ASSUME NEW artifact \in FreshArtifacts, NEW next,
               stored' = stored \cup {artifact},
               Continue(w, "revise_discard",
                  [local[w] EXCEPT !.artifact = artifact, !.next = next])
        PROVE  Handles(w)
    <2> DEFINE values == [local[w] EXCEPT !.artifact = artifact, !.next = next]
    <2>1. values.artifact = artifact /\ "revise_discard" \in Saved \cup Discarding
      BY <1>1 DEF Locals, Discarding
    <2> HIDE DEF values
    <2> QED
      BY <1>3, <1>5, <2>1 DEF values
  <1>6. CASE UNCHANGED stored /\ (\/ Continue(w, "revise_fail", local[w])
                                  \/ \E answer : Respond(w, answer))
    BY <1>2, <1>6, FreeStep DEF HandsFree, Saved, Discarding
  <1>7. ASSUME NEW artifact \in FreshArtifacts, stored' = stored \cup {artifact},
               "save" \in faults,
               \/ Continue(w, "revise_fail", local[w])
               \/ \E answer : Respond(w, answer)
        PROVE  Handles(w)
    BY <1>2, <1>7, SpillingStep DEF HandsFree, Saved, Discarding
  <1> QED
    BY <1>4, <1>5, <1>6, <1>7 DEF ReviseRun

LEMMA ReviseCommitHandles ==
  ASSUME ServiceInv, ArtifactsInv, NEW w \in Workers, ReviseCommit(w)
  PROVE  Handles(w)
  <1> DEFINE id == local[w].operation
             values == [local[w] EXCEPT !.next = "answer"]
  <1>1. pc[w] = "revise_commit" /\ UNCHANGED stored
    BY DEF ReviseCommit
  <1>2. /\ pc[w] \in Saved
        /\ local[w].artifact \in Artifacts /\ None \notin Artifacts
        /\ local[w].response.artifact = local[w].artifact
        /\ local[w].response.verdict \in Verdicts
    <2>1. pc[w] \in Saved /\ None \notin Artifacts
      BY <1>1, NoneAssumption DEF Saved
    <2>2. local[w].artifact \in Artifacts /\ BuiltFromRows(w)
      BY <1>1 DEF ServiceInv, HasInHand, Holds
    <2>3. PICK verdict \in Verdicts :
            local[w].response = ResponseNow(local[w].artifact, verdict)
      BY <2>2 DEF BuiltFromRows
    <2> QED
      BY <2>1, <2>2, <2>3 DEF ResponseNow
  <1>3. \/ /\ CompleteRevision(id, local[w].response)
           /\ \/ \E answer : Respond(w, answer)
              \/ ~CommitsAreTruthful /\ Continue(w, "revise_discard", values)
        \/ UNCHANGED repositoryVars /\ Continue(w, "revise_discard", values)
    BY DEF ReviseCommit, CommittedButRaised, CommitsAreTruthful
  <1>4. CompleteRevision(id, local[w].response) =>
          Referenced' = Referenced \cup {local[w].artifact}
    <2> DEFINE new == [artifact |-> local[w].response.artifact,
                       verdict |-> local[w].response.verdict]
    <2>1. new \in Revisions /\ new # None /\ new.artifact = local[w].artifact
      BY <1>2, NoneAssumption DEF Revisions
    <2>2. CompleteRevision(id, local[w].response) =>
            revision = None /\ revision' = new /\ composition' = composition
      BY DEF CompleteRevision, versionOne
    <2> HIDE DEF new
    <2> QED
      BY <1>2, <2>1, <2>2 DEF Referenced
  <1>5. (\E answer : Respond(w, answer)) => HandsFree(w)'
    BY AtTheEnd DEF ServiceInv
  <1>6. values.artifact = local[w].artifact
    BY DEF ServiceInv, HandlersTypeOK, Locals
  <1> HIDE DEF values
  <1>7. Continue(w, "revise_discard", values) =>
          pc'[w] \in Discarding /\ local'[w].artifact = local[w].artifact
    BY <1>6, GoingOn DEF ServiceInv, Discarding
  <1> QED
    BY <1>1, <1>2, <1>3, <1>4, <1>5, <1>7, ReferencesUnchanged
       DEF Handles, Commits, GivesUp

LEMMA ReviseDiscardHandles ==
  ASSUME ServiceInv, ArtifactsInv, NEW w \in Workers, ReviseDiscard(w)
  PROVE  Handles(w)
  <1> DEFINE values == [local[w] EXCEPT !.artifact = None]
  <1>1. pc[w] \in Discarding /\ UNCHANGED Referenced
    BY ReferencesUnchanged DEF ReviseDiscard, Discarding
  <1>2. (\E answer : Respond(w, answer)) \/ Continue(w, "revise_fail", values)
    BY DEF ReviseDiscard, Reject
  <1>3. \/ stored' = stored \ {local[w].artifact}
        \/ "discard" \in faults /\ UNCHANGED stored
    BY DEF ReviseDiscard
  <1>4. values.artifact = None
    BY DEF ServiceInv, HandlersTypeOK, Locals
  <1> HIDE DEF values
  <1>5. HandsFree(w)'
    BY <1>2, <1>4, AtTheEnd, GoingOn DEF ServiceInv, HandsFree, Saved, Discarding
  <1> QED
    BY <1>1, <1>3, <1>5 DEF Handles, Discards, Leaves, NothingIsLeft

LEMMA StepHandles ==
  ASSUME ServiceInv, ArtifactsInv, NEW w \in Workers, Request(w) \/ Step(w) \/ Crash(w)
  PROVE  Handles(w)
  <1>1. CASE RetryDecide(w)
    <2>1. HandsFree(w) /\ UNCHANGED stored /\ UNCHANGED Referenced
      BY <1>1, HandsAreFree, ReferencesUnchanged DEF RetryDecide, Saved, Discarding
    <2>2. (\E answer : Respond(w, answer)) \/ Continue(w, "revise_run", local[w])
      BY <1>1 DEF RetryDecide, Reject
    <2> QED
      BY <2>1, <2>2, FreeStep DEF HandsFree, Saved, Discarding
  <1>2. CASE ReviseFail(w)
    <2>1. HandsFree(w) /\ UNCHANGED stored /\ \E answer : Respond(w, answer)
      BY <1>2, HandsAreFree DEF ReviseFail, Saved, Discarding
    <2>2. UNCHANGED repositoryVars \/ UNCHANGED <<composition, revision>>
      BY <1>2 DEF ReviseFail, FailOperation, versionOne
    <2> QED
      BY <2>1, <2>2, ReferencesUnchanged, FreeStep
  <1>3. CASE Crash(w)
    <2>1. pc'[w] = "idle" /\ local'[w] = NoLocal
      BY <1>3 DEF Crash, ServiceInv, HandlersTypeOK
    <2>2. UNCHANGED <<stored, Referenced>> /\ ~NothingIsLeft
      BY <1>3, ReferencesUnchanged DEF Crash, NothingIsLeft
    <2> QED
      BY <2>1, <2>2, NothingMade DEF Handles, Leaves, HandsFree, Saved, Discarding
  <1> QED
    BY <1>1, <1>2, <1>3, InitialRequestHandles, TextStepHandles, ComposeHandles,
       RevisionRequestHandles, ReviseRunHandles, ReviseCommitHandles, ReviseDiscardHandles
       DEF Request, Step, InitialVersionRequest, InitialVersionStep, RevisionStep

THEOREM ArtifactsInvariantHolds == Spec => []ArtifactsInv
  <1>1. Init => ArtifactsInv
    BY NothingMade DEF Init, HandlersInit, RepositoryInit, ArtifactsInv, Making,
       Referenced, Saved, Discarding
  <1>2. ASSUME ServiceInv, AnswersInv, ArtifactsInv, [Next]_vars
        PROVE  ArtifactsInv'
    <2>1. ASSUME NEW w \in Workers, Request(w) \/ Step(w) \/ Crash(w)
          PROVE  ArtifactsInv'
      <3>1. /\ UNCHANGED faults
            /\ \A x \in Workers \ {w} : pc'[x] = pc[x] /\ local'[x] = local[x]
        <4>1. CASE Crash(w)
          BY <1>2, <4>1 DEF Crash, ServiceInv, HandlersTypeOK
        <4>2. CASE TellsTruth(w)
          BY <1>2, <4>2, AtTheEnd, GoingOn
             DEF TellsTruth, Respond, Continue, ServiceInv
        <4> QED
          BY <1>2, <2>1, <4>1, <4>2, StepTells
      <3> QED
        BY <1>2, <2>1, <3>1, StepHandles, ArtifactsKept
    <2>2. CASE UNCHANGED vars
      <3>1. pc' = pc /\ local' = local /\ stored' = stored /\ faults' = faults
            /\ Referenced' = Referenced
        BY <2>2, ReferencesUnchanged DEF vars, handlerVars
      <3> QED
        BY <1>2, <3>1 DEF ArtifactsInv, Making, CommitsAreTruthful, NothingIsLeft
    <2> QED
      BY <1>2, <2>1, <2>2 DEF Next
  <1> QED
    BY ServiceInvariantHolds, AnswersInvariantHolds, <1>1, <1>2, PTL DEF Spec

\* As long as no commit raises after it took effect, the composition a version
\* names is in the artifact store: neither the loser of a race, nor a refused
\* retry, nor a clean-up after an error deletes it.
THEOREM ArtifactsStay == Spec => []ReferencedArtifactsStored
  <1>1. ArtifactsInv => ReferencedArtifactsStored
    BY DEF ArtifactsInv, ReferencedArtifactsStored
  <1> QED
    BY ArtifactsInvariantHolds, <1>1, PTL

\* And once the handlers are at rest nothing else is in it, unless a process
\* ended or a save or a delete of the store failed.
THEOREM NoOrphansStay == Spec => []NoOrphansAtRest
  <1>1. ArtifactsInv /\ ServiceInv => NoOrphansAtRest
    <2> SUFFICES ASSUME ArtifactsInv, ServiceInv, CommitsAreTruthful, NothingIsLeft,
                        \A w \in Workers : pc[w] = "idle", NEW artifact \in stored
        PROVE  artifact \in Referenced
      BY DEF NoOrphansAtRest, NothingIsLeft
    <2>1. artifact # None
      BY NoneAssumption DEF ServiceInv, HandlersTypeOK
    <2>2. \A w \in Workers : local[w].artifact = None
      BY DEF ArtifactsInv, Making, Saved, Discarding
    <2> QED
      BY <2>1, <2>2 DEF ArtifactsInv
  <1> QED
    BY ServiceInvariantHolds, ArtifactsInvariantHolds, <1>1, PTL
=============================================================================
