------------------------ MODULE RunRepositoryProofs ------------------------
(***************************************************************************)
(* Theorems about RunRepository, for every set of keys, request bodies,    *)
(* Brand Locks, artifacts and classifications.  The inductive invariant is *)
(* the conjunction of the invariants the TLC run checks: none of them but  *)
(* TypeOK is inductive on its own, because what a transaction relies on is *)
(* kept by the conditions of the others.                                   *)
(***************************************************************************)
EXTENDS RunRepository, FiniteSetTheorems, TLAPS

IInv == /\ TypeOK
        /\ RowsConsistent
        /\ OneActiveOperation
        /\ RetryHasOneSource
        /\ RevisionAccounting
        /\ EndsForAReason

----------------------------------------------------------------------------
\* Each status of the type is one of nine, and no operation id is None.
LEMMA StatusOfCritique ==
  ASSUME NEW verdict \in Verdicts
  PROVE  /\ StatusAfter(verdict) \in {"ready", "failed_final"}
         /\ StatusAfter(verdict) = "failed_final" <=> verdict = "reject"
  BY DEF StatusAfter

\* A transaction that leaves project_run_operations alone leaves alone every
\* set that is defined from it.
LEMMA OperationsUntouched ==
  ASSUME UNCHANGED operations
  PROVE  /\ \A state : IdsIn(state)' = IdsIn(state)
         /\ RetrySources' = RetrySources
         /\ NothingClaimedYet' <=> NothingClaimedYet
  BY DEF IdsIn, RetrySources, NothingClaimedYet

\* Inserting a row in progress adds its id to those in progress only.
LEMMA RowInserted ==
  ASSUME operations \in [OperationIds -> Operations],
         NEW id \in OperationIds, operations[id].state = "absent",
         NEW row \in Operations, row.state = "in_progress",
         operations' = [operations EXCEPT ![id] = row]
  PROVE  /\ IdsIn("in_progress")' = IdsIn("in_progress") \cup {id}
         /\ \A state \in OperationStates \ {"in_progress"} :
               IdsIn(state)' = IdsIn(state)
         /\ RetrySources' = RetrySources
  BY DEF IdsIn, RetrySources, OperationStates

----------------------------------------------------------------------------
\* The row of a new Run satisfies the invariant.
LEMMA InitIInv == RepositoryInit => IInv
  <1> SUFFICES ASSUME RepositoryInit PROVE IInv
    OBVIOUS
  <1> USE DEF RepositoryInit
  <1>1. TypeOK
    <2>1. NoOperation \in Operations
      BY DEF NoOperation, Operations
    <2>2. operations \in [OperationIds -> Operations]
      BY <2>1
    <2>3. warned \in BOOLEAN
      BY Zenon
    <2> QED
      BY <2>2, <2>3 DEF TypeOK, Status
  <1>2. \A id \in OperationIds : operations[id].state = "absent"
    BY DEF NoOperation
  <1>3. /\ NothingClaimedYet
        /\ \A state \in OperationStates : IdsIn(state) = {}
    BY <1>2 DEF NothingClaimedYet, IdsIn, OperationStates
  <1>4. RowsConsistent
    <2>1. None # "reject"
      BY NoneAssumption DEF Verdicts
    <2>2. ColumnsFilledInOrder /\ StatusFitsColumns
      BY <2>1 DEF ColumnsFilledInOrder, StatusFitsColumns
    <2>3. StatusFitsOperations
      BY <1>3 DEF StatusFitsOperations, OperationStates
    <2> QED
      BY <2>2, <2>3 DEF RowsConsistent
  <1>5. OneActiveOperation
    BY <1>3 DEF OneActiveOperation, OperationStates
  <1>6. RetryHasOneSource
    BY <1>2 DEF RetryHasOneSource
  <1>7. RevisionAccounting
    BY <1>3 DEF RevisionAccounting, OperationStates
  <1>8. EndsForAReason
    BY DEF EndsForAReason
  <1> QED
    BY <1>1, <1>4, <1>5, <1>6, <1>7, <1>8 DEF IInv

----------------------------------------------------------------------------
(***************************************************************************)
(* The transactions before the first revision: they leave versionTwo       *)
(* alone, so only the status and the columns of version 1 move.            *)
(***************************************************************************)
\* Nothing is claimed before the critique, so all that is said of operations
\* and revision goes on holding of none.
LEMMA NothingClaimedBeforeCritique ==
  ASSUME IInv, UNCHANGED versionTwo, critique = None,
         status' # "failed_retryable",
         critique' = None \/ status' # "in_progress"
  PROVE  /\ StatusFitsOperations'
         /\ OneActiveOperation'
         /\ RetryHasOneSource'
         /\ RevisionAccounting'
         /\ NewestVerdict' = critique'
  <1>1. UNCHANGED <<operations, revision, revisionCount, attemptCount>>
    BY DEF versionTwo
  <1>2. NothingClaimedYet' /\ revision' = None
    BY <1>1, OperationsUntouched DEF IInv, RowsConsistent, StatusFitsOperations
  <1>3. \A state \in OperationStates : IdsIn(state)' = {}
    BY <1>2 DEF NothingClaimedYet, IdsIn, OperationStates
  <1>4. StatusFitsOperations'
    BY <1>1, <1>2, <1>3
       DEF IInv, RowsConsistent, StatusFitsOperations, RevisionAccounting, OperationStates
  <1>5. OneActiveOperation'
    BY <1>3 DEF OneActiveOperation, OperationStates
  <1>6. RetryHasOneSource'
    BY <1>2 DEF NothingClaimedYet, RetryHasOneSource
  <1>7. RevisionAccounting'
    BY <1>1, <1>2, <1>3
       DEF IInv, RevisionAccounting, OperationStates
  <1>8. NewestVerdict' = critique'
    BY <1>2 DEF NewestVerdict
  <1> QED
    BY <1>4, <1>5, <1>6, <1>7, <1>8

LEMMA ClaimAnalysisKeeps ==
  ASSUME IInv, ClaimAnalysis
  PROVE  IInv'
  <1> USE DEF ClaimAnalysis, versionOne
  <1>1. critique = None
    BY DEF IInv, RowsConsistent, ColumnsFilledInOrder, StatusFitsColumns
  <1>2. TypeOK'
    BY DEF IInv, TypeOK, Status, versionTwo
  <1>3. ColumnsFilledInOrder' /\ StatusFitsColumns'
    BY <1>1, NoneAssumption DEF IInv, RowsConsistent, ColumnsFilledInOrder, StatusFitsColumns, Verdicts
  <1>4. /\ StatusFitsOperations' /\ OneActiveOperation'
        /\ RetryHasOneSource' /\ RevisionAccounting'
        /\ NewestVerdict' = critique'
    BY <1>1, NothingClaimedBeforeCritique
  <1>5. EndsForAReason'
    BY <1>4 DEF EndsForAReason
  <1> QED
    BY <1>2, <1>3, <1>4, <1>5 DEF IInv, RowsConsistent

LEMMA CompleteAnalysisKeeps ==
  ASSUME IInv, NEW lock \in Locks, CompleteAnalysis(lock), analysis = None
  PROVE  IInv'
  <1> USE DEF CompleteAnalysis, versionOne
  <1>1. critique = None
    BY DEF IInv, RowsConsistent, ColumnsFilledInOrder, StatusFitsColumns
  <1>2. TypeOK'
    BY DEF IInv, TypeOK, Status, versionTwo
  <1>3. ColumnsFilledInOrder' /\ StatusFitsColumns'
    BY <1>1, NoneAssumption DEF IInv, RowsConsistent, ColumnsFilledInOrder, StatusFitsColumns, Verdicts
  <1>4. /\ StatusFitsOperations' /\ OneActiveOperation'
        /\ RetryHasOneSource' /\ RevisionAccounting'
        /\ NewestVerdict' = critique'
    BY <1>1, NothingClaimedBeforeCritique
  <1>5. EndsForAReason'
    BY <1>4 DEF EndsForAReason
  <1> QED
    BY <1>2, <1>3, <1>4, <1>5 DEF IInv, RowsConsistent

LEMMA RecordFailureKeeps ==
  ASSUME IInv, NEW target \in {"blocked", "failed"}, RecordFailure(status, target), BeingAnalysed
  PROVE  IInv'
  <1> USE DEF RecordFailure, versionOne
  <1>1. critique = None
    BY DEF IInv, RowsConsistent, ColumnsFilledInOrder, StatusFitsColumns, BeingAnalysed
  <1>2. TypeOK'
    BY DEF IInv, TypeOK, Status, versionTwo
  <1>3. ColumnsFilledInOrder' /\ StatusFitsColumns'
    BY <1>1, NoneAssumption DEF IInv, RowsConsistent, ColumnsFilledInOrder, StatusFitsColumns, Verdicts, BeingAnalysed
  <1>4. /\ StatusFitsOperations' /\ OneActiveOperation'
        /\ RetryHasOneSource' /\ RevisionAccounting'
        /\ NewestVerdict' = critique'
    BY <1>1, NothingClaimedBeforeCritique
  <1>5. EndsForAReason'
    BY <1>4 DEF EndsForAReason
  <1> QED
    BY <1>2, <1>3, <1>4, <1>5 DEF IInv, RowsConsistent

LEMMA ConfirmBrandLockKeeps ==
  ASSUME IInv, NEW lock \in Locks, ConfirmBrandLock(lock)
  PROVE  IInv'
  <1> USE DEF ConfirmBrandLock, versionOne
  <1>1. critique = None
    BY DEF IInv, RowsConsistent, ColumnsFilledInOrder, StatusFitsColumns
  <1>2. TypeOK'
    BY DEF IInv, TypeOK, Status, versionTwo
  <1>3. ColumnsFilledInOrder' /\ StatusFitsColumns'
    BY <1>1, NoneAssumption DEF IInv, RowsConsistent, ColumnsFilledInOrder, StatusFitsColumns, Verdicts
  <1>4. /\ StatusFitsOperations' /\ OneActiveOperation'
        /\ RetryHasOneSource' /\ RevisionAccounting'
        /\ NewestVerdict' = critique'
    BY <1>1, NothingClaimedBeforeCritique
  <1>5. EndsForAReason'
    BY <1>4 DEF EndsForAReason
  <1> QED
    BY <1>2, <1>3, <1>4, <1>5 DEF IInv, RowsConsistent

LEMMA SaveDraftKeeps ==
  ASSUME IInv, NEW lock \in Locks, SaveDraft(lock)
  PROVE  IInv'
  <1> USE DEF SaveDraft, versionOne
  <1>1. critique = None
    BY DEF IInv, RowsConsistent, ColumnsFilledInOrder, StatusFitsColumns
  <1>2. TypeOK'
    BY DEF IInv, TypeOK, Status, versionTwo
  <1>3. ColumnsFilledInOrder' /\ StatusFitsColumns'
    BY <1>1, NoneAssumption DEF IInv, RowsConsistent, ColumnsFilledInOrder, StatusFitsColumns, Verdicts
  <1>4. /\ StatusFitsOperations' /\ OneActiveOperation'
        /\ RetryHasOneSource' /\ RevisionAccounting'
        /\ NewestVerdict' = critique'
    BY <1>1, NothingClaimedBeforeCritique
  <1>5. EndsForAReason'
    BY <1>4 DEF EndsForAReason
  <1> QED
    BY <1>2, <1>3, <1>4, <1>5 DEF IInv, RowsConsistent

LEMMA SaveCompositionKeeps ==
  ASSUME IInv, NEW artifact \in Artifacts, SaveComposition(artifact)
  PROVE  IInv'
  <1> USE DEF SaveComposition, versionOne
  <1>1. critique = None
    BY DEF IInv, RowsConsistent, ColumnsFilledInOrder, StatusFitsColumns
  <1>2. TypeOK'
    BY DEF IInv, TypeOK, Status, versionTwo
  <1>3. ColumnsFilledInOrder' /\ StatusFitsColumns'
    BY <1>1, NoneAssumption DEF IInv, RowsConsistent, ColumnsFilledInOrder, StatusFitsColumns, Verdicts
  <1>4. /\ StatusFitsOperations' /\ OneActiveOperation'
        /\ RetryHasOneSource' /\ RevisionAccounting'
        /\ NewestVerdict' = critique'
    BY <1>1, NothingClaimedBeforeCritique
  <1>5. EndsForAReason'
    BY <1>4 DEF EndsForAReason
  <1> QED
    BY <1>2, <1>3, <1>4, <1>5 DEF IInv, RowsConsistent

LEMMA SaveCritiqueKeeps ==
  ASSUME IInv, NEW verdict \in Verdicts, SaveCritique(verdict)
  PROVE  IInv'
  <1> USE DEF SaveCritique, versionOne
  <1>1. critique = None
    BY DEF IInv, RowsConsistent, ColumnsFilledInOrder, StatusFitsColumns
  <1>2. TypeOK'
    BY StatusOfCritique DEF IInv, TypeOK, Status, versionTwo
  <1>3. ColumnsFilledInOrder' /\ StatusFitsColumns'
    BY <1>1, NoneAssumption DEF IInv, RowsConsistent, ColumnsFilledInOrder, StatusFitsColumns, Verdicts, StatusAfter
  <1>4. /\ StatusFitsOperations' /\ OneActiveOperation'
        /\ RetryHasOneSource' /\ RevisionAccounting'
        /\ NewestVerdict' = critique'
    BY <1>1, NothingClaimedBeforeCritique, StatusOfCritique
  <1>5. EndsForAReason'
    BY <1>4, StatusOfCritique DEF EndsForAReason
  <1> QED
    BY <1>2, <1>3, <1>4, <1>5 DEF IInv, RowsConsistent

----------------------------------------------------------------------------
(***************************************************************************)
(* The transactions of a revision: they leave versionOne alone.            *)
(***************************************************************************)
LEMMA ClaimFeedbackKeeps ==
  ASSUME IInv, NEW id \in OperationIds, NEW print \in Prints,
         ClaimFeedback(id, print)
  PROVE  IInv'
  <1> DEFINE row == [NoOperation EXCEPT !.state = "in_progress", !.print = print]
  <1>1. /\ status = "ready" /\ revision = None /\ status' = "in_progress"
        /\ id[1] = "feedback" /\ operations[id].state = "absent"
        /\ operations' = [operations EXCEPT ![id] = row]
        /\ UNCHANGED <<warned, analysis, confirmed, draft, composition, critique,
                       generationCount, revision, revisionCount, attemptCount>>
    BY DEF ClaimFeedback, InsertFeedback, versionOne
  <1>2. row \in Operations /\ row.state = "in_progress"
    BY DEF NoOperation, Operations, OperationStates
  <1>3. TypeOK'
    BY <1>1, <1>2 DEF IInv, TypeOK, Status
  <1>4. NothingClaimedYet /\ critique \notin {None, "reject"} /\ analysis # None
    BY <1>1 DEF IInv, RowsConsistent, StatusFitsColumns, StatusFitsOperations
  <1>5. /\ IdsIn("in_progress")' = {id}
        /\ IdsIn("succeeded")' = {}
        /\ \A other \in OperationIds \ {id} : operations'[other].state = "absent"
    BY <1>1, <1>2, <1>4 DEF IInv, TypeOK, NothingClaimedYet, IdsIn, OperationStates
  <1>6. ColumnsFilledInOrder' /\ StatusFitsColumns'
    BY <1>1, <1>4
       DEF IInv, RowsConsistent, ColumnsFilledInOrder, StatusFitsColumns
  <1>7. StatusFitsOperations'
    BY <1>1, <1>4, <1>5 DEF IInv, RowsConsistent, StatusFitsOperations
  <1>8. OneActiveOperation'
    BY <1>1, <1>4, <1>5 DEF OneActiveOperation
  <1>9. RetryHasOneSource'
    BY <1>1, <1>5 DEF RetryHasOneSource
  <1>10. RevisionAccounting'
    BY <1>1, <1>5 DEF IInv, RevisionAccounting
  <1>11. EndsForAReason'
    BY <1>1 DEF EndsForAReason
  <1> QED
    BY <1>3, <1>6, <1>7, <1>8, <1>9, <1>10, <1>11 DEF IInv, RowsConsistent

LEMMA ClaimRetryKeeps ==
  ASSUME IInv, NEW id \in OperationIds, NEW print \in Prints,
         ClaimRetry(id, print)
  PROVE  IInv'
  <1>1. PICK source \in RetrySources :
          operations' = [operations EXCEPT
                           ![id] = [NoOperation EXCEPT
                                      !.state = "in_progress",
                                      !.print = print,
                                      !.condition = operations[source].condition,
                                      !.action = operations[source].action]]
    BY DEF ClaimRetry, InsertRetry
  <1> DEFINE row == [NoOperation EXCEPT
                       !.state = "in_progress",
                       !.print = print,
                       !.condition = operations[source].condition,
                       !.action = operations[source].action]
  <1>2. /\ status = "failed_retryable" /\ status' = "in_progress"
        /\ id[1] = "retry" /\ operations[id].state = "absent"
        /\ attemptCount' = attemptCount + 1
        /\ UNCHANGED <<warned, analysis, confirmed, draft, composition, critique,
                       generationCount, revision, revisionCount>>
    BY DEF ClaimRetry, versionOne
  <1>3. row \in Operations /\ row.state = "in_progress"
    BY DEF IInv, TypeOK, NoOperation, Operations, OperationStates, RetrySources, IdsIn
  <1>4. TypeOK'
    BY <1>1, <1>2, <1>3 DEF IInv, TypeOK, Status
  <1>5. /\ critique \notin {None, "reject"} /\ analysis # None /\ revision = None
        /\ IdsIn("in_progress") = {} /\ IdsIn("succeeded") = {} /\ RetrySources # {}
    BY <1>2 DEF IInv, RowsConsistent, StatusFitsColumns, StatusFitsOperations
  <1>6. /\ IdsIn("in_progress")' = {id}
        /\ IdsIn("succeeded")' = {}
        /\ RetrySources' # {}
    BY <1>1, <1>2, <1>3, <1>5, RowInserted DEF IInv, TypeOK, OperationStates
  <1>7. ColumnsFilledInOrder' /\ StatusFitsColumns'
    BY <1>2, <1>5
       DEF IInv, RowsConsistent, ColumnsFilledInOrder, StatusFitsColumns
  <1>8. StatusFitsOperations'
    BY <1>2, <1>5, <1>6 DEF IInv, RowsConsistent, StatusFitsOperations
  <1>9. OneActiveOperation'
    BY <1>2, <1>5, <1>6 DEF OneActiveOperation
  <1>10. RetryHasOneSource'
    <2>1. \A other \in OperationIds :
            other[1] = "feedback" => operations'[other] = operations[other]
      BY <1>1, <1>2 DEF IInv, TypeOK
    <2> QED
      BY <1>2, <2>1 DEF IInv, RetryHasOneSource
  <1>11. RevisionAccounting'
    BY <1>2, <1>5, <1>6 DEF IInv, RevisionAccounting
  <1>12. EndsForAReason'
    BY <1>2 DEF EndsForAReason
  <1> QED
    BY <1>4, <1>7, <1>8, <1>9, <1>10, <1>11, <1>12 DEF IInv, RowsConsistent

LEMMA FailOperationKeeps ==
  ASSUME IInv, NEW id \in OperationIds,
         NEW condition \in RetryConditions, NEW action \in RetryActions,
         FailOperation(id, condition, action)
  PROVE  IInv'
  <1> DEFINE outcome == IF action \in OnceActions THEN "failed_retryable"
                                                  ELSE "failed_final"
             row == [operations[id] EXCEPT !.state = outcome,
                                           !.condition = condition,
                                           !.action = action]
  <1>1. /\ operations[id].state = "in_progress"
        /\ operations' = [operations EXCEPT ![id] = row]
        /\ status' = outcome
        /\ UNCHANGED <<warned, analysis, confirmed, draft, composition, critique,
                       generationCount, revision, revisionCount, attemptCount>>
    BY DEF FailOperation, versionOne, IInv, TypeOK
  <1>2. operations[id] \in Operations /\ row \in Operations /\ row.state = outcome
    BY DEF IInv, TypeOK, Operations, OperationStates
  <1>3. TypeOK'
    BY <1>1, <1>2 DEF IInv, TypeOK, Status
  <1>4. IdsIn("in_progress") = {id} /\ status = "in_progress" /\ critique # None
    BY <1>1 DEF IInv, OneActiveOperation, IdsIn
  <1>5. /\ critique # "reject" /\ analysis # None /\ revision = None
        /\ IdsIn("succeeded") = {}
        /\ id[1] = "retry" => RetrySources # {}
    BY <1>4 DEF IInv, RowsConsistent, StatusFitsColumns, StatusFitsOperations
  <1>6. /\ \A other \in OperationIds \ {id} : operations'[other] = operations[other]
        /\ operations'[id].state = outcome
    BY <1>1, <1>2 DEF IInv, TypeOK
  <1>7. /\ IdsIn("in_progress")' = {}
        /\ IdsIn("succeeded")' = {}
        /\ id \in IdsIn(outcome)'
    <2>1. \A other \in OperationIds :
            /\ operations'[other].state # "in_progress"
            /\ operations'[other].state # "succeeded"
      BY <1>4, <1>5, <1>6 DEF IdsIn
    <2> QED
      BY <1>6, <2>1 DEF IdsIn
  <1>8. status' = "failed_retryable" => RetrySources' # {}
    <2> SUFFICES ASSUME outcome = "failed_retryable" PROVE RetrySources' # {}
      BY <1>1
    <2>1. CASE id[1] = "feedback"
      BY <2>1, <1>7 DEF RetrySources
    <2>2. CASE id[1] = "retry"
      <3>1. PICK source \in RetrySources : source[1] = "feedback"
        BY <2>2, <1>5 DEF RetrySources
      <3>2. /\ source \in OperationIds /\ source # id
            /\ operations[source].state = "failed_retryable"
        BY <2>2, <3>1 DEF RetrySources, IdsIn
      <3>3. operations'[source].state = "failed_retryable"
        BY <1>6, <3>2
      <3> QED
        BY <3>1, <3>2, <3>3 DEF RetrySources, IdsIn
    <2> QED
      BY <2>1, <2>2 DEF OperationIds
  <1>9. ColumnsFilledInOrder' /\ StatusFitsColumns'
    BY <1>1, <1>4, <1>5
       DEF IInv, RowsConsistent, ColumnsFilledInOrder, StatusFitsColumns
  <1>10. StatusFitsOperations'
    BY <1>1, <1>4, <1>5, <1>7, <1>8 DEF IInv, RowsConsistent, StatusFitsOperations
  <1>11. OneActiveOperation'
    BY <1>1, <1>7 DEF OneActiveOperation
  <1>12. RetryHasOneSource'
    BY <1>1, <1>6, <1>8 DEF IInv, RetryHasOneSource
  <1>13. RevisionAccounting'
    BY <1>1, <1>5, <1>7 DEF IInv, RevisionAccounting
  <1>14. EndsForAReason'
    BY <1>1, <1>7 DEF EndsForAReason
  <1> QED
    BY <1>3, <1>9, <1>10, <1>11, <1>12, <1>13, <1>14 DEF IInv, RowsConsistent

LEMMA CompleteRevisionKeeps ==
  ASSUME IInv, NEW id \in OperationIds,
         NEW artifact \in Artifacts, NEW verdict \in Verdicts,
         CompleteRevision(id, ResponseNow(artifact, verdict))
  PROVE  IInv'
  <1> DEFINE response == ResponseNow(artifact, verdict)
  <1>1. /\ operations[id].state = "in_progress"
        /\ revision = None
        /\ revision' = [artifact |-> artifact, verdict |-> verdict]
        /\ revisionCount' = 1
        /\ operations' = [other \in OperationIds |->
                            IF other \in Settled(id)
                            THEN [operations[other] EXCEPT !.state = "succeeded",
                                                           !.response = response]
                            ELSE operations[other]]
        /\ status' = StatusAfter(verdict)
        /\ UNCHANGED <<warned, analysis, confirmed, draft, composition, critique,
                       generationCount, attemptCount>>
    BY DEF CompleteRevision, ResponseNow, versionOne
  <1>2. IdsIn("in_progress") = {id} /\ status = "in_progress" /\ critique # None
    BY <1>1 DEF IInv, OneActiveOperation, IdsIn
  <1>3. /\ critique # "reject" /\ analysis # None
        /\ composition \in Artifacts /\ IdsIn("succeeded") = {}
    BY <1>1, <1>2 DEF IInv, TypeOK, RowsConsistent, ColumnsFilledInOrder,
                      StatusFitsColumns, StatusFitsOperations
  <1>4. /\ response \in Responses
        /\ response.artifact = artifact /\ response.verdict = verdict
        /\ response.previous = composition /\ response.attempts = attemptCount
    BY <1>3 DEF ResponseNow, Responses, IInv, TypeOK
  <1>5. revision' \in Revisions /\ revision' # None
    <2>1. revision' \in Revisions
      BY <1>1 DEF Revisions
    <2> QED
      BY <2>1, NoneAssumption
  <1>6. ASSUME NEW other \in OperationIds
        PROVE  operations'[other] \in Operations
    <2>1. operations[other] \in Operations
      BY DEF IInv, TypeOK
    <2>2. operations'[other] = operations[other]
          \/ operations'[other] = [operations[other] EXCEPT !.state = "succeeded",
                                                            !.response = response]
      BY <1>1
    <2> QED
      BY <1>4, <2>1, <2>2 DEF Operations, OperationStates
  <1>7. TypeOK'
    <2>1. operations' \in [OperationIds -> Operations]
      BY <1>1, <1>6
    <2>2. status' \in Status
      BY <1>1, StatusOfCritique DEF Status
    <2>3. /\ revisionCount' = 1
          /\ UNCHANGED <<warned, analysis, confirmed, draft, composition,
                         critique, generationCount, attemptCount>>
      BY <1>1
    <2> QED
      BY <1>5, <2>1, <2>2, <2>3 DEF IInv, TypeOK
  <1>8. /\ id \in Settled(id)
        /\ \A other \in Settled(id) :
              /\ other \in OperationIds
              /\ operations'[other].state = "succeeded"
              /\ operations'[other].response = response
        /\ \A other \in OperationIds \ Settled(id) :
              operations'[other] = operations[other]
    BY <1>1, <1>4 DEF IInv, TypeOK, Operations, Settled, RetrySources, IdsIn
  <1>9. IdsIn("succeeded")' = Settled(id) /\ IdsIn("in_progress")' = {}
    BY <1>2, <1>3, <1>8 DEF IdsIn
  <1>10. ColumnsFilledInOrder' /\ StatusFitsColumns'
    BY <1>1, <1>2, <1>3, StatusOfCritique
       DEF IInv, RowsConsistent, ColumnsFilledInOrder, StatusFitsColumns
  <1>11. StatusFitsOperations'
    BY <1>1, <1>2, <1>3, <1>5, <1>9, StatusOfCritique
       DEF IInv, RowsConsistent, StatusFitsOperations
  <1>12. OneActiveOperation'
    BY <1>1, <1>9, StatusOfCritique DEF OneActiveOperation
  <1>13. RetryHasOneSource'
    <2>1. \A other \in OperationIds :
            operations'[other].state = "absent" <=> operations[other].state = "absent"
      BY <1>1, <1>8 DEF Settled, RetrySources, IdsIn
    <2>2. status' # "failed_retryable"
      BY <1>1, StatusOfCritique
    <2> QED
      BY <2>1, <2>2 DEF IInv, RetryHasOneSource
  <1>14. RevisionAccounting'
    <2>1. response # None
      BY <1>4, NoneAssumption
    <2> QED
      BY <1>1, <1>4, <1>5, <1>8, <1>9, <2>1 DEF RevisionAccounting
  <1>15. EndsForAReason'
    BY <1>1, <1>5, StatusOfCritique DEF EndsForAReason, NewestVerdict
  <1> QED
    BY <1>7, <1>10, <1>11, <1>12, <1>13, <1>14, <1>15 DEF IInv, RowsConsistent

----------------------------------------------------------------------------
\* Every transaction a caller may run keeps the invariant.
LEMMA NextIInv == IInv /\ [RepositoryNext]_repositoryVars => IInv'
  <1> SUFFICES ASSUME IInv, [RepositoryNext]_repositoryVars PROVE IInv'
    OBVIOUS
  <1>1. CASE ClaimAnalysis
    BY <1>1, ClaimAnalysisKeeps
  <1>2. CASE BeingAnalysed /\ CompleteAnalysis(RequestLock)
    BY <1>2, CompleteAnalysisKeeps, LocksAssumption DEF BeingAnalysed
  <1>3. CASE \E target \in {"blocked", "failed"} :
               BeingAnalysed /\ RecordFailure(status, target)
    BY <1>3, RecordFailureKeeps
  <1>4. CASE \E lock \in Locks : ConfirmBrandLock(lock) \/ SaveDraft(lock)
    BY <1>4, ConfirmBrandLockKeeps, SaveDraftKeeps
  <1>5. CASE \E artifact \in Artifacts : SaveComposition(artifact)
    BY <1>5, SaveCompositionKeeps
  <1>6. CASE \E verdict \in Verdicts : SaveCritique(verdict)
    BY <1>6, SaveCritiqueKeeps
  <1>7. CASE \E id \in OperationIds, print \in Prints :
               ClaimFeedback(id, print) \/ ClaimRetry(id, print)
    BY <1>7, ClaimFeedbackKeeps, ClaimRetryKeeps
  <1>8. CASE \E id \in OperationIds, failure \in Failures :
               FailOperation(id, failure[1], failure[2])
    <2>1. PICK id \in OperationIds, failure \in Failures :
            FailOperation(id, failure[1], failure[2])
      BY <1>8
    <2>2. failure[1] \in RetryConditions /\ failure[2] \in RetryActions
      BY FailuresAssumption
    <2> QED
      BY <2>1, <2>2, FailOperationKeeps
  <1>9. CASE \E id \in OperationIds, artifact \in Artifacts \ {composition},
                verdict \in Verdicts :
               CompleteRevision(id, ResponseNow(artifact, verdict))
    BY <1>9, CompleteRevisionKeeps
  <1>10. CASE UNCHANGED repositoryVars
    BY <1>10 DEF repositoryVars, versionOne, versionTwo, IInv, TypeOK,
       RowsConsistent, ColumnsFilledInOrder, StatusFitsColumns,
       StatusFitsOperations, NothingClaimedYet, OneActiveOperation,
       RetryHasOneSource, RevisionAccounting, EndsForAReason, NewestVerdict,
       IdsIn, RetrySources
  <1> QED
    BY <1>1, <1>2, <1>3, <1>4, <1>5, <1>6, <1>7, <1>8, <1>9, <1>10
       DEF RepositoryNext

----------------------------------------------------------------------------
\* The rows always satisfy the whole invariant.
THEOREM InvariantHolds == RepositorySpec => []IInv
  BY InitIInv, NextIInv, PTL DEF RepositorySpec

\* Type correctness: every transaction writes values of the column's type.
THEOREM TypeCorrect == RepositorySpec => []TypeOK
  <1>1. IInv => TypeOK
    BY DEF IInv
  <1> QED
    BY InvariantHolds, <1>1, PTL

\* The status, the columns and the operations table agree after every
\* transaction of repository.py.
THEOREM RowsStayConsistent == RepositorySpec => []RowsConsistent
  <1>1. IInv => RowsConsistent
    BY DEF IInv
  <1> QED
    BY InvariantHolds, <1>1, PTL

\* The claims exclude each other: at most one feedback or retry operation of a
\* Run is in progress, for any number of keys.
THEOREM OperationsExcludeEachOther == RepositorySpec => []OneActiveOperation
  <1>1. IInv => OneActiveOperation
    BY DEF IInv
  <1> QED
    BY InvariantHolds, <1>1, PTL

\* complete_revision keeps version 2, its counter and the stored responses
\* together; a replay answers the response of the one revision.
THEOREM RevisionAccounted == RepositorySpec => []RevisionAccounting
  <1>1. IInv => RevisionAccounting
    BY DEF IInv
  <1> QED
    BY InvariantHolds, <1>1, PTL

\* claim_retry_operation never chooses between stored decisions.
THEOREM RetrySourceUnique == RepositorySpec => []RetryHasOneSource
  <1>1. IInv => RetryHasOneSource
    BY DEF IInv
  <1> QED
    BY InvariantHolds, <1>1, PTL

\* A ready Run was not rejected; a finally failed one has a reason.
THEOREM EndIsJustified == RepositorySpec => []EndsForAReason
  <1>1. IInv => EndsForAReason
    BY DEF IInv
  <1> QED
    BY InvariantHolds, <1>1, PTL

----------------------------------------------------------------------------
\* No transaction replaces a column of version 1, or version 2.
LEMMA TransactionsReplaceNothing ==
  ASSUME [RepositoryNext]_repositoryVars
  PROVE  /\ Fixed(analysis, analysis') /\ Fixed(confirmed, confirmed')
         /\ Fixed(draft, draft') /\ Fixed(composition, composition')
         /\ Fixed(critique, critique') /\ Fixed(revision, revision')
  <1> USE DEF Fixed, versionOne, versionTwo
  <1>1. CASE ClaimAnalysis
    BY <1>1 DEF ClaimAnalysis
  <1>2. CASE BeingAnalysed /\ CompleteAnalysis(RequestLock)
    BY <1>2 DEF BeingAnalysed, CompleteAnalysis
  <1>3. CASE \E target \in {"blocked", "failed"} :
               BeingAnalysed /\ RecordFailure(status, target)
    BY <1>3 DEF RecordFailure
  <1>4. CASE \E lock \in Locks : ConfirmBrandLock(lock) \/ SaveDraft(lock)
    BY <1>4 DEF ConfirmBrandLock, SaveDraft
  <1>5. CASE \E artifact \in Artifacts : SaveComposition(artifact)
    BY <1>5 DEF SaveComposition
  <1>6. CASE \E verdict \in Verdicts : SaveCritique(verdict)
    BY <1>6 DEF SaveCritique
  <1>7. CASE \E id \in OperationIds, print \in Prints :
               ClaimFeedback(id, print) \/ ClaimRetry(id, print)
    BY <1>7 DEF ClaimFeedback, ClaimRetry
  <1>8. CASE \E id \in OperationIds, failure \in Failures :
               FailOperation(id, failure[1], failure[2])
    BY <1>8 DEF FailOperation
  <1>9. CASE \E id \in OperationIds, artifact \in Artifacts \ {composition},
                verdict \in Verdicts :
               CompleteRevision(id, ResponseNow(artifact, verdict))
    BY <1>9 DEF CompleteRevision
  <1>10. CASE UNCHANGED repositoryVars
    BY <1>10 DEF repositoryVars
  <1> QED
    BY <1>1, <1>2, <1>3, <1>4, <1>5, <1>6, <1>7, <1>8, <1>9, <1>10 DEF RepositoryNext

\* A column of version 1, and version 2, is written once.
THEOREM VersionOneStays == RepositorySpec => VersionOneImmutable
  <1> DEFINE step == /\ Fixed(analysis, analysis') /\ Fixed(confirmed, confirmed')
                     /\ Fixed(draft, draft') /\ Fixed(composition, composition')
                     /\ Fixed(critique, critique') /\ Fixed(revision, revision')
  <1>1. [RepositoryNext]_repositoryVars => [step]_repositoryVars
    BY TransactionsReplaceNothing
  <1> QED
    BY <1>1, PTL DEF RepositorySpec, VersionOneImmutable

\* Nor is the row of an operation that succeeded.
LEMMA SucceededStay ==
  ASSUME IInv, [RepositoryNext]_repositoryVars, NEW id \in OperationIds,
         operations[id].state = "succeeded"
  PROVE  operations'[id] = operations[id]
  <1>1. operations \in [OperationIds -> Operations]
    BY DEF IInv, TypeOK
  <1>2. CASE UNCHANGED operations
    BY <1>2
  <1>3. ASSUME NEW other \in OperationIds, NEW print \in Prints,
               ClaimFeedback(other, print) \/ ClaimRetry(other, print)
        PROVE  operations'[id] = operations[id]
    <2>1. /\ operations[other].state = "absent"
          /\ \E row : operations' = [operations EXCEPT ![other] = row]
      BY <1>3 DEF ClaimFeedback, ClaimRetry, InsertFeedback, InsertRetry
    <2> QED
      BY <1>1, <2>1
  <1>4. ASSUME NEW other \in OperationIds, NEW failure \in Failures,
               FailOperation(other, failure[1], failure[2])
        PROVE  operations'[id] = operations[id]
    BY <1>1, <1>4 DEF FailOperation
  <1>5. revision # None
    BY DEF IInv, RowsConsistent, StatusFitsOperations, IdsIn
  <1>6. CASE UNCHANGED versionTwo \/ UNCHANGED repositoryVars
    BY <1>2, <1>6 DEF repositoryVars, versionTwo
  <1>7. UNCHANGED versionTwo \/ UNCHANGED repositoryVars
        \/ \E other \in OperationIds :
              \/ \E print \in Prints : ClaimFeedback(other, print) \/ ClaimRetry(other, print)
              \/ \E failure \in Failures : FailOperation(other, failure[1], failure[2])
    BY <1>5 DEF RepositoryNext, CompleteRevision, ClaimAnalysis, CompleteAnalysis,
       RecordFailure, ConfirmBrandLock, SaveDraft, SaveComposition, SaveCritique
  <1> QED
    BY <1>3, <1>4, <1>6, <1>7

\* The status moves along the table of domain.py, in the transactions that do
\* not consult it too.
THEOREM StatusFollowsTable == RepositorySpec => TransitionsAllowed
  <1> DEFINE step == status' \in {status} \cup AllowedTransitions[status]
  <1>1. IInv /\ [RepositoryNext]_repositoryVars => [step]_repositoryVars
    <2> SUFFICES ASSUME IInv, RepositoryNext PROVE step
      OBVIOUS
    <2> USE DEF AllowedTransitions, Status
    <2>1. CASE ClaimAnalysis
      BY <2>1 DEF ClaimAnalysis
    <2>2. CASE BeingAnalysed /\ CompleteAnalysis(RequestLock)
      BY <2>2 DEF CompleteAnalysis
    <2>3. CASE \E target \in {"blocked", "failed"} :
                 BeingAnalysed /\ RecordFailure(status, target)
      BY <2>3 DEF RecordFailure
    <2>4. CASE \E lock \in Locks : ConfirmBrandLock(lock) \/ SaveDraft(lock)
      BY <2>4 DEF ConfirmBrandLock, SaveDraft
    <2>5. CASE \E artifact \in Artifacts : SaveComposition(artifact)
      BY <2>5 DEF SaveComposition
    <2>6. CASE \E verdict \in Verdicts : SaveCritique(verdict)
      BY <2>6, StatusOfCritique DEF SaveCritique
    <2>7. CASE \E id \in OperationIds, print \in Prints :
                 ClaimFeedback(id, print) \/ ClaimRetry(id, print)
      BY <2>7 DEF ClaimFeedback, ClaimRetry
    <2>8. CASE \E id \in OperationIds, failure \in Failures :
                 FailOperation(id, failure[1], failure[2])
      <3>1. PICK id \in OperationIds, failure \in Failures :
              FailOperation(id, failure[1], failure[2])
        BY <2>8
      <3>2. status = "in_progress"
        BY <3>1 DEF FailOperation, IInv, OneActiveOperation, IdsIn
      <3> QED
        BY <3>1, <3>2 DEF FailOperation
    <2>9. CASE \E id \in OperationIds, artifact \in Artifacts \ {composition},
                  verdict \in Verdicts :
                 CompleteRevision(id, ResponseNow(artifact, verdict))
      <3>1. PICK id \in OperationIds, artifact \in Artifacts, verdict \in Verdicts :
              CompleteRevision(id, ResponseNow(artifact, verdict))
        BY <2>9
      <3>2. status = "in_progress" /\ status' = StatusAfter(verdict)
        BY <3>1 DEF CompleteRevision, ResponseNow, IInv, OneActiveOperation, IdsIn
      <3> QED
        BY <3>2, StatusOfCritique
    <2> QED
      BY <2>1, <2>2, <2>3, <2>4, <2>5, <2>6, <2>7, <2>8, <2>9 DEF RepositoryNext
  <1> QED
    BY InvariantHolds, <1>1, PTL DEF RepositorySpec, TransitionsAllowed

----------------------------------------------------------------------------
\* Every transaction but claim_retry_operation leaves the counter and the
\* accepted retries alone; that one adds one to both.
LEMMA RetriesFinite == IsFiniteSet(AcceptedRetries)
  <1>1. IsFiniteSet({"feedback", "retry"})
    <2>1. {"feedback", "retry"} = ({} \cup {"feedback"}) \cup {"retry"}
      OBVIOUS
    <2>2. IsFiniteSet({} \cup {"feedback"})
      BY FS_EmptySet, FS_AddElement, Zenon
    <2>3. IsFiniteSet(({} \cup {"feedback"}) \cup {"retry"})
      BY <2>2, FS_AddElement, Zenon
    <2> QED
      BY <2>1, <2>3, Zenon
  <1>2. IsFiniteSet(OperationIds)
    BY <1>1, FS_Product, KeysAssumption DEF OperationIds
  <1> QED
    BY <1>2, FS_Subset DEF AcceptedRetries

LEMMA RetriesChange ==
  ASSUME IInv, RepositoryNext
  PROVE  \/ UNCHANGED <<attemptCount, AcceptedRetries>>
         \/ \E id \in OperationIds \ AcceptedRetries :
              /\ attemptCount' = attemptCount + 1
              /\ AcceptedRetries' = AcceptedRetries \cup {id}
  <1>1. CASE UNCHANGED versionTwo
    BY <1>1 DEF versionTwo, AcceptedRetries
  <1>2. CASE \E id \in OperationIds, print \in Prints : ClaimFeedback(id, print)
    <2>1. PICK id \in OperationIds, print \in Prints : ClaimFeedback(id, print)
      BY <1>2
    <2>2. id[1] = "feedback" /\ UNCHANGED attemptCount
      BY <2>1 DEF ClaimFeedback
    <2>3. \A other \in OperationIds :
            other[1] = "retry" => operations'[other] = operations[other]
      BY <2>1, <2>2 DEF ClaimFeedback, InsertFeedback, IInv, TypeOK
    <2> QED
      BY <2>2, <2>3 DEF AcceptedRetries
  <1>3. CASE \E id \in OperationIds, print \in Prints : ClaimRetry(id, print)
    <2>1. PICK id \in OperationIds, print \in Prints : ClaimRetry(id, print)
      BY <1>3
    <2>2. /\ id[1] = "retry" /\ operations[id].state = "absent"
          /\ attemptCount' = attemptCount + 1
      BY <2>1 DEF ClaimRetry
    <2>3. /\ operations'[id].state = "in_progress"
          /\ \A other \in OperationIds \ {id} : operations'[other] = operations[other]
      BY <2>1 DEF ClaimRetry, InsertRetry, NoOperation, IInv, TypeOK
    <2> QED
      BY <2>2, <2>3 DEF AcceptedRetries
  <1>4. CASE \E id \in OperationIds, failure \in Failures :
               FailOperation(id, failure[1], failure[2])
    <2>1. PICK id \in OperationIds, failure \in Failures :
            FailOperation(id, failure[1], failure[2])
      BY <1>4
    <2>2. /\ operations[id].state = "in_progress" /\ UNCHANGED attemptCount
          /\ operations'[id].state \in {"failed_retryable", "failed_final"}
          /\ \A other \in OperationIds \ {id} : operations'[other] = operations[other]
      BY <2>1 DEF FailOperation, IInv, TypeOK, Operations
    <2> QED
      BY <2>2 DEF AcceptedRetries
  <1>5. CASE \E id \in OperationIds, artifact \in Artifacts, verdict \in Verdicts :
               CompleteRevision(id, ResponseNow(artifact, verdict))
    <2>1. PICK id \in OperationIds, artifact \in Artifacts, verdict \in Verdicts :
            CompleteRevision(id, ResponseNow(artifact, verdict))
      BY <1>5
    <2>2. operations[id].state = "in_progress" /\ UNCHANGED attemptCount
      BY <2>1 DEF CompleteRevision
    <2>3. \A other \in OperationIds :
            operations'[other].state = "absent" <=> operations[other].state = "absent"
      BY <2>1, <2>2
         DEF CompleteRevision, Settled, RetrySources, IdsIn, IInv, TypeOK, Operations
    <2> QED
      BY <2>2, <2>3 DEF AcceptedRetries
  <1> QED
    BY <1>1, <1>2, <1>3, <1>4, <1>5
       DEF RepositoryNext, ClaimAnalysis, CompleteAnalysis, RecordFailure,
           ConfirmBrandLock, SaveDraft, SaveComposition, SaveCritique

\* technical_attempt_count counts the accepted retries: no other transaction
\* of repository.py moves one without the other.
THEOREM AttemptsAreCounted == RepositorySpec => []AttemptsCounted
  <1>1. RepositoryInit => AttemptsCounted
    <2> SUFFICES ASSUME RepositoryInit PROVE AttemptsCounted
      OBVIOUS
    <2>1. AcceptedRetries = {}
      BY DEF RepositoryInit, AcceptedRetries, NoOperation
    <2> QED
      BY <2>1, FS_EmptySet DEF AttemptsCounted, RepositoryInit
  <1>2. IInv /\ AttemptsCounted /\ [RepositoryNext]_repositoryVars => AttemptsCounted'
    <2> SUFFICES ASSUME IInv, AttemptsCounted, [RepositoryNext]_repositoryVars
                 PROVE  AttemptsCounted'
      OBVIOUS
    <2>1. CASE UNCHANGED repositoryVars
      BY <2>1 DEF repositoryVars, versionTwo, AttemptsCounted, AcceptedRetries
    <2>2. CASE UNCHANGED <<attemptCount, AcceptedRetries>>
      BY <2>2 DEF AttemptsCounted
    <2>3. CASE \E id \in OperationIds \ AcceptedRetries :
                 /\ attemptCount' = attemptCount + 1
                 /\ AcceptedRetries' = AcceptedRetries \cup {id}
      BY <2>3, RetriesFinite, FS_AddElement DEF AttemptsCounted
    <2> QED
      BY <2>1, <2>2, <2>3, RetriesChange
  <1> QED
    BY InvariantHolds, <1>1, <1>2, PTL DEF RepositorySpec

\* The stored decision to retry and the count of retries together, as the run
\* checks them (claim_retry_operation).
THEOREM RetriesAccounted == RepositorySpec => []RetryAccounting
  <1>1. RetryHasOneSource /\ AttemptsCounted => RetryAccounting
    BY DEF RetryAccounting
  <1> QED
    BY RetrySourceUnique, AttemptsAreCounted, <1>1, PTL

-----------------------------------------------------------------------------
(***************************************************************************)
(* The rows implement the lifecycle: RepositorySpec => ImplementsLifecycle *)
(* for every value of the constants, by the mapping of RunRepository.      *)
(***************************************************************************)

\* The phase of each status: the first three are the three meanings of
\* "in_progress".
PhaseByStatus ==
  /\ status = "in_progress" /\ analysis = None => Phase = "analysing"
  /\ status = "in_progress" /\ analysis # None /\ critique = None
       => Phase = "producing"
  /\ status = "in_progress" /\ analysis # None /\ critique # None
       => Phase = "revising"
  /\ status = "pending" => Phase = "new"
  /\ status \in {"blocked", "failed"} => Phase = "refused"
  /\ status = "awaiting_brand_lock" => Phase = "awaiting"
  /\ status = "ready" => Phase = "open"
  /\ status = "failed_retryable" => Phase = "retryable"
  /\ status = "failed_final" => Phase = "closed"

LEMMA PhaseNow == PhaseByStatus
  BY DEF Phase, PhaseByStatus

LEMMA PhaseNext == PhaseByStatus'
  BY DEF Phase, PhaseByStatus

\* A new row is a new Run.
LEMMA InitRefines == RepositoryInit => Lifecycle!LifecycleInit
  BY PhaseNow DEF PhaseByStatus, RepositoryInit, Lifecycle!LifecycleInit

\* The invariant says which columns go with a status.
LEMMA ColumnsOfStatus ==
  ASSUME IInv
  PROVE  /\ confirmed # None => analysis # None
         /\ draft # None => confirmed # None
         /\ status = "ready" => analysis # None /\ critique # None
         /\ critique # None => analysis # None
         /\ status = "failed_retryable" => critique # None /\ revision = None
         /\ critique = None => revision = None
         /\ \A id \in OperationIds : operations[id].state = "in_progress" =>
               /\ status = "in_progress"
               /\ analysis # None /\ critique # None /\ revision = None
  BY DEF IInv, RowsConsistent, ColumnsFilledInOrder, StatusFitsColumns,
         StatusFitsOperations, OneActiveOperation, IdsIn

\* The analysis: claimed, completed or refused.
LEMMA AnalysisRefines ==
  ASSUME IInv, IInv',
         \/ ClaimAnalysis
         \/ BeingAnalysed /\ CompleteAnalysis(RequestLock)
         \/ \E target \in {"blocked", "failed"} :
               BeingAnalysed /\ RecordFailure(status, target)
  PROVE  Lifecycle!Analyse
  <1> USE PhaseNow, PhaseNext
      DEF PhaseByStatus, Lifecycle!Analyse, Lifecycle!Move, versionOne, versionTwo
  <1>1. CASE ClaimAnalysis
    BY <1>1 DEF ClaimAnalysis, IInv, RowsConsistent, StatusFitsColumns
  <1>2. CASE BeingAnalysed /\ CompleteAnalysis(RequestLock)
    BY <1>2 DEF BeingAnalysed, CompleteAnalysis
  <1>3. CASE \E target \in {"blocked", "failed"} :
               BeingAnalysed /\ RecordFailure(status, target)
    BY <1>3 DEF BeingAnalysed, RecordFailure
  <1> QED
    BY <1>1, <1>2, <1>3

\* The confirmation starts production.
LEMMA ConfirmRefines ==
  ASSUME IInv, NEW lock \in Locks, ConfirmBrandLock(lock)
  PROVE  Lifecycle!Confirm
  <1>1. critique = None
    BY DEF ConfirmBrandLock, IInv, RowsConsistent, ColumnsFilledInOrder
  <1> QED
    BY <1>1, PhaseNow, PhaseNext
       DEF PhaseByStatus, Lifecycle!Confirm, Lifecycle!Move, ConfirmBrandLock, versionTwo

\* Production: the draft and the composition are invisible, the critique
\* publishes version 1.
LEMMA ProductionRefines ==
  ASSUME IInv,
         \/ \E lock \in Locks : SaveDraft(lock)
         \/ \E artifact \in Artifacts : SaveComposition(artifact)
  PROVE  UNCHANGED Lifecycle!lifecycleVars
  <1>1. UNCHANGED <<status, analysis, critique, revision>>
    BY DEF SaveDraft, SaveComposition, versionTwo
  <1>2. Phase' = Phase
    BY <1>1 DEF Phase
  <1> QED
    BY <1>1, <1>2 DEF Lifecycle!lifecycleVars

LEMMA PublishFirstRefines ==
  ASSUME IInv, NEW verdict \in Verdicts, SaveCritique(verdict)
  PROVE  Lifecycle!PublishFirst(verdict)
  <1>1. /\ status = "in_progress" /\ critique = None /\ analysis # None
        /\ critique' = verdict /\ status' = StatusAfter(verdict)
        /\ UNCHANGED revision
    BY ColumnsOfStatus DEF SaveCritique, versionTwo
  <1>2. Phase = "producing"
    BY <1>1, PhaseNow DEF PhaseByStatus
  <1>3. Phase' = Lifecycle!PhaseAfter(verdict)
    BY <1>1, PhaseNext, StatusOfCritique DEF PhaseByStatus, Lifecycle!PhaseAfter
  <1> QED
    BY <1>1, <1>2, <1>3 DEF Lifecycle!PublishFirst

\* A claim of either kind starts a revision, a failure ends it, a completion
\* publishes version 2.
LEMMA ClaimRefines ==
  ASSUME IInv, NEW id \in OperationIds, NEW print \in Prints,
         ClaimFeedback(id, print) \/ ClaimRetry(id, print)
  PROVE  Lifecycle!StartRevision \/ Lifecycle!RetryRevision
  <1> USE PhaseNow, PhaseNext, ColumnsOfStatus
      DEF PhaseByStatus, Lifecycle!Move, versionOne
  <1>1. CASE ClaimFeedback(id, print)
    BY <1>1 DEF ClaimFeedback, Lifecycle!StartRevision
  <1>2. CASE ClaimRetry(id, print)
    BY <1>2 DEF ClaimRetry, Lifecycle!RetryRevision
  <1> QED
    BY <1>1, <1>2

LEMMA FailRefines ==
  ASSUME IInv, NEW id \in OperationIds, NEW condition, NEW action,
         FailOperation(id, condition, action)
  PROVE  Lifecycle!FailRevision
  <1>1. /\ operations[id].state = "in_progress"
        /\ status' \in {"failed_retryable", "failed_final"}
        /\ UNCHANGED <<critique, revision>>
    BY DEF FailOperation, versionOne
  <1>2. Phase = "revising" /\ Phase' \in {"retryable", "closed"}
    BY <1>1, ColumnsOfStatus, PhaseNow, PhaseNext DEF PhaseByStatus
  <1> QED
    BY <1>1, <1>2 DEF Lifecycle!FailRevision, Lifecycle!Move

LEMMA PublishSecondRefines ==
  ASSUME IInv, NEW id \in OperationIds,
         NEW artifact \in Artifacts, NEW verdict \in Verdicts,
         CompleteRevision(id, ResponseNow(artifact, verdict))
  PROVE  Lifecycle!PublishSecond(verdict)
  <1>1. /\ operations[id].state = "in_progress"
        /\ revision' = [artifact |-> artifact, verdict |-> verdict]
        /\ status' = StatusAfter(verdict)
        /\ UNCHANGED critique
    BY DEF CompleteRevision, ResponseNow, versionOne
  <1>2. revision' # None /\ revision'.verdict = verdict
    <2>1. revision' \in Revisions
      BY <1>1 DEF Revisions
    <2> QED
      BY <1>1, <2>1, NoneAssumption
  <1>3. Phase = "revising" /\ critique # None /\ revision = None
    BY <1>1, ColumnsOfStatus, PhaseNow DEF PhaseByStatus
  <1>4. Phase' = Lifecycle!PhaseAfter(verdict)
    BY <1>1, PhaseNext, StatusOfCritique DEF PhaseByStatus, Lifecycle!PhaseAfter
  <1> QED
    BY <1>1, <1>2, <1>3, <1>4 DEF Lifecycle!PublishSecond

----------------------------------------------------------------------------
\* Every transaction of repository.py is a step of the lifecycle or changes
\* nothing a client can see of it.
LEMMA NextRefines ==
  IInv /\ IInv' /\ [RepositoryNext]_repositoryVars
    => [Lifecycle!LifecycleNext]_Lifecycle!lifecycleVars
  <1> SUFFICES ASSUME IInv, IInv', [RepositoryNext]_repositoryVars
               PROVE  [Lifecycle!LifecycleNext]_Lifecycle!lifecycleVars
    OBVIOUS
  <1> USE DEF Lifecycle!LifecycleNext
  <1>1. CASE \/ ClaimAnalysis
             \/ BeingAnalysed /\ CompleteAnalysis(RequestLock)
             \/ \E target \in {"blocked", "failed"} :
                   BeingAnalysed /\ RecordFailure(status, target)
    BY <1>1, AnalysisRefines
  <1>2. CASE \E lock \in Locks : ConfirmBrandLock(lock)
    BY <1>2, ConfirmRefines
  <1>3. CASE \/ \E lock \in Locks : SaveDraft(lock)
             \/ \E artifact \in Artifacts : SaveComposition(artifact)
    BY <1>3, ProductionRefines
  <1>4. CASE \E verdict \in Verdicts : SaveCritique(verdict)
    BY <1>4, PublishFirstRefines
  <1>5. CASE \E id \in OperationIds, print \in Prints :
               ClaimFeedback(id, print) \/ ClaimRetry(id, print)
    BY <1>5, ClaimRefines
  <1>6. CASE \E id \in OperationIds, failure \in Failures :
               FailOperation(id, failure[1], failure[2])
    BY <1>6, FailRefines
  <1>7. CASE \E id \in OperationIds, artifact \in Artifacts \ {composition},
                verdict \in Verdicts :
               CompleteRevision(id, ResponseNow(artifact, verdict))
    BY <1>7, PublishSecondRefines
  <1>8. CASE UNCHANGED repositoryVars
    <2>1. UNCHANGED <<status, analysis, critique, revision>>
      BY <1>8 DEF repositoryVars, versionOne, versionTwo
    <2>2. Phase' = Phase
      BY <2>1 DEF Phase
    <2> QED
      BY <2>1, <2>2 DEF Lifecycle!lifecycleVars
  <1> QED
    BY <1>1, <1>2, <1>3, <1>4, <1>5, <1>6, <1>7, <1>8 DEF RepositoryNext

\* What repository.py does to the rows of a Run is what RunLifecycle promises
\* its client: one analysis, one version, at most one revision, a final end.
THEOREM RepositoryImplementsLifecycle == RepositorySpec => ImplementsLifecycle
  BY InvariantHolds, InitRefines, NextRefines, PTL
     DEF RepositorySpec, ImplementsLifecycle, Lifecycle!LifecycleSpec
=============================================================================
