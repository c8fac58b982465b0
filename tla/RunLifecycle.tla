---------------------------- MODULE RunLifecycle ----------------------------
(***************************************************************************)
(* What a Run promises its client, without tables or transactions: one     *)
(* analysis, one version, at most one revision of it, each with the        *)
(* critique it was published under, and an end nothing comes back from.    *)
(* RunRepository and RunService are shown to implement it.                 *)
(***************************************************************************)
CONSTANTS Verdicts,    \* critiques a version can be published under
          Unpublished  \* no version yet

VARIABLES phase,       \* where the Run stands
          first,       \* verdict of version 1, or Unpublished
          second       \* verdict of version 2, or Unpublished

lifecycleVars == <<phase, first, second>>

Phases == {"new", "analysing", "refused", "awaiting", "producing", "open",
           "revising", "retryable", "closed"}

LifecycleInit == phase = "new" /\ first = Unpublished /\ second = Unpublished

Move(from, to) == phase = from /\ phase' = to /\ UNCHANGED <<first, second>>

\* Analysis runs once: it is refused, or leaves the Brand Lock to confirm.
Analyse == \/ Move("new", "analysing")
           \/ Move("analysing", "refused")
           \/ Move("analysing", "awaiting")

Confirm == Move("awaiting", "producing")

PhaseAfter(verdict) == IF verdict = "reject" THEN "closed" ELSE "open"

PublishFirst(verdict) ==
  /\ phase = "producing"
  /\ first = Unpublished
  /\ first' = verdict
  /\ phase' = PhaseAfter(verdict)
  /\ UNCHANGED second

\* A revision starts from an open Run whose only version is the first.
StartRevision == second = Unpublished /\ Move("open", "revising")

PublishSecond(verdict) ==
  /\ phase = "revising"
  /\ first # Unpublished
  /\ second = Unpublished
  /\ second' = verdict
  /\ phase' = PhaseAfter(verdict)
  /\ UNCHANGED first

\* A revision that fails publishes nothing; it may be tried again or not.
FailRevision == Move("revising", "retryable") \/ Move("revising", "closed")
RetryRevision == Move("retryable", "revising")

LifecycleNext ==
  \/ Analyse
  \/ Confirm
  \/ \E verdict \in Verdicts : PublishFirst(verdict) \/ PublishSecond(verdict)
  \/ StartRevision
  \/ FailRevision
  \/ RetryRevision

LifecycleSpec == LifecycleInit /\ [][LifecycleNext]_lifecycleVars
=============================================================================
