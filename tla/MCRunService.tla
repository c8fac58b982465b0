---------------------------- MODULE MCRunService ----------------------------
(* Two request handlers of RunService over one Run, for TLC. *)
EXTENDS RunService, TLC

\* The one classification the service records for a failed operation, with
\* the two actions it may carry.
MCFailures == {"connection_before_acceptance"} \X {"retry_once", "do_not_retry"}

\* Workers, idempotency keys and artifact ids are interchangeable.
Symmetry == Permutations(Workers) \cup Permutations(Keys) \cup Permutations(Artifacts)
=============================================================================
