-------------------------- MODULE MCRunRepository --------------------------
(* One Run of RunRepository with small sets, for TLC. *)
EXTENDS RunRepository

\* A classification of each kind: two that allow a retry and one that ends.
MCFailures == {<<"connection_before_acceptance", "retry_once">>,
               <<"brand_lock_failure", "recompose_same_layers_once">>,
               <<"safety_refusal", "do_not_retry">>}
============================================================================
