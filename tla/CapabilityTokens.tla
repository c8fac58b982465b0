-------------------------- MODULE CapabilityTokens --------------------------
(***************************************************************************)
(* capability_tokens.py, as far as time goes: a token carries the second   *)
(* it expires in, while what it gives access to expires at an instant.     *)
(* Signature, audience, subject and capability are not modelled: a caller  *)
(* holds the token it was given and uses it for what it was given for.     *)
(***************************************************************************)
EXTENDS Naturals

CONSTANT Second  \* instants in a second

ASSUME SecondAssumption == Second \in Nat \ {0}

WholeSeconds(t) == t \div Second    \* int(datetime.timestamp())

\* The exp claim of a token issued at an instant for a time to live.
Expiry(issued, ttl) == WholeSeconds(issued + ttl)

\* Mutant of Accepts: the time of the check is rounded up.
AcceptsRoundedUp(exp, now) == WholeSeconds(now + Second - 1) < exp

\* verify refuses from the second exp on.
Accepts(exp, now) == WholeSeconds(now) < exp
=============================================================================
