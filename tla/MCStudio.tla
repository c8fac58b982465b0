------------------------------ MODULE MCStudio ------------------------------
(* The Studio page for TLC: two handlers and two sessions are given in the  *)
(* configurations.  No symmetry: the runs check liveness.                   *)
EXTENDS Studio
=============================================================================
