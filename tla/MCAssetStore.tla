---------------------------- MODULE MCAssetStore ----------------------------
(* The asset store for TLC: one server and the purge script, or two servers. *)
EXTENDS AssetStore, TLC

\* Assets, contents and servers are interchangeable.
Symmetry == Permutations(Assets) \cup Permutations(Contents) \cup Permutations(Servers)
=============================================================================
