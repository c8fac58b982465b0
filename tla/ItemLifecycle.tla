---------------------------- MODULE ItemLifecycle ----------------------------
(***************************************************************************)
(* What every store of this program promises of an item with an id of its  *)
(* own - an uploaded ad, a composed picture: it can be read from some      *)
(* moment on and until some later moment, and never again afterwards,      *)
(* whatever failing, repeated or late requests are still under way for it. *)
(* Abstract: the four stores (files and objects, ads and pictures) are     *)
(* shown to implement it, item by item.                                    *)
(***************************************************************************)
VARIABLE life   \* "new", "open" while it can be read, "closed" for ever after

LifecycleInit == life = "new"

Open == life = "new" /\ life' = "open"
Close == life \in {"new", "open"} /\ life' = "closed"

LifecycleNext == Open \/ Close

LifecycleSpec == LifecycleInit /\ [][LifecycleNext]_life
=============================================================================
