------------------------------ MODULE MCStorage ------------------------------
(* What the server keeps outside its database, for TLC: ads in a bucket,   *)
(* pictures on a disk or in a bucket, and the limiter's entries.  The three *)
(* share nothing, so their state graphs are explored side by side: `part`  *)
(* says which of them a behaviour is about.                                *)
EXTENDS CloudAssets, PictureStore, RateLimiter

VARIABLE part

MCInit ==
  /\ part \in {"ads", "pictures", "limiter"}
  /\ CloudInit /\ PictureInit /\ LimiterInit

MCNext ==
  /\ \/ part = "ads" /\ CloudNext /\ UNCHANGED <<deployment, saves, limiterVars>>
     \/ part = "pictures" /\ PictureNext /\ UNCHANGED <<clock, uploads, removals, deleted, limiterVars>>
     \/ part = "limiter" /\ LimiterNext /\ UNCHANGED <<cloudVars, deployment, saves>>
  /\ UNCHANGED part

MCSpec == MCInit /\ [][MCNext]_<<cloudVars, deployment, saves, limiterVars, part>>
=============================================================================
