---------------------------- MODULE ObjectStorage ----------------------------
(***************************************************************************)
(* A bucket of the object store as cloud_storage.py reaches it: one HTTP   *)
(* request per operation.  A request is answered, or it is reported failed *)
(* (error status, broken connection, 15 s timeout) - and then the store may*)
(* have executed it, may never do so, or may still do so later.            *)
(***************************************************************************)
EXTENDS Naturals, FiniteSets

CONSTANT MaxLate  \* bound: requests reported failed that are still to land

VARIABLES
  objects,  \* the keys that hold an object
  late      \* requests reported failed that the store has not executed yet

storageVars == <<objects, late>>

StorageInit == objects = {} /\ late = {}

PutNew(key) == [op |-> "put_new", keys |-> {key}]    \* create_only
Put(key) == [op |-> "put", keys |-> {key}]
Remove(keys) == [op |-> "delete", keys |-> keys]

Refused(request) == request.op = "put_new" /\ request.keys \subseteq objects

Execute(request) ==
  objects' = IF request.op = "delete" THEN objects \ request.keys
             ELSE objects \cup request.keys

\* The request is executed, and its answer arrives.
Succeeds(request) == ~Refused(request) /\ Execute(request) /\ UNCHANGED late

\* No answer, or an error: refused, lost, or on its way still.
Fails(request) ==
  /\ \/ UNCHANGED late
     \/ ~Refused(request) /\ Cardinality(late) < MaxLate /\ late' = late \cup {request}
  /\ UNCHANGED objects

Land ==
  \E request \in late :
    /\ late' = late \ {request}
    /\ IF Refused(request) THEN UNCHANGED objects ELSE Execute(request)
=============================================================================
