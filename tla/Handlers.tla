------------------------------ MODULE Handlers ------------------------------
(***************************************************************************)
(* What the request handlers of app.py and of the two services share: a    *)
(* worker runs one request at a time, between two of its steps any other   *)
(* worker may run, and what it read earlier is kept in local variables.    *)
(* Workers stand for the thread pool that runs the synchronous endpoints   *)
(* and for the instances of a deployment on postgres_repository.py.        *)
(***************************************************************************)
EXTENDS RunRepository

CONSTANTS
  Workers,         \* concurrent request handlers
  CriticVerdicts,  \* the verdicts the Critic reaches
  FaultProfiles    \* each a set of things the environment may do to the handlers:
                   \*   "render"          a classified error while drafting or composing
                   \*   "unexpected"      an exception no except clause names
                   \*   "database"        a connection that fails before commit
                   \*   "acknowledgement" one that fails after the commit
                   \*   "reread"          a second one, to read what was committed
                   \*   "save"            the artifact store fails half way through a
                   \*                     save, or right after one, and keeps something
                   \*   "discard"         the artifact store fails to delete
                   \*   "crash"           the process ends

ASSUME FaultsAssumption ==
  \A profile \in FaultProfiles :
    profile \subseteq {"render", "unexpected", "database", "acknowledgement",
                      "reread", "save", "discard", "crash"}
ASSUME CriticAssumption ==
  CriticVerdicts # {} /\ CriticVerdicts \subseteq Verdicts
ASSUME NoReplyAssumption == None # "ok"

VARIABLES
  pc,      \* the step each worker takes next
  local,   \* what its request has read or made so far
  reply,   \* the answer to its last request, until the next one arrives
  stored,  \* the artifacts the composition store holds, or may yet hold, any part of
  faults   \* the profile this behaviour is under; never changes

handlerVars == <<pc, local, reply, stored, faults>>
vars == <<repositoryVars, handlerVars>>

\* Nothing read or made yet.
NoLocal == [seen |-> None, lock |-> None, verdict |-> None, artifact |-> None,
            operation |-> None, response |-> None, next |-> None]

(***************************************************************************)
(* Answers.  "rejected" is any 4xx or 5xx answer but three: that of the    *)
(* draft gate, that of a failed revision, and the server error of a        *)
(* response that does not satisfy its own contract.                        *)
(***************************************************************************)
NoReply == [to |-> None, code |-> None, body |-> None]
Answer(to, code, body) == [to |-> to, code |-> code, body |-> body]
To(endpoint) == <<endpoint, None>>

HandlersInit ==
  /\ pc = [w \in Workers |-> "idle"]
  /\ local = [w \in Workers |-> NoLocal]
  /\ reply = [w \in Workers |-> NoReply]
  /\ stored = {}
  /\ faults \in FaultProfiles

\* A transaction that reads its result back on a second connection may commit
\* and still raise.
CommittedButRaised == faults \cap {"acknowledgement", "reread"} # {}

\* The request goes on at `step` with the locals `values`.
Continue(w, step, values) ==
  /\ pc' = [pc EXCEPT ![w] = step]
  /\ local' = [local EXCEPT ![w] = values]
  /\ reply' = [reply EXCEPT ![w] = NoReply]
  /\ UNCHANGED faults

\* The request ends.
Respond(w, answer) ==
  /\ pc' = [pc EXCEPT ![w] = "idle"]
  /\ local' = [local EXCEPT ![w] = NoLocal]
  /\ reply' = [reply EXCEPT ![w] = answer]
  /\ UNCHANGED faults

Reject(w, to) == Respond(w, Answer(to, "rejected", None))

(***************************************************************************)
(* uuid4() returns an id nothing refers to.  An id that nothing refers to  *)
(* any more may stand for the next one, so Artifacts bounds the ids in use *)
(* at once, not the ids ever made.                                         *)
(***************************************************************************)
Referenced == ({composition} \cup (IF revision = None THEN {}
                                   ELSE {revision.artifact})) \ {None}
FreshArtifacts == Artifacts \ (stored \cup Referenced
                                 \cup {local[w].artifact : w \in Workers})

\* The process of a worker ends: no reply, no cleanup, no rollback of what
\* is committed.  The next request to its slot is served by a new process.
Crash(w) ==
  /\ "crash" \in faults
  /\ pc[w] # "idle"
  /\ pc' = [pc EXCEPT ![w] = "idle"]
  /\ local' = [local EXCEPT ![w] = NoLocal]
  /\ UNCHANGED <<repositoryVars, reply, stored, faults>>
=============================================================================
