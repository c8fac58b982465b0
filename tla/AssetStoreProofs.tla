--------------------------- MODULE AssetStoreProofs ---------------------------
(***************************************************************************)
(* Theorems about AssetStore, for any number of servers, purge scripts,    *)
(* assets and faults, and any times to live.  None of the promises is      *)
(* inductive: each rests on what the process that stores an asset, and     *)
(* those that delete it, have seen of it.  AssetInv relates the three: all *)
(* that is known of an asset comes from one store, nobody adds a file once *)
(* that store has committed, a deletion has listed every file there is,    *)
(* and whoever closes an asset has reason to.                              *)
(***************************************************************************)
EXTENDS AssetStore, TLAPS

-----------------------------------------------------------------------------
\* The ids store draws itself.
Ours == Assets \ GivenIds

Steps == {"rest", "down", "write_part", "write_meta_part", "commit_content", "commit_meta",
          "confirm", "clean", "load_content", "write_tombstone", "commit_tombstone",
          "unlink", "purge_read", "purge_next"}
WriteSteps == {"write_part", "write_meta_part", "commit_content", "commit_meta"}
StoreSteps == WriteSteps \cup {"confirm", "clean"}
DeleteSteps == {"write_tombstone", "commit_tombstone", "unlink"}
BusySteps == StoreSteps \cup DeleteSteps \cup {"load_content"}

WriteRows == [data : Contents, at : Nat]
Tasks == [step : Steps, asset : Assets \cup {None}, now : Nat, data : Contents \cup {None},
          paths : SUBSET Paths, batch : SUBSET Assets, purging : BOOLEAN, late : BOOLEAN]

StoreTypeOK ==
  /\ clock \in Nat
  /\ files \in [Assets -> [Paths -> WriteRows \cup {None}]]
  /\ tombstone \in [Assets -> Nat \cup {None}]
  /\ closing \in [Assets -> Nat \cup {None}]
  /\ task \in [Processes -> Tasks]
  /\ drawn \subseteq Assets
  /\ stored \in [Assets -> WriteRows \cup {None}]
  /\ asked \in [Assets -> Nat]
  /\ deleted \subseteq Assets

\* What process p is in the middle of concerns asset a.
Op(p, a, steps) == task[p].asset = a /\ task[p].step \in steps

\* What p writes, or wrote.
Write(p) == [data |-> task[p].data, at |-> task[p].now]

\* Everything that was ever written of an asset and is still known of: on disk,
\* in the answer of store, or in the hands of a store under way.
Writes(a) == {files[a][path] : path \in Present(a)} \cup ({stored[a]} \ {None})
             \cup {Write(p) : p \in {q \in Processes : Op(q, a, WriteSteps \cup {"confirm"})}}

\* The one store of the asset has begun, and adds no file any more.
Settled(a) == a \in drawn /\ \A p \in Processes : ~Op(p, a, WriteSteps)

Old(a) == \A write \in Writes(a) : write.at + AssetTTL <= clock

\* Nobody is promised the asset any longer.
Dead(a) == asked[a] > 0 \/ Old(a)

TaskInv(p) ==
  /\ task[p].step \notin {"rest", "down"} => task[p].now <= clock /\ clock <= task[p].now + 1
  /\ task[p].step \in {"rest", "down"} => task[p].batch = {} /\ ~task[p].purging
  /\ task[p].step \in StoreSteps => p \in Servers
  /\ task[p].step \in WriteSteps \cup {"confirm"} => task[p].data \in Contents
  /\ task[p].step \in BusySteps => task[p].asset \in Assets

\* What a store under way finds on disk is what it put there.
PutSoFar(p, a) ==
  /\ At(p, "write_part") => Present(a) = {}
  /\ At(p, "write_meta_part") => Present(a) = {"part"}
  /\ At(p, "commit_content") => Present(a) = {"part", "meta_part"}
  /\ At(p, "commit_meta") => Present(a) = {"content", "meta_part"}

StoreInv(p, a) ==
  /\ a \in drawn /\ stored[a] = None
  /\ PutSoFar(p, a)
  /\ At(p, "confirm") =>
       /\ Old(a) \/ {"content", "meta"} \subseteq Present(a)
       /\ a \in deleted \/ (\E q \in Processes : Op(q, a, {"unlink"})) => Closed(a)
  /\ \A q \in Processes : Op(q, a, StoreSteps) => q = p

DeleteInv(p, a) ==
  /\ Settled(a) /\ Dead(a)
  /\ Present(a) \subseteq task[p].paths
  /\ \A write \in Writes(a) : write.at <= task[p].now

BatchInv(p, a) ==
  /\ Settled(a)
  /\ ~At(p, "purge_read") => \A write \in Writes(a) : write.at + AssetTTL <= task[p].now

ProcessInv(p, a) ==
  /\ Op(p, a, StoreSteps) => StoreInv(p, a)
  /\ Op(p, a, DeleteSteps) => DeleteInv(p, a)
  /\ Op(p, a, {"load_content"}) => ~task[p].late
  /\ a \in task[p].batch => BatchInv(p, a)

WritesInv(a) ==
  /\ Writes(a) \subseteq WriteRows
  /\ \A write \in Writes(a) : write.at <= clock
  /\ \A one, other \in Writes(a) : one = other
  /\ a \notin drawn => Writes(a) = {}

DiskInv(a) ==
  /\ "meta" \in Present(a) \/ stored[a] # None \/ a \in deleted => Settled(a)
  /\ Closed(a) => Settled(a) /\ Dead(a) /\ \A write \in Writes(a) : write.at <= tombstone[a]
  /\ closing[a] # None =>
       Settled(a) /\ Dead(a) /\ \A write \in Writes(a) : write.at <= closing[a]
  /\ asked[a] > 0 => stored[a] # None
  /\ stored[a] # None => Dead(a) \/ {"content", "meta"} \subseteq Present(a)
  /\ a \in deleted => Present(a) = {}

AssetInv(a) == WritesInv(a) /\ DiskInv(a) /\ \A p \in Processes : ProcessInv(p, a)

StoreInvariant ==
  /\ StoreTypeOK
  /\ \A p \in Processes : TaskInv(p)
  /\ \A a \in Ours : AssetInv(a)

\* Once settled an asset stays settled, and is not read again.
GoesOn(a) == Settled(a) => Settled(a)' /\ (Readable(a)' => Readable(a))

LEMMA PathsAre == Paths = {"part", "meta_part", "content", "meta"}
  BY DEF Paths, Order

LEMMA StepSets ==
  /\ BusySteps = {"write_part", "write_meta_part", "commit_content", "commit_meta", "confirm",
                  "clean", "write_tombstone", "commit_tombstone", "unlink", "load_content"}
  /\ StoreSteps = {"write_part", "write_meta_part", "commit_content", "commit_meta", "confirm",
                   "clean"}
  BY DEF BusySteps, StoreSteps, WriteSteps, DeleteSteps

LEMMA RestIsTask == Rest \in Tasks /\ Rest.step = "rest" /\ Rest.batch = {} /\ ~Rest.purging
  BY DEF Rest, Tasks, Steps

-----------------------------------------------------------------------------
(* Types, and the times a process works with.                              *)

\* The process p gets another task; nobody else does.
TaskBecomes(p, new) == task' = [task EXCEPT ![p] = new]
TypesAndTimes == StoreTypeOK /\ \A p \in Processes : TaskInv(p)

LEMMA TasksKept ==
  ASSUME TypesAndTimes, NEW p \in Processes, NEW new \in Tasks, TaskBecomes(p, new),
         clock' = clock, TaskInv(p)'
  PROVE  /\ task' \in [Processes -> Tasks] /\ \A q \in Processes : TaskInv(q)'
         /\ task'[p] = new /\ \A q \in Processes : q # p => task'[q] = task[q]
  <1>1. task \in [Processes -> Tasks]
    BY DEF TypesAndTimes, StoreTypeOK
  <1>2. /\ task' \in [Processes -> Tasks]
        /\ task'[p] = new /\ \A q \in Processes : q # p => task'[q] = task[q]
    BY <1>1 DEF TaskBecomes
  <1>3. ASSUME NEW q \in Processes, q # p PROVE TaskInv(q)'
    BY <1>2, <1>3 DEF TypesAndTimes, TaskInv
  <1> QED
    BY <1>2, <1>3

LEMMA GotoIs ==
  ASSUME TypesAndTimes, NEW p \in Processes, NEW step \in Steps, Goto(p, step)
  PROVE  \E new \in Tasks :
           /\ TaskBecomes(p, new)
           /\ new.step = step /\ new.asset = task[p].asset /\ new.now = task[p].now
           /\ new.data = task[p].data /\ new.paths = task[p].paths
           /\ new.batch = task[p].batch /\ new.purging = task[p].purging
           /\ new.late = task[p].late
  <1> DEFINE new == [task[p] EXCEPT !.step = step]
  <1>1. task[p] \in Tasks
    BY DEF TypesAndTimes, StoreTypeOK
  <1>2. new \in Tasks
    BY <1>1 DEF Tasks
  <1>3. TaskBecomes(p, new)
    BY DEF Goto, TaskBecomes
  <1>4. /\ new.step = step /\ new.asset = task[p].asset /\ new.now = task[p].now
        /\ new.data = task[p].data /\ new.paths = task[p].paths
        /\ new.batch = task[p].batch /\ new.purging = task[p].purging
        /\ new.late = task[p].late
    BY <1>1 DEF Tasks
  <1> QED
    BY <1>2, <1>3, <1>4

LEMMA GiveUpIs ==
  ASSUME TypesAndTimes, NEW p \in Processes, GiveUp(p)
  PROVE  \E new \in Tasks :
           /\ TaskBecomes(p, new)
           /\ new.step = "clean" /\ new.asset = task[p].asset /\ new.now = task[p].now
           /\ new.data = task[p].data /\ new.paths = Paths
           /\ new.batch = task[p].batch /\ new.purging = task[p].purging
           /\ new.late = task[p].late
  <1> DEFINE new == [task[p] EXCEPT !.step = "clean", !.paths = Paths]
  <1>1. task[p] \in Tasks
    BY DEF TypesAndTimes, StoreTypeOK
  <1>2. new \in Tasks
    BY <1>1 DEF Tasks, Steps
  <1>3. TaskBecomes(p, new)
    BY DEF GiveUp, TaskBecomes
  <1>4. /\ new.step = "clean" /\ new.asset = task[p].asset /\ new.now = task[p].now
        /\ new.data = task[p].data /\ new.paths = Paths
        /\ new.batch = task[p].batch /\ new.purging = task[p].purging
        /\ new.late = task[p].late
    BY <1>1 DEF Tasks
  <1> QED
    BY <1>2, <1>3, <1>4

\* A process that ends its operation is at rest, or down.
LEMMA EndIs ==
  ASSUME TypesAndTimes, NEW p \in Processes,
         \/ Return(p) \/ Abandon(p)
         \/ task' = [task EXCEPT ![p] = IF p \in Servers THEN [Rest EXCEPT !.step = "down"] ELSE Rest]
  PROVE  \E new \in Tasks :
           /\ TaskBecomes(p, new) /\ new.step \in {"rest", "down"} /\ new.asset = None
           /\ new.batch = {} /\ ~new.purging
  <1> DEFINE down == [Rest EXCEPT !.step = "down"]
  <1>1. Rest \in Tasks /\ down \in Tasks
    BY DEF Rest, Tasks, Steps
  <1>2. /\ Rest.step = "rest" /\ Rest.asset = None /\ Rest.batch = {} /\ ~Rest.purging
        /\ down.step = "down" /\ down.asset = None /\ down.batch = {} /\ ~down.purging
    BY DEF Rest
  <1> HIDE DEF down
  <1>3. TaskBecomes(p, Rest) \/ TaskBecomes(p, down)
    BY DEF Return, Abandon, TaskBecomes, down
  <1> QED
    BY <1>1, <1>2, <1>3

-----------------------------------------------------------------------------
(* What a step leaves of an asset it is not about: time may pass, and its  *)
(* tombstone may be forgotten when it has become old.                      *)

LEMMA AssetKept ==
  ASSUME StoreInvariant, NEW a \in Ours, clock' \in Nat, clock <= clock',
         files'[a] = files[a], closing'[a] = closing[a], stored'[a] = stored[a],
         asked'[a] = asked[a], a \in drawn' <=> a \in drawn, a \in deleted' <=> a \in deleted,
         \/ tombstone'[a] = tombstone[a]
         \/ tombstone'[a] = None /\ Closed(a) /\ tombstone[a] + TombstoneTTL <= clock,
         \A q \in Processes :
           task'[q] = task[q] \/ (~Op(q, a, BusySteps) /\ ~Op(q, a, BusySteps)'),
         \A q \in Processes : a \in task'[q].batch =>
           \/ task'[q] = task[q]
           \/ /\ Settled(a)
              /\ ~At(q, "purge_read")' =>
                   \A write \in Writes(a) : write.at + AssetTTL <= task'[q].now
  PROVE  AssetInv(a)' /\ GoesOn(a)
  <1>1. /\ clock \in Nat /\ a \in Assets /\ tombstone[a] \in Nat \cup {None}
        /\ AssetInv(a) /\ \A q \in Processes : TaskInv(q)
        /\ AssetTTL \in Nat \ {0} /\ TombstoneTTL \in Nat /\ AssetTTL < TombstoneTTL
        /\ asked[a] \in Nat
    BY TTLAssumption DEF StoreInvariant, StoreTypeOK, Ours
  <1>2. \A q \in Processes : \A step \in BusySteps :
          Op(q, a, {step})' <=> Op(q, a, {step})
    BY DEF Op
  <1>3. \A q \in Processes : \A steps \in SUBSET BusySteps :
          Op(q, a, steps)' <=> Op(q, a, steps)
    BY DEF Op
  <1>4. WriteSteps \cup {"confirm"} \in SUBSET BusySteps /\ WriteSteps \in SUBSET BusySteps
        /\ StoreSteps \in SUBSET BusySteps /\ DeleteSteps \in SUBSET BusySteps
        /\ {"load_content"} \in SUBSET BusySteps /\ {"unlink"} \in SUBSET BusySteps
    BY DEF BusySteps, StoreSteps, DeleteSteps
  <1>5. \A q \in Processes : Op(q, a, BusySteps) => task'[q] = task[q]
    OBVIOUS
  <1>6. Present(a)' = Present(a)
    BY DEF Present
  <1>7. Writes(a)' = Writes(a)
    <2>1. \A q \in Processes : Op(q, a, WriteSteps \cup {"confirm"}) => Write(q)' = Write(q)
      BY <1>4, <1>5 DEF Op, Write
    <2>2. {Write(q) : q \in {r \in Processes : Op(r, a, WriteSteps \cup {"confirm"})}}'
            = {Write(q) : q \in {r \in Processes : Op(r, a, WriteSteps \cup {"confirm"})}}
      BY <1>3, <1>4, <2>1
    <2>3. {files[a][path] : path \in Present(a)}' = {files[a][path] : path \in Present(a)}
      BY <1>6
    <2>4. stored'[a] = stored[a]
      OBVIOUS
    <2> QED
      BY <2>2, <2>3, <2>4, Zenon DEF Writes
  <1>8. Settled(a)' <=> Settled(a)
    BY <1>3, <1>4 DEF Settled
  <1>9. \A write \in Writes(a) : write \in WriteRows /\ write.at \in Nat /\ write.at <= clock
    BY <1>1 DEF AssetInv, WritesInv, WriteRows
  <1>10. Old(a) => Old(a)'
    <2>1. \A write \in Writes(a) : write.at + AssetTTL <= clock => write.at + AssetTTL <= clock'
      BY <1>1, <1>9
    <2> QED
      BY <1>7, <2>1 DEF Old
  <1>11. Dead(a) => Dead(a)'
    BY <1>10 DEF Dead
  <1>12. WritesInv(a)'
    <2>1. \A write \in Writes(a) : write.at <= clock'
      BY <1>1, <1>9
    <2> QED
      BY <1>1, <1>7, <2>1 DEF AssetInv, WritesInv
  <1>13. DiskInv(a)'
    BY <1>1, <1>6, <1>7, <1>8, <1>11 DEF AssetInv, DiskInv, Closed
  <1>14. ASSUME NEW q \in Processes PROVE ProcessInv(q, a)'
    <2>1. ProcessInv(q, a)
      BY <1>1 DEF AssetInv
    <2>2. ASSUME Op(q, a, StoreSteps)' PROVE StoreInv(q, a)'
      <3>1. Op(q, a, StoreSteps) /\ task'[q] = task[q]
        BY <1>3, <1>4, <1>5, <2>2 DEF Op
      <3>2. StoreInv(q, a) /\ (PutSoFar(q, a)' <=> PutSoFar(q, a))
        BY <1>6, <2>1, <3>1 DEF ProcessInv, PutSoFar, At
      <3>3. ASSUME At(q, "confirm") PROVE tombstone'[a] = tombstone[a] \/ ~Closed(a)
        <4> SUFFICES ASSUME Closed(a), tombstone[a] + TombstoneTTL <= clock PROVE FALSE
          OBVIOUS
        <4>1. Write(q) \in Writes(a)
          BY <3>1, <3>3 DEF Writes, Op, At
        <4>2. task[q].now <= tombstone[a]
          BY <1>1, <4>1 DEF AssetInv, DiskInv, Write
        <4>3. clock <= task[q].now + 1 /\ task[q].now \in Nat
          BY <1>1, <3>3 DEF TaskInv, At, StoreInvariant, StoreTypeOK, Tasks
        <4>4. tombstone[a] \in Nat
          BY <1>1 DEF Closed
        <4> QED
          BY <1>1, <4>2, <4>3, <4>4
      <3>4. \A r \in Processes :
              /\ Op(r, a, {"unlink"})' <=> Op(r, a, {"unlink"})
              /\ Op(r, a, StoreSteps)' <=> Op(r, a, StoreSteps)
        BY <1>3, <1>4
      <3>5. At(q, "confirm")' <=> At(q, "confirm")
        BY <3>1 DEF At
      <3>6. ASSUME At(q, "confirm")
            PROVE  /\ Old(a)' \/ {"content", "meta"} \subseteq Present(a)'
                   /\ a \in deleted' \/ (\E r \in Processes : Op(r, a, {"unlink"})')
                        => Closed(a)'
        BY <1>6, <1>10, <3>2, <3>3, <3>4, <3>6 DEF StoreInv, Closed
      <3> QED
        BY <3>2, <3>4, <3>5, <3>6 DEF StoreInv
    <2>3. ASSUME Op(q, a, DeleteSteps)' PROVE DeleteInv(q, a)'
      <3>1. Op(q, a, DeleteSteps) /\ task'[q] = task[q]
        BY <1>3, <1>4, <1>5, <2>3 DEF Op
      <3> QED
        BY <1>6, <1>7, <1>8, <1>11, <2>1, <3>1 DEF ProcessInv, DeleteInv
    <2>4. ASSUME Op(q, a, {"load_content"})' PROVE ~task'[q].late
      <3>1. Op(q, a, {"load_content"}) /\ task'[q] = task[q]
        BY <1>3, <1>4, <1>5, <2>4 DEF Op
      <3> QED
        BY <2>1, <3>1 DEF ProcessInv
    <2>5. ASSUME a \in task'[q].batch PROVE BatchInv(q, a)'
      <3>1. CASE task'[q] = task[q]
        BY <1>7, <1>8, <2>1, <2>5, <3>1 DEF ProcessInv, BatchInv, At
      <3>2. CASE task'[q] # task[q]
        BY <1>7, <1>8, <2>5, <3>2 DEF BatchInv
      <3> QED
        BY <3>1, <3>2
    <2> QED
      BY <2>2, <2>3, <2>4, <2>5 DEF ProcessInv
  <1>15. GoesOn(a)
    <2> SUFFICES ASSUME Settled(a), Readable(a)' PROVE Readable(a)
      BY <1>8 DEF GoesOn
    <2>1. files[a].meta # None /\ files[a].content = files[a].meta
          /\ ~(files[a].meta.at + AssetTTL <= clock')
      BY DEF Readable, Expired
    <2>2. files[a].meta \in Writes(a)
      BY <2>1, PathsAre DEF Writes, Present
    <2>3. ~(files[a].meta.at + AssetTTL <= clock)
      BY <1>1, <1>9, <2>1, <2>2
    <2>4. ~Closed(a)
      <3> SUFFICES ASSUME Closed(a) PROVE FALSE
        OBVIOUS
      <3>1. tombstone[a] + TombstoneTTL <= clock /\ tombstone[a] \in Nat
        BY <1>1 DEF Readable, Closed
      <3>2. files[a].meta.at <= tombstone[a] /\ files[a].meta.at \in Nat
        BY <1>1, <1>9, <2>2 DEF AssetInv, DiskInv
      <3> QED
        BY <1>1, <2>3, <3>1, <3>2
    <2> QED
      BY <2>1, <2>3, <2>4 DEF Readable, Expired
  <1> QED
    BY <1>12, <1>13, <1>14, <1>15 DEF AssetInv

\* A step of process p about asset b, once it is known what it does to b.
Elsewhere(b) ==
  \A a \in Assets \ {b} :
    /\ files'[a] = files[a] /\ tombstone'[a] = tombstone[a] /\ closing'[a] = closing[a]
    /\ stored'[a] = stored[a] /\ asked'[a] = asked[a]
    /\ a \in drawn' <=> a \in drawn
    /\ a \in deleted' <=> a \in deleted

LEMMA StepKeeps ==
  ASSUME StoreInvariant, NEW p \in Processes, NEW b \in Assets, NEW new \in Tasks,
         clock' = clock, StoreTypeOK', TaskBecomes(p, new), TaskInv(p)', Elsewhere(b),
         task[p].step \in BusySteps => task[p].asset = b,
         new.step \in BusySteps => new.asset = b,
         \A a \in new.batch :
           \/ /\ a \in task[p].batch /\ new.now = task[p].now
              /\ task[p].step = "purge_read" => new.step = "purge_read"
           \/ a = b,
         b \in Ours => AssetInv(b)' /\ GoesOn(b)
  PROVE  StoreInvariant' /\ \A a \in Ours : GoesOn(a)
  <1>1. TypesAndTimes /\ clock \in Nat /\ clock <= clock' /\ clock' \in Nat
    BY DEF StoreInvariant, TypesAndTimes, StoreTypeOK
  <1>2. /\ \A q \in Processes : TaskInv(q)'
        /\ task'[p] = new /\ \A q \in Processes : q # p => task'[q] = task[q]
    BY <1>1, TasksKept
  <1>3. ASSUME NEW a \in Ours, a # b PROVE AssetInv(a)' /\ GoesOn(a)
    <2>1. a \in Assets \ {b} /\ AssetInv(a)
      BY <1>3 DEF Ours, StoreInvariant
    <2>2. /\ files'[a] = files[a] /\ tombstone'[a] = tombstone[a] /\ closing'[a] = closing[a]
          /\ stored'[a] = stored[a] /\ asked'[a] = asked[a]
          /\ a \in drawn' <=> a \in drawn
          /\ a \in deleted' <=> a \in deleted
      BY <2>1 DEF Elsewhere
    <2>3. ~Op(p, a, BusySteps) /\ ~Op(p, a, BusySteps)'
      BY <1>2, <1>3 DEF Op
    <2>4. \A q \in Processes :
            task'[q] = task[q] \/ (~Op(q, a, BusySteps) /\ ~Op(q, a, BusySteps)')
      BY <1>2, <2>3
    <2>5. ASSUME a \in new.batch
          PROVE  /\ Settled(a)
                 /\ ~At(p, "purge_read")' =>
                      \A write \in Writes(a) : write.at + AssetTTL <= task'[p].now
      BY <1>2, <1>3, <2>1, <2>5 DEF AssetInv, ProcessInv, BatchInv, At
    <2>6. \A q \in Processes : a \in task'[q].batch =>
            \/ task'[q] = task[q]
            \/ /\ Settled(a)
               /\ ~At(q, "purge_read")' =>
                    \A write \in Writes(a) : write.at + AssetTTL <= task'[q].now
      BY <1>2, <2>5
    <2> QED
      BY <1>1, <2>2, <2>4, <2>6, AssetKept
  <1>4. \A a \in Ours : AssetInv(a)' /\ GoesOn(a)
    BY <1>3
  <1> QED
    BY <1>2, <1>4 DEF StoreInvariant

\* A step of process p about an asset that is settled: files may go, and the
\* tombstone may come.
LEMMA SettledStep ==
  ASSUME StoreInvariant, NEW p \in Processes, NEW b \in Ours, Settled(b),
         clock' = clock, b \in drawn', \A q \in Processes : q # p => task'[q] = task[q],
         ~Op(p, b, WriteSteps)', Writes(b)' \subseteq Writes(b),
         Present(b)' \subseteq Present(b),
         \A path \in Present(b)' : files'[b][path] = files[b][path],
         asked[b] > 0 => asked'[b] > 0, asked'[b] > 0 => stored'[b] # None,
         stored'[b] # None => Dead(b)' \/ {"content", "meta"} \subseteq Present(b)',
         \/ tombstone'[b] = tombstone[b]
         \/ /\ tombstone'[b] # None /\ Dead(b)'
            /\ \A write \in Writes(b) : write.at <= tombstone'[b],
         \/ closing'[b] \in {closing[b], None}
         \/ Dead(b)' /\ \A write \in Writes(b) : write.at <= closing'[b],
         b \in deleted' => Present(b)' = {},
         ProcessInv(p, b)',
         \A q \in Processes : q # p /\ Op(q, b, StoreSteps) =>
           /\ stored'[b] = None /\ ~Op(p, b, StoreSteps)'
           /\ Op(q, b, {"confirm"}) =>
                /\ Old(b) \/ {"content", "meta"} \subseteq Present(b)'
                /\ (b \in deleted' /\ b \notin deleted) \/ Op(p, b, {"unlink"})' => Closed(b)'
  PROVE  AssetInv(b)' /\ GoesOn(b)
  <1>1. AssetInv(b)
    BY DEF StoreInvariant
  <1>2. Settled(b)'
    BY DEF Settled, Op
  <1>3. Closed(b) => Closed(b)'
    BY DEF Closed
  <1>4. (Old(b) => Old(b)') /\ (Dead(b) => Dead(b)')
    BY DEF Old, Dead
  <1>5. WritesInv(b)'
    BY <1>1 DEF AssetInv, WritesInv
  <1>6. DiskInv(b)'
    <2>1. Closed(b)' => Dead(b)' /\ \A write \in Writes(b)' : write.at <= tombstone'[b]
      BY <1>1, <1>4 DEF AssetInv, DiskInv, Closed
    <2>2. closing'[b] # None => Dead(b)' /\ \A write \in Writes(b)' : write.at <= closing'[b]
      BY <1>1, <1>4 DEF AssetInv, DiskInv
    <2> QED
      BY <1>2, <2>1, <2>2 DEF DiskInv
  <1>7. ASSUME NEW q \in Processes, q # p PROVE ProcessInv(q, b)'
    <2>1. ProcessInv(q, b) /\ task'[q] = task[q]
      BY <1>1, <1>7 DEF AssetInv
    <2>2. \A steps : Op(q, b, steps)' <=> Op(q, b, steps)
      BY <2>1 DEF Op
    <2>3. ASSUME Op(q, b, StoreSteps) PROVE StoreInv(q, b)'
      <3>1. StoreInv(q, b) /\ stored'[b] = None /\ ~Op(p, b, StoreSteps)'
        BY <1>7, <2>1, <2>3 DEF ProcessInv
      <3>2. task[q].step \in {"confirm", "clean"}
        BY <2>3 DEF Settled, Op, StoreSteps
      <3>3. PutSoFar(q, b)'
        BY <2>1, <3>2 DEF PutSoFar, At
      <3>4. \A r \in Processes : Op(r, b, StoreSteps)' => r = q
        BY <3>1 DEF StoreInv, Op
      <3>5. ASSUME At(q, "confirm")'
            PROVE  /\ Old(b)' \/ {"content", "meta"} \subseteq Present(b)'
                   /\ b \in deleted' \/ (\E r \in Processes : Op(r, b, {"unlink"})')
                        => Closed(b)'
        <4>1. Op(q, b, {"confirm"}) /\ At(q, "confirm")
          BY <2>1, <2>3, <3>5 DEF Op, At
        <4>2. /\ Old(b) \/ {"content", "meta"} \subseteq Present(b)'
              /\ (b \in deleted' /\ b \notin deleted) \/ Op(p, b, {"unlink"})' => Closed(b)'
          BY <1>7, <2>3, <4>1
        <4>3. b \in deleted \/ (\E r \in Processes : Op(r, b, {"unlink"})) => Closed(b)
          BY <3>1, <4>1 DEF StoreInv
        <4>4. \A r \in Processes : r # p => (Op(r, b, {"unlink"})' <=> Op(r, b, {"unlink"}))
          BY DEF Op
        <4> QED
          BY <1>3, <1>4, <4>2, <4>3, <4>4
      <3> QED
        BY <3>1, <3>3, <3>4, <3>5 DEF StoreInv
    <2>4. ASSUME Op(q, b, DeleteSteps) PROVE DeleteInv(q, b)'
      <3>1. DeleteInv(q, b)
        BY <2>1, <2>4 DEF ProcessInv
      <3> QED
        BY <1>2, <1>4, <2>1, <3>1 DEF DeleteInv
    <2>5. ASSUME b \in task[q].batch PROVE BatchInv(q, b)'
      BY <1>2, <2>1, <2>5 DEF ProcessInv, BatchInv, At
    <2>6. Op(q, b, {"load_content"}) => ~task'[q].late
      BY <2>1 DEF ProcessInv
    <2> QED
      BY <2>1, <2>2, <2>3, <2>4, <2>5, <2>6 DEF ProcessInv
  <1>8. GoesOn(b)
    <2> SUFFICES ASSUME Readable(b)' PROVE Readable(b)
      BY <1>2 DEF GoesOn
    <2>1. /\ files'[b]["meta"] # None /\ files'[b]["content"] = files'[b]["meta"] /\ ~Closed(b)'
          /\ ~(files'[b]["meta"].at + AssetTTL <= clock)
      BY DEF Readable, Expired
    <2>2. "meta" \in Present(b)' /\ "content" \in Present(b)'
      BY <2>1, PathsAre DEF Present
    <2>3. files'[b]["meta"] = files[b]["meta"] /\ files'[b]["content"] = files[b]["content"]
      BY <2>2
    <2> QED
      BY <1>3, <2>1, <2>3 DEF Readable, Expired
  <1> QED
    BY <1>5, <1>6, <1>7, <1>8 DEF AssetInv

\* While its one store adds files, nobody else has anything to do with an asset.
LEMMA WriterAlone ==
  ASSUME StoreInvariant, NEW p \in Processes, NEW b \in Ours, Op(p, b, WriteSteps)
  PROVE  /\ ~Settled(b) /\ b \in drawn /\ stored[b] = None /\ b \notin deleted
         /\ ~Closed(b) /\ closing[b] = None /\ asked[b] = 0 /\ "meta" \notin Present(b)
         /\ PutSoFar(p, b)
         /\ \A path \in Present(b) : files[b][path] = Write(p)
         /\ \A q \in Processes :
              /\ ~Op(q, b, DeleteSteps) /\ b \notin task[q].batch
              /\ Op(q, b, StoreSteps) => q = p
  <1>1. AssetInv(b) /\ ProcessInv(p, b) /\ \A q \in Processes : ProcessInv(q, b)
    BY DEF StoreInvariant, AssetInv
  <1>2. ~Settled(b)
    BY DEF Settled
  <1>3. StoreInv(p, b)
    BY <1>1 DEF ProcessInv, Op, StoreSteps
  <1>4. asked[b] = 0
    BY <1>1, <1>3 DEF AssetInv, DiskInv, StoreInv, StoreInvariant, StoreTypeOK, Ours
  <1>5. \A q \in Processes : ~Op(q, b, DeleteSteps) /\ b \notin task[q].batch
    BY <1>1, <1>2 DEF ProcessInv, DeleteInv, BatchInv
  <1>6. \A path \in Present(b) : files[b][path] = Write(p)
    <2>1. Write(p) \in Writes(b)
      BY DEF Writes, Op
    <2>2. \A path \in Present(b) : files[b][path] \in Writes(b)
      BY DEF Writes
    <2> QED
      BY <1>1, <2>1, <2>2 DEF AssetInv, WritesInv
  <1>7. ~Closed(b) /\ closing[b] = None /\ b \notin deleted /\ "meta" \notin Present(b)
    BY <1>1, <1>2 DEF AssetInv, DiskInv
  <1> QED
    BY <1>2, <1>3, <1>4, <1>5, <1>6, <1>7 DEF StoreInv

\* The next step of that store: it has added a file, or gives up.
LEMMA WriterStep ==
  ASSUME StoreInvariant, NEW p \in Processes, NEW b \in Ours, Op(p, b, WriteSteps),
         NEW new \in Tasks, task'[p] = new,
         \A q \in Processes : q # p => task'[q] = task[q],
         new.step \in WriteSteps \cup {"confirm", "clean"},
         new.asset = b, new.data = task[p].data, new.now = task[p].now,
         new.batch = task[p].batch,
         clock' = clock, tombstone' = tombstone, closing' = closing, drawn' = drawn,
         stored' = stored, asked' = asked, deleted' = deleted,
         PutSoFar(p, b)', new.step = "confirm" => {"content", "meta"} \subseteq Present(b)',
         "meta" \in Present(b)' => new.step = "confirm",
         \A path \in Present(b)' : files'[b][path] = Write(p)
  PROVE  AssetInv(b)' /\ GoesOn(b)
  <1>1. AssetInv(b)
    BY DEF StoreInvariant
  <1>2. /\ ~Settled(b) /\ b \in drawn /\ stored[b] = None /\ b \notin deleted
        /\ ~Closed(b) /\ closing[b] = None /\ asked[b] = 0
        /\ \A q \in Processes :
             /\ ~Op(q, b, DeleteSteps) /\ b \notin task[q].batch
             /\ Op(q, b, StoreSteps) => q = p
    BY WriterAlone
  <1>3. Write(p)' = Write(p) /\ Write(p) \in Writes(b)
    BY DEF Write, Writes, Op
  <1>4. \A q \in Processes : q # p =>
          \A steps \in SUBSET StoreSteps : ~Op(q, b, steps)'
    BY <1>2 DEF Op
  <1>5. Writes(b)' \subseteq {Write(p)}
    <2>1. WriteSteps \cup {"confirm"} \in SUBSET StoreSteps
      BY DEF StoreSteps
    <2>2. \A q \in Processes : Op(q, b, WriteSteps \cup {"confirm"})' => Write(q)' = Write(p)
      BY <1>3, <1>4, <2>1
    <2> QED
      BY <1>2, <2>2 DEF Writes
  <1>6. new.step \notin WriteSteps => Settled(b)'
    BY <1>2, <1>4 DEF Settled, Op, StoreSteps
  <1>7. WritesInv(b)'
    BY <1>1, <1>2, <1>3, <1>5 DEF AssetInv, WritesInv
  <1>8. "confirm" \notin WriteSteps
    BY DEF WriteSteps
  <1>9. DiskInv(b)'
    BY <1>2, <1>6, <1>8 DEF DiskInv, Closed
  <1>10. ASSUME NEW q \in Processes PROVE ProcessInv(q, b)'
    <2>1. b \notin task'[q].batch /\ ~Op(q, b, DeleteSteps)'
      BY <1>2 DEF Op, DeleteSteps, WriteSteps
    <2>2. Op(q, b, StoreSteps)' => q = p
      BY <1>4
    <2>3. StoreInv(p, b)'
      <3>1. \A r \in Processes : ~Op(r, b, {"unlink"})'
        BY <1>2 DEF Op, DeleteSteps, WriteSteps
      <3>2. \A r \in Processes : Op(r, b, StoreSteps)' => r = p
        BY <1>4
      <3> QED
        BY <1>2, <3>1, <3>2 DEF StoreInv, At
    <2>4. Op(q, b, {"load_content"})' => ~task'[q].late
      <3>1. q = p => ~Op(q, b, {"load_content"})'
        BY DEF Op, WriteSteps
      <3>2. q # p /\ Op(q, b, {"load_content"}) => ~task'[q].late
        BY <1>1 DEF AssetInv, ProcessInv
      <3> QED
        BY <3>1, <3>2 DEF Op
    <2> QED
      BY <2>1, <2>2, <2>3, <2>4 DEF ProcessInv
  <1> QED
    BY <1>2, <1>7, <1>9, <1>10 DEF AssetInv, GoesOn

-----------------------------------------------------------------------------
(* store.                                                                  *)

FilesType == [Assets -> [Paths -> WriteRows \cup {None}]]

LEMMA FilePut ==
  ASSUME files \in FilesType, NEW b \in Assets, NEW path \in Paths,
         NEW value \in WriteRows \cup {None}, Put(b, path, value)
  PROVE  /\ files' \in FilesType /\ files'[b][path] = value
         /\ \A other \in Paths : other # path => files'[b][other] = files[b][other]
         /\ \A a \in Assets : a # b => files'[a] = files[a]
  <1>1. files[b] \in [Paths -> WriteRows \cup {None}]
    BY DEF FilesType
  <1>2. files' = [files EXCEPT ![b] = [files[b] EXCEPT ![path] = value]]
    BY DEF Put
  <1> QED
    BY <1>1, <1>2 DEF FilesType

LEMMA FileRenamed ==
  ASSUME files \in FilesType, NEW b \in Assets, NEW from \in Paths, NEW to \in Paths, from # to,
         Rename(b, from, to)
  PROVE  /\ files' \in FilesType /\ files'[b][to] = files[b][from] /\ files'[b][from] = None
         /\ \A other \in Paths : other \notin {from, to} => files'[b][other] = files[b][other]
         /\ \A a \in Assets : a # b => files'[a] = files[a]
  <1>1. files[b] \in [Paths -> WriteRows \cup {None}]
    BY DEF FilesType
  <1>2. files' = [files EXCEPT ![b] = [[files[b] EXCEPT ![to] = files[b][from]] EXCEPT ![from] = None]]
    BY <1>1 DEF Rename, FilesType
  <1> QED
    BY <1>1, <1>2 DEF FilesType

LEMMA StoreBeginKeeps ==
  ASSUME StoreInvariant, NEW p \in Processes, NEW b \in Assets, NEW c \in Contents,
         StoreBegin(p, b, c)
  PROVE  StoreInvariant' /\ \A a \in Ours : GoesOn(a)
  <1> DEFINE new == [Rest EXCEPT !.step = "write_part", !.asset = b, !.data = c, !.now = clock]
  <1>1. /\ p \in Servers /\ task[p].step = "rest" /\ ~Closed(b)
        /\ b \notin drawn \/ b \in GivenIds
        /\ TaskBecomes(p, new) /\ drawn' = drawn \cup {b} /\ deleted' = deleted \ {b}
        /\ clock' = clock /\ files' = files /\ tombstone' = tombstone /\ closing' = closing
        /\ stored' = stored /\ asked' = asked
    BY DEF StoreBegin, At, TaskBecomes, disk
  <1>2. TypesAndTimes /\ StoreTypeOK /\ clock \in Nat
    BY DEF StoreInvariant, TypesAndTimes, StoreTypeOK
  <1>3. /\ new \in Tasks /\ new.step = "write_part" /\ new.asset = b /\ new.data = c
        /\ new.now = clock /\ new.batch = {} /\ ~new.purging
    BY <1>2 DEF Rest, Tasks, Steps
  <1> HIDE DEF new
  <1>4. task'[p] = new /\ task' \in [Processes -> Tasks]
        /\ \A q \in Processes : q # p => task'[q] = task[q]
    BY <1>1, <1>2, <1>3 DEF TaskBecomes, StoreTypeOK
  <1>5. TaskInv(p)'
    BY <1>1, <1>2, <1>3, <1>4 DEF TaskInv
  <1>6. StoreTypeOK'
    BY <1>1, <1>2, <1>4 DEF StoreTypeOK
  <1>7. Elsewhere(b)
    BY <1>1 DEF Elsewhere
  <1>8. ASSUME b \in Ours PROVE AssetInv(b)' /\ GoesOn(b)
    <2>1. b \notin drawn /\ AssetInv(b) /\ \A q \in Processes : ProcessInv(q, b)
      BY <1>1, <1>8 DEF Ours, StoreInvariant, AssetInv
    <2>2. Writes(b) = {} /\ ~Settled(b)
      BY <2>1 DEF AssetInv, WritesInv, Settled
    <2>3. Present(b) = {} /\ stored[b] = None
      BY <2>2 DEF Writes
    <2>4. \A q \in Processes :
            /\ ~Op(q, b, StoreSteps) /\ ~Op(q, b, DeleteSteps) /\ b \notin task[q].batch
      BY <2>1, <2>2 DEF ProcessInv, StoreInv, DeleteInv, BatchInv, Settled
    <2>5. /\ ~Closed(b) /\ closing[b] = None /\ b \notin deleted /\ ~(asked[b] > 0)
      BY <2>1, <2>2, <2>3 DEF AssetInv, DiskInv
    <2>6. \A q \in Processes : q # p =>
            /\ ~Op(q, b, StoreSteps)' /\ ~Op(q, b, DeleteSteps)' /\ b \notin task'[q].batch
      BY <1>4, <2>4 DEF Op
    <2>7. Present(b)' = {}
      BY <1>1, <2>3 DEF Present
    <2>8. Writes(b)' \subseteq {Write(p)'}
      <3>1. \A q \in Processes : Op(q, b, WriteSteps \cup {"confirm"})' => q = p
        BY <2>6 DEF Op, StoreSteps
      <3> QED
        BY <1>1, <2>3, <2>7, <3>1 DEF Writes
    <2>9. Write(p)' \in WriteRows /\ Write(p)'.at <= clock
      BY <1>2, <1>3, <1>4 DEF Write, WriteRows
    <2>10. WritesInv(b)'
      BY <1>1, <2>8, <2>9 DEF WritesInv
    <2>11. DiskInv(b)'
      BY <1>1, <2>3, <2>5, <2>7 DEF DiskInv, Closed
    <2>12. ASSUME NEW q \in Processes PROVE ProcessInv(q, b)'
      <3>1. CASE q = p
        <4>1. StoreInv(p, b)'
          BY <1>1, <1>3, <1>4, <2>3, <2>6, <2>7 DEF StoreInv, PutSoFar, At
        <4> QED
          BY <1>3, <1>4, <3>1, <4>1 DEF ProcessInv, Op, DeleteSteps
      <3>2. CASE q # p
        <4>1. Op(q, b, {"load_content"})' => ~task'[q].late
          BY <1>4, <2>1, <3>2 DEF ProcessInv, Op
        <4> QED
          BY <2>6, <3>2, <4>1 DEF ProcessInv
      <3> QED
        BY <3>1, <3>2
    <2> QED
      BY <2>2, <2>10, <2>11, <2>12 DEF AssetInv, GoesOn
  <1>9. task[p].step \notin BusySteps
    BY <1>1, StepSets
  <1> QED
    BY <1>1, <1>3, <1>5, <1>6, <1>7, <1>8, <1>9, StepKeeps

\* Every step of store but the last: a file comes or moves, or store gives up.
LEMMA WritingKeeps ==
  ASSUME StoreInvariant, NEW p \in Processes,
         WritePart(p) \/ WriteMetaPart(p) \/ CommitContent(p) \/ CommitMeta(p) \/ StoreFails(p)
  PROVE  StoreInvariant' /\ \A a \in Ours : GoesOn(a)
  <1>1. /\ task[p].step \in WriteSteps
        /\ clock' = clock /\ tombstone' = tombstone /\ closing' = closing /\ drawn' = drawn
        /\ stored' = stored /\ asked' = asked /\ deleted' = deleted
    BY DEF WritePart, WriteMetaPart, CommitContent, CommitMeta, StoreFails, At, WriteSteps,
           history, disk
  <1>2. TypesAndTimes /\ StoreTypeOK /\ files \in FilesType /\ TaskInv(p) /\ task[p] \in Tasks
    BY DEF StoreInvariant, TypesAndTimes, StoreTypeOK, FilesType
  <1>3. PICK b \in Assets : b = task[p].asset
    BY <1>1, <1>2 DEF TaskInv, BusySteps, StoreSteps
  <1>4. PICK value \in WriteRows : value = Write(p)
    BY <1>1, <1>2 DEF TaskInv, Write, WriteRows, Tasks
  <1>5. Op(p, b, WriteSteps) /\ value = [data |-> task[p].data, at |-> task[p].now]
    BY <1>1, <1>3, <1>4 DEF Op, Write
  <1>6. \/ \E path \in {"part", "meta_part"} : Put(b, path, value)
        \/ Rename(b, "part", "content") \/ Rename(b, "meta_part", "meta")
        \/ files' = files
    BY <1>3, <1>5 DEF WritePart, WriteMetaPart, CommitContent, CommitMeta, StoreFails, disk
  <1>7. files' \in FilesType /\ \A a \in Assets : a # b => files'[a] = files[a]
    <2>1. CASE \E path \in {"part", "meta_part"} : Put(b, path, value)
      <3>1. PICK path \in {"part", "meta_part"} : Put(b, path, value)
        BY <2>1
      <3> QED
        BY <1>2, <3>1, FilePut, PathsAre
    <2>2. CASE Rename(b, "part", "content") \/ Rename(b, "meta_part", "meta")
      BY <1>2, <2>2, FileRenamed, PathsAre
    <2>3. CASE files' = files
      BY <1>2, <2>3
    <2> QED
      BY <1>6, <2>1, <2>2, <2>3
  <1>8. PICK new \in Tasks :
          /\ TaskBecomes(p, new)
          /\ new.step \in {"write_meta_part", "commit_content", "commit_meta", "confirm", "clean"}
          /\ new.asset = b /\ new.data = task[p].data /\ new.now = task[p].now
          /\ new.batch = task[p].batch /\ new.purging = task[p].purging
    <2>1. GiveUp(p) \/ \E step \in {"write_meta_part", "commit_content", "commit_meta", "confirm"} :
                         Goto(p, step)
      BY DEF WritePart, WriteMetaPart, CommitContent, CommitMeta, StoreFails, GoOn
    <2> QED
      BY <1>2, <1>3, <2>1, GotoIs, GiveUpIs DEF Steps
  <1>9. task'[p] = new /\ task' \in [Processes -> Tasks]
        /\ \A q \in Processes : q # p => task'[q] = task[q]
    BY <1>2, <1>8 DEF TaskBecomes, StoreTypeOK
  <1>10. TaskInv(p)'
    BY <1>1, <1>2, <1>8, <1>9 DEF TaskInv, WriteSteps, StoreSteps, BusySteps
  <1>11. StoreTypeOK'
    BY <1>1, <1>2, <1>7, <1>9 DEF StoreTypeOK, FilesType
  <1>12. Elsewhere(b)
    BY <1>1, <1>7 DEF Elsewhere
  <1>13. new.step \in WriteSteps \cup {"confirm", "clean"} /\ WriteSteps \subseteq BusySteps
    BY <1>8 DEF WriteSteps, BusySteps, StoreSteps
  <1>14. ASSUME b \in Ours PROVE AssetInv(b)' /\ GoesOn(b)
    <2>1. /\ ~Closed(b) /\ "meta" \notin Present(b) /\ PutSoFar(p, b)
          /\ \A path \in Present(b) : files[b][path] = value
      <3>1. /\ ~Closed(b) /\ "meta" \notin Present(b) /\ PutSoFar(p, b)
            /\ \A path \in Present(b) : files[b][path] = Write(p)
        BY <1>5, <1>14, WriterAlone
      <3> QED
        BY <1>4, <3>1
    <2>13. ASSUME PutSoFar(p, b)', new.step = "confirm" => {"content", "meta"} \subseteq Present(b)',
                  "meta" \in Present(b)' => new.step = "confirm",
                  \A path \in Present(b)' : files'[b][path] = value
           PROVE  AssetInv(b)' /\ GoesOn(b)
      <3>1. /\ new.step \in WriteSteps \cup {"confirm", "clean"} /\ task'[p] = new
            /\ \A q \in Processes : q # p => task'[q] = task[q]
            /\ new.asset = b /\ new.data = task[p].data /\ new.now = task[p].now
            /\ new.batch = task[p].batch /\ Op(p, b, WriteSteps)
        BY <1>5, <1>8, <1>9, <1>13
      <3>2. \A path \in Present(b)' : files'[b][path] = Write(p)
        BY <1>4, <2>13
      <3> QED
        BY <1>1, <1>14, <2>13, <3>1, <3>2, WriterStep
    <2>2. \A path \in Paths : files[b][path] # None <=> path \in Present(b)
      BY DEF Present
    <2>3. Present(b) = {path \in Paths : files[b][path] # None}
          /\ Present(b)' = {path \in Paths : files'[b][path] # None}
      BY DEF Present
    <2>4. value # None
      BY <1>4, NoneIsNoData DEF WriteRows
    <2>5. CASE files' = files /\ new.step = "clean"
      <3>1. Present(b)' = Present(b)
        BY <2>5 DEF Present
      <3>2. PutSoFar(p, b)'
        BY <1>9, <2>5 DEF PutSoFar, At
      <3> QED
        BY <2>1, <2>5, <2>13, <3>1, <3>2
    <2>6. CASE /\ task[p].step = "write_part" /\ new.step = "write_meta_part"
               /\ Put(b, "part", value)
      <3>1. Present(b) = {}
        BY <2>1, <2>6 DEF PutSoFar, At
      <3>2. /\ files'[b]["part"] = value
            /\ \A other \in Paths : other # "part" => files'[b][other] = files[b][other]
        BY <1>2, <2>6, FilePut, PathsAre
      <3>3. Present(b)' = {"part"}
        BY <2>2, <2>3, <2>4, <3>1, <3>2, PathsAre
      <3>4. PutSoFar(p, b)'
        BY <1>9, <2>6, <3>3 DEF PutSoFar, At
      <3> QED
        BY <2>6, <2>13, <3>2, <3>3, <3>4
    <2>7. CASE /\ task[p].step = "write_meta_part" /\ new.step = "commit_content"
               /\ Put(b, "meta_part", value)
      <3>1. Present(b) = {"part"}
        BY <2>1, <2>7 DEF PutSoFar, At
      <3>2. /\ files'[b]["meta_part"] = value
            /\ \A other \in Paths : other # "meta_part" => files'[b][other] = files[b][other]
        BY <1>2, <2>7, FilePut, PathsAre
      <3>3. Present(b)' = {"part", "meta_part"}
        BY <2>2, <2>3, <2>4, <3>1, <3>2, PathsAre
      <3>4. PutSoFar(p, b)'
        BY <1>9, <2>7, <3>3 DEF PutSoFar, At
      <3>5. \A path \in Present(b)' : files'[b][path] = value
        BY <2>1, <3>1, <3>2, <3>3, PathsAre
      <3> QED
        BY <2>7, <2>13, <3>3, <3>4, <3>5
    <2>8. CASE /\ task[p].step = "commit_content" /\ new.step = "commit_meta"
               /\ Rename(b, "part", "content")
      <3>1. Present(b) = {"part", "meta_part"}
        BY <2>1, <2>8 DEF PutSoFar, At
      <3>2. /\ files'[b]["content"] = files[b]["part"] /\ files'[b]["part"] = None
            /\ \A other \in Paths : other \notin {"part", "content"} =>
                 files'[b][other] = files[b][other]
        BY <1>2, <2>8, FileRenamed, PathsAre
      <3>3. files[b]["part"] = value /\ files[b]["meta_part"] = value
        BY <2>1, <3>1
      <3>4. Present(b)' = {"content", "meta_part"}
        BY <2>2, <2>3, <2>4, <3>1, <3>2, <3>3, PathsAre
      <3>5. PutSoFar(p, b)'
        BY <1>9, <2>8, <3>4 DEF PutSoFar, At
      <3>6. \A path \in Present(b)' : files'[b][path] = value
        BY <3>2, <3>3, <3>4, PathsAre
      <3> QED
        BY <2>8, <2>13, <3>4, <3>5, <3>6
    <2>9. CASE /\ task[p].step = "commit_meta" /\ new.step = "confirm"
               /\ Rename(b, "meta_part", "meta")
      <3>1. Present(b) = {"content", "meta_part"}
        BY <2>1, <2>9 DEF PutSoFar, At
      <3>2. /\ files'[b]["meta"] = files[b]["meta_part"] /\ files'[b]["meta_part"] = None
            /\ \A other \in Paths : other \notin {"meta_part", "meta"} =>
                 files'[b][other] = files[b][other]
        BY <1>2, <2>9, FileRenamed, PathsAre
      <3>3. files[b]["content"] = value /\ files[b]["meta_part"] = value
        BY <2>1, <3>1
      <3>4. Present(b)' = {"content", "meta"}
        BY <2>2, <2>3, <2>4, <3>1, <3>2, <3>3, PathsAre
      <3>5. PutSoFar(p, b)'
        BY <1>9, <2>9, <3>4 DEF PutSoFar, At
      <3>6. \A path \in Present(b)' : files'[b][path] = value
        BY <3>2, <3>3, <3>4, PathsAre
      <3> QED
        BY <2>9, <2>13, <3>4, <3>5, <3>6
    <2>10. \A step : Goto(p, step) => new.step = step
      <3> SUFFICES ASSUME NEW step, Goto(p, step) PROVE new.step = step
        OBVIOUS
      <3>1. task'[p] = [task[p] EXCEPT !.step = step]
        BY <1>2 DEF Goto, StoreTypeOK
      <3> QED
        BY <1>2, <1>9, <3>1 DEF Tasks
    <2>11. GiveUp(p) => new.step = "clean"
      <3> SUFFICES ASSUME GiveUp(p) PROVE new.step = "clean"
        OBVIOUS
      <3>1. task'[p] = [task[p] EXCEPT !.step = "clean", !.paths = Paths]
        BY <1>2 DEF GiveUp, StoreTypeOK
      <3> QED
        BY <1>2, <1>9, <3>1 DEF Tasks
    <2>12. \A step : GoOn(p, step) => Goto(p, step)
      BY <1>3, <2>1 DEF GoOn
    <2> QED
      BY <1>3, <1>5, <2>5, <2>6, <2>7, <2>8, <2>9, <2>10, <2>11, <2>12
         DEF WritePart, WriteMetaPart, CommitContent, CommitMeta, StoreFails, disk, At
  <1>15. \A a \in new.batch : a \in task[p].batch /\ new.now = task[p].now
         /\ task[p].step # "purge_read"
    BY <1>1, <1>8 DEF WriteSteps
  <1> QED
    BY <1>1, <1>3, <1>8, <1>10, <1>11, <1>12, <1>13, <1>14, <1>15, StepKeeps

-----------------------------------------------------------------------------
(* A process that ends its operation, in whatever way, takes nothing along *)
(* but its write.                                                          *)

LEMMA EndKeeps ==
  ASSUME StoreInvariant, NEW p \in Processes, NEW new \in Tasks, TaskBecomes(p, new),
         new.step \in {"rest", "down"}, new.batch = {}, ~new.purging,
         clock' = clock, files' = files, tombstone' = tombstone, drawn' = drawn,
         stored' = stored, asked' = asked, deleted' = deleted,
         closing' \in [Assets -> Nat \cup {None}],
         \A a \in Assets : closing'[a] \in {closing[a], None}
  PROVE  StoreInvariant' /\ \A a \in Ours : GoesOn(a)
  <1>1. TypesAndTimes /\ task \in [Processes -> Tasks]
    BY DEF StoreInvariant, TypesAndTimes, StoreTypeOK
  <1>2. task'[p] = new /\ \A q \in Processes : q # p => task'[q] = task[q]
    BY <1>1 DEF TaskBecomes
  <1>3. TaskInv(p)'
    BY <1>2 DEF TaskInv, StoreSteps, WriteSteps, DeleteSteps, BusySteps
  <1>4. /\ task' \in [Processes -> Tasks]
        /\ \A q \in Processes : TaskInv(q)'
    BY <1>1, <1>3, TasksKept
  <1>5. StoreTypeOK'
    BY <1>4 DEF StoreInvariant, StoreTypeOK
  <1>6. ASSUME NEW a \in Ours PROVE AssetInv(a)' /\ GoesOn(a)
    <2>1. AssetInv(a) /\ closing'[a] \in {closing[a], None}
      BY DEF StoreInvariant, Ours
    <2>2. \A steps \in SUBSET BusySteps : ~Op(p, a, steps)'
      BY <1>2, StepSets DEF Op
    <2>3. WriteSteps \cup {"confirm"} \in SUBSET BusySteps /\ WriteSteps \in SUBSET BusySteps
          /\ StoreSteps \in SUBSET BusySteps /\ DeleteSteps \in SUBSET BusySteps
          /\ {"load_content"} \in SUBSET BusySteps /\ {"unlink"} \in SUBSET BusySteps
      BY DEF BusySteps, StoreSteps, DeleteSteps
    <2>4. \A q \in Processes : \A steps \in SUBSET BusySteps :
            Op(q, a, steps)' => q # p /\ Op(q, a, steps) /\ task'[q] = task[q]
      BY <1>2, <2>2 DEF Op
    <2>5. Present(a)' = Present(a)
      BY DEF Present
    <2>6. Writes(a)' \subseteq Writes(a)
      <3>1. \A q \in Processes : Op(q, a, WriteSteps \cup {"confirm"})' =>
              Op(q, a, WriteSteps \cup {"confirm"}) /\ Write(q)' = Write(q)
        BY <2>3, <2>4 DEF Write
      <3> QED
        BY <2>5, <3>1 DEF Writes
    <2>7. Settled(a) => Settled(a)'
      BY <2>3, <2>4 DEF Settled
    <2>8. (Old(a) => Old(a)') /\ (Dead(a) => Dead(a)')
      BY <2>6 DEF Old, Dead
    <2>9. WritesInv(a)'
      BY <2>1, <2>6 DEF AssetInv, WritesInv
    <2>10. DiskInv(a)'
      <3>1. closing'[a] # None => closing'[a] = closing[a]
        BY <2>1
      <3> QED
        BY <2>1, <2>5, <2>6, <2>7, <2>8, <3>1 DEF AssetInv, DiskInv, Closed
    <2>11. ASSUME NEW q \in Processes PROVE ProcessInv(q, a)'
      <3>1. ProcessInv(q, a)
        BY <2>1 DEF AssetInv
      <3>2. ASSUME Op(q, a, StoreSteps)' PROVE StoreInv(q, a)'
        <4>1. q # p /\ Op(q, a, StoreSteps) /\ task'[q] = task[q]
          BY <2>3, <2>4, <3>2
        <4>2. StoreInv(q, a) /\ (PutSoFar(q, a)' <=> PutSoFar(q, a))
              /\ (At(q, "confirm")' <=> At(q, "confirm"))
          BY <2>5, <3>1, <4>1 DEF ProcessInv, PutSoFar, At
        <4>3. \A r \in Processes :
                /\ Op(r, a, {"unlink"})' => Op(r, a, {"unlink"})
                /\ Op(r, a, StoreSteps)' => Op(r, a, StoreSteps)
          BY <2>3, <2>4
        <4> QED
          BY <2>5, <2>8, <4>2, <4>3 DEF StoreInv, Closed
      <3>3. ASSUME Op(q, a, DeleteSteps)' PROVE DeleteInv(q, a)'
        <4>1. Op(q, a, DeleteSteps) /\ task'[q] = task[q]
          BY <2>3, <2>4, <3>3
        <4> QED
          BY <2>5, <2>6, <2>7, <2>8, <3>1, <4>1 DEF ProcessInv, DeleteInv
      <3>4. Op(q, a, {"load_content"})' => ~task'[q].late
        BY <2>3, <2>4, <3>1 DEF ProcessInv
      <3>5. ASSUME a \in task'[q].batch PROVE BatchInv(q, a)'
        <4>1. task'[q] = task[q]
          BY <1>2, <3>5
        <4> QED
          BY <2>6, <2>7, <3>1, <3>5, <4>1 DEF ProcessInv, BatchInv, At
      <3> QED
        BY <3>2, <3>3, <3>4, <3>5 DEF ProcessInv
    <2>12. Readable(a)' => Readable(a)
      BY DEF Readable, Closed, Expired
    <2> QED
      BY <2>7, <2>9, <2>10, <2>11, <2>12 DEF AssetInv, GoesOn
  <1> QED
    BY <1>4, <1>5, <1>6 DEF StoreInvariant

\* The refused store, the loads, a crash, and whatever fails.
LEMMA EndingKeeps ==
  ASSUME StoreInvariant, NEW p \in Processes,
         \/ StoreRefused(p) \/ ServeContent(p) \/ LoadFails(p) \/ DeleteFails(p) \/ Crash(p)
         \/ WriteTombstone(p) /\ closing[task[p].asset] # None
         \/ CommitTombstone(p) /\ closing[task[p].asset] = None
         \/ PurgeRead(p) /\ \E a \in task[p].batch : files[a].meta = None
  PROVE  StoreInvariant' /\ \A a \in Ours : GoesOn(a)
  <1>1. TypesAndTimes /\ closing \in [Assets -> Nat \cup {None}]
    BY DEF StoreInvariant, TypesAndTimes, StoreTypeOK
  <1>2. PICK new \in Tasks :
          /\ TaskBecomes(p, new) /\ new.step \in {"rest", "down"} /\ new.batch = {} /\ ~new.purging
    BY <1>1, EndIs DEF StoreRefused, ServeContent, LoadFails, DeleteFails, Crash,
                       WriteTombstone, CommitTombstone, PurgeRead
  <1>3. /\ clock' = clock /\ files' = files /\ drawn' = drawn
        /\ stored' = stored /\ asked' = asked /\ deleted' = deleted
    BY DEF StoreRefused, ServeContent, LoadFails, DeleteFails, Crash, WriteTombstone,
           CommitTombstone, PurgeRead, disk, history
  <1>4. /\ tombstone' = tombstone
        /\ closing' = closing \/ closing' = [closing EXCEPT ![task[p].asset] = None]
    BY DEF StoreRefused, ServeContent, LoadFails, DeleteFails, Crash, WriteTombstone,
           CommitTombstone, PurgeRead, disk, history
  <1>5. /\ closing' \in [Assets -> Nat \cup {None}]
        /\ \A a \in Assets : closing'[a] \in {closing[a], None}
    BY <1>1, <1>4
  <1> QED
    BY <1>2, <1>3, <1>4, <1>5, EndKeeps

-----------------------------------------------------------------------------
(* The last look of store at the tombstone, and load.                      *)

LEMMA ConfirmKeeps ==
  ASSUME StoreInvariant, NEW p \in Processes, Confirm(p)
  PROVE  StoreInvariant' /\ \A a \in Ours : GoesOn(a)
  <1>1. /\ task[p].step = "confirm"
        /\ clock' = clock /\ files' = files /\ tombstone' = tombstone /\ closing' = closing
        /\ drawn' = drawn /\ asked' = asked /\ deleted' = deleted
    BY DEF Confirm, At, disk
  <1>2. TypesAndTimes /\ StoreTypeOK /\ TaskInv(p) /\ task[p] \in Tasks
    BY DEF StoreInvariant, TypesAndTimes, StoreTypeOK
  <1>3. PICK b \in Assets : b = task[p].asset
    BY <1>1, <1>2 DEF TaskInv, BusySteps, StoreSteps
  <1>4. PICK value \in WriteRows : value = Write(p)
    BY <1>1, <1>2 DEF TaskInv, Write, WriteRows, Tasks
  <1>5. \/ Closed(b) /\ GiveUp(p) /\ stored' = stored
        \/ ~Closed(b) /\ Return(p) /\ stored' = [stored EXCEPT ![b] = value]
    BY <1>3, <1>4 DEF Confirm, Write
  <1>6. PICK new \in Tasks :
          /\ TaskBecomes(p, new)
          /\ \/ /\ stored' = stored /\ new.step = "clean" /\ new.asset = b
                /\ new.now = task[p].now
                /\ new.batch = task[p].batch /\ new.purging = task[p].purging
             \/ /\ stored' = [stored EXCEPT ![b] = value]
                /\ new.step \in {"rest", "down"} /\ new.batch = {} /\ ~new.purging
    BY <1>2, <1>3, <1>5, GiveUpIs, EndIs
  <1>7. task'[p] = new /\ task' \in [Processes -> Tasks]
        /\ \A q \in Processes : q # p => task'[q] = task[q]
    BY <1>2, <1>6 DEF TaskBecomes, StoreTypeOK
  <1>8. TaskInv(p)'
    BY <1>1, <1>2, <1>3, <1>6, <1>7 DEF TaskInv, WriteSteps, StoreSteps, DeleteSteps, BusySteps
  <1>9. StoreTypeOK'
    BY <1>1, <1>2, <1>6, <1>7 DEF StoreTypeOK
  <1>10. Elsewhere(b)
    BY <1>1, <1>2, <1>6 DEF Elsewhere, StoreTypeOK
  <1>11. ASSUME b \in Ours PROVE AssetInv(b)' /\ GoesOn(b)
    <2>1. AssetInv(b) /\ StoreInv(p, b) /\ ProcessInv(p, b)
      BY <1>1, <1>3, <1>11 DEF StoreInvariant, AssetInv, ProcessInv, Op, StoreSteps
    <2>2. /\ b \in drawn /\ stored[b] = None
          /\ Old(b) \/ {"content", "meta"} \subseteq Present(b)
          /\ \A q \in Processes : Op(q, b, StoreSteps) => q = p
      BY <1>1, <2>1 DEF StoreInv, At
    <2>3. Settled(b)
      BY <1>1, <2>2 DEF Settled, Op, StoreSteps, WriteSteps
    <2>4. value \in Writes(b) /\ value # None
      BY <1>1, <1>3, <1>4, NoneIsNoData DEF Writes, Op, WriteRows
    <2>5. Present(b)' = Present(b)
      BY <1>1 DEF Present
    <2>6. stored'[b] \in {None, value}
      BY <1>2, <1>6, <2>2 DEF StoreTypeOK
    <2>7. \A steps \in SUBSET StoreSteps : \A q \in Processes :
            Op(q, b, steps)' => q = p /\ new.step = "clean"
      <3>1. \A q \in Processes : q # p => (Op(q, b, StoreSteps)' <=> Op(q, b, StoreSteps))
        BY <1>7 DEF Op
      <3>2. new.step \in {"rest", "down"} => new.step \notin StoreSteps
        BY StepSets
      <3> QED
        BY <1>6, <1>7, <2>2, <3>1, <3>2 DEF Op
    <2>8. Writes(b)' \subseteq Writes(b)
      <3>1. "clean" \notin WriteSteps \cup {"confirm"} /\ WriteSteps \cup {"confirm"} \in SUBSET StoreSteps
        BY DEF WriteSteps, StoreSteps
      <3>2. \A q \in Processes : ~Op(q, b, WriteSteps \cup {"confirm"})'
        BY <1>7, <2>7, <3>1 DEF Op
      <3> QED
        BY <1>1, <2>4, <2>5, <2>6, <3>2 DEF Writes
    <2>9. Dead(b)' \/ {"content", "meta"} \subseteq Present(b)'
      BY <1>1, <2>2, <2>5, <2>8 DEF Dead, Old
    <2>10. ~(asked[b] > 0)
      BY <2>1, <2>2 DEF AssetInv, DiskInv
    <2>11. b \in deleted' => Present(b)' = {}
      BY <1>1, <2>1, <2>5 DEF AssetInv, DiskInv
    <2>12. ~Op(p, b, WriteSteps)'
      BY <1>6, <1>7 DEF Op, WriteSteps
    <2>13. ProcessInv(p, b)'
      <3>1. Op(p, b, StoreSteps)' => StoreInv(p, b)'
        <4> SUFFICES ASSUME Op(p, b, StoreSteps)' PROVE StoreInv(p, b)'
          OBVIOUS
        <4>1. new.step = "clean" /\ stored' = stored
          BY <1>6, <1>7, <2>7, StepSets DEF Op
        <4> QED
          BY <1>1, <1>7, <2>2, <2>7, <4>1 DEF StoreInv, PutSoFar, At
      <3>2. ~Op(p, b, DeleteSteps)' /\ ~Op(p, b, {"load_content"})'
        BY <1>6, <1>7 DEF Op, DeleteSteps
      <3>3. b \in new.batch => BatchInv(p, b)'
        <4> SUFFICES ASSUME b \in new.batch PROVE BatchInv(p, b)'
          OBVIOUS
        <4>1. b \in task[p].batch /\ new.now = task[p].now /\ ~At(p, "purge_read")
          BY <1>1, <1>6 DEF At
        <4>2. \A write \in Writes(b)' : write.at + AssetTTL <= new.now
          BY <2>1, <2>8, <4>1 DEF ProcessInv, BatchInv
        <4>3. Settled(b)'
          BY <1>1, <2>2, <2>3, <2>12, <1>7 DEF Settled, Op
        <4> QED
          BY <1>7, <4>2, <4>3 DEF BatchInv
      <3> QED
        BY <1>7, <3>1, <3>2, <3>3 DEF ProcessInv
    <2> QED
      BY <1>1, <1>7, <2>2, <2>3, <2>5, <2>8, <2>9, <2>10, <2>11, <2>12, <2>13, <1>11,
         SettledStep
  <1>12. \A a \in new.batch : a \in task[p].batch /\ new.now = task[p].now
         /\ task[p].step # "purge_read"
    BY <1>1, <1>6
  <1>13. new.step \in BusySteps => new.asset = b
    BY <1>6, StepSets
  <1> QED
    BY <1>1, <1>3, <1>6, <1>8, <1>9, <1>10, <1>11, <1>12, <1>13, StepKeeps

LEMMA LoadBeginKeeps ==
  ASSUME StoreInvariant, NEW p \in Processes, NEW b \in Assets, LoadBegin(p, b)
  PROVE  StoreInvariant' /\ \A a \in Ours : GoesOn(a)
  <1> DEFINE new == [Rest EXCEPT !.step = "load_content", !.asset = b, !.now = clock,
                                 !.data = files[b].meta.data, !.late = b \in deleted]
  <1>1. /\ task[p].step = "rest" /\ files[b].meta # None /\ TaskBecomes(p, new)
        /\ clock' = clock /\ files' = files /\ tombstone' = tombstone /\ closing' = closing
        /\ drawn' = drawn /\ stored' = stored /\ asked' = asked /\ deleted' = deleted
    BY DEF LoadBegin, At, TaskBecomes, disk, history
  <1>2. TypesAndTimes /\ StoreTypeOK /\ clock \in Nat
    BY DEF StoreInvariant, TypesAndTimes, StoreTypeOK
  <1>3. files[b].meta \in WriteRows
    BY <1>1, <1>2, PathsAre DEF StoreTypeOK
  <1>4. /\ new \in Tasks /\ new.step = "load_content" /\ new.asset = b
        /\ new.now = clock /\ new.batch = {} /\ ~new.purging /\ (b \notin deleted => ~new.late)
    <2>1. /\ new.step = "load_content" /\ new.asset = b /\ new.now = clock /\ new.batch = {}
          /\ ~new.purging
      BY DEF Rest
    <2>2. b \notin deleted => ~new.late
      BY DEF Rest
    <2>3. (b \in deleted) \in BOOLEAN
      OBVIOUS
    <2>4. new \in Tasks
      <3>1. \A late \in BOOLEAN : [Rest EXCEPT !.step = "load_content", !.asset = b, !.now = clock,
                                      !.data = files[b].meta.data, !.late = late] \in Tasks
        BY <1>2, <1>3 DEF Rest, Tasks, Steps, WriteRows
      <3> QED
        BY <2>3, <3>1, Zenon
    <2> QED
      BY <2>1, <2>2, <2>4
  <1> HIDE DEF new
  <1>5. task'[p] = new /\ task' \in [Processes -> Tasks]
        /\ \A q \in Processes : q # p => task'[q] = task[q]
    BY <1>1, <1>2, <1>4 DEF TaskBecomes, StoreTypeOK
  <1>6. TaskInv(p)'
    BY <1>1, <1>2, <1>4, <1>5, StepSets DEF TaskInv, WriteSteps
  <1>7. StoreTypeOK'
    BY <1>1, <1>2, <1>5 DEF StoreTypeOK
  <1>8. Elsewhere(b)
    BY <1>1 DEF Elsewhere
  <1>9. ASSUME b \in Ours PROVE AssetInv(b)' /\ GoesOn(b)
    <2>1. AssetInv(b) /\ "meta" \in Present(b)
      BY <1>1, <1>9, PathsAre DEF StoreInvariant, Present
    <2>2. Settled(b) /\ b \notin deleted
      BY <2>1 DEF AssetInv, DiskInv
    <2>3. Present(b)' = Present(b)
      BY <1>1 DEF Present
    <2>4. \A q \in Processes : Op(q, b, StoreSteps)' => q # p /\ Op(q, b, StoreSteps)
      BY <1>4, <1>5, StepSets DEF Op
    <2>5. ~Op(p, b, WriteSteps)' /\ ~Op(p, b, StoreSteps)' /\ ~Op(p, b, DeleteSteps)'
          /\ ~Op(p, b, {"unlink"})'
      BY <1>4, <1>5, StepSets DEF Op, WriteSteps, DeleteSteps
    <2>6. Writes(b)' \subseteq Writes(b)
      <3>1. \A q \in Processes : Op(q, b, WriteSteps \cup {"confirm"})' =>
              Op(q, b, WriteSteps \cup {"confirm"}) /\ Write(q)' = Write(q)
        BY <1>5, <2>4 DEF Op, StoreSteps, Write
      <3> QED
        BY <1>1, <2>3, <3>1 DEF Writes
    <2>7. ProcessInv(p, b)'
      BY <1>4, <1>5, <2>2, <2>5 DEF ProcessInv
    <2>8. /\ asked[b] > 0 => stored[b] # None
          /\ stored[b] # None => Dead(b) \/ {"content", "meta"} \subseteq Present(b)
          /\ b \in deleted => Present(b) = {}
      BY <2>1 DEF AssetInv, DiskInv
    <2>9. Dead(b) => Dead(b)'
      BY <1>1, <2>6 DEF Dead, Old
    <2>10. \A q \in Processes : q # p /\ Op(q, b, StoreSteps) =>
             /\ stored[b] = None
             /\ Op(q, b, {"confirm"}) => Old(b) \/ {"content", "meta"} \subseteq Present(b)
      BY <2>1 DEF AssetInv, ProcessInv, StoreInv, Op, At
    <2> QED
      BY <1>1, <1>5, <1>9, <2>2, <2>3, <2>5, <2>6, <2>7, <2>8, <2>9, <2>10, SettledStep
         DEF Settled
  <1> QED
    BY <1>1, <1>4, <1>6, <1>7, <1>8, <1>9, StepSets, StepKeeps

-----------------------------------------------------------------------------
(* delete.                                                                 *)

LEMMA DeletingIs ==
  ASSUME TypesAndTimes, NEW p \in Processes, NEW b \in Assets
  PROVE  /\ Deleting(p, b) \in Tasks
         /\ Deleting(p, b).step = IF Closed(b) THEN "unlink" ELSE "write_tombstone"
         /\ Deleting(p, b).asset = b /\ Deleting(p, b).paths = Present(b)
         /\ Deleting(p, b).now = task[p].now /\ Deleting(p, b).batch = task[p].batch
         /\ Deleting(p, b).purging = task[p].purging
  <1>1. task[p] \in Tasks /\ Present(b) \subseteq Paths
    BY DEF TypesAndTimes, StoreTypeOK, Present
  <1>2. PICK step \in {"unlink", "write_tombstone"} :
          step = IF Closed(b) THEN "unlink" ELSE "write_tombstone"
    OBVIOUS
  <1>3. Deleting(p, b) = [task[p] EXCEPT !.step = step, !.asset = b, !.paths = Present(b)]
    BY <1>2 DEF Deleting
  <1>4. step \in Steps
    BY DEF Steps
  <1>5. /\ Deleting(p, b) \in Tasks /\ Deleting(p, b).step = step
        /\ Deleting(p, b).asset = b /\ Deleting(p, b).paths = Present(b)
        /\ Deleting(p, b).now = task[p].now /\ Deleting(p, b).batch = task[p].batch
        /\ Deleting(p, b).purging = task[p].purging
    BY <1>1, <1>3, <1>4 DEF Tasks
  <1> QED
    BY <1>2, <1>5

LEMMA DeletingNow ==
  ASSUME TypesAndTimes, NEW p \in Processes, NEW b \in Assets, NEW now \in Nat
  PROVE  \E new \in Tasks :
           /\ new = [Deleting(p, b) EXCEPT !.now = now]
           /\ new.step = IF Closed(b) THEN "unlink" ELSE "write_tombstone"
           /\ new.asset = b /\ new.paths = Present(b) /\ new.now = now
           /\ new.batch = task[p].batch /\ new.purging = task[p].purging
  <1>1. PICK old \in Tasks :
          /\ old = Deleting(p, b)
          /\ old.step = IF Closed(b) THEN "unlink" ELSE "write_tombstone"
          /\ old.asset = b /\ old.paths = Present(b)
          /\ old.batch = task[p].batch /\ old.purging = task[p].purging
    BY DeletingIs, Zenon
  <1>2. PICK new : new = [old EXCEPT !.now = now]
    OBVIOUS
  <1>3. /\ new \in Tasks /\ new.step = old.step /\ new.asset = old.asset /\ new.now = now
        /\ new.paths = old.paths /\ new.batch = old.batch /\ new.purging = old.purging
    BY <1>2 DEF Tasks
  <1>4. new = [Deleting(p, b) EXCEPT !.now = now]
    BY <1>1, <1>2, Zenon
  <1> QED
    BY <1>1, <1>3, <1>4, Zenon

\* A process that begins to delete the asset, or goes on with it.
LEMMA DeleterStep ==
  ASSUME StoreInvariant, NEW p \in Processes, NEW b \in Ours, Settled(b), ~Op(p, b, StoreSteps),
         NEW new \in Tasks, task'[p] = new, \A q \in Processes : q # p => task'[q] = task[q],
         new.step \in DeleteSteps, new.asset = b,
         clock' = clock, drawn' = drawn, stored' = stored, deleted' = deleted,
         Present(b)' \subseteq Present(b) \cap new.paths,
         \A path \in Present(b)' : files'[b][path] = files[b][path],
         asked[b] > 0 => asked'[b] > 0, asked'[b] > 0 => stored[b] # None,
         Dead(b) \/ asked'[b] > 0,
         \A write \in Writes(b) : write.at <= new.now,
         b \in new.batch => \A write \in Writes(b) : write.at + AssetTTL <= new.now,
         new.step = "unlink" => Closed(b)' \/ Op(p, b, {"unlink"}),
         \/ tombstone'[b] = tombstone[b]
         \/ tombstone'[b] # None /\ \A write \in Writes(b) : write.at <= tombstone'[b],
         \/ closing'[b] \in {closing[b], None}
         \/ \A write \in Writes(b) : write.at <= closing'[b]
  PROVE  AssetInv(b)' /\ GoesOn(b)
  <1>1. AssetInv(b)
    BY DEF StoreInvariant
  <1>2. ~Op(p, b, StoreSteps)' /\ ~Op(p, b, WriteSteps)' /\ ~Op(p, b, {"load_content"})'
    BY DEF Op, StoreSteps, WriteSteps, DeleteSteps
  <1>3. Settled(b)'
    BY <1>2 DEF Settled, Op
  <1>4. Writes(b)' \subseteq Writes(b)
    <2>1. \A q \in Processes : Op(q, b, WriteSteps \cup {"confirm"})' =>
            Op(q, b, WriteSteps \cup {"confirm"}) /\ Write(q)' = Write(q)
      BY <1>2 DEF Op, StoreSteps, Write
    <2>2. ASSUME NEW path \in Present(b)' PROVE files'[b][path] \in Writes(b)
      BY DEF Writes
    <2>3. ASSUME NEW q \in Processes, Op(q, b, WriteSteps \cup {"confirm"})'
          PROVE  Write(q)' \in Writes(b)
      BY <2>1, <2>3 DEF Writes
    <2>4. stored'[b] # None => stored'[b] \in Writes(b)
      BY DEF Writes
    <2>5. ASSUME NEW write \in Writes(b)' PROVE write \in Writes(b)
      <3>1. \/ \E path \in Present(b)' : write = files'[b][path]
            \/ write = stored'[b] /\ stored'[b] # None
            \/ \E q \in Processes : Op(q, b, WriteSteps \cup {"confirm"})' /\ write = Write(q)'
        BY DEF Writes
      <3> QED
        BY <2>2, <2>3, <2>4, <3>1
    <2> QED
      BY <2>5
  <1>5. Dead(b)'
    BY <1>4 DEF Dead, Old
  <1>6. ASSUME NEW q \in Processes, q # p, Op(q, b, StoreSteps)
        PROVE  stored'[b] = None /\ Old(b)
    <2>1. stored[b] = None
      BY <1>1, <1>6 DEF AssetInv, ProcessInv, StoreInv
    <2> QED
      BY <2>1 DEF Dead
  <1>7. ProcessInv(p, b)'
    <2>1. DeleteInv(p, b)'
      BY <1>3, <1>4, <1>5 DEF DeleteInv
    <2>2. b \in new.batch => BatchInv(p, b)'
      BY <1>3, <1>4 DEF BatchInv
    <2> QED
      BY <1>2, <2>1, <2>2 DEF ProcessInv
  <1>8. b \in deleted' => Present(b)' = {}
    BY <1>1 DEF AssetInv, DiskInv
  <1>9. ASSUME NEW q \in Processes, Op(q, b, {"confirm"}), Op(p, b, {"unlink"})'
        PROVE  Closed(b)'
    <2>1. (\E r \in Processes : Op(r, b, {"unlink"})) => Closed(b)
      BY <1>1, <1>9 DEF AssetInv, ProcessInv, StoreInv, StoreSteps, Op, At
    <2> QED
      BY <1>9, <2>1 DEF Op, Closed
  <1> QED
    BY <1>2, <1>4, <1>5, <1>6, <1>7, <1>8, <1>9, SettledStep DEF Settled

LEMMA DeleteBeginKeeps ==
  ASSUME StoreInvariant, NEW p \in Processes, NEW b \in Assets, DeleteBegin(p, b)
  PROVE  StoreInvariant' /\ \A a \in Ours : GoesOn(a)
  <1>1. /\ task[p].step = "rest" /\ stored[b] # None /\ asked' = [asked EXCEPT ![b] = @ + 1]
        /\ task' = [task EXCEPT ![p] = [Deleting(p, b) EXCEPT !.now = clock]]
        /\ clock' = clock /\ files' = files /\ tombstone' = tombstone /\ closing' = closing
        /\ drawn' = drawn /\ stored' = stored /\ deleted' = deleted
    BY DEF DeleteBegin, At, disk
  <1>2. TypesAndTimes /\ StoreTypeOK /\ clock \in Nat /\ TaskInv(p)
    BY DEF StoreInvariant, TypesAndTimes, StoreTypeOK
  <1>3. task[p].batch = {} /\ ~task[p].purging
    BY <1>1, <1>2 DEF TaskInv
  <1>4. PICK new \in Tasks :
          /\ TaskBecomes(p, new) /\ new.step = IF Closed(b) THEN "unlink" ELSE "write_tombstone"
          /\ new.asset = b /\ new.paths = Present(b) /\ new.now = clock /\ new.batch = {}
          /\ ~new.purging
    <2>1. \E new \in Tasks :
            /\ TaskBecomes(p, new) /\ new.step = IF Closed(b) THEN "unlink" ELSE "write_tombstone"
            /\ new.asset = b /\ new.paths = Present(b) /\ new.now = clock
            /\ new.batch = task[p].batch /\ new.purging = task[p].purging
      <3>1. PICK new \in Tasks :
              /\ new = [Deleting(p, b) EXCEPT !.now = clock]
              /\ new.step = IF Closed(b) THEN "unlink" ELSE "write_tombstone"
              /\ new.asset = b /\ new.paths = Present(b) /\ new.now = clock
              /\ new.batch = task[p].batch /\ new.purging = task[p].purging
        BY <1>2, DeletingNow
      <3>2. TaskBecomes(p, new)
        BY <1>1, <3>1, Zenon DEF TaskBecomes
      <3> QED
        BY <3>1, <3>2
    <2> QED
      BY <1>3, <2>1
  <1>5. task'[p] = new /\ task' \in [Processes -> Tasks]
        /\ \A q \in Processes : q # p => task'[q] = task[q]
    BY <1>2, <1>4 DEF TaskBecomes, StoreTypeOK
  <1>6. new.step \in {"unlink", "write_tombstone"} /\ (new.step = "unlink" => Closed(b))
    BY <1>4
  <1>7. TaskInv(p)'
    <2>1. clock' = clock /\ task'[p].now = clock /\ task'[p].asset \in Assets
          /\ task'[p].step \in {"unlink", "write_tombstone"}
      BY <1>1, <1>4, <1>5, <1>6
    <2> QED
      BY <1>2, <2>1, StepSets DEF TaskInv, WriteSteps
  <1>8. asked' \in [Assets -> Nat] /\ asked'[b] = asked[b] + 1
        /\ \A a \in Assets \ {b} : asked'[a] = asked[a]
    BY <1>1, <1>2 DEF StoreTypeOK
  <1>9. StoreTypeOK'
    BY <1>1, <1>2, <1>5, <1>8 DEF StoreTypeOK
  <1>10. Elsewhere(b)
    BY <1>1, <1>8 DEF Elsewhere
  <1>11. ASSUME b \in Ours PROVE AssetInv(b)' /\ GoesOn(b)
    <2>1. AssetInv(b)
      BY <1>11 DEF StoreInvariant
    <2>2. Settled(b) /\ \A write \in Writes(b) : write.at <= clock
      BY <1>1, <2>1 DEF AssetInv, DiskInv, WritesInv
    <2>3. ~Op(p, b, StoreSteps) /\ new.step \in DeleteSteps
      BY <1>1, <1>6, StepSets DEF Op, DeleteSteps
    <2>4. Present(b)' = Present(b)
      BY <1>1 DEF Present
    <2>5. asked[b] \in Nat /\ asked'[b] > 0
      BY <1>2, <1>8 DEF StoreTypeOK
    <2>6. Closed(b)' <=> Closed(b)
      BY <1>1 DEF Closed
    <2> QED
      BY <1>1, <1>4, <1>5, <1>6, <1>11, <2>2, <2>3, <2>4, <2>5, <2>6, DeleterStep
  <1> QED
    BY <1>1, <1>4, <1>7, <1>9, <1>10, <1>11, StepSets, StepKeeps

LEMMA PurgeNextKeeps ==
  ASSUME StoreInvariant, NEW p \in Processes, PurgeNext(p)
  PROVE  StoreInvariant' /\ \A a \in Ours : GoesOn(a)
  <1>1. /\ task[p].step = "purge_next"
        /\ clock' = clock /\ files' = files /\ tombstone' = tombstone /\ closing' = closing
        /\ drawn' = drawn /\ stored' = stored /\ asked' = asked /\ deleted' = deleted
    BY DEF PurgeNext, At, disk, history
  <1>2. TypesAndTimes /\ StoreTypeOK /\ clock \in Nat /\ TaskInv(p) /\ task[p] \in Tasks
    BY DEF StoreInvariant, TypesAndTimes, StoreTypeOK
  <1>3. PICK b \in task[p].batch : task' = [task EXCEPT ![p] = Deleting(p, b)]
    BY DEF PurgeNext
  <1>4. b \in Assets /\ task[p].now \in Nat /\ task[p].now <= clock
    BY <1>1, <1>2, <1>3 DEF Tasks, TaskInv
  <1>5. PICK new \in Tasks :
          /\ TaskBecomes(p, new) /\ new.step = IF Closed(b) THEN "unlink" ELSE "write_tombstone"
          /\ new.asset = b /\ new.paths = Present(b) /\ new.now = task[p].now
          /\ new.batch = task[p].batch /\ new.purging = task[p].purging
    <2> DEFINE new == Deleting(p, b)
    <2>1. /\ new \in Tasks /\ new.step = IF Closed(b) THEN "unlink" ELSE "write_tombstone"
          /\ new.asset = b /\ new.paths = Present(b) /\ new.now = task[p].now
          /\ new.batch = task[p].batch /\ new.purging = task[p].purging
      BY <1>2, <1>4, DeletingIs, Zenon
    <2>2. TaskBecomes(p, new)
      BY <1>3 DEF TaskBecomes
    <2> HIDE DEF new
    <2> QED
      BY <2>1, <2>2
  <1>6. task'[p] = new /\ task' \in [Processes -> Tasks]
        /\ \A q \in Processes : q # p => task'[q] = task[q]
    BY <1>2, <1>5 DEF TaskBecomes, StoreTypeOK
  <1>7. new.step \in {"unlink", "write_tombstone"} /\ (new.step = "unlink" => Closed(b))
    BY <1>5
  <1>8. TaskInv(p)'
    BY <1>1, <1>2, <1>4, <1>5, <1>6, <1>7, StepSets DEF TaskInv, WriteSteps
  <1>9. StoreTypeOK'
    BY <1>1, <1>2, <1>6 DEF StoreTypeOK
  <1>10. Elsewhere(b)
    BY <1>1 DEF Elsewhere
  <1>11. ASSUME b \in Ours PROVE AssetInv(b)' /\ GoesOn(b)
    <2>1. AssetInv(b) /\ BatchInv(p, b)
      BY <1>3, <1>11 DEF StoreInvariant, AssetInv, ProcessInv
    <2>2. Settled(b) /\ \A write \in Writes(b) : write.at + AssetTTL <= task[p].now
      BY <1>1, <2>1 DEF BatchInv, At
    <2>3. \A write \in Writes(b) : write.at \in Nat
      BY <2>1 DEF AssetInv, WritesInv, WriteRows
    <2>4. Old(b) /\ \A write \in Writes(b) : write.at <= task[p].now
      BY <1>2, <1>4, <2>2, <2>3, TTLAssumption DEF Old
    <2>5. ~Op(p, b, StoreSteps) /\ new.step \in DeleteSteps
      BY <1>1, <1>7, StepSets DEF Op, DeleteSteps
    <2>6. Present(b)' = Present(b)
      BY <1>1 DEF Present
    <2>7. Dead(b) /\ (asked[b] > 0 => stored[b] # None)
      BY <2>1, <2>4 DEF Dead, AssetInv, DiskInv
    <2>8. Closed(b)' <=> Closed(b)
      BY <1>1 DEF Closed
    <2> QED
      BY <1>1, <1>5, <1>6, <1>7, <1>11, <2>2, <2>4, <2>5, <2>6, <2>7, <2>8, DeleterStep
  <1>12. \A a \in new.batch : a \in task[p].batch /\ new.now = task[p].now
         /\ task[p].step # "purge_read"
    BY <1>1, <1>5
  <1> QED
    BY <1>1, <1>4, <1>5, <1>8, <1>9, <1>10, <1>11, <1>12, StepSets, StepKeeps

LEMMA WriteTombstoneKeeps ==
  ASSUME StoreInvariant, NEW p \in Processes, WriteTombstone(p)
  PROVE  StoreInvariant' /\ \A a \in Ours : GoesOn(a)
  <1>1. SUFFICES ASSUME closing[task[p].asset] = None
                 PROVE  StoreInvariant' /\ \A a \in Ours : GoesOn(a)
    BY EndingKeeps
  <1>2. /\ task[p].step = "write_tombstone"
        /\ closing' = [closing EXCEPT ![task[p].asset] = task[p].now] /\ Goto(p, "commit_tombstone")
        /\ clock' = clock /\ files' = files /\ tombstone' = tombstone
        /\ drawn' = drawn /\ stored' = stored /\ asked' = asked /\ deleted' = deleted
    BY <1>1 DEF WriteTombstone, At, history
  <1>3. TypesAndTimes /\ StoreTypeOK /\ TaskInv(p) /\ task[p] \in Tasks
    BY DEF StoreInvariant, TypesAndTimes, StoreTypeOK
  <1>4. PICK b \in Assets : b = task[p].asset
    BY <1>2, <1>3, StepSets DEF TaskInv
  <1>5. PICK new \in Tasks :
          /\ TaskBecomes(p, new) /\ new.step = "commit_tombstone" /\ new.asset = b
          /\ new.now = task[p].now /\ new.paths = task[p].paths
          /\ new.batch = task[p].batch /\ new.purging = task[p].purging
    BY <1>2, <1>3, <1>4, GotoIs DEF Steps
  <1>6. task'[p] = new /\ task' \in [Processes -> Tasks]
        /\ \A q \in Processes : q # p => task'[q] = task[q]
    BY <1>3, <1>5 DEF TaskBecomes, StoreTypeOK
  <1>7. TaskInv(p)'
    BY <1>2, <1>3, <1>5, <1>6, StepSets DEF TaskInv, WriteSteps
  <1>8. task[p].now \in Nat
    BY <1>3 DEF Tasks
  <1>9. /\ closing' \in [Assets -> Nat \cup {None}] /\ closing'[b] = task[p].now
        /\ \A a \in Assets \ {b} : closing'[a] = closing[a]
    BY <1>2, <1>3, <1>4, <1>8 DEF StoreTypeOK
  <1>10. StoreTypeOK' /\ Elsewhere(b)
    BY <1>2, <1>3, <1>6, <1>9 DEF StoreTypeOK, Elsewhere
  <1>11. ASSUME b \in Ours PROVE AssetInv(b)' /\ GoesOn(b)
    <2>1. AssetInv(b) /\ DeleteInv(p, b) /\ (b \in task[p].batch => BatchInv(p, b))
      BY <1>2, <1>4, <1>11 DEF StoreInvariant, AssetInv, ProcessInv, Op, DeleteSteps
    <2>2. /\ Settled(b) /\ Dead(b) /\ Present(b) \subseteq task[p].paths
          /\ \A write \in Writes(b) : write.at <= task[p].now
          /\ b \in task[p].batch => \A write \in Writes(b) : write.at + AssetTTL <= task[p].now
      BY <1>2, <2>1 DEF DeleteInv, BatchInv, At
    <2>3. Present(b)' = Present(b)
      BY <1>2 DEF Present
    <2>4. ~Op(p, b, StoreSteps) /\ new.step \in DeleteSteps
      BY <1>2, <1>5, StepSets DEF Op, DeleteSteps
    <2>5. asked[b] > 0 => stored[b] # None
      BY <2>1 DEF AssetInv, DiskInv
    <2> QED
      BY <1>2, <1>5, <1>6, <1>9, <1>11, <2>2, <2>3, <2>4, <2>5, DeleterStep
  <1>12. \A a \in new.batch : a \in task[p].batch /\ new.now = task[p].now
         /\ task[p].step # "purge_read"
    BY <1>2, <1>5
  <1> QED
    BY <1>2, <1>4, <1>5, <1>7, <1>10, <1>11, <1>12, StepKeeps

LEMMA CommitTombstoneKeeps ==
  ASSUME StoreInvariant, NEW p \in Processes, CommitTombstone(p)
  PROVE  StoreInvariant' /\ \A a \in Ours : GoesOn(a)
  <1>1. SUFFICES ASSUME closing[task[p].asset] # None
                 PROVE  StoreInvariant' /\ \A a \in Ours : GoesOn(a)
    BY EndingKeeps
  <1>2. /\ task[p].step = "commit_tombstone" /\ Goto(p, "unlink")
        /\ tombstone' = [tombstone EXCEPT ![task[p].asset] = closing[task[p].asset]]
        /\ closing' = [closing EXCEPT ![task[p].asset] = None]
        /\ clock' = clock /\ files' = files
        /\ drawn' = drawn /\ stored' = stored /\ asked' = asked /\ deleted' = deleted
    BY <1>1 DEF CommitTombstone, At, history
  <1>3. TypesAndTimes /\ StoreTypeOK /\ TaskInv(p) /\ task[p] \in Tasks
    BY DEF StoreInvariant, TypesAndTimes, StoreTypeOK
  <1>4. PICK b \in Assets : b = task[p].asset
    BY <1>2, <1>3, StepSets DEF TaskInv
  <1>5. PICK new \in Tasks :
          /\ TaskBecomes(p, new) /\ new.step = "unlink" /\ new.asset = b
          /\ new.now = task[p].now /\ new.paths = task[p].paths
          /\ new.batch = task[p].batch /\ new.purging = task[p].purging
    BY <1>2, <1>3, <1>4, GotoIs DEF Steps
  <1>6. task'[p] = new /\ task' \in [Processes -> Tasks]
        /\ \A q \in Processes : q # p => task'[q] = task[q]
    BY <1>3, <1>5 DEF TaskBecomes, StoreTypeOK
  <1>7. TaskInv(p)'
    BY <1>2, <1>3, <1>5, <1>6, StepSets DEF TaskInv, WriteSteps
  <1>8. /\ closing[b] \in Nat /\ closing[b] # None
        /\ closing' \in [Assets -> Nat \cup {None}] /\ closing'[b] = None
        /\ \A a \in Assets \ {b} : closing'[a] = closing[a]
        /\ tombstone' \in [Assets -> Nat \cup {None}] /\ tombstone'[b] = closing[b]
        /\ \A a \in Assets \ {b} : tombstone'[a] = tombstone[a]
    BY <1>1, <1>2, <1>3, <1>4 DEF StoreTypeOK
  <1>9. StoreTypeOK' /\ Elsewhere(b)
    BY <1>2, <1>3, <1>6, <1>8 DEF StoreTypeOK, Elsewhere
  <1>10. ASSUME b \in Ours PROVE AssetInv(b)' /\ GoesOn(b)
    <2>1. AssetInv(b) /\ DeleteInv(p, b) /\ (b \in task[p].batch => BatchInv(p, b))
      BY <1>2, <1>4, <1>10 DEF StoreInvariant, AssetInv, ProcessInv, Op, DeleteSteps
    <2>2. /\ Settled(b) /\ Dead(b) /\ Present(b) \subseteq task[p].paths
          /\ \A write \in Writes(b) : write.at <= task[p].now
          /\ b \in task[p].batch => \A write \in Writes(b) : write.at + AssetTTL <= task[p].now
      BY <1>2, <2>1 DEF DeleteInv, BatchInv, At
    <2>3. Present(b)' = Present(b)
      BY <1>2 DEF Present
    <2>4. ~Op(p, b, StoreSteps) /\ new.step \in DeleteSteps
      BY <1>2, <1>5, StepSets DEF Op, DeleteSteps
    <2>5. /\ asked[b] > 0 => stored[b] # None
          /\ \A write \in Writes(b) : write.at <= tombstone'[b]
      BY <1>8, <2>1 DEF AssetInv, DiskInv
    <2>6. Closed(b)' /\ tombstone'[b] # None
      BY <1>8 DEF Closed
    <2> QED
      BY <1>2, <1>5, <1>6, <1>8, <1>10, <2>2, <2>3, <2>4, <2>5, <2>6, DeleterStep
  <1>11. \A a \in new.batch : a \in task[p].batch /\ new.now = task[p].now
         /\ task[p].step # "purge_read"
    BY <1>2, <1>5
  <1> QED
    BY <1>2, <1>4, <1>5, <1>7, <1>9, <1>10, <1>11, StepKeeps

LEMMA UnlinkKeeps ==
  ASSUME StoreInvariant, NEW p \in Processes, Unlink(p)
  PROVE  StoreInvariant' /\ \A a \in Ours : GoesOn(a)
  <1>1. PICK path \in task[p].paths :
          /\ task[p].step \in {"unlink", "clean"} /\ Put(task[p].asset, path, None)
          /\ task' = [task EXCEPT ![p].paths = @ \ {path}]
          /\ clock' = clock /\ tombstone' = tombstone /\ closing' = closing
          /\ drawn' = drawn /\ stored' = stored /\ asked' = asked /\ deleted' = deleted
    BY DEF Unlink, history
  <1>2. TypesAndTimes /\ StoreTypeOK /\ TaskInv(p) /\ task[p] \in Tasks /\ files \in FilesType
    BY DEF StoreInvariant, TypesAndTimes, StoreTypeOK, FilesType
  <1>3. PICK b \in Assets : b = task[p].asset
    BY <1>1, <1>2, StepSets DEF TaskInv
  <1>4. path \in Paths /\ task[p].paths \ {path} \in SUBSET Paths
    BY <1>2 DEF Tasks
  <1>5. PICK new : new = [task[p] EXCEPT !.paths = task[p].paths \ {path}]
    OBVIOUS
  <1>6. /\ new \in Tasks /\ new.step = task[p].step /\ new.asset = b /\ new.now = task[p].now
        /\ new.paths = task[p].paths \ {path} /\ new.data = task[p].data
        /\ new.batch = task[p].batch /\ new.purging = task[p].purging
    BY <1>2, <1>3, <1>4, <1>5 DEF Tasks
  <1>7. TaskBecomes(p, new)
    BY <1>1, <1>5 DEF TaskBecomes
  <1>8. task'[p] = new /\ task' \in [Processes -> Tasks]
        /\ \A q \in Processes : q # p => task'[q] = task[q]
    BY <1>2, <1>6, <1>7 DEF TaskBecomes, StoreTypeOK
  <1>9. TaskInv(p)'
    BY <1>1, <1>2, <1>6, <1>8 DEF TaskInv
  <1>10. /\ files' \in FilesType /\ files'[b][path] = None
         /\ \A other \in Paths : other # path => files'[b][other] = files[b][other]
         /\ \A a \in Assets : a # b => files'[a] = files[a]
    BY <1>1, <1>2, <1>3, <1>4, FilePut
  <1>11. StoreTypeOK' /\ Elsewhere(b)
    BY <1>1, <1>2, <1>8, <1>10 DEF StoreTypeOK, Elsewhere, FilesType
  <1>12. ASSUME b \in Ours PROVE AssetInv(b)' /\ GoesOn(b)
    <2>1. AssetInv(b) /\ ProcessInv(p, b)
      BY <1>12 DEF StoreInvariant, AssetInv
    <2>2. /\ Present(b)' = Present(b) \ {path}
          /\ \A other \in Present(b)' : files'[b][other] = files[b][other]
      BY <1>10 DEF Present
    <2>3. asked[b] > 0 => stored[b] # None
      BY <2>1 DEF AssetInv, DiskInv
    <2>4. CASE task[p].step = "unlink"
      <3>1. DeleteInv(p, b) /\ (b \in task[p].batch => BatchInv(p, b))
        BY <1>3, <2>1, <2>4 DEF ProcessInv, Op, DeleteSteps
      <3>2. /\ Settled(b) /\ Dead(b) /\ Present(b) \subseteq task[p].paths
            /\ \A write \in Writes(b) : write.at <= task[p].now
            /\ b \in task[p].batch => \A write \in Writes(b) : write.at + AssetTTL <= task[p].now
        BY <2>4, <3>1 DEF DeleteInv, BatchInv, At
      <3>3. Present(b)' \subseteq Present(b) \cap new.paths
        BY <1>6, <2>2, <3>2
      <3>4. ~Op(p, b, StoreSteps) /\ new.step \in DeleteSteps
        BY <1>6, <2>4, StepSets DEF Op, DeleteSteps
      <3>5. Op(p, b, {"unlink"})
        BY <1>3, <2>4 DEF Op
      <3> QED
        BY <1>1, <1>6, <1>8, <1>12, <2>2, <2>3, <3>2, <3>3, <3>4, <3>5, DeleterStep
    <2>5. CASE task[p].step = "clean"
      <3>1. StoreInv(p, b)
        BY <1>3, <2>1, <2>5 DEF ProcessInv, Op, StoreSteps
      <3>2. /\ b \in drawn /\ stored[b] = None
            /\ \A q \in Processes : Op(q, b, StoreSteps) => q = p
        BY <3>1 DEF StoreInv
      <3>3. \A steps \in SUBSET StoreSteps : \A q \in Processes :
              Op(q, b, steps) \/ Op(q, b, steps)' => q = p
        BY <1>8, <3>2 DEF Op
      <3>4. "clean" \notin WriteSteps \cup {"confirm"} /\ "clean" \notin DeleteSteps
            /\ "clean" \notin WriteSteps
            /\ WriteSteps \cup {"confirm"} \in SUBSET StoreSteps /\ WriteSteps \in SUBSET StoreSteps
            /\ StoreSteps \in SUBSET StoreSteps
        BY DEF WriteSteps, DeleteSteps, StoreSteps
      <3>5. /\ \A q \in Processes : ~Op(q, b, WriteSteps) /\ ~Op(q, b, WriteSteps)'
            /\ \A q \in Processes : ~Op(q, b, WriteSteps \cup {"confirm"})'
        BY <1>6, <1>8, <2>5, <3>3, <3>4 DEF Op
      <3>6. Settled(b) /\ Settled(b)'
        BY <1>1, <3>2, <3>5 DEF Settled
      <3>7. Writes(b)' \subseteq Writes(b)
        BY <1>1, <2>2, <3>2, <3>5 DEF Writes
      <3>8. ~(asked[b] > 0) /\ (b \in deleted => Present(b) = {})
        BY <2>1, <3>2 DEF AssetInv, DiskInv
      <3>9. ProcessInv(p, b)'
        <4>1. StoreInv(p, b)'
          BY <1>1, <1>6, <1>8, <2>5, <3>2, <3>3, <3>4 DEF StoreInv, PutSoFar, At
        <4>2. ~Op(p, b, DeleteSteps)' /\ ~Op(p, b, {"load_content"})'
          BY <1>6, <1>8, <2>5, <3>4 DEF Op
        <4>3. b \in task'[p].batch => BatchInv(p, b)'
          BY <1>6, <1>8, <2>1, <2>5, <3>6, <3>7 DEF ProcessInv, BatchInv, At
        <4> QED
          BY <4>1, <4>2, <4>3 DEF ProcessInv
      <3> QED
        BY <1>1, <1>8, <1>12, <2>2, <3>2, <3>3, <3>4, <3>5, <3>6, <3>7, <3>8, <3>9, SettledStep
    <2> QED
      BY <1>1, <2>4, <2>5
  <1>13. \A a \in new.batch : a \in task[p].batch /\ new.now = task[p].now
         /\ task[p].step # "purge_read"
    BY <1>1, <1>6
  <1> QED
    BY <1>1, <1>3, <1>6, <1>7, <1>9, <1>11, <1>12, <1>13, StepKeeps

LEMMA DeleteDoneKeeps ==
  ASSUME StoreInvariant, NEW p \in Processes, DeleteDone(p)
  PROVE  StoreInvariant' /\ \A a \in Ours : GoesOn(a)
  <1>1. /\ task[p].step = "unlink" /\ task[p].paths = {}
        /\ deleted' = deleted \cup {task[p].asset}
        /\ clock' = clock /\ files' = files /\ tombstone' = tombstone /\ closing' = closing
        /\ drawn' = drawn /\ stored' = stored /\ asked' = asked
    BY DEF DeleteDone, At, disk
  <1>2. TypesAndTimes /\ StoreTypeOK /\ TaskInv(p) /\ task[p] \in Tasks
    BY DEF StoreInvariant, TypesAndTimes, StoreTypeOK
  <1>3. PICK b \in Assets : b = task[p].asset
    BY <1>1, <1>2, StepSets DEF TaskInv
  <1>4. PICK new \in Tasks :
          /\ TaskBecomes(p, new) /\ new.step \in {"rest", "down", "purge_next"}
          /\ \/ new.step # "purge_next" /\ new.batch = {} /\ ~new.purging
             \/ /\ new.step = "purge_next" /\ new.now = task[p].now
                /\ new.batch = task[p].batch \ {b}
    <2>1. CASE task[p].purging
      <3>1. PICK new : new = [task[p] EXCEPT !.step = "purge_next", !.asset = None,
                                             !.batch = task[p].batch \ {b}]
        OBVIOUS
      <3>2. new \in Tasks /\ new.step = "purge_next" /\ new.now = task[p].now
            /\ new.batch = task[p].batch \ {b}
        BY <1>2, <3>1 DEF Tasks, Steps
      <3>3. TaskBecomes(p, new)
        BY <1>3, <2>1, <3>1 DEF DeleteDone, TaskBecomes
      <3> QED
        BY <3>2, <3>3
    <2>2. CASE ~task[p].purging
      <3>1. Return(p)
        BY <2>2 DEF DeleteDone
      <3> QED
        BY <1>2, <3>1, EndIs
    <2> QED
      BY <2>1, <2>2
  <1>5. task'[p] = new /\ task' \in [Processes -> Tasks]
        /\ \A q \in Processes : q # p => task'[q] = task[q]
    BY <1>2, <1>4 DEF TaskBecomes, StoreTypeOK
  <1>6. TaskInv(p)'
    BY <1>1, <1>2, <1>4, <1>5, StepSets DEF TaskInv, WriteSteps
  <1>7. StoreTypeOK' /\ Elsewhere(b)
    BY <1>1, <1>2, <1>3, <1>5 DEF StoreTypeOK, Elsewhere
  <1>8. ASSUME b \in Ours PROVE AssetInv(b)' /\ GoesOn(b)
    <2>1. AssetInv(b) /\ DeleteInv(p, b)
      BY <1>1, <1>3, <1>8 DEF StoreInvariant, AssetInv, ProcessInv, Op, DeleteSteps
    <2>2. Settled(b) /\ Dead(b) /\ Present(b) = {}
      BY <1>1, <2>1 DEF DeleteInv
    <2>3. Present(b)' = {}
      BY <1>1, <2>2 DEF Present
    <2>4. /\ ~Op(p, b, StoreSteps)' /\ ~Op(p, b, WriteSteps)' /\ ~Op(p, b, DeleteSteps)'
          /\ ~Op(p, b, {"load_content"})' /\ ~Op(p, b, {"unlink"})'
          /\ ~Op(p, b, WriteSteps \cup {"confirm"})'
      BY <1>4, <1>5, StepSets DEF Op, WriteSteps, DeleteSteps
    <2>5. Writes(b)' \subseteq Writes(b)
      <3>1. \A q \in Processes : Op(q, b, WriteSteps \cup {"confirm"})' =>
              Op(q, b, WriteSteps \cup {"confirm"}) /\ Write(q)' = Write(q)
        BY <1>5, <2>4 DEF Op, Write
      <3> QED
        BY <1>1, <2>3, <3>1 DEF Writes
    <2>6. b \notin task'[p].batch
      BY <1>4, <1>5
    <2>7. ProcessInv(p, b)'
      BY <2>4, <2>6 DEF ProcessInv
    <2>8. (asked[b] > 0 => stored[b] # None) /\ Dead(b)'
      BY <1>1, <2>1, <2>2, <2>5 DEF AssetInv, DiskInv, Dead, Old
    <2>9. ASSUME NEW q \in Processes, Op(q, b, StoreSteps)
          PROVE  /\ stored[b] = None /\ Old(b)
                 /\ Op(q, b, {"confirm"}) => Closed(b)
      <3>1. StoreInv(q, b) /\ stored[b] = None
        BY <2>1, <2>9 DEF AssetInv, ProcessInv, StoreInv
      <3>2. Old(b)
        BY <2>2, <2>8, <3>1 DEF Dead
      <3>3. Op(p, b, {"unlink"})
        BY <1>1, <1>3 DEF Op
      <3> QED
        BY <3>1, <3>2, <3>3 DEF StoreInv, Op, At
    <2>10. Closed(b)' <=> Closed(b)
      BY <1>1 DEF Closed
    <2> QED
      BY <1>1, <1>5, <1>8, <2>2, <2>3, <2>4, <2>5, <2>7, <2>8, <2>9, <2>10, SettledStep
         DEF Settled
  <1>9. \A a \in new.batch : a \in task[p].batch /\ new.now = task[p].now
        /\ task[p].step # "purge_read"
    BY <1>1, <1>4
  <1> QED
    BY <1>1, <1>3, <1>4, <1>6, <1>7, <1>8, <1>9, StepSets, StepKeeps

-----------------------------------------------------------------------------
(* purge_expired, and the time.                                            *)

LEMMA PurgeBeginKeeps ==
  ASSUME StoreInvariant, NEW p \in Processes, PurgeBegin(p)
  PROVE  StoreInvariant' /\ \A a \in Ours : GoesOn(a)
  <1> DEFINE new == [Rest EXCEPT !.step = "purge_read", !.now = clock, !.purging = TRUE,
                                 !.batch = {a \in Assets : files[a].meta # None}]
  <1>1. /\ task[p].step \in {"rest", "down"} /\ TaskBecomes(p, new)
        /\ clock' = clock /\ files' = files /\ tombstone' = tombstone /\ closing' = closing
        /\ drawn' = drawn /\ stored' = stored /\ asked' = asked /\ deleted' = deleted
    BY DEF PurgeBegin, At, TaskBecomes, disk, history
  <1>2. TypesAndTimes /\ StoreTypeOK /\ clock \in Nat
    BY DEF StoreInvariant, TypesAndTimes, StoreTypeOK
  <1>3. /\ new \in Tasks /\ new.step = "purge_read" /\ new.now = clock
        /\ new.batch = {a \in Assets : files[a].meta # None}
    BY <1>2 DEF Rest, Tasks, Steps
  <1> HIDE DEF new
  <1>4. TaskInv(p)'
    BY <1>1, <1>2, <1>3, StepSets DEF TaskInv, WriteSteps, TaskBecomes, StoreTypeOK
  <1>5. /\ task' \in [Processes -> Tasks] /\ \A q \in Processes : TaskInv(q)'
        /\ task'[p] = new /\ \A q \in Processes : q # p => task'[q] = task[q]
    BY <1>1, <1>2, <1>3, <1>4, TasksKept
  <1>6. StoreTypeOK'
    BY <1>1, <1>2, <1>5 DEF StoreTypeOK
  <1>7. ASSUME NEW a \in Ours PROVE AssetInv(a)' /\ GoesOn(a)
    <2>1. ~Op(p, a, BusySteps) /\ ~Op(p, a, BusySteps)'
      BY <1>1, <1>3, <1>5, StepSets DEF Op
    <2>2. a \in new.batch => Settled(a)
      <3>1. a \in new.batch => "meta" \in Present(a)
        BY <1>3, PathsAre DEF Present
      <3> QED
        BY <3>1 DEF StoreInvariant, AssetInv, DiskInv
    <2>3. At(p, "purge_read")'
      BY <1>3, <1>5 DEF At
    <2> QED
      BY <1>1, <1>2, <1>5, <2>1, <2>2, <2>3, AssetKept
  <1> QED
    BY <1>5, <1>6, <1>7 DEF StoreInvariant

LEMMA PurgeReadKeeps ==
  ASSUME StoreInvariant, NEW p \in Processes, PurgeRead(p)
  PROVE  StoreInvariant' /\ \A a \in Ours : GoesOn(a)
  <1>1. SUFFICES ASSUME ~\E a \in task[p].batch : files[a].meta = None
                 PROVE  StoreInvariant' /\ \A a \in Ours : GoesOn(a)
    BY EndingKeeps
  <1>2. /\ task[p].step = "purge_read"
        /\ clock' = clock /\ files' = files /\ tombstone' = tombstone /\ closing' = closing
        /\ drawn' = drawn /\ stored' = stored /\ asked' = asked /\ deleted' = deleted
    BY <1>1 DEF PurgeRead, At, disk, history
  <1>3. TypesAndTimes /\ StoreTypeOK /\ TaskInv(p) /\ task[p] \in Tasks /\ clock \in Nat
    BY DEF StoreInvariant, TypesAndTimes, StoreTypeOK
  <1>4. PICK new :
          new = [task[p] EXCEPT !.step = "purge_next",
                                !.batch = {a \in task[p].batch : Expired(files[a].meta, task[p].now)}]
    OBVIOUS
  <1>5. {a \in task[p].batch : Expired(files[a].meta, task[p].now)} \subseteq Assets
    BY <1>3 DEF Tasks
  <1>6. /\ new \in Tasks /\ new.step = "purge_next" /\ new.now = task[p].now
        /\ new.batch = {a \in task[p].batch : Expired(files[a].meta, task[p].now)}
    BY <1>3, <1>4, <1>5 DEF Tasks, Steps
  <1>7. TaskBecomes(p, new)
    <2>1. task' = [task EXCEPT ![p].step = "purge_next",
                     ![p].batch = {a \in @ : Expired(files[a].meta, task[p].now)}]
      BY <1>1 DEF PurgeRead
    <2> QED
      BY <1>3, <1>4, <2>1 DEF TaskBecomes, StoreTypeOK
  <1>8. TaskInv(p)'
    BY <1>2, <1>3, <1>6, <1>7, StepSets DEF TaskInv, WriteSteps, TaskBecomes, StoreTypeOK
  <1>9. /\ task' \in [Processes -> Tasks] /\ \A q \in Processes : TaskInv(q)'
        /\ task'[p] = new /\ \A q \in Processes : q # p => task'[q] = task[q]
    BY <1>2, <1>3, <1>6, <1>7, <1>8, TasksKept
  <1>10. StoreTypeOK'
    BY <1>2, <1>3, <1>9 DEF StoreTypeOK
  <1>11. ASSUME NEW a \in Ours PROVE AssetInv(a)' /\ GoesOn(a)
    <2>1. ~Op(p, a, BusySteps) /\ ~Op(p, a, BusySteps)'
      BY <1>2, <1>6, <1>9, StepSets DEF Op
    <2>2. ASSUME a \in new.batch
          PROVE  Settled(a) /\ \A write \in Writes(a) : write.at + AssetTTL <= new.now
      <3>1. /\ a \in task[p].batch /\ AssetInv(a) /\ files[a].meta # None
            /\ files[a].meta.at + AssetTTL <= new.now
        BY <1>1, <1>6, <2>2 DEF StoreInvariant, Expired
      <3>2. files[a].meta \in Writes(a)
        BY <3>1, PathsAre DEF Writes, Present
      <3> QED
        BY <3>1, <3>2 DEF AssetInv, WritesInv, ProcessInv, BatchInv
    <2> QED
      BY <1>2, <1>3, <1>9, <2>1, <2>2, AssetKept
  <1> QED
    BY <1>9, <1>10, <1>11 DEF StoreInvariant

LEMMA PurgeDoneKeeps ==
  ASSUME StoreInvariant, NEW p \in Processes, PurgeDone(p)
  PROVE  StoreInvariant' /\ \A a \in Ours : GoesOn(a)
  <1>1. /\ task[p].step = "purge_next" /\ Return(p)
        /\ tombstone' = [a \in Assets |->
             IF Closed(a) /\ tombstone[a] <= task[p].now - TombstoneTTL THEN None ELSE tombstone[a]]
        /\ clock' = clock /\ files' = files /\ closing' = closing
        /\ drawn' = drawn /\ stored' = stored /\ asked' = asked /\ deleted' = deleted
    BY DEF PurgeDone, At, history
  <1>2. TypesAndTimes /\ StoreTypeOK /\ TaskInv(p) /\ task[p] \in Tasks /\ clock \in Nat
    BY DEF StoreInvariant, TypesAndTimes, StoreTypeOK
  <1>3. PICK new \in Tasks :
          /\ TaskBecomes(p, new) /\ new.step \in {"rest", "down"} /\ new.batch = {} /\ ~new.purging
    BY <1>1, <1>2, EndIs
  <1>4. TaskInv(p)'
    BY <1>2, <1>3, StepSets DEF TaskInv, WriteSteps, TaskBecomes, StoreTypeOK
  <1>5. /\ task' \in [Processes -> Tasks] /\ \A q \in Processes : TaskInv(q)'
        /\ task'[p] = new /\ \A q \in Processes : q # p => task'[q] = task[q]
    BY <1>1, <1>2, <1>3, <1>4, TasksKept
  <1>6. StoreTypeOK'
    BY <1>1, <1>2, <1>5 DEF StoreTypeOK
  <1>7. ASSUME NEW a \in Ours PROVE AssetInv(a)' /\ GoesOn(a)
    <2>1. ~Op(p, a, BusySteps) /\ ~Op(p, a, BusySteps)' /\ a \notin new.batch
      BY <1>1, <1>3, <1>5, StepSets DEF Op
    <2>2. a \in Assets /\ task[p].now \in Nat /\ task[p].now <= clock /\ TombstoneTTL \in Nat
          /\ tombstone[a] \in Nat \cup {None}
      BY <1>1, <1>2, TTLAssumption DEF Ours, Tasks, TaskInv, StoreTypeOK
    <2>3. \/ tombstone'[a] = tombstone[a]
          \/ tombstone'[a] = None /\ Closed(a) /\ tombstone[a] + TombstoneTTL <= clock
      <3>1. tombstone'[a] = IF Closed(a) /\ tombstone[a] <= task[p].now - TombstoneTTL
                              THEN None ELSE tombstone[a]
        BY <1>1, <2>2
      <3>2. Closed(a) => tombstone[a] \in Nat
        BY <2>2 DEF Closed
      <3>3. CASE Closed(a) /\ tombstone[a] <= task[p].now - TombstoneTTL
        <4>1. tombstone'[a] = None
          BY <3>1, <3>3
        <4>2. tombstone[a] + TombstoneTTL <= clock
          BY <1>2, <2>2, <3>2, <3>3
        <4> QED
          BY <3>3, <4>1, <4>2
      <3>4. CASE ~(Closed(a) /\ tombstone[a] <= task[p].now - TombstoneTTL)
        BY <3>1, <3>4
      <3> QED
        BY <3>3, <3>4
    <2> QED
      BY <1>1, <1>2, <1>5, <2>1, <2>3, AssetKept
  <1> QED
    BY <1>5, <1>6, <1>7 DEF StoreInvariant

LEMMA TimeKeeps ==
  ASSUME StoreInvariant, Tick \/ UNCHANGED vars
  PROVE  StoreInvariant' /\ \A a \in Ours : GoesOn(a)
  <1>1. /\ clock' \in Nat /\ clock <= clock' /\ clock' <= clock + 1
        /\ files' = files /\ tombstone' = tombstone /\ closing' = closing /\ task' = task
        /\ drawn' = drawn /\ stored' = stored /\ asked' = asked /\ deleted' = deleted
    BY DEF Tick, vars, disk, history, StoreInvariant, StoreTypeOK
  <1>2. StoreTypeOK'
    BY <1>1 DEF StoreInvariant, StoreTypeOK
  <1>3. ASSUME NEW p \in Processes PROVE TaskInv(p)'
    <2>1. clock \in Nat /\ task[p].now \in Nat /\ TaskInv(p)
      BY DEF StoreInvariant, StoreTypeOK, Tasks
    <2>2. task[p].step \in {"rest", "down"} \/ task[p].now = clock \/ clock' = clock
      BY DEF Tick, vars
    <2> QED
      BY <1>1, <2>1, <2>2 DEF TaskInv
  <1>4. ASSUME NEW a \in Ours PROVE AssetInv(a)' /\ GoesOn(a)
    BY <1>1, AssetKept
  <1> QED
    BY <1>2, <1>3, <1>4 DEF StoreInvariant

-----------------------------------------------------------------------------
(* The invariant, and what it says.                                        *)

LEMMA InitEstablishes == Init => StoreInvariant
  <1> SUFFICES ASSUME Init PROVE StoreInvariant
    OBVIOUS
  <1>1. /\ \A a \in Assets : /\ files[a] = Absent /\ stored[a] = None /\ tombstone[a] = None
                             /\ closing[a] = None /\ asked[a] = 0
        /\ \A p \in Processes : task[p] = Rest
        /\ drawn = {} /\ deleted = {}
    BY DEF Init
  <1>2. StoreTypeOK
    BY RestIsTask DEF Init, StoreTypeOK, Absent
  <1>3. \A p \in Processes : TaskInv(p)
    BY <1>1, RestIsTask, StepSets DEF TaskInv, WriteSteps
  <1>4. ASSUME NEW a \in Ours PROVE AssetInv(a)
    <2>1. a \in Assets
      BY DEF Ours
    <2>2. \A p \in Processes : \A steps \in SUBSET BusySteps : ~Op(p, a, steps)
      BY <1>1, RestIsTask, StepSets DEF Op
    <2>3. WriteSteps \cup {"confirm"} \in SUBSET BusySteps /\ StoreSteps \in SUBSET BusySteps
          /\ DeleteSteps \in SUBSET BusySteps /\ {"load_content"} \in SUBSET BusySteps
      BY DEF BusySteps, StoreSteps
    <2>4. Present(a) = {}
      BY <1>1, <2>1 DEF Present, Absent
    <2>5. Writes(a) = {}
      BY <1>1, <2>1, <2>2, <2>3, <2>4 DEF Writes
    <2>6. DiskInv(a)
      BY <1>1, <2>1, <2>4 DEF DiskInv, Closed
    <2>7. \A p \in Processes : ProcessInv(p, a)
      BY <1>1, <2>2, <2>3, RestIsTask DEF ProcessInv
    <2> QED
      BY <2>5, <2>6, <2>7 DEF AssetInv, WritesInv
  <1> QED
    BY <1>2, <1>3, <1>4 DEF StoreInvariant

LEMMA StepsKeep ==
  StoreInvariant /\ [Next]_vars => StoreInvariant' /\ \A a \in Ours : GoesOn(a)
  <1> SUFFICES ASSUME StoreInvariant, [Next]_vars
               PROVE  StoreInvariant' /\ \A a \in Ours : GoesOn(a)
    OBVIOUS
  <1>1. ASSUME NEW p \in Processes, Begin(p)
        PROVE  StoreInvariant' /\ \A a \in Ours : GoesOn(a)
    BY <1>1, StoreBeginKeeps, LoadBeginKeeps, DeleteBeginKeeps, PurgeBeginKeeps DEF Begin
  <1>2. ASSUME NEW p \in Processes, StoreStep(p)
        PROVE  StoreInvariant' /\ \A a \in Ours : GoesOn(a)
    BY <1>2, WritingKeeps, ConfirmKeeps, EndingKeeps DEF StoreStep
  <1>3. ASSUME NEW p \in Processes, LoadStep(p)
        PROVE  StoreInvariant' /\ \A a \in Ours : GoesOn(a)
    BY <1>3, EndingKeeps DEF LoadStep
  <1>4. ASSUME NEW p \in Processes, DeleteStep(p)
        PROVE  StoreInvariant' /\ \A a \in Ours : GoesOn(a)
    BY <1>4, WriteTombstoneKeeps, CommitTombstoneKeeps, UnlinkKeeps, DeleteDoneKeeps DEF DeleteStep
  <1>5. ASSUME NEW p \in Processes, PurgeStep(p)
        PROVE  StoreInvariant' /\ \A a \in Ours : GoesOn(a)
    BY <1>5, PurgeReadKeeps, PurgeNextKeeps, PurgeDoneKeeps DEF PurgeStep
  <1>6. ASSUME NEW p \in Processes, StoreFails(p) \/ DeleteFails(p) \/ Crash(p)
        PROVE  StoreInvariant' /\ \A a \in Ours : GoesOn(a)
    BY <1>6, WritingKeeps, EndingKeeps
  <1>7. ASSUME Tick \/ UNCHANGED vars
        PROVE  StoreInvariant' /\ \A a \in Ours : GoesOn(a)
    BY <1>7, TimeKeeps
  <1> QED
    BY <1>1, <1>2, <1>3, <1>4, <1>5, <1>6, <1>7 DEF Next, Continue

\* The invariant, whatever processes begin, go on with, fail in or crash out of.
THEOREM StoreInvariantHolds == Spec => []StoreInvariant
  BY InitEstablishes, StepsKeep, PTL DEF Spec

\* An upload that store acknowledged is there until it expires, unless a client
\* asks for its deletion (KeptUntilExpiry; store, load, delete, purge_expired).
THEOREM UploadsAreKept == Spec => []KeptUntilExpiry
  <1>1. ASSUME StoreInvariant PROVE KeptUntilExpiry
    <2> SUFFICES ASSUME NEW a \in Ours, stored[a] # None, asked[a] = 0,
                        ~(stored[a].at + AssetTTL <= clock)
                 PROVE  ~Closed(a) /\ files[a].content = stored[a] /\ files[a].meta = stored[a]
      BY DEF KeptUntilExpiry, Ours, Expired
    <2>1. AssetInv(a) /\ stored[a] \in Writes(a)
      BY <1>1 DEF StoreInvariant, Writes
    <2>2. ~Dead(a)
      BY <2>1 DEF Dead, Old
    <2>3. ~Closed(a) /\ {"content", "meta"} \subseteq Present(a)
      BY <2>1, <2>2 DEF AssetInv, DiskInv
    <2>4. files[a].content \in Writes(a) /\ files[a].meta \in Writes(a)
      BY <2>3 DEF Writes
    <2> QED
      BY <2>1, <2>3, <2>4 DEF AssetInv, WritesInv
  <1> QED
    BY <1>1, StoreInvariantHolds, PTL

\* Nothing is left of an asset whose deletion was acknowledged (DeletionComplete).
THEOREM DeletedUploadsAreGone == Spec => []DeletionComplete
  <1>1. ASSUME StoreInvariant PROVE DeletionComplete
    <2> SUFFICES ASSUME NEW a \in deleted, a \in Ours PROVE files[a] = Absent
      BY <1>1 DEF DeletionComplete, Ours, StoreInvariant, StoreTypeOK
    <2>1. files[a] \in [Paths -> WriteRows \cup {None}] /\ AssetInv(a)
      BY <1>1 DEF StoreInvariant, StoreTypeOK, Ours
    <2>2. Present(a) = {}
      BY <2>1 DEF AssetInv, DiskInv
    <2>3. \A path \in Paths : files[a][path] = None
      BY <2>2 DEF Present
    <2> QED
      BY <2>1, <2>3 DEF Absent
  <1> QED
    BY <1>1, StoreInvariantHolds, PTL

\* While its store writes, an asset is new; then it is open, or closed.
LEMMA LifeIs ==
  ASSUME StoreInvariant, NEW a \in Ours
  PROVE  Life(a) = IF ~Settled(a) THEN "new" ELSE IF Readable(a) THEN "open" ELSE "closed"
  <1>1. AssetInv(a) /\ \A p \in Processes : TaskInv(p)
    BY DEF StoreInvariant
  <1>2. Readable(a) => Settled(a)
    <2>1. Readable(a) => "meta" \in Present(a)
      BY PathsAre DEF Readable, Present
    <2> QED
      BY <1>1, <2>1 DEF AssetInv, DiskInv
  <1>3. (a \notin drawn \/ StoreUnderWay(a)) <=> ~Settled(a)
    <2>1. StoreUnderWay(a) <=> \E p \in Servers : Op(p, a, WriteSteps)
      BY DEF StoreUnderWay, Op, WriteSteps
    <2>2. \A p \in Processes : Op(p, a, WriteSteps) => p \in Servers
      BY <1>1 DEF TaskInv, Op, StoreSteps
    <2> QED
      BY <2>1, <2>2 DEF Settled, Processes
  <1>4. CASE Readable(a)
    BY <1>2, <1>4, Zenon DEF Life
  <1>5. CASE ~Readable(a) /\ ~Settled(a)
    BY <1>3, <1>5, Zenon DEF Life
  <1>6. CASE ~Readable(a) /\ Settled(a)
    BY <1>3, <1>6, Zenon DEF Life
  <1> QED
    BY <1>4, <1>5, <1>6

LEMMA LivesAre ==
  StoreInvariant =>
    \A a \in Ours :
      Life(a) = IF ~Settled(a) THEN "new" ELSE IF Readable(a) THEN "open" ELSE "closed"
  BY LifeIs

LEMMA LivesWillBe ==
  StoreInvariant' =>
    (\A a \in Ours :
       Life(a) = IF ~Settled(a) THEN "new" ELSE IF Readable(a) THEN "open" ELSE "closed")'
  BY LivesAre, PTL

\* An asset with an id store drew itself is read during one stretch of time, and
\* never again: the store implements ItemLifecycle, item by item.
THEOREM UploadsImplementLifecycle == Spec => ImplementsItemLifecycle
  <1>1. ASSUME Init, NEW a \in Ours PROVE Item(a)!LifecycleInit
    <2>1. StoreInvariant
      BY <1>1, InitEstablishes
    <2>2. ~Settled(a)
      BY <1>1 DEF Init, Settled
    <2>3. Life(a) = "new"
      BY <1>1, <2>1, <2>2, LifeIs
    <2> QED
      BY <2>3 DEF Item!LifecycleInit
  <1>2. ASSUME StoreInvariant, StoreInvariant', [Next]_vars, NEW a \in Ours
        PROVE  [Item(a)!LifecycleNext]_(Life(a))
    <2>1. Settled(a) => Settled(a)' /\ (Readable(a)' => Readable(a))
      BY <1>2, StepsKeep DEF GoesOn
    <2>2. Life(a) = IF ~Settled(a) THEN "new" ELSE IF Readable(a) THEN "open" ELSE "closed"
      BY <1>2, LifeIs
    <2>3. Life(a)' = IF ~Settled(a)' THEN "new" ELSE IF Readable(a)' THEN "open" ELSE "closed"
      BY <1>2, LivesWillBe
    <2>4. \/ Life(a)' = Life(a)
          \/ Life(a) = "new" /\ Life(a)' = "open"
          \/ Life(a) \in {"new", "open"} /\ Life(a)' = "closed"
      BY <2>1, <2>2, <2>3
    <2> QED
      BY <2>4 DEF Item!LifecycleNext, Item!Open, Item!Close
  <1>3. StoreInvariant /\ StoreInvariant' /\ [Next]_vars
          => [\A a \in Assets \ GivenIds : [Item(a)!LifecycleNext]_(Life(a))]_vars
    BY <1>2 DEF Ours
  <1>4. Init => \A a \in Assets \ GivenIds : Item(a)!LifecycleInit
    BY <1>1 DEF Ours
  <1> QED
    BY StoreInvariantHolds, <1>3, <1>4, PTL DEF Spec, ImplementsItemLifecycle

-----------------------------------------------------------------------------
(* A deletion is final.  For an id that store drew itself that follows     *)
(* from the invariant, however long the system runs: nobody stores under   *)
(* it again.  A given id is protected by its tombstone alone, so as long   *)
(* as none runs out: past that, a second deletion may end when the first   *)
(* one's tombstone is gone, with a new store of the id under way.          *)

TombstonesLast == MaxTime < TombstoneTTL

DeletedInv ==
  /\ clock <= MaxTime
  /\ \A a \in deleted : Closed(a)
  /\ \A p \in Processes :
       /\ At(p, "unlink") => Closed(task[p].asset)
       /\ At(p, "load_content") => ~task[p].late

LEMMA TombstonesStay ==
  ASSUME TombstonesLast, StoreInvariant, DeletedInv, [Next]_vars
  PROVE  \A a \in Assets : Closed(a) => Closed(a)'
  <1>1. ASSUME NEW p \in Processes, PurgeDone(p), NEW a \in Assets
        PROVE  tombstone'[a] = tombstone[a]
    <2>1. /\ TombstoneTTL \in Nat /\ MaxTime \in Nat /\ MaxTime < TombstoneTTL /\ clock <= MaxTime
          /\ clock \in Nat /\ task[p].now \in Nat /\ task[p].now <= clock
          /\ tombstone[a] \in Nat \cup {None}
      BY <1>1, TTLAssumption
         DEF StoreInvariant, StoreTypeOK, Tasks, TaskInv, DeletedInv, TombstonesLast, PurgeDone, At
    <2>2. tombstone'[a] = IF Closed(a) /\ tombstone[a] <= task[p].now - TombstoneTTL
                            THEN None ELSE tombstone[a]
      BY <1>1 DEF PurgeDone
    <2>3. Closed(a) => ~(tombstone[a] <= task[p].now - TombstoneTTL)
      <3>1. Closed(a) => tombstone[a] \in Nat
        BY <2>1 DEF Closed
      <3> QED
        BY <2>1, <3>1
    <2> QED
      BY <2>2, <2>3
  <1>2. ASSUME NEW p \in Processes, CommitTombstone(p), NEW a \in Assets, Closed(a)
        PROVE  Closed(a)'
    BY <1>2 DEF CommitTombstone, Closed, StoreInvariant, StoreTypeOK
  <1>3. ASSUME NEW p \in Processes, Begin(p) PROVE tombstone' = tombstone
    BY <1>3 DEF Begin, StoreBegin, LoadBegin, DeleteBegin, PurgeBegin, disk
  <1>4. ASSUME NEW p \in Processes,
               StoreStep(p) \/ LoadStep(p) \/ StoreFails(p) \/ DeleteFails(p) \/ Crash(p)
        PROVE  tombstone' = tombstone
    BY <1>4 DEF StoreStep, LoadStep, WritePart, WriteMetaPart, CommitContent, CommitMeta, Confirm,
                StoreRefused, ServeContent, LoadFails, StoreFails, DeleteFails, Crash, disk
  <1>5. ASSUME NEW p \in Processes,
               WriteTombstone(p) \/ Unlink(p) \/ DeleteDone(p) \/ PurgeRead(p) \/ PurgeNext(p)
        PROVE  tombstone' = tombstone
    BY <1>5 DEF WriteTombstone, Unlink, DeleteDone, PurgeRead, PurgeNext, disk
  <1>6. ASSUME Tick \/ UNCHANGED vars PROVE tombstone' = tombstone
    BY <1>6 DEF Tick, vars, disk
  <1>7. CASE \E p \in Processes : PurgeDone(p)
    BY <1>1, <1>7 DEF Closed
  <1>8. CASE \E p \in Processes : CommitTombstone(p)
    BY <1>2, <1>8
  <1>9. CASE tombstone' = tombstone
    BY <1>9 DEF Closed
  <1> QED
    BY <1>3, <1>4, <1>5, <1>6, <1>7, <1>8, <1>9 DEF Next, Continue, DeleteStep, PurgeStep

\* A step of process p that leaves the time alone.
LEMMA DeletedKept ==
  ASSUME StoreInvariant, DeletedInv, \A a \in Assets : Closed(a) => Closed(a)',
         NEW p \in Processes, NEW new \in Tasks, TaskBecomes(p, new), clock' = clock,
         \A a \in deleted' : a \in deleted \/ Closed(a)',
         new.step = "unlink" => Closed(new.asset)',
         new.step = "load_content" => ~new.late
  PROVE  DeletedInv'
  <1>1. task'[p] = new /\ \A q \in Processes : q # p => task'[q] = task[q]
    BY DEF TaskBecomes, StoreInvariant, StoreTypeOK
  <1>2. \A a \in deleted' : Closed(a)'
    BY DEF DeletedInv, StoreInvariant, StoreTypeOK
  <1>3. ASSUME NEW q \in Processes
        PROVE  (At(q, "unlink") => Closed(task[q].asset))' /\ (At(q, "load_content") => ~task[q].late)'
    <2>1. CASE q = p
      BY <1>1, <2>1 DEF At, Closed
    <2>2. CASE q # p
      <3>1. task'[q] = task[q] /\ (At(q, "unlink") => task[q].asset \in Assets)
        BY <1>1, <2>2, StepSets DEF StoreInvariant, TaskInv, At
      <3> QED
        BY <3>1 DEF DeletedInv, At, Closed
    <2> QED
      BY <2>1, <2>2
  <1> QED
    BY <1>2, <1>3 DEF DeletedInv

LEMMA DeletedStep ==
  ASSUME TombstonesLast, StoreInvariant, DeletedInv, [Next]_vars
  PROVE  DeletedInv'
  <1>1. /\ \A a \in Assets : Closed(a) => Closed(a)'
        /\ TypesAndTimes /\ StoreTypeOK /\ clock \in Nat /\ \A p \in Processes : TaskInv(p)
    BY TombstonesStay DEF StoreInvariant, TypesAndTimes, StoreTypeOK
  <1>2. ASSUME NEW p \in Processes, clock' = clock, deleted' = deleted,
               \/ \E step \in Steps \ {"unlink", "load_content"} : Goto(p, step)
               \/ GiveUp(p) \/ Return(p) \/ Abandon(p)
               \/ task' = [task EXCEPT ![p] = IF p \in Servers THEN [Rest EXCEPT !.step = "down"]
                                                               ELSE Rest]
        PROVE  DeletedInv'
    <2>1. PICK new \in Tasks : TaskBecomes(p, new) /\ new.step \notin {"unlink", "load_content"}
      BY <1>1, <1>2, GotoIs, GiveUpIs, EndIs
    <2> QED
      BY <1>1, <1>2, <2>1, DeletedKept
  <1>3. ASSUME NEW p \in Processes,
               StoreStep(p) \/ LoadStep(p) \/ StoreFails(p) \/ DeleteFails(p) \/ Crash(p)
        PROVE  DeletedInv'
    <2>1. {"write_meta_part", "commit_content", "commit_meta", "confirm"}
            \subseteq Steps \ {"unlink", "load_content"}
      BY DEF Steps
    <2>2. clock' = clock /\ deleted' = deleted
      BY <1>3 DEF StoreStep, LoadStep, WritePart, WriteMetaPart, CommitContent, CommitMeta, Confirm,
                  StoreRefused, ServeContent, LoadFails, StoreFails, DeleteFails, Crash, history
    <2> QED
      BY <1>2, <1>3, <2>1, <2>2
         DEF StoreStep, LoadStep, WritePart, WriteMetaPart, CommitContent, CommitMeta, Confirm,
             StoreRefused, ServeContent, LoadFails, StoreFails, DeleteFails, Crash, GoOn
  <1>4. ASSUME NEW p \in Processes, WriteTombstone(p) \/ PurgeDone(p) PROVE DeletedInv'
    <2>1. "commit_tombstone" \in Steps \ {"unlink", "load_content"}
      BY DEF Steps
    <2> QED
      BY <1>2, <1>4, <2>1 DEF WriteTombstone, PurgeDone, history
  <1>5. ASSUME NEW p \in Processes, CommitTombstone(p) PROVE DeletedInv'
    <2>1. clock' = clock /\ deleted' = deleted /\ task[p].asset \in Assets
      BY <1>1, <1>5, StepSets DEF CommitTombstone, history, At, TaskInv
    <2>2. CASE closing[task[p].asset] = None
      BY <1>2, <1>5, <2>1, <2>2 DEF CommitTombstone
    <2>3. CASE closing[task[p].asset] # None
      <3>1. PICK new \in Tasks :
              TaskBecomes(p, new) /\ new.step = "unlink" /\ new.asset = task[p].asset
        BY <1>1, <1>5, <2>3, GotoIs DEF CommitTombstone, Steps
      <3>2. Closed(new.asset)'
        BY <1>1, <1>5, <2>1, <2>3, <3>1 DEF CommitTombstone, Closed, StoreTypeOK
      <3> QED
        BY <1>1, <2>1, <3>1, <3>2, DeletedKept
    <2> QED
      BY <2>2, <2>3
  <1>6. ASSUME NEW p \in Processes, Unlink(p) PROVE DeletedInv'
    <2>1. PICK path \in task[p].paths :
            /\ task' = [task EXCEPT ![p].paths = @ \ {path}]
            /\ task[p].step \in {"unlink", "clean"} /\ clock' = clock /\ deleted' = deleted
      BY <1>6 DEF Unlink, history
    <2>2. PICK new : new = [task[p] EXCEPT !.paths = task[p].paths \ {path}]
      OBVIOUS
    <2>3. /\ new \in Tasks /\ new.step = task[p].step /\ new.asset = task[p].asset
          /\ task[p].asset \in Assets
      <3>1. task[p] \in Tasks /\ task[p].asset \in Assets
        BY <1>1, <2>1, StepSets DEF TaskInv, StoreTypeOK
      <3> QED
        BY <2>2, <3>1 DEF Tasks
    <2>4. TaskBecomes(p, new)
      BY <2>1, <2>2 DEF TaskBecomes
    <2>5. new.step = "unlink" => Closed(new.asset)'
      BY <1>1, <2>3 DEF DeletedInv, At
    <2> QED
      BY <1>1, <2>1, <2>3, <2>4, <2>5, DeletedKept
  <1>7. ASSUME NEW p \in Processes, DeleteDone(p) PROVE DeletedInv'
    <2>1. /\ clock' = clock /\ deleted' = deleted \cup {task[p].asset}
          /\ Closed(task[p].asset) /\ task[p].asset \in Assets
      BY <1>1, <1>7, StepSets DEF DeleteDone, DeletedInv, TaskInv, At
    <2>2. PICK new \in Tasks : TaskBecomes(p, new) /\ new.step \in {"rest", "down", "purge_next"}
      <3>1. CASE task[p].purging
        <4>1. PICK new : new = [task[p] EXCEPT !.step = "purge_next", !.asset = None,
                                               !.batch = task[p].batch \ {task[p].asset}]
          OBVIOUS
        <4>2. new \in Tasks /\ new.step = "purge_next"
          <5>1. task[p] \in Tasks
            BY <1>1 DEF StoreTypeOK
          <5> QED
            BY <4>1, <5>1 DEF Tasks, Steps
        <4>3. TaskBecomes(p, new)
          BY <1>7, <3>1, <4>1 DEF DeleteDone, TaskBecomes
        <4> QED
          BY <4>2, <4>3
      <3>2. CASE ~task[p].purging
        BY <1>1, <1>7, <3>2, EndIs DEF DeleteDone
      <3> QED
        BY <3>1, <3>2
    <2>3. PICK b \in Assets : b = task[p].asset
      BY <2>1
    <2>4. Closed(b)'
      BY <1>1, <2>1, <2>3
    <2>5. \A a \in deleted' : a \in deleted \/ Closed(a)'
      BY <2>1, <2>3, <2>4
    <2> QED
      BY <1>1, <2>1, <2>2, <2>5, DeletedKept
  <1>8. ASSUME NEW p \in Processes, PurgeRead(p) PROVE DeletedInv'
    <2>1. clock' = clock /\ deleted' = deleted
      BY <1>8 DEF PurgeRead, history
    <2>2. CASE Abandon(p)
      BY <1>2, <2>1, <2>2
    <2>3. CASE ~Abandon(p)
      <3>1. PICK new :
              new = [task[p] EXCEPT !.step = "purge_next",
                       !.batch = {a \in task[p].batch : Expired(files[a].meta, task[p].now)}]
        OBVIOUS
      <3>2. new \in Tasks /\ new.step = "purge_next"
        <4>1. task[p] \in Tasks
          BY <1>1 DEF StoreTypeOK
        <4>2. {a \in task[p].batch : Expired(files[a].meta, task[p].now)} \subseteq Assets
          BY <4>1 DEF Tasks
        <4> QED
          BY <3>1, <4>1, <4>2 DEF Tasks, Steps
      <3>3. TaskBecomes(p, new)
        <4>1. task' = [task EXCEPT ![p].step = "purge_next",
                         ![p].batch = {a \in @ : Expired(files[a].meta, task[p].now)}]
          BY <1>8, <2>3 DEF PurgeRead
        <4> QED
          BY <1>1, <3>1, <4>1 DEF StoreTypeOK, TaskBecomes
      <3> QED
        BY <1>1, <2>1, <3>2, <3>3, DeletedKept
    <2> QED
      BY <2>2, <2>3
  <1>9. ASSUME NEW p \in Processes, NEW b \in Assets, NEW new \in Tasks,
               TaskBecomes(p, new), clock' = clock, deleted' = deleted,
               new.step = IF Closed(b) THEN "unlink" ELSE "write_tombstone", new.asset = b
        PROVE  DeletedInv'
    <2>1. new.step = "unlink" => Closed(b)'
      BY <1>1, <1>9
    <2>2. new.step # "load_content"
      BY <1>9
    <2> QED
      BY <1>1, <1>9, <2>1, <2>2, DeletedKept
  <1>10. ASSUME NEW p \in Processes, PurgeNext(p) PROVE DeletedInv'
    <2>1. PICK b \in task[p].batch : task' = [task EXCEPT ![p] = Deleting(p, b)]
      BY <1>10 DEF PurgeNext
    <2>2. b \in Assets /\ clock' = clock /\ deleted' = deleted
      BY <1>1, <1>10 DEF StoreTypeOK, Tasks, PurgeNext, history
    <2>3. PICK new \in Tasks :
            /\ new = Deleting(p, b)
            /\ new.step = IF Closed(b) THEN "unlink" ELSE "write_tombstone"
            /\ new.asset = b
      BY <1>1, <2>2, DeletingIs
    <2>4. TaskBecomes(p, new)
      BY <2>1, <2>3, Zenon DEF TaskBecomes
    <2> QED
      BY <1>9, <2>2, <2>3, <2>4
  <1>11. ASSUME NEW p \in Processes, NEW b \in Assets, DeleteBegin(p, b) PROVE DeletedInv'
    <2>1. clock' = clock /\ deleted' = deleted
      BY <1>11 DEF DeleteBegin
    <2>2. PICK new \in Tasks :
            /\ new = [Deleting(p, b) EXCEPT !.now = clock]
            /\ new.step = IF Closed(b) THEN "unlink" ELSE "write_tombstone"
            /\ new.asset = b
      BY <1>1, DeletingNow
    <2>3. TaskBecomes(p, new)
      BY <1>11, <2>2, Zenon DEF DeleteBegin, TaskBecomes
    <2> QED
      BY <1>9, <2>1, <2>2, <2>3
  <1>12. ASSUME NEW p \in Processes, NEW b \in Assets, NEW c \in Contents, StoreBegin(p, b, c)
         PROVE  DeletedInv'
    <2>1. PICK new : new = [Rest EXCEPT !.step = "write_part", !.asset = b, !.data = c,
                                        !.now = clock]
      OBVIOUS
    <2>2. new \in Tasks /\ new.step = "write_part"
      BY <1>1, <2>1 DEF Rest, Tasks, Steps
    <2>3. TaskBecomes(p, new) /\ clock' = clock /\ deleted' = deleted \ {b}
      BY <1>12, <2>1 DEF StoreBegin, TaskBecomes
    <2> QED
      BY <1>1, <2>2, <2>3, DeletedKept
  <1>13. ASSUME NEW p \in Processes, NEW b \in Assets, LoadBegin(p, b) PROVE DeletedInv'
    <2>1. /\ ~Closed(b) /\ files[b].meta # None /\ clock' = clock /\ deleted' = deleted
          /\ task' = [task EXCEPT ![p] = [Rest EXCEPT !.step = "load_content", !.asset = b,
                         !.now = clock, !.data = files[b].meta.data, !.late = b \in deleted]]
      BY <1>13 DEF LoadBegin, history
    <2>2. (b \in deleted) = FALSE
      BY <2>1 DEF DeletedInv
    <2>3. PICK new : new = [Rest EXCEPT !.step = "load_content", !.asset = b, !.now = clock,
                                        !.data = files[b].meta.data, !.late = FALSE]
      OBVIOUS
    <2>4. files[b].meta \in WriteRows
      BY <1>1, <2>1, PathsAre DEF StoreTypeOK
    <2>5. new \in Tasks /\ new.step = "load_content" /\ ~new.late
      BY <1>1, <2>3, <2>4 DEF Rest, Tasks, Steps, WriteRows
    <2>6. TaskBecomes(p, new)
      BY <2>1, <2>2, <2>3, Zenon DEF TaskBecomes
    <2> QED
      BY <1>1, <2>1, <2>5, <2>6, DeletedKept
  <1>14. ASSUME NEW p \in Processes, PurgeBegin(p) PROVE DeletedInv'
    <2>1. PICK new : new = [Rest EXCEPT !.step = "purge_read", !.now = clock, !.purging = TRUE,
                                        !.batch = {a \in Assets : files[a].meta # None}]
      OBVIOUS
    <2>2. new \in Tasks /\ new.step = "purge_read"
      BY <1>1, <2>1 DEF Rest, Tasks, Steps
    <2>3. TaskBecomes(p, new) /\ clock' = clock /\ deleted' = deleted
      BY <1>14, <2>1 DEF PurgeBegin, TaskBecomes, history
    <2> QED
      BY <1>1, <2>2, <2>3, DeletedKept
  <1>15. ASSUME Tick \/ UNCHANGED vars PROVE DeletedInv'
    <2>1. /\ clock' <= MaxTime /\ tombstone' = tombstone /\ task' = task /\ deleted' = deleted
      BY <1>1, <1>15, TTLAssumption DEF Tick, vars, disk, history, DeletedInv
    <2> QED
      BY <2>1 DEF DeletedInv, At, Closed
  <1> QED
    BY <1>3, <1>4, <1>5, <1>6, <1>7, <1>8, <1>10, <1>11, <1>12, <1>13, <1>14, <1>15
       DEF Next, Begin, Continue, DeleteStep, PurgeStep

LEMMA DeletedInvHolds == ASSUME TombstonesLast PROVE Spec => []DeletedInv
  <1>1. Init => DeletedInv
    BY TTLAssumption, RestIsTask DEF Init, DeletedInv, At
  <1>2. StoreInvariant /\ DeletedInv /\ [Next]_vars => DeletedInv'
    BY DeletedStep
  <1> QED
    BY <1>1, <1>2, StoreInvariantHolds, PTL DEF Spec

\* Once the deletion of an asset was acknowledged, no load that begins afterwards
\* is served and no store that was under way succeeds: for ever if all ids are
\* drawn, and else as long as no tombstone runs out (DeletedStaysDeleted).
THEOREM DeletionIsFinal ==
  ASSUME GivenIds = {} \/ TombstonesLast
  PROVE  Spec => DeletedStaysDeleted
  <1> DEFINE Final == /\ \A p \in Processes : ServeContent(p) => ~task[p].late
                      /\ \A a \in deleted : stored'[a] = stored[a]
  <1>1. ASSUME StoreInvariant, [Next]_vars, stored' # stored
        PROVE  \E p \in Processes : /\ At(p, "confirm") /\ ~Closed(task[p].asset)
                                    /\ \A a \in Assets \ {task[p].asset} : stored'[a] = stored[a]
    <2>1. ASSUME NEW p \in Processes, Confirm(p)
          PROVE  /\ At(p, "confirm") /\ ~Closed(task[p].asset)
                 /\ \A a \in Assets \ {task[p].asset} : stored'[a] = stored[a]
      BY <1>1, <2>1 DEF Confirm, StoreInvariant, StoreTypeOK
    <2>2. ASSUME NEW p \in Processes, ~Confirm(p),
                 StoreStep(p) \/ LoadStep(p) \/ StoreFails(p) \/ DeleteFails(p) \/ Crash(p)
          PROVE  stored' = stored
      BY <2>2 DEF StoreStep, LoadStep, WritePart, WriteMetaPart, CommitContent, CommitMeta,
                  StoreRefused, ServeContent, LoadFails, StoreFails, DeleteFails, Crash, history
    <2>3. ASSUME NEW p \in Processes, DeleteStep(p) \/ PurgeStep(p) PROVE stored' = stored
      BY <2>3 DEF DeleteStep, PurgeStep, WriteTombstone, CommitTombstone, Unlink, DeleteDone,
                  PurgeRead, PurgeNext, PurgeDone, history
    <2>4. ASSUME NEW p \in Processes, Begin(p) PROVE stored' = stored
      BY <2>4 DEF Begin, StoreBegin, LoadBegin, DeleteBegin, PurgeBegin, history
    <2>5. ASSUME Tick \/ UNCHANGED vars PROVE stored' = stored
      BY <2>5 DEF Tick, vars, history
    <2> QED
      BY <1>1, <2>1, <2>2, <2>3, <2>4, <2>5 DEF Next, Continue
  <1>2. CASE GivenIds = {}
    <2>1. Ours = Assets
      BY <1>2 DEF Ours
    <2>2. StoreInvariant /\ [Next]_vars => Final
      <3> SUFFICES ASSUME StoreInvariant, [Next]_vars PROVE Final
        OBVIOUS
      <3>1. ASSUME NEW p \in Processes, At(p, "confirm") \/ At(p, "load_content")
            PROVE  task[p].asset \in Ours /\ ProcessInv(p, task[p].asset)
        BY <2>1, <3>1, StepSets DEF StoreInvariant, TaskInv, AssetInv, At
      <3>2. ASSUME NEW p \in Processes, ServeContent(p) PROVE ~task[p].late
        BY <3>1, <3>2 DEF ServeContent, ProcessInv, Op, At
      <3>3. ASSUME NEW p \in Processes, At(p, "confirm"), ~Closed(task[p].asset)
            PROVE  task[p].asset \notin deleted
        BY <3>1, <3>3 DEF ProcessInv, StoreInv, Op, At, StoreSteps
      <3> QED
        BY <1>1, <3>2, <3>3 DEF StoreInvariant, StoreTypeOK
    <2> QED
      BY <2>2, StoreInvariantHolds, PTL DEF Spec, DeletedStaysDeleted
  <1>3. CASE TombstonesLast
    <2>1. StoreInvariant /\ DeletedInv /\ [Next]_vars => Final
      <3> SUFFICES ASSUME StoreInvariant, DeletedInv, [Next]_vars PROVE Final
        OBVIOUS
      <3>1. ASSUME NEW p \in Processes, ServeContent(p) PROVE ~task[p].late
        BY <3>1 DEF ServeContent, DeletedInv, At
      <3>2. ASSUME NEW p \in Processes, At(p, "confirm"), ~Closed(task[p].asset)
            PROVE  task[p].asset \notin deleted
        BY <3>2 DEF DeletedInv
      <3> QED
        BY <1>1, <3>1, <3>2 DEF StoreInvariant, StoreTypeOK
    <2>2. Spec => []DeletedInv
      BY <1>3, DeletedInvHolds
    <2> QED
      BY <2>1, <2>2, StoreInvariantHolds, PTL DEF Spec, DeletedStaysDeleted
  <1> QED
    BY <1>2, <1>3
===============================================================================
