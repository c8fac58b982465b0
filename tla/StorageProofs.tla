---------------------------- MODULE StorageProofs ----------------------------
(***************************************************************************)
(* Theorems about what the server keeps in a bucket or on a disk outside   *)
(* its database: capability tokens, uploaded ads, composed pictures, and   *)
(* the rate limiter, which keeps nothing but its windows.                  *)
(***************************************************************************)
EXTENDS CloudAssets, PictureStore, RateLimiter, TLAPS

-----------------------------------------------------------------------------
\* What a whole number of seconds says of the instant.
LEMMA InstantInSecond ==
  ASSUME NEW t \in Nat
  PROVE  /\ WholeSeconds(t) \in Nat
         /\ Second * WholeSeconds(t) <= t
         /\ t < Second * WholeSeconds(t) + Second
<1> DEFINE q == t \div Second
           r == t % Second
<1>1. q \in Nat /\ r \in 0..(Second - 1) /\ t = Second * q + r
  BY SecondAssumption
<1> QED BY <1>1, SecondAssumption DEF WholeSeconds

LEMMA LaterSecondsAreLater ==
  ASSUME NEW a \in Nat, NEW b \in Nat, a < b
  PROVE  Second * a + Second <= Second * b
<1>1. PICK d \in Nat : b = a + 1 + d
  <2>1. b - a - 1 \in Nat /\ b = a + 1 + (b - a - 1)
    OBVIOUS
  <2> QED BY <2>1
<1>2. Second * b = Second * a + Second + Second * d
  BY <1>1, SecondAssumption
<1>3. Second * d \in Nat /\ Second * a \in Nat
  BY SecondAssumption
<1> QED BY <1>2, <1>3, SecondAssumption

\* However the two truncations fall, a token is never accepted after its time
\* to live, and always until one second before the end of it (issue, verify).
THEOREM TokenTimes ==
  ASSUME NEW issued \in Nat, NEW ttl \in Nat, NEW now \in Nat
  PROVE  /\ Accepts(Expiry(issued, ttl), now) => now < issued + ttl
         /\ now + Second <= issued + ttl => Accepts(Expiry(issued, ttl), now)
<1> DEFINE end == issued + ttl
           a == WholeSeconds(now)
           b == WholeSeconds(end)
<1>1. end \in Nat /\ Second \in Nat
  BY SecondAssumption
<1>2. a \in Nat /\ Second * a <= now /\ now < Second * a + Second /\ Second * a \in Nat
  BY InstantInSecond, SecondAssumption
<1>3. b \in Nat /\ Second * b <= end /\ end < Second * b + Second /\ Second * b \in Nat
  BY <1>1, InstantInSecond, SecondAssumption
<1> HIDE DEF a, b, end
<1>4. a < b => now < end
  <2> SUFFICES ASSUME a < b PROVE now < end
    OBVIOUS
  <2>1. Second * a + Second <= Second * b
    BY <1>2, <1>3, LaterSecondsAreLater
  <2> QED BY <1>1, <1>2, <1>3, <2>1
<1>5. now + Second <= end => a < b
  <2> SUFFICES ASSUME now + Second <= end, b <= a PROVE FALSE
    BY <1>2, <1>3
  <2>1. Second * b <= Second * a
    <3>1. CASE b = a
      BY <3>1, <1>2
    <3>2. CASE b < a
      <4>1. Second * b + Second <= Second * a
        BY <3>2, <1>2, <1>3, LaterSecondsAreLater
      <4> QED BY <4>1, <1>1, <1>2, <1>3
    <3> QED BY <3>1, <3>2, <1>2, <1>3
  <2> QED BY <1>1, <1>2, <1>3, <2>1
<1> QED BY <1>4, <1>5 DEF Accepts, Expiry, a, b, end

----------------------------------------------------------------------------
(***************************************************************************)
(* Ads in the bucket.  The invariant says, asset by asset, what the bucket *)
(* and the requests still under way hold at each step of its upload.       *)
(***************************************************************************)
UploadSteps == {"new", "put_content", "put_meta", "undo", "issue", "done",
                "failed", "abandoned", "crashed"}
\* An upload that will send no further put.
Over == {"undo", "failed", "abandoned", "crashed"}

CloudTypeOK ==
  /\ clock \in Nat
  /\ uploads \in [Assets -> [step : UploadSteps, ext : Extensions \cup {None},
                             created : Nat, issued : Nat]]
  /\ removals \in [Deletions -> [step : {"rest", "read", "bury", "remove"},
                                 asset : Assets \cup {None},
                                 ext : Extensions \cup {None}]]
  /\ deleted \subseteq Assets

\* The puts of an ad that were reported failed and are still to land.
LatePuts(a) == {request \in late : request.op = "put_new" /\ request.keys \subseteq Whole(a)}
LateKeys(a) == UNION {request.keys : request \in LatePuts(a)}

TimesInv(a) ==
  /\ ~Upload(a, "new") => uploads[a].ext \in Extensions
  /\ uploads[a].created <= clock
  /\ Upload(a, "done") => uploads[a].created <= uploads[a].issued

BucketInv(a) ==
  /\ Parts(a) \cap objects \subseteq Whole(a)
  /\ uploads[a].step \in {"new", "put_content"} => Parts(a) \cap objects = {}
  /\ Upload(a, "put_meta") => Parts(a) \cap objects = {Key(a, uploads[a].ext)}
  /\ Upload(a, "issue") => Whole(a) \subseteq objects
  /\ Upload(a, "done") => Buried(a) \/ Whole(a) \subseteq objects
  /\ Upload(a, "failed") => ~(Whole(a) \subseteq objects \cup LateKeys(a))
  /\ Buried(a) => Upload(a, "done")
  /\ \A one, other \in LatePuts(a) : one = other

\* What a request under way may be, and of which ad.
RequestOf(request, a) ==
  \/ /\ \E key \in Whole(a) \ objects : request = PutNew(key)
     /\ uploads[a].step \in Over
  \/ request = Put(Key(a, "tombstone")) /\ Upload(a, "done")
  \/ /\ \E keys \in SUBSET Parts(a) : request = Remove(keys)
     /\ Upload(a, "abandoned") \/ Buried(a)

RemovalInv(d) ==
  LET a == removals[d].asset
  IN /\ ~Removal(d, "rest") => a \in Assets /\ Upload(a, "done")
     /\ removals[d].step \in {"bury", "remove"} =>
          removals[d].ext \in {"png", uploads[a].ext}
     /\ Removal(d, "remove") => Buried(a)

CloudInv ==
  /\ CloudTypeOK
  /\ \A a \in Assets : TimesInv(a) /\ BucketInv(a)
  /\ \A request \in late : \E a \in Assets : RequestOf(request, a)
  /\ \A d \in Deletions : RemovalInv(d)
  /\ \A a \in deleted : Upload(a, "done") /\ Parts(a) \cap objects = {}
----------------------------------------------------------------------------
\* What a step leaves of an ad it is not about.
SameView(a) ==
  /\ uploads'[a] = uploads[a] /\ clock' = clock
  /\ \A part \in Extensions \cup {"meta", "tombstone"} :
       Key(a, part) \in objects' <=> Key(a, part) \in objects
  /\ LatePuts(a)' = LatePuts(a)

\* An ad's life goes on, or stays where it is.
LifeGoesOn(a) ==
  /\ Readable(a) => Readable(a)' \/ ~MayOpen(a)'
  /\ ~Readable(a) /\ ~MayOpen(a) => ~Readable(a)' /\ ~MayOpen(a)'

LEMMA KeysDiffer ==
  /\ \A a, b, part, other : Key(a, part) = Key(b, other) => a = b /\ part = other
  /\ \A a, part : Key(a, part)[1] = a
  /\ \A a : Key(a, "meta") \in Whole(a) /\ Key(a, uploads[a].ext) \in Whole(a)
  /\ \A a : \A key \in Whole(a) \cup Parts(a) \cup {Key(a, "tombstone")} : key[1] = a
  /\ \A a : Key(a, "tombstone") \notin Parts(a)
  BY DEF Key, Whole, Parts, Extensions

LEMMA RequestsDiffer ==
  /\ \A key : PutNew(key).op = "put_new" /\ PutNew(key).keys = {key}
  /\ \A key : Put(key).op = "put" /\ Put(key).keys = {key}
  /\ \A keys : Remove(keys).op = "delete" /\ Remove(keys).keys = keys
  BY DEF PutNew, Put, Remove

\* A step that touches the objects and requests of one ad leaves the others.
LEMMA OthersUntouched ==
  ASSUME NEW b \in Assets, NEW a \in Assets, a # b,
         uploads'[a] = uploads[a], clock' = clock,
         \A key \in (objects \ objects') \cup (objects' \ objects) : key[1] = b,
         \A request \in (late \ late') \cup (late' \ late) :
           request.op # "put_new" \/ \E key \in request.keys : key[1] = b
  PROVE  SameView(a)
  <1>1. ASSUME NEW part PROVE Key(a, part) \in objects' <=> Key(a, part) \in objects
    BY KeysDiffer
  <1>2. Whole(a)' = Whole(a)
    BY DEF Whole, Key
  <1>3. ASSUME NEW request, request.op = "put_new", request.keys \subseteq Whole(a)
        PROVE  request \in late' <=> request \in late
    <2>1. \A key \in request.keys : key[1] = a
      BY <1>3, KeysDiffer
    <2> QED
      BY <1>3, <2>1
  <1>4. LatePuts(a)' = LatePuts(a)
    BY <1>2, <1>3 DEF LatePuts
  <1> QED
    BY <1>1, <1>4 DEF SameView

LEMMA SameViewKeeps ==
  ASSUME CloudInv, NEW a \in Assets, SameView(a)
  PROVE  /\ TimesInv(a)' /\ BucketInv(a)' /\ LifeGoesOn(a)
         /\ \A request : RequestOf(request, a) => RequestOf(request, a)'
         /\ Upload(a, "done") => Upload(a, "done")'
         /\ Buried(a) => Buried(a)'
         /\ Parts(a) \cap objects = {} => Parts(a) \cap objects' = {}
  <1>1. Whole(a)' = Whole(a) /\ LateKeys(a)' = LateKeys(a)
    BY DEF SameView, Whole, Key, LateKeys
  <1>2. /\ TimesInv(a) /\ BucketInv(a)
        /\ ~Upload(a, "new") => uploads[a].ext \in Extensions
    BY DEF CloudInv, TimesInv
  <1>3. /\ \A step : Upload(a, step)' <=> Upload(a, step)
        /\ Buried(a)' <=> Buried(a)
        /\ Parts(a) \cap objects' = Parts(a) \cap objects
    BY DEF SameView, Upload, Buried, Parts, Key
  <1>4. ~Upload(a, "new") => Whole(a) \cap objects' = Whole(a) \cap objects
    BY <1>2, <1>3 DEF Whole, Parts
  <1>5. TimesInv(a)'
    BY <1>2, <1>3 DEF TimesInv, SameView
  <1>6. BucketInv(a)'
    BY <1>1, <1>2, <1>3, <1>4 DEF BucketInv, SameView, Upload, Parts, Key
  <1>7. LifeGoesOn(a)
    BY <1>1, <1>2, <1>3, <1>4 DEF LifeGoesOn, Readable, MayOpen, SameView, LatePuts, Upload
  <1>8. ASSUME NEW request, RequestOf(request, a) PROVE RequestOf(request, a)'
    BY <1>1, <1>3, <1>4, <1>8 DEF RequestOf, Over, SameView, Upload, Parts, Key
  <1> QED
    BY <1>3, <1>5, <1>6, <1>7, <1>8

----------------------------------------------------------------------------
\* The steps of an upload.
UploadRows == [step : UploadSteps, ext : Extensions \cup {None}, created : Nat, issued : Nat]

LEMMA StepOfUpload ==
  ASSUME CloudInv, NEW b \in Assets, NEW step \in UploadSteps, UploadGoes(b, step)
  PROVE  /\ uploads' \in [Assets -> UploadRows]
         /\ uploads'[b].step = step /\ uploads'[b].ext = uploads[b].ext
         /\ uploads'[b].created = uploads[b].created
         /\ uploads'[b].issued = uploads[b].issued
         /\ \A a \in Assets : a # b => uploads'[a] = uploads[a]
         /\ Whole(b)' = Whole(b)
  <1>1. uploads[b] \in UploadRows /\ uploads \in [Assets -> UploadRows]
    BY DEF CloudInv, CloudTypeOK, UploadRows
  <1>2. uploads' = [uploads EXCEPT ![b] = [uploads[b] EXCEPT !.step = step]]
    BY DEF UploadGoes
  <1>3. [uploads[b] EXCEPT !.step = step] \in UploadRows
    BY <1>1 DEF UploadRows
  <1>4. uploads'[b] = [uploads[b] EXCEPT !.step = step]
    BY <1>1, <1>2
  <1>5. /\ uploads'[b].step = step /\ uploads'[b].ext = uploads[b].ext
        /\ uploads'[b].created = uploads[b].created
        /\ uploads'[b].issued = uploads[b].issued
    BY <1>1, <1>4 DEF UploadRows
  <1> QED
    BY <1>1, <1>2, <1>3, <1>5 DEF Whole, Key

\* The puts of an ad that are still to land are requests of its own upload.
LEMMA OwnPuts ==
  ASSUME CloudInv, NEW b \in Assets, NEW request \in LatePuts(b)
  PROVE  /\ uploads[b].step \in Over
         /\ \E key \in Whole(b) \ objects : request = PutNew(key)
  <1>1. PICK a \in Assets : RequestOf(request, a)
    BY DEF CloudInv, LatePuts
  <1>2. PICK key \in Whole(a) \ objects : request = PutNew(key) /\ uploads[a].step \in Over
    BY <1>1, RequestsDiffer DEF RequestOf, LatePuts
  <1>3. key \in Whole(b)
    BY <1>2, RequestsDiffer DEF LatePuts
  <1>4. a = b
    BY <1>2, <1>3, KeysDiffer
  <1> QED
    BY <1>2, <1>4

\* Before its first failure an upload has no request under way.
LEMMA NothingUnderWay ==
  ASSUME CloudInv, NEW b \in Assets, uploads[b].step \notin Over \cup {"done"}
  PROVE  /\ LatePuts(b) = {} /\ ~Buried(b)
         /\ \A request : ~RequestOf(request, b)
  <1>1. ~Buried(b)
    BY DEF CloudInv, BucketInv, Upload
  <1> QED
    BY <1>1, OwnPuts DEF RequestOf, Over, Upload

LEMMA UploadStepKeeps ==
  ASSUME CloudInv, NEW b \in Assets, UploadOnly, ~Upload(b, "done"),
         uploads' \in [Assets -> UploadRows],
         \A a \in Assets : a # b => SameView(a),
         TimesInv(b)', BucketInv(b)', LifeGoesOn(b),
         \A request \in late' :
           \/ RequestOf(request, b)'
           \/ request \in late /\ (RequestOf(request, b) => RequestOf(request, b)')
  PROVE  CloudInv' /\ \A a \in Assets : LifeGoesOn(a)
  <1>1. CloudTypeOK'
    BY DEF CloudInv, CloudTypeOK, UploadOnly, UploadRows
  <1>2. \A a \in Assets : TimesInv(a)' /\ BucketInv(a)' /\ LifeGoesOn(a)
    BY SameViewKeeps
  <1>3. \A request \in late' : \E a \in Assets : RequestOf(request, a)'
    BY SameViewKeeps DEF CloudInv
  <1>4. ASSUME NEW d \in Deletions PROVE RemovalInv(d)'
    <2>1. RemovalInv(d) /\ removals' = removals
      BY DEF CloudInv, UploadOnly
    <2>2. CASE Removal(d, "rest")
      BY <2>1, <2>2 DEF RemovalInv, Removal
    <2>3. CASE ~Removal(d, "rest")
      <3>1. PICK a \in Assets : a = removals[d].asset /\ Upload(a, "done") /\ a # b
        BY <2>1, <2>3 DEF RemovalInv
      <3>2. Upload(a, "done")' /\ uploads'[a] = uploads[a] /\ (Buried(a) => Buried(a)')
        BY <3>1, SameViewKeeps DEF SameView
      <3> QED
        BY <2>1, <3>1, <3>2 DEF RemovalInv, Removal, Upload, Buried
    <2> QED
      BY <2>2, <2>3
  <1>5. ASSUME NEW a \in deleted' PROVE Upload(a, "done")' /\ Parts(a) \cap objects' = {}
    <2>1. a \in Assets /\ Upload(a, "done") /\ Parts(a) \cap objects = {} /\ a # b
      BY <1>5 DEF CloudInv, CloudTypeOK, UploadOnly
    <2> QED
      BY <2>1, SameViewKeeps
  <1> QED
    BY <1>1, <1>2, <1>3, <1>4, <1>5 DEF CloudInv, Parts, Key

\* A request of the upload of b that was reported failed is the only one that
\* may be added to those under way.
LEMMA FailedRequest ==
  ASSUME NEW request, Fails(request)
  PROVE  /\ objects' = objects
         /\ late' = late \/ late' = late \cup {request}
  BY DEF Fails

LEMMA UploadBeginKeeps ==
  ASSUME CloudInv, NEW b \in Assets, UploadBegin(b)
  PROVE  CloudInv' /\ \A a \in Assets : LifeGoesOn(a)
  <1>1. PICK ext \in Extensions, step \in {"put_content", "failed"} :
          uploads' = [uploads EXCEPT ![b] = [step |-> step, ext |-> ext,
                                             created |-> clock, issued |-> 0]]
    BY DEF UploadBegin
  <1>2. /\ Upload(b, "new") /\ UploadOnly
        /\ objects' = objects /\ late' = late /\ clock' = clock
    BY DEF UploadBegin, storageVars, UploadOnly
  <1>3. /\ uploads' \in [Assets -> UploadRows]
        /\ uploads'[b].step = step /\ uploads'[b].ext = ext
        /\ uploads'[b].created = clock
        /\ \A a \in Assets : a # b => uploads'[a] = uploads[a]
    BY <1>1 DEF CloudInv, CloudTypeOK, UploadRows, UploadSteps
  <1>4. /\ uploads[b].step \notin Over \cup {"done"}
        /\ ~Upload(b, "done")
    BY <1>2 DEF Upload, Over
  <1>5. \A request : ~RequestOf(request, b)
    BY <1>4, NothingUnderWay
  <1>6. /\ ~Buried(b) /\ Parts(b) \cap objects = {}
    BY <1>2, <1>4, NothingUnderWay DEF CloudInv, BucketInv, Upload
  <1>7. LatePuts(b)' = {}
    <2> SUFFICES ASSUME NEW request \in LatePuts(b)' PROVE FALSE
      OBVIOUS
    <2>1. request \in late /\ request.op = "put_new"
          /\ \A key \in request.keys : key[1] = b
      BY <1>2 DEF LatePuts, Whole, Key
    <2>2. PICK a \in Assets : RequestOf(request, a)
      BY <2>1 DEF CloudInv
    <2>3. PICK key \in Whole(a) \ objects : request = PutNew(key)
      BY <2>1, <2>2, RequestsDiffer DEF RequestOf
    <2>4. key[1] = b /\ key[1] = a
      BY <2>1, <2>3, RequestsDiffer, KeysDiffer
    <2> QED
      BY <1>5, <2>2, <2>4
  <1>8. \A a \in Assets : a # b => SameView(a)
    BY <1>2, <1>3, OthersUntouched
  <1>9. TimesInv(b)'
    BY <1>2, <1>3 DEF TimesInv, Upload, CloudInv, CloudTypeOK
  <1>10. Parts(b) \cap objects' = {} /\ ~Buried(b)' /\ ~(Whole(b)' \subseteq objects')
    BY <1>2, <1>3, <1>6 DEF Parts, Buried, Whole, Key
  <1>11. BucketInv(b)'
    BY <1>3, <1>7, <1>10 DEF BucketInv, LateKeys, Upload, Parts, Key
  <1>12. LifeGoesOn(b)
    BY <1>2, <1>10 DEF LifeGoesOn, Readable, MayOpen
  <1> QED
    BY <1>2, <1>3, <1>4, <1>5, <1>8, <1>9, <1>11, <1>12, UploadStepKeeps

\* A put of the upload of b: it adds its object, or at most itself to the
\* requests under way.
LEMMA PutKeeps ==
  ASSUME CloudInv, NEW b \in Assets, NEW key \in Whole(b), key \notin objects,
         NEW next \in {"put_meta", "issue"},
         \/ next = "put_meta" /\ Upload(b, "put_content") /\ key = Key(b, uploads[b].ext)
         \/ next = "issue" /\ Upload(b, "put_meta") /\ key = Key(b, "meta"),
         \/ Succeeds(PutNew(key)) /\ UploadGoes(b, next)
         \/ Fails(PutNew(key)) /\ UploadGoes(b, "undo"),
         UploadOnly
  PROVE  CloudInv' /\ \A a \in Assets : LifeGoesOn(a)
  <1>1. /\ uploads[b].step \notin Over \cup {"done"} /\ ~Upload(b, "done")
        /\ ~Upload(b, "new") /\ uploads[b].ext \in Extensions
    BY DEF Upload, Over, CloudInv, TimesInv
  <1>2. /\ LatePuts(b) = {} /\ ~Buried(b) /\ \A request : ~RequestOf(request, b)
    BY <1>1, NothingUnderWay
  <1>3. PICK step \in {next, "undo"} :
          /\ UploadGoes(b, step)
          /\ \/ step = next /\ objects' = objects \cup {key} /\ late' = late
             \/ /\ step = "undo" /\ objects' = objects
                /\ late' = late \/ late' = late \cup {PutNew(key)}
    BY RequestsDiffer, FailedRequest DEF Succeeds, Execute
  <1>4. /\ uploads' \in [Assets -> UploadRows]
        /\ uploads'[b].step = step /\ uploads'[b].ext = uploads[b].ext
        /\ uploads'[b].created = uploads[b].created
        /\ \A a \in Assets : a # b => uploads'[a] = uploads[a]
        /\ Whole(b)' = Whole(b) /\ clock' = clock
    BY <1>3, StepOfUpload DEF UploadSteps, UploadOnly
  <1>5. \A a \in Assets : a # b => SameView(a)
    <2>1. key[1] = b
      BY KeysDiffer
    <2>2. \A k \in (objects \ objects') \cup (objects' \ objects) : k[1] = b
      BY <1>3, <2>1
    <2>3. \A request \in (late \ late') \cup (late' \ late) :
            request.op # "put_new" \/ \E k \in request.keys : k[1] = b
      BY <1>3, <2>1, RequestsDiffer
    <2> QED
      BY <1>4, <2>2, <2>3, OthersUntouched
  <1>6. TimesInv(b)'
    BY <1>1, <1>4 DEF TimesInv, Upload, CloudInv
  <1>7. LatePuts(b)' \subseteq {PutNew(key)} /\ (step = next => LatePuts(b)' = {})
    BY <1>2, <1>3, <1>4 DEF LatePuts
  <1>8. ~Buried(b)' /\ Parts(b) \cap objects' \subseteq Whole(b)
    <2>1. key \in Parts(b)
      BY <1>1 DEF Whole, Parts
    <2>2. key # Key(b, "tombstone")
      BY <2>1, KeysDiffer
    <2> QED
      BY <1>2, <1>3, <2>2 DEF Buried, CloudInv, BucketInv, Key
  <1>9. BucketInv(b)'
    <2>1. step = "put_meta" => Parts(b) \cap objects' = {Key(b, uploads[b].ext)}
      BY <1>1, <1>3 DEF CloudInv, BucketInv, Upload, Parts
    <2>2. step = "issue" => Whole(b) \subseteq objects'
      BY <1>1, <1>3 DEF CloudInv, BucketInv, Upload, Parts, Whole
    <2>3. Parts(b)' = Parts(b) /\ Key(b, uploads[b].ext)' = Key(b, uploads[b].ext)
      BY <1>4 DEF Parts, Key
    <2> QED
      BY <1>4, <1>7, <1>8, <2>1, <2>2, <2>3 DEF BucketInv, Upload
  <1>10. LifeGoesOn(b)
    <2>1. ~Readable(b)
      BY DEF Readable
    <2>2. MayOpen(b) <=> clock < uploads[b].created + TTL
      BY <1>1 DEF MayOpen, Upload
    <2>3. Readable(b)' \/ MayOpen(b)' => clock < uploads[b].created + TTL
      BY <1>4 DEF Readable, MayOpen, Upload
    <2> QED
      BY <2>1, <2>2, <2>3 DEF LifeGoesOn
  <1>11. \A request \in late' :
           RequestOf(request, b)' \/ (request \in late /\ ~RequestOf(request, b))
    BY <1>2, <1>3, <1>4 DEF RequestOf, Over
  <1> QED
    BY <1>1, <1>4, <1>5, <1>6, <1>9, <1>10, <1>11, UploadStepKeeps

LEMMA UploadPutsKeep ==
  ASSUME CloudInv, NEW b \in Assets, PutContent(b) \/ PutMeta(b)
  PROVE  CloudInv' /\ \A a \in Assets : LifeGoesOn(a)
  <1>1. CASE PutContent(b)
    <2> DEFINE key == Key(b, uploads[b].ext)
    <2>1. /\ Upload(b, "put_content") /\ UploadOnly
          /\ \/ Succeeds(PutNew(key)) /\ UploadGoes(b, "put_meta")
             \/ Fails(PutNew(key)) /\ UploadGoes(b, "undo")
      BY <1>1 DEF PutContent
    <2>2. key \in Parts(b)
      BY <2>1 DEF CloudInv, TimesInv, Upload, Parts
    <2>3. key \notin objects
      BY <2>1, <2>2 DEF CloudInv, BucketInv, Upload
    <2> QED
      BY <2>1, <2>3, KeysDiffer, PutKeeps
  <1>2. CASE PutMeta(b)
    <2> DEFINE key == Key(b, "meta")
    <2>1. /\ Upload(b, "put_meta") /\ UploadOnly
          /\ \/ Succeeds(PutNew(key)) /\ UploadGoes(b, "issue")
             \/ Fails(PutNew(key)) /\ UploadGoes(b, "undo")
      BY <1>2 DEF PutMeta
    <2>2. uploads[b].ext # "meta" /\ key \in Parts(b)
      BY <2>1 DEF CloudInv, TimesInv, Upload, Extensions, Parts
    <2>3. key \notin objects
      BY <2>1, <2>2, KeysDiffer DEF CloudInv, BucketInv, Upload
    <2> QED
      BY <2>1, <2>3, KeysDiffer, PutKeeps
  <1> QED
    BY <1>1, <1>2

LEMMA UndoKeeps ==
  ASSUME CloudInv, NEW b \in Assets, Undo(b)
  PROVE  CloudInv' /\ \A a \in Assets : LifeGoesOn(a)
  <1>1. /\ Upload(b, "undo") /\ UploadOnly
        /\ \/ Succeeds(Remove(Whole(b))) /\ UploadGoes(b, "failed")
           \/ Fails(Remove(Whole(b))) /\ UploadGoes(b, "abandoned")
    BY DEF Undo
  <1>2. PICK step \in {"failed", "abandoned"} :
          /\ UploadGoes(b, step)
          /\ \/ step = "failed" /\ objects' = objects \ Whole(b) /\ late' = late
             \/ /\ step = "abandoned" /\ objects' = objects
                /\ late' = late \/ late' = late \cup {Remove(Whole(b))}
    BY <1>1, RequestsDiffer, FailedRequest DEF Succeeds, Execute
  <1>3. /\ uploads' \in [Assets -> UploadRows]
        /\ uploads'[b].step = step /\ uploads'[b].ext = uploads[b].ext
        /\ uploads'[b].created = uploads[b].created
        /\ \A a \in Assets : a # b => uploads'[a] = uploads[a]
        /\ Whole(b)' = Whole(b) /\ Parts(b)' = Parts(b) /\ clock' = clock
    BY <1>1, <1>2, StepOfUpload DEF UploadSteps, UploadOnly, Parts, Key
  <1>4. /\ ~Upload(b, "done") /\ ~Upload(b, "new") /\ ~Buried(b)
        /\ uploads[b].ext \in Extensions
    BY <1>1 DEF Upload, CloudInv, BucketInv, TimesInv
  <1>5. \A a \in Assets : a # b => SameView(a)
    <2>1. \A k \in (objects \ objects') \cup (objects' \ objects) : k[1] = b
      BY <1>2, KeysDiffer
    <2>2. \A request \in (late \ late') \cup (late' \ late) : request.op # "put_new"
      BY <1>2, RequestsDiffer
    <2> QED
      BY <1>3, <2>1, <2>2, OthersUntouched
  <1>6. TimesInv(b)'
    BY <1>3, <1>4 DEF TimesInv, Upload, CloudInv
  <1>7. LatePuts(b)' = LatePuts(b)
    BY <1>2, <1>3, RequestsDiffer DEF LatePuts
  <1>8. ~Buried(b)' /\ objects' \subseteq objects
    BY <1>2, <1>4 DEF Buried, Key
  <1>9. BucketInv(b)'
    <2>1. ASSUME step = "failed" PROVE ~(Whole(b) \subseteq objects' \cup LateKeys(b)')
      <3>1. Whole(b) \cap objects' = {}
        BY <1>2, <2>1
      <3>2. Key(b, "meta") # Key(b, uploads[b].ext)
        BY <1>4, KeysDiffer DEF Extensions
      <3>3. \A one, other \in LatePuts(b) : one = other
        BY DEF CloudInv, BucketInv
      <3>4. \A k, l \in LateKeys(b) : k = l
        BY <3>3, OwnPuts, RequestsDiffer DEF LateKeys
      <3>5. LateKeys(b)' = LateKeys(b)
        BY <1>7 DEF LateKeys
      <3> QED
        BY <3>1, <3>2, <3>4, <3>5 DEF Whole
    <2> QED
      BY <1>3, <1>7, <1>8, <2>1 DEF BucketInv, Upload, CloudInv
  <1>10. LifeGoesOn(b)
    <2>1. CASE step = "failed"
      <3>1. ~Readable(b)' /\ ~MayOpen(b)'
        BY <1>2, <1>3, <2>1 DEF Readable, MayOpen, Upload, Whole
      <3> QED
        BY <3>1 DEF LifeGoesOn
    <2>2. CASE step = "abandoned"
      <3>1. objects' = objects /\ Buried(b)' = Buried(b)
        BY <1>2, <2>2 DEF Buried, Key
      <3>2. Readable(b)' <=> Readable(b)
        BY <1>3, <1>4, <2>2, <3>1 DEF Readable, Upload
      <3>3. MayOpen(b)' => MayOpen(b)
        BY <1>1, <1>3, <1>7, <2>2 DEF MayOpen, Upload, LatePuts
      <3>4. Readable(b) => Readable(b)'
        BY <3>2
      <3> QED
        BY <3>2, <3>3 DEF LifeGoesOn
    <2> QED
      BY <2>1, <2>2
  <1>11. ASSUME NEW request \in late'
         PROVE  \/ RequestOf(request, b)'
                \/ request \in late /\ (RequestOf(request, b) => RequestOf(request, b)')
    <2>1. CASE request \in late
      <3>1. SUFFICES ASSUME RequestOf(request, b) PROVE RequestOf(request, b)'
        BY <2>1
      <3>2. \E key \in Whole(b) \ objects : request = PutNew(key)
        BY <1>1, <1>4, <3>1 DEF RequestOf, Upload
      <3> QED
        BY <1>3, <1>8, <3>2 DEF RequestOf, Over
    <2>2. CASE request \notin late
      <3>1. request = Remove(Whole(b)) /\ step = "abandoned"
        BY <1>2, <2>2
      <3>2. Whole(b) \in SUBSET Parts(b)
        BY <1>4 DEF Whole, Parts
      <3> QED
        BY <1>3, <3>1, <3>2 DEF RequestOf, Upload
    <2> QED
      BY <2>1, <2>2
  <1> QED
    BY <1>1, <1>3, <1>4, <1>5, <1>6, <1>9, <1>10, <1>11, UploadStepKeeps

\* The two ends of an upload that send no request.
LEMMA UploadEndKeeps ==
  ASSUME CloudInv, NEW b \in Assets, IssueToken(b) \/ UploadCrash(b)
  PROVE  CloudInv' /\ \A a \in Assets : LifeGoesOn(a)
  <1>1. /\ UploadOnly /\ objects' = objects /\ late' = late /\ clock' = clock
        /\ uploads[b].step \in {"put_content", "put_meta", "undo", "issue"}
    BY DEF IssueToken, UploadCrash, UploadOnly, storageVars, Upload
  <1>2. uploads[b] \in UploadRows /\ uploads \in [Assets -> UploadRows]
    BY DEF CloudInv, CloudTypeOK, UploadRows
  <1>3. PICK step \in {"done", "crashed"} :
          /\ step = "done" => Upload(b, "issue") /\ uploads'[b].issued = clock
          /\ uploads' \in [Assets -> UploadRows]
          /\ uploads'[b].step = step /\ uploads'[b].ext = uploads[b].ext
          /\ uploads'[b].created = uploads[b].created
          /\ \A a \in Assets : a # b => uploads'[a] = uploads[a]
    <2>1. CASE IssueToken(b)
      <3>1. /\ uploads' = [uploads EXCEPT ![b].step = "done", ![b].issued = clock]
            /\ Upload(b, "issue") /\ clock \in Nat
        BY <2>1 DEF IssueToken, CloudInv, CloudTypeOK
      <3> QED
        BY <1>2, <3>1 DEF UploadRows, UploadSteps
    <2>2. CASE UploadCrash(b)
      BY <2>2, StepOfUpload DEF UploadCrash, UploadSteps
    <2> QED
      BY <2>1, <2>2
  <1>4. /\ ~Upload(b, "done") /\ ~Upload(b, "new") /\ ~Buried(b)
        /\ uploads[b].ext \in Extensions
    BY <1>1 DEF Upload, CloudInv, BucketInv, TimesInv
  <1>5. \A a \in Assets : a # b => SameView(a)
    BY <1>1, <1>3, OthersUntouched
  <1>6. TimesInv(b)'
    BY <1>1, <1>3, <1>4 DEF TimesInv, Upload, CloudInv
  <1>7. Whole(b)' = Whole(b) /\ Parts(b)' = Parts(b) /\ (Buried(b)' <=> Buried(b))
    BY <1>1, <1>3 DEF Whole, Parts, Buried, Key
  <1>8. LatePuts(b)' = LatePuts(b)
    BY <1>1, <1>7 DEF LatePuts
  <1>9. BucketInv(b)'
    BY <1>1, <1>3, <1>4, <1>7, <1>8 DEF BucketInv, Upload, CloudInv
  <1>10. LifeGoesOn(b)
    <2>1. Readable(b)' <=> Readable(b)
      BY <1>1, <1>3, <1>4, <1>7 DEF Readable, Upload
    <2>2. MayOpen(b)' => MayOpen(b)
      BY <1>1, <1>3, <1>8 DEF MayOpen, Upload, LatePuts
    <2> QED
      BY <2>1, <2>2 DEF LifeGoesOn
  <1>11. ASSUME NEW request, RequestOf(request, b) PROVE RequestOf(request, b)'
    <2>1. uploads[b].step = "undo"
      BY <1>1, <1>11, NothingUnderWay DEF Over
    <2>2. step = "crashed"
      BY <1>3, <2>1 DEF Upload
    <2> QED
      BY <1>1, <1>3, <1>4, <1>7, <1>11, <2>1, <2>2 DEF RequestOf, Over, Upload
  <1> QED
    BY <1>1, <1>3, <1>4, <1>5, <1>6, <1>9, <1>10, <1>11, UploadStepKeeps

----------------------------------------------------------------------------
\* The steps of a deletion, and the requests that land late: the uploads stay.
RemovalRows == [step : {"rest", "read", "bury", "remove"}, asset : Assets \cup {None},
                ext : Extensions \cup {None}]

\* The objects and the requests of one ad change, and maybe some deletions.
LEMMA BucketStepKeeps ==
  ASSUME CloudInv, NEW b \in Assets, RemovalOnly,
         \A key \in (objects \ objects') \cup (objects' \ objects) : key[1] = b,
         \A request \in (late \ late') \cup (late' \ late) :
           request.op # "put_new" \/ \E key \in request.keys : key[1] = b,
         BucketInv(b)', LifeGoesOn(b), Buried(b) => Buried(b)',
         Upload(b, "done") => Parts(b) \cap objects' \subseteq objects,
         \A request \in late' :
           \/ RequestOf(request, b)'
           \/ request \in late /\ (RequestOf(request, b) => RequestOf(request, b)'),
         removals' \in [Deletions -> RemovalRows],
         \A d \in Deletions : removals'[d] = removals[d] \/ RemovalInv(d)',
         \A a \in deleted' :
           \/ a \in deleted
           \/ a = b /\ Upload(b, "done") /\ Parts(b) \cap objects' = {}
  PROVE  CloudInv' /\ \A a \in Assets : LifeGoesOn(a)
  <1>1. uploads' = uploads /\ clock' = clock
    BY DEF RemovalOnly
  <1>2. \A a \in Assets : a # b => SameView(a)
    BY <1>1, OthersUntouched
  <1>3. TimesInv(b)'
    BY <1>1 DEF CloudInv, TimesInv, Upload
  <1>4. \A a \in Assets : TimesInv(a)' /\ BucketInv(a)' /\ LifeGoesOn(a)
    BY <1>2, <1>3, SameViewKeeps
  <1>5. \A a \in Assets : Buried(a) => Buried(a)'
    BY <1>2, SameViewKeeps
  <1>6. \A request \in late' : \E a \in Assets : RequestOf(request, a)'
    BY <1>2, SameViewKeeps DEF CloudInv
  <1>7. ASSUME NEW d \in Deletions PROVE RemovalInv(d)'
    <2>1. CASE RemovalInv(d)'
      BY <2>1
    <2>2. CASE removals'[d] = removals[d]
      <3>1. RemovalInv(d)
        BY DEF CloudInv
      <3>2. CASE Removal(d, "rest")
        BY <2>2, <3>1, <3>2 DEF RemovalInv, Removal
      <3>3. CASE ~Removal(d, "rest")
        <4>1. PICK a \in Assets : a = removals[d].asset
          BY <3>1, <3>3 DEF RemovalInv
        <4>2. Buried(a) => Buried(a)'
          BY <1>5
        <4> QED
          BY <1>1, <2>2, <3>1, <4>1, <4>2 DEF RemovalInv, Removal, Upload, Buried
      <3> QED
        BY <3>2, <3>3
    <2> QED
      BY <2>1, <2>2
  <1>8. ASSUME NEW a \in deleted'
        PROVE  a \in Assets /\ Upload(a, "done")' /\ Parts(a) \cap objects' = {}
    <2>1. CASE a \in deleted
      <3>1. a \in Assets /\ Upload(a, "done") /\ Parts(a) \cap objects = {}
        BY <2>1 DEF CloudInv, CloudTypeOK
      <3>2. CASE a = b
        BY <1>1, <3>1, <3>2 DEF Upload
      <3>3. CASE a # b
        BY <1>2, <3>1, <3>3, SameViewKeeps
      <3> QED
        BY <3>2, <3>3
    <2>2. CASE a = b /\ Upload(b, "done") /\ Parts(b) \cap objects' = {}
      BY <1>1, <2>2 DEF Upload
    <2> QED
      BY <2>1, <2>2
  <1>9. CloudTypeOK'
    BY <1>1, <1>8 DEF CloudInv, CloudTypeOK, RemovalRows
  <1> QED
    BY <1>4, <1>6, <1>7, <1>8, <1>9 DEF CloudInv, Parts, Key

\* An ad whose upload is done only loses objects, or gets its tombstone; then
\* nothing opens it again.
LEMMA DoneStepKeeps ==
  ASSUME CloudInv, NEW b \in Assets, Upload(b, "done"), RemovalOnly,
         \A key \in (objects \ objects') \cup (objects' \ objects) : key[1] = b,
         \A request \in (late \ late') \cup (late' \ late) : request.op # "put_new",
         Parts(b) \cap objects' \subseteq objects, Buried(b) => Buried(b)',
         Buried(b)' \/ Whole(b) \subseteq objects',
         \A request \in late' : request \in late \/ RequestOf(request, b)',
         removals' \in [Deletions -> RemovalRows],
         \A d \in Deletions : removals'[d] = removals[d] \/ RemovalInv(d)',
         \A a \in deleted' :
           a \in deleted \/ (a = b /\ Parts(b) \cap objects' = {})
  PROVE  CloudInv' /\ \A a \in Assets : LifeGoesOn(a)
  <1>1. uploads' = uploads /\ clock' = clock
    BY DEF RemovalOnly
  <1>2. /\ Upload(b, "done")' /\ Whole(b)' = Whole(b) /\ Parts(b)' = Parts(b)
        /\ ~Upload(b, "new") /\ uploads[b].step \notin Over
    BY <1>1 DEF Upload, Whole, Parts, Key, Over
  <1>3. LatePuts(b) = {}
    BY <1>2, OwnPuts
  <1>4. LatePuts(b)' = {}
    BY <1>2, <1>3 DEF LatePuts
  <1>5. uploads[b].ext \in Extensions /\ Whole(b) \subseteq Parts(b)
    BY <1>2 DEF CloudInv, TimesInv, Whole, Parts
  <1>6. BucketInv(b)'
    <2>1. Parts(b) \cap objects' \subseteq Whole(b)
      BY DEF CloudInv, BucketInv
    <2> QED
      BY <1>2, <1>4, <2>1 DEF BucketInv, Upload
  <1>7. LifeGoesOn(b)
    <2>1. ~MayOpen(b)'
      BY <1>2, <1>4 DEF MayOpen, Upload, LatePuts
    <2>2. Readable(b)' => Readable(b)
      BY <1>1, <1>2, <1>5 DEF Readable
    <2> QED
      BY <2>1, <2>2 DEF LifeGoesOn
  <1>8. ASSUME NEW request, RequestOf(request, b) PROVE RequestOf(request, b)'
    BY <1>1, <1>2, <1>8 DEF RequestOf, Upload, Parts, Key
  <1> QED
    BY <1>6, <1>7, <1>8, BucketStepKeeps

\* A handler of a deletion moves on, or ends; it is at the same ad.
LEMMA StepOfRemoval ==
  ASSUME CloudInv, NEW d \in Deletions,
         NEW step \in {"read", "bury", "remove"}, RemovalGoes(d, step)
  PROVE  /\ removals' \in [Deletions -> RemovalRows]
         /\ removals'[d].step = step /\ removals'[d].asset = removals[d].asset
         /\ removals'[d].ext = removals[d].ext
         /\ \A e \in Deletions : e # d => removals'[e] = removals[e]
  <1>1. removals \in [Deletions -> RemovalRows]
    BY DEF CloudInv, CloudTypeOK, RemovalRows
  <1>2. removals' = [removals EXCEPT ![d] = [removals[d] EXCEPT !.step = step]]
    BY DEF RemovalGoes
  <1> QED
    BY <1>1, <1>2 DEF RemovalRows

LEMMA RemovalRests ==
  ASSUME CloudInv, NEW d \in Deletions, removals' = [removals EXCEPT ![d] = NoRemoval]
  PROVE  /\ removals' \in [Deletions -> RemovalRows]
         /\ \A e \in Deletions : removals'[e] = removals[e] \/ RemovalInv(e)'
  <1>1. removals \in [Deletions -> RemovalRows]
    BY DEF CloudInv, CloudTypeOK, RemovalRows
  <1>2. removals' \in [Deletions -> RemovalRows]
    BY <1>1 DEF RemovalRows, NoRemoval
  <1>3. removals'[d] = NoRemoval /\ \A e \in Deletions : e # d => removals'[e] = removals[e]
    BY <1>1
  <1>4. removals'[d].step = "rest"
    BY <1>3 DEF NoRemoval
  <1>5. RemovalInv(d)'
    BY <1>4 DEF RemovalInv, Removal
  <1> QED
    BY <1>2, <1>3, <1>5

\* The steps of a deletion that send no request.
LEMMA QuietRemovalKeeps ==
  ASSUME CloudInv, NEW d \in Deletions,
         (\E a \in Assets : RemovalBegin(d, a)) \/ ReadMeta(d) \/ RemovalCrash(d)
  PROVE  CloudInv' /\ \A a \in Assets : LifeGoesOn(a)
  <1>1. /\ RemovalOnly /\ objects' = objects /\ late' = late /\ deleted' = deleted
        /\ uploads' = uploads
    BY DEF RemovalBegin, ReadMeta, RemovalCrash, RemovalOnly, storageVars
  <1>2. removals \in [Deletions -> RemovalRows] /\ RemovalInv(d)
    BY DEF CloudInv, CloudTypeOK, RemovalRows
  <1>3. PICK b \in Assets :
          /\ Upload(b, "done") /\ removals' \in [Deletions -> RemovalRows]
          /\ \A e \in Deletions : removals'[e] = removals[e] \/ RemovalInv(e)'
    <2>1. CASE \E a \in Assets : RemovalBegin(d, a)
      <3>1. PICK a \in Assets : RemovalBegin(d, a)
        BY <2>1
      <3>2. /\ Upload(a, "done") /\ Upload(a, "done")'
            /\ removals' = [removals EXCEPT ![d] = [step |-> "read", asset |-> a, ext |-> None]]
        BY <1>1, <3>1 DEF RemovalBegin, HoldsToken, Upload
      <3>3. /\ removals' \in [Deletions -> RemovalRows]
            /\ removals'[d] = [step |-> "read", asset |-> a, ext |-> None]
            /\ \A e \in Deletions : e # d => removals'[e] = removals[e]
        BY <1>2, <3>2 DEF RemovalRows
      <3>4. removals'[d].step = "read" /\ removals'[d].asset = a
        BY <3>3
      <3>5. RemovalInv(d)'
        BY <3>2, <3>4 DEF RemovalInv, Removal
      <3> QED
        BY <3>2, <3>3, <3>5
    <2>2. CASE ReadMeta(d)
      <3>1. PICK a \in Assets : a = removals[d].asset /\ Upload(a, "done")
        BY <1>2, <2>2 DEF ReadMeta, RemovalInv, Removal
      <3>2. uploads[a].ext \in Extensions
        BY <3>1 DEF CloudInv, TimesInv, Upload
      <3>3. PICK ext \in {"png", uploads[a].ext} :
              removals' = [removals EXCEPT ![d].step = "bury", ![d].ext = ext]
        BY <2>2, <3>1 DEF ReadMeta
      <3>4. ext \in Extensions
        BY <3>2 DEF Extensions
      <3>5. /\ removals' \in [Deletions -> RemovalRows]
            /\ removals'[d].step = "bury" /\ removals'[d].asset = a /\ removals'[d].ext = ext
            /\ \A e \in Deletions : e # d => removals'[e] = removals[e]
        BY <1>2, <3>1, <3>3, <3>4 DEF RemovalRows
      <3>6. RemovalInv(d)'
        BY <1>1, <3>1, <3>5 DEF RemovalInv, Removal, Upload
      <3> QED
        BY <3>1, <3>5, <3>6
    <2>3. CASE RemovalCrash(d)
      <3>1. removals' = [removals EXCEPT ![d] = NoRemoval] /\ ~Removal(d, "rest")
        BY <2>3 DEF RemovalCrash
      <3>2. PICK a \in Assets : Upload(a, "done")
        BY <1>2, <3>1 DEF RemovalInv
      <3> QED
        BY <3>1, <3>2, RemovalRests
    <2> QED
      BY <2>1, <2>2, <2>3
  <1>4. Buried(b) \/ Whole(b) \subseteq objects'
    BY <1>1, <1>3 DEF CloudInv, BucketInv
  <1>5. Buried(b)' <=> Buried(b)
    BY <1>1 DEF Buried, Key
  <1> QED
    BY <1>1, <1>3, <1>4, <1>5, DoneStepKeeps

\* The tombstone is put, or the put goes on its way.
LEMMA BuryKeeps ==
  ASSUME CloudInv, NEW d \in Deletions, Bury(d)
  PROVE  CloudInv' /\ \A a \in Assets : LifeGoesOn(a)
  <1>1. RemovalInv(d) /\ Removal(d, "bury") /\ RemovalOnly /\ deleted' = deleted
    BY DEF CloudInv, Bury
  <1>2. PICK b \in Assets : b = removals[d].asset /\ Upload(b, "done")
    BY <1>1 DEF RemovalInv, Removal
  <1> DEFINE tombstone == Key(b, "tombstone")
  <1>3. \/ Succeeds(Put(tombstone)) /\ RemovalGoes(d, "remove")
        \/ Fails(Put(tombstone)) /\ removals' = [removals EXCEPT ![d] = NoRemoval]
    BY <1>2 DEF Bury
  <1>4. /\ Upload(b, "done")' /\ uploads' = uploads
        /\ Buried(b) \/ Whole(b) \subseteq objects
    BY <1>1, <1>2 DEF RemovalOnly, Upload, CloudInv, BucketInv
  <1>5. tombstone[1] = b /\ tombstone \notin Parts(b)
    BY KeysDiffer
  <1>6. CASE Succeeds(Put(tombstone)) /\ RemovalGoes(d, "remove")
    <2>1. objects' = objects \cup {tombstone} /\ late' = late
      BY <1>6, RequestsDiffer DEF Succeeds, Execute
    <2>2. Buried(b)'
      BY <2>1 DEF Buried, Key
    <2>3. /\ removals' \in [Deletions -> RemovalRows]
          /\ removals'[d].step = "remove" /\ removals'[d].asset = b
          /\ removals'[d].ext = removals[d].ext
          /\ \A e \in Deletions : e # d => removals'[e] = removals[e]
      BY <1>2, <1>6, StepOfRemoval
    <2>4. removals[d].ext \in {"png", uploads[b].ext}
      BY <1>1, <1>2 DEF RemovalInv, Removal
    <2>5. RemovalInv(d)'
      BY <1>4, <2>2, <2>3, <2>4 DEF RemovalInv, Removal, Buried, Upload
    <2> QED
      BY <1>1, <1>2, <1>5, <2>1, <2>2, <2>3, <2>5, DoneStepKeeps
  <1>7. CASE Fails(Put(tombstone)) /\ removals' = [removals EXCEPT ![d] = NoRemoval]
    <2>1. objects' = objects /\ (late' = late \/ late' = late \cup {Put(tombstone)})
      BY <1>7, FailedRequest
    <2>2. RequestOf(Put(tombstone), b)'
      BY <1>4 DEF RequestOf, Put, Key
    <2>3. Buried(b)' <=> Buried(b)
      BY <2>1 DEF Buried, Key
    <2>4. \A request \in (late \ late') \cup (late' \ late) : request.op # "put_new"
      BY <2>1, RequestsDiffer
    <2>5. \A request \in late' : request \in late \/ RequestOf(request, b)'
      BY <2>1, <2>2
    <2>6. /\ removals' \in [Deletions -> RemovalRows]
          /\ \A e \in Deletions : removals'[e] = removals[e] \/ RemovalInv(e)'
      BY <1>7, RemovalRests
    <2> QED
      BY <1>1, <1>2, <1>4, <2>1, <2>3, <2>4, <2>5, <2>6, DoneStepKeeps
  <1> QED
    BY <1>3, <1>6, <1>7

\* With the tombstone in place, the one request names everything there is.
LEMMA RemoveObjectsKeeps ==
  ASSUME CloudInv, NEW d \in Deletions, RemoveObjects(d)
  PROVE  CloudInv' /\ \A a \in Assets : LifeGoesOn(a)
  <1>1. /\ RemovalInv(d) /\ Removal(d, "remove") /\ RemovalOnly
        /\ removals' = [removals EXCEPT ![d] = NoRemoval]
    BY DEF CloudInv, RemoveObjects
  <1>2. PICK b \in Assets : b = removals[d].asset /\ Upload(b, "done") /\ Buried(b)
    BY <1>1 DEF RemovalInv, Removal
  <1>3. PICK keys : keys = Removed(b, removals[d].ext)
    OBVIOUS
  <1>4. \/ Succeeds(Remove(keys)) /\ deleted' = deleted \cup {b}
        \/ Fails(Remove(keys)) /\ deleted' = deleted
    BY <1>2, <1>3 DEF RemoveObjects
  <1>5. Upload(b, "done")' /\ uploads' = uploads
    BY <1>1, <1>2 DEF RemovalOnly, Upload
  <1>6. uploads[b].ext \in {"png", "jpg"} /\ removals[d].ext \in {"png", uploads[b].ext}
    BY <1>1, <1>2 DEF CloudInv, TimesInv, RemovalInv, Removal, Upload, Extensions
  <1>7. Whole(b) \subseteq keys /\ keys \subseteq Parts(b)
    BY <1>6, <1>3 DEF Removed, Whole, Parts, Extensions
  <1>8. Key(b, "tombstone") \notin keys /\ \A key \in keys : key[1] = b
    BY <1>7, KeysDiffer
  <1>9. /\ removals' \in [Deletions -> RemovalRows]
        /\ \A e \in Deletions : removals'[e] = removals[e] \/ RemovalInv(e)'
    BY <1>1, RemovalRests
  <1>10. CASE Succeeds(Remove(keys)) /\ deleted' = deleted \cup {b}
    <2>1. objects' = objects \ keys /\ late' = late
      BY <1>10, RequestsDiffer DEF Succeeds, Execute
    <2>2. Buried(b)'
      BY <1>2, <1>8, <2>1 DEF Buried, Key
    <2>3. Parts(b) \cap objects \subseteq Whole(b)
      BY DEF CloudInv, BucketInv
    <2>4. Parts(b) \cap objects' = {}
      BY <1>7, <2>1, <2>3
    <2> QED
      BY <1>1, <1>2, <1>8, <1>9, <1>10, <2>1, <2>2, <2>4, DoneStepKeeps
  <1>11. CASE Fails(Remove(keys)) /\ deleted' = deleted
    <2>1. objects' = objects /\ (late' = late \/ late' = late \cup {Remove(keys)})
      BY <1>11, FailedRequest
    <2>2. Buried(b)'
      BY <1>2, <2>1 DEF Buried, Key
    <2>3. keys \in SUBSET Parts(b)
      BY <1>7
    <2>4. RequestOf(Remove(keys), b)'
      BY <2>2, <2>3 DEF RequestOf, Remove, Parts, Key, Buried
    <2>5. \A request \in (late \ late') \cup (late' \ late) : request.op # "put_new"
      BY <2>1, RequestsDiffer
    <2>6. \A request \in late' : request \in late \/ RequestOf(request, b)'
      BY <2>1, <2>4
    <2> QED
      BY <1>1, <1>2, <1>9, <1>11, <2>1, <2>2, <2>5, <2>6, DoneStepKeeps
  <1> QED
    BY <1>4, <1>10, <1>11

\* A put that lands late lands alone: an ad sends no second one.
LEMMA LatePutKeeps ==
  ASSUME CloudInv, NEW b \in Assets, NEW key \in Whole(b) \ objects,
         uploads[b].step \in Over, PutNew(key) \in late,
         late' = late \ {PutNew(key)}, objects' = objects \cup {key},
         UNCHANGED <<clock, uploads, removals, deleted>>
  PROVE  CloudInv' /\ \A a \in Assets : LifeGoesOn(a)
  <1>1. /\ uploads' = uploads /\ clock' = clock /\ RemovalOnly
        /\ removals' = removals /\ deleted' = deleted
    BY DEF RemovalOnly
  <1>2. /\ ~Upload(b, "new") /\ ~Upload(b, "done") /\ ~Buried(b)
        /\ uploads[b].step \notin {"put_content", "put_meta", "issue"}
        /\ uploads[b].ext \in Extensions
    BY DEF Upload, Over, CloudInv, BucketInv, TimesInv
  <1>3. PutNew(key) \in LatePuts(b)
    BY RequestsDiffer DEF LatePuts
  <1>4. LatePuts(b) = {PutNew(key)}
    BY <1>3 DEF CloudInv, BucketInv
  <1>5. LatePuts(b)' = {} /\ LateKeys(b) = {key}
    <2>1. Whole(b)' = Whole(b)
      BY <1>1 DEF Whole, Key
    <2>2. LatePuts(b)' = {}
      BY <1>4, <2>1 DEF LatePuts
    <2> QED
      BY <1>4, <2>2, RequestsDiffer DEF LateKeys
  <1>6. Whole(b)' = Whole(b) /\ Parts(b)' = Parts(b) /\ Whole(b) \subseteq Parts(b)
    BY <1>1, <1>2 DEF Whole, Parts, Key
  <1>7. ~Buried(b)'
    <2>1. Key(b, "tombstone") # key
      BY <1>6, KeysDiffer
    <2> QED
      BY <1>2, <2>1 DEF Buried, Key
  <1>8. Upload(b, "failed") => ~(Whole(b) \subseteq objects')
    BY <1>5 DEF CloudInv, BucketInv
  <1>9. BucketInv(b)'
    <2>1. Parts(b) \cap objects' \subseteq Whole(b)
      BY DEF CloudInv, BucketInv
    <2>2. LateKeys(b)' = {}
      BY <1>5 DEF LateKeys
    <2> QED
      BY <1>1, <1>2, <1>5, <1>6, <1>7, <1>8, <2>1, <2>2 DEF BucketInv, Upload
  <1>10. LifeGoesOn(b)
    <2>1. ~MayOpen(b)'
      BY <1>1, <1>2, <1>5 DEF MayOpen, Upload, LatePuts
    <2>2. Readable(b)' => MayOpen(b)
      BY <1>1, <1>3, <1>6, <1>8 DEF Readable, MayOpen, Upload, LatePuts
    <2> QED
      BY <2>1, <2>2 DEF LifeGoesOn
  <1>11. ASSUME NEW request \in late', RequestOf(request, b) PROVE RequestOf(request, b)'
    <2>1. request \notin LatePuts(b)
      BY <1>4
    <2>2. ~\E k \in Whole(b) \ objects : request = PutNew(k)
      <3>1. SUFFICES ASSUME NEW k \in Whole(b), request = PutNew(k) PROVE FALSE
        OBVIOUS
      <3>2. request.op = "put_new" /\ request.keys \subseteq Whole(b)
        BY <3>1, RequestsDiffer
      <3> QED
        BY <2>1, <3>2 DEF LatePuts
    <2>3. Upload(b, "abandoned") /\ \E keys \in SUBSET Parts(b) : request = Remove(keys)
      BY <1>2, <1>11, <2>2 DEF RequestOf
    <2> QED
      BY <1>1, <2>3 DEF RequestOf, Upload, Parts, Key
  <1>12. key[1] = b
    BY KeysDiffer
  <1>13. /\ \A k \in (objects \ objects') \cup (objects' \ objects) : k[1] = b
         /\ \A request \in (late \ late') \cup (late' \ late) :
              \E k \in request.keys : k[1] = b
    BY <1>12, RequestsDiffer
  <1>14. removals' \in [Deletions -> RemovalRows]
    BY <1>1 DEF CloudInv, CloudTypeOK, RemovalRows
  <1> QED
    BY <1>1, <1>2, <1>9, <1>10, <1>11, <1>13, <1>14, BucketStepKeeps

\* A tombstone that lands late finds its ad uploaded.
LEMMA LateTombstoneKeeps ==
  ASSUME CloudInv, NEW b \in Assets, Upload(b, "done"),
         late' = late \ {Put(Key(b, "tombstone"))},
         objects' = objects \cup {Key(b, "tombstone")},
         UNCHANGED <<clock, uploads, removals, deleted>>
  PROVE  CloudInv' /\ \A a \in Assets : LifeGoesOn(a)
  <1>1. /\ RemovalOnly /\ deleted' = deleted /\ removals' = removals
        /\ removals' \in [Deletions -> RemovalRows]
    BY DEF RemovalOnly, CloudInv, CloudTypeOK, RemovalRows
  <1>2. Key(b, "tombstone")[1] = b /\ Key(b, "tombstone") \notin Parts(b)
    BY KeysDiffer
  <1>3. Buried(b)'
    BY DEF Buried, Key
  <1>4. \A request \in (late \ late') \cup (late' \ late) : request.op # "put_new"
    BY RequestsDiffer
  <1> QED
    BY <1>1, <1>2, <1>3, <1>4, DoneStepKeeps

\* A delete that lands late is of an ad that is closed, or whose upload was
\* given up: then at most one put is left, and that one cannot complete it.
LEMMA LateRemoveKeeps ==
  ASSUME CloudInv, NEW b \in Assets, NEW keys \in SUBSET Parts(b),
         Upload(b, "abandoned") \/ Buried(b),
         late' = late \ {Remove(keys)}, objects' = objects \ keys,
         UNCHANGED <<clock, uploads, removals, deleted>>
  PROVE  CloudInv' /\ \A a \in Assets : LifeGoesOn(a)
  <1>1. /\ RemovalOnly /\ deleted' = deleted /\ removals' = removals
        /\ removals' \in [Deletions -> RemovalRows]
        /\ uploads' = uploads /\ clock' = clock
    BY DEF RemovalOnly, CloudInv, CloudTypeOK, RemovalRows
  <1>2. \A key \in keys \cup Parts(b) : key[1] = b /\ key # Key(b, "tombstone")
    BY KeysDiffer
  <1>3. Buried(b)' <=> Buried(b)
    BY <1>2 DEF Buried, Key
  <1>4. /\ \A request \in (late \ late') \cup (late' \ late) : request.op # "put_new"
        /\ \A key \in (objects \ objects') \cup (objects' \ objects) : key[1] = b
    BY <1>2, RequestsDiffer
  <1>5. CASE Buried(b)
    <2>1. Upload(b, "done")
      BY <1>5 DEF CloudInv, BucketInv
    <2> QED
      BY <1>1, <1>3, <1>4, <1>5, <2>1, DoneStepKeeps
  <1>6. CASE Upload(b, "abandoned")
    <2>1. /\ Whole(b)' = Whole(b) /\ Parts(b)' = Parts(b)
          /\ \A step : Upload(b, step)' <=> Upload(b, step)
          /\ uploads[b].step = "abandoned" /\ ~Upload(b, "new") /\ ~Upload(b, "done")
      BY <1>1, <1>6 DEF Whole, Parts, Key, Upload
    <2>2. LatePuts(b)' = LatePuts(b)
      BY <1>4, <2>1 DEF LatePuts
    <2>3. BucketInv(b)'
      BY <1>1, <1>3, <2>1, <2>2 DEF BucketInv, Upload, CloudInv
    <2>4. LifeGoesOn(b)
      <3>1. Readable(b) => LatePuts(b) = {}
        BY OwnPuts DEF Readable
      <3>2. MayOpen(b)' <=> MayOpen(b)
        BY <1>1, <2>1, <2>2 DEF MayOpen, LatePuts, Upload
      <3>3. Readable(b)' => Readable(b)
        BY <1>1, <1>3, <2>1 DEF Readable
      <3>4. LatePuts(b) = {} => ~MayOpen(b)
        BY <2>1 DEF MayOpen, LatePuts, Upload
      <3> QED
        BY <3>1, <3>2, <3>3, <3>4 DEF LifeGoesOn
    <2>5. \A request : RequestOf(request, b) => RequestOf(request, b)'
      BY <1>1, <2>1 DEF RequestOf, Over, Upload, Parts, Key
    <2> QED
      BY <1>1, <1>3, <1>4, <2>1, <2>3, <2>4, <2>5, BucketStepKeeps
  <1> QED
    BY <1>5, <1>6

LEMMA LateRequestKeeps ==
  ASSUME CloudInv, LateRequest
  PROVE  CloudInv' /\ \A a \in Assets : LifeGoesOn(a)
  <1>1. PICK request \in late :
          /\ late' = late \ {request}
          /\ IF Refused(request) THEN UNCHANGED objects ELSE Execute(request)
          /\ UNCHANGED <<clock, uploads, removals, deleted>>
    BY DEF LateRequest, Land
  <1>2. PICK b \in Assets : RequestOf(request, b)
    BY DEF CloudInv
  <1>3. CASE \E key \in Whole(b) \ objects : request = PutNew(key) /\ uploads[b].step \in Over
    <2>1. PICK key \in Whole(b) \ objects : request = PutNew(key) /\ uploads[b].step \in Over
      BY <1>3
    <2>2. ~Refused(request) /\ objects' = objects \cup {key}
      BY <1>1, <2>1, RequestsDiffer DEF Refused, Execute
    <2> QED
      BY <1>1, <2>1, <2>2, LatePutKeeps
  <1>4. CASE request = Put(Key(b, "tombstone")) /\ Upload(b, "done")
    <2>1. ~Refused(request) /\ objects' = objects \cup {Key(b, "tombstone")}
      BY <1>1, <1>4, RequestsDiffer DEF Refused, Execute
    <2> QED
      BY <1>1, <1>4, <2>1, LateTombstoneKeeps
  <1>5. CASE \E keys \in SUBSET Parts(b) : request = Remove(keys)
             /\ (Upload(b, "abandoned") \/ Buried(b))
    <2>1. PICK keys \in SUBSET Parts(b) : request = Remove(keys)
      BY <1>5
    <2>2. ~Refused(request) /\ objects' = objects \ keys
      BY <1>1, <2>1, RequestsDiffer DEF Refused, Execute
    <2> QED
      BY <1>1, <1>5, <2>1, <2>2, LateRemoveKeeps
  <1> QED
    BY <1>2, <1>3, <1>4, <1>5 DEF RequestOf

\* Time closes ads, and opens none.
LEMMA TickKeeps ==
  ASSUME CloudInv, Tick
  PROVE  CloudInv' /\ \A a \in Assets : LifeGoesOn(a)
  <1>1. /\ clock \in Nat /\ clock' = clock + 1 /\ objects' = objects /\ late' = late
        /\ uploads' = uploads /\ removals' = removals /\ deleted' = deleted
    BY DEF Tick, CloudInv, CloudTypeOK, storageVars
  <1>2. ASSUME NEW a \in Assets PROVE TimesInv(a)' /\ BucketInv(a)' /\ LifeGoesOn(a)
    <2>1. uploads[a].created \in Nat /\ uploads[a].issued \in Nat
      BY DEF CloudInv, CloudTypeOK
    <2>2. TimesInv(a)'
      BY <1>1, <2>1 DEF CloudInv, TimesInv, Upload
    <2>3. /\ Whole(a)' = Whole(a) /\ Parts(a)' = Parts(a) /\ (Buried(a)' <=> Buried(a))
          /\ LatePuts(a)' = LatePuts(a) /\ LateKeys(a)' = LateKeys(a)
          /\ \A step : Upload(a, step)' <=> Upload(a, step)
      BY <1>1 DEF Whole, Parts, Buried, LatePuts, LateKeys, Key, Upload
    <2>4. BucketInv(a)'
      BY <1>1, <2>3 DEF CloudInv, BucketInv, Key
    <2>5. /\ clock' < uploads[a].created + TTL => clock < uploads[a].created + TTL
          /\ uploads'[a].created = uploads[a].created
      BY <1>1, <2>1, TTLAssumption
    <2>6. Readable(a)' => Readable(a)
      BY <1>1, <2>3, <2>5 DEF Readable
    <2>7. MayOpen(a)' => MayOpen(a)
      BY <1>1, <2>3, <2>5 DEF MayOpen
    <2>8. Readable(a) => Readable(a)' \/ ~MayOpen(a)'
      <3> SUFFICES ASSUME Readable(a), ~Readable(a)' PROVE ~MayOpen(a)'
        OBVIOUS
      <3>1. ~(clock' < uploads'[a].created + TTL) /\ ~Upload(a, "new")
        BY <1>1, <2>3 DEF Readable
      <3> QED
        BY <3>1, <2>3 DEF MayOpen
    <2> QED
      BY <2>2, <2>4, <2>6, <2>7, <2>8 DEF LifeGoesOn
  <1>3. \A request, a : RequestOf(request, a)' <=> RequestOf(request, a)
    BY <1>1 DEF RequestOf, Whole, Parts, Buried, Key, Upload
  <1>4. \A d \in Deletions : RemovalInv(d)' <=> RemovalInv(d)
    BY <1>1 DEF RemovalInv, Removal, Upload, Buried
  <1>5. CloudTypeOK'
    BY <1>1 DEF CloudInv, CloudTypeOK
  <1> QED
    BY <1>1, <1>2, <1>3, <1>4, <1>5 DEF CloudInv, Upload, Parts, Key

----------------------------------------------------------------------------
LEMMA CloudBegins == CloudInit => CloudInv
  <1> SUFFICES ASSUME CloudInit PROVE CloudInv
    OBVIOUS
  <1>1. /\ clock = 0 /\ objects = {} /\ late = {} /\ deleted = {}
        /\ uploads = [a \in Assets |-> NoUpload]
        /\ removals = [d \in Deletions |-> NoRemoval]
    BY DEF CloudInit, StorageInit
  <1>2. CloudTypeOK
    BY <1>1 DEF CloudTypeOK, NoUpload, NoRemoval, UploadSteps
  <1>3. ASSUME NEW a \in Assets PROVE TimesInv(a) /\ BucketInv(a)
    <2>1. uploads[a].step = "new" /\ uploads[a].created = 0
      BY <1>1 DEF NoUpload
    <2>2. LatePuts(a) = {} /\ ~Buried(a) /\ Parts(a) \cap objects = {}
      BY <1>1 DEF LatePuts, Buried
    <2> QED
      BY <1>1, <2>1, <2>2 DEF TimesInv, BucketInv, Upload
  <1>4. ASSUME NEW d \in Deletions PROVE RemovalInv(d)
    BY <1>1 DEF RemovalInv, Removal, NoRemoval
  <1> QED
    BY <1>1, <1>2, <1>3, <1>4 DEF CloudInv

LEMMA CloudStepKeeps ==
  ASSUME CloudInv, [CloudNext]_cloudVars
  PROVE  CloudInv' /\ \A a \in Assets : LifeGoesOn(a)
  <1>1. CASE UNCHANGED cloudVars
    <2>1. /\ clock' = clock /\ objects' = objects /\ late' = late
          /\ uploads' = uploads /\ removals' = removals /\ deleted' = deleted
      BY <1>1 DEF cloudVars
    <2>2. \A a \in Assets : SameView(a)
      BY <2>1 DEF SameView, LatePuts, Whole, Key
    <2>3. \A request, a : RequestOf(request, a)' <=> RequestOf(request, a)
      BY <2>1 DEF RequestOf, Whole, Parts, Buried, Key, Upload
    <2>4. \A d \in Deletions : RemovalInv(d)' <=> RemovalInv(d)
      BY <2>1 DEF RemovalInv, Removal, Upload, Buried
    <2>5. CloudTypeOK'
      BY <2>1 DEF CloudInv, CloudTypeOK
    <2> QED
      BY <2>1, <2>2, <2>3, <2>4, <2>5, SameViewKeeps DEF CloudInv, Upload, Parts, Key
  <1>2. CASE \E a \in Assets :
               \/ UploadBegin(a) \/ PutContent(a) \/ PutMeta(a) \/ Undo(a) \/ IssueToken(a)
               \/ UploadCrash(a)
    BY <1>2, UploadBeginKeeps, UploadPutsKeep, UndoKeeps, UploadEndKeeps
  <1>3. CASE \E d \in Deletions :
               \/ \E a \in Assets : RemovalBegin(d, a)
               \/ ReadMeta(d) \/ Bury(d) \/ RemoveObjects(d) \/ RemovalCrash(d)
    BY <1>3, QuietRemovalKeeps, BuryKeeps, RemoveObjectsKeeps
  <1>4. CASE LateRequest \/ Tick
    BY <1>4, LateRequestKeeps, TickKeeps
  <1> QED
    BY <1>1, <1>2, <1>3, <1>4 DEF CloudNext

\* The invariant of the bucket, for any number of ads, of deletions at work and
\* of requests still under way, whatever fails and whatever lands late.
THEOREM CloudInvariantHolds == CloudSpec => []CloudInv
  <1>1. CloudInv /\ [CloudNext]_cloudVars => CloudInv'
    BY CloudStepKeeps
  <1> QED
    BY CloudBegins, <1>1, PTL DEF CloudSpec

\* After an acknowledged deletion nothing of the ad is in the bucket, now or
\* later: the tombstone keeps the ad closed, and no put of it is under way
\* (CloudAssetStore.delete).
THEOREM DeletedAdsAreGone == CloudSpec => []CloudDeletionComplete
  <1>1. CloudInv => CloudDeletionComplete
    BY DEF CloudInv, CloudDeletionComplete
  <1> QED
    BY CloudInvariantHolds, <1>1, PTL

\* A stored ad has both its objects, or its tombstone (store, delete).
THEOREM AdsAreClosedOrWhole == CloudSpec => []ClosedOrWhole
  <1>1. CloudInv => ClosedOrWhole
    BY DEF CloudInv, BucketInv, ClosedOrWhole
  <1> QED
    BY CloudInvariantHolds, <1>1, PTL

\* The capability to delete an ad is good while the ad can be read, but for the
\* last second, and never longer than a day (upload_asset: the ad is stored
\* before the token is issued; capability_tokens.py truncates both times).
THEOREM CapabilitiesCover == CloudSpec => []CapabilitiesCoverAds
  <1>1. ASSUME CloudInv PROVE CapabilitiesCoverAds
    <2> SUFFICES ASSUME NEW a \in Assets, HoldsToken(a)
                 PROVE  /\ clock + Second <= uploads[a].created + TTL => TokenAccepted(a)
                        /\ TokenAccepted(a) => clock < uploads[a].issued + TTL
      BY DEF CapabilitiesCoverAds
    <2>1. /\ clock \in Nat /\ uploads[a].created \in Nat /\ uploads[a].issued \in Nat
          /\ uploads[a].created <= uploads[a].issued
      BY <1>1 DEF CloudInv, CloudTypeOK, TimesInv, HoldsToken
    <2>2. TTL \in Nat /\ Second \in Nat
      BY TTLAssumption, SecondAssumption
    <2>3. /\ TokenAccepted(a) => clock < uploads[a].issued + TTL
          /\ clock + Second <= uploads[a].issued + TTL => TokenAccepted(a)
      BY <2>1, <2>2, TokenTimes DEF TokenAccepted
    <2>4. clock + Second <= uploads[a].created + TTL => clock + Second <= uploads[a].issued + TTL
      BY <2>1, <2>2
    <2> QED
      BY <2>3, <2>4
  <1> QED
    BY CloudInvariantHolds, <1>1, PTL

\* An ad in a bucket implements the life of an item, whatever lands late: read
\* again after it was closed, it never is (CloudAssetStore.load).
THEOREM AdsImplementLifecycle == CloudSpec => AdsImplementItemLifecycle
  <1>1. ASSUME CloudInit, NEW a \in Assets PROVE Item(a)!LifecycleInit
    <2>1. Upload(a, "new")
      BY <1>1 DEF CloudInit, NoUpload, Upload
    <2> QED
      BY <2>1 DEF Item!LifecycleInit, Life, Readable, MayOpen
  <1>2. ASSUME CloudInv, [CloudNext]_cloudVars, NEW a \in Assets
        PROVE  [Item(a)!LifecycleNext]_(Life(a))
    <2>1. LifeGoesOn(a)
      BY <1>2, CloudStepKeeps
    <2>2. Life(a) = IF Readable(a) THEN "open" ELSE IF MayOpen(a) THEN "new" ELSE "closed"
      BY DEF Life
    <2>3. Life(a)' = IF Readable(a)' THEN "open" ELSE IF MayOpen(a)' THEN "new" ELSE "closed"
      BY DEF Life
    <2>4. \/ Life(a)' = Life(a)
          \/ Life(a) = "new" /\ Life(a)' = "open"
          \/ Life(a) \in {"new", "open"} /\ Life(a)' = "closed"
      BY <2>1, <2>2, <2>3 DEF LifeGoesOn
    <2> QED
      BY <2>4 DEF Item!LifecycleNext, Item!Open, Item!Close
  <1>3. CloudInv /\ [CloudNext]_cloudVars
          => [\A a \in Assets : [Item(a)!LifecycleNext]_(Life(a))]_cloudVars
    BY <1>2
  <1>4. CloudInit => \A a \in Assets : Item(a)!LifecycleInit
    BY <1>1
  <1> QED
    BY CloudInvariantHolds, <1>3, <1>4, PTL DEF CloudSpec, AdsImplementItemLifecycle

-----------------------------------------------------------------------------
(***************************************************************************)
(* Composed pictures, on a disk and in a bucket.  The invariant says for   *)
(* every step of a save what is stored of the picture; in a bucket it also *)
(* counts the puts that may still land.                                    *)
(***************************************************************************)
PictureSteps == {"new", "save_png_part", "save_json_part", "save_png", "save_json",
                 "saved", "clean", "unsaved", "discard", "discard_json",
                 "referenced", "discarded", "failed"}
PictureRows == [step : PictureSteps, revision : BOOLEAN,
                remaining : SUBSET (Pictures \X {"png", "json", "png.part", "json.part"}),
                row : BOOLEAN, raised : BOOLEAN]
\* A save that will send no further put.
PictureOver == {"unsaved", "discard", "discarded", "failed"}

PictureTypeOK ==
  /\ deployment \in {"files", "objects"}
  /\ saves \in [Pictures -> PictureRows]

\* The puts of a picture that were reported failed and are still to land.
LatePictures(p) == {request \in late : request.op = "put_new" /\ request.keys \subseteq Picture(p)}
LatePictureKeys(p) == UNION {request.keys : request \in LatePictures(p)}

SavedInv(p) ==
  /\ saves[p].step \in {"new", "save_png_part", "save_json_part", "save_png"} =>
       Picture(p) \cap objects = {}
  /\ At(p, "save_json") => Picture(p) \cap objects = {<<p, "png">>}
  /\ saves[p].step \in {"saved", "referenced"} => Loadable(p)
  /\ saves[p].step \in {"clean", "discarded"} =>
       ~(Picture(p) \subseteq objects \cup LatePictureKeys(p))
  /\ At(p, "discard_json") => ~Loadable(p)
  /\ \A one, other \in LatePictures(p) : one = other

\* What a request under way may be, and of which picture.
PictureRequestOf(request, p) ==
  \/ /\ \E key \in Picture(p) \ objects : request = PutNew(key)
     /\ saves[p].step \in PictureOver
  \/ request = Remove(Picture(p)) /\ At(p, "failed")

PictureInv ==
  /\ PictureTypeOK
  /\ deployment = "files" => late = {}
  /\ \A p \in Pictures : SavedInv(p)
  /\ \A request \in late : \E p \in Pictures : PictureRequestOf(request, p)

\* A picture's life goes on, or stays where it is.
PictureGoesOn(p) ==
  /\ Loadable(p) => Loadable(p)' \/ ~MayLoad(p)'
  /\ ~Loadable(p) /\ ~MayLoad(p) => ~Loadable(p)' /\ ~MayLoad(p)'

LEMMA PictureKeys ==
  \A p : /\ \A key \in Picture(p) \cup Partial(p) : key[1] = p
         /\ <<p, "png">> # <<p, "json">> /\ Picture(p) = {<<p, "png">>, <<p, "json">>}
         /\ Picture(p) \cap Partial(p) = {}
  BY DEF Picture, Partial

\* The puts under way for a picture are requests of its own save.
LEMMA OwnPictures ==
  ASSUME PictureInv, NEW p \in Pictures, NEW request \in LatePictures(p)
  PROVE  /\ saves[p].step \in PictureOver
         /\ \E key \in Picture(p) \ objects : request = PutNew(key)
  <1>1. PICK q \in Pictures : PictureRequestOf(request, q)
    BY DEF PictureInv, LatePictures
  <1>2. PICK key \in Picture(q) \ objects : request = PutNew(key) /\ saves[q].step \in PictureOver
    BY <1>1, RequestsDiffer DEF PictureRequestOf, LatePictures
  <1>3. key \in Picture(p)
    BY <1>2, RequestsDiffer DEF LatePictures
  <1>4. p = q
    BY <1>2, <1>3, PictureKeys
  <1> QED
    BY <1>2, <1>4

\* Before its first failure a save has nothing under way.
LEMMA NoPictureUnderWay ==
  ASSUME PictureInv, NEW p \in Pictures, saves[p].step \notin PictureOver
  PROVE  LatePictures(p) = {} /\ \A request : ~PictureRequestOf(request, p)
  BY OwnPictures DEF PictureRequestOf, PictureOver, At

\* A step about one picture leaves the others.
LEMMA PictureStepKeeps ==
  ASSUME PictureInv, NEW q \in Pictures, deployment' = deployment,
         saves' \in [Pictures -> PictureRows],
         \A p \in Pictures : p # q => saves'[p] = saves[p],
         \A key \in (objects \ objects') \cup (objects' \ objects) : key[1] = q,
         \A request \in (late \ late') \cup (late' \ late) :
           request.op # "put_new" \/ \E key \in request.keys : key[1] = q,
         deployment = "files" => late' = {},
         SavedInv(q)', PictureGoesOn(q),
         \A request \in late' :
           \/ PictureRequestOf(request, q)'
           \/ request \in late /\ (PictureRequestOf(request, q) => PictureRequestOf(request, q)')
  PROVE  PictureInv' /\ \A p \in Pictures : PictureGoesOn(p)
  <1>1. ASSUME NEW p \in Pictures, p # q
        PROVE  /\ SavedInv(p)' /\ PictureGoesOn(p)
               /\ \A request : PictureRequestOf(request, p) => PictureRequestOf(request, p)'
    <2>1. saves'[p] = saves[p] /\ \A step : At(p, step)' <=> At(p, step)
      BY <1>1 DEF At
    <2>2. Picture(p) \cap objects' = Picture(p) \cap objects
      BY <1>1, PictureKeys
    <2>3. LatePictures(p)' = LatePictures(p)
      <3>1. ASSUME NEW request, request.op = "put_new", request.keys \subseteq Picture(p)
            PROVE  request \in late' <=> request \in late
        <4>1. \A key \in request.keys : key[1] = p
          BY <3>1, PictureKeys
        <4> QED
          BY <1>1, <3>1, <4>1
      <3> QED
        BY <3>1 DEF LatePictures
    <2>4. LatePictureKeys(p)' = LatePictureKeys(p)
      BY <2>3 DEF LatePictureKeys
    <2>5. Loadable(p)' <=> Loadable(p)
      BY <2>2 DEF Loadable
    <2>6. SavedInv(p)'
      BY <2>1, <2>2, <2>3, <2>4, <2>5 DEF PictureInv, SavedInv
    <2>7. MayLoad(p)' <=> MayLoad(p)
      BY <2>1, <2>3 DEF MayLoad, LatePictures
    <2>8. PictureGoesOn(p)
      BY <2>5, <2>7 DEF PictureGoesOn
    <2>9. \A request : PictureRequestOf(request, p) => PictureRequestOf(request, p)'
      BY <2>1, <2>2 DEF PictureRequestOf
    <2> QED
      BY <2>6, <2>8, <2>9
  <1>2. \A p \in Pictures : SavedInv(p)' /\ PictureGoesOn(p)
    BY <1>1
  <1>3. \A request \in late' : \E p \in Pictures : PictureRequestOf(request, p)'
    BY <1>1 DEF PictureInv
  <1>4. PictureTypeOK'
    BY DEF PictureInv, PictureTypeOK
  <1> QED
    BY <1>2, <1>3, <1>4 DEF PictureInv

LEMMA StepOfPicture ==
  ASSUME PictureInv, NEW q \in Pictures, NEW step \in PictureSteps, Goto(q, step)
  PROVE  /\ saves' \in [Pictures -> PictureRows] /\ saves'[q].step = step
         /\ deployment' = deployment
         /\ \A p \in Pictures : p # q => saves'[p] = saves[p]
  <1> DEFINE after == [saves[q] EXCEPT !.step = step, !.remaining = {}]
  <1>1. saves' = [saves EXCEPT ![q] = after] /\ deployment' = deployment
    BY DEF Goto
  <1>2. after \in PictureRows /\ after.step = step /\ saves \in [Pictures -> PictureRows]
    BY DEF PictureInv, PictureTypeOK, PictureRows
  <1> HIDE DEF after
  <1> QED
    BY <1>1, <1>2

\* A step that sends no request and opens nothing leaves, at most, fewer files.
LEMMA QuietPictureKeeps ==
  ASSUME PictureInv, NEW q \in Pictures, late' = late, deployment' = deployment,
         saves' \in [Pictures -> PictureRows],
         \A p \in Pictures : p # q => saves'[p] = saves[p],
         \A key \in (objects \ objects') \cup (objects' \ objects) : key[1] = q,
         SavedInv(q)', PictureGoesOn(q),
         \A request \in late : PictureRequestOf(request, q) => PictureRequestOf(request, q)'
  PROVE  PictureInv' /\ \A p \in Pictures : PictureGoesOn(p)
  <1>1. \A request \in (late \ late') \cup (late' \ late) :
          request.op # "put_new" \/ \E key \in request.keys : key[1] = q
    OBVIOUS
  <1>2. deployment = "files" => late' = {}
    BY DEF PictureInv
  <1> QED
    BY <1>1, <1>2, PictureStepKeeps

-----------------------------------------------------------------------------
\* The steps of a save and of a clean-up on a disk.
SaveSteps == {"save_png_part", "save_json_part", "save_png", "save_json"}

LEMMA SaveBeginKeeps ==
  ASSUME PictureInv, NEW q \in Pictures, SaveBegin(q)
  PROVE  PictureInv' /\ \A p \in Pictures : PictureGoesOn(p)
  <1>1. /\ saves[q].step = "new" /\ objects' = objects /\ late' = late
        /\ deployment' = deployment
        /\ saves[q] \in PictureRows /\ saves \in [Pictures -> PictureRows]
    BY DEF SaveBegin, At, storageVars, PictureInv, PictureTypeOK
  <1>2. PICK step \in {"save_png_part", "save_png"}, revision \in BOOLEAN :
          saves' = [saves EXCEPT ![q].step = step, ![q].revision = revision]
    BY DEF SaveBegin
  <1>3. /\ saves' \in [Pictures -> PictureRows] /\ saves'[q].step = step
        /\ \A p \in Pictures : p # q => saves'[p] = saves[p]
    BY <1>1, <1>2 DEF PictureRows, PictureSteps
  <1>4. Picture(q) \cap objects = {} /\ LatePictures(q) = {}
    BY <1>1, NoPictureUnderWay DEF PictureInv, SavedInv, PictureOver
  <1>5. LatePictures(q)' = {}
    BY <1>1, <1>4 DEF LatePictures
  <1>6. SavedInv(q)'
    BY <1>1, <1>3, <1>4, <1>5 DEF SavedInv, At
  <1>7. PictureGoesOn(q)
    BY <1>1, <1>4 DEF PictureGoesOn, Loadable, MayLoad, Picture
  <1>8. \A request : ~PictureRequestOf(request, q)
    BY <1>1, NoPictureUnderWay DEF PictureOver
  <1> QED
    BY <1>1, <1>3, <1>6, <1>7, <1>8, QuietPictureKeeps

LEMMA FileStepKeeps ==
  ASSUME PictureInv, NEW q \in Pictures,
         SavePngPart(q) \/ SaveJsonPart(q) \/ ReplacePng(q) \/ ReplaceJson(q)
  PROVE  PictureInv' /\ \A p \in Pictures : PictureGoesOn(p)
  <1>1. /\ deployment = "files" /\ late = {} /\ late' = late /\ deployment' = deployment
        /\ saves[q].step \in SaveSteps
        /\ saves[q] \in PictureRows /\ saves \in [Pictures -> PictureRows]
    <2>1. /\ deployment = "files" /\ late' = late /\ deployment' = deployment
          /\ saves[q].step \in SaveSteps
      <3>1. ASSUME NEW from \in SaveSteps, NEW removed, NEW added, NEW to,
                   FileStep(q, from, removed, added, to)
            PROVE  /\ deployment = "files" /\ late' = late /\ deployment' = deployment
                   /\ saves[q].step \in SaveSteps
        BY <3>1 DEF FileStep, At, Goto
      <3> QED
        BY <3>1 DEF SavePngPart, SaveJsonPart, ReplacePng, ReplaceJson, SaveSteps
    <2> QED
      BY <2>1 DEF PictureInv, PictureTypeOK
  <1>2. LatePictures(q)' = {} /\ LatePictureKeys(q)' = {}
    BY <1>1 DEF LatePictures, LatePictureKeys
  <1>3. ~Loadable(q) /\ MayLoad(q)
    <2>1. <<q, "json">> \in Picture(q) /\ <<q, "png">> # <<q, "json">>
      BY PictureKeys
    <2>2. Picture(q) \cap objects = {} \/ Picture(q) \cap objects = {<<q, "png">>}
      BY <1>1 DEF PictureInv, SavedInv, SaveSteps, At
    <2>3. ~Loadable(q)
      BY <2>1, <2>2 DEF Loadable
    <2> QED
      BY <1>1, <2>3 DEF SaveSteps, MayLoad
  <1>4. PictureGoesOn(q)
    BY <1>3 DEF PictureGoesOn
  <1>5. \A request \in late : FALSE
    BY <1>1
  <1>6. CASE /\ objects' = objects
             /\ saves' = [saves EXCEPT ![q].step = "clean",
                                       ![q].remaining = Picture(q) \cup Partial(q)]
    <2>1. Picture(q) \cup Partial(q)
            \in SUBSET (Pictures \X {"png", "json", "png.part", "json.part"})
      BY DEF Picture, Partial
    <2>2. /\ saves' \in [Pictures -> PictureRows] /\ saves'[q].step = "clean"
          /\ \A p \in Pictures : p # q => saves'[p] = saves[p]
      BY <1>1, <1>6, <2>1 DEF PictureRows, PictureSteps
    <2>3. SavedInv(q)'
      BY <1>2, <1>3, <1>6, <2>2 DEF SavedInv, At, Loadable
    <2> QED
      BY <1>1, <1>4, <1>5, <1>6, <2>2, <2>3, QuietPictureKeeps
  <1>7. ASSUME NEW to \in PictureSteps, Goto(q, to),
               NEW removed \in SUBSET (Picture(q) \cup Partial(q)),
               NEW added \in SUBSET (Picture(q) \cup Partial(q)),
               objects' = (objects \ removed) \cup added,
               \/ to \in {"save_json_part", "save_png"} /\ Picture(q) \cap objects' = {}
               \/ to = "save_json" /\ Picture(q) \cap objects' = {<<q, "png">>}
               \/ to = "saved" /\ Picture(q) \subseteq objects'
        PROVE  PictureInv' /\ \A p \in Pictures : PictureGoesOn(p)
    <2>1. /\ saves' \in [Pictures -> PictureRows] /\ saves'[q].step = to
          /\ \A p \in Pictures : p # q => saves'[p] = saves[p]
      BY <1>7, StepOfPicture
    <2>2. SavedInv(q)'
      BY <1>2, <1>7, <2>1 DEF SavedInv, At, Loadable
    <2>3. \A key \in (objects \ objects') \cup (objects' \ objects) : key[1] = q
      BY <1>7, PictureKeys
    <2> QED
      BY <1>1, <1>4, <1>5, <2>1, <2>2, <2>3, QuietPictureKeeps
  <1>8. CASE SavePngPart(q) \/ SaveJsonPart(q)
    <2>1. PICK added \in {{<<q, "png.part">>}, {<<q, "json.part">>}},
               to \in {"save_json_part", "save_png"} :
            \/ objects' = (objects \ {}) \cup added /\ Goto(q, to)
            \/ /\ objects' = objects
               /\ saves' = [saves EXCEPT ![q].step = "clean",
                                         ![q].remaining = Picture(q) \cup Partial(q)]
      BY <1>8 DEF SavePngPart, SaveJsonPart, FileStep
    <2>2. added \in SUBSET (Picture(q) \cup Partial(q)) /\ added \cap Picture(q) = {}
      BY DEF Picture, Partial
    <2>3. Picture(q) \cap objects = {}
      BY <1>8 DEF SavePngPart, SaveJsonPart, FileStep, At, PictureInv, SavedInv
    <2>4. {} \in SUBSET (Picture(q) \cup Partial(q)) /\ to \in PictureSteps
      BY DEF PictureSteps
    <2> QED
      BY <1>6, <1>7, <2>1, <2>2, <2>3, <2>4
  <1>9. CASE ReplacePng(q)
    <2>1. Picture(q) \cap objects = {}
      BY <1>9 DEF ReplacePng, FileStep, At, PictureInv, SavedInv
    <2>2. /\ {<<q, "png.part">>} \in SUBSET (Picture(q) \cup Partial(q))
          /\ {<<q, "png">>} \in SUBSET (Picture(q) \cup Partial(q))
          /\ "save_json" \in PictureSteps
      BY DEF Picture, Partial, PictureSteps
    <2>3. objects' = (objects \ {<<q, "png.part">>}) \cup {<<q, "png">>}
            => Picture(q) \cap objects' = {<<q, "png">>}
      BY <2>1, PictureKeys
    <2> QED
      BY <1>6, <1>7, <1>9, <2>2, <2>3 DEF ReplacePng, FileStep
  <1>10. CASE ReplaceJson(q)
    <2>1. Picture(q) \cap objects = {<<q, "png">>}
      BY <1>10 DEF ReplaceJson, FileStep, At, PictureInv, SavedInv
    <2>2. /\ {<<q, "json.part">>} \in SUBSET (Picture(q) \cup Partial(q))
          /\ {<<q, "json">>} \in SUBSET (Picture(q) \cup Partial(q))
          /\ "saved" \in PictureSteps /\ <<q, "png">> # <<q, "json.part">>
      BY DEF Picture, Partial, PictureSteps
    <2>3. objects' = (objects \ {<<q, "json.part">>}) \cup {<<q, "json">>}
            => Picture(q) \subseteq objects'
      BY <2>1, <2>2, PictureKeys
    <2> QED
      BY <1>6, <1>7, <1>10, <2>2, <2>3 DEF ReplaceJson, FileStep
  <1> QED
    BY <1>8, <1>9, <1>10

\* Removing files closes a picture for good: on a disk nothing lands late.
LEMMA RemovalStepKeeps ==
  ASSUME PictureInv, NEW q \in Pictures, CleanNext(q) \/ UnlinkPng(q) \/ UnlinkJson(q)
  PROVE  PictureInv' /\ \A p \in Pictures : PictureGoesOn(p)
  <1>1. /\ deployment = "files" /\ late = {} /\ late' = late
        /\ saves[q].step \in {"clean", "discard", "discard_json"}
        /\ saves[q] \in PictureRows /\ saves \in [Pictures -> PictureRows]
    BY DEF CleanNext, UnlinkPng, UnlinkJson, At, PictureInv, PictureTypeOK
  <1>2. /\ LatePictures(q)' = {} /\ LatePictureKeys(q)' = {}
        /\ LatePictures(q) = {} /\ LatePictureKeys(q) = {}
    BY <1>1 DEF LatePictures, LatePictureKeys
  <1>3. PICK name \in {"png.part", "json.part", "png", "json"},
             step \in {"clean", "unsaved", "failed", "discard_json", "discarded"} :
          /\ objects' = objects \/ objects' = objects \ {<<q, name>>}
          /\ saves' \in [Pictures -> PictureRows] /\ saves'[q].step = step
          /\ deployment' = deployment
          /\ \A p \in Pictures : p # q => saves'[p] = saves[p]
          /\ step = "clean" => saves[q].step = "clean"
          /\ step = "discard_json" => objects' = objects \ {<<q, "png">>}
          /\ step = "discarded" => saves[q].step = "discard_json"
    <2>1. CASE CleanNext(q)
      <3>1. PICK i \in 1..4 :
              \/ /\ objects' = objects \ {<<q, Order[i]>>}
                 /\ \/ i = 4 /\ Goto(q, "unsaved")
                    \/ /\ saves' = [saves EXCEPT ![q].remaining = @ \ {<<q, Order[i]>>}]
                       /\ deployment' = deployment
              \/ Goto(q, "failed") /\ objects' = objects
        BY <2>1 DEF CleanNext
      <3>2. Order[i] \in {"png.part", "json.part", "png", "json"}
        BY DEF Order
      <3>3. CASE Goto(q, "unsaved") \/ Goto(q, "failed")
        BY <3>1, <3>2, <3>3, StepOfPicture DEF PictureSteps
      <3>4. CASE saves' = [saves EXCEPT ![q].remaining = @ \ {<<q, Order[i]>>}]
                 /\ deployment' = deployment
        <4>1. saves[q].step = "clean"
          BY <2>1 DEF CleanNext, At
        <4>2. PICK remaining :
                /\ remaining = saves[q].remaining \ {<<q, Order[i]>>}
                /\ saves' = [saves EXCEPT ![q].remaining = remaining]
          BY <3>4
        <4>3. remaining \in SUBSET (Pictures \X {"png", "json", "png.part", "json.part"})
          BY <1>1, <4>2 DEF PictureRows
        <4>4. /\ saves' \in [Pictures -> PictureRows] /\ saves'[q].step = "clean"
              /\ \A p \in Pictures : p # q => saves'[p] = saves[p]
          BY <1>1, <4>1, <4>2, <4>3 DEF PictureRows
        <4>5. objects' = objects \/ objects' = objects \ {<<q, Order[i]>>}
          BY <3>1
        <4> QED
          BY <3>2, <3>4, <4>1, <4>4, <4>5
      <3> QED
        BY <3>1, <3>3, <3>4
    <2>2. CASE UnlinkPng(q)
      <3>1. PICK step \in {"discard_json", "failed"} :
              /\ Goto(q, step) /\ (objects' = objects \/ objects' = objects \ {<<q, "png">>})
              /\ step = "discard_json" => objects' = objects \ {<<q, "png">>}
        BY <2>2 DEF UnlinkPng
      <3> QED
        BY <3>1, StepOfPicture DEF PictureSteps
    <2>3. CASE UnlinkJson(q)
      <3>1. PICK step \in {"discarded", "failed"} :
              Goto(q, step) /\ (objects' = objects \/ objects' = objects \ {<<q, "json">>})
        BY <2>3 DEF UnlinkJson
      <3>2. saves[q].step = "discard_json"
        BY <2>3 DEF UnlinkJson, At
      <3> QED
        BY <3>1, <3>2, StepOfPicture DEF PictureSteps
    <2> QED
      BY <2>1, <2>2, <2>3
  <1>4. /\ saves[q].step = "clean" => ~(Picture(q) \subseteq objects)
        /\ saves[q].step = "discard_json" => ~(Picture(q) \subseteq objects)
    BY <1>2 DEF PictureInv, SavedInv, At, Loadable
  <1>5. objects' \subseteq objects
    BY <1>3
  <1>6. SavedInv(q)'
    BY <1>2, <1>3, <1>4, <1>5, PictureKeys DEF SavedInv, At, Loadable
  <1>7. PictureGoesOn(q)
    <2>1. ~MayLoad(q)'
      BY <1>1, <1>3 DEF MayLoad
    <2> QED
      BY <1>5, <2>1 DEF PictureGoesOn, Loadable
  <1>8. \A key \in (objects \ objects') \cup (objects' \ objects) : key[1] = q
    BY <1>3
  <1>9. \A request \in late : FALSE
    BY <1>1
  <1> QED
    BY <1>1, <1>3, <1>6, <1>7, <1>8, <1>9, QuietPictureKeeps

-----------------------------------------------------------------------------
\* The requests of a save and of a deletion in a bucket.
LEMMA PutPictureKeeps ==
  ASSUME PictureInv, NEW q \in Pictures, PutPng(q) \/ PutJson(q)
  PROVE  PictureInv' /\ \A p \in Pictures : PictureGoesOn(p)
  <1>1. /\ deployment = "objects" /\ saves[q].step \in {"save_png", "save_json"}
        /\ saves[q].step \notin PictureOver
    BY DEF PutPng, PutJson, At, PictureOver
  <1>2. LatePictures(q) = {} /\ \A request : ~PictureRequestOf(request, q)
    BY <1>1, NoPictureUnderWay
  <1>3. PICK key \in Picture(q), step \in {"save_json", "saved", "unsaved"} :
          /\ Goto(q, step) /\ key \notin objects
          /\ \/ step # "unsaved" /\ Succeeds(PutNew(key))
             \/ step = "unsaved" /\ Fails(PutNew(key))
          /\ step = "save_json" => Picture(q) \cap objects = {} /\ key = <<q, "png">>
          /\ step = "saved" => Picture(q) \subseteq objects \cup {key}
    <2>1. CASE PutPng(q)
      <3>1. Picture(q) \cap objects = {} /\ <<q, "png">> \in Picture(q)
        BY <2>1, PictureKeys DEF PutPng, At, PictureInv, SavedInv
      <3>2. \/ Succeeds(PutNew(<<q, "png">>)) /\ Goto(q, "save_json")
            \/ Fails(PutNew(<<q, "png">>)) /\ Goto(q, "unsaved")
        BY <2>1 DEF PutPng
      <3> QED
        BY <3>1, <3>2
    <2>2. CASE PutJson(q)
      <3>1. Picture(q) \cap objects = {<<q, "png">>} /\ <<q, "json">> \in Picture(q)
        BY <2>2, PictureKeys DEF PutJson, At, PictureInv, SavedInv
      <3>2. <<q, "json">> \notin objects /\ Picture(q) \subseteq objects \cup {<<q, "json">>}
        BY <3>1, PictureKeys
      <3>3. \/ Succeeds(PutNew(<<q, "json">>)) /\ Goto(q, "saved")
            \/ Fails(PutNew(<<q, "json">>)) /\ Goto(q, "unsaved")
        BY <2>2 DEF PutJson
      <3> QED
        BY <3>1, <3>2, <3>3
    <2> QED
      BY <2>1, <2>2
  <1>4. /\ saves' \in [Pictures -> PictureRows] /\ saves'[q].step = step
        /\ deployment' = deployment
        /\ \A p \in Pictures : p # q => saves'[p] = saves[p]
    BY <1>3, StepOfPicture DEF PictureSteps
  <1>5. /\ step # "unsaved" => objects' = objects \cup {key} /\ late' = late
        /\ step = "unsaved" =>
             objects' = objects /\ (late' = late \/ late' = late \cup {PutNew(key)})
    BY <1>3, RequestsDiffer, FailedRequest DEF Succeeds, Execute
  <1>6. LatePictures(q)' \subseteq {PutNew(key)} /\ (step # "unsaved" => LatePictures(q)' = {})
    BY <1>2, <1>5 DEF LatePictures
  <1>7. SavedInv(q)'
    <2>1. step = "save_json" => Picture(q) \cap objects' = {<<q, "png">>}
      BY <1>3, <1>5
    <2>2. step = "saved" => Picture(q) \subseteq objects'
      BY <1>3, <1>5
    <2> QED
      BY <1>4, <1>6, <2>1, <2>2 DEF SavedInv, At, Loadable
  <1>8. PictureGoesOn(q)
    <2>1. MayLoad(q)
      BY <1>1 DEF MayLoad
    <2>2. <<q, "json">> \in Picture(q) /\ <<q, "png">> # <<q, "json">>
      BY PictureKeys
    <2>3. ~Loadable(q)
      BY <1>3 DEF Loadable
    <2> QED
      BY <2>1, <2>3 DEF PictureGoesOn
  <1>9. key[1] = q
    BY PictureKeys
  <1>10. /\ \A k \in (objects \ objects') \cup (objects' \ objects) : k[1] = q
         /\ \A request \in (late \ late') \cup (late' \ late) :
              \E k \in request.keys : k[1] = q
    BY <1>5, <1>9, RequestsDiffer
  <1>11. ASSUME NEW request \in late'
         PROVE  \/ PictureRequestOf(request, q)'
                \/ request \in late /\ ~PictureRequestOf(request, q)
    <2>1. CASE request \in late
      BY <1>2, <2>1
    <2>2. CASE request \notin late
      <3>1. request = PutNew(key) /\ step = "unsaved" /\ key \notin objects'
        BY <1>3, <1>5, <2>2
      <3> QED
        BY <1>4, <3>1 DEF PictureRequestOf, PictureOver
    <2> QED
      BY <2>1, <2>2
  <1> QED
    BY <1>1, <1>4, <1>7, <1>8, <1>10, <1>11, PictureStepKeeps

LEMMA DeleteObjectsKeeps ==
  ASSUME PictureInv, NEW q \in Pictures, DeleteObjects(q)
  PROVE  PictureInv' /\ \A p \in Pictures : PictureGoesOn(p)
  <1>1. deployment = "objects" /\ saves[q].step = "discard"
    BY DEF DeleteObjects, At
  <1>2. PICK step \in {"discarded", "failed"} :
          /\ Goto(q, step)
          /\ \/ step = "discarded" /\ Succeeds(Remove(Picture(q)))
             \/ step = "failed" /\ Fails(Remove(Picture(q)))
    BY DEF DeleteObjects
  <1>3. /\ saves' \in [Pictures -> PictureRows] /\ saves'[q].step = step
        /\ deployment' = deployment
        /\ \A p \in Pictures : p # q => saves'[p] = saves[p]
    BY <1>2, StepOfPicture DEF PictureSteps
  <1>4. /\ step = "discarded" => objects' = objects \ Picture(q) /\ late' = late
        /\ step = "failed" =>
             objects' = objects /\ (late' = late \/ late' = late \cup {Remove(Picture(q))})
    BY <1>2, RequestsDiffer, FailedRequest DEF Succeeds, Execute
  <1>5. LatePictures(q)' = LatePictures(q)
    BY <1>4, RequestsDiffer DEF LatePictures
  <1>6. SavedInv(q)'
    <2>1. ASSUME step = "discarded"
          PROVE  ~(Picture(q) \subseteq objects' \cup LatePictureKeys(q)')
      <3>1. Picture(q) \cap objects' = {}
        BY <1>4, <2>1
      <3>2. \A one, other \in LatePictures(q) : one = other
        BY DEF PictureInv, SavedInv
      <3>3. \A k, l \in LatePictureKeys(q) : k = l
        BY <3>2, OwnPictures, RequestsDiffer DEF LatePictureKeys
      <3>4. LatePictureKeys(q)' = LatePictureKeys(q)
        BY <1>5 DEF LatePictureKeys
      <3>5. /\ <<q, "png">> \in Picture(q) /\ <<q, "json">> \in Picture(q)
            /\ <<q, "png">> # <<q, "json">>
        BY PictureKeys
      <3> QED
        BY <3>1, <3>3, <3>4, <3>5
    <2> QED
      BY <1>3, <1>5, <2>1 DEF SavedInv, At, PictureInv
  <1>7. PictureGoesOn(q)
    <2>1. CASE step = "discarded"
      <3>1. ~Loadable(q)' /\ ~MayLoad(q)'
        BY <1>3, <1>4, <2>1, PictureKeys DEF Loadable, MayLoad, At
      <3> QED
        BY <3>1 DEF PictureGoesOn
    <2>2. CASE step = "failed"
      <3>1. Loadable(q)' <=> Loadable(q)
        BY <1>4, <2>2 DEF Loadable
      <3>2. MayLoad(q)' => MayLoad(q)
        BY <1>1, <1>3, <1>5, <2>2 DEF MayLoad, At, LatePictures
      <3> QED
        BY <3>1, <3>2 DEF PictureGoesOn
    <2> QED
      BY <2>1, <2>2
  <1>8. \A key \in (objects \ objects') \cup (objects' \ objects) : key[1] = q
    BY <1>4, PictureKeys
  <1>9. \A request \in (late \ late') \cup (late' \ late) : request.op # "put_new"
    BY <1>4, RequestsDiffer
  <1>10. ASSUME NEW request \in late'
         PROVE  \/ PictureRequestOf(request, q)'
                \/ request \in late
                   /\ (PictureRequestOf(request, q) => PictureRequestOf(request, q)')
    <2>1. CASE request \in late
      <3> SUFFICES ASSUME PictureRequestOf(request, q) PROVE PictureRequestOf(request, q)'
        BY <2>1
      <3>1. PICK key \in Picture(q) \ objects : request = PutNew(key)
        BY <1>1 DEF PictureRequestOf, At
      <3>2. key \notin objects'
        BY <1>4, <3>1
      <3> QED
        BY <1>3, <3>1, <3>2 DEF PictureRequestOf, PictureOver
    <2>2. CASE request \notin late
      <3>1. request = Remove(Picture(q)) /\ step = "failed"
        BY <1>4, <2>2
      <3> QED
        BY <1>3, <3>1 DEF PictureRequestOf, At
    <2> QED
      BY <2>1, <2>2
  <1> QED
    BY <1>1, <1>3, <1>6, <1>7, <1>8, <1>9, <1>10, PictureStepKeeps

\* The steps of the services; a picture that is referred to had no failed put.
LEMMA ServiceStepKeeps ==
  ASSUME PictureInv, NEW q \in Pictures, Commit(q) \/ GiveUp(q) \/ PictureCrash(q)
  PROVE  PictureInv' /\ \A p \in Pictures : PictureGoesOn(p)
  <1>1. objects' = objects /\ late' = late
    BY DEF Commit, GiveUp, PictureCrash, storageVars
  <1>2. PICK step \in {"referenced", "discard", "failed"} :
          /\ saves' \in [Pictures -> PictureRows] /\ saves'[q].step = step
          /\ deployment' = deployment
          /\ \A p \in Pictures : p # q => saves'[p] = saves[p]
          /\ step = "referenced" => saves[q].step = "saved"
          /\ saves[q].step \notin {"new", "referenced", "discarded", "failed"}
    <2>1. CASE Commit(q)
      <3>1. PICK row \in BOOLEAN, raised \in BOOLEAN :
              saves' = [saves EXCEPT ![q].step = IF raised THEN "discard" ELSE "referenced",
                                     ![q].row = row, ![q].raised = raised]
        BY <2>1 DEF Commit
      <3> DEFINE step == IF raised THEN "discard" ELSE "referenced"
                 after == [saves[q] EXCEPT !.step = step, !.row = row, !.raised = raised]
      <3>2. saves[q].step = "saved" /\ deployment' = deployment
        BY <2>1 DEF Commit, At
      <3>3. saves' = [saves EXCEPT ![q] = after]
        BY <3>1
      <3>4. /\ after \in PictureRows /\ after.step = step
            /\ step \in {"referenced", "discard"} /\ saves \in [Pictures -> PictureRows]
        BY DEF PictureInv, PictureTypeOK, PictureRows, PictureSteps
      <3> HIDE DEF after, step
      <3> QED
        BY <3>2, <3>3, <3>4
    <2>2. CASE GiveUp(q) \/ PictureCrash(q)
      <3>1. PICK step \in {"discard", "failed"} : Goto(q, step)
        BY <2>2 DEF GiveUp, PictureCrash
      <3>2. saves[q].step \notin {"new", "referenced", "discarded", "failed"}
        BY <2>2 DEF GiveUp, PictureCrash, At
      <3> QED
        BY <3>1, <3>2, StepOfPicture DEF PictureSteps
    <2> QED
      BY <2>1, <2>2
  <1>3. /\ saves' \in [Pictures -> PictureRows] /\ saves'[q].step = step
        /\ deployment' = deployment
        /\ \A p \in Pictures : p # q => saves'[p] = saves[p]
    BY <1>2
  <1>4. LatePictures(q)' = LatePictures(q)
    BY <1>1 DEF LatePictures
  <1>5. SavedInv(q)'
    BY <1>1, <1>2, <1>3, <1>4 DEF SavedInv, At, PictureInv, Loadable
  <1>6. PictureGoesOn(q)
    <2>1. Loadable(q)' <=> Loadable(q)
      BY <1>1 DEF Loadable
    <2>2. MayLoad(q)' => MayLoad(q)
      BY <1>2, <1>3, <1>4 DEF MayLoad, At, LatePictures
    <2> QED
      BY <2>1, <2>2 DEF PictureGoesOn
  <1>7. ASSUME NEW request, PictureRequestOf(request, q) PROVE PictureRequestOf(request, q)'
    <2>1. PICK key \in Picture(q) \ objects : request = PutNew(key) /\ saves[q].step \in PictureOver
      BY <1>2, <1>7 DEF PictureRequestOf, At
    <2>2. saves'[q].step \in PictureOver
      BY <1>2, <1>3, <2>1 DEF PictureOver
    <2> QED
      BY <1>1, <2>1, <2>2 DEF PictureRequestOf
  <1> QED
    BY <1>1, <1>3, <1>5, <1>6, <1>7, QuietPictureKeeps

\* A put or a delete lands after its save was given up, or its deletion failed.
LEMMA LatePictureKeeps ==
  ASSUME PictureInv, LatePicture
  PROVE  PictureInv' /\ \A p \in Pictures : PictureGoesOn(p)
  <1>1. PICK request \in late :
          /\ late' = late \ {request}
          /\ IF Refused(request) THEN UNCHANGED objects ELSE Execute(request)
          /\ deployment' = deployment /\ saves' = saves
    BY DEF LatePicture, Land
  <1>2. PICK q \in Pictures : PictureRequestOf(request, q)
    BY DEF PictureInv
  <1>3. /\ saves' \in [Pictures -> PictureRows] /\ (deployment = "files" => late' = {})
        /\ \A step : At(q, step)' <=> At(q, step)
    BY <1>1 DEF PictureInv, PictureTypeOK, At
  <1>4. CASE \E key \in Picture(q) \ objects : request = PutNew(key) /\ saves[q].step \in PictureOver
    <2>1. PICK key \in Picture(q) \ objects : request = PutNew(key) /\ saves[q].step \in PictureOver
      BY <1>4
    <2>2. objects' = objects \cup {key} /\ key[1] = q
      BY <1>1, <2>1, RequestsDiffer, PictureKeys DEF Refused, Execute
    <2>3. LatePictures(q) = {request}
      BY <2>1, RequestsDiffer DEF PictureInv, SavedInv, LatePictures
    <2>4. LatePictures(q)' = {} /\ LatePictureKeys(q)' = {} /\ LatePictureKeys(q) = {key}
      <3>1. LatePictures(q)' = {}
        BY <1>1, <2>3 DEF LatePictures
      <3> QED
        BY <2>1, <2>3, <3>1, RequestsDiffer DEF LatePictureKeys
    <2>5. At(q, "discarded") => ~(Picture(q) \subseteq objects')
      BY <2>2, <2>4 DEF PictureInv, SavedInv, At
    <2>6. SavedInv(q)'
      BY <1>1, <2>1, <2>4, <2>5 DEF SavedInv, PictureOver, At
    <2>7. PictureGoesOn(q)
      <3>1. ~MayLoad(q)'
        BY <1>1, <2>1, <2>4 DEF MayLoad, LatePictures, PictureOver
      <3>2. ~At(q, "discarded") => MayLoad(q)
        BY <2>3 DEF MayLoad, LatePictures
      <3> QED
        BY <2>5, <3>1, <3>2 DEF PictureGoesOn, Loadable
    <2>8. ASSUME NEW other \in late', PictureRequestOf(other, q) PROVE PictureRequestOf(other, q)'
      <3>1. other \notin LatePictures(q)
        BY <1>1, <2>3
      <3>2. ~\E k \in Picture(q) : other = PutNew(k)
        <4> SUFFICES ASSUME NEW k \in Picture(q), other = PutNew(k) PROVE FALSE
          OBVIOUS
        <4>1. other.op = "put_new" /\ other.keys \subseteq Picture(q) /\ other \in late
          BY <1>1, RequestsDiffer
        <4> QED
          BY <3>1, <4>1 DEF LatePictures
      <3>3. other = Remove(Picture(q)) /\ At(q, "failed")
        BY <2>8, <3>2 DEF PictureRequestOf
      <3> QED
        BY <1>3, <3>3 DEF PictureRequestOf
    <2>9. /\ \A k \in (objects \ objects') \cup (objects' \ objects) : k[1] = q
          /\ \A other \in (late \ late') \cup (late' \ late) : \E k \in other.keys : k[1] = q
      BY <1>1, <2>1, <2>2, RequestsDiffer
    <2> QED
      BY <1>1, <1>3, <2>6, <2>7, <2>8, <2>9, PictureStepKeeps
  <1>5. CASE request = Remove(Picture(q)) /\ At(q, "failed")
    <2>1. objects' = objects \ Picture(q)
      BY <1>1, <1>5, RequestsDiffer DEF Refused, Execute
    <2>2. LatePictures(q)' = LatePictures(q)
      BY <1>1, <1>5, RequestsDiffer DEF LatePictures
    <2>3. SavedInv(q)'
      BY <1>1, <1>5, <2>2 DEF SavedInv, At, PictureInv
    <2>4. PictureGoesOn(q)
      <3>1. ~Loadable(q)'
        BY <2>1, PictureKeys DEF Loadable
      <3>2. MayLoad(q)' <=> MayLoad(q)
        BY <1>1, <1>5, <2>2 DEF MayLoad, LatePictures, At
      <3>3. Loadable(q) => LatePictures(q) = {}
        BY OwnPictures DEF Loadable
      <3>4. LatePictures(q) = {} => ~MayLoad(q)
        BY <1>5 DEF MayLoad, LatePictures, At
      <3> QED
        BY <3>1, <3>2, <3>3, <3>4 DEF PictureGoesOn
    <2>5. ASSUME NEW other, PictureRequestOf(other, q) PROVE PictureRequestOf(other, q)'
      BY <1>1, <1>3, <2>1, <2>5 DEF PictureRequestOf
    <2>6. /\ \A k \in (objects \ objects') \cup (objects' \ objects) : k[1] = q
          /\ \A other \in (late \ late') \cup (late' \ late) : other.op # "put_new"
      BY <1>1, <1>5, <2>1, RequestsDiffer, PictureKeys
    <2> QED
      BY <1>1, <1>3, <2>3, <2>4, <2>5, <2>6, PictureStepKeeps
  <1> QED
    BY <1>2, <1>4, <1>5 DEF PictureRequestOf

-----------------------------------------------------------------------------
LEMMA PicturesBegin == PictureInit => PictureInv
  <1> SUFFICES ASSUME PictureInit PROVE PictureInv
    OBVIOUS
  <1>1. /\ objects = {} /\ late = {} /\ deployment \in {"files", "objects"}
        /\ saves = [p \in Pictures |-> [step |-> "new", revision |-> FALSE, remaining |-> {},
                                        row |-> FALSE, raised |-> FALSE]]
    BY DEF PictureInit, StorageInit
  <1>2. PictureTypeOK
    BY <1>1 DEF PictureTypeOK, PictureRows, PictureSteps
  <1>3. ASSUME NEW p \in Pictures PROVE SavedInv(p)
    <2>1. saves[p].step = "new" /\ LatePictures(p) = {}
      BY <1>1 DEF LatePictures
    <2> QED
      BY <1>1, <2>1 DEF SavedInv, At
  <1> QED
    BY <1>1, <1>2, <1>3 DEF PictureInv

LEMMA PictureStepsKeep ==
  ASSUME PictureInv, [PictureNext]_pictureVars
  PROVE  PictureInv' /\ \A p \in Pictures : PictureGoesOn(p)
  <1>1. CASE UNCHANGED pictureVars
    <2>1. /\ objects' = objects /\ late' = late
          /\ deployment' = deployment /\ saves' = saves
      BY <1>1 DEF pictureVars
    <2>2. \A p : /\ Loadable(p)' <=> Loadable(p)
                 /\ MayLoad(p)' <=> MayLoad(p)
                 /\ SavedInv(p)' <=> SavedInv(p)
                 /\ \A request : PictureRequestOf(request, p)' <=> PictureRequestOf(request, p)
      BY <2>1 DEF Loadable, MayLoad, SavedInv, LatePictures, LatePictureKeys, PictureRequestOf, At
    <2> QED
      BY <2>1, <2>2 DEF PictureInv, PictureTypeOK, PictureGoesOn
  <1>2. CASE LatePicture
    BY <1>2, LatePictureKeeps
  <1>3. ASSUME NEW p \in Pictures,
               SavePngPart(p) \/ SaveJsonPart(p) \/ ReplacePng(p) \/ ReplaceJson(p)
        PROVE  PictureInv' /\ \A q \in Pictures : PictureGoesOn(q)
    BY <1>3, FileStepKeeps
  <1>4. ASSUME NEW p \in Pictures, CleanNext(p) \/ UnlinkPng(p) \/ UnlinkJson(p)
        PROVE  PictureInv' /\ \A q \in Pictures : PictureGoesOn(q)
    BY <1>4, RemovalStepKeeps
  <1>5. ASSUME NEW p \in Pictures, PutPng(p) \/ PutJson(p)
        PROVE  PictureInv' /\ \A q \in Pictures : PictureGoesOn(q)
    BY <1>5, PutPictureKeeps
  <1>6. ASSUME NEW p \in Pictures, Commit(p) \/ GiveUp(p) \/ PictureCrash(p)
        PROVE  PictureInv' /\ \A q \in Pictures : PictureGoesOn(q)
    BY <1>6, ServiceStepKeeps
  <1> QED
    BY <1>1, <1>2, <1>3, <1>4, <1>5, <1>6, SaveBeginKeeps, DeleteObjectsKeeps DEF PictureNext

\* The invariant of the picture stores, on either deployment.
THEOREM PictureInvariantHolds == PictureSpec => []PictureInv
  <1>1. PictureInv /\ [PictureNext]_pictureVars => PictureInv'
    BY PictureStepsKeep
  <1> QED
    BY PicturesBegin, <1>1, PTL DEF PictureSpec

\* A row refers to a picture since its commit; where that did not raise, the
\* request of the picture is over.
RowInv(p) == saves[p].row /\ ~saves[p].raised => At(p, "referenced")

LEMMA RowsKept ==
  ASSUME PictureInv, NEW p \in Pictures, RowInv(p), [PictureNext]_pictureVars
  PROVE  RowInv(p)'
  <1>1. saves \in [Pictures -> PictureRows]
    BY DEF PictureInv, PictureTypeOK
  <1>2. CASE saves'[p] = saves[p]
    BY <1>2 DEF RowInv, At
  <1>3. ASSUME NEW q \in Pictures, NEW after, saves' = [saves EXCEPT ![q] = after],
               saves[q].step # "referenced",
               after.row = saves[q].row /\ after.raised = saves[q].raised
        PROVE  RowInv(p)'
    <2>1. CASE p = q
      BY <1>1, <1>3, <2>1 DEF RowInv, At
    <2>2. CASE p # q
      BY <1>1, <1>2, <1>3, <2>2
    <2> QED
      BY <2>1, <2>2
  <1>4. ASSUME NEW q \in Pictures, NEW step, Goto(q, step), saves[q].step # "referenced"
        PROVE  RowInv(p)'
    <2> DEFINE after == [saves[q] EXCEPT !.step = step, !.remaining = {}]
    <2>1. saves' = [saves EXCEPT ![q] = after]
      BY <1>4 DEF Goto
    <2>2. after.row = saves[q].row /\ after.raised = saves[q].raised
      BY <1>1 DEF PictureRows
    <2> HIDE DEF after
    <2> QED
      BY <1>3, <1>4, <2>1, <2>2
  <1>5. CASE UNCHANGED pictureVars \/ LatePicture
    BY <1>2, <1>5 DEF pictureVars, LatePicture
  <1>6. ASSUME NEW q \in Pictures, SaveBegin(q) PROVE RowInv(p)'
    <2>1. PICK step, revision :
            saves' = [saves EXCEPT ![q].step = step, ![q].revision = revision]
      BY <1>6 DEF SaveBegin
    <2> DEFINE after == [saves[q] EXCEPT !.step = step, !.revision = revision]
    <2>2. saves' = [saves EXCEPT ![q] = after] /\ saves[q].step # "referenced"
      BY <1>6, <2>1 DEF SaveBegin, At
    <2>3. after.row = saves[q].row /\ after.raised = saves[q].raised
      BY <1>1 DEF PictureRows
    <2> HIDE DEF after
    <2> QED
      BY <1>3, <2>2, <2>3
  <1>7. ASSUME NEW q \in Pictures,
               SavePngPart(q) \/ SaveJsonPart(q) \/ ReplacePng(q) \/ ReplaceJson(q)
        PROVE  RowInv(p)'
    <2>1. PICK from, removed, added, to :
            from \in SaveSteps /\ FileStep(q, from, removed, added, to)
      BY <1>7 DEF SavePngPart, SaveJsonPart, ReplacePng, ReplaceJson, SaveSteps
    <2>2. saves[q].step # "referenced"
      BY <2>1 DEF FileStep, At, SaveSteps
    <2> DEFINE after == [saves[q] EXCEPT !.step = "clean",
                                         !.remaining = Picture(q) \cup Partial(q)]
    <2>3. Goto(q, to) \/ saves' = [saves EXCEPT ![q] = after]
      BY <2>1 DEF FileStep
    <2>4. after.row = saves[q].row /\ after.raised = saves[q].raised
      BY <1>1 DEF PictureRows
    <2> HIDE DEF after
    <2> QED
      BY <1>3, <1>4, <2>2, <2>3, <2>4
  <1>8. ASSUME NEW q \in Pictures, CleanNext(q) PROVE RowInv(p)'
    <2>1. saves[q].step # "referenced"
      BY <1>8 DEF CleanNext, At
    <2>2. \/ \E step : Goto(q, step)
          \/ \E files : saves' = [saves EXCEPT ![q].remaining = @ \ files]
      BY <1>8 DEF CleanNext
    <2>3. ASSUME NEW files, saves' = [saves EXCEPT ![q].remaining = @ \ files]
          PROVE  RowInv(p)'
      <3> DEFINE after == [saves[q] EXCEPT !.remaining = @ \ files]
      <3>1. saves' = [saves EXCEPT ![q] = after]
        BY <2>3
      <3>2. after.row = saves[q].row /\ after.raised = saves[q].raised
        BY <1>1 DEF PictureRows
      <3> HIDE DEF after
      <3> QED
        BY <1>3, <2>1, <3>1, <3>2
    <2> QED
      BY <1>4, <2>1, <2>2, <2>3
  <1>9. ASSUME NEW q \in Pictures,
               \/ UnlinkPng(q) \/ UnlinkJson(q) \/ PutPng(q) \/ PutJson(q)
               \/ DeleteObjects(q) \/ GiveUp(q) \/ PictureCrash(q)
        PROVE  RowInv(p)'
    <2>1. (\E step : Goto(q, step)) /\ saves[q].step # "referenced"
      BY <1>9 DEF UnlinkPng, UnlinkJson, PutPng, PutJson, DeleteObjects, GiveUp,
                  PictureCrash, At
    <2> QED
      BY <1>4, <2>1
  <1>10. ASSUME NEW q \in Pictures, Commit(q) PROVE RowInv(p)'
    <2>1. PICK row \in BOOLEAN, raised \in BOOLEAN :
            saves' = [saves EXCEPT ![q].step = IF raised THEN "discard" ELSE "referenced",
                                   ![q].row = row, ![q].raised = raised]
      BY <1>10 DEF Commit
    <2> DEFINE step == IF raised THEN "discard" ELSE "referenced"
               after == [saves[q] EXCEPT !.step = step, !.row = row, !.raised = raised]
    <2>2. saves' = [saves EXCEPT ![q] = after]
      BY <2>1
    <2>3. after.raised = raised /\ (~raised => after.step = "referenced")
      BY <1>1 DEF PictureRows
    <2> HIDE DEF after, step
    <2>4. CASE p = q
      BY <1>1, <2>2, <2>3, <2>4 DEF RowInv, At
    <2>5. CASE p # q
      BY <1>1, <1>2, <2>2, <2>5
    <2> QED
      BY <2>4, <2>5
  <1> QED
    BY <1>5, <1>6, <1>7, <1>8, <1>9, <1>10 DEF PictureNext

\* The picture of a row whose commit did not raise is stored whole and stays so,
\* whichever save failed before it and whatever lands late (save, commit).  Of
\* a row whose commit did raise this is false: finding 1.
THEOREM PicturesLoad == PictureSpec => []ReferencedPicturesLoad
  <1> DEFINE Rows == \A p \in Pictures : RowInv(p)
  <1>1. PictureInit => Rows
    BY DEF PictureInit, RowInv
  <1>2. PictureInv /\ Rows /\ [PictureNext]_pictureVars => Rows'
    BY RowsKept
  <1>3. PictureInv /\ Rows => ReferencedPicturesLoad
    BY DEF PictureInv, SavedInv, RowInv, ReferencedPicturesLoad, At
  <1> HIDE DEF Rows
  <1> QED
    BY PictureInvariantHolds, <1>1, <1>2, <1>3, PTL DEF PictureSpec

\* A composed picture implements the life of an item on a disk and in a bucket:
\* one that was discarded, or whose save was given up and cannot complete any
\* more, is never loaded again (composition_storage.py).
THEOREM PicturesImplementLifecycle == PictureSpec => PicturesImplementItemLifecycle
  <1>1. ASSUME PictureInit, NEW p \in Pictures PROVE PictureItem(p)!LifecycleInit
    <2>1. saves[p].step = "new" /\ ~Loadable(p)
      BY <1>1, PictureKeys DEF PictureInit, StorageInit, Loadable
    <2> QED
      BY <2>1 DEF PictureItem!LifecycleInit, PictureLife, MayLoad
  <1>2. ASSUME PictureInv, [PictureNext]_pictureVars, NEW p \in Pictures
        PROVE  [PictureItem(p)!LifecycleNext]_(PictureLife(p))
    <2>1. PictureGoesOn(p)
      BY <1>2, PictureStepsKeep
    <2>2. PictureLife(p) = IF Loadable(p) THEN "open" ELSE IF MayLoad(p) THEN "new" ELSE "closed"
      BY DEF PictureLife
    <2>3. PictureLife(p)' =
            IF Loadable(p)' THEN "open" ELSE IF MayLoad(p)' THEN "new" ELSE "closed"
      BY DEF PictureLife
    <2>4. \/ PictureLife(p)' = PictureLife(p)
          \/ PictureLife(p) = "new" /\ PictureLife(p)' = "open"
          \/ PictureLife(p) \in {"new", "open"} /\ PictureLife(p)' = "closed"
      BY <2>1, <2>2, <2>3 DEF PictureGoesOn
    <2> QED
      BY <2>4 DEF PictureItem!LifecycleNext, PictureItem!Open, PictureItem!Close
  <1>3. PictureInv /\ [PictureNext]_pictureVars
          => [\A p \in Pictures :
                [PictureItem(p)!LifecycleNext]_(PictureLife(p))]_pictureVars
    BY <1>2
  <1>4. PictureInit => \A p \in Pictures : PictureItem(p)!LifecycleInit
    BY <1>1
  <1> QED
    BY PictureInvariantHolds, <1>3, <1>4, PTL DEF PictureSpec, PicturesImplementItemLifecycle

-----------------------------------------------------------------------------
(***************************************************************************)
(* The limiter's two promises for every limit, window and number of        *)
(* callers.  BurstsAreBounded is not inductive: it speaks of the times of   *)
(* the grants, the code only of the window a grant falls in.  LimiterInv    *)
(* relates the two: windows do not overlap, none holds more than Limit     *)
(* grants, the first grant of a window opens it, and the entry is the       *)
(* window of the last grants.                                              *)
(***************************************************************************)

Entry == [start: Nat, count: 1..Limit]

Grant == [at: Nat, start: Nat]

\* A grant falls inside its window, and none is in the future.
GrantsInWindows(g, t) ==
  \A i \in 1..Len(g) :
    g[i].start <= g[i].at /\ g[i].at < g[i].start + Window /\ g[i].at <= t

\* Two windows are the same or do not overlap.
WindowsApart(g) ==
  \A i, j \in 1..Len(g) : i <= j =>
    g[j].start = g[i].start \/ g[j].start >= g[i].start + Window

\* The first grant of a window opens it.
FirstOpens(g) ==
  \A i \in 1..Len(g) :
    g[i].at = g[i].start \/ (i > 1 /\ g[i - 1].start = g[i].start)

WindowsHoldLimit(g) ==
  \A i, j \in 1..Len(g) : j >= i + Limit => g[i].start # g[j].start

\* The last c grants are those of the window that starts at s; the others
\* are of windows that ended by then.
LastWindow(g, s, c) ==
  /\ c <= Len(g)
  /\ \A i \in 1..Len(g) : i > Len(g) - c => g[i].start = s
  /\ \A i \in 1..Len(g) : i <= Len(g) - c => s >= g[i].start + Window

EntryIsLastWindow(e, g) ==
  /\ e = NoEntry => Len(g) = 0
  /\ e # NoEntry => LastWindow(g, e.start, e.count)

CallerInv(e, g, t) ==
  /\ GrantsInWindows(g, t)
  /\ WindowsApart(g)
  /\ FirstOpens(g)
  /\ WindowsHoldLimit(g)
  /\ EntryIsLastWindow(e, g)

LimiterInv ==
  /\ LimiterTypeOK
  /\ \A k \in Callers : CallerInv(entries[k], grants[k], time)

LEMMA GrantsAreTimed ==
  ASSUME NEW g \in Seq(Grant), NEW i \in 1..Len(g)
  PROVE  g[i].at \in Nat /\ g[i].start \in Nat
<1>1. g[i] \in Grant
  OBVIOUS
<1> QED BY <1>1 DEF Grant

\* Who has made no request satisfies the invariant.
LEMMA NobodyYet == ASSUME NEW t PROVE CallerInv(NoEntry, <<>>, t)
<1>1. Len(<<>>) = 0 /\ 1..Len(<<>>) = {}
  OBVIOUS
<1>2. GrantsInWindows(<<>>, t) /\ WindowsApart(<<>>) /\ FirstOpens(<<>>) /\ WindowsHoldLimit(<<>>)
  BY <1>1 DEF GrantsInWindows, WindowsApart, FirstOpens, WindowsHoldLimit
<1> QED BY <1>1, <1>2 DEF CallerInv, EntryIsLastWindow

\* One grant more: what allow does to a caller whose next request falls in the
\* window that starts at s, which holds the c last grants.
LEMMA OneMoreGrant ==
  ASSUME NEW g \in Seq(Grant), NEW t \in Nat, NEW s \in Nat, NEW c \in Nat,
         GrantsInWindows(g, t), WindowsApart(g), FirstOpens(g), WindowsHoldLimit(g),
         LastWindow(g, s, c), c < Limit, s <= t, t < s + Window, c = 0 => s = t
  PROVE  CallerInv([start |-> s, count |-> c + 1], Append(g, [at |-> t, start |-> s]), t)
<1> DEFINE n == Len(g)
           h == Append(g, [at |-> t, start |-> s])
<1>1. n \in Nat /\ Limit \in Nat \ {0} /\ Window \in Nat \ {0}
  BY LimitAssumption
<1>2. \A i \in 1..n : g[i].at \in Nat /\ g[i].start \in Nat
  BY GrantsAreTimed
<1>3. /\ Len(h) = n + 1
      /\ h[n + 1].at = t /\ h[n + 1].start = s
      /\ \A i \in 1..n : h[i].at = g[i].at /\ h[i].start = g[i].start
  BY DEF Grant
<1>4. /\ c <= n
      /\ \A i \in 1..n : i > n - c => g[i].start = s
      /\ \A i \in 1..n : i <= n - c => s >= g[i].start + Window
  BY DEF LastWindow
<1>5. GrantsInWindows(h, t)
  <2>1. \A i \in 1..n :
          g[i].start <= g[i].at /\ g[i].at < g[i].start + Window /\ g[i].at <= t
    BY DEF GrantsInWindows
  <2> HIDE DEF h, n
  <2> QED BY <2>1, <1>1, <1>3 DEF GrantsInWindows
<1>6. WindowsApart(h)
  <2>1. \A i, j \in 1..n : i <= j =>
          g[j].start = g[i].start \/ g[j].start >= g[i].start + Window
    BY DEF WindowsApart
  <2> HIDE DEF h, n
  <2>2. \A i \in 1..n : s = g[i].start \/ s >= g[i].start + Window
    BY <1>1, <1>4
  <2> SUFFICES ASSUME NEW i \in 1..(n + 1), NEW j \in 1..(n + 1), i <= j
               PROVE  h[j].start = h[i].start \/ h[j].start >= h[i].start + Window
    BY <1>3 DEF WindowsApart
  <2>3. CASE j = n + 1 /\ i = n + 1
    BY <2>3
  <2>4. CASE j = n + 1 /\ i \in 1..n
    BY <2>2, <2>4, <1>3
  <2>5. CASE j \in 1..n /\ i \in 1..n
    BY <2>1, <2>5, <1>3
  <2> QED BY <2>3, <2>4, <2>5, <1>1
<1>7. FirstOpens(h)
  <2> SUFFICES ASSUME NEW i \in 1..(n + 1)
               PROVE  h[i].at = h[i].start \/ (i > 1 /\ h[i - 1].start = h[i].start)
    BY <1>3 DEF FirstOpens
  <2>1. CASE i \in 1..n
    <3>1. g[i].at = g[i].start \/ (i > 1 /\ g[i - 1].start = g[i].start)
      BY <2>1 DEF FirstOpens
    <3>2. h[i].at = g[i].at /\ h[i].start = g[i].start
      BY <2>1, <1>3
    <3>3. i > 1 => h[i - 1].start = g[i - 1].start
      <4> HIDE DEF h, n
      <4>1. i > 1 => i - 1 \in 1..n
        BY <2>1, <1>1
      <4> QED BY <4>1, <1>3
    <3> HIDE DEF h, n
    <3> QED BY <3>1, <3>2, <3>3
  <2> HIDE DEF h, n
  <2>2. CASE i = n + 1 /\ c = 0
    BY <2>2, <1>3
  <2>3. CASE i = n + 1 /\ c # 0
    <3>1. n >= 1 /\ n \in 1..n /\ n > n - c
      BY <2>3, <1>1, <1>4
    <3>2. i - 1 = n /\ i > 1
      BY <2>3, <3>1, <1>1
    <3>3. h[n].start = g[n].start /\ g[n].start = s
      BY <3>1, <1>3, <1>4
    <3>4. h[i].start = s
      BY <2>3, <1>3
    <3> QED BY <3>2, <3>3, <3>4
  <2> QED BY <2>1, <2>2, <2>3, <1>1
<1>8. WindowsHoldLimit(h)
  <2>1. \A i, j \in 1..n : j >= i + Limit => g[i].start # g[j].start
    BY DEF WindowsHoldLimit
  <2> HIDE DEF h, n
  <2> SUFFICES ASSUME NEW i \in 1..(n + 1), NEW j \in 1..(n + 1), j >= i + Limit
               PROVE  h[i].start # h[j].start
    BY <1>3 DEF WindowsHoldLimit
  <2>2. CASE j \in 1..n
    <3>1. i \in 1..n
      BY <2>2, <1>1
    <3> QED BY <3>1, <2>1, <2>2, <1>3
  <2>3. CASE j = n + 1
    <3>1. i \in 1..n /\ i <= n - c
      BY <2>3, <1>1
    <3>2. s >= g[i].start + Window
      BY <3>1, <1>4
    <3> QED BY <3>1, <3>2, <2>3, <1>1, <1>2, <1>3
  <2> QED BY <2>2, <2>3, <1>1
<1>9. LastWindow(h, s, c + 1)
  <2> HIDE DEF h, n
  <2>1. c + 1 <= n + 1 /\ (n + 1) - (c + 1) = n - c
    BY <1>1, <1>4
  <2>2. ASSUME NEW i \in 1..(n + 1), i > n - c
        PROVE  h[i].start = s
    <3>1. CASE i \in 1..n
      BY <2>2, <3>1, <1>3, <1>4
    <3>2. CASE i = n + 1
      BY <3>2, <1>3
    <3> QED BY <3>1, <3>2, <1>1
  <2>3. ASSUME NEW i \in 1..(n + 1), i <= n - c
        PROVE  s >= h[i].start + Window
    <3>1. i \in 1..n
      BY <2>3, <1>1
    <3> QED BY <2>3, <3>1, <1>3, <1>4
  <2> QED BY <2>1, <2>2, <2>3, <1>3 DEF LastWindow
<1>10. [start |-> s, count |-> c + 1] # NoEntry
  BY NoEntryAssumption
<1> QED
  BY <1>5, <1>6, <1>7, <1>8, <1>9, <1>10 DEF CallerInv, EntryIsLastWindow

\* The window the next allowed request falls in: the entry's, or a new one
\* that starts when every earlier window has ended.
LEMMA CurrentWindow ==
  ASSUME LimiterInv, NEW k \in Callers, Allowed(k)
  PROVE  /\ Current(k).start \in Nat /\ Current(k).count \in Nat
         /\ Current(k).start <= time /\ time < Current(k).start + Window
         /\ Current(k).count < Limit
         /\ Current(k).count = 0 => Current(k).start = time
         /\ LastWindow(grants[k], Current(k).start, Current(k).count)
<1> DEFINE e == entries[k]
           g == grants[k]
<1>1. /\ time \in Nat /\ g \in Seq(Grant) /\ Len(g) \in Nat
      /\ e = NoEntry \/ (e.start \in Nat /\ e.count \in 1..Limit)
      /\ Limit \in Nat \ {0} /\ Window \in Nat \ {0}
  BY LimitAssumption DEF LimiterInv, LimiterTypeOK, Grant
<1>2. \A i \in 1..Len(g) : g[i].start \in Nat /\ g[i].at \in Nat
  BY <1>1, GrantsAreTimed
<1>3. GrantsInWindows(g, time) /\ EntryIsLastWindow(e, g)
  BY DEF LimiterInv, CallerInv
<1>4. \A i \in 1..Len(g) : g[i].start <= g[i].at /\ g[i].at <= time
  BY <1>3 DEF GrantsInWindows
<1>5. CASE e = NoEntry
  <2>1. Current(k) = [start |-> time, count |-> 0]
    BY <1>5 DEF Current
  <2>2. Len(g) = 0
    BY <1>3, <1>5 DEF EntryIsLastWindow
  <2>3. LastWindow(g, time, 0)
    BY <2>2 DEF LastWindow
  <2> QED BY <1>1, <2>1, <2>3
<1>6. CASE e # NoEntry
  <2>1. LastWindow(g, e.start, e.count) /\ e.start \in Nat /\ e.count \in 1..Limit
    BY <1>1, <1>3, <1>6 DEF EntryIsLastWindow
  <2>2. /\ e.count <= Len(g)
        /\ \A i \in 1..Len(g) : i > Len(g) - e.count => g[i].start = e.start
        /\ \A i \in 1..Len(g) : i <= Len(g) - e.count => e.start >= g[i].start + Window
    BY <2>1 DEF LastWindow
  <2> HIDE DEF e, g
  <2>3. CASE time >= e.start + Window
    <3>1. Current(k) = [start |-> time, count |-> 0]
      BY <2>3 DEF Current, e
    <3>2. \A i \in 1..Len(g) : time >= g[i].start + Window
      <4> SUFFICES ASSUME NEW i \in 1..Len(g) PROVE time >= g[i].start + Window
        OBVIOUS
      <4>1. CASE i > Len(g) - e.count
        BY <4>1, <2>2, <2>3
      <4>2. CASE i <= Len(g) - e.count
        <5>1. e.start >= g[i].start + Window
          BY <4>2, <2>2
        <5> QED BY <5>1, <1>1, <1>2, <2>1, <2>3
      <4> QED BY <4>1, <4>2, <1>1, <2>1
    <3>3. LastWindow(g, time, 0)
      BY <1>1, <3>2 DEF LastWindow
    <3> QED BY <1>1, <3>1, <3>3 DEF g
  <2>4. CASE ~(time >= e.start + Window)
    <3>1. Current(k) = e
      BY <1>6, <2>4 DEF Current, e
    <3>2. Len(g) \in 1..Len(g) /\ Len(g) > Len(g) - e.count
      BY <1>1, <2>1, <2>2
    <3>3. e.start <= time
      BY <1>1, <1>2, <1>4, <2>1, <2>2, <3>2
    <3>4. e.count < Limit
      BY <3>1 DEF Allowed
    <3> QED BY <1>1, <2>1, <2>4, <3>1, <3>3, <3>4 DEF g
  <2> QED BY <2>3, <2>4
<1> QED BY <1>5, <1>6

\* A grant keeps the invariant.
LEMMA AllowKeepsInv == ASSUME LimiterInv, NEW k \in Callers, Allow(k) PROVE LimiterInv'
<1> DEFINE s == Current(k).start
           c == Current(k).count
           e == [start |-> s, count |-> c + 1]
           h == Append(grants[k], [at |-> time, start |-> s])
<1>1. /\ time' = time
      /\ entries' = [entries EXCEPT ![k] = e]
      /\ grants' = [grants EXCEPT ![k] = h]
  BY DEF Allow
<1>2. /\ time \in Nat
      /\ entries \in [Callers -> Entry \cup {NoEntry}] /\ grants \in [Callers -> Seq(Grant)]
      /\ \A q \in Callers : CallerInv(entries[q], grants[q], time)
  BY DEF LimiterInv, LimiterTypeOK, Entry, Grant
<1>3. /\ s \in Nat /\ c \in Nat /\ s <= time /\ time < s + Window /\ c < Limit
      /\ c = 0 => s = time
      /\ LastWindow(grants[k], s, c)
  BY CurrentWindow DEF Allow
<1> HIDE DEF s, c
<1>4. e \in Entry /\ h \in Seq(Grant)
  BY <1>2, <1>3, LimitAssumption DEF Entry, Grant
<1>5. CallerInv(e, h, time)
  BY <1>2, <1>3, OneMoreGrant DEF CallerInv
<1> HIDE DEF e, h
<1>6. LimiterTypeOK'
  <2>1. entries' \in [Callers -> Entry \cup {NoEntry}] /\ grants' \in [Callers -> Seq(Grant)]
    BY <1>1, <1>2, <1>4
  <2> QED BY <1>1, <1>2, <2>1 DEF LimiterTypeOK, Entry, Grant
<1>7. ASSUME NEW q \in Callers PROVE CallerInv(entries'[q], grants'[q], time')
  <2>1. CASE q = k
    BY <1>1, <1>2, <1>5, <2>1
  <2>2. CASE q # k
    BY <1>1, <1>2, <2>2
  <2> QED BY <2>1, <2>2
<1> QED BY <1>6, <1>7 DEF LimiterInv

\* So does the time: grants only grow older.
LEMMA TimeKeepsInv == ASSUME LimiterInv, TimePasses PROVE LimiterInv'
<1>1. time \in Nat /\ time' = time + 1 /\ entries' = entries /\ grants' = grants
  BY DEF TimePasses, LimiterInv, LimiterTypeOK
<1>2. LimiterTypeOK'
  BY <1>1 DEF LimiterInv, LimiterTypeOK
<1>3. ASSUME NEW k \in Callers PROVE CallerInv(entries[k], grants[k], time + 1)
  <2>1. CallerInv(entries[k], grants[k], time) /\ grants[k] \in Seq(Grant)
    BY DEF LimiterInv, LimiterTypeOK, Grant
  <2>2. \A i \in 1..Len(grants[k]) : grants[k][i].at \in Nat
    BY <2>1, GrantsAreTimed
  <2>3. GrantsInWindows(grants[k], time + 1)
    BY <1>1, <2>1, <2>2 DEF CallerInv, GrantsInWindows
  <2> QED BY <2>1, <2>3 DEF CallerInv
<1> QED BY <1>1, <1>2, <1>3 DEF LimiterInv

LEMMA LimiterInvInvariant == LimiterSpec => []LimiterInv
<1>1. LimiterInit => LimiterInv
  <2> SUFFICES ASSUME LimiterInit PROVE LimiterInv
    OBVIOUS
  <2>1. LimiterTypeOK
    BY DEF LimiterInit, LimiterTypeOK
  <2> QED BY <2>1, NobodyYet DEF LimiterInit, LimiterInv
<1>2. LimiterInv /\ [LimiterNext]_limiterVars => LimiterInv'
  <2> SUFFICES ASSUME LimiterInv, [LimiterNext]_limiterVars PROVE LimiterInv'
    OBVIOUS
  <2>1. ASSUME NEW k \in Callers, Allow(k) PROVE LimiterInv'
    BY <2>1, AllowKeepsInv
  <2>2. CASE Restart
    <3>1. LimiterTypeOK'
      BY <2>2 DEF Restart, LimiterInv, LimiterTypeOK
    <3>2. ASSUME NEW k \in Callers PROVE entries'[k] = NoEntry /\ grants'[k] = <<>>
      BY <2>2 DEF Restart
    <3> QED BY <3>1, <3>2, NobodyYet DEF LimiterInv
  <2>3. CASE TimePasses
    BY <2>3, TimeKeepsInv
  <2>4. CASE UNCHANGED limiterVars
    BY <2>4 DEF limiterVars, LimiterInv, LimiterTypeOK
  <2> QED BY <2>1, <2>2, <2>3, <2>4 DEF LimiterNext
<1> QED BY <1>1, <1>2, PTL DEF LimiterSpec

\* The type invariant, part of the inductive one.
THEOREM LimiterTypes == LimiterSpec => []LimiterTypeOK
<1>1. LimiterInv => LimiterTypeOK
  BY DEF LimiterInv
<1> QED BY <1>1, LimiterInvInvariant, PTL

\* However a caller places its requests around the end of a window, at most
\* 2 * Limit - 1 are allowed within one length of a window (allow).  Grant j is
\* Limit after grant m = i + Limit - 1, so in a later window; and either m is
\* already in a later window than i, or i opens the window they share.
THEOREM LimiterBoundsBursts == LimiterSpec => []BurstsAreBounded
<1>1. ASSUME LimiterInv PROVE BurstsAreBounded
  <2> SUFFICES ASSUME NEW k \in Callers, NEW i \in 1..Len(grants[k]), NEW j \in 1..Len(grants[k]),
                      j - i >= 2 * Limit - 1
               PROVE  grants[k][j].at >= grants[k][i].at + Window
    BY DEF BurstsAreBounded
  <2> DEFINE g == grants[k]
             n == Len(g)
             m == i + Limit - 1
  <2>1. CallerInv(entries[k], g, time) /\ g \in Seq(Grant) /\ n \in Nat
    BY <1>1 DEF LimiterInv, LimiterTypeOK, Grant
  <2>2. \A q \in 1..n : g[q].start \in Nat /\ g[q].at \in Nat
    BY <2>1, GrantsAreTimed
  <2>3. \A q \in 1..n : g[q].start <= g[q].at /\ g[q].at < g[q].start + Window
    BY <2>1 DEF CallerInv, GrantsInWindows
  <2>4. \A p, q \in 1..n : p <= q =>
          g[q].start = g[p].start \/ g[q].start >= g[p].start + Window
    BY <2>1 DEF CallerInv, WindowsApart
  <2>5. \A p, q \in 1..n : q >= p + Limit => g[p].start # g[q].start
    BY <2>1 DEF CallerInv, WindowsHoldLimit
  <2>6. g[i].at = g[i].start \/ (i > 1 /\ g[i - 1].start = g[i].start)
    BY <2>1 DEF CallerInv, FirstOpens
  <2>7. Limit \in Nat \ {0} /\ Window \in Nat \ {0} /\ i \in 1..n /\ j \in 1..n
    BY LimitAssumption
  <2> HIDE DEF g, n
  <2>8. m \in 1..n /\ i <= m /\ m <= j /\ j >= m + Limit
    BY <2>1, <2>7
  <2>9. g[j].start >= g[m].start + Window
    BY <2>4, <2>5, <2>7, <2>8
  <2>10. CASE g[m].start = g[i].start
    <3>1. i > 1 => i - 1 \in 1..n /\ m >= (i - 1) + Limit
      BY <2>1, <2>7
    <3>2. g[i].at = g[i].start
      BY <2>5, <2>6, <2>8, <2>10, <3>1
    <3>3. /\ g[i].start \in Nat /\ g[i].at = g[i].start /\ g[j].start \in Nat
          /\ g[j].at \in Nat /\ g[j].start <= g[j].at /\ Window \in Nat
      BY <2>2, <2>3, <2>7, <3>2
    <3>4. g[j].start >= g[i].start + Window
      BY <2>9, <2>10
    <3>5. \A a, b, c \in Nat : b >= a + Window /\ b <= c => c >= a + Window
      BY <3>3
    <3>6. g[j].at >= g[i].at + Window
      BY <3>3, <3>4, <3>5
    <3> QED BY <3>6 DEF g
  <2>11. CASE g[m].start >= g[i].start + Window
    <3>1. /\ g[i].start \in Nat /\ g[i].at \in Nat /\ g[m].start \in Nat
          /\ g[j].start \in Nat /\ g[j].at \in Nat
      BY <2>2, <2>7, <2>8
    <3>2. g[j].start <= g[j].at /\ g[i].at < g[i].start + Window
      BY <2>3, <2>7
    <3> HIDE DEF m
    <3>3. g[i].at <= g[m].start
      BY <2>7, <2>11, <3>1, <3>2
    <3>4. g[m].start + Window <= g[j].at
      BY <2>7, <2>9, <3>1, <3>2
    <3>5. Window \in Nat
      BY <2>7
    <3>6. \A a, b, c \in Nat : a <= b /\ b + Window <= c => c >= a + Window
      BY <3>5
    <3>7. g[j].at >= g[i].at + Window
      BY <3>1, <3>3, <3>4, <3>6
    <3> QED BY <3>7 DEF g
  <2> QED BY <2>4, <2>7, <2>8, <2>10, <2>11
<1> QED BY <1>1, LimiterInvInvariant, PTL

\* A caller that is refused has had Limit requests within the last window's
\* length: no one is turned away for an older request (allow).
THEOREM LimiterRefusesLate == LimiterSpec => []RefusalsAreEarned
<1>1. ASSUME LimiterInv PROVE RefusalsAreEarned
  <2> SUFFICES ASSUME NEW k \in Callers, ~Allowed(k)
               PROVE  /\ Len(grants[k]) >= Limit
                      /\ \A i \in 1..Len(grants[k]) :
                           i > Len(grants[k]) - Limit => time < grants[k][i].at + Window
    BY DEF RefusalsAreEarned
  <2> DEFINE e == entries[k]
             g == grants[k]
  <2>1. /\ time \in Nat /\ g \in Seq(Grant) /\ Len(g) \in Nat
        /\ e = NoEntry \/ (e.start \in Nat /\ e.count \in 1..Limit)
        /\ Limit \in Nat \ {0} /\ Window \in Nat \ {0}
        /\ CallerInv(e, g, time)
    BY <1>1, LimitAssumption DEF LimiterInv, LimiterTypeOK, Grant
  <2>2. \A i \in 1..Len(g) : g[i].start \in Nat /\ g[i].at \in Nat /\ g[i].start <= g[i].at
    BY <2>1, GrantsAreTimed DEF CallerInv, GrantsInWindows
  <2>3. e # NoEntry /\ time < e.start + Window /\ Current(k) = e
    <3>1. ~(e = NoEntry \/ time >= e.start + Window)
      <4> SUFFICES ASSUME e = NoEntry \/ time >= e.start + Window PROVE FALSE
        OBVIOUS
      <4>1. Current(k) = [start |-> time, count |-> 0]
        BY DEF Current
      <4> QED BY <2>1, <4>1 DEF Allowed
    <3> QED BY <2>1, <3>1 DEF Current
  <2>4. e.count = Limit
    BY <2>1, <2>3 DEF Allowed
  <2>5. LastWindow(g, e.start, e.count)
    BY <2>1, <2>3 DEF CallerInv, EntryIsLastWindow
  <2>6. Len(g) >= Limit /\ \A i \in 1..Len(g) : i > Len(g) - Limit => g[i].start = e.start
    BY <2>1, <2>4, <2>5 DEF LastWindow
  <2>7. ASSUME NEW i \in 1..Len(g), i > Len(g) - Limit
        PROVE  time < g[i].at + Window
    <3>1. /\ g[i].start = e.start /\ g[i].start \in Nat
          /\ g[i].at \in Nat /\ g[i].start <= g[i].at
      BY <2>2, <2>6, <2>7
    <3> QED BY <2>1, <2>3, <3>1
  <2> QED BY <2>6, <2>7
<1> QED BY <1>1, LimiterInvInvariant, PTL
=============================================================================
