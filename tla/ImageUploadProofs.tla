------------------------- MODULE ImageUploadProofs --------------------------
(***************************************************************************)
(* Proofs about ImageUpload for any images, jobs, servers, attempts, sizes *)
(* and faults: types, the watch over undecided images, the objects behind  *)
(* references, and the retry queue as an implementation of TaskQueue.      *)
(***************************************************************************)
EXTENDS ImageUpload, TLAPS

(* The provider still works on the image. *)
OpenJob(i) == \E j \in Job : job[i][j] = "open"

(* The claim of a server goes back to a row that had attempts left and to an *)
(* image that was complete; what it believes of the verdict is no news; and  *)
(* an accepted submission is a job the image can be watched by.              *)
ClaimSound(c, i) ==
    /\ c.pc # "none" => asset[i].url # "" /\ c.att < MaxAttempts
    /\ c.mod # "pending" => asset[i].mod # "pending"
    /\ c.pc = "accepted" => asset[i].mod # "pending" \/ asset[i].url = "purged" \/ OpenJob(i)

(* What an image's rows, its object and the sweep say about each other. *)
ImageSound(i) ==
    /\ asset[i].st = "none" => asset[i].url = ""
    /\ asset[i].url = "" => asset[i].mod = "pending" /\ retry[i].st = "none"
    /\ asset[i].used => asset[i].url = "live" /\ i \notin sweep.todo \cup sweep.gone
    /\ asset[i].url = "live" => obj[i] # None \/ i \in lost \cup sweep.gone
    /\ asset[i].url = "live" /\ asset[i].mod = "pending" => OpenJob(i) \/ retry[i].st # "none"
    /\ \A j \in Job : job[i][j] = "heard" => asset[i].mod # "pending"
    /\ retry[i].st = "pending" => retry[i].att < MaxAttempts

(* A completion holds its row against the sweep, and what it has seen stays. *)
RequestSound ==
    /\ req.pc # "idle" => req.i \in Image
    /\ req.pc \in {"submit", "commit"} =>
          /\ req.i \notin sweep.todo \cup sweep.gone
          /\ asset[req.i].st # "none" /\ asset[req.i].url = "" /\ obj[req.i] # None
    /\ req.pc = "commit" => req.ans \in Answer
    /\ req.pc = "commit" /\ req.ans = "accepted" => OpenJob(req.i)

(* The inductive invariant. *)
Sound ==
    /\ TypeOK
    /\ RequestSound
    /\ \A i \in Image : ImageSound(i)
    /\ \A s \in Server, i \in Image : ClaimSound(srv[s].claim[i], i)

(* The verdicts that messages carry are verdicts. *)
LEMMA DeliveredIsVerdict == Delivered \subseteq Verdict
  BY DEF Delivered, DecodeImageCallback, verdictFromResult, Message, Verdict

(* No verdict is "pending". *)
LEMMA VerdictDecides == \A v \in Verdict : v # "pending"
  BY DEF Verdict

(* A submission opens at most a job that was free, and one it accepts opens one. *)
LEMMA SubmitJobs ==
  ASSUME TypeOK, NEW i \in Image, NEW ans \in Answer, SubmitImage(i, ans)
  PROVE  /\ job' \in [Image -> [Job -> {"free", "open", "heard", "dropped"}]]
         /\ \A k \in Image, j \in Job : job'[k][j] \in {job[k][j], "open"}
         /\ ans = "accepted" => \E j \in Job : job'[i][j] = "open"
<1>1. CASE UNCHANGED job /\ ans # "accepted"
  BY <1>1 DEF TypeOK
<1>2. CASE \E j \in Job : job' = [job EXCEPT ![i][j] = "open"]
  BY <1>2 DEF TypeOK
<1> QED  BY <1>1, <1>2 DEF SubmitImage

(* The empty rows have their types. *)
LEMMA EmptyRows ==
  /\ NoAsset \in AssetRow /\ NoAsset.st = "none" /\ NoAsset.url = "" /\ NoAsset.mod = "pending" /\ ~NoAsset.used
  /\ NoRetry \in RetryRow /\ NoRetry.st = "none" /\ NoRetry.tok = None
  /\ NoRequest \in RequestState /\ NoRequest.pc = "idle"
  /\ NoSweep \in SweepState /\ NoSweep.todo = {} /\ NoSweep.gone = {}
  /\ NoClaim \in ClaimState /\ NoClaim.pc = "none" /\ NoClaim.mod = "pending"
  /\ NoClaims \in [Image -> ClaimState] /\ \A i \in Image : NoClaims[i] = NoClaim
<1>1. NoAsset \in AssetRow  BY SizeAssumption DEF NoAsset, AssetRow, Size
<1>2. NoRetry \in RetryRow  BY AttemptAssumption DEF NoRetry, RetryRow
<1>3. NoClaim \in ClaimState  BY AttemptAssumption DEF NoClaim, ClaimState
<1> QED
  BY <1>1, <1>2, <1>3
  DEF NoAsset, NoRetry, NoRequest, RequestState, NoSweep, SweepState, NoClaim, NoClaims

(* The empty state is sound. *)
LEMMA InitSound == Init => Sound
<1> SUFFICES ASSUME Init PROVE Sound  OBVIOUS
<1>0. 0 \in 0 .. MaxFaults  BY BoundAssumption
<1> USE EmptyRows
<1>1. TypeOK
  <2>2. srv \in [Server -> [up : BOOLEAN, claim : [Image -> ClaimState]]]  BY DEF Init
  <2>3. sweep \in SweepState /\ req \in RequestState /\ lost \in SUBSET Image  BY DEF Init
  <2>4. asset \in [Image -> AssetRow] /\ retry \in [Image -> RetryRow]  BY DEF Init
  <2>5. /\ obj \in [Image -> Size \cup {None}]
        /\ job \in [Image -> [Job -> {"free", "open", "heard", "dropped"}]]
    BY DEF Init
  <2> QED  BY <1>0, <2>2, <2>3, <2>4, <2>5 DEF Init, TypeOK
<1>2. RequestSound  BY DEF Init, RequestSound
<1>3. ASSUME NEW i \in Image PROVE ImageSound(i)
  BY <1>3 DEF Init, ImageSound
<1>4. ASSUME NEW s \in Server, NEW i \in Image PROVE ClaimSound(srv[s].claim[i], i)
  BY <1>4 DEF Init, ClaimSound
<1> QED  BY <1>1, <1>2, <1>3, <1>4 DEF Sound

-----------------------------------------------------------------------------
(* An image whose rows, jobs and object a step leaves alone, and whose sweep  *)
(* does not end, stays sound.                                                *)
LEMMA ImageFrame ==
  ASSUME NEW i, ImageSound(i), asset'[i] = asset[i], obj'[i] = obj[i], job'[i] = job[i],
         retry'[i] = retry[i], i \in lost \cup sweep.gone => i \in lost' \cup sweep'.gone,
         asset[i].used /\ i \notin sweep.todo \cup sweep.gone => i \notin sweep'.todo \cup sweep'.gone
  PROVE  ImageSound(i)'
  BY DEF ImageSound, OpenJob

(* Only the row of one asset changes, and perhaps a request ends: neither its *)
(* address nor, but for a block, its verdict changes, and it is taken into    *)
(* use only outside the sweep.                                                *)
LEMMA AssetUpdate ==
  ASSUME Sound, NEW i \in Image, NEW q \in AssetRow,
         asset' = [asset EXCEPT ![i] = q],
         q.url = asset[i].url, q.st = "none" => asset[i].st = "none",
         q.mod = asset[i].mod \/ (q.mod = "block" /\ q.url # ""),
         q.used => q.url = "live" /\ i \notin sweep.todo \cup sweep.gone,
         req' \in {req, NoRequest},
         UNCHANGED <<obj, job, retry, sweep, srv, lost, faults>>
  PROVE  Sound'
<1>1. TypeOK'  BY EmptyRows DEF Sound, TypeOK
<1>2. \A k \in Image : asset'[k] = IF k = i THEN q ELSE asset[k]
  BY DEF Sound, TypeOK
<1>3. RequestSound'  BY <1>2, EmptyRows, ZenonT(60) DEF Sound, RequestSound, OpenJob
<1>4. ASSUME NEW k \in Image PROVE ImageSound(k)'
  <2>1. CASE k # i  BY <1>2, <2>1, ImageFrame DEF Sound
  <2>2. CASE k = i
    <3>1. ImageSound(i)  BY DEF Sound
    <3> QED  BY <1>2, <2>2, <3>1 DEF ImageSound, OpenJob
  <2> QED  BY <2>1, <2>2
<1>5. ASSUME NEW s \in Server, NEW k \in Image PROVE ClaimSound(srv[s].claim[k], k)'
  <2>1. ClaimSound(srv[s].claim[k], k)  BY DEF Sound
  <2> QED  BY <1>2, <2>1 DEF ClaimSound, OpenJob
<1> QED  BY <1>1, <1>3, <1>4, <1>5 DEF Sound

LEMMA UploaderSteps ==
  ASSUME Sound, NEW i \in Image,
         \/ \E p \in {"post", "avatar"}, n \in Size : Presign(i, p, n)
         \/ Age(i) \/ Unbind(i) \/ applyAdminPostDeleteImage(i)
  PROVE  Sound'
<1>0. asset[i] \in AssetRow /\ ImageSound(i)  BY DEF Sound, TypeOK
<1>1. ASSUME NEW p \in {"post", "avatar"}, NEW n \in Size, Presign(i, p, n) PROVE Sound'
  <2> DEFINE q == [NoAsset EXCEPT !.st = "pending", !.purpose = p, !.size = n]
  <2>1. q \in AssetRow /\ q.st = "pending" /\ q.url = "" /\ q.mod = "pending" /\ ~q.used
    BY EmptyRows DEF AssetRow, NoAsset
  <2>2. asset' = [asset EXCEPT ![i] = q] /\ asset[i].st = "none"  BY <1>1 DEF Presign
  <2> HIDE DEF q
  <2>3. asset[i].url = "" /\ asset[i].mod = "pending"  BY <1>0, <2>2 DEF ImageSound
  <2> QED  BY <1>1, <2>1, <2>2, <2>3, AssetUpdate, ZenonT(60) DEF Presign
<1>2. CASE Age(i)
  <2> DEFINE q == [asset[i] EXCEPT !.old = TRUE]
  <2>1. /\ q \in AssetRow /\ q.st = asset[i].st /\ q.url = asset[i].url /\ q.mod = asset[i].mod
        /\ q.used = asset[i].used
    BY <1>0 DEF AssetRow
  <2>2. asset' = [asset EXCEPT ![i] = q]  BY <1>2 DEF Age
  <2>3. /\ q.st = "none" => asset[i].st = "none"
        /\ q.used => q.url = "live" /\ i \notin sweep.todo \cup sweep.gone
    BY <1>0, <2>1 DEF ImageSound
  <2> HIDE DEF q
  <2> QED  BY <1>2, <2>1, <2>2, <2>3, AssetUpdate DEF Age
<1>3. CASE Unbind(i)
  <2> DEFINE q == [asset[i] EXCEPT !.used = FALSE, !.st = "retired"]
  <2>1. q \in AssetRow /\ q.st = "retired" /\ q.url = asset[i].url /\ q.mod = asset[i].mod /\ ~q.used
    BY <1>0 DEF AssetRow
  <2>2. asset' = [asset EXCEPT ![i] = q]  BY <1>3 DEF Unbind
  <2> HIDE DEF q
  <2> QED  BY <1>0, <1>3, <2>1, <2>2, AssetUpdate DEF Unbind
<1>4. CASE applyAdminPostDeleteImage(i)
  <2> DEFINE q == [asset[i] EXCEPT !.mod = "block"]
  <2>1. /\ q \in AssetRow /\ q.st = asset[i].st /\ q.url = asset[i].url /\ q.mod = "block"
        /\ q.used = asset[i].used
    BY <1>0 DEF AssetRow, Verdict
  <2>2. asset' = [asset EXCEPT ![i] = q] /\ asset[i].used  BY <1>4 DEF applyAdminPostDeleteImage
  <2>3. /\ q.st = "none" => asset[i].st = "none"
        /\ q.url = "live" /\ i \notin sweep.todo \cup sweep.gone
    BY <1>0, <2>1, <2>2 DEF ImageSound
  <2> HIDE DEF q
  <2> QED  BY <1>4, <2>1, <2>2, <2>3, AssetUpdate DEF applyAdminPostDeleteImage
<1> QED  BY <1>1, <1>2, <1>3, <1>4

(* A reference is written only when the locked row has a live address. *)
LEMMA BindSound == Sound /\ Bind => Sound'
<1> SUFFICES ASSUME Sound, Bind PROVE Sound'  OBVIOUS
<1> DEFINE i == req.i
<1>0. i \in Image /\ asset[i] \in AssetRow /\ ImageSound(i)
  BY DEF Sound, TypeOK, RequestSound, Bind
<1> HIDE DEF i
<1> DEFINE q == IF resolveAvatar(i) THEN [asset[i] EXCEPT !.st = "ready", !.used = TRUE] ELSE asset[i]
<1>1. q \in AssetRow /\ q.url = asset[i].url /\ q.mod = asset[i].mod
  BY <1>0 DEF AssetRow
<1>2. q.used => asset[i].used \/ asset[i].url = "live"
  BY <1>0 DEF resolveAvatar
<1>3. q.st = "none" => asset[i].st = "none"
  BY <1>0 DEF AssetRow
<1>4. asset' = [asset EXCEPT ![i] = q] /\ i \notin sweep.todo \cup sweep.gone
  BY DEF Bind, Free, i
<1>5. /\ q.st = "none" => asset[i].st = "none"
      /\ q.used => q.url = "live"
  BY <1>0, <1>1, <1>2, <1>3 DEF ImageSound
<1>6. req' \in {req, NoRequest} /\ UNCHANGED <<obj, job, retry, sweep, srv, lost, faults>>
  BY DEF Bind
<1> HIDE DEF q
<1> QED  BY <1>0, <1>1, <1>4, <1>5, <1>6, AssetUpdate

(* A request looks at the object or at an address, or ends; the client uploads. *)
LEMMA RequestSteps ==
  ASSUME Sound, NEW i \in Image,
         (\E n \in Size : PutObject(i, n)) \/ Complete(i) \/ FindImagesByURLs(i) \/ Rollback
  PROVE  Sound'
<1>0. ImageSound(i) /\ TypeOK  BY DEF Sound
<1>1. UNCHANGED <<asset, job, retry, sweep, srv, lost, faults>>
  BY DEF PutObject, Complete, FindImagesByURLs, Rollback
<1>2. /\ obj' \in [Image -> Size \cup {None}]
      /\ \A k \in Image : obj'[k] # None \/ obj'[k] = obj[k] \/ (k = i /\ req = NoRequest /\ asset[i].url = "")
  <2>1. \A n \in Size : n # None  BY SizeAssumption, NoneAssumption DEF Size
  <2>2. CASE \E n \in Size : PutObject(i, n)  BY <1>0, <2>1, <2>2 DEF PutObject, TypeOK
  <2>3. CASE Complete(i)  BY <1>0, <2>3 DEF Complete, TypeOK
  <2>4. CASE FindImagesByURLs(i) \/ Rollback  BY <1>0, <2>4 DEF FindImagesByURLs, Rollback, TypeOK
  <2> QED  BY <2>2, <2>3, <2>4
<1>3. /\ req' \in RequestState
      /\ \/ req' = req
         \/ req'.pc = "idle"
         \/ req'.pc = "bind" /\ req'.i = i
         \/ /\ req'.pc = "submit" /\ req'.i = i /\ obj' = obj
            /\ asset[i].st # "none" /\ asset[i].url = "" /\ obj[i] # None /\ i \notin sweep.todo \cup sweep.gone
  <2>1. CASE \E n \in Size : PutObject(i, n)  BY <1>0, <2>1 DEF PutObject, TypeOK
  <2>2. CASE Complete(i) /\ req' # req
    <3>1. req' = [NoRequest EXCEPT !.pc = "submit", !.i = i] /\ obj' = obj /\ HeadObject(i)
      BY <2>2 DEF Complete
    <3>2. req' \in RequestState /\ req'.pc = "submit" /\ req'.i = i
      BY <3>1 DEF NoRequest, RequestState
    <3> QED  BY <2>2, <3>1, <3>2 DEF Complete, Free, HeadObject
  <2>3. CASE FindImagesByURLs(i)
    BY <2>3 DEF FindImagesByURLs, NoRequest, RequestState
  <2>4. CASE Rollback  BY <2>4, EmptyRows DEF Rollback
  <2>5. CASE req' = req  BY <1>0, <2>5 DEF TypeOK
  <2> QED  BY <2>1, <2>2, <2>3, <2>4, <2>5
<1>4. TypeOK'  BY <1>0, <1>1, <1>2, <1>3 DEF TypeOK
<1>5. RequestSound'
  <2>1. CASE req' = req
    BY <1>1, <1>2, <2>1, EmptyRows DEF Sound, RequestSound, OpenJob
  <2>2. CASE req' # req  BY <1>1, <1>3, <2>2 DEF RequestSound
  <2> QED  BY <2>1, <2>2
<1>6. ASSUME NEW k \in Image PROVE ImageSound(k)'
  <2>1. ImageSound(k)  BY DEF Sound
  <2> QED  BY <1>1, <1>2, <2>1 DEF ImageSound, OpenJob
<1>7. ASSUME NEW s \in Server, NEW k \in Image PROVE ClaimSound(srv[s].claim[k], k)'
  <2>1. ClaimSound(srv[s].claim[k], k)  BY DEF Sound
  <2> QED  BY <1>1, <2>1 DEF ClaimSound, OpenJob
<1> QED  BY <1>4, <1>5, <1>6, <1>7 DEF Sound

(* A job is dropped only when its image has no live address, and not while a *)
(* completion counts on it.                                                  *)
LEMMA RefuseSound ==
  ASSUME Sound, NEW i \in Image, NEW j \in Job, RefuseCallback(i, j)
  PROVE  Sound'
<1>0. ImageSound(i) /\ TypeOK /\ RequestSound  BY DEF Sound
<1>1. /\ job' \in [Image -> [Job -> {"free", "open", "heard", "dropped"}]]
      /\ \A k \in Image, m \in Job : job'[k][m] = IF k = i /\ m = j THEN "dropped" ELSE job[k][m]
  BY <1>0 DEF RefuseCallback, TypeOK
<1>2. /\ asset[i].url # "live" /\ job[i][j] = "open"
      /\ UNCHANGED <<asset, obj, retry, req, sweep, srv, lost, faults>>
      /\ req.pc \in {"submit", "commit"} => req.i # i
  BY DEF RefuseCallback, validateCallbackAsset, Free, LockByID
<1>3. TypeOK'  BY <1>0, <1>1, <1>2 DEF TypeOK
<1>4. RequestSound'  BY <1>0, <1>1, <1>2 DEF RequestSound, OpenJob
<1>5. ASSUME NEW k \in Image PROVE ImageSound(k)'
  <2>1. ImageSound(k)  BY DEF Sound
  <2> QED  BY <1>1, <1>2, <2>1 DEF ImageSound, OpenJob
<1>6. ASSUME NEW s \in Server, NEW k \in Image PROVE ClaimSound(srv[s].claim[k], k)'
  <2>1. ClaimSound(srv[s].claim[k], k) /\ asset[i] \in AssetRow  BY <1>0 DEF Sound, TypeOK
  <2>2. asset[i].url \in {"", "purged"}  BY <1>2, <2>1 DEF AssetRow
  <2> QED  BY <1>1, <1>2, <2>1, <2>2 DEF ClaimSound, OpenJob
<1> QED  BY <1>3, <1>4, <1>5, <1>6 DEF Sound

(* A submission made by a completion. *)
LEMMA SubmitSound ==
  ASSUME Sound, NEW ans \in Answer, Complete_submit(ans)
  PROVE  Sound'
<1>0. TypeOK /\ RequestSound /\ req.i \in Image /\ req.pc = "submit"
  BY DEF Sound, RequestSound, Complete_submit
<1>1. /\ job' \in [Image -> [Job -> {"free", "open", "heard", "dropped"}]]
      /\ \A k \in Image, j \in Job : job'[k][j] \in {job[k][j], "open"}
      /\ ans = "accepted" => \E j \in Job : job'[req.i][j] = "open"
  BY <1>0, SubmitJobs DEF Complete_submit
<1>2. req' \in RequestState /\ req'.pc = "commit" /\ req'.i = req.i /\ req'.ans = ans
  BY <1>0 DEF Complete_submit, TypeOK, RequestState
<1>3. UNCHANGED <<asset, obj, retry, sweep, srv, lost, faults>>  BY DEF Complete_submit
<1>4. TypeOK'  BY <1>0, <1>1, <1>2, <1>3 DEF TypeOK
<1>5. RequestSound'  BY <1>0, <1>1, <1>2, <1>3, ZenonT(60) DEF RequestSound, OpenJob
<1>6. ASSUME NEW k \in Image PROVE ImageSound(k)'
  <2>1. ImageSound(k)  BY DEF Sound
  <2>2. OpenJob(k) => OpenJob(k)'  BY <1>1 DEF OpenJob
  <2>3. \A j \in Job : job'[k][j] = "heard" => job[k][j] = "heard"  BY <1>1
  <2> QED  BY <1>3, <2>1, <2>2, <2>3 DEF ImageSound
<1>7. ASSUME NEW s \in Server, NEW k \in Image PROVE ClaimSound(srv[s].claim[k], k)'
  <2>1. ClaimSound(srv[s].claim[k], k)  BY DEF Sound
  <2> QED  BY <1>1, <1>3, <2>1 DEF ClaimSound, OpenJob
<1> QED  BY <1>4, <1>5, <1>6, <1>7 DEF Sound

(* A decision: the asset has a live address, its retry row goes, and at most *)
(* one of its jobs is heard.                                                 *)
LEMMA Decision ==
  ASSUME Sound, NEW i \in Image, NEW q \in AssetRow,
         asset' = [asset EXCEPT ![i] = q],
         asset[i].url = "live", i \notin LockByID,
         q.url = "live", q.st = asset[i].st, q.used = asset[i].used, q.mod # "pending",
         retry' = [retry EXCEPT ![i] = NoRetry],
         job' \in [Image -> [Job -> {"free", "open", "heard", "dropped"}]],
         \A k \in Image : k # i => job'[k] = job[k],
         UNCHANGED <<obj, req, sweep, lost, faults>>,
         srv' \in [Server -> [up : BOOLEAN, claim : [Image -> ClaimState]]],
         \A s \in Server, k \in Image : srv'[s].claim[k] \in {srv[s].claim[k], NoClaim}
  PROVE  Sound'
<1>0. TypeOK /\ RequestSound /\ ImageSound(i)  BY DEF Sound
<1>1. \A k \in Image : asset'[k] = IF k = i THEN q ELSE asset[k]
  BY <1>0 DEF TypeOK
<1>2. \A k \in Image : retry'[k] = IF k = i THEN NoRetry ELSE retry[k]
  BY <1>0 DEF TypeOK
<1>3. TypeOK'  BY <1>0, EmptyRows DEF TypeOK
<1>4. RequestSound'
  <2>1. req.pc \in {"submit", "commit"} => req.i # i  BY DEF LockByID
  <2> QED  BY <1>0, <1>1, <2>1 DEF RequestSound, OpenJob
<1>5. ASSUME NEW k \in Image PROVE ImageSound(k)'
  <2>0. ImageSound(k)  BY DEF Sound
  <2>1. CASE k # i  BY <1>1, <1>2, <2>0, <2>1, ImageFrame
  <2>2. CASE k = i
    <3>1. q.used => i \notin sweep.todo \cup sweep.gone  BY <1>0 DEF ImageSound
    <3>2. q.st # "none" /\ (obj[i] # None \/ i \in lost \cup sweep.gone)  BY <1>0 DEF ImageSound
    <3> QED  BY <1>1, <1>2, <2>2, <3>1, <3>2, EmptyRows, ZenonT(60) DEF ImageSound
  <2> QED  BY <2>1, <2>2
<1>6. ASSUME NEW s \in Server, NEW k \in Image PROVE ClaimSound(srv[s].claim[k], k)'
  <2>1. ClaimSound(srv[s].claim[k], k)  BY DEF Sound
  <2>2. CASE srv'[s].claim[k] = NoClaim  BY <2>2, EmptyRows DEF ClaimSound
  <2>3. CASE srv'[s].claim[k] = srv[s].claim[k]
    BY <1>1, <2>1, <2>3 DEF ClaimSound, OpenJob
  <2> QED  BY <2>2, <2>3
<1> QED  BY <1>3, <1>4, <1>5, <1>6 DEF Sound

LEMMA CallbackSound ==
  ASSUME Sound, NEW i \in Image, NEW j \in Job, NEW v \in Delivered, ApplyImageCallback(i, j, v)
  PROVE  Sound'
<1>0. asset[i] \in AssetRow /\ ImageSound(i) /\ TypeOK  BY DEF Sound, TypeOK
<1> DEFINE w == IF job[i][j] = "heard" THEN asset[i].mod ELSE v
           q == [asset[i] EXCEPT !.mod = w]
<1>1. w \in Verdict \cup {"pending"} /\ w # "pending"
  <2>1. CASE job[i][j] = "heard"  BY <1>0, <2>1 DEF ImageSound, AssetRow
  <2>2. CASE job[i][j] # "heard"  BY <2>2, DeliveredIsVerdict, VerdictDecides
  <2> QED  BY <2>1, <2>2
<1>2. asset' = [asset EXCEPT ![i] = q] /\ asset[i].url = "live" /\ i \notin LockByID
  BY DEF ApplyImageCallback, validateCallbackAsset, Free
<1> HIDE DEF w
<1>3. /\ q \in AssetRow /\ q.url = asset[i].url /\ q.st = asset[i].st /\ q.used = asset[i].used
      /\ q.mod = w
  BY <1>0, <1>1 DEF AssetRow
<1> HIDE DEF q
<1>4. /\ job' \in [Image -> [Job -> {"free", "open", "heard", "dropped"}]]
      /\ \A k \in Image : k # i => job'[k] = job[k]
  BY <1>0 DEF ApplyImageCallback, TypeOK
<1>5. /\ retry' = [retry EXCEPT ![i] = NoRetry]
      /\ UNCHANGED <<obj, req, sweep, srv, lost, faults>>
  BY DEF ApplyImageCallback, DeleteForAsset
<1>6. srv' \in [Server -> [up : BOOLEAN, claim : [Image -> ClaimState]]]  BY <1>0, <1>5 DEF TypeOK
<1> QED  BY <1>1, <1>2, <1>3, <1>4, <1>5, <1>6, Decision

LEMMA ImmediateSound ==
  ASSUME Sound, NEW s \in Server, NEW i \in Image, NEW v \in Verdict, applyImmediate(s, i, v)
  PROVE  Sound'
<1>0. asset[i] \in AssetRow /\ TypeOK /\ RequestSound  BY DEF Sound, TypeOK
<1>1. /\ srv' \in [Server -> [up : BOOLEAN, claim : [Image -> ClaimState]]]
      /\ \A t \in Server, k \in Image :
            srv'[t].claim[k] = IF t = s /\ k = i THEN NoClaim ELSE srv[t].claim[k]
  <2>1. srv' = [srv EXCEPT ![s].claim[i] = NoClaim]  BY DEF applyImmediate
  <2>2. NoClaim \in ClaimState  BY EmptyRows
  <2> QED  BY <1>0, <2>1, <2>2 DEF TypeOK
<1>2. UNCHANGED <<obj, job, req, sweep, lost, faults>>  BY DEF applyImmediate
<1>3. CASE validateCallbackAsset(i)
  <2> DEFINE q == [asset[i] EXCEPT !.mod = v]
  <2>1. /\ asset' = [asset EXCEPT ![i] = q] /\ asset[i].url = "live" /\ i \notin LockByID
        /\ retry' = [retry EXCEPT ![i] = NoRetry]
    BY <1>3 DEF applyImmediate, validateCallbackAsset, Free, DeleteForAsset
  <2>2. /\ q \in AssetRow /\ q.url = asset[i].url /\ q.st = asset[i].st /\ q.used = asset[i].used
        /\ q.mod = v
    BY <1>0 DEF AssetRow
  <2> HIDE DEF q
  <2>3. job' \in [Image -> [Job -> {"free", "open", "heard", "dropped"}]]  BY <1>0, <1>2 DEF TypeOK
  <2>4. \A t \in Server, k \in Image : srv'[t].claim[k] \in {srv[t].claim[k], NoClaim}  BY <1>1
  <2>5. q.mod # "pending" /\ \A k \in Image : k # i => job'[k] = job[k]  BY <1>2, <2>2, VerdictDecides
  <2> QED  BY <1>1, <1>2, <2>1, <2>2, <2>3, <2>4, <2>5, Decision
<1>4. CASE ~validateCallbackAsset(i)
  <2>1. UNCHANGED <<asset, retry>>  BY <1>4 DEF applyImmediate
  <2>2. TypeOK'  BY <1>0, <1>1, <1>2, <2>1 DEF TypeOK
  <2>3. RequestSound'  BY <1>0, <1>2, <2>1 DEF RequestSound, OpenJob
  <2>4. ASSUME NEW k \in Image PROVE ImageSound(k)'
    BY <1>2, <2>1, <2>4, ImageFrame DEF Sound
  <2>5. ASSUME NEW t \in Server, NEW k \in Image PROVE ClaimSound(srv[t].claim[k], k)'
    <3>1. ClaimSound(srv[t].claim[k], k)  BY DEF Sound
    <3> QED  BY <1>1, <1>2, <2>1, <3>1, EmptyRows DEF ClaimSound, OpenJob
  <2> QED  BY <2>2, <2>3, <2>4, <2>5 DEF Sound
<1> QED  BY <1>3, <1>4

(* The completion commits: the image gets its address together with a       *)
(* verdict, a row in the retry queue, or the job that was accepted.         *)
LEMMA CommitSound ==
  ASSUME Sound, NEW v \in Verdict, Complete_commit(v)
  PROVE  Sound'
<1>i. PICK i \in Image : i = req.i  BY DEF Sound, RequestSound, Complete_commit
<1> DEFINE q == IF req.ans = "immediate" THEN [MarkComplete(asset[i]) EXCEPT !.mod = v]
                ELSE MarkComplete(asset[i])
           r == IF req.ans = "immediate" THEN NoRetry ELSE enqueueModerationRetry(retry[i], req.ans)
<1>0. /\ TypeOK /\ RequestSound /\ asset[i] \in AssetRow /\ retry[i] \in RetryRow
      /\ ImageSound(i) /\ req.pc = "commit" /\ req.ans \in Answer
  BY DEF Sound, RequestSound, Complete_commit, TypeOK
<1>1. asset[i].url = "" /\ asset[i].mod = "pending" /\ retry[i].st = "none" /\ obj[i] # None
  BY <1>0, <1>i DEF RequestSound, ImageSound
<1>2. /\ asset' = [asset EXCEPT ![i] = q] /\ retry' = [retry EXCEPT ![i] = r]
      /\ req' = NoRequest /\ UNCHANGED <<obj, job, sweep, srv, lost, faults>>
  BY <1>i DEF Complete_commit
<1>3. /\ q \in AssetRow /\ q.url = "live" /\ q.st = asset[i].st /\ q.used = asset[i].used
      /\ q.mod = IF req.ans = "immediate" THEN v ELSE "pending"
  <2> DEFINE u == MarkComplete(asset[i])
  <2>1. /\ u \in AssetRow /\ u.url = "live" /\ u.st = asset[i].st /\ u.used = asset[i].used
        /\ u.mod = asset[i].mod
    BY <1>0 DEF MarkComplete, AssetRow
  <2> HIDE DEF u
  <2>2. /\ [u EXCEPT !.mod = v] \in AssetRow /\ [u EXCEPT !.mod = v].url = u.url
        /\ [u EXCEPT !.mod = v].st = u.st /\ [u EXCEPT !.mod = v].used = u.used
        /\ [u EXCEPT !.mod = v].mod = v
    BY <2>1 DEF AssetRow
  <2> QED  BY <1>1, <2>1, <2>2 DEF u
<1>4. /\ r \in RetryRow
      /\ r.st = "pending" => r.att = 1
      /\ r.st = "none" => req.ans \in {"immediate", "accepted"}
  <2>1. CASE req.ans \in {"immediate", "accepted"}
    BY <1>0, <1>1, <2>1, EmptyRows DEF enqueueModerationRetry
  <2>2. CASE req.ans \in {"failed", "blank"}
    <3>1. r = [NoRetry EXCEPT !.st = "pending", !.att = 1]
      BY <1>1, <2>2 DEF enqueueModerationRetry, Enqueue
    <3>2. 1 \in 0 .. MaxAttempts  BY AttemptAssumption
    <3> QED  BY <2>2, <3>1, <3>2, EmptyRows DEF RetryRow, NoRetry
  <2> QED  BY <1>0, <2>1, <2>2 DEF Answer
<1>5. ImageSound(i)'
  <2>1. asset'[i] = q /\ retry'[i] = r  BY <1>0, <1>2 DEF TypeOK
  <2>2. q.mod = "pending" => OpenJob(i) \/ r.st # "none"
    BY <1>0, <1>i, <1>3, <1>4, VerdictDecides DEF RequestSound
  <2>3. \A j \in Job : job[i][j] # "heard"  BY <1>0, <1>1 DEF ImageSound
  <2>4. ~q.used /\ q.st # "none"
    BY <1>0, <1>i, <1>1, <1>3 DEF ImageSound, RequestSound
  <2>5. 1 < MaxAttempts  BY AttemptAssumption
  <2> HIDE DEF q, r
  <2>6. r.st = "pending" => r.att < MaxAttempts  BY <1>4, <2>5
  <2> QED  BY <2>6, <1>1, <1>2, <1>3, <1>4, <2>1, <2>2, <2>3, <2>4, <2>5 DEF ImageSound, OpenJob
<1> HIDE DEF q, r
<1>6. TypeOK'  BY <1>0, <1>2, <1>3, <1>4, EmptyRows DEF TypeOK
<1>7. RequestSound'  BY <1>2, EmptyRows DEF RequestSound
<1>8. ASSUME NEW k \in Image PROVE ImageSound(k)'
  <2>1. CASE k = i  BY <1>5, <2>1
  <2>2. CASE k # i
    <3>1. asset'[k] = asset[k] /\ retry'[k] = retry[k]  BY <1>0, <1>2, <2>2 DEF TypeOK
    <3> QED  BY <1>2, <3>1, ImageFrame DEF Sound
  <2> QED  BY <2>1, <2>2
<1>9. ASSUME NEW s \in Server, NEW k \in Image PROVE ClaimSound(srv[s].claim[k], k)'
  <2>1. ClaimSound(srv[s].claim[k], k)  BY DEF Sound
  <2>2. asset'[k] = IF k = i THEN q ELSE asset[k]  BY <1>0, <1>2 DEF TypeOK
  <2> QED  BY <1>1, <1>2, <1>3, <2>1, <2>2 DEF ClaimSound, OpenJob
<1> QED  BY <1>6, <1>7, <1>8, <1>9 DEF Sound

-----------------------------------------------------------------------------
(* The sweep takes rows no completion holds and nobody refers to; what it    *)
(* has deleted is either retired or remembered as lost.                      *)
LEMMA SweepSteps ==
  ASSUME Sound,
         \/ ExpirePending \/ ExpirePending_rollback
         \/ \E i \in Image, ok \in BOOLEAN : DeleteObject(i, ok)
  PROVE  Sound'
<1>0. TypeOK /\ RequestSound  BY DEF Sound
<1>s. sweep.todo \in SUBSET Image /\ sweep.gone \in SUBSET Image  BY <1>0 DEF TypeOK, SweepState
<1>1. UNCHANGED <<asset, job, retry, req, srv, faults>>
  BY DEF ExpirePending, ExpirePending_rollback, DeleteObject
<1> DEFINE Swept(k) ==
          /\ k \in sweep'.todo \cup sweep'.gone =>
                k \in sweep.todo \cup sweep.gone \/ (~asset[k].used /\ k \notin LockByID)
          /\ k \in lost \cup sweep.gone => k \in lost' \cup sweep'.gone
          /\ obj'[k] = obj[k] \/ (k \in sweep.todo /\ k \in lost' \cup sweep'.gone)
        Typed == sweep' \in SweepState /\ lost' \in SUBSET Image /\ obj' \in [Image -> Size \cup {None}]
<1>2. Typed /\ \A k \in Image : Swept(k)
  <2>1. CASE ExpirePending
    <3>1. /\ sweep'.todo = LockExpiredPending /\ sweep'.gone = {} /\ sweep.gone = {}
          /\ sweep' \in SweepState /\ lost' = lost /\ obj' = obj
      BY <2>1 DEF ExpirePending, NoSweep, SweepState, LockExpiredPending
    <3>2. \A k \in LockExpiredPending : ~asset[k].used /\ k \notin LockByID
      BY DEF LockExpiredPending, Free
    <3> QED  BY <1>0, <3>1, <3>2 DEF TypeOK
  <2>2. CASE ExpirePending_rollback
    BY <1>0, <1>s, <2>2, EmptyRows DEF ExpirePending_rollback, TypeOK
  <2>3. ASSUME NEW i \in Image, NEW ok \in BOOLEAN, DeleteObject(i, ok)
        PROVE  Typed /\ \A k \in Image : Swept(k)
    <3>1. /\ i \in sweep.todo /\ sweep'.todo = sweep.todo \ {i}
          /\ sweep'.gone = IF ok THEN sweep.gone \cup {i} ELSE sweep.gone
          /\ sweep' \in SweepState
      BY <1>s, <2>3 DEF DeleteObject, SweepState
    <3>2. CASE obj' = [obj EXCEPT ![i] = None] /\ lost' = IF ok THEN lost ELSE lost \cup {i}
      BY <1>0, <1>s, <3>1, <3>2 DEF TypeOK
    <3>3. CASE ~ok /\ UNCHANGED <<obj, lost>>
      BY <1>0, <1>s, <3>1, <3>3 DEF TypeOK
    <3> QED  BY <2>3, <3>2, <3>3 DEF DeleteObject
  <2> QED  BY <2>1, <2>2, <2>3
<1>3. TypeOK'  BY <1>0, <1>1, <1>2 DEF TypeOK
<1>4. RequestSound'
  <2>1. req.pc \in {"submit", "commit"} => req.i \in LockByID  BY DEF LockByID
  <2> QED  BY <1>0, <1>1, <1>2, <2>1 DEF RequestSound, OpenJob
<1>5. ASSUME NEW k \in Image PROVE ImageSound(k)'
  <2>1. ImageSound(k)  BY DEF Sound
  <2> QED  BY <1>1, <1>2, <2>1 DEF ImageSound, OpenJob
<1>6. ASSUME NEW s \in Server, NEW k \in Image PROVE ClaimSound(srv[s].claim[k], k)'
  <2>1. ClaimSound(srv[s].claim[k], k)  BY DEF Sound
  <2> QED  BY <1>1, <2>1 DEF ClaimSound, OpenJob
<1> QED  BY <1>3, <1>4, <1>5, <1>6 DEF Sound

LEMMA SweepCommitSound == Sound /\ ExpirePending_commit => Sound'
<1> SUFFICES ASSUME Sound, ExpirePending_commit PROVE Sound'  OBVIOUS
<1>0. TypeOK /\ RequestSound  BY DEF Sound
<1>1. /\ sweep' = NoSweep /\ sweep.todo = {}
      /\ UNCHANGED <<obj, job, retry, req, srv, lost, faults>>
  BY DEF ExpirePending_commit
<1>2. ASSUME NEW k \in Image
      PROVE  /\ asset'[k] \in AssetRow
             /\ k \notin sweep.gone => asset'[k] = asset[k]
             /\ k \in sweep.gone => /\ asset'[k].st = "retired" /\ asset'[k].url = "purged"
                                    /\ asset'[k].mod = asset[k].mod /\ asset'[k].used = asset[k].used
  <2>1. asset[k] \in AssetRow  BY <1>0 DEF TypeOK
  <2>2. asset'[k] = IF k \in sweep.gone THEN RetirePurged(asset[k]) ELSE asset[k]
    BY DEF ExpirePending_commit
  <2>3. /\ RetirePurged(asset[k]) \in AssetRow
        /\ RetirePurged(asset[k]).st = "retired" /\ RetirePurged(asset[k]).url = "purged"
        /\ RetirePurged(asset[k]).mod = asset[k].mod /\ RetirePurged(asset[k]).used = asset[k].used
    BY <2>1 DEF RetirePurged, AssetRow
  <2> QED  BY <2>1, <2>2, <2>3
<1>3. TypeOK'
  <2>1. asset' \in [Image -> AssetRow]
    <3>1. asset' = [k \in Image |-> asset'[k]]  BY DEF ExpirePending_commit
    <3> QED  BY <1>2, <3>1
  <2> QED  BY <1>0, <1>1, <2>1, EmptyRows DEF TypeOK
<1>4. RequestSound'  BY <1>0, <1>1, <1>2, EmptyRows DEF RequestSound, OpenJob
<1>5. ASSUME NEW k \in Image PROVE ImageSound(k)'
  <2>1. ImageSound(k)  BY DEF Sound
  <2>2. CASE k \in sweep.gone
    <3>1. ~asset[k].used /\ asset[k].url \in {asset[k].url}  BY <2>1, <2>2 DEF ImageSound
    <3> QED  BY <1>1, <1>2, <2>1, <2>2, <3>1 DEF ImageSound
  <2>3. CASE k \notin sweep.gone
    BY <1>1, <1>2, <2>1, <2>3, EmptyRows DEF ImageSound, OpenJob
  <2> QED  BY <2>2, <2>3
<1>6. ASSUME NEW s \in Server, NEW k \in Image PROVE ClaimSound(srv[s].claim[k], k)'
  <2>1. ClaimSound(srv[s].claim[k], k)  BY DEF Sound
  <2>2. CASE k \in sweep.gone  BY <1>1, <1>2, <2>1, <2>2 DEF ClaimSound
  <2>3. CASE k \notin sweep.gone  BY <1>1, <1>2, <2>1, <2>3 DEF ClaimSound, OpenJob
  <2> QED  BY <2>2, <2>3
<1> QED  BY <1>3, <1>4, <1>5, <1>6 DEF Sound

-----------------------------------------------------------------------------
(* Steps on retry rows and claims only: rows of the queue stay in it unless  *)
(* the image is decided, purged or has an open job; claims are only taken     *)
(* from rows with attempts left, moved on, or forgotten.                      *)
LEMMA QueueStep ==
  ASSUME Sound, UNCHANGED <<asset, obj, job, req, sweep, lost>>, faults' \in 0 .. MaxFaults,
         retry' \in [Image -> RetryRow],
         srv' \in [Server -> [up : BOOLEAN, claim : [Image -> ClaimState]]],
         \A k \in Image :
            /\ retry'[k].st = "pending" => retry'[k].att < MaxAttempts
            /\ retry[k].st = "none" => retry'[k].st = "none"
            /\ \/ retry'[k].st # "none"
               \/ retry[k].st = "none"
               \/ asset[k].mod # "pending" \/ asset[k].url = "purged" \/ OpenJob(k),
         \A s \in Server, k \in Image : ClaimSound(srv'[s].claim[k], k)
  PROVE  Sound'
<1>0. TypeOK /\ RequestSound  BY DEF Sound
<1>1. TypeOK'  BY <1>0 DEF TypeOK
<1>2. RequestSound'  BY <1>0 DEF RequestSound, OpenJob
<1>3. ASSUME NEW k \in Image PROVE ImageSound(k)'
  <2>1. ImageSound(k)  BY DEF Sound
  <2> QED  BY <2>1 DEF ImageSound, OpenJob
<1>4. ASSUME NEW s \in Server, NEW k \in Image PROVE ClaimSound(srv[s].claim[k], k)'
  <2>1. ClaimSound(srv'[s].claim[k], k)  OBVIOUS
  <2> QED  BY <2>1 DEF ClaimSound, OpenJob
<1> QED  BY <1>1, <1>2, <1>3, <1>4 DEF Sound

LEMMA TimerSteps ==
  ASSUME Sound, NEW i \in Image, BackoffEnds(i) \/ LeaseEnds(i)
  PROVE  Sound'
<1>0. TypeOK /\ retry[i] \in RetryRow  BY DEF Sound, TypeOK
<1>1. PICK q \in {[retry[i] EXCEPT !.due = TRUE], [retry[i] EXCEPT !.leased = FALSE]} :
         retry' = [retry EXCEPT ![i] = q]
  BY DEF BackoffEnds, LeaseEnds
<1>2. q \in RetryRow /\ q.st = retry[i].st /\ q.att = retry[i].att
  BY <1>0 DEF RetryRow
<1>3. UNCHANGED <<asset, obj, job, req, sweep, lost, srv>>  BY DEF BackoffEnds, LeaseEnds
<1>4. faults' \in 0 .. MaxFaults
  <2>1. CASE BackoffEnds(i)  BY <1>0, <2>1 DEF BackoffEnds, TypeOK
  <2>2. CASE LeaseEnds(i)  BY <1>0, <2>2, BoundAssumption DEF LeaseEnds, TypeOK
  <2> QED  BY <2>1, <2>2
<1>5. /\ retry' \in [Image -> RetryRow]
      /\ \A k \in Image : retry'[k].st = retry[k].st /\ retry'[k].att = retry[k].att
  BY <1>0, <1>1, <1>2 DEF TypeOK
<1>6. \A k \in Image : retry[k].st = "pending" => retry[k].att < MaxAttempts
  BY DEF Sound, ImageSound
<1>7. \A s \in Server, k \in Image : ClaimSound(srv'[s].claim[k], k)  BY <1>3 DEF Sound
<1>8. srv' \in [Server -> [up : BOOLEAN, claim : [Image -> ClaimState]]]  BY <1>0, <1>3 DEF TypeOK
<1> QED  BY <1>3, <1>4, <1>5, <1>6, <1>7, <1>8, QueueStep

LEMMA ClaimDueSound ==
  ASSUME Sound, NEW s \in Server, ClaimDue(s)
  PROVE  Sound'
<1> DEFINE S == {i \in Image : Due(i)}
           new(i) == IF i \in S THEN [pc |-> "claimed", att |-> retry[i].att, mod |-> asset[i].mod]
                     ELSE NoClaim
<1>0. TypeOK  BY DEF Sound
<1>1. /\ UNCHANGED <<asset, obj, job, req, sweep, lost, faults>>
      /\ retry' = [i \in Image |-> IF i \in S THEN [retry[i] EXCEPT !.tok = s, !.leased = TRUE]
                                   ELSE retry[i]]
      /\ srv' = [srv EXCEPT ![s].claim = [i \in Image |-> new(i)]]
  BY DEF ClaimDue
<1>2. ASSUME NEW i \in Image
      PROVE  /\ retry'[i] \in RetryRow /\ retry'[i].st = retry[i].st /\ retry'[i].att = retry[i].att
             /\ new(i) \in ClaimState
             /\ ClaimSound(new(i), i)
  <2>1. retry[i] \in RetryRow /\ asset[i] \in AssetRow /\ ImageSound(i)  BY <1>0 DEF Sound, TypeOK
  <2>2. /\ [retry[i] EXCEPT !.tok = s, !.leased = TRUE] \in RetryRow
        /\ [retry[i] EXCEPT !.tok = s, !.leased = TRUE].st = retry[i].st
        /\ [retry[i] EXCEPT !.tok = s, !.leased = TRUE].att = retry[i].att
    BY <2>1 DEF RetryRow
  <2>3. retry'[i] = IF i \in S THEN [retry[i] EXCEPT !.tok = s, !.leased = TRUE] ELSE retry[i]
    BY <1>1
  <2>4. new(i) \in ClaimState
    BY <2>1, EmptyRows DEF ClaimState, RetryRow, AssetRow
  <2>5. ClaimSound(new(i), i)
    <3>1. CASE i \in S
      <4>1. retry[i].st = "pending"  BY <3>1 DEF Due
      <4> QED  BY <2>1, <3>1, <4>1 DEF ClaimSound, ImageSound
    <3>2. CASE i \notin S  BY <3>2, EmptyRows DEF ClaimSound
    <3> QED  BY <3>1, <3>2
  <2> QED  BY <2>1, <2>2, <2>3, <2>4, <2>5
<1> HIDE DEF S, new
<1>3. /\ srv' \in [Server -> [up : BOOLEAN, claim : [Image -> ClaimState]]]
      /\ \A t \in Server, k \in Image : srv'[t].claim[k] = IF t = s THEN new(k) ELSE srv[t].claim[k]
  BY <1>0, <1>1, <1>2 DEF TypeOK
<1>4. retry' \in [Image -> RetryRow]
  <2>1. retry' = [i \in Image |-> retry'[i]]  BY <1>1
  <2> QED  BY <1>2, <2>1
<1>5. \A k \in Image : retry[k].st = "pending" => retry[k].att < MaxAttempts
  BY DEF Sound, ImageSound
<1>6. \A t \in Server, k \in Image : ClaimSound(srv'[t].claim[k], k)  BY <1>2, <1>3 DEF Sound
<1>7. faults' \in 0 .. MaxFaults  BY <1>0, <1>1 DEF TypeOK
<1> QED  BY <1>1, <1>2, <1>3, <1>4, <1>5, <1>6, <1>7, QueueStep

(* The end of a claim: its row is rewritten only under the claimant's token. *)
LEMMA UpdateSound ==
  ASSUME Sound, NEW s \in Server, NEW i \in Image, NEW q, UpdateClaim(s, i, q),
         Fenced(s, i) => /\ q \in RetryRow
                         /\ q.st = "pending" => q.att < MaxAttempts
                         /\ \/ q.st # "none"
                            \/ asset[i].mod # "pending" \/ asset[i].url = "purged" \/ OpenJob(i)
  PROVE  Sound'
<1>0. TypeOK  BY DEF Sound
<1>1. /\ retry' \in [Image -> RetryRow]
      /\ \A k \in Image : retry'[k] = IF k = i /\ Fenced(s, i) THEN q ELSE retry[k]
  BY <1>0 DEF UpdateClaim, TypeOK
<1>2. /\ srv' \in [Server -> [up : BOOLEAN, claim : [Image -> ClaimState]]]
      /\ \A t \in Server, k \in Image :
            srv'[t].claim[k] = IF t = s /\ k = i THEN NoClaim ELSE srv[t].claim[k]
  <2>1. srv' = [srv EXCEPT ![s].claim[i] = NoClaim]  BY DEF UpdateClaim
  <2> QED  BY <1>0, <2>1, EmptyRows DEF TypeOK
<1>3. UNCHANGED <<asset, obj, job, req, sweep, lost, faults>>  BY DEF UpdateClaim
<1>4. \A k \in Image : retry[k].st = "pending" => retry[k].att < MaxAttempts
  BY DEF Sound, ImageSound
<1>5. ASSUME NEW t \in Server, NEW k \in Image PROVE ClaimSound(srv'[t].claim[k], k)
  <2>1. ClaimSound(srv[t].claim[k], k)  BY DEF Sound
  <2>2. ClaimSound(NoClaim, k)  BY EmptyRows DEF ClaimSound
  <2> QED  BY <1>2, <2>1, <2>2
<1>6. faults' \in 0 .. MaxFaults  BY <1>0, <1>3 DEF TypeOK
<1>7. Fenced(s, i) => retry[i].st = "pending"  BY DEF Fenced
<1> QED  BY <1>1, <1>2, <1>3, <1>4, <1>5, <1>6, <1>7, QueueStep

(* The worker ends a claim whose submission was accepted or whose image had   *)
(* been decided: what is struck off the queue is watched or settled.          *)
LEMMA DeleteSound ==
  ASSUME Sound, NEW s \in Server, NEW i \in Image, deleteClaim(s, i)
  PROVE  Sound'
<1>1. ClaimSound(srv[s].claim[i], i)  BY DEF Sound
<1>2. asset[i].mod # "pending" \/ asset[i].url = "purged" \/ OpenJob(i)
  BY <1>1 DEF deleteClaim, ClaimSound
<1> QED  BY <1>2, EmptyRows, UpdateSound DEF deleteClaim

(* A failed submission stays in the queue, with one attempt more or given up. *)
LEMMA FailedSound ==
  ASSUME Sound, NEW s \in Server, NEW i \in Image, failed(s, i)
  PROVE  Sound'
<1> DEFINE n == srv[s].claim[i].att + 1
           q == IF n >= MaxAttempts THEN DeadLetterClaim(retry[i], n) ELSE RescheduleClaim(retry[i], n)
<1>0. retry[i] \in RetryRow /\ srv[s].claim[i] \in ClaimState  BY DEF Sound, TypeOK
<1>1. srv[s].claim[i].att \in Nat /\ srv[s].claim[i].att < MaxAttempts
  <2>1. ClaimSound(srv[s].claim[i], i)  BY DEF Sound
  <2>2. srv[s].claim[i].pc # "none"  BY DEF failed
  <2>3. srv[s].claim[i].att \in 0 .. MaxAttempts  BY <1>0 DEF ClaimState
  <2>4. srv[s].claim[i].att < MaxAttempts  BY <2>1, <2>2 DEF ClaimSound
  <2> QED  BY <2>3, <2>4
<1>2. n \in 0 .. MaxAttempts  BY <1>1, AttemptAssumption
<1>3. UpdateClaim(s, i, q)  BY DEF failed
<1> HIDE DEF n
<1>4. /\ q \in RetryRow /\ q.att = n
      /\ q.st = IF n >= MaxAttempts THEN "dead_letter" ELSE retry[i].st
  <2> DEFINE r == RescheduleClaim(retry[i], n)
  <2>1. r \in RetryRow /\ r.att = n /\ r.st = retry[i].st
    BY <1>0, <1>2 DEF RescheduleClaim, RetryRow
  <2> HIDE DEF r
  <2>2. /\ [r EXCEPT !.st = "dead_letter"] \in RetryRow
        /\ [r EXCEPT !.st = "dead_letter"].att = n /\ [r EXCEPT !.st = "dead_letter"].st = "dead_letter"
    BY <2>1 DEF RetryRow
  <2> QED  BY <2>1, <2>2 DEF r, DeadLetterClaim
<1> HIDE DEF q
<1>5. q.st = "pending" => q.att < MaxAttempts
  <2>1. ~(n >= MaxAttempts) => n < MaxAttempts  BY <1>2, AttemptAssumption
  <2> QED  BY <1>4, <2>1
<1>6. Fenced(s, i) => q.st # "none"  BY <1>4 DEF Fenced
<1> QED  BY <1>3, <1>4, <1>5, <1>6, UpdateSound

(* The worker submits the image again: jobs are only opened. *)
LEMMA ProcessSound ==
  ASSUME Sound, NEW s \in Server, NEW i \in Image, NEW ans \in Answer, processClaim(s, i, ans)
  PROVE  Sound'
<1>0. TypeOK /\ RequestSound /\ srv[s].claim[i] \in ClaimState  BY DEF Sound, TypeOK
<1>1. /\ job' \in [Image -> [Job -> {"free", "open", "heard", "dropped"}]]
      /\ \A k \in Image, j \in Job : job'[k][j] \in {job[k][j], "open"}
      /\ ans = "accepted" => \E j \in Job : job'[i][j] = "open"
  BY <1>0, SubmitJobs DEF processClaim
<1> DEFINE c == [srv[s].claim[i] EXCEPT !.pc = ans]
<1>2. c \in ClaimState /\ c.pc = ans /\ c.att = srv[s].claim[i].att /\ c.mod = srv[s].claim[i].mod
  BY <1>0 DEF ClaimState
<1>3. srv' = [srv EXCEPT ![s].claim[i] = c]  BY DEF processClaim
<1> HIDE DEF c
<1>4. /\ srv' \in [Server -> [up : BOOLEAN, claim : [Image -> ClaimState]]]
      /\ \A t \in Server, k \in Image : srv'[t].claim[k] = IF t = s /\ k = i THEN c ELSE srv[t].claim[k]
  BY <1>0, <1>2, <1>3 DEF TypeOK
<1>5. UNCHANGED <<asset, obj, retry, req, sweep, lost, faults>> /\ srv[s].claim[i].pc # "none"
  BY DEF processClaim
<1>6. \A k \in Image : OpenJob(k) => OpenJob(k)'  BY <1>1 DEF OpenJob
<1>7. TypeOK'  BY <1>0, <1>1, <1>4, <1>5 DEF TypeOK
<1>8. RequestSound'
  <2>1. req.pc = "commit" => req.i \in Image  BY <1>0 DEF RequestSound
  <2> QED  BY <1>0, <1>1, <1>5, <2>1, ZenonT(60) DEF RequestSound, OpenJob
<1>9. ASSUME NEW k \in Image PROVE ImageSound(k)'
  <2>1. ImageSound(k)  BY DEF Sound
  <2>2. \A j \in Job : job'[k][j] = "heard" => job[k][j] = "heard"  BY <1>1
  <2> QED  BY <1>5, <1>6, <2>1, <2>2 DEF ImageSound
<1>10. ASSUME NEW t \in Server, NEW k \in Image PROVE ClaimSound(srv[t].claim[k], k)'
  <2>1. ClaimSound(srv[t].claim[k], k)  BY DEF Sound
  <2>2. CASE t = s /\ k = i
    <3>1. srv'[t].claim[k] = c  BY <1>4, <2>2
    <3>2. ans = "accepted" => OpenJob(k)'  BY <1>1, <2>2 DEF OpenJob
    <3> QED  BY <1>2, <1>5, <2>1, <2>2, <3>1, <3>2 DEF ClaimSound
  <2>3. CASE ~(t = s /\ k = i)
    <3>1. srv'[t].claim[k] = srv[t].claim[k]  BY <1>4, <2>3
    <3> QED  BY <1>5, <1>6, <2>1, <3>1 DEF ClaimSound
  <2> QED  BY <2>2, <2>3
<1> QED  BY <1>7, <1>8, <1>9, <1>10 DEF Sound

(* A server dies with its claims, or starts without any. *)
LEMMA ServerSteps ==
  ASSUME Sound, NEW s \in Server,
         Crash(s) \/ \E probe \in ClassifyImageModerationProbeError : Start(s, probe)
  PROVE  Sound'
<1>0. TypeOK  BY DEF Sound
<1>1. UNCHANGED <<asset, obj, job, retry, req, sweep, lost>>  BY DEF Crash, Start
<1>2. /\ srv' \in [Server -> [up : BOOLEAN, claim : [Image -> ClaimState]]]
      /\ \A t \in Server, k \in Image : srv'[t].claim[k] \in {srv[t].claim[k], NoClaim}
  <2>1. CASE Crash(s)
    <3>1. srv' = [srv EXCEPT ![s] = [up |-> FALSE, claim |-> NoClaims]]  BY <2>1 DEF Crash
    <3> QED  BY <1>0, <3>1, EmptyRows DEF TypeOK
  <2>2. CASE ~Crash(s)
    <3>1. srv' = [srv EXCEPT ![s].up = TRUE]  BY <2>2 DEF Start
    <3> QED  BY <1>0, <3>1 DEF TypeOK
  <2> QED  BY <2>1, <2>2
<1>3. faults' \in 0 .. MaxFaults
  <2>1. faults' = faults \/ (faults < MaxFaults /\ faults' = faults + 1)  BY DEF Crash, Start
  <2> QED  BY <1>0, <2>1, BoundAssumption DEF TypeOK
<1>4. \A k \in Image : retry[k].st = "pending" => retry[k].att < MaxAttempts
  BY DEF Sound, ImageSound
<1>5. ASSUME NEW t \in Server, NEW k \in Image PROVE ClaimSound(srv'[t].claim[k], k)
  <2>1. ClaimSound(srv[t].claim[k], k)  BY DEF Sound
  <2>2. ClaimSound(NoClaim, k)  BY EmptyRows DEF ClaimSound
  <2> QED  BY <1>2, <2>1, <2>2
<1>6. retry' \in [Image -> RetryRow]  BY <1>0, <1>1 DEF TypeOK
<1> QED  BY <1>1, <1>2, <1>3, <1>4, <1>5, <1>6, QueueStep

-----------------------------------------------------------------------------
(* Every step keeps the invariant. *)
LEMMA NextSound == Sound /\ [Next]_vars => Sound'
<1> SUFFICES ASSUME Sound, [Next]_vars PROVE Sound'  OBVIOUS
<1>1. CASE UNCHANGED vars
  <2>1. UNCHANGED <<asset, obj, job, retry, req, sweep, srv, lost, faults>>  BY <1>1 DEF vars
  <2>2. TypeOK' /\ RequestSound'  BY <2>1 DEF Sound, TypeOK, RequestSound, OpenJob
  <2>3. ASSUME NEW k \in Image PROVE ImageSound(k)'  BY <2>1, ImageFrame DEF Sound
  <2>4. ASSUME NEW s \in Server, NEW k \in Image PROVE ClaimSound(srv[s].claim[k], k)'
    <3>1. ClaimSound(srv[s].claim[k], k)  BY DEF Sound
    <3> QED  BY <2>1, <3>1 DEF ClaimSound, OpenJob
  <2> QED  BY <2>2, <2>3, <2>4 DEF Sound
<1>2. ASSUME NEW i \in Image,
             \/ \E p \in {"post", "avatar"}, n \in Size : Presign(i, p, n)
             \/ Age(i) \/ Unbind(i) \/ applyAdminPostDeleteImage(i)
      PROVE  Sound'
  BY <1>2, UploaderSteps
<1>3. ASSUME NEW i \in Image, (\E n \in Size : PutObject(i, n)) \/ Complete(i) \/ FindImagesByURLs(i)
      PROVE  Sound'
  BY <1>3, RequestSteps
<1>4. ASSUME NEW i \in Image, NEW j \in Job, RefuseCallback(i, j) PROVE Sound'
  BY <1>4, RefuseSound
<1>5. ASSUME NEW i \in Image, NEW j \in Job, NEW v \in Delivered, ApplyImageCallback(i, j, v)
      PROVE  Sound'
  BY <1>5, CallbackSound
<1>6. ASSUME NEW i \in Image, NEW ok \in BOOLEAN, DeleteObject(i, ok) PROVE Sound'
  BY <1>6, SweepSteps
<1>7. ASSUME NEW i \in Image, BackoffEnds(i) \/ LeaseEnds(i) PROVE Sound'
  BY <1>7, TimerSteps
<1>8. ASSUME NEW ans \in Answer, Complete_submit(ans) PROVE Sound'
  BY <1>8, SubmitSound
<1>9. ASSUME NEW v \in Verdict, Complete_commit(v) PROVE Sound'
  BY <1>9, CommitSound
<1>10. CASE Rollback
  <2>1. PICK i \in Image : i = req.i  BY <1>10 DEF Rollback, Sound, RequestSound
  <2> QED  BY <1>10, RequestSteps
<1>11. CASE Bind  BY <1>11, BindSound
<1>12. CASE ExpirePending \/ ExpirePending_rollback  BY <1>12, SweepSteps
<1>13. CASE ExpirePending_commit  BY <1>13, SweepCommitSound
<1>14. ASSUME NEW s \in Server, ClaimDue(s) PROVE Sound'  BY <1>14, ClaimDueSound
<1>15. ASSUME NEW s \in Server, NEW i \in Image, Claim(s, i) PROVE Sound'
  BY <1>15, ProcessSound, DeleteSound, FailedSound, ImmediateSound DEF Claim
<1>16. ASSUME NEW s \in Server,
              Crash(s) \/ \E probe \in ClassifyImageModerationProbeError : Start(s, probe)
       PROVE  Sound'
  BY <1>16, ServerSteps
<1> QED
  BY <1>1, <1>2, <1>3, <1>4, <1>5, <1>6, <1>7, <1>8, <1>9, <1>10, <1>11, <1>12, <1>13, <1>14,
     <1>15, <1>16
  DEF Next

(* The invariant holds in every state. *)
THEOREM AlwaysSound == Spec => []Sound
  BY InitSound, NextSound, PTL DEF Spec

(* The rows of the schema, the requests, claims and batches have their types: *)
(* in particular no claim counts beyond the attempts allowed.                 *)
THEOREM TypeCorrect == Spec => []TypeOK
<1>1. Sound => TypeOK  BY DEF Sound
<1> QED  BY <1>1, AlwaysSound, PTL

(* Complete, the retry worker and the callback: an image that was completed   *)
(* and has no verdict is never forgotten, whatever dies or answers late.      *)
THEOREM NeverForgotten == Spec => []PendingWatched
<1>1. Sound => PendingWatched  BY DEF Sound, ImageSound, OpenJob, PendingWatched
<1> QED  BY <1>1, AlwaysSound, PTL

(* ExpirePending against references: what a post or an avatar shows is in COS *)
(* unless an earlier sweep deleted it and did not get to record that.         *)
THEOREM ReferencesStand == Spec => []ReferencedStored
<1>1. Sound => ReferencedStored  BY DEF Sound, ImageSound, ReferencedStored
<1> QED  BY <1>1, AlwaysSound, PTL

-----------------------------------------------------------------------------
(* The retry rows as tasks of the abstract queue. *)
Busy(i) == {s \in Server : srv[s].claim[i].pc # "none"}

SameRow(i) == retry'[i].st = retry[i].st /\ retry'[i].tok = retry[i].tok

(* What a step may do to an image as a task: the actions of TaskQueue, said   *)
(* of the retry row, the claims and the verdict.                              *)
TaskStep(i) ==
    \/ /\ asset[i].mod = "pending" /\ retry[i].st = "none"
       /\ retry'[i].st = "pending" /\ retry'[i].tok = None /\ Busy(i)' = Busy(i)
    \/ \E s \in Server :
          \/ /\ retry[i].st = "pending" /\ retry'[i].st = "pending" /\ retry'[i].tok = s
             /\ s \notin Busy(i) /\ Busy(i)' = Busy(i) \cup {s}
          \/ /\ retry[i].st = "pending" /\ retry'[i].st \in {"pending", "none", "dead_letter"}
             /\ retry[i].tok = s /\ retry'[i].tok = None
             /\ s \in Busy(i) /\ Busy(i)' = Busy(i) \ {s}
          \/ SameRow(i) /\ s \in Busy(i) /\ Busy(i)' = Busy(i) \ {s}
    \/ /\ asset'[i].mod # "pending"
       /\ (retry'[i].st = "none" /\ retry'[i].tok = None) \/ SameRow(i)
       /\ Busy(i)' = Busy(i) \/ \E s \in Busy(i) : Busy(i)' = Busy(i) \ {s}
    \/ SameRow(i) /\ Busy(i)' = Busy(i)

LEMMA StepOfQueue ==
  ASSUME \A i \in Image : asset[i].mod # "pending" => asset'[i].mod # "pending",
         \A i \in Image : TaskStep(i)
  PROVE  Queue!Next
<1>1. ASSUME NEW i \in Image
      PROVE  \/ i \notin {k \in Image : asset[k].mod # "pending"} /\ Queue!Put(i)
             \/ \E s \in Server : Queue!Take(i, s) \/ Queue!Release(i, s) \/ Queue!Forget(i, s)
             \/ Queue!Decide(i)
             \/ Queue!Same(i)
  BY DEF TaskStep, SameRow, Busy, Queue!Put, Queue!Take, Queue!Release, Queue!Forget,
         Queue!Decide, Queue!Same
<1> QED  BY <1>1 DEF Queue!Next

(* A step that touches neither the queue nor the claims. *)
LEMMA UntouchedTasks ==
  ASSUME \A k \in Image : SameRow(k),
         \A t \in Server, k \in Image : (srv'[t].claim[k].pc # "none") <=> (srv[t].claim[k].pc # "none")
  PROVE  \A k \in Image : TaskStep(k)
  BY DEF TaskStep, Busy

(* A server that lets go of one claim. *)
LEMMA LetGo ==
  ASSUME NEW s \in Server, NEW i \in Image, srv[s].claim[i].pc # "none",
         \A t \in Server, k \in Image :
            srv'[t].claim[k] = IF t = s /\ k = i THEN NoClaim ELSE srv[t].claim[k]
  PROVE  /\ s \in Busy(i) /\ Busy(i)' = Busy(i) \ {s}
         /\ \A k \in Image : k # i => Busy(k)' = Busy(k)
<1>1. NoClaim.pc = "none"  BY EmptyRows
<1> QED  BY <1>1 DEF Busy

(* The decision on an image is never taken back to "pending". *)
LEMMA DecidedStays ==
  ASSUME Sound, Next, NEW k \in Image, asset[k].mod # "pending"
  PROVE  asset'[k].mod # "pending"
<1>0. TypeOK /\ RequestSound /\ ImageSound(k)  BY DEF Sound
<1>1. asset[k] \in AssetRow  BY <1>0 DEF TypeOK
<1> HIDE DEF TypeOK
<1>2. CASE UNCHANGED asset  BY <1>2
<1>3. ASSUME NEW i \in Image, NEW p \in {"post", "avatar"}, NEW n \in Size, Presign(i, p, n)
      PROVE  asset'[k].mod # "pending"
  <2>1. i # k  BY <1>0, <1>3 DEF ImageSound, Presign
  <2> QED  BY <1>0, <1>3, <2>1 DEF Presign, TypeOK
<1>4. ASSUME NEW i \in Image, Age(i) \/ Unbind(i) \/ applyAdminPostDeleteImage(i)
      PROVE  asset'[k].mod # "pending"
  <2>1. asset[i] \in AssetRow  BY <1>0 DEF TypeOK
  <2>2. PICK q \in {[asset[i] EXCEPT !.old = TRUE], [asset[i] EXCEPT !.used = FALSE, !.st = "retired"],
                   [asset[i] EXCEPT !.mod = "block"]} : asset' = [asset EXCEPT ![i] = q]
    BY <1>4 DEF Age, Unbind, applyAdminPostDeleteImage
  <2>3. q.mod = asset[i].mod \/ q.mod = "block"  BY <2>1 DEF AssetRow
  <2> QED  BY <1>0, <2>2, <2>3 DEF TypeOK
<1>5. ASSUME NEW i \in Image, NEW j \in Job, NEW v \in Delivered, ApplyImageCallback(i, j, v)
      PROVE  asset'[k].mod # "pending"
  <2>1. v # "pending"  BY DeliveredIsVerdict, VerdictDecides
  <2> QED  BY <1>0, <1>1, <1>5, <2>1 DEF ApplyImageCallback, TypeOK, AssetRow
<1>6. ASSUME NEW v \in Verdict, Complete_commit(v) PROVE asset'[k].mod # "pending"
  <2>1. PICK i \in Image : i = req.i  BY <1>0, <1>6 DEF RequestSound, Complete_commit
  <2>2. i # k  BY <1>0, <1>6, <2>1 DEF RequestSound, Complete_commit, ImageSound
  <2>3. asset'[k] = asset[k]  BY <1>0, <1>6, <2>1, <2>2 DEF Complete_commit, TypeOK
  <2> QED  BY <2>3
<1>7. CASE Bind
  <2>1. PICK i \in Image : i = req.i  BY <1>0, <1>7 DEF RequestSound, Bind
  <2>2. asset' = [asset EXCEPT ![i] = IF resolveAvatar(i)
                                      THEN [asset[i] EXCEPT !.st = "ready", !.used = TRUE] ELSE asset[i]]
    BY <1>7, <2>1 DEF Bind
  <2> QED  BY <1>0, <1>1, <2>2 DEF TypeOK, AssetRow
<1>8. CASE ExpirePending_commit
  BY <1>1, <1>8 DEF ExpirePending_commit, RetirePurged, AssetRow
<1>9. ASSUME NEW s \in Server, NEW i \in Image, NEW v \in Verdict, applyImmediate(s, i, v)
      PROVE  asset'[k].mod # "pending"
  <2>1. asset[i] \in AssetRow /\ v # "pending"  BY <1>0, VerdictDecides DEF TypeOK
  <2>2. asset' = asset \/ asset' = [asset EXCEPT ![i] = [asset[i] EXCEPT !.mod = v]]
    BY <1>9 DEF applyImmediate
  <2>3. [asset[i] EXCEPT !.mod = v].mod = v  BY <2>1 DEF AssetRow
  <2> QED  BY <1>0, <2>1, <2>2, <2>3 DEF TypeOK
<1>10. \/ UNCHANGED asset
       \/ \E i \in Image :
             \/ \E p \in {"post", "avatar"}, n \in Size : Presign(i, p, n)
             \/ Age(i) \/ Unbind(i) \/ applyAdminPostDeleteImage(i)
             \/ \E j \in Job, v \in Delivered : ApplyImageCallback(i, j, v)
       \/ \E v \in Verdict : Complete_commit(v)
       \/ Bind \/ ExpirePending_commit
       \/ \E s \in Server, i \in Image, v \in Verdict : applyImmediate(s, i, v)
  BY ZenonT(60) DEF Next, Claim, PutObject, Complete, FindImagesByURLs, RefuseCallback, DeleteObject,
         BackoffEnds, LeaseEnds, Complete_submit, Rollback, ExpirePending, ExpirePending_rollback,
         ClaimDue, processClaim, deleteClaim, failed, UpdateClaim, Crash, Start
<1> QED  BY <1>2, <1>3, <1>4, <1>5, <1>6, <1>7, <1>8, <1>9, <1>10

(* A decision strikes the image off the queue. *)
LEMMA CallbackTasks ==
  ASSUME Sound, NEW i \in Image, NEW j \in Job, NEW v \in Delivered, ApplyImageCallback(i, j, v)
  PROVE  \A k \in Image : TaskStep(k)
<1>0. TypeOK /\ ImageSound(i) /\ asset[i] \in AssetRow  BY DEF Sound, TypeOK
<1>1. asset'[i].mod # "pending"
  <2>1. v # "pending"  BY DeliveredIsVerdict, VerdictDecides
  <2>2. asset' = [asset EXCEPT ![i].mod = IF job[i][j] = "heard" THEN @ ELSE v]
    BY DEF ApplyImageCallback
  <2>3. job[i][j] = "heard" => asset[i].mod # "pending"  BY <1>0 DEF ImageSound
  <2> QED  BY <1>0, <2>1, <2>2, <2>3 DEF TypeOK, AssetRow
<1>2. \A k \in Image : retry'[k] = IF k = i THEN NoRetry ELSE retry[k]
  BY <1>0 DEF ApplyImageCallback, DeleteForAsset, TypeOK
<1>3. \A k \in Image : Busy(k)' = Busy(k)  BY DEF ApplyImageCallback, Busy
<1> QED  BY <1>1, <1>2, <1>3, EmptyRows DEF TaskStep, SameRow

(* A completion puts an image into the queue, decides it, or leaves it out. *)
LEMMA CommitTasks ==
  ASSUME Sound, NEW v \in Verdict, Complete_commit(v)
  PROVE  \A k \in Image : TaskStep(k)
<1>i. PICK i \in Image : i = req.i  BY DEF Sound, RequestSound, Complete_commit
<1>0. /\ TypeOK /\ RequestSound /\ asset[i] \in AssetRow /\ retry[i] \in RetryRow
      /\ ImageSound(i) /\ req.pc = "commit" /\ req.ans \in Answer
  BY DEF Sound, RequestSound, Complete_commit, TypeOK
<1>1. asset[i].mod = "pending" /\ retry[i].st = "none"
  BY <1>0, <1>i DEF RequestSound, ImageSound
<1>2. retry' = [retry EXCEPT ![i] = IF req.ans = "immediate" THEN NoRetry
                                    ELSE enqueueModerationRetry(retry[i], req.ans)]
  BY <1>i DEF Complete_commit
<1>3. \A k \in Image : Busy(k)' = Busy(k)  BY DEF Complete_commit, Busy
<1>4. ASSUME NEW k \in Image, k # i PROVE TaskStep(k)
  BY <1>0, <1>2, <1>3, <1>4 DEF TaskStep, SameRow, TypeOK
<1>5. CASE req.ans = "immediate"
  <2>1. retry'[i] = NoRetry  BY <1>0, <1>2, <1>5 DEF TypeOK
  <2>2. asset'[i] = [MarkComplete(asset[i]) EXCEPT !.mod = v]
    BY <1>0, <1>i, <1>5 DEF Complete_commit, TypeOK
  <2>3. MarkComplete(asset[i]) \in AssetRow  BY <1>0 DEF MarkComplete, AssetRow
  <2>4. asset'[i].mod = v  BY <2>2, <2>3 DEF AssetRow
  <2>5. TaskStep(i)  BY <1>3, <2>1, <2>4, EmptyRows, VerdictDecides DEF TaskStep
  <2> QED  BY <1>4, <2>5
<1>6. CASE req.ans = "accepted"
  <2>1. retry'[i] = retry[i]  BY <1>0, <1>2, <1>6 DEF enqueueModerationRetry, TypeOK
  <2>2. TaskStep(i)  BY <1>3, <2>1 DEF TaskStep, SameRow
  <2> QED  BY <1>4, <2>2
<1>7. CASE req.ans \in {"failed", "blank"}
  <2>1. retry'[i] = [NoRetry EXCEPT !.st = "pending", !.att = 1]
    BY <1>0, <1>1, <1>2, <1>7 DEF enqueueModerationRetry, Enqueue, TypeOK
  <2>2. retry'[i].st = "pending" /\ retry'[i].tok = None  BY <2>1 DEF NoRetry
  <2>3. TaskStep(i)  BY <1>1, <1>3, <2>2 DEF TaskStep
  <2> QED  BY <1>4, <2>3
<1> QED  BY <1>0, <1>5, <1>6, <1>7 DEF Answer

(* A batch is taken by a server that has nothing in hand. *)
LEMMA ClaimDueTasks ==
  ASSUME Sound, NEW s \in Server, ClaimDue(s)
  PROVE  \A k \in Image : TaskStep(k)
<1> DEFINE S == {i \in Image : Due(i)}
<1>0. TypeOK  BY DEF Sound
<1>1. SUFFICES ASSUME NEW k \in Image PROVE TaskStep(k)  OBVIOUS
<1>2. retry'[k] = IF k \in S THEN [retry[k] EXCEPT !.tok = s, !.leased = TRUE] ELSE retry[k]
  BY DEF ClaimDue
<1>3. \A t \in Server : t # s => srv'[t].claim[k] = srv[t].claim[k]
  BY <1>0 DEF ClaimDue, TypeOK
<1>4. srv[s].claim[k].pc = "none"  BY DEF ClaimDue, Working
<1>5. srv'[s].claim[k] = IF k \in S THEN [pc |-> "claimed", att |-> retry[k].att, mod |-> asset[k].mod]
                         ELSE NoClaim
  BY <1>0 DEF ClaimDue, TypeOK
<1>6. CASE k \in S
  <2>1. retry[k] \in RetryRow /\ retry[k].st = "pending"  BY <1>0, <1>6 DEF TypeOK, Due
  <2>2. retry'[k].st = "pending" /\ retry'[k].tok = s  BY <1>2, <1>6, <2>1 DEF RetryRow
  <2>3. srv'[s].claim[k].pc # "none"  BY <1>5, <1>6
  <2>4. s \notin Busy(k) /\ Busy(k)' = Busy(k) \cup {s}  BY <1>3, <1>4, <2>3 DEF Busy
  <2> QED  BY <2>1, <2>2, <2>4 DEF TaskStep
<1>7. CASE k \notin S
  <2>1. srv'[s].claim[k].pc = "none"  BY <1>5, <1>7, EmptyRows
  <2>2. Busy(k)' = Busy(k)  BY <1>3, <1>4, <2>1 DEF Busy
  <2> QED  BY <1>2, <1>7, <2>2 DEF TaskStep, SameRow
<1> QED  BY <1>6, <1>7

(* Only the claimant whose token the row still has gives it back. *)
LEMMA UpdateTasks ==
  ASSUME Sound, NEW s \in Server, NEW i \in Image, NEW q, UpdateClaim(s, i, q),
         srv[s].claim[i].pc # "none",
         Fenced(s, i) => q.st \in {"pending", "none", "dead_letter"} /\ q.tok = None
  PROVE  \A k \in Image : TaskStep(k)
<1>0. TypeOK  BY DEF Sound
<1>1. \A k \in Image : retry'[k] = IF k = i /\ Fenced(s, i) THEN q ELSE retry[k]
  BY <1>0 DEF UpdateClaim, TypeOK
<1>2. \A t \in Server, k \in Image :
         srv'[t].claim[k] = IF t = s /\ k = i THEN NoClaim ELSE srv[t].claim[k]
  <2>1. srv' = [srv EXCEPT ![s].claim[i] = NoClaim]  BY DEF UpdateClaim
  <2> QED  BY <1>0, <2>1 DEF TypeOK
<1>3. /\ s \in Busy(i) /\ Busy(i)' = Busy(i) \ {s}
      /\ \A k \in Image : k # i => Busy(k)' = Busy(k)
  BY <1>2, LetGo
<1>4. ASSUME NEW k \in Image, k # i PROVE TaskStep(k)  BY <1>1, <1>3, <1>4 DEF TaskStep, SameRow
<1>5. TaskStep(i)
  <2>1. CASE Fenced(s, i)  BY <1>1, <1>3, <2>1 DEF TaskStep, Fenced
  <2>2. CASE ~Fenced(s, i)  BY <1>1, <1>3, <2>2 DEF TaskStep, SameRow
  <2> QED  BY <2>1, <2>2
<1> QED  BY <1>4, <1>5

LEMMA ClaimTasks ==
  ASSUME Sound, NEW s \in Server, NEW i \in Image, Claim(s, i)
  PROVE  \A k \in Image : TaskStep(k)
<1>0. TypeOK /\ retry[i] \in RetryRow /\ asset[i] \in AssetRow  BY DEF Sound, TypeOK
<1>1. CASE deleteClaim(s, i)
  <2>1. UpdateClaim(s, i, NoRetry) /\ srv[s].claim[i].pc # "none"  BY <1>1 DEF deleteClaim
  <2> QED  BY <2>1, EmptyRows, UpdateTasks
<1>2. CASE failed(s, i)
  <2> DEFINE n == srv[s].claim[i].att + 1
             q == IF n >= MaxAttempts THEN DeadLetterClaim(retry[i], n) ELSE RescheduleClaim(retry[i], n)
  <2>1. UpdateClaim(s, i, q) /\ srv[s].claim[i].pc # "none"  BY <1>2 DEF failed
  <2> HIDE DEF n
  <2>2. q.tok = None /\ q.st \in {retry[i].st, "dead_letter"}
    BY <1>0 DEF DeadLetterClaim, RescheduleClaim, RetryRow
  <2> HIDE DEF q
  <2>3. Fenced(s, i) => q.st \in {"pending", "none", "dead_letter"} /\ q.tok = None
    BY <2>2 DEF Fenced
  <2> QED  BY <2>1, <2>3, UpdateTasks
<1>3. ASSUME NEW ans \in Answer, processClaim(s, i, ans) PROVE \A k \in Image : TaskStep(k)
  <2>1. srv' = [srv EXCEPT ![s].claim[i].pc = ans] /\ srv[s].claim[i].pc # "none" /\ ans # "none"
    BY <1>3 DEF processClaim, Answer
  <2>2. srv[s].claim[i] \in ClaimState  BY <1>0 DEF TypeOK
  <2>3. \A t \in Server, k \in Image :
           srv'[t].claim[k].pc = IF t = s /\ k = i THEN ans ELSE srv[t].claim[k].pc
    BY <1>0, <2>1, <2>2 DEF TypeOK, ClaimState
  <2>4. \A k \in Image : SameRow(k)  BY <1>3 DEF processClaim, SameRow
  <2> QED  BY <2>1, <2>3, <2>4, UntouchedTasks
<1>4. ASSUME NEW v \in Verdict, applyImmediate(s, i, v) PROVE \A k \in Image : TaskStep(k)
  <2>1. srv[s].claim[i].pc # "none" /\ srv' = [srv EXCEPT ![s].claim[i] = NoClaim]
    BY <1>4 DEF applyImmediate
  <2>2. \A t \in Server, k \in Image :
           srv'[t].claim[k] = IF t = s /\ k = i THEN NoClaim ELSE srv[t].claim[k]
    BY <1>0, <2>1 DEF TypeOK
  <2>3. /\ s \in Busy(i) /\ Busy(i)' = Busy(i) \ {s}
        /\ \A k \in Image : k # i => Busy(k)' = Busy(k)
    BY <2>1, <2>2, LetGo
  <2>4. CASE validateCallbackAsset(i)
    <3>1. asset' = [asset EXCEPT ![i].mod = v] /\ retry' = [retry EXCEPT ![i] = NoRetry]
      BY <1>4, <2>4 DEF applyImmediate, DeleteForAsset
    <3>2. asset'[i].mod = v  BY <1>0, <3>1 DEF TypeOK, AssetRow
    <3>3. \A k \in Image : retry'[k] = IF k = i THEN NoRetry ELSE retry[k]  BY <1>0, <3>1 DEF TypeOK
    <3> QED  BY <2>3, <3>2, <3>3, EmptyRows, VerdictDecides DEF TaskStep, SameRow
  <2>5. CASE ~validateCallbackAsset(i)
    <3>1. retry' = retry  BY <1>4, <2>5 DEF applyImmediate
    <3> QED  BY <2>3, <3>1 DEF TaskStep, SameRow
  <2> QED  BY <2>4, <2>5
<1> QED  BY <1>1, <1>2, <1>3, <1>4 DEF Claim

(* A server that dies forgets all its claims at once. *)
LEMMA CrashTasks ==
  ASSUME Sound, NEW s \in Server, Crash(s)
  PROVE  \A k \in Image : TaskStep(k)
<1>0. TypeOK  BY DEF Sound
<1>1. SUFFICES ASSUME NEW k \in Image PROVE TaskStep(k)  OBVIOUS
<1>2. \A t \in Server : srv'[t].claim[k] = IF t = s THEN NoClaim ELSE srv[t].claim[k]
  <2>1. srv' = [srv EXCEPT ![s] = [up |-> FALSE, claim |-> NoClaims]]  BY DEF Crash
  <2>2. NoClaims[k] = NoClaim  BY EmptyRows
  <2> QED  BY <1>0, <2>1, <2>2 DEF TypeOK
<1>3. Busy(k)' = Busy(k) \ {s}
  <2>1. NoClaim.pc = "none"  BY EmptyRows
  <2> QED  BY <1>2, <2>1 DEF Busy
<1>4. SameRow(k)  BY DEF Crash, SameRow
<1>5. CASE s \in Busy(k)  BY <1>3, <1>4, <1>5 DEF TaskStep
<1>6. CASE s \notin Busy(k)
  <2>1. Busy(k)' = Busy(k)  BY <1>3, <1>6
  <2> QED  BY <1>4, <2>1 DEF TaskStep
<1> QED  BY <1>5, <1>6

(* Every step is a step of the abstract queue or none. *)
LEMMA NextIsQueue == Sound /\ [Next]_vars => [Queue!Next]_(Queue!vars)
<1> SUFFICES ASSUME Sound, [Next]_vars PROVE [Queue!Next]_(Queue!vars)  OBVIOUS
<1>0. TypeOK  BY DEF Sound
<1>1. CASE UNCHANGED vars
  BY <1>1 DEF vars, Queue!vars
<1>2. CASE Next
  <2>1. \A k \in Image : TaskStep(k)
    <3>1. CASE UNCHANGED <<retry, srv>>
      BY <3>1 DEF TaskStep, SameRow, Busy
    <3>2. ASSUME NEW i \in Image, NEW j \in Job, NEW v \in Delivered, ApplyImageCallback(i, j, v)
          PROVE  \A k \in Image : TaskStep(k)
      BY <3>2, CallbackTasks
    <3>3. ASSUME NEW v \in Verdict, Complete_commit(v) PROVE \A k \in Image : TaskStep(k)
      BY <3>3, CommitTasks
    <3>4. ASSUME NEW i \in Image, BackoffEnds(i) \/ LeaseEnds(i) PROVE \A k \in Image : TaskStep(k)
      <4>1. \A k \in Image : SameRow(k)
        <5>1. retry[i] \in RetryRow  BY <1>0 DEF TypeOK
        <5>2. PICK q \in {[retry[i] EXCEPT !.due = TRUE], [retry[i] EXCEPT !.leased = FALSE]} :
                 retry' = [retry EXCEPT ![i] = q]
          BY <3>4 DEF BackoffEnds, LeaseEnds
        <5>3. q.st = retry[i].st /\ q.tok = retry[i].tok  BY <5>1 DEF RetryRow
        <5> QED  BY <1>0, <5>2, <5>3 DEF TypeOK, SameRow
      <4>2. srv' = srv  BY <3>4 DEF BackoffEnds, LeaseEnds
      <4> QED  BY <4>1, <4>2, UntouchedTasks
    <3>5. ASSUME NEW s \in Server, ClaimDue(s) PROVE \A k \in Image : TaskStep(k)  BY <3>5, ClaimDueTasks
    <3>6. ASSUME NEW s \in Server, NEW i \in Image, Claim(s, i) PROVE \A k \in Image : TaskStep(k)  BY <3>6, ClaimTasks
    <3>7. ASSUME NEW s \in Server, Crash(s) PROVE \A k \in Image : TaskStep(k)  BY <3>7, CrashTasks
    <3>8. ASSUME NEW s \in Server, NEW p \in ClassifyImageModerationProbeError, Start(s, p) PROVE \A k \in Image : TaskStep(k)
      <4>1. srv' = [srv EXCEPT ![s].up = TRUE] /\ retry' = retry  BY <3>8 DEF Start
      <4>2. \A t \in Server, k \in Image : srv'[t].claim[k] = srv[t].claim[k]
        BY <1>0, <4>1 DEF TypeOK
      <4> QED  BY <4>1, <4>2, UntouchedTasks DEF SameRow
    <3>9. \/ UNCHANGED <<retry, srv>>
          \/ \E i \in Image :
                \/ \E j \in Job, v \in Delivered : ApplyImageCallback(i, j, v)
                \/ BackoffEnds(i) \/ LeaseEnds(i)
          \/ \E v \in Verdict : Complete_commit(v)
          \/ \E s \in Server :
                \/ ClaimDue(s) \/ Crash(s) \/ \E i \in Image : Claim(s, i)
                \/ \E p \in ClassifyImageModerationProbeError : Start(s, p)
      BY <1>2 DEF Next, Presign, PutObject, Age, Complete, FindImagesByURLs, Unbind,
                  applyAdminPostDeleteImage, RefuseCallback, DeleteObject, Complete_submit,
                  Rollback, Bind, ExpirePending, ExpirePending_commit, ExpirePending_rollback
    <3> QED  BY <3>1, <3>2, <3>3, <3>4, <3>5, <3>6, <3>7, <3>8, <3>9
  <2>2. \A k \in Image : asset[k].mod # "pending" => asset'[k].mod # "pending"
    BY <1>2, DecidedStays
  <2> QED  BY <2>1, <2>2, StepOfQueue
<1> QED  BY <1>1, <1>2

(* ClaimDue, RescheduleClaim, DeadLetterClaim, DeleteClaim and DeleteForAsset *)
(* implement the abstract queue, whatever leases are outlived and servers     *)
(* die with claims in hand.                                                   *)
THEOREM RetryRefinement == Spec => RetryIsQueue
<1>1. Init => Queue!Init
  <2> SUFFICES ASSUME Init PROVE Queue!Init  OBVIOUS
  <2>1. [i \in Image |-> retry[i].st] = [t \in Image |-> "none"]  BY EmptyRows DEF Init
  <2>2. [i \in Image |-> retry[i].tok] = [t \in Image |-> None]  BY EmptyRows DEF Init
  <2>3. [i \in Image |-> {s \in Server : srv[s].claim[i].pc # "none"}] = [t \in Image |-> {}]
    <3>1. \A s \in Server, i \in Image : srv[s].claim[i].pc = "none"  BY EmptyRows DEF Init
    <3> QED  BY <3>1
  <2>4. {i \in Image : asset[i].mod # "pending"} = {}  BY EmptyRows DEF Init
  <2> QED  BY <2>1, <2>2, <2>3, <2>4 DEF Queue!Init
<1> QED  BY <1>1, NextIsQueue, AlwaysSound, PTL DEF Spec, RetryIsQueue, Queue!Spec

=============================================================================
