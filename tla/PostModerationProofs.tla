------------------------ MODULE PostModerationProofs ------------------------
(***************************************************************************)
(* Proofs about PostModeration for every set of posts, images, jobs and    *)
(* concurrent transactions, any mix of operations and any number of        *)
(* revisions and transactions.                                             *)
(*                                                                         *)
(* The argument: row locks exclude one another, so nobody else changes an  *)
(* image a transaction has locked, nor the references to it, for adding or *)
(* removing a reference, deleting and restoring lock the image first.  So  *)
(* what a transaction read under its locks is still so when it commits.    *)
(***************************************************************************)
EXTENDS PostModeration, SequenceTheorems, TLAPS

(* What a transaction works with. *)
Seen ==
    [post : [Post -> PostRow], text : [Post -> Seq(TextRecord)], img : [Image -> ImageRow]]

TxRow ==
    [pc : {"idle", "work", "reject", "approve"} \cup Waiting, req : Requests \cup {None},
     posts : SUBSET Post, images : SUBSET Image, read : Seen \cup {None},
     todo : SUBSET Post, rej : SUBSET Post]

Typed ==
    /\ post \in [Post -> PostRow]
    /\ hist \in [Post -> Seq(SUBSET Image)]
    /\ text \in [Post -> Seq(TextRecord)]
    /\ img \in [Image -> ImageRow]
    /\ jobs \in [Image -> SUBSET Job]
    /\ begun \in 0 .. MaxTx
    /\ tx \in [Tx -> TxRow]
    /\ \A t \in Tx : tx[t].pc # "idle" => tx[t].req \in Requests
    /\ \A t \in Tx : tx[t].pc \in {"work", "reject", "approve"} => tx[t].read \in Seen

(* Every version of a post has its images and its text record. *)
Versions(p) ==
    /\ Len(hist[p]) = Len(text[p]) /\ Len(hist[p]) <= MaxRev
    /\ post[p].st # "none" => post[p].rev \in 1 .. Len(hist[p])
    /\ post[p].st = "none" => Len(hist[p]) = 0 /\ post[p].imgs = {}
    /\ \A k \in 1 .. Len(text[p]) : text[p][k].by # "none" => text[p][k].v # "none"

OfPost(r) == r.op \in {"update", "delete", "restoreHistory", "restorePost", "reviewPost"}

Working == {"images", "work", "reject", "approve"}

PostsOf(k) == IF k.pc \in Working THEN k.posts ELSE {}
ImagesOf(k) == IF k.pc \in {"work", "reject", "approve"} THEN k.images ELSE {}

(* A transaction that has its posts has, or asks for, every image that its   *)
(* posts show or will show; the posts it has exist, the post it creates does *)
(* not.                                                                      *)
Scoped(k) ==
    LET r == k.req IN
    /\ \A q \in k.posts : post[q].st # "none"
    /\ \A q \in k.todo : post[q].st # "none"
    /\ k.pc = "approve" => k.rej \subseteq k.posts
    /\ k.pc # "idle" /\ r.op = "create" => k.pc \in {"images", "work"} /\ post[r.p].st = "none"
    /\ k.pc = "scope" => OfImage(r)
    /\ k.pc \in {"reject", "approve"} => r.op = "reviewPost"
    /\ k.pc # "idle" /\ OfPost(r) => r.p \in k.posts
    /\ k.pc \in Working =>
          /\ OfPost(r) => post[r.p].imgs \subseteq k.images
          /\ r.op \in {"create", "update"} => r.imgs \subseteq k.images
          /\ r.op = "restoreHistory" =>
                r.rev \in 1 .. Len(hist[r.p]) /\ hist[r.p][r.rev] \subseteq k.images
          /\ OfImage(r) => r.i \in k.images

(* Row locks exclude; two requests never create the same post. *)
Apart(k, l) ==
    /\ PostsOf(k) \cap PostsOf(l) = {}
    /\ ImagesOf(k) \cap ImagesOf(l) = {}
    /\ k.pc # "idle" /\ l.pc # "idle" /\ k.req.op = "create" /\ l.req.op = "create" =>
          k.req.p # l.req.p

(* What a transaction read of the images it has locked is still so: their    *)
(* rows, the posts that show them, and which of those posts are deleted.     *)
Stable(k) ==
    k.pc = "work" =>
        \A i \in k.images :
            /\ k.read.img[i] = img[i]
            /\ \A q \in Post :
                  /\ i \in k.read.post[q].imgs <=> i \in post[q].imgs
                  /\ i \in post[q].imgs /\ k.read.post[q].del => post[q].del

(* The rows of one image and of the posts that show it agree. *)
Agrees(i) ==
    /\ (img[i].st = "ready") <=> \E p \in Post : i \in post[p].imgs
    /\ img[i].mod = "block" /\ img[i].last = "delete" =>
          \A p \in Post : i \in post[p].imgs => post[p].del
    /\ img[i].said = "block" => img[i].mod = "block" /\ img[i].last # "delete"

Sound ==
    /\ Typed
    /\ \A p \in Post : Versions(p)
    /\ \A t \in Tx : Scoped(tx[t])
    /\ \A t, u \in Tx : t # u => Apart(tx[t], tx[u])
    /\ \A t \in Tx : Stable(tx[t])
    /\ \A i \in Image : Agrees(i)

-----------------------------------------------------------------------------
(* The operators the model is built from. *)

(* What a request holds, by its operation. *)
LEMMA RequestType ==
  ASSUME NEW r \in Requests
  PROVE  /\ r.op = "create" \/ OfPost(r) \/ OfImage(r)
         /\ r.op \in {"create", "update"} =>
               r.p \in Post /\ r.imgs \in SUBSET Image /\ r.publish \in BOOLEAN
         /\ OfPost(r) => r.p \in Post
         /\ r.op = "restoreHistory" => r.rev \in 1 .. MaxRev
         /\ r.op = "reviewPost" => r.v \in {"pass", "block"} /\ "reviewPost" \in Operation
         /\ OfImage(r) => r.i \in Image
         /\ r.op = "callback" => r.j \in Job /\ r.v \in Verdict
         /\ r.op = "reviewImage" => r.of \in Bad /\ r.v \in {"pass", "block"}
<1>1. PICK op \in Operation \ {"draft", "repeat"} : r \in Request(op)
  BY DEF Requests
<1>2. op \in {"create", "update", "delete", "restoreHistory", "restorePost",
              "callback", "reviewPost", "reviewImage"}
  BY OperationAssumption
<1>3. CASE op \in {"create", "update"}
  <2>1. r \in [op : {op}, p : Post, imgs : SUBSET Image,
               publish : {TRUE} \cup {x \in {FALSE} : "draft" \in Operation}]
    BY <1>1, <1>3 DEF Request
  <2>2. r.op = op /\ r.p \in Post /\ r.imgs \in SUBSET Image /\ r.publish \in BOOLEAN  BY <2>1
  <2> QED  BY <1>3, <2>2 DEF OfPost, OfImage
<1>4. CASE op \in {"delete", "restorePost"}
  <2>1. r \in [op : {op}, p : Post]  BY <1>1, <1>4 DEF Request
  <2> QED  BY <1>4, <2>1 DEF OfPost, OfImage
<1>5. CASE op = "restoreHistory"
  <2>1. r \in [op : {op}, p : Post, rev : 1 .. MaxRev]  BY <1>1, <1>5 DEF Request
  <2> QED  BY <1>5, <2>1 DEF OfPost, OfImage
<1>6. CASE op = "reviewPost"
  <2>1. r \in [op : {op}, p : Post, v : {"pass", "block"}]  BY <1>1, <1>6 DEF Request
  <2> QED  BY <1>1, <1>6, <2>1 DEF OfPost, OfImage
<1>7. CASE op = "callback"
  <2>1. r \in [op : {op}, i : Image, j : Job, v : Verdict]  BY <1>1, <1>7 DEF Request
  <2> QED  BY <1>7, <2>1 DEF OfPost, OfImage
<1>8. CASE op = "reviewImage"
  <2>1. r \in [op : {op}, i : Image, of : Bad, v : {"pass", "block"}]  BY <1>1, <1>8 DEF Request
  <2> QED  BY <1>8, <2>1 DEF OfPost, OfImage
<1> QED  BY <1>2, <1>3, <1>4, <1>5, <1>6, <1>7, <1>8

(* A verdict of the machine or of a reviewer sets mod and said alike. *)
LEMMA JudgedType ==
  ASSUME NEW row \in ImageRow, NEW v \in Verdict, NEW by \in {"machine", "manual"}
  PROVE  /\ Judged(row, v, by) \in ImageRow
         /\ Judged(row, v, by).mod = v /\ Judged(row, v, by).said = v
         /\ Judged(row, v, by).last = by /\ Judged(row, v, by).st = row.st
<1> DEFINE o == IF by = "machine" /\ v \in Bad
                THEN [row.open EXCEPT ![v] = row.open[v] + 1] ELSE row.open
<1>1. o \in [Bad -> Nat]  BY DEF ImageRow
<1>2. Judged(row, v, by) = [row EXCEPT !.mod = v, !.last = by, !.said = v, !.open = o]
  BY DEF Judged
<1> HIDE DEF o
<1> QED  BY <1>1, <1>2 DEF ImageRow

(* The image rows that deletions, restorations and references write. *)
LEMMA ImageRowType ==
  ASSUME NEW row \in ImageRow
  PROVE  /\ applyAdminPostDeleteImage(row) \in ImageRow
         /\ applyAdminPostDeleteImage(row).mod = "block"
         /\ applyAdminPostDeleteImage(row).last = "delete"
         /\ applyAdminPostDeleteImage(row).said = row.said
         /\ applyAdminPostDeleteImage(row).st = row.st
         /\ LET s == [row EXCEPT !.mod = "pass", !.last = "restore"] IN
              s \in ImageRow /\ s.mod = "pass" /\ s.last = "restore" /\ s.said = row.said /\ s.st = row.st
         /\ \A st \in {"ready", "retired"} :
              LET s == [row EXCEPT !.st = st] IN
              s \in ImageRow /\ s.mod = row.mod /\ s.last = row.last /\ s.said = row.said /\ s.st = st
<1>1. /\ applyAdminPostDeleteImage(row) \in ImageRow
      /\ applyAdminPostDeleteImage(row).mod = "block"
      /\ applyAdminPostDeleteImage(row).last = "delete"
      /\ applyAdminPostDeleteImage(row).said = row.said
      /\ applyAdminPostDeleteImage(row).st = row.st
  <2> DEFINE o == [row.open EXCEPT !["block"] = @ + 1]
  <2>1. o \in [Bad -> Nat]  BY DEF ImageRow, Bad
  <2>2. applyAdminPostDeleteImage(row) = [row EXCEPT !.mod = "block", !.last = "delete", !.open = o]
    BY DEF applyAdminPostDeleteImage, ImageRow
  <2> HIDE DEF o
  <2> QED  BY <2>1, <2>2 DEF ImageRow, Verdict
<1>2. LET s == [row EXCEPT !.mod = "pass", !.last = "restore"] IN
        s \in ImageRow /\ s.mod = "pass" /\ s.last = "restore" /\ s.said = row.said /\ s.st = row.st
  BY DEF ImageRow, Verdict
<1>3. \A st \in {"ready", "retired"} :
        LET s == [row EXCEPT !.st = st] IN
        s \in ImageRow /\ s.mod = row.mod /\ s.last = row.last /\ s.said = row.said /\ s.st = st
  BY DEF ImageRow
<1> QED  BY <1>1, <1>2, <1>3

(* An upload before its first verdict. *)
LEMMA NewImageType ==
  /\ NewImage \in ImageRow /\ NewImage.mod = "pending" /\ NewImage.st = "pending"
  /\ NewImage.last = "none" /\ NewImage.said = "none"
  BY DEF NewImage, ImageRow, Bad

(* An idle transaction holds nothing. *)
LEMMA IdleType ==
  /\ Idle \in TxRow /\ Idle.pc = "idle" /\ Idle.req = None /\ Idle.posts = {}
  /\ Idle.images = {} /\ Idle.todo = {} /\ Idle.rej = {} /\ Idle.read = None
  BY DEF Idle, TxRow, Waiting

(* The aggregate of the verdicts: approved only when all of them pass. *)
LEMMA AggregateType ==
  ASSUME NEW v \in Verdict, NEW mods \in SUBSET (Verdict \cup {"pending"})
  PROVE  /\ aggregatePostModeration(v, mods) \in PostStatus
         /\ aggregatePostModeration(v, mods) # "none"
         /\ aggregatePostModeration(v, mods) = "approved" => v = "pass" /\ mods \subseteq {"pass"}
  BY DEF aggregatePostModeration, Verdict, PostStatus

(* What was read. *)
LEMMA SnapshotType ==
  ASSUME Typed
  PROVE  Snapshot \in Seen /\ Snapshot.post = post /\ Snapshot.text = text /\ Snapshot.img = img
  BY DEF Typed, Snapshot, Seen

(* An idle transaction is sound in every state. *)
LEMMA IdleSound ==
  /\ Scoped(Idle) /\ Stable(Idle)
  /\ \A l : Apart(Idle, l) /\ Apart(l, Idle)
  BY IdleType DEF Scoped, Stable, Apart, PostsOf, ImagesOf, Working, OfPost, OfImage

LEMMA ApartSymmetric ==
  ASSUME NEW k, NEW l, Apart(k, l)
  PROVE  Apart(l, k)
  BY DEF Apart

-----------------------------------------------------------------------------
(* The initial states. *)

LEMMA InitSound == Init => Sound
<1> SUFFICES ASSUME Init PROVE Sound  OBVIOUS
<1>1. img \in [Image -> ImageRow]
      /\ \A i \in Image : img[i].st = "pending" /\ img[i].last \in {"none", "machine"}
                          /\ (img[i].said = "block" => img[i].mod = "block")
  <2>1. \A v \in Verdict : LET g == Judged(NewImage, v, "machine") IN
          g \in ImageRow /\ g.st = "pending" /\ g.last = "machine" /\ g.said = v /\ g.mod = v
    BY JudgedType, NewImageType
  <2>2. \A g \in {NewImage} \cup {Judged(NewImage, v, "machine") : v \in Verdict} :
          g \in ImageRow /\ g.st = "pending" /\ g.last \in {"none", "machine"}
          /\ (g.said = "block" => g.mod = "block")
    BY <2>1, NewImageType
  <2> QED  BY <2>2 DEF Init
<1>2. NoPost \in PostRow /\ NoPost.st = "none" /\ NoPost.imgs = {}
  BY BoundAssumption DEF NoPost, PostRow, PostStatus
<1>3. /\ post \in [Post -> PostRow] /\ \A p \in Post : post[p].st = "none" /\ post[p].imgs = {}
      /\ hist \in [Post -> Seq(SUBSET Image)] /\ \A p \in Post : hist[p] = <<>>
      /\ text \in [Post -> Seq(TextRecord)] /\ \A p \in Post : text[p] = <<>>
  BY <1>2 DEF Init
<1>4. jobs \in [Image -> SUBSET Job]  BY DEF Init
<1>5. /\ tx \in [Tx -> TxRow] /\ \A t \in Tx : tx[t] = Idle /\ tx[t].pc = "idle"
      /\ begun \in 0 .. MaxTx
  BY IdleType, BoundAssumption DEF Init
<1>6. Typed  BY <1>1, <1>3, <1>4, <1>5 DEF Typed
<1>7. \A p \in Post : Versions(p)  BY <1>3, BoundAssumption DEF Versions
<1>8. \A t \in Tx : Scoped(tx[t]) /\ Stable(tx[t]) /\ \A u \in Tx : Apart(tx[t], tx[u])
  BY <1>5, IdleSound
<1>9. \A i \in Image : Agrees(i)  BY <1>1, <1>3 DEF Agrees
<1> QED  BY <1>6, <1>7, <1>8, <1>9 DEF Sound

-----------------------------------------------------------------------------
(* Steps of one transaction that nobody else sees. *)

Fits(t, k) ==
    /\ k \in TxRow
    /\ k.pc # "idle" => k.req \in Requests
    /\ k.pc \in {"work", "reject", "approve"} => k.read \in Seen
    /\ Scoped(k)
    /\ \A u \in Tx \ {t} : Apart(k, tx[u])
    /\ Stable(k)

LEMMA TxStep ==
  ASSUME Sound, NEW t \in Tx, NEW k, Fits(t, k),
         tx' = [tx EXCEPT ![t] = k], begun' \in 0 .. MaxTx,
         UNCHANGED <<post, hist, text, img, jobs>>
  PROVE  Sound'
<1>0. /\ post' = post /\ hist' = hist /\ text' = text /\ img' = img /\ jobs' = jobs
      /\ tx \in [Tx -> TxRow]
  BY DEF Sound, Typed
<1>1. tx' \in [Tx -> TxRow] /\ \A u \in Tx : tx'[u] = IF u = t THEN k ELSE tx[u]
  BY <1>0 DEF Fits
<1>2. Typed'
  <2>1. \A u \in Tx : /\ tx'[u].pc # "idle" => tx'[u].req \in Requests
                      /\ tx'[u].pc \in {"work", "reject", "approve"} => tx'[u].read \in Seen
    BY <1>1 DEF Sound, Typed, Fits
  <2> QED  BY <1>0, <1>1, <2>1 DEF Sound, Typed
<1>3. \A p \in Post : Versions(p)'  BY <1>0 DEF Sound, Versions
<1>4. ASSUME NEW u \in Tx PROVE Scoped(tx[u])'
  <2>1. Scoped(tx'[u])  BY <1>1 DEF Sound, Fits
  <2> QED  BY <1>0, <2>1 DEF Scoped
<1>5. ASSUME NEW u \in Tx, NEW w \in Tx, u # w PROVE Apart(tx[u], tx[w])'
  <2>1. Apart(tx'[u], tx'[w])  BY <1>1, <1>5, ApartSymmetric DEF Sound, Fits
  <2> QED  BY <2>1 DEF Apart, PostsOf, ImagesOf
<1>6. ASSUME NEW u \in Tx PROVE Stable(tx[u])'
  <2>1. Stable(tx'[u])  BY <1>1 DEF Sound, Fits
  <2> QED  BY <1>0, <2>1 DEF Stable
<1>7. \A i \in Image : Agrees(i)'  BY <1>0 DEF Sound, Agrees
<1> QED  BY <1>2, <1>3, <1>4, <1>5, <1>6, <1>7 DEF Sound

-----------------------------------------------------------------------------
(* Steps that commit.  A transaction changes the images it has locked, the   *)
(* posts it has locked and the references to both, and nothing else.         *)

Confined(t) ==
    /\ \A i \in Image \ tx[t].images :
          /\ img'[i] = img[i]
          /\ \A q \in Post :
                /\ i \in post'[q].imgs <=> i \in post[q].imgs
                /\ i \in post[q].imgs /\ post[q].del => post'[q].del
    /\ \A q \in Post :
          /\ post[q].st # "none" => post'[q].st # "none"
          /\ post[q].st = "none" /\ post'[q].st # "none" =>
                tx[t].req.op = "create" /\ q = tx[t].req.p
          /\ post'[q].imgs # post[q].imgs => q \in tx[t].posts \/ post[q].st = "none"
          /\ \A k \in 1 .. Len(hist[q]) :
                k \in 1 .. Len(hist'[q]) /\ hist'[q][k] = hist[q][k]

TypedData ==
    /\ post \in [Post -> PostRow]
    /\ hist \in [Post -> Seq(SUBSET Image)]
    /\ text \in [Post -> Seq(TextRecord)]
    /\ img \in [Image -> ImageRow]
    /\ jobs \in [Image -> SUBSET Job]

LEMMA CommitStep ==
  ASSUME Sound, NEW t \in Tx, tx[t].pc \in {"work", "approve"}, End(t), Confined(t),
         TypedData', \A p \in Post : Versions(p)',
         \A i \in tx[t].images : Agrees(i)'
  PROVE  Sound'
<1>0. /\ tx \in [Tx -> TxRow] /\ begun' = begun
      /\ tx' \in [Tx -> TxRow] /\ \A u \in Tx : tx'[u] = IF u = t THEN Idle ELSE tx[u]
  BY IdleType DEF Sound, Typed, End
<1>1. Typed'
  <2>1. \A u \in Tx : /\ tx'[u].pc # "idle" => tx'[u].req \in Requests
                      /\ tx'[u].pc \in {"work", "reject", "approve"} => tx'[u].read \in Seen
    BY <1>0, IdleType DEF Sound, Typed
  <2> QED  BY <1>0, <2>1 DEF Sound, Typed, TypedData
<1>2. \A u \in Tx : tx[u].images \subseteq Image /\ tx[u].posts \subseteq Post
                    /\ tx[u].todo \subseteq Post
                    /\ (tx[u].pc # "idle" => tx[u].req \in Requests)
  <2>1. \A k \in TxRow : k.images \subseteq Image /\ k.posts \subseteq Post /\ k.todo \subseteq Post
    BY DEF TxRow
  <2> QED  BY <1>0, <2>1 DEF Sound, Typed
<1>3. \A u \in Tx \ {t} :
        /\ tx[u].pc \in Working => tx[u].posts \cap tx[t].posts = {}
        /\ tx[u].pc \in {"work", "reject", "approve"} => tx[u].images \cap tx[t].images = {}
  BY DEF Sound, Apart, PostsOf, ImagesOf, Working
<1>4. ASSUME NEW u \in Tx PROVE Scoped(tx[u])'
  <2>1. CASE u = t
    <3>1. tx'[u] = Idle  BY <1>0, <2>1
    <3> QED  BY <3>1, IdleType DEF Scoped, OfPost, OfImage, Working
  <2>2. CASE u # t
    <3> DEFINE k == tx[u]
               r == tx[u].req
    <3>1. tx'[u] = k  BY <1>0, <2>2
    <3>2. Scoped(k)  BY DEF Sound
    <3>3. /\ \A q \in k.posts : post'[q].st # "none"
          /\ \A q \in k.todo : post'[q].st # "none"
      BY <1>2, <3>2 DEF Scoped, Confined
    <3>4. ASSUME k.pc # "idle", r.op = "create"
          PROVE  k.pc \in {"images", "work"} /\ post'[r.p].st = "none"
      <4>1. k.pc \in {"images", "work"} /\ post[r.p].st = "none"  BY <3>2, <3>4 DEF Scoped
      <4>2. r.p \in Post  BY <1>2, <3>4, RequestType
      <4>3. ~(tx[t].req.op = "create" /\ r.p = tx[t].req.p)
        BY <2>2, <3>4 DEF Sound, Apart
      <4> QED  BY <4>1, <4>2, <4>3 DEF Confined
    <3>5. ASSUME k.pc # "idle", OfPost(r)
          PROVE  r.p \in Post /\ r.p \in k.posts
      BY <1>2, <3>2, <3>5, RequestType DEF Scoped
    <3>6. ASSUME k.pc \in Working, OfPost(r)
          PROVE  post'[r.p].imgs \subseteq k.images
      <4>1. r.p \in Post /\ r.p \in k.posts  BY <3>5, <3>6 DEF Working
      <4>2. r.p \notin tx[t].posts /\ post[r.p].st # "none"
        BY <1>3, <2>2, <3>2, <3>6, <4>1 DEF Scoped
      <4>3. post'[r.p].imgs = post[r.p].imgs  BY <4>1, <4>2 DEF Confined
      <4> QED  BY <3>2, <3>6, <4>3 DEF Scoped
    <3>7. ASSUME k.pc \in Working, r.op = "restoreHistory"
          PROVE  r.rev \in 1 .. Len(hist'[r.p]) /\ hist'[r.p][r.rev] \subseteq k.images
      <4>1. r.p \in Post  BY <3>5, <3>7 DEF Working, OfPost
      <4>2. r.rev \in 1 .. Len(hist[r.p]) /\ hist[r.p][r.rev] \subseteq k.images
        BY <3>2, <3>7 DEF Scoped
      <4>3. \A n \in 1 .. Len(hist[r.p]) :
              n \in 1 .. Len(hist'[r.p]) /\ hist'[r.p][n] = hist[r.p][n]
        BY <4>1 DEF Confined
      <4> QED  BY <4>2, <4>3
    <3>8. /\ (k.pc = "approve" => k.rej \subseteq k.posts) /\ (k.pc = "scope" => OfImage(r))
          /\ k.pc \in {"reject", "approve"} => r.op = "reviewPost"
          /\ k.pc \in Working => (r.op \in {"create", "update"} => r.imgs \subseteq k.images)
                                 /\ (OfImage(r) => r.i \in k.images)
      BY <3>2 DEF Scoped
    <3> QED  BY <3>1, <3>3, <3>4, <3>5, <3>6, <3>7, <3>8 DEF Scoped, OfPost, OfImage, Working
  <2> QED  BY <2>1, <2>2
<1>5. ASSUME NEW u \in Tx, NEW w \in Tx, u # w PROVE Apart(tx[u], tx[w])'
  <2>1. Apart(tx'[u], tx'[w])  BY <1>0, <1>5, IdleSound DEF Sound
  <2> QED  BY <2>1 DEF Apart, PostsOf, ImagesOf
<1>6. ASSUME NEW u \in Tx PROVE Stable(tx[u])'
  <2>1. CASE u = t
    <3>1. tx'[u] = Idle  BY <1>0, <2>1
    <3> QED  BY <3>1, IdleType DEF Stable
  <2>2. CASE u # t
    <3>1. tx'[u] = tx[u]  BY <1>0, <2>2
    <3>2. SUFFICES ASSUME tx[u].pc = "work", NEW i \in tx[u].images
                   PROVE  /\ tx[u].read.img[i] = img'[i]
                          /\ \A q \in Post :
                               /\ i \in tx[u].read.post[q].imgs <=> i \in post'[q].imgs
                               /\ i \in post'[q].imgs /\ tx[u].read.post[q].del => post'[q].del
      BY <3>1 DEF Stable
    <3>3. i \in Image \ tx[t].images  BY <1>2, <1>3, <2>2, <3>2
    <3>4. Stable(tx[u])  BY DEF Sound
    <3> QED  BY <3>2, <3>3, <3>4 DEF Stable, Confined
  <2> QED  BY <2>1, <2>2
<1>7. ASSUME NEW i \in Image PROVE Agrees(i)'
  <2>1. CASE i \in tx[t].images  BY <2>1
  <2>2. CASE i \notin tx[t].images
    <3>1. Agrees(i)  BY DEF Sound
    <3>2. img'[i] = img[i]
          /\ \A q \in Post : (i \in post'[q].imgs <=> i \in post[q].imgs)
                             /\ (i \in post[q].imgs /\ post[q].del => post'[q].del)
      BY <2>2 DEF Confined
    <3> QED  BY <3>1, <3>2 DEF Agrees
  <2> QED  BY <2>1, <2>2
<1> QED  BY <1>1, <1>4, <1>5, <1>6, <1>7 DEF Sound

-----------------------------------------------------------------------------
(* The private steps. *)

(* What a transaction's row holds. *)
LEMMA RowType ==
  ASSUME Sound, NEW t \in Tx
  PROVE  /\ tx[t] \in TxRow /\ tx \in [Tx -> TxRow]
         /\ tx[t].posts \subseteq Post /\ tx[t].images \subseteq Image
         /\ tx[t].todo \subseteq Post /\ tx[t].rej \subseteq Post
         /\ tx[t].pc # "idle" => tx[t].req \in Requests
         /\ tx[t].pc \in {"work", "reject", "approve"} => tx[t].read \in Seen
         /\ Scoped(tx[t])
         /\ \A u \in Tx \ {t} : Apart(tx[t], tx[u])
         /\ Stable(tx[t])
         /\ begun \in 0 .. MaxTx
<1>1. tx[t] \in TxRow /\ tx \in [Tx -> TxRow]  BY DEF Sound, Typed
<1>2. tx[t].posts \subseteq Post /\ tx[t].images \subseteq Image
      /\ tx[t].todo \subseteq Post /\ tx[t].rej \subseteq Post
  BY <1>1 DEF TxRow
<1> QED  BY <1>1, <1>2 DEF Sound, Typed

LEMMA BeginSound ==
  ASSUME Sound, NEW t \in Tx, NEW r \in Requests, Begin(t, r)
  PROVE  Sound'
<1>0. begun' \in 0 .. MaxTx /\ tx[t].pc = "idle"
  BY BoundAssumption DEF Begin, Sound, Typed
<1>1. CASE OfImage(r)
  <2> DEFINE k == [Idle EXCEPT !.pc = "scope", !.req = r]
  <2>1. /\ k \in TxRow /\ k.pc = "scope" /\ k.req = r /\ k.posts = {} /\ k.images = {}
        /\ k.todo = {} /\ k.rej = {}
    BY DEF Idle, TxRow, Waiting
  <2>2. tx' = [tx EXCEPT ![t] = k]  BY <1>1 DEF Begin
  <2> HIDE DEF k
  <2>3. Scoped(k) /\ Stable(k) /\ \A u \in Tx \ {t} : Apart(k, tx[u])
    BY <1>1, <2>1 DEF Scoped, Stable, Apart, PostsOf, ImagesOf, Working, OfPost, OfImage
  <2>4. Fits(t, k)  BY <2>1, <2>3 DEF Fits
  <2>5. UNCHANGED <<post, hist, text, img, jobs>>  BY DEF Begin
  <2> QED  BY <1>0, <2>2, <2>4, <2>5, TxStep
<1>2. CASE ~OfImage(r) /\ r.op = "create"
  <2> DEFINE k == [Idle EXCEPT !.pc = "images", !.req = r, !.images = r.imgs]
  <2>0. r.imgs \in SUBSET Image  BY <1>2, RequestType
  <2>1. /\ k \in TxRow /\ k.pc = "images" /\ k.req = r /\ k.posts = {} /\ k.images = r.imgs
        /\ k.todo = {} /\ k.rej = {}
    BY <2>0 DEF Idle, TxRow, Waiting
  <2>2. tx' = [tx EXCEPT ![t] = k] /\ post[r.p].st = "none" /\ ~InFlight(r.p)  BY <1>2 DEF Begin
  <2> HIDE DEF k
  <2>3. Scoped(k) /\ Stable(k)
    BY <1>2, <2>1, <2>2 DEF Scoped, Stable, OfPost, OfImage
  <2>4. \A u \in Tx \ {t} : Apart(k, tx[u])
    BY <2>1, <2>2 DEF Apart, PostsOf, ImagesOf, InFlight
  <2>5. Fits(t, k)  BY <2>1, <2>3, <2>4 DEF Fits
  <2>6. UNCHANGED <<post, hist, text, img, jobs>>  BY DEF Begin
  <2> QED  BY <1>0, <2>2, <2>5, <2>6, TxStep
<1>3. CASE ~OfImage(r) /\ r.op # "create"
  <2> DEFINE k == [Idle EXCEPT !.pc = "posts", !.req = r, !.posts = {r.p}]
  <2>0. OfPost(r) /\ r.p \in Post  BY <1>3, RequestType
  <2>1. /\ k \in TxRow /\ k.pc = "posts" /\ k.req = r /\ k.posts = {r.p} /\ k.images = {}
        /\ k.todo = {} /\ k.rej = {}
    BY <2>0 DEF Idle, TxRow, Waiting
  <2>2. tx' = [tx EXCEPT ![t] = k] /\ post[r.p].st # "none"  BY <1>3 DEF Begin
  <2> HIDE DEF k
  <2>3. Scoped(k) /\ Stable(k) /\ \A u \in Tx \ {t} : Apart(k, tx[u])
    BY <1>3, <2>1, <2>2 DEF Scoped, Stable, Apart, PostsOf, ImagesOf, Working
  <2>4. Fits(t, k)  BY <2>1, <2>3 DEF Fits
  <2>5. UNCHANGED <<post, hist, text, img, jobs>>  BY DEF Begin
  <2> QED  BY <1>0, <2>2, <2>4, <2>5, TxStep
<1> QED  BY <1>1, <1>2, <1>3

LEMMA ScopeSound ==
  ASSUME Sound, NEW t \in Tx, LockPendingPostsForImage(t)
  PROVE  Sound'
<1> DEFINE S == Showing(Snapshot, {tx[t].req.i})
           k == [tx[t] EXCEPT !.pc = "posts", !.posts = S]
<1>0. tx[t] \in TxRow /\ tx[t].pc = "scope" /\ tx[t].req \in Requests /\ Scoped(tx[t])
      /\ tx \in [Tx -> TxRow] /\ begun' \in 0 .. MaxTx
      /\ UNCHANGED <<post, hist, text, img, jobs>>
      /\ \A u \in Tx \ {t} : Apart(tx[t], tx[u])
  BY RowType DEF LockPendingPostsForImage
<1>1. S \subseteq Post /\ \A q \in S : post[q].st # "none"
  BY SnapshotType DEF Showing, Sound
<1>2. tx' = [tx EXCEPT ![t] = k]  BY <1>0 DEF LockPendingPostsForImage
<1> HIDE DEF S
<1>3. /\ k \in TxRow /\ k.pc = "posts" /\ k.req = tx[t].req /\ k.posts = S
      /\ k.todo = tx[t].todo /\ k.rej = tx[t].rej
  BY <1>0, <1>1 DEF TxRow, Waiting
<1> HIDE DEF k
<1>4. Scoped(k)
  BY <1>0, <1>1, <1>3 DEF Scoped, OfPost, OfImage, Working
<1>5. Stable(k) /\ \A u \in Tx \ {t} : Apart(k, tx[u])
  BY <1>0, <1>3 DEF Stable, Apart, PostsOf, ImagesOf, Working, Scoped, OfImage
<1>6. Fits(t, k)  BY <1>0, <1>3, <1>4, <1>5 DEF Fits
<1> QED  BY <1>0, <1>2, <1>6, TxStep

(* Targets and the images of the scope. *)
LEMMA ScopeType ==
  ASSUME Sound, NEW t \in Tx, tx[t].pc = "posts", Allowed(tx[t].req)
  PROVE  LET r == tx[t].req
             S == LockImagesForPosts(t)
         IN /\ S \subseteq Image
            /\ r.op # "create"
            /\ OfPost(r) => post[r.p].imgs \subseteq S
            /\ r.op \in {"create", "update"} => r.imgs \subseteq S
            /\ r.op = "restoreHistory" =>
                 r.rev \in 1 .. Len(hist[r.p]) /\ hist[r.p][r.rev] \subseteq S
            /\ OfImage(r) => r.i \in S
<1> DEFINE r == tx[t].req
           S == LockImagesForPosts(t)
<1>0. r \in Requests /\ Scoped(tx[t]) /\ tx[t].posts \subseteq Post  BY RowType
<1>1. r.op # "create"  BY <1>0 DEF Scoped
<1>2. \A q \in Post : post[q].imgs \subseteq Image  BY DEF Sound, Typed, PostRow
<1>3. CASE OfImage(r)
  <2>1. r.i \in Image  BY <1>0, <1>3, RequestType
  <2>2. S = {r.i} \cup UNION {post[q].imgs : q \in Targets(t)}
    BY <1>3 DEF LockImagesForPosts, OfImage
  <2>3. Targets(t) \subseteq Post  BY <1>0 DEF Targets
  <2> QED  BY <1>1, <1>2, <1>3, <2>1, <2>2, <2>3 DEF OfPost, OfImage
<1>4. CASE OfPost(r) /\ r.op = "update"
  <2>1. r.p \in Post /\ r.imgs \in SUBSET Image  BY <1>0, <1>4, RequestType
  <2>2. S = post[r.p].imgs \cup r.imgs  BY <1>4 DEF LockImagesForPosts, OfImage
  <2> QED  BY <1>1, <1>2, <1>4, <2>1, <2>2 DEF OfImage
<1>5. CASE OfPost(r) /\ r.op = "restoreHistory"
  <2>1. r.p \in Post /\ r.rev \in 1 .. MaxRev  BY <1>0, <1>5, RequestType
  <2>2. S = post[r.p].imgs \cup hist[r.p][r.rev]  BY <1>5 DEF LockImagesForPosts, OfImage
  <2>3. r.rev <= Len(hist[r.p])  BY <1>5 DEF Allowed
  <2>4. hist[r.p] \in Seq(SUBSET Image)  BY <2>1 DEF Sound, Typed
  <2>5. Len(hist[r.p]) \in Nat /\ r.rev \in 1 .. Len(hist[r.p])
    BY <2>1, <2>3, <2>4, BoundAssumption
  <2>6. hist[r.p][r.rev] \in SUBSET Image  BY <2>4, <2>5
  <2> QED  BY <1>1, <1>2, <1>5, <2>1, <2>2, <2>5, <2>6 DEF OfImage
<1>6. CASE OfPost(r) /\ r.op \notin {"update", "restoreHistory"}
  <2>1. r.p \in Post  BY <1>0, <1>6, RequestType
  <2>2. S = post[r.p].imgs  BY <1>1, <1>6 DEF LockImagesForPosts, OfImage, OfPost
  <2> QED  BY <1>1, <1>2, <1>6, <2>1, <2>2 DEF OfImage, OfPost
<1>7. OfPost(r) \/ OfImage(r)  BY <1>0, <1>1, RequestType
<1> QED  BY <1>3, <1>4, <1>5, <1>6, <1>7

LEMMA LockPostsSound ==
  ASSUME Sound, NEW t \in Tx, LockPosts(t)
  PROVE  Sound'
<1> DEFINE S == LockImagesForPosts(t)
           r == tx[t].req
           k == [tx[t] EXCEPT !.pc = "images", !.images = S]
<1>0. tx[t] \in TxRow /\ tx[t].pc = "posts" /\ tx[t].req \in Requests /\ Scoped(tx[t])
      /\ tx \in [Tx -> TxRow] /\ begun' \in 0 .. MaxTx
      /\ UNCHANGED <<post, hist, text, img, jobs>>
      /\ \A u \in Tx \ {t} : Apart(tx[t], tx[u])
  BY RowType DEF LockPosts
<1>1. /\ S \subseteq Image
      /\ r.op # "create"
      /\ OfPost(r) => post[r.p].imgs \subseteq S
      /\ r.op \in {"create", "update"} => r.imgs \subseteq S
      /\ r.op = "restoreHistory" => r.rev \in 1 .. Len(hist[r.p]) /\ hist[r.p][r.rev] \subseteq S
      /\ OfImage(r) => r.i \in S
  BY <1>0, ScopeType DEF LockPosts
<1>2. tx' = [tx EXCEPT ![t] = k]  BY <1>0 DEF LockPosts
<1>3. \A u \in Tx \ {t} : tx[t].posts \cap PostsOf(tx[u]) = {}
  BY DEF LockPosts, PostsFree, PostsHeld, PostsOf, Working
<1> HIDE DEF S
<1>4. /\ k \in TxRow /\ k.pc = "images" /\ k.req = r /\ k.posts = tx[t].posts /\ k.images = S
      /\ k.todo = tx[t].todo /\ k.rej = tx[t].rej
  BY <1>0, <1>1 DEF TxRow, Waiting
<1> HIDE DEF k
<1>5. Scoped(k)  BY <1>0, <1>1, <1>4 DEF Scoped
<1>6. Stable(k) /\ \A u \in Tx \ {t} : Apart(k, tx[u])
  BY <1>1, <1>3, <1>4 DEF Stable, Apart, PostsOf, ImagesOf
<1>7. Fits(t, k)  BY <1>0, <1>4, <1>5, <1>6 DEF Fits
<1> QED  BY <1>0, <1>2, <1>7, TxStep

LEMMA LockImagesSound ==
  ASSUME Sound, NEW t \in Tx, LockImages(t)
  PROVE  Sound'
<1> DEFINE k == [tx[t] EXCEPT !.pc = "work", !.read = Snapshot]
<1>0. tx[t] \in TxRow /\ tx[t].pc = "images" /\ tx[t].req \in Requests /\ Scoped(tx[t])
      /\ tx \in [Tx -> TxRow] /\ begun' \in 0 .. MaxTx
      /\ UNCHANGED <<post, hist, text, img, jobs>>
      /\ \A u \in Tx \ {t} : Apart(tx[t], tx[u])
  BY RowType DEF LockImages
<1>1. Snapshot \in Seen /\ Snapshot.post = post /\ Snapshot.img = img  BY SnapshotType DEF Sound
<1>2. tx' = [tx EXCEPT ![t] = k]  BY <1>0 DEF LockImages
<1>3. \A u \in Tx \ {t} : tx[t].images \cap ImagesOf(tx[u]) = {}
  BY DEF LockImages, ImagesFree, ImagesHeld, ImagesOf
<1>4. /\ k \in TxRow /\ k.pc = "work" /\ k.req = tx[t].req /\ k.posts = tx[t].posts
      /\ k.images = tx[t].images /\ k.read = Snapshot /\ k.todo = tx[t].todo /\ k.rej = tx[t].rej
  BY <1>0, <1>1 DEF TxRow, Waiting
<1> HIDE DEF k
<1>5. Scoped(k)  BY <1>0, <1>4 DEF Scoped, Working
<1>6. Stable(k)  BY <1>1, <1>4 DEF Stable
<1>7. \A u \in Tx \ {t} : Apart(k, tx[u])
  BY <1>0, <1>3, <1>4 DEF Apart, PostsOf, ImagesOf, Working
<1>8. Fits(t, k)  BY <1>0, <1>1, <1>4, <1>5, <1>6, <1>7 DEF Fits
<1> QED  BY <1>0, <1>2, <1>8, TxStep

LEMMA AbortSound ==
  ASSUME Sound, NEW t \in Tx, Abort(t)
  PROVE  Sound'
<1>1. Fits(t, Idle)  BY IdleType, IdleSound DEF Fits
<1>2. tx' = [tx EXCEPT ![t] = Idle] /\ begun' \in 0 .. MaxTx
      /\ UNCHANGED <<post, hist, text, img, jobs>>
  BY RowType DEF Abort
<1> QED  BY <1>1, <1>2, TxStep

(* Answering the open records of an image keeps the rest of its row. *)
LEMMA AnsweredType ==
  ASSUME NEW row \in ImageRow, NEW b \in Bad
  PROVE  /\ LET s == [row EXCEPT !.open[b] = 0] IN
              s \in ImageRow /\ s.mod = row.mod /\ s.last = row.last /\ s.said = row.said /\ s.st = row.st
         /\ row.open[b] > 0 =>
              LET s == [row EXCEPT !.open[b] = @ - 1] IN
              s \in ImageRow /\ s.mod = row.mod /\ s.last = row.last /\ s.said = row.said /\ s.st = row.st
<1>0. row.open \in [Bad -> Nat]  BY DEF ImageRow
<1>1. ASSUME NEW n \in Nat
      PROVE  LET s == [row EXCEPT !.open = [row.open EXCEPT ![b] = n]] IN
             s \in ImageRow /\ s.mod = row.mod /\ s.last = row.last /\ s.said = row.said /\ s.st = row.st
  <2> DEFINE o == [row.open EXCEPT ![b] = n]
  <2>1. o \in [Bad -> Nat]  BY <1>0
  <2> HIDE DEF o
  <2> QED  BY <2>1 DEF ImageRow
<1>2. [row EXCEPT !.open[b] = 0] = [row EXCEPT !.open = [row.open EXCEPT ![b] = 0]]
  BY DEF ImageRow
<1>3. [row EXCEPT !.open[b] = @ - 1] = [row EXCEPT !.open = [row.open EXCEPT ![b] = row.open[b] - 1]]
  BY DEF ImageRow
<1>4. row.open[b] > 0 => row.open[b] - 1 \in Nat  BY <1>0
<1> QED  BY <1>1, <1>2, <1>3, <1>4

(* What the review of a post writes: the open text of its current revision   *)
(* and its open images, which are among the images the transaction locked.   *)
LEMMA ReviewedType ==
  ASSUME Sound, NEW t \in Tx, tx[t].pc \in {"work", "reject", "approve"},
         tx[t].req.op = "reviewPost"
  PROVE  LET v == tx[t].req.v
             O == OpenImages(tx[t].req.p)
         IN /\ Reviewed(t) \in Seen /\ Reviewed(t).post = post
            /\ \A q \in Post :
                 /\ Len(Reviewed(t).text[q]) = Len(text[q])
                 /\ \A n \in 1 .. Len(text[q]) :
                      Reviewed(t).text[q][n].by # "none" => Reviewed(t).text[q][n].v # "none"
            /\ O \subseteq tx[t].images
            /\ \A i \in Image :
                 /\ i \notin O => Reviewed(t).img[i] = img[i]
                 /\ i \in O => /\ Reviewed(t).img[i].mod = v /\ Reviewed(t).img[i].said = v
                               /\ Reviewed(t).img[i].last = "manual"
                               /\ Reviewed(t).img[i].st = img[i].st
            /\ v \in {"pass", "block"}
<1> DEFINE p == tx[t].req.p
           v == tx[t].req.v
           O == OpenImages(p)
           row(i) == [Judged(img[i], v, "manual") EXCEPT !.open[img[i].mod] = 0]
           txt == IF OpenText(p) THEN [text EXCEPT ![p][post[p].rev] = [v |-> v, by |-> "manual"]]
                  ELSE text
           rows == [i \in Image |-> IF i \in O THEN row(i) ELSE img[i]]
<1>0. /\ tx[t].req \in Requests /\ Scoped(tx[t]) /\ OfPost(tx[t].req)
      /\ tx[t].images \subseteq Image
      /\ \A q \in Post : Versions(q)
  BY RowType DEF Sound, OfPost
<1>1. p \in Post /\ v \in {"pass", "block"} /\ p \in tx[t].posts /\ post[p].st # "none"
      /\ post[p].imgs \subseteq tx[t].images
  BY <1>0, RequestType DEF Scoped, Working
<1>2. img \in [Image -> ImageRow] /\ text \in [Post -> Seq(TextRecord)] /\ post \in [Post -> PostRow]
  BY DEF Sound, Typed
<1>3. Reviewed(t) = [post |-> post, text |-> txt, img |-> rows]  BY DEF Reviewed
<1>4. O \subseteq tx[t].images /\ \A i \in O : img[i].mod \in Bad
  BY <1>1 DEF OpenImages
<1>5. ASSUME NEW i \in O
      PROVE  row(i) \in ImageRow /\ row(i).mod = v /\ row(i).said = v /\ row(i).last = "manual"
             /\ row(i).st = img[i].st
  <2>1. img[i] \in ImageRow /\ img[i].mod \in Bad /\ v \in Verdict
    BY <1>0, <1>1, <1>2, <1>4 DEF Verdict
  <2> DEFINE g == Judged(img[i], v, "manual")
  <2>2. g \in ImageRow /\ g.mod = v /\ g.said = v /\ g.last = "manual" /\ g.st = img[i].st
    BY <2>1, JudgedType
  <2> HIDE DEF g
  <2>3. LET s == [g EXCEPT !.open[img[i].mod] = 0] IN
        s \in ImageRow /\ s.mod = g.mod /\ s.last = g.last /\ s.said = g.said /\ s.st = g.st
    BY <2>1, <2>2, AnsweredType
  <2> QED  BY <2>2, <2>3 DEF g
<1>6. rows \in [Image -> ImageRow]  BY <1>2, <1>5
<1>7. /\ txt \in [Post -> Seq(TextRecord)]
      /\ \A q \in Post :
           /\ Len(txt[q]) = Len(text[q])
           /\ \A n \in 1 .. Len(text[q]) : txt[q][n].by # "none" => txt[q][n].v # "none"
  <2>0. \A q \in Post : \A n \in 1 .. Len(text[q]) : text[q][n].by # "none" => text[q][n].v # "none"
    BY <1>0 DEF Versions
  <2>1. CASE OpenText(p)
    <3> DEFINE e == [v |-> v, by |-> "manual"]
               sq == [text[p] EXCEPT ![post[p].rev] = e]
    <3>1. e \in TextRecord /\ e.v # "none"  BY <1>1 DEF TextRecord, Verdict
    <3>2. post[p].rev \in 1 .. Len(text[p])  BY <1>0, <1>1 DEF Versions
    <3>3. text[p] \in Seq(TextRecord)  BY <1>1, <1>2
    <3> HIDE DEF e
    <3>4. /\ sq \in Seq(TextRecord) /\ Len(sq) = Len(text[p])
          /\ \A n \in 1 .. Len(text[p]) : sq[n] = IF n = post[p].rev THEN e ELSE text[p][n]
      BY <3>1, <3>2, <3>3, ExceptSeq
    <3>5. txt = [text EXCEPT ![p] = sq]  BY <2>1 DEF e
    <3> HIDE DEF sq, txt
    <3>6. \A q \in Post : txt[q] = IF q = p THEN sq ELSE text[q]  BY <1>2, <3>5
    <3>7. txt \in [Post -> Seq(TextRecord)]  BY <1>2, <3>4, <3>5
    <3> QED  BY <2>0, <3>1, <3>4, <3>6, <3>7
  <2>2. CASE ~OpenText(p)  BY <1>2, <2>0, <2>2
  <2> QED  BY <2>1, <2>2
<1> HIDE DEF txt, rows
<1>8. Reviewed(t) \in Seen /\ Reviewed(t).post = post /\ Reviewed(t).text = txt
      /\ Reviewed(t).img = rows
  BY <1>2, <1>3, <1>6, <1>7 DEF Seen
<1>9. \A i \in Image : (i \notin O => rows[i] = img[i]) /\ (i \in O => rows[i] = row(i))
  BY DEF rows
<1> HIDE DEF row, O
<1> QED  BY <1>1, <1>4, <1>5, <1>7, <1>8, <1>9 DEF O

LEMMA ReviewSound ==
  ASSUME Sound, NEW t \in Tx, ManualReviewPost(t)
  PROVE  Sound'
<1> DEFINE p == tx[t].req.p
           S == {p} \cup Showing(Snapshot, OpenImages(p))
           k == [tx[t] EXCEPT !.pc = "reject", !.read = Reviewed(t), !.todo = S]
<1>0. tx[t] \in TxRow /\ tx[t].pc = "work" /\ tx[t].req.op = "reviewPost" /\ tx[t].req \in Requests
      /\ Scoped(tx[t]) /\ tx \in [Tx -> TxRow] /\ begun' \in 0 .. MaxTx
      /\ UNCHANGED <<post, hist, text, img, jobs>>
      /\ \A u \in Tx \ {t} : Apart(tx[t], tx[u])
  BY RowType DEF ManualReviewPost
<1>1. p \in Post /\ post[p].st # "none"  BY <1>0, RequestType DEF Scoped, OfPost
<1>2. S \subseteq Post /\ \A q \in S : post[q].st # "none"
  BY <1>1, SnapshotType DEF Showing, Sound
<1>3. Reviewed(t) \in Seen  BY <1>0, ReviewedType
<1>4. tx' = [tx EXCEPT ![t] = k]  BY <1>0 DEF ManualReviewPost
<1> HIDE DEF S
<1>5. /\ k \in TxRow /\ k.pc = "reject" /\ k.req = tx[t].req /\ k.posts = tx[t].posts
      /\ k.images = tx[t].images /\ k.read = Reviewed(t) /\ k.todo = S
  BY <1>0, <1>2, <1>3 DEF TxRow
<1> HIDE DEF k
<1>6. Scoped(k)  BY <1>0, <1>2, <1>5 DEF Scoped, Working
<1>7. Stable(k)  BY <1>5 DEF Stable
<1>8. \A u \in Tx \ {t} : Apart(k, tx[u])
  BY <1>0, <1>5 DEF Apart, PostsOf, ImagesOf, Working
<1>9. Fits(t, k)  BY <1>0, <1>3, <1>5, <1>6, <1>7, <1>8 DEF Fits
<1> QED  BY <1>0, <1>4, <1>9, TxStep

LEMMA RejectSound ==
  ASSUME Sound, NEW t \in Tx, RejectPosts(t)
  PROVE  Sound'
<1> DEFINE C == Chosen(t)
           R == Rechecked(t)
           k == [tx[t] EXCEPT !.pc = "approve", !.posts = tx[t].posts \cup C, !.rej = R,
                              !.read = Reviewed(t)]
<1>0. tx[t] \in TxRow /\ tx[t].pc = "reject" /\ tx[t].req \in Requests /\ Scoped(tx[t])
      /\ tx \in [Tx -> TxRow] /\ begun' \in 0 .. MaxTx
      /\ UNCHANGED <<post, hist, text, img, jobs>>
      /\ \A u \in Tx \ {t} : Apart(tx[t], tx[u])
  BY RowType DEF RejectPosts
<1>1. tx[t].posts \subseteq Post /\ tx[t].todo \subseteq Post  BY RowType
<1>2. C \subseteq tx[t].todo /\ R \subseteq C  BY DEF Chosen, Rechecked
<1>3. Reviewed(t) \in Seen  BY <1>0, ReviewedType DEF Scoped
<1>4. tx' = [tx EXCEPT ![t] = k]  BY <1>0 DEF RejectPosts
<1>5. \A u \in Tx \ {t} : C \cap PostsOf(tx[u]) = {}
  BY DEF RejectPosts, PostsFree, PostsHeld, PostsOf, Working
<1> HIDE DEF C, R
<1>6. /\ k \in TxRow /\ k.pc = "approve" /\ k.req = tx[t].req /\ k.posts = tx[t].posts \cup C
      /\ k.images = tx[t].images /\ k.read = Reviewed(t) /\ k.todo = tx[t].todo /\ k.rej = R
  BY <1>0, <1>1, <1>2, <1>3 DEF TxRow
<1> HIDE DEF k
<1>7. Scoped(k)  BY <1>0, <1>2, <1>6 DEF Scoped, Working, OfPost
<1>8. Stable(k)  BY <1>6 DEF Stable
<1>9. \A u \in Tx \ {t} : Apart(k, tx[u])
  BY <1>0, <1>5, <1>6 DEF Apart, PostsOf, ImagesOf, Working
<1>10. Fits(t, k)  BY <1>0, <1>3, <1>6, <1>7, <1>8, <1>9 DEF Fits
<1> QED  BY <1>0, <1>4, <1>10, TxStep

-----------------------------------------------------------------------------
(* The commits that give a post other images. *)

(* The rows a new version starts from: those that were read, or with a        *)
(* deletion undone.                                                           *)
Carried(t, rows, S) ==
    \A i \in tx[t].images :
        /\ rows[i].st = img[i].st /\ rows[i].said = img[i].said
        /\ rows[i] = img[i] \/ (i \in S /\ rows[i].mod = "pass" /\ img[i].said # "block")

(* NewVersion and RestoreHistory: p shows S from now on.  The transaction has *)
(* locked S and the images p showed, so who refers to them is as it was read. *)
LEMMA ReplaceStep ==
  ASSUME Sound, NEW t \in Tx, tx[t].pc = "work", NEW p \in Post, NEW S,
         S \subseteq tx[t].images, post[p].imgs \subseteq tx[t].images,
         NEW rows \in [Image -> ImageRow],
         Carried(t, rows, S), validateAndOrderImages(rows, S),
         NEW row \in PostRow, row.imgs = S, post' = [post EXCEPT ![p] = row],
         WriteImages(t, ReplaceImages(rows, tx[t].read, p, S))
  PROVE  /\ img' \in [Image -> ImageRow]
         /\ \A i \in Image \ tx[t].images : img'[i] = img[i]
         /\ \A i \in tx[t].images : Agrees(i)'
         /\ \A i \in S : img'[i].mod = rows[i].mod
<1> DEFINE L == tx[t].images
           new == ReplaceImages(rows, tx[t].read, p, S)
<1>0. /\ L \subseteq Image /\ Stable(tx[t])
      /\ post \in [Post -> PostRow] /\ img \in [Image -> ImageRow]
      /\ \A i \in Image : Agrees(i)
  BY RowType DEF Sound, Typed
<1>1. img' = [i \in Image |-> IF i \in L THEN new[i] ELSE img[i]]  BY DEF WriteImages
<1>2. \A q \in Post : post'[q] = IF q = p THEN row ELSE post[q]  BY <1>0
<1>3. \A i \in L : \A q \in Post : i \in tx[t].read.post[q].imgs <=> i \in post[q].imgs
  BY <1>0 DEF Stable
<1>4. ASSUME NEW i \in Image
      PROVE  new[i] \in ImageRow /\ new[i].mod = rows[i].mod /\ new[i].last = rows[i].last
             /\ new[i].said = rows[i].said
             /\ new[i].st = IF i \in S THEN "ready"
                            ELSE IF i \in tx[t].read.post[p].imgs
                                    /\ \A q \in Post \ {p} : i \notin tx[t].read.post[q].imgs
                            THEN "retired" ELSE rows[i].st
  <2>1. new[i] = IF i \in S THEN [rows[i] EXCEPT !.st = "ready"]
                 ELSE IF i \in tx[t].read.post[p].imgs
                         /\ \A q \in Post \ {p} : i \notin tx[t].read.post[q].imgs
                 THEN [rows[i] EXCEPT !.st = "retired"] ELSE rows[i]
    BY DEF ReplaceImages
  <2>2. rows[i] \in ImageRow  OBVIOUS
  <2>3. \A st \in {"ready", "retired"} :
          LET s == [rows[i] EXCEPT !.st = st] IN
          s \in ImageRow /\ s.mod = rows[i].mod /\ s.last = rows[i].last
          /\ s.said = rows[i].said /\ s.st = st
    BY <2>2, ImageRowType
  <2> HIDE DEF new
  <2> QED  BY <2>1, <2>2, <2>3
<1> HIDE DEF new
<1>5. img' \in [Image -> ImageRow] /\ \A i \in Image \ L : img'[i] = img[i]
  BY <1>0, <1>1, <1>4
<1>6. \A i \in S : img'[i].mod = rows[i].mod  BY <1>0, <1>1, <1>4
<1>7. ASSUME NEW i \in L PROVE Agrees(i)'
  <2>0. i \in Image /\ img'[i] = new[i]  BY <1>0, <1>1
  <2>1. /\ img'[i].mod = rows[i].mod /\ img'[i].last = rows[i].last /\ img'[i].said = img[i].said
        /\ img'[i].st = IF i \in S THEN "ready"
                        ELSE IF i \in post[p].imgs /\ \A q \in Post \ {p} : i \notin post[q].imgs
                        THEN "retired" ELSE img[i].st
    BY <1>3, <1>4, <2>0 DEF Carried
  <2>2. Agrees(i)  BY <1>0, <2>0
  <2>3. CASE i \in S
    <3>1. img'[i].st = "ready" /\ i \in post'[p].imgs  BY <1>2, <2>1, <2>3
    <3>2. img'[i].mod # "block"  BY <2>1, <2>3 DEF validateAndOrderImages
    <3>3. img[i].said # "block"  BY <2>1, <2>2, <2>3, <3>2 DEF Agrees, Carried
    <3> QED  BY <2>1, <3>1, <3>2, <3>3 DEF Agrees
  <2>4. CASE i \notin S
    <3>1. rows[i] = img[i] /\ \A q \in Post : i \in post'[q].imgs <=> q # p /\ i \in post[q].imgs
      BY <1>2, <2>4 DEF Carried
    <3>2. (img'[i].st = "ready") <=> \E q \in Post : i \in post'[q].imgs
      BY <2>1, <2>2, <2>4, <3>1 DEF Agrees
    <3>3. \A q \in Post : i \in post'[q].imgs => post'[q].del = post[q].del
      BY <1>2, <3>1
    <3> QED  BY <2>1, <2>2, <3>1, <3>2, <3>3 DEF Agrees
  <2> QED  BY <2>3, <2>4
<1> QED  BY <1>5, <1>6, <1>7

(* Such a commit is confined to the post and to the images it locked. *)
LEMMA VersionStep ==
  ASSUME Sound, NEW t \in Tx, tx[t].pc = "work", NEW p \in Post, NEW row \in PostRow,
         row.imgs \subseteq tx[t].images, post[p].imgs \subseteq tx[t].images, row.st # "none",
         IF post[p].st = "none" THEN tx[t].req.op = "create" /\ p = tx[t].req.p
         ELSE p \in tx[t].posts,
         post' = [post EXCEPT ![p] = row],
         img' \in [Image -> ImageRow], \A i \in Image \ tx[t].images : img'[i] = img[i],
         \A i \in tx[t].images : Agrees(i)',
         hist' \in [Post -> Seq(SUBSET Image)], text' \in [Post -> Seq(TextRecord)],
         \A q \in Post : \A n \in 1 .. Len(hist[q]) :
             n \in 1 .. Len(hist'[q]) /\ hist'[q][n] = hist[q][n],
         \A q \in Post : Versions(q)', jobs' = jobs, End(t)
  PROVE  Sound'
<1>0. post \in [Post -> PostRow] /\ jobs \in [Image -> SUBSET Job]  BY DEF Sound, Typed
<1>1. \A q \in Post : post'[q] = IF q = p THEN row ELSE post[q]  BY <1>0
<1>2. TypedData'  BY <1>0 DEF TypedData
<1>3. Confined(t)  BY <1>1 DEF Confined
<1> QED  BY <1>2, <1>3, CommitStep

(* The verdicts the moderation records of the images hold. *)
LEMMA ModsType ==
  ASSUME NEW rows \in [Image -> ImageRow], NEW S \in SUBSET Image
  PROVE  /\ Mods(rows, S) \in SUBSET (Verdict \cup {"pending"})
         /\ \A i \in S : rows[i].mod \in Mods(rows, S)
<1>1. \A g \in ImageRow : g.mod \in Verdict \cup {"pending"}  BY DEF ImageRow
<1> QED  BY <1>1 DEF Mods

LEMMA TextType ==
  /\ \A v \in Verdict : Machine(v) \in TextRecord /\ Machine(v).v = v
                        /\ Machine(v).by = "machine" /\ v # "none"
  /\ NoText \in TextRecord /\ NoText.by = "none"
  BY DEF Machine, NoText, TextRecord, Verdict

(* Whatever a step makes public has only passed images and a passed text. *)
Published ==
    \A q \in Post : post'[q].st = "approved" /\ ~post'[q].del /\ post'[q] # post[q] =>
        /\ \A i \in post'[q].imgs : img'[i].mod = "pass"
        /\ text'[q][post'[q].rev].v = "pass"

LEMMA NewVersionSound ==
  ASSUME Sound, NEW t \in Tx, tx[t].pc = "work", tx[t].req.op \in {"create", "update"},
         NEW v \in Verdict, NEW rev, rev = Len(hist[tx[t].req.p]) + 1, rev <= MaxRev,
         NewVersion(t, rev, v)
  PROVE  Sound' /\ Published
<1> DEFINE r == tx[t].req
           p == tx[t].req.p
           rows == tx[t].read.img
           row == [st |-> IF r.publish THEN aggregatePostModeration(v, Mods(rows, r.imgs))
                          ELSE "draft",
                   del |-> FALSE, imgs |-> r.imgs, rev |-> rev]
           rec == IF r.publish THEN Machine(v) ELSE NoText
<1>0. /\ r \in Requests /\ Scoped(tx[t]) /\ Stable(tx[t]) /\ tx[t].read \in Seen
      /\ tx[t].images \subseteq Image
  BY RowType
<1>1. p \in Post /\ r.imgs \in SUBSET Image /\ r.publish \in BOOLEAN  BY <1>0, RequestType
<1>2. /\ post \in [Post -> PostRow] /\ hist \in [Post -> Seq(SUBSET Image)]
      /\ text \in [Post -> Seq(TextRecord)] /\ \A q \in Post : Versions(q)
  BY DEF Sound, Typed
<1>3. rows \in [Image -> ImageRow]  BY <1>0 DEF Seen
<1>4. rev \in 1 .. MaxRev  BY <1>1, <1>2, BoundAssumption
<1>5. row.st \in PostStatus /\ row.st # "none"
  BY <1>1, <1>3, ModsType, AggregateType DEF PostStatus
<1>6. row \in PostRow /\ row.imgs = r.imgs /\ row.rev = rev
  BY <1>1, <1>4, <1>5 DEF PostRow
<1>7. post' = [post EXCEPT ![p] = row]  BY DEF NewVersion
<1>8. /\ hist' = [hist EXCEPT ![p] = Append(hist[p], r.imgs)]
      /\ text' = [text EXCEPT ![p] = Append(text[p], rec)]
      /\ jobs' = jobs /\ End(t) /\ validateAndOrderImages(rows, r.imgs)
      /\ WriteImages(t, ReplaceImages(rows, tx[t].read, p, r.imgs))
  BY DEF NewVersion
<1> HIDE DEF row
<1>9. r.imgs \subseteq tx[t].images /\ post[p].imgs \subseteq tx[t].images
  BY <1>0, <1>1, <1>2 DEF Scoped, Working, OfPost, Versions
<1>10. IF post[p].st = "none" THEN r.op = "create" /\ p = r.p ELSE p \in tx[t].posts
  BY <1>0, <1>1 DEF Scoped, OfPost
<1>11. Carried(t, rows, r.imgs)  BY <1>0 DEF Stable, Carried
<1>12. /\ img' \in [Image -> ImageRow]
       /\ \A i \in Image \ tx[t].images : img'[i] = img[i]
       /\ \A i \in tx[t].images : Agrees(i)'
       /\ \A i \in r.imgs : img'[i].mod = rows[i].mod
  <2>1. r.imgs \subseteq tx[t].images  BY <1>9
  <2>2. post[p].imgs \subseteq tx[t].images  BY <1>9
  <2>3. validateAndOrderImages(rows, r.imgs)  BY <1>8
  <2>4. WriteImages(t, ReplaceImages(rows, tx[t].read, p, r.imgs))  BY <1>8
  <2>5. row \in PostRow  BY <1>6
  <2>6. row.imgs = r.imgs  BY <1>6
  <2>7. p \in Post  BY <1>1
  <2> HIDE DEF r, p, rows
  <2> QED  BY <1>3, <1>7, <1>11, <2>1, <2>2, <2>3, <2>4, <2>5, <2>6, <2>7, ReplaceStep, ZenonT(60)
<1>13. rec \in TextRecord /\ (rec.by # "none" => rec.v # "none")  BY <1>1, TextType
<1> HIDE DEF rec
<1>14. /\ hist' \in [Post -> Seq(SUBSET Image)]
       /\ \A q \in Post : hist'[q] = IF q = p THEN Append(hist[p], r.imgs) ELSE hist[q]
       /\ text' \in [Post -> Seq(TextRecord)]
       /\ \A q \in Post : text'[q] = IF q = p THEN Append(text[p], rec) ELSE text[q]
  BY <1>1, <1>2, <1>8, <1>13, AppendProperties
<1>15. /\ Len(Append(hist[p], r.imgs)) = Len(hist[p]) + 1
       /\ \A n \in 1 .. Len(hist[p]) : Append(hist[p], r.imgs)[n] = hist[p][n]
       /\ Len(Append(text[p], rec)) = Len(text[p]) + 1
       /\ \A n \in 1 .. Len(text[p]) : Append(text[p], rec)[n] = text[p][n]
       /\ Append(text[p], rec)[Len(text[p]) + 1] = rec
       /\ \A q \in Post : Len(hist[q]) \in Nat /\ Len(text[q]) \in Nat
  BY <1>1, <1>2, <1>13, AppendProperties
<1>16. \A q \in Post : \A n \in 1 .. Len(hist[q]) :
         n \in 1 .. Len(hist'[q]) /\ hist'[q][n] = hist[q][n]
  <2>1. ASSUME NEW n \in 1 .. Len(hist[p])
        PROVE  n \in 1 .. Len(Append(hist[p], r.imgs)) /\ Append(hist[p], r.imgs)[n] = hist[p][n]
    BY <1>1, <1>15
  <2> QED  BY <1>14, <2>1
<1>17. ASSUME NEW q \in Post PROVE Versions(q)'
  <2>1. CASE q # p
    <3>1. hist'[q] = hist[q] /\ text'[q] = text[q] /\ post'[q] = post[q]
      BY <1>2, <1>7, <1>14, <2>1
    <3> QED  BY <1>2, <3>1 DEF Versions
  <2>2. CASE q = p
    <3>1. post'[q] = row  BY <1>1, <1>2, <1>7, <2>2
    <3>2. Len(hist'[q]) = rev /\ Len(text'[q]) = rev  BY <1>1, <1>2, <1>14, <1>15, <2>2 DEF Versions
    <3>3. \A n \in 1 .. Len(text'[q]) : text'[q][n].by # "none" => text'[q][n].v # "none"
      <4>1. \A n \in 1 .. Len(text[p]) : text[p][n].by # "none" => text[p][n].v # "none"
        BY <1>1, <1>2 DEF Versions
      <4>2. text'[q] = Append(text[p], rec) /\ Len(text'[q]) = Len(text[p]) + 1
            /\ Len(text[p]) \in Nat
        BY <1>1, <1>14, <1>15, <2>2
      <4>3. ASSUME NEW n \in 1 .. Len(text'[q]), text'[q][n].by # "none"
            PROVE  text'[q][n].v # "none"
        <5>1. CASE n \in 1 .. Len(text[p])
          <6>1. text'[q][n] = text[p][n]  BY <1>15, <4>2, <5>1
          <6> QED  BY <4>1, <4>3, <5>1, <6>1
        <5>2. CASE n = Len(text[p]) + 1
          <6>1. text'[q][n] = rec  BY <1>15, <4>2, <5>2
          <6> QED  BY <1>13, <4>3, <6>1
        <5> QED  BY <4>2, <5>1, <5>2
      <4> QED  BY <4>3
    <3> QED  BY <1>4, <1>5, <1>6, <3>1, <3>2, <3>3 DEF Versions, row
  <2> QED  BY <2>1, <2>2
<1>18. row.st # "none" /\ row.imgs \subseteq tx[t].images  BY <1>5, <1>6, <1>9 DEF row
<1>19. Sound'
  BY <1>1, <1>6, <1>7, <1>8, <1>9, <1>10, <1>12, <1>14, <1>16, <1>17, <1>18, VersionStep, ZenonT(60)
<1>20. Published
  <2> SUFFICES ASSUME NEW q \in Post, post'[q].st = "approved", post'[q] # post[q]
               PROVE  /\ \A i \in post'[q].imgs : img'[i].mod = "pass"
                      /\ text'[q][post'[q].rev].v = "pass"
    BY DEF Published
  <2>1. q = p /\ post'[q] = row  BY <1>1, <1>2, <1>7
  <2>2. r.publish /\ aggregatePostModeration(v, Mods(rows, r.imgs)) = "approved"
    BY <2>1 DEF row
  <2>3. v = "pass" /\ Mods(rows, r.imgs) \subseteq {"pass"}
    BY <1>1, <1>3, <2>2, ModsType, AggregateType
  <2>4. \A i \in r.imgs : img'[i].mod = "pass"  BY <1>1, <1>3, <1>12, <2>3, ModsType
  <2>5. text'[q] = Append(text[p], rec) /\ post'[q].rev = Len(text[p]) + 1
    BY <1>1, <1>2, <1>6, <1>14, <2>1 DEF Versions
  <2>6. rec.v = "pass"  BY <2>2, <2>3, TextType DEF rec
  <2> QED  BY <1>6, <1>15, <2>1, <2>4, <2>5, <2>6
<1> QED  BY <1>19, <1>20

LEMMA CreateSound ==
  ASSUME Sound, NEW t \in Tx, NEW v \in Verdict, Create(t, v)
  PROVE  Sound' /\ Published
<1>1. tx[t].pc = "work" /\ tx[t].req.op = "create" /\ tx[t].req \in Requests /\ Scoped(tx[t])
      /\ NewVersion(t, 1, v)
  BY RowType DEF Create
<1>2. tx[t].req.p \in Post /\ post[tx[t].req.p].st = "none"
  BY <1>1, RequestType DEF Scoped
<1>3. 1 = Len(hist[tx[t].req.p]) + 1 /\ 1 <= MaxRev
  BY <1>2, BoundAssumption DEF Sound, Versions
<1> QED  BY <1>1, <1>3, NewVersionSound

LEMMA UpdateSound ==
  ASSUME Sound, NEW t \in Tx, NEW v \in Verdict, Update(t, v)
  PROVE  Sound' /\ Published
<1> DEFINE rev == NextHistoryRevision(tx[t].req.p)
<1>1. tx[t].pc = "work" /\ tx[t].req.op = "update" /\ tx[t].req \in Requests
      /\ NewVersion(t, rev, v) /\ Len(hist[tx[t].req.p]) < MaxRev
  BY RowType DEF Update
<1>2. tx[t].req.p \in Post  BY <1>1, RequestType
<1>3. rev = Len(hist[tx[t].req.p]) + 1 /\ rev <= MaxRev
  BY <1>1, <1>2, BoundAssumption DEF Sound, Typed, NextHistoryRevision
<1> QED  BY <1>1, <1>3, NewVersionSound

(* restoreAdminPostDeleteImages only touches images a deletion has blocked. *)
LEMMA RestoredType ==
  ASSUME Sound, NEW t \in Tx, tx[t].pc = "work", NEW S
  PROVE  LET rows == restoreAdminPostDeleteImages(tx[t].read.img, S)
         IN /\ rows \in [Image -> ImageRow] /\ Carried(t, rows, S)
            /\ \A i \in tx[t].images : i \in S => ~(rows[i].mod = "block" /\ rows[i].last = "delete")
            /\ \A i \in tx[t].images : i \notin S => rows[i] = img[i]
<1> DEFINE old == tx[t].read.img
           rows == restoreAdminPostDeleteImages(old, S)
<1>0. tx[t].read \in Seen /\ Stable(tx[t]) /\ tx[t].images \subseteq Image
      /\ \A i \in Image : Agrees(i)
  BY RowType DEF Sound
<1>1. old \in [Image -> ImageRow] /\ \A i \in tx[t].images : old[i] = img[i]
  BY <1>0 DEF Seen, Stable
<1>2. ASSUME NEW i \in Image
      PROVE  LET s == [old[i] EXCEPT !.mod = "pass", !.last = "restore"] IN
             /\ s \in ImageRow /\ s.mod = "pass" /\ s.said = old[i].said /\ s.st = old[i].st
             /\ rows[i] = IF i \in S /\ old[i].mod = "block" /\ old[i].last = "delete"
                          THEN s ELSE old[i]
  <2>1. old[i] \in ImageRow  BY <1>1
  <2> QED  BY <2>1, ImageRowType DEF restoreAdminPostDeleteImages
<1>3. rows \in [Image -> ImageRow]
  BY <1>1, <1>2 DEF restoreAdminPostDeleteImages
<1>4. ASSUME NEW i \in tx[t].images
      PROVE  /\ rows[i].st = img[i].st /\ rows[i].said = img[i].said
             /\ rows[i] = img[i] \/ (i \in S /\ rows[i].mod = "pass" /\ img[i].said # "block")
             /\ i \in S => ~(rows[i].mod = "block" /\ rows[i].last = "delete")
             /\ i \notin S => rows[i] = img[i]
  <2>1. i \in Image /\ old[i] = img[i] /\ Agrees(i)  BY <1>0, <1>1
  <2> HIDE DEF rows, old
  <2> QED  BY <1>2, <2>1 DEF Agrees
<1> HIDE DEF rows
<1>5. Carried(t, rows, S)  BY <1>4 DEF Carried
<1> QED  BY <1>3, <1>4, <1>5 DEF rows

(* A record that replaces the text record of one version. *)
LEMMA RecordType ==
  ASSUME Sound, NEW p \in Post, NEW n \in 1 .. Len(text[p]), NEW rec \in TextRecord,
         rec.by # "none" => rec.v # "none", text' = [text EXCEPT ![p][n] = rec]
  PROVE  /\ text' \in [Post -> Seq(TextRecord)]
         /\ text'[p][n] = rec
         /\ \A q \in Post :
              /\ Len(text'[q]) = Len(text[q])
              /\ \A m \in 1 .. Len(text'[q]) : text'[q][m].by # "none" => text'[q][m].v # "none"
<1> DEFINE sq == [text[p] EXCEPT ![n] = rec]
<1>1. text \in [Post -> Seq(TextRecord)] /\ \A q \in Post : Versions(q)  BY DEF Sound, Typed
<1>2. text[p] \in Seq(TextRecord)  BY <1>1
<1>3. /\ sq \in Seq(TextRecord) /\ Len(sq) = Len(text[p])
      /\ \A m \in 1 .. Len(text[p]) : sq[m] = IF m = n THEN rec ELSE text[p][m]
  BY <1>2, ExceptSeq
<1>4. text' = [text EXCEPT ![p] = sq]  OBVIOUS
<1> HIDE DEF sq
<1>5. text' \in [Post -> Seq(TextRecord)] /\ \A q \in Post : text'[q] = IF q = p THEN sq ELSE text[q]
  BY <1>1, <1>3, <1>4
<1>6. \A q \in Post : \A m \in 1 .. Len(text[q]) : text[q][m].by # "none" => text[q][m].v # "none"
  BY <1>1 DEF Versions
<1> QED  BY <1>3, <1>5, <1>6

LEMMA RestoreHistorySound ==
  ASSUME Sound, NEW t \in Tx, NEW v \in Verdict, RestoreHistory(t, v)
  PROVE  Sound' /\ Published
<1> DEFINE r == tx[t].req
           p == tx[t].req.p
           S == hist[r.p][r.rev]
           rows == IF post[r.p].del THEN restoreAdminPostDeleteImages(tx[t].read.img, S)
                   ELSE tx[t].read.img
           rec == IF text[r.p][r.rev].by = "none" THEN Machine(v) ELSE text[r.p][r.rev]
           row == [st |-> aggregatePostModeration(rec.v, Mods(rows, S)),
                   del |-> FALSE, imgs |-> S, rev |-> r.rev]
<1>0. /\ tx[t].pc = "work" /\ r.op = "restoreHistory" /\ r \in Requests /\ Scoped(tx[t])
      /\ Stable(tx[t]) /\ tx[t].read \in Seen /\ tx[t].images \subseteq Image
  BY RowType DEF RestoreHistory
<1>1. /\ post \in [Post -> PostRow] /\ hist \in [Post -> Seq(SUBSET Image)]
      /\ text \in [Post -> Seq(TextRecord)] /\ \A q \in Post : Versions(q)
  BY DEF Sound, Typed
<1>2. p \in Post /\ r.rev \in 1 .. MaxRev /\ p \in tx[t].posts /\ post[p].st # "none"
      /\ post[p].imgs \subseteq tx[t].images /\ r.rev \in 1 .. Len(hist[p])
      /\ S \subseteq tx[t].images
  BY <1>0, RequestType DEF Scoped, OfPost, Working
<1>3. S \in SUBSET Image /\ r.rev \in 1 .. Len(text[p])
  BY <1>0, <1>1, <1>2 DEF Versions
<1>4. rows \in [Image -> ImageRow] /\ Carried(t, rows, S)
  <2>1. CASE post[p].del  BY <1>0, <2>1, RestoredType
  <2>2. CASE ~post[p].del  BY <1>0, <2>2 DEF Seen, Stable, Carried
  <2> QED  BY <2>1, <2>2
<1>5. rec \in TextRecord /\ rec.v \in Verdict /\ rec.v # "none"
  <2>1. text[p][r.rev] \in TextRecord  BY <1>1, <1>2, <1>3
  <2>2. text[p][r.rev].by # "none" => text[p][r.rev].v # "none"
    BY <1>1, <1>2, <1>3 DEF Versions
  <2>3. \A e \in TextRecord : e.v # "none" => e.v \in Verdict  BY DEF TextRecord
  <2> QED  BY <2>1, <2>2, <2>3, TextType
<1>6. validateAndOrderImages(rows, S)  BY DEF RestoreHistory
<1>7. post' = [post EXCEPT ![p] = row]  BY DEF RestoreHistory
<1>8. text' = [text EXCEPT ![p][r.rev] = rec]  BY DEF RestoreHistory
<1>9. WriteImages(t, ReplaceImages(rows, tx[t].read, p, S))  BY DEF RestoreHistory
<1>10. hist' = hist /\ jobs' = jobs /\ End(t)  BY DEF RestoreHistory
<1> HIDE DEF rows, rec
<1>11. row.st \in PostStatus /\ row.st # "none"
  BY <1>3, <1>4, <1>5, ModsType, AggregateType
<1>12. row \in PostRow
  <2>1. r.rev \in 0 .. MaxRev  BY <1>2, BoundAssumption
  <2> QED  BY <1>3, <1>11, <2>1, ZenonT(60) DEF PostRow
<1>13. row.imgs = S /\ row.rev = r.rev  OBVIOUS
<1> HIDE DEF row
<1>14. /\ text' \in [Post -> Seq(TextRecord)]
       /\ \A q \in Post :
            /\ Len(text'[q]) = Len(text[q])
            /\ \A m \in 1 .. Len(text'[q]) : text'[q][m].by # "none" => text'[q][m].v # "none"
       /\ text'[p][r.rev] = rec
  BY <1>2, <1>3, <1>5, <1>8, RecordType
<1>15. ASSUME NEW q \in Post PROVE Versions(q)'
  <2>1. post'[q] = IF q = p THEN row ELSE post[q]  BY <1>1, <1>7
  <2>2. Versions(q)  BY <1>1
  <2>3. /\ Len(text'[q]) = Len(text[q])
        /\ \A m \in 1 .. Len(text'[q]) : text'[q][m].by # "none" => text'[q][m].v # "none"
    BY <1>14
  <2> QED  BY <1>2, <1>10, <1>11, <1>13, <2>1, <2>2, <2>3 DEF Versions
<1>16. S \subseteq tx[t].images /\ row.imgs \subseteq tx[t].images  BY <1>2, <1>13
<1>17. /\ img' \in [Image -> ImageRow]
       /\ \A i \in Image \ tx[t].images : img'[i] = img[i]
       /\ \A i \in tx[t].images : Agrees(i)'
       /\ \A i \in S : img'[i].mod = rows[i].mod
  <2>1. S \subseteq tx[t].images  BY <1>16
  <2>2. post[p].imgs \subseteq tx[t].images  BY <1>2
  <2>3. rows \in [Image -> ImageRow]  BY <1>4
  <2>4. Carried(t, rows, S)  BY <1>4
  <2>5. row.imgs = S  BY <1>13
  <2>6. p \in Post /\ tx[t].pc = "work"  BY <1>0, <1>2
  <2> HIDE DEF p, S
  <2> QED  BY <1>6, <1>7, <1>9, <1>12, <2>1, <2>2, <2>3, <2>4, <2>5, <2>6, ReplaceStep, ZenonT(60)
<1>18. /\ hist' \in [Post -> Seq(SUBSET Image)]
       /\ \A q \in Post : \A n \in 1 .. Len(hist[q]) :
            n \in 1 .. Len(hist'[q]) /\ hist'[q][n] = hist[q][n]
  BY <1>1, <1>10
<1>19. IF post[p].st = "none" THEN tx[t].req.op = "create" /\ p = tx[t].req.p
       ELSE p \in tx[t].posts
  BY <1>2
<1>20. Published
  <2> SUFFICES ASSUME NEW q \in Post, post'[q].st = "approved", post'[q] # post[q]
               PROVE  /\ \A i \in post'[q].imgs : img'[i].mod = "pass"
                      /\ text'[q][post'[q].rev].v = "pass"
    BY DEF Published
  <2>1. q = p /\ post'[q] = row  BY <1>1, <1>2, <1>7
  <2>2. aggregatePostModeration(rec.v, Mods(rows, S)) = "approved"  BY <2>1 DEF row
  <2>3. rec.v = "pass" /\ Mods(rows, S) \subseteq {"pass"}
    BY <1>3, <1>4, <1>5, <2>2, ModsType, AggregateType
  <2>4. \A i \in S : img'[i].mod = "pass"  BY <1>3, <1>4, <1>17, <2>3, ModsType
  <2> QED  BY <1>13, <1>14, <2>1, <2>3, <2>4
<1> HIDE DEF p, S, r
<1>21. Sound'
  BY <1>0, <1>2, <1>7, <1>10, <1>11, <1>12, <1>14, <1>15, <1>16, <1>17, <1>18, <1>19, VersionStep
<1> QED  BY <1>20, <1>21

-----------------------------------------------------------------------------
(* The commits that keep the images of every post. *)

(* Deletion and restoration of a post. *)
LEMMA DeleteSound ==
  ASSUME Sound, NEW t \in Tx, Delete(t)
  PROVE  Sound' /\ Published
<1> DEFINE p == tx[t].req.p
           L == tx[t].images
           old == tx[t].read.img
           alone == ImageIDsWithoutUndeletedPostReferences(tx[t].read, p)
           rows == [i \in Image |-> IF i \in alone /\ old[i].mod # "block"
                                    THEN applyAdminPostDeleteImage(old[i]) ELSE old[i]]
<1>0. /\ tx[t].pc = "work" /\ tx[t].req.op = "delete" /\ tx[t].req \in Requests /\ Scoped(tx[t])
      /\ Stable(tx[t]) /\ tx[t].read \in Seen /\ L \subseteq Image
  BY RowType DEF Delete
<1>1. /\ Typed /\ post \in [Post -> PostRow] /\ img \in [Image -> ImageRow]
      /\ \A q \in Post : Versions(q)
      /\ \A i \in Image : Agrees(i)
  BY DEF Sound, Typed
<1>2. p \in Post /\ post[p].imgs \subseteq L  BY <1>0, RequestType DEF Scoped, OfPost, Working
<1>3. old \in [Image -> ImageRow] /\ \A i \in L : old[i] = img[i]  BY <1>0 DEF Seen, Stable
<1>4. /\ post' = [post EXCEPT ![p].del = TRUE] /\ hist' = hist /\ text' = text /\ jobs' = jobs
      /\ End(t)
      /\ img' = [i \in Image |-> IF i \in L THEN rows[i] ELSE img[i]]
  BY DEF Delete, WriteImages
<1>5. /\ post' \in [Post -> PostRow]
      /\ \A q \in Post : /\ post'[q].imgs = post[q].imgs /\ post'[q].st = post[q].st
                         /\ post'[q].rev = post[q].rev
                         /\ post'[q].del = (q = p \/ post[q].del)
  BY <1>1, <1>2, <1>4 DEF PostRow
<1>6. ASSUME NEW i \in Image
      PROVE  LET s == applyAdminPostDeleteImage(old[i]) IN
             /\ s \in ImageRow /\ s.mod = "block" /\ s.last = "delete"
             /\ s.said = old[i].said /\ s.st = old[i].st
             /\ rows[i] = IF i \in alone /\ old[i].mod # "block" THEN s ELSE old[i]
  BY <1>3, ImageRowType
<1>7. rows \in [Image -> ImageRow]  BY <1>3, <1>6
<1>8. ASSUME NEW i \in L PROVE Agrees(i)'
  <2>0. i \in Image /\ old[i] = img[i] /\ Agrees(i) /\ img'[i] = rows[i]
    BY <1>0, <1>1, <1>3, <1>4
  <2>1. i \in alone => \A q \in Post : i \in post[q].imgs => q = p \/ post[q].del
    BY <1>0 DEF ImageIDsWithoutUndeletedPostReferences, Stable
  <2> HIDE DEF rows, alone, old
  <2>2. img'[i].said = img[i].said /\ img'[i].st = img[i].st
        /\ (img'[i] = img[i] \/ (i \in alone /\ img[i].mod # "block" /\ img'[i].mod = "block"))
    BY <1>6, <2>0
  <2>3. (img'[i].st = "ready") <=> \E q \in Post : i \in post'[q].imgs
    BY <1>5, <2>0, <2>2 DEF Agrees
  <2>4. img'[i].mod = "block" /\ img'[i].last = "delete" =>
          \A q \in Post : i \in post'[q].imgs => post'[q].del
    BY <1>5, <2>0, <2>1, <2>2 DEF Agrees
  <2>5. img'[i].said = "block" => img'[i].mod = "block" /\ img'[i].last # "delete"
    BY <2>0, <2>2 DEF Agrees
  <2> QED  BY <2>3, <2>4, <2>5 DEF Agrees
<1> HIDE DEF rows
<1>9. TypedData'  BY <1>1, <1>4, <1>5, <1>7 DEF Typed, TypedData
<1>10. \A q \in Post : Versions(q)'  BY <1>1, <1>4, <1>5 DEF Versions
<1>11. Confined(t)  BY <1>4, <1>5 DEF Confined
<1>12. Published
  <2>1. \A q \in Post : q # p => post'[q] = post[q]  BY <1>1, <1>4
  <2> QED  BY <1>5, <2>1 DEF Published
<1>13. Sound'  BY <1>0, <1>4, <1>8, <1>9, <1>10, <1>11, CommitStep
<1> QED  BY <1>12, <1>13

LEMMA RestorePostSound ==
  ASSUME Sound, NEW t \in Tx, RestorePost(t)
  PROVE  Sound' /\ Published
<1> DEFINE p == tx[t].req.p
           L == tx[t].images
           rows == restoreAdminPostDeleteImages(tx[t].read.img, post[p].imgs)
           rec == [v |-> "pass", by |-> "restore"]
<1>0. /\ tx[t].pc = "work" /\ tx[t].req.op = "restorePost" /\ tx[t].req \in Requests
      /\ Scoped(tx[t]) /\ Stable(tx[t]) /\ tx[t].read \in Seen /\ L \subseteq Image
  BY RowType DEF RestorePost
<1>1. /\ Typed /\ post \in [Post -> PostRow] /\ img \in [Image -> ImageRow]
      /\ \A q \in Post : Versions(q)
      /\ \A i \in Image : Agrees(i)
  BY DEF Sound, Typed
<1>2. p \in Post /\ post[p].imgs \subseteq L /\ post[p].st # "none"
  BY <1>0, RequestType DEF Scoped, OfPost, Working
<1>3. /\ rows \in [Image -> ImageRow] /\ Carried(t, rows, post[p].imgs)
      /\ \A i \in L : i \in post[p].imgs => ~(rows[i].mod = "block" /\ rows[i].last = "delete")
      /\ \A i \in L : i \notin post[p].imgs => rows[i] = img[i]
  BY <1>0, RestoredType
<1>4. /\ post' = [post EXCEPT ![p].del = FALSE] /\ hist' = hist /\ jobs' = jobs /\ End(t)
      /\ text' = [text EXCEPT ![p][post[p].rev] = rec]
      /\ img' = [i \in Image |-> IF i \in L THEN rows[i] ELSE img[i]]
  BY DEF RestorePost, WriteImages
<1>5. /\ post' \in [Post -> PostRow]
      /\ \A q \in Post : /\ post'[q].imgs = post[q].imgs /\ post'[q].st = post[q].st
                         /\ post'[q].rev = post[q].rev
                         /\ post'[q].del = (q # p /\ post[q].del)
  BY <1>1, <1>2, <1>4 DEF PostRow
<1>6. rec \in TextRecord /\ rec.v # "none"  BY DEF TextRecord, Verdict
<1>7. post[p].rev \in 1 .. Len(text[p])  BY <1>1, <1>2 DEF Versions
<1> HIDE DEF rec, rows
<1>8. /\ text' \in [Post -> Seq(TextRecord)]
      /\ \A q \in Post :
           /\ Len(text'[q]) = Len(text[q])
           /\ \A m \in 1 .. Len(text'[q]) : text'[q][m].by # "none" => text'[q][m].v # "none"
      /\ text'[p][post[p].rev] = rec
  BY <1>2, <1>4, <1>6, <1>7, RecordType, ZenonT(60)
<1>9. ASSUME NEW i \in L PROVE Agrees(i)'
  <2>0. i \in Image /\ Agrees(i) /\ img'[i] = rows[i]  BY <1>0, <1>1, <1>4
  <2>1. /\ rows[i].st = img[i].st /\ rows[i].said = img[i].said
        /\ rows[i] = img[i] \/ (i \in post[p].imgs /\ rows[i].mod = "pass" /\ img[i].said # "block")
    BY <1>3 DEF Carried
  <2>2. (img'[i].st = "ready") <=> \E q \in Post : i \in post'[q].imgs
    BY <1>5, <2>0, <2>1 DEF Agrees
  <2>3. img'[i].mod = "block" /\ img'[i].last = "delete" =>
          \A q \in Post : i \in post'[q].imgs => post'[q].del
    <3>1. CASE i \in post[p].imgs  BY <1>3, <2>0, <3>1
    <3>2. CASE i \notin post[p].imgs
      <4>1. img'[i] = img[i]  BY <1>3, <2>0, <3>2
      <4>2. \A q \in Post : i \in post'[q].imgs => i \in post[q].imgs /\ post'[q].del = post[q].del
        BY <1>1, <1>5, <3>2 DEF PostRow
      <4> QED  BY <2>0, <4>1, <4>2 DEF Agrees
    <3> QED  BY <3>1, <3>2
  <2>4. img'[i].said = "block" => img'[i].mod = "block" /\ img'[i].last # "delete"
    BY <2>0, <2>1 DEF Agrees
  <2> QED  BY <2>2, <2>3, <2>4 DEF Agrees
<1>10. TypedData'  BY <1>1, <1>3, <1>4, <1>5, <1>8 DEF Typed, TypedData
<1>11. ASSUME NEW q \in Post PROVE Versions(q)'
  <2>1. /\ Len(text'[q]) = Len(text[q])
        /\ \A m \in 1 .. Len(text'[q]) : text'[q][m].by # "none" => text'[q][m].v # "none"
    BY <1>8
  <2>2. Versions(q)  BY <1>1
  <2>3. post'[q].imgs = post[q].imgs /\ post'[q].st = post[q].st /\ post'[q].rev = post[q].rev
    BY <1>5
  <2> QED  BY <1>4, <2>1, <2>2, <2>3 DEF Versions
<1>12. Confined(t)  BY <1>2, <1>4, <1>5 DEF Confined
<1>13. Published
  <2> SUFFICES ASSUME NEW q \in Post, post'[q].st = "approved", post'[q] # post[q]
               PROVE  /\ \A i \in post'[q].imgs : img'[i].mod = "pass"
                      /\ text'[q][post'[q].rev].v = "pass"
    BY DEF Published
  <2>0. \A o \in Post : o # p => post'[o] = post[o]  BY <1>1, <1>4
  <2>1. q = p /\ post[p].st = "approved"
    <3>1. q = p  BY <2>0
    <3>2. post'[q].st = post[q].st  BY <1>5
    <3> QED  BY <3>1, <3>2
  <2>2. Mods(rows, post[p].imgs) \subseteq {"pass"}  BY <2>1 DEF RestorePost, rows
  <2>3. \A i \in post[p].imgs : img'[i].mod = "pass"
    BY <1>0, <1>2, <1>3, <1>4, <2>2, ModsType
  <2>4. rec.v = "pass"  BY DEF rec
  <2> QED  BY <1>5, <1>8, <2>1, <2>3, <2>4
<1>14. Sound'  BY <1>0, <1>4, <1>9, <1>10, <1>11, <1>12, CommitStep
<1> QED  BY <1>13, <1>14

(* Verdicts change the status of posts, never their images or deletion. *)
StatusOnly ==
    /\ post' \in [Post -> PostRow]
    /\ \A q \in Post :
          /\ post'[q].imgs = post[q].imgs /\ post'[q].del = post[q].del
          /\ post'[q].rev = post[q].rev
          /\ post'[q].st = "none" <=> post[q].st = "none"

(* An image is judged, or its row stays as it is. *)
JudgedOnly(t) ==
    /\ img' \in [Image -> ImageRow]
    /\ \A i \in Image \ tx[t].images : img'[i] = img[i]
    /\ \A i \in Image :
          /\ img'[i].st = img[i].st
          /\ img'[i] = img[i] \/ (img'[i].mod = img'[i].said /\ img'[i].last # "delete")

LEMMA VerdictStep ==
  ASSUME Sound, NEW t \in Tx, tx[t].pc \in {"work", "approve"}, End(t),
         StatusOnly, JudgedOnly(t), hist' = hist, jobs' \in [Image -> SUBSET Job],
         text' \in [Post -> Seq(TextRecord)],
         \A q \in Post :
           /\ Len(text'[q]) = Len(text[q])
           /\ \A n \in 1 .. Len(text'[q]) : text'[q][n].by # "none" => text'[q][n].v # "none"
  PROVE  Sound'
<1>0. /\ hist \in [Post -> Seq(SUBSET Image)] /\ \A q \in Post : Versions(q)
      /\ \A i \in Image : Agrees(i)
      /\ tx[t].images \subseteq Image
  BY RowType DEF Sound, Typed
<1>1. TypedData'  BY <1>0 DEF TypedData, StatusOnly, JudgedOnly
<1>2. \A q \in Post : Versions(q)'  BY <1>0 DEF Versions, StatusOnly
<1>3. Confined(t)  BY DEF Confined, StatusOnly, JudgedOnly
<1>4. ASSUME NEW i \in Image PROVE Agrees(i)'
  <2>1. Agrees(i)  BY <1>0
  <2>2. /\ img'[i].st = img[i].st
        /\ img'[i] = img[i] \/ (img'[i].mod = img'[i].said /\ img'[i].last # "delete")
    BY DEF JudgedOnly
  <2>3. \A q \in Post : post'[q].imgs = post[q].imgs /\ post'[q].del = post[q].del
    BY DEF StatusOnly
  <2> QED  BY <2>1, <2>2, <2>3 DEF Agrees
<1> QED  BY <1>0, <1>1, <1>2, <1>3, <1>4, CommitStep

(* The text records of a state that is left alone. *)
LEMMA TextKept ==
  ASSUME Sound, text' = text
  PROVE  /\ text' \in [Post -> Seq(TextRecord)]
         /\ \A q \in Post :
              /\ Len(text'[q]) = Len(text[q])
              /\ \A n \in 1 .. Len(text'[q]) : text'[q][n].by # "none" => text'[q][n].v # "none"
  BY DEF Sound, Typed, Versions

(* ReconcilePendingPosts sees the new row of the image and decides posts that *)
(* were undecided.                                                            *)
LEMMA ApplyVerdictStep ==
  ASSUME Sound, NEW t \in Tx, tx[t].pc = "work", OfImage(tx[t].req), NEW row \in ImageRow,
         row.st = img[tx[t].req.i].st, row.mod = row.said, row.last # "delete",
         ApplyVerdict(t, row)
  PROVE  /\ StatusOnly /\ JudgedOnly(t) /\ hist' = hist /\ text' = text /\ End(t)
         /\ Published
<1> DEFINE i == tx[t].req.i
           s == [Snapshot EXCEPT !.img[i] = row]
<1>0. /\ tx[t].req \in Requests /\ Scoped(tx[t]) /\ tx[t].images \subseteq Image
      /\ post \in [Post -> PostRow] /\ img \in [Image -> ImageRow] /\ text \in [Post -> Seq(TextRecord)]
  BY RowType DEF Sound, Typed
<1>1. i \in Image /\ i \in tx[t].images  BY <1>0, RequestType DEF Scoped, Working
<1>2. s.post = post /\ s.text = text /\ s.img = [img EXCEPT ![i] = row]
  BY DEF Snapshot
<1>3. /\ WriteImages(t, s.img) /\ post' = ReconcilePendingPosts(s, Targets(t))
      /\ hist' = hist /\ text' = text /\ End(t)
  BY DEF ApplyVerdict
<1> HIDE DEF s
<1>4. img' = [img EXCEPT ![i] = row]
  <2>1. img' = [j \in Image |-> IF j \in tx[t].images THEN s.img[j] ELSE img[j]]
    BY <1>3 DEF WriteImages
  <2> QED  BY <1>0, <1>1, <1>2, <2>1
<1>5. JudgedOnly(t)  BY <1>0, <1>1, <1>4 DEF JudgedOnly
<1>6. ASSUME NEW q \in Post
      PROVE  /\ post'[q] \in PostRow
             /\ post'[q].imgs = post[q].imgs /\ post'[q].del = post[q].del
             /\ post'[q].rev = post[q].rev
             /\ post'[q].st = "none" <=> post[q].st = "none"
             /\ post'[q].st = "approved" /\ post'[q] # post[q] => Approves(s, q, post[q])
  <2>1. post'[q] = IF q \notin Targets(t) THEN post[q]
                   ELSE IF Rejects(s, q, post[q]) THEN [post[q] EXCEPT !.st = "rejected"]
                   ELSE IF Approves(s, q, post[q]) THEN [post[q] EXCEPT !.st = "approved"]
                   ELSE post[q]
    BY <1>2, <1>3 DEF ReconcilePendingPosts
  <2>2. post[q] \in PostRow  BY <1>0
  <2>3. \A st \in {"rejected", "approved"} :
          LET w == [post[q] EXCEPT !.st = st] IN
          w \in PostRow /\ w.imgs = post[q].imgs /\ w.del = post[q].del /\ w.rev = post[q].rev
          /\ w.st = st
    BY <2>2 DEF PostRow, PostStatus
  <2>4. Rejects(s, q, post[q]) \/ Approves(s, q, post[q]) => post[q].st # "none"
    BY DEF Rejects, Approves, Undecided
  <2> QED  BY <2>1, <2>2, <2>3, <2>4
<1>7. StatusOnly
  <2>1. post' \in [Post -> PostRow]  BY <1>3, <1>6 DEF ReconcilePendingPosts
  <2> QED  BY <1>6, <2>1 DEF StatusOnly
<1>8. Published
  <2> SUFFICES ASSUME NEW q \in Post, post'[q].st = "approved", post'[q] # post[q]
               PROVE  /\ \A j \in post'[q].imgs : img'[j].mod = "pass"
                      /\ text'[q][post'[q].rev].v = "pass"
    BY DEF Published
  <2>1. /\ Approves(s, q, post[q]) /\ post'[q].imgs = post[q].imgs /\ post'[q].rev = post[q].rev
        /\ post'[q].imgs \in SUBSET Image
    BY <1>6 DEF PostRow
  <2>2. s.img = img' /\ img' \in [Image -> ImageRow]  BY <1>2, <1>4, <1>5 DEF JudgedOnly
  <2>3. Mods(img', post'[q].imgs) \subseteq {"pass"}  BY <2>1, <2>2 DEF Approves
  <2>4. \A j \in post'[q].imgs : img'[j].mod = "pass"  BY <2>1, <2>2, <2>3, ModsType
  <2>5. text[q][post[q].rev].v = "pass"  BY <1>2, <2>1 DEF Approves, TextOf
  <2> QED  BY <1>3, <2>1, <2>4, <2>5
<1> QED  BY <1>3, <1>5, <1>7, <1>8

(* The row a callback or a review of the image writes. *)
LEMMA ResultType ==
  ASSUME Sound, NEW t \in Tx, tx[t].pc = "work", tx[t].req.op = "callback"
  PROVE  LET row == Judged(img[tx[t].req.i], tx[t].req.v, "machine")
         IN  /\ OfImage(tx[t].req) /\ row \in ImageRow /\ row.st = img[tx[t].req.i].st
             /\ row.mod = row.said /\ row.last # "delete"
<1>1. tx[t].req \in Requests /\ img \in [Image -> ImageRow]  BY RowType DEF Sound, Typed
<1>2. OfImage(tx[t].req)  BY DEF OfImage
<1>3. tx[t].req.i \in Image /\ tx[t].req.v \in Verdict  BY <1>1, <1>2, RequestType
<1>4. img[tx[t].req.i] \in ImageRow  BY <1>1, <1>3
<1> QED  BY <1>2, <1>3, <1>4, JudgedType

LEMMA ReviewType ==
  ASSUME Sound, NEW t \in Tx, tx[t].pc = "work", tx[t].req.op = "reviewImage",
         img[tx[t].req.i].open[tx[t].req.of] > 0
  PROVE  LET row == [Judged(img[tx[t].req.i], tx[t].req.v, "manual")
                       EXCEPT !.open[tx[t].req.of] = @ - 1]
         IN  /\ OfImage(tx[t].req) /\ row \in ImageRow /\ row.st = img[tx[t].req.i].st
             /\ row.mod = row.said /\ row.last # "delete"
<1>1. tx[t].req \in Requests /\ img \in [Image -> ImageRow]  BY RowType DEF Sound, Typed
<1>2. OfImage(tx[t].req)  BY DEF OfImage
<1>3. tx[t].req.i \in Image /\ tx[t].req.of \in Bad /\ tx[t].req.v \in Verdict
  BY <1>1, <1>2, RequestType DEF Verdict
<1> DEFINE old == img[tx[t].req.i]
           g == Judged(old, tx[t].req.v, "manual")
<1>4. old \in ImageRow  BY <1>1, <1>3
<1>5. g \in ImageRow /\ g.mod = g.said /\ g.last = "manual" /\ g.st = old.st
  BY <1>3, <1>4, JudgedType
<1>6. g.open = old.open  BY <1>4 DEF Judged, ImageRow
<1>7. g.open[tx[t].req.of] > 0  BY <1>6
<1> HIDE DEF g, old
<1>8. LET w == [g EXCEPT !.open[tx[t].req.of] = @ - 1] IN
      w \in ImageRow /\ w.mod = g.mod /\ w.last = g.last /\ w.said = g.said /\ w.st = g.st
  BY <1>3, <1>5, <1>7, AnsweredType
<1> QED  BY <1>2, <1>5, <1>8 DEF g, old

LEMMA ResultSound ==
  ASSUME Sound, NEW t \in Tx, applyImageResult(t)
  PROVE  Sound' /\ Published
<1> DEFINE r == tx[t].req
           row == Judged(img[r.i], r.v, "machine")
<1>0. tx[t].pc = "work" /\ r.op = "callback" /\ r \in Requests
      /\ ApplyVerdict(t, row) /\ jobs' = [jobs EXCEPT ![r.i] = @ \cup {r.j}]
  BY RowType DEF applyImageResult
<1>1. /\ OfImage(r) /\ row \in ImageRow /\ row.st = img[r.i].st /\ row.mod = row.said
      /\ row.last # "delete"
  BY <1>0, ResultType
<1>2. jobs' \in [Image -> SUBSET Job]
  BY <1>0, <1>1, RequestType DEF Sound, Typed
<1> HIDE DEF row
<1>3. StatusOnly /\ JudgedOnly(t) /\ hist' = hist /\ text' = text /\ End(t) /\ Published
  BY <1>0, <1>1, ApplyVerdictStep
<1>4. tx[t].pc \in {"work", "approve"}  BY <1>0
<1>5. Sound'  BY <1>2, <1>3, <1>4, TextKept, VerdictStep
<1> QED  BY <1>3, <1>5

LEMMA ManualSound ==
  ASSUME Sound, NEW t \in Tx, ManualReview(t)
  PROVE  Sound' /\ Published
<1> DEFINE r == tx[t].req
           row == [Judged(img[r.i], r.v, "manual") EXCEPT !.open[r.of] = @ - 1]
<1>0. tx[t].pc = "work" /\ r.op = "reviewImage" /\ r \in Requests
      /\ img[r.i].open[r.of] > 0 /\ ApplyVerdict(t, row) /\ jobs' = jobs
  BY RowType DEF ManualReview
<1>1. /\ OfImage(r) /\ row \in ImageRow /\ row.st = img[r.i].st /\ row.mod = row.said
      /\ row.last # "delete"
  BY <1>0, ReviewType
<1>2. jobs' \in [Image -> SUBSET Job]  BY <1>0 DEF Sound, Typed
<1> HIDE DEF row
<1>3. StatusOnly /\ JudgedOnly(t) /\ hist' = hist /\ text' = text /\ End(t) /\ Published
  BY <1>0, <1>1, ApplyVerdictStep
<1>4. tx[t].pc \in {"work", "approve"}  BY <1>0
<1>5. Sound'  BY <1>2, <1>3, <1>4, TextKept, VerdictStep
<1> QED  BY <1>3, <1>5

LEMMA RepeatSound ==
  ASSUME Sound, NEW t \in Tx, reconcileDuplicateImageResult(t)
  PROVE  Sound'
<1>1. Fits(t, Idle)  BY IdleType, IdleSound DEF Fits
<1>2. tx' = [tx EXCEPT ![t] = Idle] /\ begun' \in 0 .. MaxTx
      /\ UNCHANGED <<post, hist, text, img, jobs>>
  BY RowType DEF reconcileDuplicateImageResult, End
<1> QED  BY <1>1, <1>2, TxStep

LEMMA ApproveSound ==
  ASSUME Sound, NEW t \in Tx, ApprovePosts(t)
  PROVE  Sound'
<1>0. /\ tx[t].pc = "approve" /\ Scoped(tx[t]) /\ tx[t].todo \subseteq Post
      /\ tx[t].posts \subseteq Post /\ tx[t].images \subseteq Image
      /\ post \in [Post -> PostRow] /\ img \in [Image -> ImageRow] /\ jobs \in [Image -> SUBSET Job]
  BY RowType DEF ApprovePosts, Sound, Typed
<1>1. tx[t].req.op = "reviewPost"  BY <1>0 DEF Scoped
<1>2. /\ post' = [q \in Post |->
                    IF q \in Rechecked(t) THEN [post[q] EXCEPT !.st = "approved"]
                    ELSE IF q \in tx[t].rej THEN [post[q] EXCEPT !.st = "rejected"]
                    ELSE post[q]]
      /\ text' = Reviewed(t).text /\ WriteImages(t, Reviewed(t).img)
      /\ hist' = hist /\ jobs' = jobs /\ End(t)
  BY DEF ApprovePosts
<1> DEFINE O == OpenImages(tx[t].req.p)
           v == tx[t].req.v
           w == Reviewed(t)
<1>3. /\ w \in Seen
      /\ \A q \in Post :
           /\ Len(w.text[q]) = Len(text[q])
           /\ \A n \in 1 .. Len(text[q]) : w.text[q][n].by # "none" => w.text[q][n].v # "none"
      /\ O \subseteq tx[t].images
      /\ \A i \in Image :
           /\ i \notin O => w.img[i] = img[i]
           /\ i \in O => /\ w.img[i].mod = v /\ w.img[i].said = v
                         /\ w.img[i].last = "manual" /\ w.img[i].st = img[i].st
  BY <1>0, <1>1, ReviewedType
<1> HIDE DEF O, w
<1>4. \A q \in Rechecked(t) \cup tx[t].rej : post[q].st # "none"
  BY <1>0 DEF Scoped, Rechecked, Chosen
<1>5. StatusOnly
  <2>1. ASSUME NEW q \in Post
        PROVE  /\ post'[q] \in PostRow
               /\ post'[q].imgs = post[q].imgs /\ post'[q].del = post[q].del
               /\ post'[q].rev = post[q].rev
               /\ post'[q].st = "none" <=> post[q].st = "none"
    <3>1. post[q] \in PostRow  BY <1>0
    <3>2. \A st \in {"rejected", "approved"} :
            LET g == [post[q] EXCEPT !.st = st] IN
            g \in PostRow /\ g.imgs = post[q].imgs /\ g.del = post[q].del /\ g.rev = post[q].rev
            /\ g.st = st
      BY <3>1 DEF PostRow, PostStatus
    <3>3. post'[q] = IF q \in Rechecked(t) THEN [post[q] EXCEPT !.st = "approved"]
                     ELSE IF q \in tx[t].rej THEN [post[q] EXCEPT !.st = "rejected"]
                     ELSE post[q]
      BY <1>2
    <3> QED  BY <1>4, <3>1, <3>2, <3>3
  <2>2. post' \in [Post -> PostRow]  BY <1>2, <2>1
  <2> QED  BY <2>1, <2>2 DEF StatusOnly
<1>6. JudgedOnly(t)
  <2>1. img' = [i \in Image |-> IF i \in tx[t].images THEN w.img[i] ELSE img[i]]
    BY <1>2 DEF WriteImages, w
  <2>2. w.img \in [Image -> ImageRow]  BY <1>3 DEF Seen
  <2> QED  BY <1>0, <1>3, <2>1, <2>2 DEF JudgedOnly
<1>7. text' \in [Post -> Seq(TextRecord)]  BY <1>2, <1>3 DEF Seen, w
<1>8. \A q \in Post :
        /\ Len(text'[q]) = Len(text[q])
        /\ \A n \in 1 .. Len(text'[q]) : text'[q][n].by # "none" => text'[q][n].v # "none"
  BY <1>2, <1>3 DEF w
<1>9. jobs' \in [Image -> SUBSET Job] /\ tx[t].pc \in {"work", "approve"}  BY <1>0, <1>2
<1> QED  BY <1>2, <1>5, <1>6, <1>7, <1>8, <1>9, VerdictStep

-----------------------------------------------------------------------------
(* The invariant, and what follows from it. *)

LEMMA NextSound == Sound /\ [Next]_vars => Sound'
<1> SUFFICES ASSUME Sound, [Next]_vars PROVE Sound'  OBVIOUS
<1>1. CASE UNCHANGED vars
  <2>1. /\ post' = post /\ hist' = hist /\ text' = text /\ img' = img /\ jobs' = jobs
        /\ tx' = tx /\ begun' = begun
    BY <1>1 DEF vars
  <2>2. Typed'  BY <2>1 DEF Sound, Typed
  <2>3. \A p \in Post : Versions(p)'  BY <2>1 DEF Sound, Versions
  <2>4. \A t \in Tx : Scoped(tx[t])'
    <3>1. ASSUME NEW t \in Tx PROVE Scoped(tx[t])'
      <4>1. Scoped(tx[t])  BY DEF Sound
      <4> QED  BY <2>1, <4>1 DEF Scoped
    <3> QED  BY <3>1
  <2>5. \A t, u \in Tx : t # u => Apart(tx[t], tx[u])'
    BY <2>1 DEF Sound, Apart, PostsOf, ImagesOf
  <2>6. \A t \in Tx : Stable(tx[t])'  BY <2>1 DEF Sound, Stable
  <2>7. \A i \in Image : Agrees(i)'  BY <2>1 DEF Sound, Agrees
  <2> QED  BY <2>2, <2>3, <2>4, <2>5, <2>6, <2>7 DEF Sound
<1>2. ASSUME NEW t \in Tx, NEW r \in Requests, Begin(t, r) PROVE Sound'
  BY <1>2, BeginSound
<1>3. ASSUME NEW t \in Tx, LockPendingPostsForImage(t) PROVE Sound'  BY <1>3, ScopeSound
<1>4. ASSUME NEW t \in Tx, LockPosts(t) PROVE Sound'  BY <1>4, LockPostsSound
<1>5. ASSUME NEW t \in Tx, LockImages(t) PROVE Sound'  BY <1>5, LockImagesSound
<1>6. ASSUME NEW t \in Tx, NEW v \in Verdict, Create(t, v) PROVE Sound'  BY <1>6, CreateSound
<1>7. ASSUME NEW t \in Tx, NEW v \in Verdict, Update(t, v) PROVE Sound'  BY <1>7, UpdateSound
<1>8. ASSUME NEW t \in Tx, NEW v \in Verdict, RestoreHistory(t, v) PROVE Sound'
  BY <1>8, RestoreHistorySound
<1>9. ASSUME NEW t \in Tx, Delete(t) PROVE Sound'  BY <1>9, DeleteSound
<1>10. ASSUME NEW t \in Tx, RestorePost(t) PROVE Sound'  BY <1>10, RestorePostSound
<1>11. ASSUME NEW t \in Tx, applyImageResult(t) PROVE Sound'  BY <1>11, ResultSound
<1>12. ASSUME NEW t \in Tx, reconcileDuplicateImageResult(t) PROVE Sound'  BY <1>12, RepeatSound
<1>13. ASSUME NEW t \in Tx, ManualReview(t) PROVE Sound'  BY <1>13, ManualSound
<1>14. ASSUME NEW t \in Tx, ManualReviewPost(t) PROVE Sound'  BY <1>14, ReviewSound
<1>15. ASSUME NEW t \in Tx, RejectPosts(t) PROVE Sound'  BY <1>15, RejectSound
<1>16. ASSUME NEW t \in Tx, ApprovePosts(t) PROVE Sound'  BY <1>16, ApproveSound
<1>17. ASSUME NEW t \in Tx, Abort(t) PROVE Sound'  BY <1>17, AbortSound
<1> QED
  BY <1>1, <1>2, <1>3, <1>4, <1>5, <1>6, <1>7, <1>8, <1>9, <1>10, <1>11, <1>12, <1>13, <1>14,
     <1>15, <1>16, <1>17 DEF Next

(* The locks of the transactions and the rows of posts and images fit        *)
(* together in every reachable state.                                        *)
THEOREM AlwaysSound == Spec => []Sound
  BY InitSound, NextSound, PTL DEF Spec

(* Every row keeps its type; every version of a post has its images and its  *)
(* text record, and the current revision is one of them.                     *)
THEOREM TypeCorrect == Spec => []TypeOK
<1>1. Sound => TypeOK
  <2> SUFFICES ASSUME Sound PROVE TypeOK  OBVIOUS
  <2>1. Typed /\ \A p \in Post : Versions(p)  BY DEF Sound
  <2>2. \A k \in TxRow :
          /\ k.pc \in {"idle", "work", "reject", "approve"} \cup Waiting
          /\ k.posts \subseteq Post /\ k.images \subseteq Image
          /\ k.todo \subseteq Post /\ k.rej \subseteq Post
    BY DEF TxRow
  <2>3. \A t \in Tx :
          /\ tx[t].pc \in {"idle", "work", "reject", "approve"} \cup Waiting
          /\ tx[t].pc # "idle" => tx[t].req \in Requests
          /\ tx[t].posts \subseteq Post /\ tx[t].images \subseteq Image
          /\ tx[t].todo \subseteq Post /\ tx[t].rej \subseteq Post
    BY <2>1, <2>2 DEF Typed
  <2>4. \A p \in Post :
          /\ Len(hist[p]) = Len(text[p]) /\ Len(hist[p]) <= MaxRev
          /\ post[p].st # "none" => post[p].rev \in 1 .. Len(hist[p])
    BY <2>1 DEF Versions
  <2> QED  BY <2>1, <2>3, <2>4 DEF TypeOK, Typed
<1> QED  BY <1>1, AlwaysSound, PTL

(* ReplaceImages and the triggers on post_images: an asset is ready exactly  *)
(* while a post refers to it, whatever edits, deletions and restorations run *)
(* at the same time.                                                         *)
THEOREM ReferenceSafety == Spec => []ReadyWhileReferenced
<1>1. Sound => ReadyWhileReferenced  BY DEF Sound, Agrees, ReadyWhileReferenced
<1> QED  BY <1>1, AlwaysSound, PTL

(* deletePostWithHistoryAndImages: an image blocked for the deletion of its  *)
(* last post is shown by no undeleted post.                                  *)
THEOREM DeletionSafety == Spec => []DeletionBlocksOrphans
<1>1. Sound => DeletionBlocksOrphans  BY DEF Sound, Agrees, DeletionBlocksOrphans
<1> QED  BY <1>1, AlwaysSound, PTL

(* restoreAdminPostDeleteImages: no deletion and restoration releases an     *)
(* image that a machine or a reviewer has blocked.                           *)
THEOREM BlockSafety == Spec => []BlockedStaysBlocked
<1>1. Sound => BlockedStaysBlocked  BY DEF Sound, Agrees, BlockedStaysBlocked
<1> QED  BY <1>1, AlwaysSound, PTL

(* Without the review of a whole post, no transaction is in its two          *)
(* statements.                                                               *)
LEMMA NoReview ==
  ASSUME "reviewPost" \notin Operation, Sound, NEW t \in Tx
  PROVE  tx[t].pc \notin {"reject", "approve"} /\ ~ManualReviewPost(t)
<1>1. Scoped(tx[t]) /\ (tx[t].pc # "idle" => tx[t].req \in Requests)  BY RowType
<1>2. tx[t].pc # "idle" => tx[t].req.op # "reviewPost"  BY <1>1, RequestType
<1> QED  BY <1>1, <1>2 DEF Scoped, ManualReviewPost

(* Without the review of a whole post, every transaction locks posts, then   *)
(* images, then asks for nothing more: no transactions wait for each other   *)
(* in a circle.                                                              *)
THEOREM WaitSafety ==
  ASSUME "reviewPost" \notin Operation
  PROVE  Spec => []NoWaitCycle
<1>1. Sound => NoWaitCycle
  <2> SUFFICES ASSUME Sound, NEW S \in (SUBSET Tx) \ {{}}
               PROVE  \E t \in S : \A u \in S \ {t} : ~WaitsFor(t, u)
    BY DEF NoWaitCycle
  <2>0. \A t \in S : t \in Tx /\ tx[t].pc \notin {"reject", "approve"}  BY NoReview
  <2>1. CASE \E t \in S : tx[t].pc \notin {"posts", "images"}
    BY <2>0, <2>1 DEF WaitsFor
  <2>2. CASE \A t \in S : tx[t].pc \in {"posts", "images"}
    <3>1. \A u \in S : ImagesHeld(u) = {}  BY <2>2 DEF ImagesHeld
    <3>2. CASE \E t \in S : tx[t].pc = "images"  BY <2>0, <3>1, <3>2 DEF WaitsFor
    <3>3. CASE \A t \in S : tx[t].pc = "posts"
      <4>1. \A u \in S : PostsHeld(u) = {}  BY <3>3 DEF PostsHeld
      <4>2. PICK t \in S : TRUE  OBVIOUS
      <4>3. \A u \in S \ {t} : ~WaitsFor(t, u)  BY <3>3, <4>1, <4>2 DEF WaitsFor
      <4> QED  BY <4>3
    <3> QED  BY <2>2, <3>2, <3>3
  <2> QED  BY <2>1, <2>2
<1> QED  BY <1>1, AlwaysSound, PTL

(* Without the review of a whole post, whatever becomes public, or is        *)
(* replaced while public, shows only passed images and a passed text of its  *)
(* current revision in the committed state.                                  *)
THEOREM PublicationSafety ==
  ASSUME "reviewPost" \notin Operation
  PROVE  Spec => PublishedPassed
<1> DEFINE Step == \A p \in Post :
                     Public(p)' /\ post'[p] # post[p] =>
                       /\ \A i \in post'[p].imgs : img'[i].mod = "pass"
                       /\ text'[p][post'[p].rev].v = "pass"
<1>1. Sound /\ [Next]_vars => [Step]_vars
  <2> SUFFICES ASSUME Sound, Next PROVE Published
    BY DEF Published, Public
  <2>0. ASSUME UNCHANGED post PROVE Published  BY <2>0 DEF Published
  <2>1. ASSUME NEW t \in Tx, NEW r \in Requests, Begin(t, r) PROVE Published
    BY <2>0, <2>1 DEF Begin
  <2>2. ASSUME NEW t \in Tx,
               \/ LockPendingPostsForImage(t) \/ LockPosts(t) \/ LockImages(t) \/ Abort(t)
               \/ reconcileDuplicateImageResult(t)
        PROVE  Published
    BY <2>0, <2>2 DEF LockPendingPostsForImage, LockPosts, LockImages, Abort,
                      reconcileDuplicateImageResult
  <2>3. ASSUME NEW t \in Tx, NEW v \in Verdict, Create(t, v) PROVE Published
    BY <2>3, CreateSound
  <2>4. ASSUME NEW t \in Tx, NEW v \in Verdict, Update(t, v) PROVE Published
    BY <2>4, UpdateSound
  <2>5. ASSUME NEW t \in Tx, NEW v \in Verdict, RestoreHistory(t, v) PROVE Published
    BY <2>5, RestoreHistorySound
  <2>6. ASSUME NEW t \in Tx, Delete(t) PROVE Published  BY <2>6, DeleteSound
  <2>7. ASSUME NEW t \in Tx, RestorePost(t) PROVE Published  BY <2>7, RestorePostSound
  <2>8. ASSUME NEW t \in Tx, applyImageResult(t) PROVE Published  BY <2>8, ResultSound
  <2>9. ASSUME NEW t \in Tx, ManualReview(t) PROVE Published  BY <2>9, ManualSound
  <2>10. ASSUME NEW t \in Tx, ManualReviewPost(t) \/ RejectPosts(t) \/ ApprovePosts(t)
         PROVE  Published
    BY <2>10, NoReview DEF RejectPosts, ApprovePosts
  <2> QED
    BY <2>1, <2>2, <2>3, <2>4, <2>5, <2>6, <2>7, <2>8, <2>9, <2>10 DEF Next
<1> QED  BY <1>1, AlwaysSound, PTL DEF Spec, PublishedPassed

=============================================================================
