--------------------------- MODULE PostModeration ---------------------------
(***************************************************************************)
(* Posts, the images they show and the verdicts on both, changed by        *)
(* concurrent database transactions (PostgreSQL, READ COMMITTED): the       *)
(* author's writes, the admin's deletions and restorations, the provider's *)
(* image callbacks and the manual reviews.  A transaction locks posts, then *)
(* images, decides on the rows it read under the locks and becomes visible *)
(* with its commit.                                                         *)
(***************************************************************************)
EXTENDS Integers, Sequences, FiniteSets

CONSTANTS
    Post,       \* ids of posts
    Image,      \* completed uploads of the author, for posts
    Tx,         \* database transactions that run at the same time
    Job,        \* provider jobs an image is submitted under
    Operation,  \* the operations that are called, with drafts and repeated callbacks or not
    MaxRev,     \* bound: revisions of a post
    MaxTx,      \* bound: transactions begun
    None

ASSUME BoundAssumption == MaxRev \in Nat \ {0} /\ MaxTx \in Nat
ASSUME NoneAssumption == None \notin Post \cup Image
ASSUME OperationAssumption ==
    Operation \subseteq {"create", "draft", "update", "delete", "restoreHistory", "restorePost",
                         "callback", "repeat", "reviewPost", "reviewImage"}

VARIABLES
    post,    \* posts and post_images
    hist,    \* post_histories: the images of every revision
    text,    \* moderation_records: the latest text record of every revision
    img,     \* image_assets and what moderation_records say about them
    jobs,    \* moderation_records: the provider jobs recorded for an image
    tx,      \* the open transactions
    begun

vars == <<post, hist, text, img, jobs, tx, begun>>

Verdict == {"pass", "review", "block"}
Bad == {"review", "block"}
PostStatus == {"none", "draft", "pending", "approved", "rejected"}

PostRow == [st : PostStatus, del : BOOLEAN, imgs : SUBSET Image, rev : 0 .. MaxRev]

(* by: who wrote the latest record on the text of a revision. *)
TextRecord == [v : Verdict \cup {"none"}, by : {"none", "machine", "manual", "restore"}]

(* last: who wrote the latest record.  said: the latest verdict of a machine *)
(* or a reviewer.  open: the records a manual review can still answer.       *)
ImageRow == [mod : Verdict \cup {"pending"}, st : {"pending", "ready", "retired"},
             last : {"none", "machine", "manual", "delete", "restore"},
             said : Verdict \cup {"none"}, open : [Bad -> Nat]]

NoPost == [st |-> "none", del |-> FALSE, imgs |-> {}, rev |-> 0]
NoText == [v |-> "none", by |-> "none"]
NewImage == [mod |-> "pending", st |-> "pending", last |-> "none", said |-> "none",
             open |-> [b \in Bad |-> 0]]
Idle == [pc |-> "idle", req |-> None, posts |-> {}, images |-> {}, read |-> None,
         todo |-> {}, rej |-> {}]

Request(op) ==
    CASE op \in {"create", "update"} ->
             [op : {op}, p : Post, imgs : SUBSET Image,
              publish : {TRUE} \cup {x \in {FALSE} : "draft" \in Operation}]
      [] op \in {"delete", "restorePost"} -> [op : {op}, p : Post]
      [] op = "restoreHistory" -> [op : {op}, p : Post, rev : 1 .. MaxRev]
      [] op = "reviewPost" -> [op : {op}, p : Post, v : {"pass", "block"}]
      [] op = "callback" -> [op : {op}, i : Image, j : Job, v : Verdict]
      [] op = "reviewImage" -> [op : {op}, i : Image, of : Bad, v : {"pass", "block"}]

Requests == UNION {Request(op) : op \in Operation \ {"draft", "repeat"}}

(* What a statement sees. *)
Snapshot == [post |-> post, text |-> text, img |-> img]

Waiting == {"scope", "posts", "images"}

TypeOK ==
    /\ post \in [Post -> PostRow]
    /\ hist \in [Post -> Seq(SUBSET Image)]
    /\ text \in [Post -> Seq(TextRecord)]
    /\ img \in [Image -> ImageRow]
    /\ jobs \in [Image -> SUBSET Job]
    /\ begun \in 0 .. MaxTx
    /\ \A t \in Tx :
          /\ tx[t].pc \in {"idle", "work", "reject", "approve"} \cup Waiting
          /\ tx[t].pc # "idle" => tx[t].req \in Requests
          /\ tx[t].posts \subseteq Post /\ tx[t].images \subseteq Image
          /\ tx[t].todo \subseteq Post /\ tx[t].rej \subseteq Post
    /\ \A p \in Post :
          /\ Len(hist[p]) = Len(text[p]) /\ Len(hist[p]) <= MaxRev
          /\ post[p].st # "none" => post[p].rev \in 1 .. Len(hist[p])

(* The next record on an image: a verdict of the machine or of a reviewer. *)
Judged(row, v, by) ==
    [row EXCEPT !.mod = v, !.last = by, !.said = v,
                !.open = IF by = "machine" /\ v \in Bad
                         THEN [row.open EXCEPT ![v] = row.open[v] + 1] ELSE row.open]

(* The author's uploads, some of them already judged under a first job. *)
Init ==
    /\ post = [p \in Post |-> NoPost]
    /\ hist = [p \in Post |-> <<>>]
    /\ text = [p \in Post |-> <<>>]
    /\ img \in [Image -> {NewImage} \cup {Judged(NewImage, v, "machine") : v \in Verdict}]
    /\ \E j \in Job : jobs = [i \in Image |-> IF img[i] = NewImage THEN {} ELSE {j}]
    /\ tx = [t \in Tx |-> Idle]
    /\ begun = 0

-----------------------------------------------------------------------------
(* Row locks. *)

PostsHeld(u) == IF tx[u].pc \in {"images", "work", "reject", "approve"} THEN tx[u].posts ELSE {}

(* fault: the assets are read without FOR UPDATE *)
ImagesHeld_Mutant(u) == {}

(* fault: a callback locks its own asset before the posts *)
ImagesHeld_Early(u) ==
    IF tx[u].pc \in {"work", "reject", "approve"} THEN tx[u].images
    ELSE IF tx[u].pc = "posts" /\ tx[u].req.op = "callback" THEN {tx[u].req.i} ELSE {}

ImagesHeld(u) == IF tx[u].pc \in {"work", "reject", "approve"} THEN tx[u].images ELSE {}

PostsFree(t, S) == \A u \in Tx \ {t} : S \cap PostsHeld(u) = {}
ImagesFree(t, S) == \A u \in Tx \ {t} : S \cap ImagesHeld(u) = {}

Showing(s, S) ==
    {q \in Post : s.post[q].st = "pending" /\ ~s.post[q].del /\ s.post[q].imgs \cap S # {}}

-----------------------------------------------------------------------------
(* Beginning a transaction. *)

OfImage(r) == r.op \in {"callback", "reviewImage"}

InFlight(p) == \E u \in Tx : tx[u].pc # "idle" /\ tx[u].req.op = "create" /\ tx[u].req.p = p

Begin(t, r) ==
    /\ tx[t].pc = "idle"
    /\ begun < MaxTx
    /\ begun' = begun + 1
    /\ IF OfImage(r)
       THEN /\ r.op = "reviewImage" =>
                  img[r.i].open[r.of] > 0 /\ Showing(Snapshot, {r.i}) = {}
            /\ r.op = "callback" /\ r.j \in jobs[r.i] => "repeat" \in Operation
            /\ tx' = [tx EXCEPT ![t] = [Idle EXCEPT !.pc = "scope", !.req = r]]
       ELSE IF r.op = "create"
       THEN /\ post[r.p].st = "none" /\ ~InFlight(r.p)
            /\ tx' = [tx EXCEPT ![t] = [Idle EXCEPT !.pc = "images", !.req = r, !.images = r.imgs]]
       ELSE /\ post[r.p].st # "none"
            /\ tx' = [tx EXCEPT ![t] = [Idle EXCEPT !.pc = "posts", !.req = r, !.posts = {r.p}]]
    /\ UNCHANGED <<post, hist, text, img, jobs>>

LockPendingPostsForImage(t) ==
    /\ tx[t].pc = "scope"
    /\ tx' = [tx EXCEPT ![t].pc = "posts", ![t].posts = Showing(Snapshot, {tx[t].req.i})]
    /\ UNCHANGED <<post, hist, text, img, jobs, begun>>

(* The posts a callback or a review of an image goes on with: the locked rows *)
(* that are still pending.                                                    *)
Targets(t) == {q \in tx[t].posts : post[q].st = "pending" /\ ~post[q].del}

Allowed(r) ==
    CASE r.op \in {"update", "delete"} -> ~post[r.p].del
      [] r.op = "restoreHistory" -> r.rev <= Len(hist[r.p])
      [] r.op = "restorePost" -> post[r.p].del
      [] r.op = "reviewPost" -> ~post[r.p].del /\ post[r.p].st \in {"pending", "rejected"}
      [] OTHER -> TRUE

LockImagesForPosts(t) ==
    LET r == tx[t].req IN
    CASE OfImage(r) -> {r.i} \cup UNION {post[q].imgs : q \in Targets(t)}
      [] r.op = "update" -> post[r.p].imgs \cup r.imgs
      [] r.op = "restoreHistory" -> post[r.p].imgs \cup hist[r.p][r.rev]
      [] OTHER -> post[r.p].imgs

LockPosts(t) ==
    /\ tx[t].pc = "posts"
    /\ PostsFree(t, tx[t].posts)
    /\ Allowed(tx[t].req)
    /\ tx' = [tx EXCEPT ![t].pc = "images", ![t].images = LockImagesForPosts(t)]
    /\ UNCHANGED <<post, hist, text, img, jobs, begun>>

LockImages(t) ==
    /\ tx[t].pc = "images"
    /\ ImagesFree(t, tx[t].images)
    /\ tx' = [tx EXCEPT ![t].pc = "work", ![t].read = Snapshot]
    /\ UNCHANGED <<post, hist, text, img, jobs, begun>>

(* A refusal, a failed statement or a deadlock victim: everything is undone. *)
Abort(t) ==
    /\ tx[t].pc # "idle"
    /\ tx' = [tx EXCEPT ![t] = Idle]
    /\ UNCHANGED <<post, hist, text, img, jobs, begun>>

End(t) ==
    /\ tx' = [tx EXCEPT ![t] = Idle]
    /\ UNCHANGED begun

-----------------------------------------------------------------------------
(* The author's writes.  The text is reviewed while the locks are held. *)

(* fault: an image whose review is still running does not hold the post back *)
aggregatePostModeration_Mutant(v, mods) ==
    IF "block" \in mods \cup {v} THEN "rejected"
    ELSE IF "review" \in mods \cup {v} THEN "pending" ELSE "approved"

aggregatePostModeration(v, mods) ==
    IF "block" \in mods \cup {v} THEN "rejected"
    ELSE IF v = "review" \/ mods \cap {"review", "pending"} # {} THEN "pending" ELSE "approved"

Mods(rows, S) == {rows[i].mod : i \in S}

validateAndOrderImages(rows, S) ==
    \A i \in S : rows[i].st \in {"pending", "ready"} /\ rows[i].mod # "block"

Machine(v) == [v |-> v, by |-> "machine"]

(* The triggers on post_images: an asset no post refers to retires. *)
ReplaceImages(rows, s, p, S) ==
    [i \in Image |->
        IF i \in S THEN [rows[i] EXCEPT !.st = "ready"]
        ELSE IF i \in s.post[p].imgs /\ \A q \in Post \ {p} : i \notin s.post[q].imgs
        THEN [rows[i] EXCEPT !.st = "retired"]
        ELSE rows[i]]

(* Rows a transaction did not lock keep what others committed meanwhile. *)
WriteImages(t, rows) ==
    img' = [i \in Image |-> IF i \in tx[t].images THEN rows[i] ELSE img[i]]

(* finishModeration: draft, or the text reviewed now. *)
NewVersion(t, rev, v) ==
    LET r == tx[t].req
        rows == tx[t].read.img
    IN  /\ validateAndOrderImages(rows, r.imgs)
        /\ post' = [post EXCEPT ![r.p] =
                       [st |-> IF r.publish THEN aggregatePostModeration(v, Mods(rows, r.imgs))
                               ELSE "draft",
                        del |-> FALSE, imgs |-> r.imgs, rev |-> rev]]
        /\ hist' = [hist EXCEPT ![r.p] = Append(@, r.imgs)]
        /\ text' = [text EXCEPT ![r.p] = Append(@, IF r.publish THEN Machine(v) ELSE NoText)]
        /\ WriteImages(t, ReplaceImages(rows, tx[t].read, r.p, r.imgs))
        /\ UNCHANGED jobs
        /\ End(t)

Create(t, v) ==
    /\ tx[t].pc = "work" /\ tx[t].req.op = "create"
    /\ NewVersion(t, 1, v)

(* fault: the number is taken after the new version was stored *)
NextHistoryRevision_Mutant(p) == Len(hist[p]) + 2

NextHistoryRevision(p) == Len(hist[p]) + 1

Update(t, v) ==
    /\ tx[t].pc = "work" /\ tx[t].req.op = "update"
    /\ Len(hist[tx[t].req.p]) < MaxRev
    /\ NewVersion(t, NextHistoryRevision(tx[t].req.p), v)

(* fault: only published posts count as a reference *)
ImageIDsWithoutUndeletedPostReferences_Mutant(s, p) ==
    {i \in s.post[p].imgs :
        \A q \in Post \ {p} : i \in s.post[q].imgs => s.post[q].del \/ s.post[q].st # "approved"}

ImageIDsWithoutUndeletedPostReferences(s, p) ==
    {i \in s.post[p].imgs : \A q \in Post \ {p} : i \in s.post[q].imgs => s.post[q].del}

applyAdminPostDeleteImage(row) ==
    [row EXCEPT !.mod = "block", !.last = "delete", !.open["block"] = @ + 1]

(* By the author or by an admin. *)
Delete(t) ==
    LET p == tx[t].req.p
        rows == tx[t].read.img
        alone == ImageIDsWithoutUndeletedPostReferences(tx[t].read, p)
    IN  /\ tx[t].pc = "work" /\ tx[t].req.op = "delete"
        /\ post' = [post EXCEPT ![p].del = TRUE]
        /\ WriteImages(t, [i \in Image |-> IF i \in alone /\ rows[i].mod # "block"
                                           THEN applyAdminPostDeleteImage(rows[i]) ELSE rows[i]])
        /\ UNCHANGED <<hist, text, jobs>>
        /\ End(t)

-----------------------------------------------------------------------------
(* Restorations. *)

(* fault: every blocked image of the post is released *)
restoreAdminPostDeleteImages_Mutant(rows, S) ==
    [i \in Image |-> IF i \in S /\ rows[i].mod = "block"
                     THEN [rows[i] EXCEPT !.mod = "pass", !.last = "restore"] ELSE rows[i]]

restoreAdminPostDeleteImages(rows, S) ==
    [i \in Image |-> IF i \in S /\ rows[i].mod = "block" /\ rows[i].last = "delete"
                     THEN [rows[i] EXCEPT !.mod = "pass", !.last = "restore"] ELSE rows[i]]

(* The verdict of the revision is reused; a revision without one is reviewed. *)
RestoreHistory(t, v) ==
    LET r == tx[t].req
        S == hist[r.p][r.rev]
        rows == IF post[r.p].del THEN restoreAdminPostDeleteImages(tx[t].read.img, S)
                ELSE tx[t].read.img
        record == IF text[r.p][r.rev].by = "none" THEN Machine(v) ELSE text[r.p][r.rev]
    IN  /\ tx[t].pc = "work" /\ r.op = "restoreHistory"
        /\ validateAndOrderImages(rows, S)
        /\ post' = [post EXCEPT ![r.p] =
                       [st |-> aggregatePostModeration(record.v, Mods(rows, S)),
                        del |-> FALSE, imgs |-> S, rev |-> r.rev]]
        /\ text' = [text EXCEPT ![r.p][r.rev] = record]
        /\ WriteImages(t, ReplaceImages(rows, tx[t].read, r.p, S))
        /\ UNCHANGED <<hist, jobs>>
        /\ End(t)

(* The restoration is recorded as a passing text record of the revision. *)
RestorePost(t) ==
    LET p == tx[t].req.p
        rows == restoreAdminPostDeleteImages(tx[t].read.img, post[p].imgs)
    IN  /\ tx[t].pc = "work" /\ tx[t].req.op = "restorePost"
        /\ post[p].st = "approved" => Mods(rows, post[p].imgs) \subseteq {"pass"}
        /\ post' = [post EXCEPT ![p].del = FALSE]
        /\ text' = [text EXCEPT ![p][post[p].rev] = [v |-> "pass", by |-> "restore"]]
        /\ WriteImages(t, rows)
        /\ UNCHANGED <<hist, jobs>>
        /\ End(t)

-----------------------------------------------------------------------------
(* Verdicts on an image. *)

TextOf(s, q, row) == IF row.rev \in DOMAIN s.text[q] THEN s.text[q][row.rev].v ELSE "none"

Undecided(row) == row.st \in {"pending", "rejected"} /\ ~row.del

Rejects(s, q, row) ==
    /\ Undecided(row)
    /\ "block" \in Mods(s.img, row.imgs) \/ TextOf(s, q, row) = "block"

Approves(s, q, row) ==
    /\ Undecided(row)
    /\ Mods(s.img, row.imgs) \subseteq {"pass"}
    /\ TextOf(s, q, row) = "pass"

(* The posts are locked: the statements see them as they are. *)
ReconcilePendingPosts(s, S) ==
    [q \in Post |-> IF q \notin S THEN s.post[q]
                    ELSE IF Rejects(s, q, s.post[q]) THEN [s.post[q] EXCEPT !.st = "rejected"]
                    ELSE IF Approves(s, q, s.post[q]) THEN [s.post[q] EXCEPT !.st = "approved"]
                    ELSE s.post[q]]

ApplyVerdict(t, row) ==
    LET i == tx[t].req.i
        s == [Snapshot EXCEPT !.img[i] = row]
    IN  /\ WriteImages(t, s.img)
        /\ post' = ReconcilePendingPosts(s, Targets(t))
        /\ UNCHANGED <<hist, text>>
        /\ End(t)

applyImageResult(t) ==
    LET r == tx[t].req
    IN  /\ tx[t].pc = "work" /\ r.op = "callback"
        /\ r.j \notin jobs[r.i]
        /\ ApplyVerdict(t, Judged(img[r.i], r.v, "machine"))
        /\ jobs' = [jobs EXCEPT ![r.i] = @ \cup {r.j}]

(* A provider repeats its callback: only the access intent is renewed. *)
reconcileDuplicateImageResult(t) ==
    /\ tx[t].pc = "work" /\ tx[t].req.op = "callback"
    /\ tx[t].req.j \in jobs[tx[t].req.i]
    /\ UNCHANGED <<post, hist, text, img, jobs>>
    /\ End(t)

ManualReview(t) ==
    LET r == tx[t].req
    IN  /\ tx[t].pc = "work" /\ r.op = "reviewImage"
        /\ img[r.i].open[r.of] > 0
        /\ ApplyVerdict(t, [Judged(img[r.i], r.v, "manual") EXCEPT !.open[r.of] = @ - 1])
        /\ UNCHANGED jobs

-----------------------------------------------------------------------------
(* Review of a whole post: the only transaction that takes locks on posts    *)
(* after it took locks on images.                                            *)

Current(p) == text[p][post[p].rev]

OpenText(p) == Current(p).by = "machine" /\ Current(p).v \in Bad

OpenImages(p) ==
    {i \in post[p].imgs : img[i].mod \in Bad /\ img[i].open[img[i].mod] > 0}

(* What the transaction sees with its own writes. *)
Reviewed(t) ==
    LET p == tx[t].req.p
        v == tx[t].req.v
    IN  [post |-> post,
         text |-> IF OpenText(p)
                  THEN [text EXCEPT ![p][post[p].rev] = [v |-> v, by |-> "manual"]] ELSE text,
         img |-> [i \in Image |->
                     IF i \in OpenImages(p)
                     THEN [Judged(img[i], v, "manual") EXCEPT !.open[img[i].mod] = 0]
                     ELSE img[i]]]

ManualReviewPost(t) ==
    LET p == tx[t].req.p
    IN  /\ tx[t].pc = "work" /\ tx[t].req.op = "reviewPost"
        /\ "pending" \notin Mods(img, post[p].imgs)
        /\ Current(p).by # "none"
        /\ OpenText(p) \/ OpenImages(p) # {}
        /\ tx' = [tx EXCEPT ![t].pc = "reject", ![t].read = Reviewed(t),
                            ![t].todo = {p} \cup Showing(Snapshot, OpenImages(p))]
        /\ UNCHANGED <<post, hist, text, img, jobs, begun>>

(* READ COMMITTED: the statement chose its rows in the snapshot it began     *)
(* with and waits for those another transaction has locked.  It then looks   *)
(* at the new version of the row, and at everything else as it was.          *)
Meets(t, q, row) ==
    IF tx[t].pc = "reject" THEN Rejects(tx[t].read, q, row) ELSE Approves(tx[t].read, q, row)

Chosen(t) == {q \in tx[t].todo : Meets(t, q, tx[t].read.post[q])}

Rechecked(t) ==
    {q \in Chosen(t) : Meets(t, q, [post[q] EXCEPT !.imgs = tx[t].read.post[q].imgs])}

RejectPosts(t) ==
    /\ tx[t].pc = "reject"
    /\ PostsFree(t, Chosen(t))
    /\ tx' = [tx EXCEPT ![t].pc = "approve", ![t].posts = @ \cup Chosen(t),
                        ![t].rej = Rechecked(t), ![t].read = Reviewed(t)]
    /\ UNCHANGED <<post, hist, text, img, jobs, begun>>

(* The second statement, and the commit. *)
ApprovePosts(t) ==
    /\ tx[t].pc = "approve"
    /\ PostsFree(t, Chosen(t))
    /\ post' = [q \in Post |->
                   IF q \in Rechecked(t) THEN [post[q] EXCEPT !.st = "approved"]
                   ELSE IF q \in tx[t].rej THEN [post[q] EXCEPT !.st = "rejected"]
                   ELSE post[q]]
    /\ text' = Reviewed(t).text
    /\ WriteImages(t, Reviewed(t).img)
    /\ UNCHANGED <<hist, jobs>>
    /\ End(t)

-----------------------------------------------------------------------------
Next ==
    \E t \in Tx :
        \/ \E r \in Requests : Begin(t, r)
        \/ LockPendingPostsForImage(t)
        \/ LockPosts(t)
        \/ LockImages(t)
        \/ \E v \in Verdict : Create(t, v) \/ Update(t, v) \/ RestoreHistory(t, v)
        \/ Delete(t)
        \/ RestorePost(t)
        \/ applyImageResult(t)
        \/ reconcileDuplicateImageResult(t)
        \/ ManualReview(t)
        \/ ManualReviewPost(t)
        \/ RejectPosts(t)
        \/ ApprovePosts(t)
        \/ Abort(t)

Spec == Init /\ [][Next]_vars

-----------------------------------------------------------------------------
Public(p) == post[p].st = "approved" /\ ~post[p].del

(* Create, Update, RestoreHistory, RestorePost and ReconcilePendingPosts:     *)
(* whatever becomes public, or is replaced while public, has in the committed *)
(* state only passed images and a passed text of its current revision.        *)
PublishedPassed ==
    [][\A p \in Post :
          Public(p)' /\ post'[p] # post[p] =>
             /\ \A i \in post'[p].imgs : img'[i].mod = "pass"
             /\ text'[p][post'[p].rev].v = "pass"]_vars

(* deletePostWithHistoryAndImages: an image blocked because its last post was *)
(* deleted is shown by no undeleted post, also when other transactions add,   *)
(* remove or restore references to it meanwhile.                              *)
DeletionBlocksOrphans ==
    \A i \in Image : img[i].mod = "block" /\ img[i].last = "delete" =>
        \A p \in Post : i \in post[p].imgs => post[p].del

(* ReplaceImages and its triggers: an asset is ready exactly while some post, *)
(* deleted or not, refers to it; no concurrent edit leaves it retired in use. *)
ReadyWhileReferenced ==
    \A i \in Image : (img[i].st = "ready") <=> \E p \in Post : i \in post[p].imgs

(* restoreAdminPostDeleteImages: an image whose latest verdict by machine or  *)
(* reviewer is block stays blocked through any deletions and restorations.    *)
BlockedStaysBlocked ==
    \A i \in Image : img[i].said = "block" => img[i].mod = "block"

WaitsFor(t, u) ==
    \/ tx[t].pc = "posts" /\ tx[t].posts \cap PostsHeld(u) # {}
    \/ tx[t].pc = "images" /\ tx[t].images \cap ImagesHeld(u) # {}
    \/ tx[t].pc \in {"reject", "approve"} /\ Chosen(t) \cap PostsHeld(u) # {}

(* The lock order posts, then images by id (LockByID, LockImagesByIDs): no    *)
(* transactions wait for each other in a circle.                              *)
NoWaitCycle ==
    \A S \in (SUBSET Tx) \ {{}} : \E t \in S : \A u \in S \ {t} : ~WaitsFor(t, u)

=============================================================================
