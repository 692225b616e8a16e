------------------------------ MODULE Comments ------------------------------
(***************************************************************************)
(* The discussion below a post: comments and replies, their revisions and  *)
(* verdicts, likes, notifications, and the counters that database triggers *)
(* keep.  A request is a transaction that locks rows one after the other   *)
(* and takes effect when it commits; statements that lock nothing read     *)
(* what is committed.  A reader walks through the list by cursors.         *)
(***************************************************************************)
EXTENDS Integers, FiniteSets, RowLocks

CONSTANTS
    Comment,      \* ids of comments, in the order in which they are drawn
    User,
    Owner,        \* the author of the post
    Reader,       \* who walks through the list
    Post,         \* the row of the post
    MaxRev,       \* bound: revisions of a comment
    MaxRequests,  \* bound: requests that commit
    None

ASSUME IdAssumption == Comment \subseteq Nat /\ {1, 2} \subseteq Comment /\ {Owner, Reader} \subseteq User
ASSUME BoundAssumption == MaxRev \in Nat \ {0} /\ MaxRequests \in Nat
ASSUME NoneAssumption == None \notin Comment \cup User \cup {Post} /\ Post \notin Comment
ASSUME TableAssumption == User \cap (Comment \cup {Post}) = {}

VARIABLES
    comment,  \* comments, comment_mentions and the counters of comments
    record,   \* moderation_records of each revision of a comment
    post,     \* the post and its counters
    reaction, \* post_likes, comment_likes, favorites and follows
    unread,   \* notifications that are not read
    page,     \* the reader: where it is, what it saw, what it must not miss
    begun

vars == <<comment, record, post, reaction, unread, tx, page, begun>>

Row == Comment \cup {Post}
Verdict == {"pass", "review", "block"}

CommentRow == [author : User \cup {None}, parent : Comment \cup {None}, root : Comment \cup {None},
               deleted : {"no", "author", "admin", "moderation"}, mod : Verdict,
               rev : 0 .. MaxRev, made : 0 .. 1, replies : Nat, likes : Nat,
               mentions : SUBSET User]
NoComment == [author |-> None, parent |-> None, root |-> None, deleted |-> "no", mod |-> "pass",
              rev |-> 0, made |-> 0, replies |-> 0, likes |-> 0, mentions |-> {}]

(* last: the latest verdict on a revision.  open: nobody has reviewed it. *)
ModerationRecord == [machine : Verdict, last : Verdict, open : BOOLEAN]

Notification == [to : User, from : User, type : {"comment", "reply", "mention", "like", "follow"},
                 on : Row \cup {None}]

Operation == {"create", "update", "delete", "adminDelete", "restore", "review", "react", "unreact",
              "writePost"}
Idle == [pc |-> "idle", op |-> "idle", by |-> None, on |-> None, id |-> None, arg |-> None,
         mentions |-> {}, plan |-> <<>>, held |-> {}]

(* A reader walks through the root comments in one of two orders, or through *)
(* the replies to one of them.                                               *)
Scope == {"latest", "hot", "replies"}
Cursor == [scope : Scope, rank : Nat, made : 0 .. 1, id : Comment]
ASSUME CursorAssumption == None \notin Cursor
Walk == [pc : {"idle", "walk"}, sort : Scope, floor : Comment \cup {None},
         after : Cursor \cup {None},
         seen : SUBSET Comment, kept : SUBSET Comment, again : SUBSET Comment,
         missed : SUBSET Comment]
NoWalk == [pc |-> "idle", sort |-> "latest", floor |-> None, after |-> None, seen |-> {}, kept |-> {},
           again |-> {}, missed |-> {}]

Exists(c) == comment[c].author # None

(* commentVisibilityPredicate, for everybody and for the author *)
Public(row) == row.author # None /\ row.deleted = "no" /\ row.mod = "pass"
commentVisibleToViewer(row, u) ==
    \/ Public(row)
    \/ row.author = u /\ row.mod # "pass" /\ row.deleted \in {"no", "moderation"}

-----------------------------------------------------------------------------
(* Transactions. *)

Begin(t, request) ==
    /\ tx[t].pc = "idle" /\ begun < MaxRequests
    /\ tx' = [tx EXCEPT ![t] = request]
    /\ begun' = begun + 1
    /\ UNCHANGED <<comment, record, post, reaction, unread, page>>

Lock(t) ==
    /\ CanLock(t)
    /\ tx' = Locked(t)
    /\ UNCHANGED <<comment, record, post, reaction, unread, page, begun>>

Goto(t, pc, plan) ==
    /\ tx' = [tx EXCEPT ![t].pc = pc, ![t].held = Got(t), ![t].plan = plan]
    /\ UNCHANGED <<comment, record, post, reaction, unread, page, begun>>

(* A refused request, an error, or the victim of a deadlock. *)
Rollback(t) ==
    /\ tx[t].pc # "idle"
    /\ tx' = [tx EXCEPT ![t] = Idle]
    /\ begun' = begun - 1
    /\ UNCHANGED <<comment, record, post, reaction, unread, page>>

-----------------------------------------------------------------------------
(* The list, and the reader that walks through its root comments. *)

Key(table, sort, c) ==
    [scope |-> sort, rank |-> IF sort = "hot" THEN table[c].likes ELSE 0,
     made |-> table[c].made, id |-> c]

(* latest: ascending (created_at, id); hot: descending (like_count, created_at, id) *)
Precedes(k, l) ==
    \/ /\ k.scope # "hot"
       /\ k.made < l.made \/ (k.made = l.made /\ k.id < l.id)
    \/ /\ k.scope = "hot"
       /\ \/ k.rank > l.rank
          \/ k.rank = l.rank
             /\ (k.made > l.made \/ (k.made = l.made /\ k.id > l.id))

(* fault: the id of the cursor does not break a tie *)
applyCommentCursor_Mutant(k, after) ==
    after # None =>
        \/ k.scope # "hot" /\ k.made > after.made
        \/ k.scope = "hot" /\ (k.rank < after.rank \/ (k.rank = after.rank /\ k.made < after.made))

applyCommentCursor(k, after) == after # None => Precedes(after, k)

visibleCommentQuery(table, u, floor) ==
    {c \in Comment : commentVisibleToViewer(table[c], u) /\ table[c].root = floor}

(* A cursor is good for the order it was made for. *)
DecodeRequest(token, sort) == token # None => token.scope = sort

(* A page of one comment, and whether there are more. *)
FindPage(sort, u, floor, after) ==
    LET rest == {c \in visibleCommentQuery(comment, u, floor) :
                    applyCommentCursor(Key(comment, sort, c), after)}
        first == {c \in rest : \A d \in rest \ {c} :
                      Precedes(Key(comment, sort, c), Key(comment, sort, d))}
    IN  [rows |-> first, hasMore |-> Cardinality(rest) > 1]

FindRootPage == FindPage(page.sort, Reader, None, page.after)
FindReplyPage(root) == FindPage(page.sort, Reader, root, page.after)

ensurePostReadable(u) == post.st = "approved" \/ u = Owner

(* A list that is empty says nothing. *)
BeginWalk(sort, floor) ==
    /\ page.pc = "idle" /\ visibleCommentQuery(comment, Reader, floor) # {}
    /\ page' = [page EXCEPT !.pc = "walk", !.sort = sort, !.floor = floor,
                            !.kept = visibleCommentQuery(comment, Reader, floor)]
    /\ UNCHANGED <<comment, record, post, reaction, unread, tx, begun>>

commentCursorMeta(rows, hasMore, sort) ==
    IF hasMore THEN Key(comment, sort, CHOOSE c \in rows : TRUE) ELSE None

(* again: delivered twice.  missed: still in its place and never delivered. *)
Deliver(found) ==
    /\ ensurePostReadable(Reader) /\ DecodeRequest(page.after, page.sort)
    /\ LET seen == page.seen \cup found.rows
           again == page.again \cup (found.rows \cap page.seen)
       IN  page' = IF found.hasMore
                   THEN [page EXCEPT !.after = commentCursorMeta(found.rows, TRUE, page.sort),
                                     !.seen = seen, !.again = again \cap page.kept]
                   ELSE [NoWalk EXCEPT !.again = again \cap page.kept,
                                       !.missed = page.kept \ seen]
    /\ UNCHANGED <<comment, record, post, reaction, unread, tx, begun>>

List == page.pc = "walk" /\ page.floor = None /\ Deliver(FindRootPage)

Replies ==
    /\ page.pc = "walk" /\ page.floor # None
    /\ commentVisibleToViewer(comment[page.floor], Reader)
    /\ Deliver(FindReplyPage(page.floor))

(* The comments that have kept their place in the list since the walk began. *)
Keep(table) ==
    {c \in page.kept : /\ c \in visibleCommentQuery(table, Reader, page.floor)
                       /\ Key(table, page.sort, c) = Key(comment, page.sort, c)}

-----------------------------------------------------------------------------
(* Counters. *)

delta(old, new) == (IF Public(new) THEN 1 ELSE 0) - (IF Public(old) THEN 1 ELSE 0)

Greatest(n) == IF n < 0 THEN 0 ELSE n

(* fault: a root comment is counted without its floor *)
danshi_sync_comment_counts_Mutant(c, new) ==
    LET d == delta(comment[c], new)
        r == new.root
    IN  [table |-> IF r = None THEN [comment EXCEPT ![c] = new]
                   ELSE [comment EXCEPT ![c] = new, ![r].replies = Greatest(@ + d)],
         count |-> IF r = None \/ Public(comment[r]) THEN Greatest(post.comments + d)
                   ELSE post.comments]

(* The trigger, with the write of row c that fires it.  The visibility of the *)
(* root and the size of the floor are read from rows the transaction has      *)
(* locked by then.                                                            *)
danshi_sync_comment_counts(c, new) ==
    LET d == delta(comment[c], new)
        r == new.root
    IN  [table |-> IF r = None THEN [comment EXCEPT ![c] = new]
                   ELSE [comment EXCEPT ![c] = new, ![r].replies = Greatest(@ + d)],
         count |-> IF r = None THEN Greatest(post.comments + d * (1 + new.replies))
                   ELSE IF Public(comment[r]) THEN Greatest(post.comments + d)
                   ELSE post.comments]

(* fault: the count of the post is written before the one of the floor *)
CountLocks_Mutant(c, new) ==
    IF delta(comment[c], new) = 0 THEN <<>>
    ELSE IF new.root = None THEN <<<<Post, "noKeyUpdate">>>>
    ELSE <<<<Post, "noKeyUpdate">>, <<new.root, "noKeyUpdate">>>>

(* The rows the trigger locks.  Whether it writes the post of a reply depends *)
(* on the root, once that is locked (pc "count").                             *)
CountLocks(c, new) ==
    IF delta(comment[c], new) = 0 THEN <<>>
    ELSE IF new.root = None THEN <<<<Post, "noKeyUpdate">>>>
    ELSE <<<<new.root, "noKeyUpdate">>>>

Decided(t, c, new) ==
    Goto(t, IF delta(comment[c], new) # 0 /\ new.root # None THEN "count" ELSE "commit",
         CountLocks(c, new))

Count(t) ==
    /\ tx[t].pc = "count" /\ Ready(t)
    /\ LET r == comment[tx[t].id].root IN
           Goto(t, "commit", IF r # None /\ ~Public(comment[r]) THEN <<>>
                             ELSE <<<<Post, "noKeyUpdate">>>>)

InBody(t, op) == tx[t].pc = "body" /\ tx[t].op = op /\ Ready(t)
InCommit(t, op) == tx[t].pc = "commit" /\ tx[t].op = op /\ Ready(t)

Committed(t) == tx' = [tx EXCEPT ![t] = Idle] /\ UNCHANGED begun

(* The commit of a write of comment c. *)
WriteComment(t, c, new) ==
    LET after == danshi_sync_comment_counts(c, new) IN
    /\ comment' = after.table
    /\ post' = [post EXCEPT !.comments = after.count]
    /\ page' = [page EXCEPT !.kept = Keep(after.table)]
    /\ Committed(t)

-----------------------------------------------------------------------------
(* Writing and moderating comments. *)

ApplyModeration(row, v) ==
    [row EXCEPT !.mod = v, !.deleted = IF v = "block" THEN "moderation" ELSE "no"]

moderateComment(c, v) ==
    record' = [record EXCEPT ![c] = Append(@, [machine |-> v, last |-> v, open |-> v # "pass"])]

mentionNotifications(by, c, users) ==
    {[to |-> u, from |-> by, type |-> "mention", on |-> c] : u \in users \ {by}}

(* A reply is announced on its root. *)
createCommentNotifications(by, c, parent, root, users) ==
    mentionNotifications(by, c, users) \cup
    (IF parent = None
     THEN {[to |-> Owner, from |-> by, type |-> "comment", on |-> Post]}
     ELSE {[to |-> comment[parent].author, from |-> by, type |-> "reply", on |-> root]})

Foreign(notes) == {n \in notes : n.to # n.from}

ensurePostWritable == post.st = "approved"

RootOf(c) == IF comment[c].root = None THEN c ELSE comment[c].root

(* The parent is locked, its root only read. *)
resolveCommentParent(parent) ==
    parent # None => Public(comment[parent]) /\ Public(comment[RootOf(parent)])

NewComment(t, made) ==
    ApplyModeration([NoComment EXCEPT !.author = tx[t].by, !.parent = tx[t].on,
                        !.root = IF tx[t].on = None THEN None ELSE RootOf(tx[t].on),
                        !.rev = 1, !.made = made, !.mentions = tx[t].mentions], tx[t].arg)

(* A foreign key share-locks the root on insertion, the trigger updates it. *)
Create(t) ==
    LET new == NewComment(t, 0) IN
    \/ /\ InBody(t, "create")
       /\ ensurePostWritable /\ resolveCommentParent(tx[t].on)
       /\ Goto(t, "commit",
               IF new.root = None \/ new.root = tx[t].on THEN <<>>
               ELSE <<<<new.root, IF Public(new) THEN "noKeyUpdate" ELSE "keyShare">>>>)
    \/ /\ InCommit(t, "create")
       /\ \E made \in 0 .. 1 : WriteComment(t, tx[t].id, NewComment(t, made))
       /\ moderateComment(tx[t].id, tx[t].arg)
       /\ unread' = IF tx[t].arg # "pass" THEN unread
                    ELSE unread \cup Foreign(createCommentNotifications(
                                        tx[t].by, tx[t].id, tx[t].on, new.root, tx[t].mentions))
       /\ UNCHANGED reaction

NextHistoryRevision(c) == Len(record[c]) + 1

Edited(t) ==
    LET c == tx[t].id IN
    ApplyModeration([comment[c] EXCEPT !.rev = NextHistoryRevision(c),
                                       !.mentions = tx[t].mentions], tx[t].arg)

(* Its author may edit a comment that moderation has removed.  The post is    *)
(* read without a lock.                                                       *)
Update(t) ==
    LET c == tx[t].id IN
    \/ /\ InBody(t, "update")
       /\ comment[c].deleted \in {"no", "moderation"} /\ post.st # "deleted"
       /\ Len(record[c]) < MaxRev
       /\ Decided(t, c, Edited(t))
    \/ /\ InCommit(t, "update")
       /\ WriteComment(t, c, Edited(t))
       /\ moderateComment(c, tx[t].arg)
       /\ unread' = IF tx[t].arg # "pass" THEN unread
                    ELSE unread \cup mentionNotifications(
                                        tx[t].by, c, tx[t].mentions \ comment[c].mentions)
       /\ UNCHANGED reaction

SoftDelete(c, reason) == [comment[c] EXCEPT !.deleted = reason]

Delete(t) ==
    LET c == tx[t].id IN
    \/ /\ InBody(t, "delete")
       /\ comment[c].deleted = "no" /\ post.st # "deleted"
       /\ Decided(t, c, SoftDelete(c, "author"))
    \/ /\ InCommit(t, "delete")
       /\ WriteComment(t, c, SoftDelete(c, "author"))
       /\ UNCHANGED <<record, reaction, unread>>

DeleteComment(t) ==
    LET c == tx[t].id IN
    \/ /\ InBody(t, "adminDelete")
       /\ comment[c].deleted = "no"
       /\ Decided(t, c, SoftDelete(c, "admin"))
    \/ /\ InCommit(t, "adminDelete")
       /\ WriteComment(t, c, SoftDelete(c, "admin"))
       /\ UNCHANGED <<record, reaction, unread>>

(* The restoration is a record of its own on the current revision. *)
RestoreComment(t) ==
    LET c == tx[t].id
        new == [comment[c] EXCEPT !.deleted = "no", !.mod = "pass"]
    IN  \/ /\ InBody(t, "restore")
           /\ comment[c].deleted = "moderation"
           /\ Decided(t, c, new)
        \/ /\ InCommit(t, "restore")
           /\ WriteComment(t, c, new)
           /\ record' = [record EXCEPT ![c][comment[c].rev].last = "pass"]
           /\ UNCHANGED <<reaction, unread>>

(* fault: the verdict is applied whatever revision it is about *)
IsCurrentContentRevision_Mutant(c, r) == TRUE
IsCurrentContentRevision(c, r) == comment[c].rev = r

applyManualCommentVerdict(c, r, v) ==
    IF IsCurrentContentRevision(c, r) THEN ApplyModeration(comment[c], v) ELSE comment[c]

(* on: the revision whose record is reviewed. *)
ManualReview(t) ==
    LET c == tx[t].id
        r == tx[t].on
        new == applyManualCommentVerdict(c, r, tx[t].arg)
    IN  \/ /\ InBody(t, "review")
           /\ record[c][r].open
           /\ Decided(t, c, new)
        \/ /\ InCommit(t, "review")
           /\ WriteComment(t, c, new)
           /\ record' = [record EXCEPT ![c][r] = [@ EXCEPT !.last = tx[t].arg, !.open = FALSE]]
           /\ UNCHANGED <<reaction, unread>>

-----------------------------------------------------------------------------
(* Likes, read notifications, and what happens to the post. *)

(* Checked without a lock before the like is written. *)
interactiveComment(c) ==
    Public(comment[c]) /\ Public(comment[RootOf(c)]) /\ post.st = "approved"

PostLike == [kind : {"like"}, by : User, on : {Post}]
CommentLike == [kind : {"like"}, by : User, on : Comment]
Favorite == [kind : {"favorite"}, by : User, on : {Post}]
Follow == {x \in [kind : {"follow"}, by : User, on : User] : x.by # x.on}
Reaction == PostLike \cup CommentLike \cup Favorite \cup Follow

Admitted(x) == CASE x.kind = "follow" -> TRUE
                 [] x.on = Post -> ensurePostWritable
                 [] OTHER -> interactiveComment(x.on)

AuthorOf(r) == CASE r = Post -> Owner [] r \in Comment -> comment[r].author [] OTHER -> r

(* The triggers on the tables of reactions. *)
danshi_sync_reactions(x, d) ==
    CASE x.kind = "follow" -> UNCHANGED <<comment, page, post>>
      [] x.kind = "favorite" ->
            post' = [post EXCEPT !.favorites = @ + d] /\ UNCHANGED <<comment, page>>
      [] x.kind = "like" /\ x.on = Post ->
            post' = [post EXCEPT !.likes = @ + d] /\ UNCHANGED <<comment, page>>
      [] OTHER ->
            /\ comment' = [comment EXCEPT ![x.on].likes = @ + d]
            /\ page' = [page EXCEPT !.kept = Keep([comment EXCEPT ![x.on].likes = @ + d])]
            /\ UNCHANGED post

(* The row the trigger updates. *)
ReactionLocks(x) == IF x.kind = "follow" THEN <<>> ELSE <<<<x.on, "noKeyUpdate">>>>

reactionNotifications(x) ==
    IF x.kind = "favorite" THEN {}
    ELSE {[to |-> AuthorOf(x.on), from |-> x.by, type |-> x.kind,
           on |-> IF x.kind = "follow" THEN None ELSE x.on]}

(* Idempotent, and announced when the row is new. *)
React(t, table) ==
    LET x == tx[t].arg
        new == x \notin reaction
    IN  \/ /\ InBody(t, "react") /\ x \in table /\ Admitted(x)
           /\ Goto(t, "commit", ReactionLocks(x))
        \/ /\ InCommit(t, "react") /\ x \in table
           /\ reaction' = reaction \cup {x}
           /\ danshi_sync_reactions(x, IF new THEN 1 ELSE 0)
           /\ unread' = IF new THEN unread \cup Foreign(reactionNotifications(x)) ELSE unread
           /\ Committed(t) /\ UNCHANGED record

(* fault: the counter goes down without a look at the row *)
Unreact_Mutant(t, table) ==
    LET x == tx[t].arg
    IN  \/ /\ InBody(t, "unreact") /\ x \in table /\ Admitted(x)
           /\ Goto(t, "commit", ReactionLocks(x))
        \/ /\ InCommit(t, "unreact") /\ x \in table
           /\ reaction' = reaction \ {x}
           /\ danshi_sync_reactions(x, -1)
           /\ Committed(t) /\ UNCHANGED <<record, unread>>

Unreact(t, table) ==
    LET x == tx[t].arg
        old == x \in reaction
    IN  \/ /\ InBody(t, "unreact") /\ x \in table /\ Admitted(x)
           /\ Goto(t, "commit", ReactionLocks(x))
        \/ /\ InCommit(t, "unreact") /\ x \in table
           /\ reaction' = reaction \ {x}
           /\ danshi_sync_reactions(x, IF old THEN -1 ELSE 0)
           /\ Committed(t) /\ UNCHANGED <<record, unread>>

LikePost(t) == React(t, PostLike)
UnlikePost(t) == Unreact(t, PostLike)
LikeComment(t) == React(t, CommentLike)
UnlikeComment(t) == Unreact(t, CommentLike)
FavoritePost(t) == React(t, Favorite)
UnfavoritePost(t) == Unreact(t, Favorite)
FollowUser(t) == React(t, Follow)
UnfollowUser(t) == Unreact(t, Follow)

(* One statement each. *)
Mark(read) ==
    /\ begun < MaxRequests /\ read # {}
    /\ unread' = unread \ read
    /\ begun' = begun + 1
    /\ UNCHANGED <<comment, record, post, reaction, tx, page>>

MarkRead(u) == \E n \in unread : n.to = u /\ Mark({n})

MarkAllRead(u) == Mark({n \in unread : n.to = u})

(* Deletion, restoration, an edit that is reviewed again: see PostModeration. *)
WritePost(t) ==
    /\ InBody(t, "writePost")
    /\ post' = [post EXCEPT !.st = tx[t].arg]
    /\ Committed(t) /\ UNCHANGED <<comment, record, reaction, unread, page>>

-----------------------------------------------------------------------------
Wanted(op, by, on, id, arg, mentions, plan) ==
    [pc |-> "body", op |-> op, by |-> by, on |-> on, id |-> id, arg |-> arg,
     mentions |-> mentions, plan |-> plan, held |-> {}]

LockByID(r) == <<<<r, "update">>>>

(* normalizeCommentPayload: every name once.  A new comment mentions everybody, *)
(* an edit keeps, adds or drops the names.                                      *)
Mentioned == {{}, User}

Fresh == {c \in Comment : ~Exists(c) /\ \A t \in Tx : tx[t].id # c}

BeginCreate(t) ==
    \E u \in User, on \in {c \in Comment : Exists(c)} \cup {None}, v \in Verdict,
       c \in Fresh :
        /\ \A d \in Fresh : c <= d
        /\ Begin(t, Wanted("create", u, on, c, v, User,
                           LockByID(Post) \o (IF on = None THEN <<>> ELSE LockByID(on))))

Writes(t, op, c, on, arg, mentions) ==
    Begin(t, Wanted(op, comment[c].author, on, c, arg, mentions, LockByID(c)))

(* To take back what is there, or is just being written: else nothing happens. *)
Undoable(x) == x \in reaction \/ \E t \in Tx : tx[t].op = "react" /\ tx[t].arg = x

Request(t) ==
    \/ BeginCreate(t)
    \/ \E c \in {c \in Comment : Exists(c)} :
          \/ \E v \in Verdict, m \in Mentioned : Writes(t, "update", c, None, v, m)
          \/ \E op \in {"delete", "adminDelete", "restore"} : Writes(t, op, c, None, None, {})
          \/ \E r \in DOMAIN record[c], v \in {"pass", "block"} : Writes(t, "review", c, r, v, {})
    \/ \E x \in Reaction :
          /\ x.on \in Comment => Exists(x.on)
          /\ \/ Begin(t, Wanted("react", x.by, None, None, x, {}, <<>>))
             \/ Undoable(x) /\ Begin(t, Wanted("unreact", x.by, None, None, x, {}, <<>>))
    \/ \E st \in {"approved", "pending", "deleted"} \ {post.st} :
          Begin(t, Wanted("writePost", Owner, None, None, st, {}, LockByID(Post)))

Handle(t) ==
    \/ Create(t) \/ Update(t) \/ Delete(t) \/ DeleteComment(t) \/ RestoreComment(t)
    \/ ManualReview(t) \/ WritePost(t)
    \/ LikePost(t) \/ UnlikePost(t) \/ LikeComment(t) \/ UnlikeComment(t)
    \/ FavoritePost(t) \/ UnfavoritePost(t) \/ FollowUser(t) \/ UnfollowUser(t)

(* A post with a comment of its author and a second comment of somebody: an   *)
(* answer to the first one, already judged, or a public comment of its own.   *)
Started(u, v, p) ==
    /\ comment = [c \in Comment |->
          CASE c = 1 -> [NoComment EXCEPT !.author = Owner, !.rev = 1,
                             !.replies = IF v = "pass" /\ p = 1 THEN 1 ELSE 0]
            [] c = 2 -> ApplyModeration([NoComment EXCEPT !.author = u, !.parent = p,
                                            !.root = p, !.rev = 1], v)
            [] OTHER -> NoComment]
    /\ record = [c \in Comment |->
          CASE c = 1 -> <<[machine |-> "pass", last |-> "pass", open |-> FALSE]>>
            [] c = 2 -> <<[machine |-> v, last |-> v, open |-> v # "pass"]>>
            [] OTHER -> <<>>]
    /\ post = [st |-> "approved", comments |-> IF v = "pass" THEN 2 ELSE 1, likes |-> 0,
               favorites |-> 0]

Init ==
    /\ \E u \in User, v \in Verdict :
          \E p \in IF v = "pass" THEN {1, None} ELSE {1} : Started(u, v, p)
    /\ reaction = {} /\ unread = {}
    /\ tx = [t \in Tx |-> Idle]
    /\ page = NoWalk
    /\ begun = 0

Next ==
    \/ \E t \in Tx : Request(t) \/ Lock(t) \/ Count(t) \/ Handle(t) \/ Rollback(t)
    \/ \E sort \in {"latest", "hot"} : BeginWalk(sort, None)
    \/ \E c \in Comment : Exists(c) /\ comment[c].root = None /\ BeginWalk("replies", c)
    \/ List \/ Replies
    \/ \E u \in User : MarkRead(u) \/ MarkAllRead(u)

Spec == Init /\ [][Next]_vars

-----------------------------------------------------------------------------
TypeOK ==
    /\ comment \in [Comment -> CommentRow]
    /\ \A c \in Comment : record[c] \in Seq(ModerationRecord) /\ Len(record[c]) <= MaxRev
    /\ post \in [st : {"approved", "pending", "deleted"}, comments : Nat, likes : Nat,
                  favorites : Nat]
    /\ reaction \subseteq Reaction
    /\ unread \subseteq Notification
    /\ DOMAIN tx = Tx
    /\ \A t \in Tx : /\ tx[t].op \in Operation \cup {"idle"}
                     /\ tx[t].held \subseteq Row \X Mode
                     /\ Range(tx[t].plan) \subseteq Row \X Mode
    /\ page \in Walk
    /\ begun \in 0 .. MaxRequests

(* danshi_sync_comment_counts against danshi_recount_all: whatever requests   *)
(* overlap, the counters the triggers keep are the ones a recount would find. *)
CountsExact ==
    /\ post.comments = Cardinality({c \in Comment :
            Public(comment[c]) /\ Public(comment[RootOf(c)])})
    /\ \A c \in Comment :
          /\ comment[c].replies = Cardinality({d \in Comment :
                Public(comment[d]) /\ comment[d].root = c})
          /\ comment[c].likes = Cardinality({x \in reaction : x.on = c})
    /\ post.likes = Cardinality({x \in reaction : x.on = Post /\ x.kind = "like"})
    /\ post.favorites = Cardinality({x \in reaction : x.kind = "favorite"})

(* moderateComment, ManualReview, RestoreComment: the state of a comment is   *)
(* the latest verdict on the revision it shows, never one on an older text,   *)
(* and it is removed by moderation exactly while that verdict is block.       *)
VerdictCurrent ==
    \A c \in Comment : Exists(c) =>
        /\ comment[c].mod = record[c][comment[c].rev].last
        /\ comment[c].mod = "block" <=> comment[c].deleted = "moderation"

(* LockByID, danshi_sync_comment_counts: Create locks the post before the     *)
(* comment it answers, everything else reply, root, post.  Any number of       *)
(* transactions that wait in a circle therefore have the creation of a reply  *)
(* among them.                                                                *)
CirclesNeedReply ==
    \A S \in SUBSET Tx : Ring(S) =>
        \E x \in S : tx[x].op = "create" /\ tx[x].on # None

(* FindRootPage, FindReplyPage and their cursors: a reader who follows the    *)
(* cursors to the end gets every comment that stayed on the list with its     *)
(* sort key exactly once, whatever is written, removed and liked between two  *)
(* pages.                                                                     *)
PagesExact == page.again = {} /\ page.missed = {}

=============================================================================
