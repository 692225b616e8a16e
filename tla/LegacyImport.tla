---------------------------- MODULE LegacyImport ----------------------------
(* danshi-legacy-import: the one-off import of the retired database and its   *)
(* verification (internal/legacyimporter), run beside an application that     *)
(* may write to the target.                                                   *)
(*                                                                            *)
(* A table of the source is the sequence of its rows in the order (created_at,*)
(* id); a row refers to another by its place, 0 for NULL and a place past the *)
(* end for a row that is gone. The place is also the identity the row gets in *)
(* the target (ROW_NUMBER). Text, prices, view counts and times other than    *)
(* the age of a comment are left out; by says whose values the other columns  *)
(* of a user or a dictionary entry have (is_active, sort_order, created_at).  *)
EXTENDS Naturals, Sequences, FiniteSets, FiniteSetsExt, SequencesExt

CONSTANTS
    Source,         \* the dumps an instance considers
    Expected,       \* the decision counts validateDecisionCounts accepts
    Proc,           \* processes of danshi-legacy-import
    Fallback,       \* specialReplyFallbackID: the comment the owner decided on
    Placeholder, Fake,  \* the URL of a placeholder image, of an avatar nobody uploaded
    Folded,         \* Folded[n]: the tag name n in lower case (strings.EqualFold)
    CanteenID,      \* canteens of the target by name
    SeedCuisine, CuisineAlias, OldCuisines,  \* seed by id, legacy name -> seed name, historical names in order
    SeedFlavor, FlavorAlias, OldFlavors,     \* the same; FlavorAlias by <<stance, legacy name>>
    NewName,        \* a cuisine an administrator may add
    MaxImages,      \* images of a post, 9 in transformPostImages
    MaxRuns, MaxApp, \* bounds: runs of the command, writes of the application
    None

(* Tables of a dump are sequences of rows.                                    *)
IsTable(t) == Len(t) \in Nat /\ DOMAIN t = 1..Len(t)

ASSUME BoundsAssumption == {Fallback, MaxImages, MaxRuns, MaxApp} \subseteq Nat
ASSUME SourceAssumption == \A s \in Source :
    /\ \A f \in {"users", "images", "posts", "comments", "notifications"} : IsTable(s[f])
    /\ \A p \in DOMAIN s.posts : IsTable(s.posts[p].tags)
ASSUME NamesAssumption ==
    /\ \A names \in {SeedCuisine, OldCuisines, SeedFlavor, OldFlavors} : IsTable(names)
    /\ None \notin {OldCuisines[i] : i \in DOMAIN OldCuisines}
ASSUME ProcAssumption == IsFiniteSet(Proc)
ASSUME NoneAssumption == None \notin Proc \cup [table : {"users", "cuisines"}, id : Nat]

VARIABLES
    source,     \* the legacy database, read in one read-only snapshot
    target,     \* committed tables of the new database
    seq,        \* identity sequences: the last value handed out (not transactional)
    proc,       \* the processes: command step, transformed rows, snapshot
    lock,       \* holder of pg_advisory_xact_lock
    app,        \* an insert of the application between nextval and its row
    imports,    \* committed imports
    runs, apps, \* counters for the bounds
    overlap,    \* history: the application wrote while a command ran
    harmed      \* history: the rows of the application that were overwritten or refused

vars == <<source, target, seq, proc, lock, app, imports, runs, apps, overlap, harmed>>

Identity == {"users", "roleRecords", "banRecords", "images", "cuisines",
             "flavors", "posts", "tags", "comments", "notifications"}

Has(table, k) == k \in DOMAIN table
Greatest(table) == Max({0} \cup DOMAIN table)

-----------------------------------------------------------------------------
(* Dictionaries of the target and the names of the source.                    *)

Named(table, n) == {k \in DOMAIN table : table[k].name = n}

historicalDictionaryID(n, names, table) ==
    Max({0} \cup {k \in DOMAIN table : table[k].name \notin ToSet(names)})
    + (CHOOSE i \in DOMAIN names : names[i] = n)

ensureHistoricalDictionary(n, names, table) ==
    LET id == historicalDictionaryID(n, names, table) IN
    Named(table, n) \in {{}, {id}} /\ (Has(table, id) => table[id].name = n)

Resolved(n, alias, names, table) ==
    \/ n \in ToSet(names) /\ ensureHistoricalDictionary(n, names, table)
    \/ n \notin ToSet(names) /\ Has(alias, n) /\ Named(table, alias[n]) # {}

resolveID(n, alias, names, table) ==
    IF n \in ToSet(names) THEN historicalDictionaryID(n, names, table)
    ELSE CHOOSE k \in Named(table, alias[n]) : TRUE

HistoricalRows(used, names, table) ==
    LET old == used \cap ToSet(names)
        id(n) == historicalDictionaryID(n, names, table)
    IN  [k \in {id(n) : n \in old} |->
            [name |-> CHOOSE n \in old : id(n) = k, by |-> "legacy"]]

-----------------------------------------------------------------------------
(* transformSource. For each table: when the rows are refused, and the rows.  *)

ImageByURL(s, url) == {i \in DOMAIN s.images : s.images[i].url = url}

transformImagesOK(s) == \A i \in DOMAIN s.images : LET m == s.images[i] IN
    \/ m.url = "" /\ ~m.ready
    \/ /\ m.url # "" /\ m.ready /\ m.purpose \in {"post", "avatar"}
       /\ m.uploader = 0 \/ Has(s.users, m.uploader)
       /\ ImageByURL(s, m.url) = {i}

transformImages(s) ==
    [i \in {j \in DOMAIN s.images : s.images[j].url # ""} |->
        [purpose |-> s.images[i].purpose, uploader |-> s.images[i].uploader]]

resolveAvatarOK(s, u) ==
    s.users[u].avatar \in {None, Fake} \/
    \E i \in ImageByURL(s, s.users[u].avatar) :
        s.images[i].purpose = "avatar" /\ s.images[i].uploader = u

resolveAvatar(s, u) ==
    IF s.users[u].avatar \in {None, Fake} THEN 0
    ELSE CHOOSE i \in ImageByURL(s, s.users[u].avatar) : TRUE

transformUsers(s) ==
    [u \in DOMAIN s.users |->
        [by |-> "legacy", banned |-> ~s.users[u].active, avatar |-> resolveAvatar(s, u)]]

RoleOf == [admin |-> "moderator", super_admin |-> "super_admin"]

(* Rows without an identity of their own are numbered as they are met.        *)
InOrder(S, Before(_, _)) ==
    [k \in 1..Cardinality(S) |-> CHOOSE x \in S : Cardinality({y \in S : Before(y, x)}) = k - 1]

transformRoles(s) ==
    LET held == InOrder({u \in DOMAIN s.users : s.users[u].role # "user"}, <)
    IN  [i \in DOMAIN held |-> <<held[i], RoleOf[s.users[held[i]].role]>>]

transformBans(s) == InOrder({u \in DOMAIN s.users : ~s.users[u].active}, <)

transformUsersOK(s) == \A u \in DOMAIN s.users :
    resolveAvatarOK(s, u) /\ s.users[u].role \in {"user"} \cup DOMAIN RoleOf

(* companion posts become seeking posts *)
PostType(t) == IF t = "companion" THEN "seeking" ELSE t

(* Flavors: <<stance, name>> pairs, "has" for a share, else "prefer", "avoid" *)
FlavorOK(f, dict) == IF f[1] = "has" THEN f[2] \in ToSet(OldFlavors) /\ ensureHistoricalDictionary(f[2], OldFlavors, dict)
                     ELSE Has(FlavorAlias, f) /\ Named(dict, FlavorAlias[f]) # {}

FlavorID(f, dict) == IF f[1] = "has" THEN historicalDictionaryID(f[2], OldFlavors, dict)
                     ELSE CHOOSE k \in Named(dict, FlavorAlias[f]) : TRUE

transformPostFlavorsOK(p, dict) ==
    /\ \A f \in p.flavors : FlavorOK(f, dict) /\ (PostType(p.type) = "share") = (f[1] = "has")
    /\ \A f, g \in p.flavors : FlavorID(f, dict) = FlavorID(g, dict) => f[1] = g[1]

transformPostFlavors(s, dict) ==
    UNION {{<<p, FlavorID(f, dict), f[1]>> : f \in s.posts[p].flavors} : p \in DOMAIN s.posts}

(* A tag gets its number and its name where a post first names it.            *)
Earlier(m, n) == m[1] < n[1] \/ (m[1] = n[1] /\ m[2] < n[2])

transformTags(s) ==
    LET name(m) == s.posts[m[1]].tags[m[2]]
        named == UNION {{p} \X DOMAIN s.posts[p].tags : p \in DOMAIN s.posts}
        new == {m \in named : \A n \in named : Folded[name(n)] = Folded[name(m)] => ~Earlier(n, m)}
        met == InOrder(new, Earlier)
    IN  [t \in DOMAIN met |-> name(met[t])]

transformPostTags(s) ==
    LET tags == transformTags(s) IN
    {m \in (DOMAIN s.posts) \X (DOMAIN tags) :
        Folded[tags[m[2]]] \in {Folded[n] : n \in ToSet(s.posts[m[1]].tags)}}

transformPostTagsOK(p) == IsInjective([i \in DOMAIN p.tags |-> Folded[p.tags[i]]])

Kept(p) == SelectSeq(p.images, LAMBDA url : url # Placeholder)

transformPostImagesOK(s, p) ==
    /\ Len(Kept(p)) <= MaxImages
    /\ \A i \in DOMAIN Kept(p) :
          \E m \in ImageByURL(s, Kept(p)[i]) : s.images[m].purpose = "post"

transformPostImages(s) ==
    UNION {{<<p, i - 1, CHOOSE m \in ImageByURL(s, Kept(s.posts[p])[i]) : TRUE>> :
                i \in DOMAIN Kept(s.posts[p])} : p \in DOMAIN s.posts}

resolveCanteen(p) == IF p.canteen = None THEN 0 ELSE CanteenID[p.canteen]

transformPostsOK(s, dict) == \A i \in DOMAIN s.posts : LET p == s.posts[i] IN
    /\ PostType(p.type) \in {"share", "seeking"}
    /\ Has(s.users, p.author)
    /\ p.canteen = None \/ Has(CanteenID, p.canteen)
    /\ p.cuisine = None \/ Resolved(p.cuisine, CuisineAlias, OldCuisines, dict.cuisines)
    /\ transformPostTagsOK(p)
    /\ transformPostFlavorsOK(p, dict.flavors)
    /\ transformPostImagesOK(s, p)

transformPosts(s, dict) ==
    [i \in DOMAIN s.posts |-> LET p == s.posts[i] IN
        [author |-> p.author, type |-> PostType(p.type),
         canteen |-> resolveCanteen(p),
         cuisine |-> IF p.cuisine = None THEN 0
                     ELSE resolveID(p.cuisine, CuisineAlias, OldCuisines, dict.cuisines)]]

(* The thread of a comment in the source: 0 for a cycle or a lost parent.     *)
findOriginalRoot(s) ==
    LET up[n \in 0..Len(s.comments)] == [c \in DOMAIN s.comments |->
            IF s.comments[c].parent = 0 THEN c
            ELSE IF n = 0 \/ ~Has(s.comments, s.comments[c].parent) THEN 0
            ELSE up[n - 1][s.comments[c].parent]]
    IN  up[Len(s.comments)]

inferReplyParent_Mutant(s, c) ==
    {d \in DOMAIN s.comments :
        /\ s.comments[d].post = s.comments[c].post
        /\ s.comments[d].author = s.comments[c].to
        /\ s.comments[d].at < s.comments[c].at}

(* The comments a reply with a wrong parent can have answered.                *)
inferReplyParent(s, c) ==
    LET roots == findOriginalRoot(s) IN
    {d \in DOMAIN s.comments :
        /\ s.comments[d].post = s.comments[c].post
        /\ s.comments[d].author = s.comments[c].to
        /\ s.comments[d].at < s.comments[c].at
        /\ roots[d] = roots[c]}

ParentStands(s, c) == LET r == s.comments[c] IN
    r.to = 0 \/ r.to = s.comments[r.parent].author \/ c = Fallback

chooseReplyParent(s, c) ==
    IF ParentStands(s, c) THEN {s.comments[c].parent} ELSE inferReplyParent(s, c)

(* Each comment is handled after the earlier ones, which it may answer.       *)
transformCommentOK(s, c) == LET r == s.comments[c] IN
    /\ Has(s.posts, r.post) /\ Has(s.users, r.author)
    /\ r.parent # 0 => /\ r.to # 0
                       /\ \E d \in 1..(c - 1) : chooseReplyParent(s, c) = {d}

transformCommentsOK(s) ==
    /\ \A c \in DOMAIN s.comments : findOriginalRoot(s)[c] # 0
    /\ \A c \in DOMAIN s.comments : transformCommentOK(s, c)

transformComments(s) ==
    LET row[c \in DOMAIN s.comments] == LET r == s.comments[c] IN
            IF r.parent = 0
            THEN [post |-> r.post, author |-> r.author, parent |-> 0, root |-> 0,
                  to |-> s.posts[r.post].author]
            ELSE LET d == CHOOSE e \in chooseReplyParent(s, c) : TRUE
                 IN  [post |-> r.post, author |-> r.author, parent |-> d,
                      root |-> IF row[d].root = 0 THEN d ELSE row[d].root, to |-> row[d].author]
    IN  [c \in DOMAIN s.comments |-> row[c]]

transformRelationsOK(s) ==
    /\ IsInjective(s.follows) /\ IsInjective(s.favorites)
    /\ \A i \in DOMAIN s.follows : LET f == s.follows[i] IN
          Has(s.users, f[1]) /\ Has(s.users, f[2]) /\ f[1] # f[2]
    /\ \A i \in DOMAIN s.favorites : Has(s.users, s.favorites[i][1]) /\ Has(s.posts, s.favorites[i][2])
    /\ \A i \in DOMAIN s.likes : Has(s.users, s.likes[i].user)

(* Likes of content that is gone are omitted.                                 *)
Likes(s, kind, rows) ==
    {<<l.user, l.of>> : l \in {m \in ToSet(s.likes) : m.kind = kind /\ Has(rows, m.of)}}

Related(s, n) == CASE n.type \in {"like_post", "comment"} -> DOMAIN s.posts
                   [] n.type \in {"like_comment", "reply"} -> DOMAIN s.comments
                   [] OTHER -> {0}

transformNotificationsOK(s) == \A i \in DOMAIN s.notifications : LET n == s.notifications[i] IN
    /\ Has(s.users, n.user) /\ Has(s.users, n.sender)
    /\ (n.of = 0) = (n.type = "follow")

(* Notifications about content that is gone are omitted.                      *)
transformNotifications(s) ==
    [i \in {j \in DOMAIN s.notifications : s.notifications[j].of \in Related(s, s.notifications[j])} |->
        s.notifications[i]]

deriveCounters(d) ==
    [posts |-> [p \in DOMAIN d.posts |->
        [likes |-> Cardinality({l \in d.postLikes : l[2] = p}),
         favorites |-> Cardinality({f \in d.favorites : f[2] = p}),
         comments |-> Cardinality({c \in DOMAIN d.comments : d.comments[c].post = p})]],
     comments |-> [c \in DOMAIN d.comments |->
        [likes |-> Cardinality({l \in d.commentLikes : l[2] = c}),
         replies |-> Cardinality({r \in DOMAIN d.comments : d.comments[r].root = c})]]]

Cuisines(s) == {s.posts[p].cuisine : p \in DOMAIN s.posts}
Flavors(s) == UNION {{f[2] : f \in {g \in s.posts[p].flavors : g[1] = "has"}} : p \in DOMAIN s.posts}

(* The decisions counted before anything is written.                          *)
validateDecisionCounts(s) ==
    [posts |-> Len(s.posts),
     inferred |-> Cardinality({c \in DOMAIN s.comments : s.comments[c].parent # 0 /\ ~ParentStands(s, c)}),
     orphans |-> Len(s.likes) - Cardinality(Likes(s, "post", s.posts)) - Cardinality(Likes(s, "comment", s.comments))
                 + Len(s.notifications) - Cardinality(DOMAIN transformNotifications(s))] \in Expected

transformSourceOK(s, dict) ==
    /\ transformImagesOK(s) /\ transformUsersOK(s) /\ transformPostsOK(s, dict)
    /\ transformCommentsOK(s) /\ transformRelationsOK(s) /\ transformNotificationsOK(s)
    /\ validateDecisionCounts(s)

transformSource(s, dict) ==
    [users |-> transformUsers(s), roles |-> ToSet(transformRoles(s)), roleRecords |-> transformRoles(s),
     banRecords |-> transformBans(s), images |-> transformImages(s),
     cuisines |-> HistoricalRows(Cuisines(s), OldCuisines, dict.cuisines),
     flavors |-> HistoricalRows(Flavors(s), OldFlavors, dict.flavors),
     posts |-> transformPosts(s, dict), tags |-> transformTags(s), postTags |-> transformPostTags(s),
     postFlavors |-> transformPostFlavors(s, dict.flavors), postImages |-> transformPostImages(s),
     comments |-> transformComments(s), follows |-> ToSet(s.follows), favorites |-> ToSet(s.favorites),
     postLikes |-> Likes(s, "post", s.posts), commentLikes |-> Likes(s, "comment", s.comments),
     notifications |-> transformNotifications(s)]

-----------------------------------------------------------------------------
(* writeDataset: rows are inserted or updated by key, nothing is deleted.      *)

Tables == {"users", "roles", "roleRecords", "banRecords", "images", "cuisines", "flavors",
           "posts", "tags", "postTags", "postFlavors", "postImages", "comments", "follows",
           "favorites", "postLikes", "commentLikes", "notifications"}
Dictionary == {"cuisines", "flavors"}

(* ON CONFLICT: the rows a statement keeps over those it meets.                *)
Over(rows, others) ==
    [k \in DOMAIN rows \cup DOMAIN others |-> IF k \in DOMAIN rows THEN rows[k] ELSE others[k]]

(* The avatar waits for the images.                                           *)
writeUsers(t, d) ==
    [t EXCEPT !.users = Over([u \in DOMAIN d.users |->
        [d.users[u] EXCEPT !.avatar = IF Has(t.users, u) THEN t.users[u].avatar ELSE 0]], t.users)]

writeUserAvatars(t, d) ==
    [t EXCEPT !.users = Over([u \in DOMAIN d.users |->
        [t.users[u] EXCEPT !.avatar = d.users[u].avatar]], t.users)]

(* Audit records are kept as they are, other rows take the new values.        *)
writeRolesAndAudit(t, d) ==
    [t EXCEPT !.roles = @ \cup d.roles, !.roleRecords = Over(@, d.roleRecords),
              !.banRecords = Over(@, d.banRecords)]

writeImages(t, d) == [t EXCEPT !.images = Over(d.images, @)]

writeHistoricalDictionaries(t, d) ==
    [t EXCEPT !.cuisines = Over(d.cuisines, @), !.flavors = Over(d.flavors, @)]

writePosts(t, d) == [t EXCEPT !.posts = Over(d.posts, @)]

writeTags(t, d) == [t EXCEPT !.tags = Over(d.tags, @)]

writePostRelations(t, d) ==
    [t EXCEPT !.postTags = @ \cup d.postTags, !.postFlavors = @ \cup d.postFlavors,
              !.postImages = @ \cup d.postImages]

writeComments(t, d) == [t EXCEPT !.comments = Over(d.comments, @)]

(* The first version of everything that is now in the target.                 *)
writeInitialContentVersions(t) ==
    [t EXCEPT !.histories = @ \cup ({"post"} \X DOMAIN t.posts) \cup ({"comment"} \X DOMAIN t.comments)]

writeActions(t, d) ==
    [t EXCEPT !.follows = @ \cup d.follows, !.favorites = @ \cup d.favorites,
              !.postLikes = @ \cup d.postLikes, !.commentLikes = @ \cup d.commentLikes]

writeNotifications(t, d) == [t EXCEPT !.notifications = Over(d.notifications, @)]

(* danshi_recount_all(): every imported comment is visible.                   *)
recountAll(t) == [t EXCEPT !.counts = deriveCounters(t)]

writeDataset(t, d) ==
    LET users == writeUserAvatars(writeImages(writeRolesAndAudit(writeUsers(t, d), d), d), d)
        posts == writePostRelations(writeTags(writePosts(writeHistoricalDictionaries(users, d), d), d), d)
        content == writeInitialContentVersions(writeComments(posts, d))
    IN  recountAll(writeNotifications(writeActions(content, d), d))

(* setval of each table to the greatest id the transaction sees.              *)
advanceIdentitySequences_Mutant(view) ==
    [t \in Identity |-> IF t = "cuisines" THEN seq[t] ELSE Greatest(view[t])]

advanceIdentitySequences(view) == [t \in Identity |-> Greatest(view[t])]

(* The foreign keys of comments: a reply is on the post and in the thread of  *)
(* its parent and answers its author, a comment answers the post's author.    *)
CommentKeysHold(t) == \A c \in DOMAIN t.comments : LET r == t.comments[c] IN
    IF r.parent = 0 THEN r.to = t.posts[r.post].author
    ELSE LET q == t.comments[r.parent] IN
         q.post = r.post /\ q.author = r.to /\ r.root = (IF q.root = 0 THEN r.parent ELSE q.root)

-----------------------------------------------------------------------------
(* What an import refuses and a verification reports.                         *)

targetHasBusinessRows(t) ==
    \/ \E f \in Identity \ Dictionary : DOMAIN t[f] # {}
    \/ \E f \in Tables \ Identity : t[f] # {}
    \/ t.histories # {} \/ t.others # {}

compareMap(expected, actual) == \A k \in DOMAIN expected : Has(actual, k) /\ actual[k] = expected[k]

(* Of the dictionaries only the historical entries are read.                  *)
compareDatasets(d, t) ==
    /\ \A f \in Tables \ Dictionary : t[f] = d[f]
    /\ \A f \in Dictionary : compareMap(d[f], t[f])
    /\ t.counts = deriveCounters(d)

verifyUntouchedTables(t) == t.histories = {} /\ t.others = {}

collectMismatches(d, t) == ~(compareDatasets(d, t) /\ verifyUntouchedTables(t))

-----------------------------------------------------------------------------
Ended == {"idle", "ok", "failed", "refused", "mismatch"}
Running == {p \in Proc : proc[p].pc \notin Ended}
Writing == {p \in Proc : proc[p].pc \in {"written", "advanced"}}

(* A process that has ended keeps nothing.                                    *)
End(p, pc) == proc' = [proc EXCEPT ![p] = [pc |-> pc]]
Goto(p, pc) == proc' = [proc EXCEPT ![p].pc = pc]

Seed(names) == [k \in DOMAIN names |-> [name |-> names[k], by |-> "seed"]]

(* The migrated target: seeds, and nothing else.                              *)
Empty ==
    [f \in Tables \cup {"histories", "others", "counts"} |->
        CASE f = "cuisines" -> Seed(SeedCuisine)
          [] f = "flavors" -> Seed(SeedFlavor)
          [] f = "counts" -> [posts |-> <<>>, comments |-> <<>>]
          [] f \in Identity \ Dictionary -> <<>>
          [] OTHER -> {}]

Init ==
    /\ source \in Source
    /\ target = Empty
    /\ seq = [t \in Identity |-> Greatest(Empty[t])]
    /\ proc = [p \in Proc |-> [pc |-> "idle"]]
    /\ lock = None /\ app = None
    /\ imports = 0 /\ runs = 0 /\ apps = 0
    /\ overlap = FALSE /\ harmed = {}

(* danshi-legacy-import import | verify: prepareTarget, loadSourceData and     *)
(* transformSource.                                                           *)
Prepare(p, pc) ==
    /\ p \notin Running /\ runs < MaxRuns
    /\ runs' = runs + 1
    /\ overlap' = (overlap \/ app # None)
    /\ IF transformSourceOK(source, target)
       THEN proc' = [proc EXCEPT ![p] = [pc |-> pc, plan |-> transformSource(source, target)]]
       ELSE End(p, "failed")
    /\ UNCHANGED <<source, target, seq, lock, app, imports, apps, harmed>>

Import(p) == Prepare(p, "check")
Verify(p) == Prepare(p, "verify")

(* Neither the check nor the comparison is part of the writing transaction.   *)
Check(p) ==
    /\ proc[p].pc = "check"
    /\ Goto(p, IF targetHasBusinessRows(target) THEN "compare" ELSE "begin")
    /\ UNCHANGED <<source, target, seq, lock, app, imports, runs, apps, overlap, harmed>>

Compare(p) ==
    /\ proc[p].pc = "compare"
    /\ IF collectMismatches(proc[p].plan, target) THEN End(p, "refused") ELSE Goto(p, "begin")
    /\ UNCHANGED <<source, target, seq, lock, app, imports, runs, apps, overlap, harmed>>

CompareAndReport(p) ==
    /\ proc[p].pc = "verify"
    /\ End(p, IF collectMismatches(proc[p].plan, target) THEN "mismatch" ELSE "ok")
    /\ UNCHANGED <<source, target, seq, lock, app, imports, runs, apps, overlap, harmed>>

(* The SERIALIZABLE snapshot is taken by the statement that then waits for    *)
(* the advisory lock.                                                         *)
Begin(p) ==
    /\ proc[p].pc = "begin"
    /\ proc' = [proc EXCEPT ![p] = [pc |-> "lock", plan |-> @.plan,
                                     snap |-> [target |-> target, imports |-> imports]]]
    /\ UNCHANGED <<source, target, seq, lock, app, imports, runs, apps, overlap, harmed>>

(* A row to be written has a version the snapshot does not see.               *)
NotSerializable(p) ==
    \/ imports # proc[p].snap.imports
    \/ \E f \in {"users", "cuisines"} : \E k \in DOMAIN proc[p].plan[f] \cap DOMAIN target[f] :
          ~Has(proc[p].snap.target[f], k) \/ proc[p].snap.target[f][k] # target[f][k]

Write(p) ==
    /\ proc[p].pc = "lock" /\ lock = None
    /\ IF NotSerializable(p) \/ ~CommentKeysHold(writeDataset(target, proc[p].plan))
       THEN End(p, "failed") /\ UNCHANGED lock
       ELSE Goto(p, "written") /\ lock' = p
    /\ UNCHANGED <<source, target, seq, app, imports, runs, apps, overlap, harmed>>

Advance(p) ==
    /\ proc[p].pc = "written"
    /\ seq' = advanceIdentitySequences(writeDataset(proc[p].snap.target, proc[p].plan))
    /\ Goto(p, "advanced")
    /\ UNCHANGED <<source, target, lock, app, imports, runs, apps, overlap, harmed>>

(* ON CONFLICT (id) DO UPDATE: a row that was there has the columns of the     *)
(* dataset.                                                                   *)
Overwritten(p) ==
    UNION {{[how |-> "overwritten", table |-> t, was |-> target[t][k], now |-> proc[p].plan[t][k]] :
                k \in {k \in DOMAIN proc[p].plan[t] \cap DOMAIN target[t] : target[t][k].by = "app"}} :
           t \in {"users", "cuisines"}}

Commit(p) ==
    /\ proc[p].pc = "advanced"
    /\ target' = writeDataset(target, proc[p].plan)
    /\ harmed' = harmed \cup Overwritten(p)
    /\ imports' = imports + 1
    /\ lock' = None
    /\ End(p, "ok")
    /\ UNCHANGED <<source, seq, app, runs, apps, overlap>>

Fail_Mutant(p) ==
    /\ p \in Running
    /\ End(p, "failed")
    /\ UNCHANGED <<source, target, seq, lock, app, imports, runs, apps, overlap, harmed>>

(* A signal, a time-out or a lost connection rolls the transaction back; the  *)
(* sequences stay where they are.                                             *)
Fail(p) ==
    /\ p \in Running
    /\ End(p, "failed")
    /\ lock' = IF lock = p THEN None ELSE lock
    /\ UNCHANGED <<source, target, seq, app, imports, runs, apps, overlap, harmed>>

-----------------------------------------------------------------------------
(* The application on the target: a new user, a new cuisine, an edited        *)
(* profile, a requested verification code.                                    *)

AppWrites == apps' = apps + 1 /\ overlap' = (overlap \/ Running # {})

NextVal(t) ==
    /\ apps < MaxApp /\ app = None
    /\ seq' = [seq EXCEPT ![t] = @ + 1]
    /\ app' = [table |-> t, id |-> seq[t] + 1]
    /\ AppWrites
    /\ UNCHANGED <<source, target, proc, lock, imports, runs, harmed>>

(* An insert waits for an uncommitted row with its key.                       *)
Insert(t, row) ==
    /\ app # None /\ app.table = t
    /\ \A p \in Writing : ~Has(proc[p].plan[t], app.id)
    /\ IF Has(target[t], app.id)
       THEN /\ harmed' = harmed \cup
                   {[how |-> "refused", table |-> t, was |-> row, now |-> target[t][app.id]]}
            /\ UNCHANGED target
       ELSE target' = [target EXCEPT ![t] = Over([k \in {app.id} |-> row], @)] /\ UNCHANGED harmed
    /\ app' = None
    /\ overlap' = (overlap \/ Running # {})
    /\ UNCHANGED <<source, seq, proc, lock, imports, runs, apps>>

Register == Insert("users", [by |-> "app", banned |-> FALSE, avatar |-> 0])

CreateCuisine(n) ==
    /\ \A t \in {target} \cup {proc[p].plan : p \in Writing} : Named(t.cuisines, n) = {}
    /\ Insert("cuisines", [name |-> n, by |-> "app"])

UpdateProfile(u) ==
    /\ apps < MaxApp /\ target.users[u].by # "app"
    /\ \A p \in Writing : ~Has(proc[p].plan.users, u)
    /\ target' = [target EXCEPT !.users[u].by = "app"]
    /\ AppWrites
    /\ UNCHANGED <<source, seq, proc, lock, app, imports, runs, harmed>>

RequestCode ==
    /\ apps < MaxApp
    /\ target' = [target EXCEPT !.others = @ \cup {"code"}]
    /\ AppWrites
    /\ UNCHANGED <<source, seq, proc, lock, app, imports, runs, harmed>>

Next ==
    \/ \E p \in Proc :
          \/ Import(p) \/ Verify(p) \/ Check(p) \/ Compare(p) \/ CompareAndReport(p)
          \/ Begin(p) \/ Write(p) \/ Advance(p) \/ Commit(p) \/ Fail(p)
    \/ \E t \in {"users", "cuisines"} : NextVal(t)
    \/ Register
    \/ \E n \in {NewName} \cup ToSet(OldCuisines) : CreateCuisine(n)
    \/ \E u \in DOMAIN target.users : UpdateProfile(u)
    \/ RequestCode

Spec == Init /\ [][Next]_vars

-----------------------------------------------------------------------------
(* The state of the commands; the lock is held only by a transaction that     *)
(* writes, and its end frees it (writeDataset).                               *)
TypeOK ==
    /\ source \in Source
    /\ seq \in [Identity -> Nat]
    /\ DOMAIN proc = Proc
    /\ \A p \in Proc : /\ proc[p].pc \in Ended \cup {"check", "compare", "verify", "begin", "lock", "written", "advanced"}
                       /\ Has(proc[p], "plan") <=> proc[p].pc \notin Ended
                       /\ Has(proc[p], "snap") <=> proc[p].pc \in {"lock", "written", "advanced"}
    /\ Writing = {lock} \ {None}
    /\ runs \in 0..MaxRuns /\ imports \in 0..runs /\ apps \in 0..MaxApp

(* r is c or above c in the source: in every set that contains c and, with a  *)
(* comment, its parent.                                                       *)
Above(c, r) ==
    \A T \in SUBSET DOMAIN source.comments :
        c \in T /\ (\A d \in T : source.comments[d].parent \in T \cup {0}) => r \in T

(* transformComments and deriveCounters against the forest of the source: an  *)
(* imported reply is in the thread it was in, answers an earlier comment of   *)
(* the same post by the user it named (but for the one comment the owner      *)
(* decided on), and a thread counts as many replies as it had.                *)
ThreadsKept ==
    \A c \in DOMAIN target.comments : LET r == target.comments[c]  l == source.comments[c] IN
        IF l.parent = 0
        THEN /\ r.root = 0
             /\ target.counts.comments[c].replies = Cardinality({d \in DOMAIN source.comments \ {c} : Above(d, c)})
        ELSE /\ r.root # 0 /\ source.comments[r.root].parent = 0
             /\ Above(c, r.root)
             /\ r.parent < c /\ target.comments[r.parent].post = r.post
             /\ target.comments[r.parent].author = r.to
             /\ c # Fallback => r.to = l.to

(* Unless the application writes while a command runs, no insert of it meets  *)
(* an identity an import left behind, and no import overwrites a row of it,   *)
(* crashed and repeated imports included, but for one: the cuisine that an    *)
(* administrator has created with the name and the identity of a historical   *)
(* one keeps both and loses the rest (targetHasBusinessRows,                  *)
(* collectMismatches, historicalDictionaryID, advanceIdentitySequences).      *)
Adopted(h) ==
    /\ h.how = "overwritten" /\ h.table = "cuisines"
    /\ h.was.name = h.now.name /\ h.now.name \in ToSet(OldCuisines)

ApplicationIntact == ~overlap => \A h \in harmed : Adopted(h)

(* docs/operations/legacy-data-import.md: a target that equals the result of  *)
(* the import may be imported again.                                          *)
ReimportAccepted == apps = 0 => \A p \in Proc : proc[p].pc # "refused"
=============================================================================
