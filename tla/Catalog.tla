------------------------------ MODULE Catalog -------------------------------
(***************************************************************************)
(* What posts are filed under: the closed dictionaries (flavors, cuisines, *)
(* canteens, windows) with the suggestions that extend them, and the open  *)
(* set of tags.  Posts refer to both, and every revision of a post keeps a *)
(* snapshot of them.  A request locks rows one after the other and takes   *)
(* effect when it commits; a request of one statement is one step.         *)
(***************************************************************************)
EXTENDS Integers, FiniteSets, FiniteSetsExt, RowLocks

CONSTANTS
    Name,         \* names of tags and dictionary items
    Tag, Item, Sugg, Post,   \* ids, in the order in which they are drawn
    MaxRequests,  \* bound: requests that commit
    None

ASSUME IdAssumption == \A S \in {Tag, Item, Sugg, Post} : S \subseteq Nat /\ 1 \in S /\ IsFiniteSet(S)
ASSUME BoundAssumption == MaxRequests \in Nat
ASSUME NoneAssumption == None \notin Name \cup Tag \cup Item \cup Sugg \cup Post

VARIABLES
    item,   \* flavors, cuisines, canteens, canteen_windows
    sugg,   \* dictionary_suggestions
    tag,    \* tags and the moderation_records about them
    post,   \* posts, post_tags and post_flavors
    hist,   \* post_histories: the snapshot of each revision
    text,   \* moderation_records of each revision of a post
    begun

vars == <<item, sugg, tag, post, hist, text, tx, begun>>

Kind == {"flavor", "cuisine", "canteen", "window"}
Verdict == {"pass", "review", "block"}

(* A deleted row leaves its id behind.  of: the canteen of a window. *)
ItemRow == [kind : Kind \cup {"none", "gone"}, name : Name \cup {None}, active : BOOLEAN,
            of : Item \cup {None}]
NoItem == [kind |-> "none", name |-> None, active |-> FALSE, of |-> None]

SuggRow == [st : {"none", "pending", "approved", "rejected"}, kind : Kind, name : Name \cup {None},
            post : Post \cup {None}, parent : Sugg \cup {None}, canteen : Item \cup {None},
            result : Item \cup {None}]
NoSugg == [st |-> "none", kind |-> "flavor", name |-> None, post |-> None, parent |-> None,
           canteen |-> None, result |-> None]

TagRow == [name : Name \cup {None}, gone : BOOLEAN, mod : Verdict, open : BOOLEAN]
NoTag == [name |-> None, gone |-> FALSE, mod |-> "pass", open |-> FALSE]

(* put: the current revision was written, or is an old one put back. *)
PostRow == [st : {"none", "draft", "pending", "approved", "rejected"}, del : BOOLEAN, rev : Nat,
            put : BOOLEAN, tags : SUBSET Tag, words : SUBSET Item]
NoPost == [st |-> "none", del |-> FALSE, rev |-> 0, put |-> FALSE, tags |-> {}, words |-> {}]

(* Tags and flavors are kept by name, the rest by id. *)
Snapshot == [tags : SUBSET Name, flavors : SUBSET Name, ids : SUBSET Item]

(* last: the latest verdict on a revision.  open: nobody has reviewed it. *)
TextRecord == [last : Verdict \cup {None}, open : BOOLEAN]
NoText == [last |-> None, open |-> FALSE]

PostWrites == {"create", "edit", "restoreHistory"}
Idle == [pc |-> "idle", op |-> "idle", on |-> None, arg |-> None, at |-> {}, plan |-> <<>>,
         held |-> {}]

Exists(i) == item[i].kind \in Kind
Of(kind) == {i \in Item : item[i].kind = kind}
Live(kind) == {i \in Of(kind) : item[i].active}

-----------------------------------------------------------------------------
(* Rows and unique keys that are locked, and transactions. *)

Update(table, id) == <<<<table, id>>, "update">>
KeyShare(table, id) == <<<<table, id>>, "keyShare">>

(* ORDER BY id *)
Ascending(ids) ==
    CHOOSE s \in [1 .. Cardinality(ids) -> ids] : \A i, j \in DOMAIN s : i < j => s[i] < s[j]
Updates(table, ids) == [k \in 1 .. Cardinality(ids) |-> Update(table, Ascending(ids)[k])]
KeyShares(table, ids) == [k \in 1 .. Cardinality(ids) |-> KeyShare(table, Ascending(ids)[k])]

Keys(kind, name, of) == {i \in Of(kind) : item[i].name = name /\ item[i].of = of}

(* The index entry of a row another transaction has yet to commit. *)
ItemKey(kind, name, of) == Update("itemKey", <<kind, name, of>>)
TagKey(name) == Update("tagKey", name)

CanBegin(t) == tx[t].pc = "idle" /\ begun < MaxRequests

Begin(t, op, on, arg, plan) ==
    /\ tx' = [tx EXCEPT ![t] = [Idle EXCEPT !.pc = "body", !.op = op, !.on = on, !.arg = arg,
                                           !.plan = plan]]
    /\ begun' = begun + 1
    /\ UNCHANGED <<item, sugg, tag, post, hist, text>>

Lock(t) ==
    /\ CanLock(t)
    /\ tx' = Locked(t)
    /\ UNCHANGED <<item, sugg, tag, post, hist, text, begun>>

At(t, op, pc) == tx[t].op = op /\ tx[t].pc = pc /\ Ready(t)

Goto(t, pc, at, plan) ==
    /\ tx' = [tx EXCEPT ![t].pc = pc, ![t].at = at, ![t].held = Got(t), ![t].plan = plan]
    /\ UNCHANGED <<item, sugg, tag, post, hist, text, begun>>

Committed(t) == tx' = [tx EXCEPT ![t] = Idle] /\ UNCHANGED begun

(* A refused request, an error, or the victim of a deadlock. *)
Rollback(t) ==
    /\ tx[t].pc # "idle"
    /\ tx' = [tx EXCEPT ![t] = Idle]
    /\ begun' = begun - 1
    /\ UNCHANGED <<item, sugg, tag, post, hist, text>>

(* A request of one statement, or of one lock and what is written under it. *)
AtOnce ==
    /\ begun < MaxRequests
    /\ begun' = begun + 1
    /\ UNCHANGED tx

-----------------------------------------------------------------------------
(* Revisions. *)

NextHistoryRevision(p) == Len(hist[p]) + 1

(* What the rows of a post say, in the tables as a statement sees them. *)
LoadSnapshotRelations(row, tags, items) ==
    [tags |-> {tags[i].name : i \in row.tags},
     flavors |-> {items[i].name : i \in {i \in row.words : items[i].kind = "flavor"}},
     ids |-> {i \in row.words : items[i].kind # "flavor"}]

(* A new revision of row, without a word to moderation. *)
appendPostHistory(p, row, tags, items) ==
    hist' = [hist EXCEPT ![p] = Append(@, LoadSnapshotRelations(row, tags, items))]

pendingModerationQuery(p) == post[p].rev > 0 /\ text[p][post[p].rev].open

(* post_items: what reviewers are shown of posts without images *)
Queue == {p \in Post : post[p].st \in {"pending", "rejected"} /\ ~post[p].del
                       /\ pendingModerationQuery(p)}

aggregatePostModeration(v) ==
    CASE v = "pass" -> "approved" [] v = "review" -> "pending" [] v = "block" -> "rejected"

finishModeration(v) ==
    IF v = None THEN NoText ELSE [last |-> v, open |-> v # "pass"]

-----------------------------------------------------------------------------
(* Dictionary items, each request one statement: one that holds a row while   *)
(* it waits for another takes several steps.                                  *)

Fresh(S, used) == LET free == S \ used IN {x \in free : \A y \in free : x <= y}
FreshItem == Fresh(Item, {i \in Item : item[i].kind # "none"})
FreshTags == {i \in Tag : tag[i].name = None}

NewItem(kind, name, active, of) ==
    [kind |-> kind, name |-> name, active |-> active, of |-> of]

CreateDictionary(kind, name, active, of) ==
    \E i \in FreshItem :
        /\ AtOnce
        /\ Keys(kind, name, of) = {} /\ Free(ItemKey(kind, name, of))
        /\ item' = [item EXCEPT ![i] = NewItem(kind, name, active, of)]
        /\ UNCHANGED <<sugg, tag, post, hist, text>>

CreateFlavor(name, active) == CreateDictionary("flavor", name, active, None)
CreateCuisine(name, active) == CreateDictionary("cuisine", name, active, None)
CreateCanteen(name, active) == CreateDictionary("canteen", name, active, None)

(* Into an active canteen or not. *)
CreateWindow(canteen, name, active) ==
    /\ canteen \in Of("canteen") /\ Free(KeyShare("item", canteen))
    /\ CreateDictionary("window", name, active, canteen)

(* The name is a key.  An item that is renamed or deleted keeps others from   *)
(* its name, and its row locked, until that is committed.                     *)
NameKey(i) == ItemKey(item[i].kind, item[i].name, item[i].of)

HoldName(t, pc, plan) ==
    LET i == tx[t].on IN
    /\ Exists(i) /\ ~Blocked(t, NameKey(i))
    /\ tx' = [tx EXCEPT ![t].pc = pc, ![t].held = Got(t) \cup {NameKey(i)}, ![t].plan = plan]
    /\ UNCHANGED <<item, sugg, tag, post, hist, text, begun>>

(* Posts that show a renamed flavor keep their revision. *)
RenameDictionary(t) ==
    LET i == tx[t].on
        name == tx[t].arg.name
    IN  \/ /\ At(t, "renameItem", "body")
           /\ HoldName(t, "commit", <<ItemKey(item[i].kind, name, item[i].of)>>)
        \/ /\ At(t, "renameItem", "commit")
           /\ Keys(item[i].kind, name, item[i].of) \subseteq {i}
           /\ item' = [item EXCEPT ![i].name = name, ![i].active = tx[t].arg.active]
           /\ Committed(t) /\ UNCHANGED <<sugg, tag, post, hist, text>>

UpdateDictionary(t, i, kind, name, active) ==
    /\ item[i].kind = kind
    /\ \/ /\ name # item[i].name /\ CanBegin(t)
          /\ Begin(t, "renameItem", i, [name |-> name, active |-> active], <<Update("item", i)>>)
       \/ /\ name = item[i].name /\ active # item[i].active
          /\ AtOnce /\ Free(<<<<"item", i>>, "noKeyUpdate">>)
          /\ item' = [item EXCEPT ![i].active = active]
          /\ UNCHANGED <<sugg, tag, post, hist, text>>

UpdateFlavor(t, i, name, active) == UpdateDictionary(t, i, "flavor", name, active)
UpdateCuisine(t, i, name, active) == UpdateDictionary(t, i, "cuisine", name, active)
UpdateCanteen(t, i, name, active) == UpdateDictionary(t, i, "canteen", name, active)
UpdateWindow(t, i, name, active) == UpdateDictionary(t, i, "window", name, active)

Enable(t, i, kind) == UpdateDictionary(t, i, kind, item[i].name, TRUE)
EnableFlavor(t, i) == Enable(t, i, "flavor")
EnableCuisine(t, i) == Enable(t, i, "cuisine")
EnableCanteen(t, i) == Enable(t, i, "canteen")
EnableWindow(t, i) == Enable(t, i, "window")

(* The windows of a canteen go with it (ON DELETE CASCADE). *)
Doomed(i) == {j \in Item : j = i \/ (Exists(j) /\ item[j].of = i)}

(* ON DELETE RESTRICT: posts, deleted ones too, and suggestions *)
Referenced(i) ==
    \/ \E p \in Post : i \in post[p].words
    \/ \E s \in Sugg : i \in {sugg[s].canteen, sugg[s].result}

(* Each check locks a row that refers to the item, of a flavor not the post,  *)
(* but the row that says that the post has it.                                *)
Referring(i) ==
    {KeyShare("sugg", s) : s \in {s \in Sugg : {sugg[s].canteen, sugg[s].result} \cap Doomed(i) # {}}}
    \cup
    {KeyShare("post", p) : p \in {p \in Post : (post[p].words \ Of("flavor")) \cap Doomed(i) # {}}}

Removed(t) ==
    /\ item' = [j \in Item |-> IF j \in Doomed(tx[t].on) THEN [NoItem EXCEPT !.kind = "gone"]
                               ELSE item[j]]
    /\ Committed(t) /\ UNCHANGED <<sugg, tag, post, hist, text>>

(* fault: the constraint lets the row go *)
DeleteDictionary_Mutant(t) ==
    \/ /\ At(t, "deleteItem", "body")
       /\ HoldName(t, "check", Updates("item", Doomed(tx[t].on) \ {tx[t].on}))
    \/ At(t, "deleteItem", "check") /\ Removed(t)

(* The row is locked, then the rows of its windows, then the ones the checks  *)
(* find.  One that still refers to it when it is locked refuses the deletion. *)
DeleteDictionary(t) ==
    LET i == tx[t].on IN
    \/ /\ At(t, "deleteItem", "body")
       /\ HoldName(t, "check", Updates("item", Doomed(i) \ {i}))
    \/ /\ At(t, "deleteItem", "check")
       /\ Range(tx[t].plan) \cap Referring(i) = {}
       /\ \E k \in Referring(i) : Goto(t, "check", {}, <<k>>)
    \/ /\ At(t, "deleteItem", "check")
       /\ \A j \in Doomed(i) : ~Referenced(j)
       /\ Removed(t)

BeginDelete(t, i, kind) ==
    /\ item[i].kind = kind /\ CanBegin(t)
    /\ Begin(t, "deleteItem", i, None, <<Update("item", i)>>)

DeleteFlavor(t, i) == BeginDelete(t, i, "flavor")
DeleteCuisine(t, i) == BeginDelete(t, i, "cuisine")
DeleteCanteen(t, i) == BeginDelete(t, i, "canteen")
DeleteWindow(t, i) == BeginDelete(t, i, "window")

-----------------------------------------------------------------------------
(* Suggestions. *)

validateSuggestionPost(p) == p # None => post[p].st # "none" /\ ~post[p].del

(* canteen: the one the submitted code names. *)
resolveSubmittedCanteen(c) == c # None => c \in Live("canteen")

(* A parent that is approved fills in its canteen, a pending one leaves it open. *)
applySubmittedParentSuggestion(row) ==
    row.parent # None =>
        LET parent == sugg[row.parent] IN
        /\ parent.kind = "canteen"
        /\ \/ parent.st = "pending" /\ row.canteen = None
           \/ parent.st = "approved" /\ row.canteen \in {None, parent.result}

applyApprovedSubmittedParent(row) ==
    IF row.parent # None /\ sugg[row.parent].st = "approved"
    THEN [row EXCEPT !.canteen = sugg[row.parent].result] ELSE row

(* Only windows have parents, and they need one. *)
normalizeSuggestion(row) ==
    /\ validateSuggestionPost(row.post)
    /\ (row.kind = "window") <=> (row.canteen # None \/ row.parent # None)
    /\ resolveSubmittedCanteen(row.canteen)
    /\ applySubmittedParentSuggestion(row)

(* Foreign keys are checked in the order in which they are declared. *)
SuggestionKeys(row) ==
    KeyShares("post", {row.post} \ {None}) \o KeyShares("item", {row.canteen} \ {None})
        \o KeyShares("sugg", {row.parent} \ {None})

CreateSuggestion(t) ==
    LET row == applyApprovedSubmittedParent(tx[t].arg) IN
    \/ /\ At(t, "suggest", "body")
       /\ normalizeSuggestion(tx[t].arg)
       /\ tx' = [tx EXCEPT ![t].pc = "commit", ![t].arg = row, ![t].plan = SuggestionKeys(row)]
       /\ UNCHANGED <<item, sugg, tag, post, hist, text, begun>>
    \/ /\ At(t, "suggest", "commit")
       /\ tx[t].arg.canteen # None => Exists(tx[t].arg.canteen)
       /\ sugg' = [sugg EXCEPT ![tx[t].on] = tx[t].arg]
       /\ Committed(t) /\ UNCHANGED <<item, tag, post, hist, text>>

LockSuggestionByID(s) == <<Update("sugg", s)>>

resolveApprovedParentSuggestion(s, c) ==
    /\ sugg[s].st = "approved"
    /\ c \in {None, sugg[s].result}

(* The canteen a window will belong to. *)
ParentCanteen(s) == IF sugg[s].parent # None THEN sugg[sugg[s].parent].result ELSE sugg[s].canteen

resolveApprovalParent(s) ==
    sugg[s].kind = "window" =>
        /\ sugg[s].parent # None =>
              resolveApprovedParentSuggestion(sugg[s].parent, sugg[s].canteen)
        /\ ParentCanteen(s) \in Live("canteen")

lockSourcePost(s) == IF sugg[s].post = None THEN <<>> ELSE <<Update("post", sugg[s].post)>>

SuggestedOf(s) == IF sugg[s].kind = "window" THEN ParentCanteen(s) ELSE None
SuggestedKey(s) == ItemKey(sugg[s].kind, sugg[s].name, SuggestedOf(s))
Suggested(s) == Keys(sugg[s].kind, sugg[s].name, SuggestedOf(s))

(* A canteen of that name is read, the others are inserted and read when that *)
(* fails: the insertion waits for another one of the same key.                *)
FindOrCreate(s) ==
    IF sugg[s].kind = "canteen" /\ Suggested(s) # {} THEN <<>> ELSE <<SuggestedKey(s)>>

(* The item the reviewer points at has to be the one that is suggested. *)
approveExistingItem(s, i) == i \in Suggested(s) /\ item[i].active

(* at: the item, once there is one.  Its key is only held by who inserts it. *)
approveDictionaryItem(t) ==
    LET s == tx[t].on
        i == tx[t].arg
        found == IF i # None THEN {i} ELSE Suggested(s)
        canteen == IF sugg[s].kind = "window" THEN {ParentCanteen(s)} ELSE {}
    IN  /\ i # None => approveExistingItem(s, i)
        /\ \A j \in found : item[j].active
        /\ found = {} => SuggestedKey(s) \in Range(tx[t].plan)
        /\ tx' = [tx EXCEPT ![t].pc = "commit", ![t].at = found,
                            ![t].held = IF found = {} THEN Got(t) ELSE @,
                            ![t].plan = KeyShares("item", found \cup canteen)]
        /\ UNCHANGED <<item, sugg, tag, post, hist, text, begun>>

(* A canteen takes the window with it. *)
BoundWords(words, i, row) ==
    CASE row.kind = "flavor" -> words \cup {i}
      [] row.kind = "cuisine" -> (words \ Of("cuisine")) \cup {i}
      [] row.kind = "canteen" -> (words \ (Of("canteen") \cup Of("window"))) \cup {i}
      [] row.kind = "window" -> (words \ (Of("canteen") \cup Of("window"))) \cup {i, row.of}

(* The next revision of the post, which keeps its status and has no record. *)
bindSuggestionToPost(p, i, items) ==
    LET row == [post[p] EXCEPT !.rev = NextHistoryRevision(p), !.put = TRUE,
                               !.words = BoundWords(@, i, items[i])]
    IN  /\ post' = [post EXCEPT ![p] = row]
        /\ appendPostHistory(p, row, tag, items)
        /\ text' = [text EXCEPT ![p] = Append(@, NoText)]

ReviewSuggestion(s, fields) ==
    /\ sugg[s].st = "pending"
    /\ sugg' = [sugg EXCEPT ![s] = fields]

Approve(t) ==
    LET s == tx[t].on
        row == sugg[s]
    IN  \/ /\ At(t, "approve", "body")
           /\ row.st = "pending"
           /\ Goto(t, "parent", {}, IF row.parent = None THEN <<>>
                                    ELSE LockSuggestionByID(row.parent))
        \/ /\ At(t, "approve", "parent")
           /\ resolveApprovalParent(s)
           /\ Goto(t, "source", {}, lockSourcePost(s))
        \/ /\ At(t, "approve", "source")
           /\ Goto(t, "item", {}, IF tx[t].arg # None THEN <<>> ELSE FindOrCreate(s))
        \/ At(t, "approve", "item") /\ approveDictionaryItem(t)
        \/ /\ At(t, "approve", "commit")
           /\ \A j \in tx[t].at : Exists(j)
           /\ row.kind = "window" => Exists(ParentCanteen(s))
           /\ \E i \in IF tx[t].at = {} THEN FreshItem ELSE tx[t].at :
                 /\ item' = IF tx[t].at # {} THEN item
                            ELSE [item EXCEPT ![i] = NewItem(row.kind, row.name, TRUE, SuggestedOf(s))]
                 /\ ReviewSuggestion(s, [row EXCEPT !.st = "approved", !.result = i,
                                                    !.canteen = SuggestedOf(s)])
                 /\ IF row.post # None /\ ~post[row.post].del
                    THEN bindSuggestionToPost(row.post, i, item')
                    ELSE UNCHANGED <<post, hist, text>>
           /\ Committed(t) /\ UNCHANGED tag

Reject(s) ==
    /\ AtOnce
    /\ Free(Update("sugg", s))
    /\ ReviewSuggestion(s, [sugg[s] EXCEPT !.st = "rejected"])
    /\ UNCHANGED <<item, tag, post, hist, text>>

-----------------------------------------------------------------------------
(* Tags. *)

(* fault: in the order in which the request names them *)
LockTagsByIDs_Mutant(ids) == [k \in 1 .. Len(ids) |-> Update("tag", ids[k])]

(* fault: the tags are read without a lock *)
LockTagsByIDs_Read(ids) == <<>>

LockTagsByIDs(ids) == Updates("tag", Range(ids))

FindTagPostIDs(i) == {p \in Post : i \in post[p].tags}
LockPostsByIDs(ids) == Updates("post", ids)

(* at: the posts whose next revision the change writes.  Nothing is recorded *)
(* for moderation.                                                           *)
appendTagChangeVersions(affected, rows, tags) ==
    LET now == [p \in Post |-> IF p \in affected
                               THEN [rows[p] EXCEPT !.rev = NextHistoryRevision(p), !.put = TRUE]
                               ELSE rows[p]]
    IN  /\ post' = now
        /\ hist' = [p \in Post |-> IF p \in affected
                                   THEN Append(hist[p], LoadSnapshotRelations(now[p], tags, item))
                                   ELSE hist[p]]
        /\ text' = [p \in Post |-> IF p \in affected THEN Append(text[p], NoText) ELSE text[p]]

prepareTagAffectedPosts(t, pc, i) ==
    Goto(t, pc, FindTagPostIDs(i), LockPostsByIDs(FindTagPostIDs(i)))

RenameTag(t) ==
    LET i == tx[t].on
        name == tx[t].arg
        tags == [tag EXCEPT ![i].name = name]
    IN  \/ /\ At(t, "rename", "body")
           /\ tag[i].name # name
           /\ prepareTagAffectedPosts(t, "name", i)
        \/ /\ At(t, "rename", "name")
           /\ Goto(t, "commit", tx[t].at, <<TagKey(tag[i].name), TagKey(name)>>)
        \/ /\ At(t, "rename", "commit")
           /\ \A j \in Tag : tag[j].name # name
           /\ tag' = tags
           /\ appendTagChangeVersions(tx[t].at, post, tags)
           /\ Committed(t) /\ UNCHANGED <<item, sugg>>

MergeTagRelations(source, target) ==
    [p \in Post |-> IF source \in post[p].tags
                    THEN [post[p] EXCEPT !.tags = (@ \ {source}) \cup {target}] ELSE post[p]]

(* on: the source.  arg: the target. *)
MergeTag(t) ==
    \/ /\ At(t, "merge", "body")
       /\ ~tag[tx[t].arg].gone
       /\ prepareTagAffectedPosts(t, "commit", tx[t].on)
    \/ /\ At(t, "merge", "commit")
       /\ tag' = [tag EXCEPT ![tx[t].on].gone = TRUE]
       /\ appendTagChangeVersions(tx[t].at, MergeTagRelations(tx[t].on, tx[t].arg), tag)
       /\ Committed(t) /\ UNCHANGED <<item, sugg>>

(* Relations stay. *)
setTagDeleted(i, gone) ==
    /\ AtOnce
    /\ tag[i].name # None /\ tag[i].gone # gone /\ Free(Update("tag", i))
    /\ tag' = [tag EXCEPT ![i].gone = gone]
    /\ UNCHANGED <<item, sugg, post, hist, text>>

DeleteTag(i) == setTagDeleted(i, TRUE)
RestoreTag(i) == setTagDeleted(i, FALSE)

(* A pass does not bring a tag back. *)
applyManualTagVerdict(i, v) ==
    [tag[i] EXCEPT !.mod = v, !.open = FALSE, !.gone = @ \/ v = "block"]

ManualReview(i, v) ==
    /\ AtOnce
    /\ tag[i].open /\ Free(Update("tag", i))
    /\ tag' = [tag EXCEPT ![i] = applyManualTagVerdict(i, v)]
    /\ UNCHANGED <<item, sugg, post, hist, text>>

-----------------------------------------------------------------------------
(* Posts. *)

(* Items of one kind exclude each other, but for flavors. *)
OneEach(words) == \A i, j \in words : i # j => item[i].kind # item[j].kind \/ item[i].kind = "flavor"

(* A window needs its canteen. *)
resolveDictionaries(words) ==
    /\ \A i \in words : Exists(i) /\ item[i].active
    /\ \A i \in words \cap Of("window") : item[i].of \in words

(* Flavors are looked up by their name again. *)
updateInputFromSnapshot(p, r) ==
    LET old == hist[p][r] IN
    [tags |-> old.tags,
     words |-> old.ids \cup {i \in Live("flavor") : item[i].name \in old.flavors}]

FlavorsFound(p, r) == hist[p][r].flavors \subseteq {item[i].name : i \in Live("flavor")}

resolvePostPayload(t, payload) ==
    /\ resolveDictionaries(payload.words)
    /\ Goto(t, "names", payload, KeyShares("item", payload.words))

(* The insertion of a name waits for another one of the same name. *)
FindOrCreateTag(names) == {i \in Tag : tag[i].name \in names}
NewNames(names) == {n \in names : \A i \in Tag : tag[i].name # n}

replaceTags(t) ==
    LET names == tx[t].at.tags
        found == FindOrCreateTag(names)
    IN  /\ \A i \in tx[t].at.words : Exists(i)
        /\ \A n \in names : ~Blocked(t, TagKey(n))
        /\ \A i \in found : ~tag[i].gone
        /\ tx' = [tx EXCEPT ![t].pc = "commit", ![t].at.tags = found,
                            ![t].held = Got(t) \cup {TagKey(n) : n \in NewNames(names)},
                            ![t].plan = KeyShares("tag", found)]
        /\ UNCHANGED <<item, sugg, tag, post, hist, text, begun>>

moderateTag(n, v) == [name |-> n, gone |-> v = "block", mod |-> v, open |-> v # "pass"]

(* The names that are new, each with an id and a verdict. *)
NewTags(names) ==
    {f \in [names -> FreshTags \X Verdict] :
        \A n, m \in names : n # m => f[n][1] # f[m][1]}
Inserted(f) ==
    [i \in Tag |-> LET mine == {n \in DOMAIN f : f[n][1] = i} IN
                   IF mine = {} THEN tag[i]
                   ELSE LET n == CHOOSE n \in mine : TRUE IN moderateTag(n, f[n][2])]

Created(t) == {k[1][2] : k \in {k \in tx[t].held : k[1][1] = "tagKey"}}

ReplaceTags(t, f) == tx[t].at.tags \cup {f[n][1] : n \in DOMAIN f}

applyPostRelations(t, f, st, rev) ==
    [post[tx[t].on] EXCEPT !.st = st, !.rev = rev, !.tags = ReplaceTags(t, f),
                           !.words = tx[t].at.words, !.del = FALSE]

(* A draft is not moderated. *)
Status(v) == IF v = None THEN "draft" ELSE aggregatePostModeration(v)

replacePostContentVersion(t) ==
    LET p == tx[t].on IN
    \E v \in Verdict \cup {None}, f \in NewTags(Created(t)) :
        LET row == [applyPostRelations(t, f, Status(v), NextHistoryRevision(p)) EXCEPT !.put = TRUE]
        IN  /\ tag' = Inserted(f)
            /\ post' = [post EXCEPT ![p] = row]
            /\ appendPostHistory(p, row, tag', item)
            /\ text' = [text EXCEPT ![p] = Append(@, finishModeration(v))]
            /\ Committed(t) /\ UNCHANGED <<item, sugg>>

CreatePost(t) ==
    \/ At(t, "create", "body") /\ resolvePostPayload(t, tx[t].arg)
    \/ At(t, "create", "names") /\ replaceTags(t)
    \/ At(t, "create", "commit") /\ replacePostContentVersion(t)

UpdatePost(t) ==
    \/ At(t, "edit", "body") /\ ~post[tx[t].on].del /\ resolvePostPayload(t, tx[t].arg)
    \/ At(t, "edit", "names") /\ replaceTags(t)
    \/ At(t, "edit", "commit") /\ replacePostContentVersion(t)

(* The old revision is current again, its verdict is the one it had.  A       *)
(* deleted post is back.  No snapshot is taken.                               *)
RestoreHistory(t) ==
    LET p == tx[t].on
        r == tx[t].arg
    IN  \/ /\ At(t, "restoreHistory", "body")
           /\ FlavorsFound(p, r) /\ resolvePostPayload(t, updateInputFromSnapshot(p, r))
        \/ At(t, "restoreHistory", "names") /\ replaceTags(t)
        \/ /\ At(t, "restoreHistory", "commit")
           /\ \E v \in IF text[p][r].last = None THEN Verdict ELSE {text[p][r].last},
                f \in NewTags(Created(t)) :
                 /\ tag' = Inserted(f)
                 /\ post' = [post EXCEPT ![p] =
                        [applyPostRelations(t, f, Status(v), r) EXCEPT !.put = FALSE]]
                 /\ text' = IF text[p][r].last # None THEN text
                            ELSE [text EXCEPT ![p][r] = finishModeration(v)]
           /\ Committed(t) /\ UNCHANGED <<item, sugg, hist>>

DeletePost(p) ==
    /\ AtOnce
    /\ post[p].st # "none" /\ ~post[p].del /\ Free(Update("post", p))
    /\ post' = [post EXCEPT ![p].del = TRUE]
    /\ UNCHANGED <<item, sugg, tag, hist, text>>

(* The whole post, here without images. *)
ManualReviewPost(p, v) ==
    /\ AtOnce
    /\ p \in Queue /\ Free(Update("post", p))
    /\ post' = [post EXCEPT ![p].st = aggregatePostModeration(v)]
    /\ text' = [text EXCEPT ![p][post[p].rev] = [last |-> v, open |-> FALSE]]
    /\ UNCHANGED <<item, sugg, tag, hist>>

-----------------------------------------------------------------------------
Payload ==
    [tags : SUBSET Name, words : {w \in SUBSET {i \in Item : Exists(i)} : OneEach(w)}]

Proposal ==
    {row \in [st : {"pending"}, kind : Kind, name : Name, post : {p \in Post : post[p].st # "none"} \cup {None},
              parent : {s \in Sugg : sugg[s].st # "none"} \cup {None},
              canteen : Live("canteen") \cup {None}, result : {None}] : normalizeSuggestion(row)}

Taken(op) == {tx[t].on : t \in {t \in Tx : tx[t].op = op}}

SuggestionRequest(t) ==
    \/ \E row \in Proposal, s \in Fresh(Sugg, {s \in Sugg : sugg[s].st # "none"} \cup Taken("suggest")) :
          Begin(t, "suggest", s, row, <<>>)
    \/ \E s \in {s \in Sugg : sugg[s].st = "pending"} : \E i \in Suggested(s) \cup {None} :
          Begin(t, "approve", s, i, LockSuggestionByID(s))

TagRequest(t) ==
    \E i \in {i \in Tag : tag[i].name # None} :
        \/ \E n \in Name \ {tag[i].name} : Begin(t, "rename", i, n, LockTagsByIDs(<<i>>))
        \/ \E j \in {j \in Tag : tag[j].name # None} \ {i} :
              Begin(t, "merge", i, j, LockTagsByIDs(<<i, j>>))

PostRequest(t) ==
    \/ \E p \in Fresh(Post, {p \in Post : post[p].st # "none"} \cup Taken("create")) :
          \E payload \in Payload : Begin(t, "create", p, payload, <<>>)
    \/ \E p \in {p \in Post : post[p].st # "none"} :
          \/ \E payload \in Payload : Begin(t, "edit", p, payload, <<Update("post", p)>>)
          \/ \E r \in 1 .. Len(hist[p]) : Begin(t, "restoreHistory", p, r, <<Update("post", p)>>)

Handle(t) ==
    \/ CreateSuggestion(t) \/ Approve(t)
    \/ RenameDictionary(t) \/ DeleteDictionary(t)
    \/ RenameTag(t) \/ MergeTag(t)
    \/ CreatePost(t) \/ UpdatePost(t) \/ RestoreHistory(t)

ManageFlavors(t) ==
    \/ \E n \in Name, active \in BOOLEAN :
          CreateFlavor(n, active) \/ \E i \in Item : UpdateFlavor(t, i, n, active)
    \/ \E i \in Item : EnableFlavor(t, i) \/ DeleteFlavor(t, i)

ManageCuisines(t) ==
    \/ \E n \in Name, active \in BOOLEAN :
          CreateCuisine(n, active) \/ \E i \in Item : UpdateCuisine(t, i, n, active)
    \/ \E i \in Item : EnableCuisine(t, i) \/ DeleteCuisine(t, i)

ManageCanteens(t) ==
    \/ \E n \in Name, active \in BOOLEAN :
          CreateCanteen(n, active) \/ \E i \in Item : UpdateCanteen(t, i, n, active)
    \/ \E i \in Item : EnableCanteen(t, i) \/ DeleteCanteen(t, i)

ManageWindows(t) ==
    \/ \E n \in Name, active \in BOOLEAN, i \in Item :
          CreateWindow(i, n, active) \/ UpdateWindow(t, i, n, active)
    \/ \E i \in Item : EnableWindow(t, i) \/ DeleteWindow(t, i)

ManageTags ==
    \E i \in Tag : DeleteTag(i) \/ RestoreTag(i) \/ \E v \in {"pass", "block"} : ManualReview(i, v)

ManagePosts ==
    \E p \in Post : DeletePost(p) \/ \E v \in {"pass", "block"} : ManualReviewPost(p, v)

(* A post with a tag and a canteen, another tag and canteen or none, and a    *)
(* suggestion for the post: of a canteen with a window below it, of a window  *)
(* of the canteen that is there, or of a word of another kind.                *)
Init ==
    \E n, m \in Name, v \in Verdict, kind \in Kind, second \in BOOLEAN :
        /\ n # m /\ (second => kind = "canteen")
        /\ item = [i \in Item |-> CASE i = 1 -> NewItem("canteen", n, TRUE, None)
                                   [] i = 2 /\ second -> NewItem("canteen", m, TRUE, None)
                                   [] OTHER -> NoItem]
        /\ tag = [i \in Tag |-> CASE i = 1 -> [NoTag EXCEPT !.name = n]
                                 [] i = 2 /\ second -> [NoTag EXCEPT !.name = m]
                                 [] OTHER -> NoTag]
        /\ post = [p \in Post |->
              IF p = 1 THEN [st |-> Status(v), del |-> FALSE, rev |-> 1, put |-> TRUE, tags |-> {1},
                             words |-> {1}]
              ELSE NoPost]
        /\ hist = [p \in Post |-> IF p = 1 THEN <<[tags |-> {n}, flavors |-> {}, ids |-> {1}]>> ELSE <<>>]
        /\ text = [p \in Post |-> IF p = 1 THEN <<finishModeration(v)>> ELSE <<>>]
        /\ sugg = [s \in Sugg |->
              CASE s = 1 -> [NoSugg EXCEPT !.st = "pending", !.kind = kind, !.name = m, !.post = 1,
                                           !.canteen = IF kind = "window" THEN 1 ELSE None]
                [] s = 2 /\ kind = "canteen" ->
                      [NoSugg EXCEPT !.st = "pending", !.kind = "window", !.name = n, !.post = 1,
                                     !.parent = 1]
                [] OTHER -> NoSugg]
        /\ tx = [t \in Tx |-> Idle]
        /\ begun = 0

Next ==
    \/ \E t \in Tx : \/ CanBegin(t) /\ (SuggestionRequest(t) \/ TagRequest(t) \/ PostRequest(t))
                     \/ ManageFlavors(t) \/ ManageCuisines(t)
                     \/ ManageCanteens(t) \/ ManageWindows(t)
                     \/ Lock(t) \/ Handle(t) \/ Rollback(t)
    \/ ManageTags \/ ManagePosts \/ \E s \in Sugg : Reject(s)

Spec == Init /\ [][Next]_vars

-----------------------------------------------------------------------------
(* The rows have their types and, as the foreign keys of the migrations say,  *)
(* refer to rows that exist, whatever is deleted while requests overlap.      *)
TypeOK ==
    /\ item \in [Item -> ItemRow]
    /\ sugg \in [Sugg -> SuggRow]
    /\ tag \in [Tag -> TagRow]
    /\ post \in [Post -> PostRow]
    /\ \A p \in Post : /\ hist[p] \in Seq(Snapshot) /\ text[p] \in Seq(TextRecord)
                       /\ Len(hist[p]) = Len(text[p]) /\ post[p].rev \in 0 .. Len(hist[p])
    /\ DOMAIN tx = Tx /\ begun \in 0 .. MaxRequests
    /\ \A i \in Item : Referenced(i) => Exists(i)
    /\ \A i \in Of("window") : item[i].of \in Of("canteen")
    /\ \A p \in Post : \A i \in post[p].tags : tag[i].name # None

(* appendTagChangeVersions, bindSuggestionToPost, appendPostHistory: unless   *)
(* its author has put an old revision back, the snapshot of the current       *)
(* revision names exactly the tags the post has now, and the canteen, window  *)
(* and cuisine, however renames, merges, approvals and edits overlap.         *)
SnapshotCurrent ==
    \A p \in Post : post[p].put =>
        LET now == LoadSnapshotRelations(post[p], tag, item)
            kept == hist[p][post[p].rev]
        IN  kept.tags = now.tags /\ kept.ids = now.ids

(* LockTagsByIDs, LockPostsByIDs, LockSuggestionByID, DeleteDictionary:       *)
(* renames and merges lock tags, then posts, each in the order of their ids,  *)
(* and approvals lock suggestions before posts.  Any number of transactions   *)
(* that wait in a circle therefore have among them the author's write of a    *)
(* post, which locks its tags last; or the submission of a window below a     *)
(* suggested canteen, which locks the post of both before the canteen; or the *)
(* renaming or deletion of a dictionary item, which holds it while it waits   *)
(* for a name or for the rows that refer to it; or renames of tags that hand  *)
(* their names on in a circle.                                                *)
NamesGoRound(S) ==
    \E R \in (SUBSET S) \ {{}} : \A t \in R :
        tx[t].op = "rename" /\ \E w \in R \ {t} : tx[t].arg = tag[tx[w].on].name

Unordered(t) ==
    \/ tx[t].op \in PostWrites \cup {"renameItem", "deleteItem"}
    \/ tx[t].op = "suggest" /\ tx[t].arg.parent # None

OrderedNeverCircle ==
    \A S \in SUBSET Tx : Ring(S) => (\E t \in S : Unordered(t)) \/ NamesGoRound(S)

=============================================================================
