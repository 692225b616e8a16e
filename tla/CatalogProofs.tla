--------------------------- MODULE CatalogProofs ----------------------------
(***************************************************************************)
(* Proofs about Catalog for any names, ids and number of requests under    *)
(* way: no row refers to one that is gone, the snapshot of a revision that *)
(* was written names the tags and places the post has, and transactions    *)
(* that wait in a circle have among them an author's write, the submission *)
(* of a window below a suggested canteen, the renaming or deletion of a    *)
(* dictionary item, or renames of tags that hand their names on.           *)
(***************************************************************************)
EXTENDS Catalog, FiniteSetTheorems, SequenceTheorems, WellFoundedInduction, TLAPS

Names == Name \cup {None}
Items == Item \cup {None}

(* Rows by their ids, and unique keys. *)
Row == ({"sugg"} \X Sugg) \cup ({"tag"} \X Tag) \cup ({"post"} \X Post) \cup ({"item"} \X Item)
         \cup ({"itemKey"} \X (Kind \X Names \X Items)) \cup ({"tagKey"} \X Names)
Lockable == Row \X Mode

PayloadRow == [tags : SUBSET Name, words : SUBSET Item]

IsTx(q) == q = [pc |-> q.pc, op |-> q.op, on |-> q.on, arg |-> q.arg, at |-> q.at,
                plan |-> q.plan, held |-> q.held]

Named(i) == tag[i].name # None

(* The requests under way; begun counts at least those. *)
Active == {t \in Tx : tx[t].pc # "idle"}

(* The rows but for what they refer to. *)
Typed ==
    /\ item \in [Item -> ItemRow]
    /\ sugg \in [Sugg -> SuggRow]
    /\ tag \in [Tag -> TagRow]
    /\ post \in [Post -> PostRow]
    /\ hist \in [Post -> Seq(Snapshot)] /\ text \in [Post -> Seq(TextRecord)]
    /\ \A p \in Post : /\ Len(hist[p]) = Len(text[p]) /\ post[p].rev \in 0 .. Len(hist[p])
                       /\ post[p].put => post[p].rev > 0

(* Items and suggestions have names. *)
Titled ==
    /\ \A i \in Item : Exists(i) => item[i].name # None
    /\ \A s \in Sugg : sugg[s].st # "none" => sugg[s].name # None

(* The foreign keys, and what the rows of one table say about another.  Only *)
(* a window belongs to a canteen, and only below a suggested canteen is a    *)
(* window suggested.                                                         *)
KeysSound ==
    /\ Titled
    /\ \A i \in Item : Referenced(i) => Exists(i)
    /\ \A i \in Item : Exists(i) => IF item[i].kind = "window" THEN item[i].of \in Of("canteen")
                                                               ELSE item[i].of = None
    /\ \A p \in Post : \A i \in post[p].tags : Named(i)
    /\ \A s \in Sugg : sugg[s].st = "none" => sugg[s] = NoSugg
    /\ \A s \in Sugg : sugg[s].parent # None =>
          /\ sugg[s].kind = "window"
          /\ sugg[sugg[s].parent].st # "none" /\ sugg[sugg[s].parent].kind = "canteen"

(* The order of the locks, rows being the suggestions: suggestions and tags,  *)
(* posts, items and their keys, tag names; tags, posts and items by id, a     *)
(* window before its canteen.                                                 *)
Rank(table) ==
    CASE table \in {"sugg", "tag"} -> 1 [] table = "post" -> 2 [] table = "itemKey" -> 3
      [] table = "item" -> 4 [] table = "tagKey" -> 5

Before(rows, j, k) ==
    \/ Rank(j[1]) < Rank(k[1])
    \/ j[1] = k[1] /\ j[1] \in {"tag", "post", "item"} /\ j[2] < k[2]
    \/ /\ j[1] = "sugg" /\ k[1] = "sugg"
       /\ rows[j[2]].kind = "window" /\ rows[k[2]].kind = "canteen"

InOrder(rows, held, plan) ==
    /\ \A h \in held : \A i \in DOMAIN plan : Before(rows, h[1], plan[i][1])
    /\ \A i, j \in DOMAIN plan : i < j => Before(rows, plan[i][1], plan[j][1])

(* Requests that take all their locks in this order. *)
Orderly(t) ==
    \/ tx[t].op \in {"approve", "merge"}
    \/ tx[t].op = "rename" /\ tx[t].pc # "commit"
    \/ tx[t].op = "suggest" /\ tx[t].arg.parent = None

Within(locks, r) == \A k \in locks : Rank(k[1][1]) <= r

LockSound(t) ==
    LET q == tx[t] IN
    /\ IsTx(q) /\ q.plan \in Seq(Lockable) /\ q.held \subseteq Lockable
    /\ q.pc = "idle" <=> q.op = "idle"
    /\ q.pc = "idle" => q.plan = <<>> /\ q.held = {}
    /\ q.op \in {"idle", "suggest", "approve", "renameItem", "deleteItem", "rename", "merge"}
                   \cup PostWrites
    /\ Orderly(t) => InOrder(sugg, q.held, q.plan)

(* A suggestion that is submitted has an id nobody else has drawn. *)
SuggestSound(t) ==
    LET q == tx[t] IN q.op = "suggest" =>
    /\ q.on \in Sugg /\ sugg[q.on].st = "none"
    /\ q.arg \in SuggRow /\ q.arg.st = "pending" /\ q.arg.result = None /\ q.arg.name # None
    /\ q.arg.parent # None =>
          /\ q.arg.kind = "window"
          /\ sugg[q.arg.parent].st # "none" /\ sugg[q.arg.parent].kind = "canteen"
    /\ q.pc = "body" => q.held = {} /\ q.plan = <<>>

Drawn ==
    \A t \in Tx : \A w \in Tx \ {t} :
        tx[t].op = "suggest" /\ tx[w].op = "suggest" => tx[t].on # tx[w].on

(* The canteen of a window that is being approved was an item. *)
CanteenSound(s) ==
    sugg[s].kind = "window" =>
        /\ sugg[s].parent # None => sugg[sugg[s].parent].st = "approved"
        /\ ParentCanteen(s) \in Item /\ item[ParentCanteen(s)].kind \in {"canteen", "gone"}

ApproveSound(t) ==
    LET q == tx[t] IN q.op = "approve" =>
    /\ q.on \in Sugg /\ sugg[q.on].st # "none" /\ q.arg \in Item \cup {None}
    /\ q.pc = "body" => q.held = {} /\ q.plan = LockSuggestionByID(q.on)
    /\ q.pc # "body" => Update("sugg", q.on) \in q.held /\ sugg[q.on].st = "pending"
    /\ q.pc = "parent" => Within(Got(t), 1)
    /\ q.pc = "source" => Within(Got(t), 2)
    /\ q.pc = "item" => Within(Got(t), 3)
    /\ q.pc \in {"source", "item", "commit"} => CanteenSound(q.on)
    /\ q.pc = "commit" =>
          /\ q.at \subseteq Item
          /\ sugg[q.on].kind = "window" => KeyShare("item", ParentCanteen(q.on)) \in Got(t)

(* An item that is renamed or deleted is locked, with the windows that go     *)
(* with it.                                                                   *)
ItemSound(t) ==
    LET q == tx[t] IN q.op \in {"renameItem", "deleteItem"} =>
    /\ q.on \in Item
    /\ q.op = "renameItem" => q.arg \in [name : Name, active : BOOLEAN]
    /\ q.pc = "body" => q.held = {} /\ q.plan = <<Update("item", q.on)>>
    /\ q.pc # "body" => Exists(q.on) /\ Update("item", q.on) \in q.held
    /\ q.op = "deleteItem" /\ q.pc # "body" =>
          \A j \in Doomed(q.on) : Update("item", j) \in Got(t)

(* A rename that has its posts takes the key of the old name, then the new. *)
NamesSound(t) ==
    LET q == tx[t]
        old == TagKey(tag[q.on].name)
    IN  \/ q.plan = <<old, TagKey(q.arg)>> /\ Within(q.held, 2)
        \/ q.plan = <<TagKey(q.arg)>> /\ Within(q.held \ {old}, 2)

(* A rename or merge knows all posts with its tag once the tag is locked. *)
TagSound(t) ==
    LET q == tx[t]
        tags == IF q.op = "merge" THEN {q.on, q.arg} ELSE {q.on}
    IN  q.op \in {"rename", "merge"} =>
    /\ q.on \in Tag /\ Named(q.on)
    /\ IF q.op = "merge" THEN q.arg \in Tag /\ Named(q.arg) ELSE q.arg \in Name
    /\ \A i \in tags : Update("tag", i) \in (IF q.pc = "body" THEN Got(t) ELSE q.held)
    /\ q.pc = "body" => Within(Got(t), 1)
    /\ q.pc = "name" => Within(Got(t), 2)
    /\ q.pc # "body" => FindTagPostIDs(q.on) \subseteq q.at
    /\ q.op = "rename" /\ q.pc = "commit" => NamesSound(t)

(* A write has locked what it refers to. *)
WriteSound(t) ==
    LET q == tx[t] IN q.op \in PostWrites =>
    /\ q.on \in Post
    /\ q.op # "restoreHistory" => q.arg \in PayloadRow
    /\ q.op = "restoreHistory" => q.arg \in 1 .. Len(hist[q.on])
    /\ \A k \in Got(t) : k[1][1] = "tagKey" => k[1][2] \in Name
    /\ q.pc = "names" => /\ q.at \in PayloadRow
                         /\ \A i \in q.at.words : KeyShare("item", i) \in Got(t)
    /\ q.pc = "commit" =>
          /\ q.at \in [tags : SUBSET Tag, words : SUBSET Item]
          /\ \A i \in q.at.words : Exists(i) /\ KeyShare("item", i) \in q.held
          /\ \A i \in q.at.tags : Named(i) /\ KeyShare("tag", i) \in Got(t)

TxSound(t) ==
    /\ LockSound(t) /\ SuggestSound(t) /\ ApproveSound(t) /\ ItemSound(t)
    /\ TagSound(t) /\ WriteSound(t)

Exclusive ==
    \A t \in Tx : \A w \in Tx \ {t} : \A h \in tx[t].held : ~HeldAgainst(w, h)

Counted ==
    /\ begun \in 0 .. MaxRequests
    /\ IsFiniteSet(Active) /\ Cardinality(Active) <= begun

(* The inductive invariant. *)
Sound ==
    /\ Typed /\ KeysSound /\ SnapshotCurrent
    /\ tx = [t \in Tx |-> tx[t]]
    /\ \A t \in Tx : TxSound(t)
    /\ Drawn /\ Exclusive /\ Counted

-----------------------------------------------------------------------------
(* A finite set of numbers that is not empty has a largest one. *)
LEMMA LargestExists ==
  ASSUME NEW S \in SUBSET Nat, IsFiniteSet(S), S # {}
  PROVE  \E m \in S : \A i \in S : i <= m
<1> DEFINE Above(x) == {y \in S : y > x}
           T == {Above(x) : x \in S}
           R == StrictSubsetOrdering(S)
<1>1. IsWellFoundedOn(R, SUBSET S)
  BY FS_FiniteSubsetsOfFinite, FS_StrictSubsetOrderingWellFounded
<1>2. T \subseteq SUBSET S /\ T # {}  OBVIOUS
<1> HIDE DEF T, R
<1>3. PICK B \in T : \A b \in T : <<b, B>> \notin R  BY <1>1, <1>2, WFMin
<1>4. PICK m \in S : B = Above(m)  BY <1>3 DEF T
<1>5. ASSUME NEW i \in S, ~(i <= m) PROVE FALSE
  <2> DEFINE X == Above(i)
             Y == Above(m)
  <2>1. X \in SUBSET S /\ Y \in SUBSET S /\ X \subseteq Y /\ i \in Y /\ i \notin X
    <3>1. i \in Nat /\ m \in Nat /\ i > m /\ ~(i > i)  BY <1>5
    <3>2. ASSUME NEW y \in S, y > i PROVE y > m  BY <3>1, <3>2
    <3> QED  BY <3>1, <3>2
  <2>2. X \in T  BY <1>5 DEF T
  <2> HIDE DEF X, Y
  <2>3. <<X, Y>> \in R  BY <2>1 DEF R, StrictSubsetOrdering
  <2> QED  BY <1>3, <1>4, <2>2, <2>3 DEF Y
<1> QED  BY <1>5

IsAscending(s) == \A i, j \in DOMAIN s : i < j => s[i] < s[j]

(* A finite set of ids can be listed in ascending order: the largest goes last. *)
LEMMA AscendingExists ==
  ASSUME NEW S \in SUBSET Nat, IsFiniteSet(S)
  PROVE  \E s \in [1 .. Cardinality(S) -> S] : IsAscending(s)
<1> DEFINE T == {X \in SUBSET S : ~ \E s \in [1 .. Cardinality(X) -> X] : IsAscending(s)}
           R == StrictSubsetOrdering(S)
<1> SUFFICES ASSUME T # {} PROVE FALSE  OBVIOUS
<1>1. IsWellFoundedOn(R, SUBSET S)
  BY FS_FiniteSubsetsOfFinite, FS_StrictSubsetOrderingWellFounded
<1>2. T \subseteq SUBSET S  OBVIOUS
<1> HIDE DEF R
<1>3. PICK X \in T : \A Y \in T : <<Y, X>> \notin R
  <2> HIDE DEF T
  <2> QED  BY <1>1, <1>2, WFMin
<1>4. X \in SUBSET S /\ X \in SUBSET Nat /\ IsFiniteSet(X) /\ Cardinality(X) \in Nat
  BY FS_Subset, FS_CardinalityType
<1>5. X # {}
  <2> SUFFICES ASSUME X = {} PROVE FALSE  OBVIOUS
  <2>1. Cardinality(X) = 0  BY FS_EmptySet
  <2>2. 1 .. Cardinality(X) = {}  BY <2>1
  <2> DEFINE s == [i \in {} |-> 0]
  <2>3. s \in [1 .. Cardinality(X) -> X] /\ IsAscending(s)  BY <2>2 DEF IsAscending
  <2> QED  BY <2>3
<1>6. PICK m \in X : \A i \in X : i <= m  BY <1>4, <1>5, LargestExists
<1> DEFINE Y == X \ {m}
           n == Cardinality(X)
<1>7. IsFiniteSet(Y) /\ Cardinality(Y) = n - 1 /\ n - 1 \in Nat
  <2>1. IsFiniteSet(Y) /\ Cardinality(Y) = n - 1  BY <1>4, FS_RemoveElement
  <2>2. Cardinality(Y) \in Nat  BY <2>1, FS_CardinalityType
  <2> QED  BY <2>1, <2>2
<1>8. <<Y, X>> \in R
  <2>1. Y \in SUBSET S /\ Y \subseteq X /\ Y # X  BY <1>4
  <2> HIDE DEF Y
  <2> QED  BY <1>4, <2>1 DEF R, StrictSubsetOrdering
<1>9. PICK s \in [1 .. n - 1 -> Y] : IsAscending(s)
  <2>1. Y \notin T /\ Y \in SUBSET S  BY <1>3, <1>4, <1>8
  <2> QED  BY <1>7, <2>1
<1> DEFINE r == [i \in 1 .. n |-> IF i = n THEN m ELSE s[i]]
<1> HIDE DEF n, Y
<1>10. \A i \in 1 .. n : i # n => i \in 1 .. n - 1  BY <1>4, <1>7 DEF n
<1>11. \A i \in 1 .. n - 1 : s[i] \in X /\ s[i] < m
  <2> SUFFICES ASSUME NEW i \in 1 .. n - 1 PROVE s[i] \in X /\ s[i] < m  OBVIOUS
  <2>1. s[i] \in Y  BY <1>9
  <2>2. s[i] \in X /\ s[i] # m /\ s[i] <= m  BY <1>6, <2>1 DEF Y
  <2>3. s[i] \in Nat /\ m \in Nat  BY <1>4, <2>2
  <2> QED  BY <2>2, <2>3
<1>12. r \in [1 .. n -> X]  BY <1>10, <1>11
<1>13. IsAscending(r)
  <2> SUFFICES ASSUME NEW i \in 1 .. n, NEW j \in 1 .. n, i < j PROVE r[i] < r[j]
    BY DEF IsAscending
  <2>0. n \in Nat /\ i # n  BY <1>4 DEF n
  <2>1. i \in 1 .. n - 1 /\ r[i] = s[i]  BY <1>10, <2>0
  <2>2. CASE j = n  BY <1>11, <2>1, <2>2
  <2>3. CASE j # n
    <3>1. j \in 1 .. n - 1 /\ r[j] = s[j]  BY <1>10, <2>3
    <3> QED  BY <1>9, <2>1, <3>1 DEF IsAscending
  <2> QED  BY <2>2, <2>3
<1> HIDE DEF r
<1> QED  BY <1>3, <1>12, <1>13 DEF n

(* Ascending lists every id once. *)
LEMMA AscendingLists ==
  ASSUME NEW S \in SUBSET Nat, IsFiniteSet(S)
  PROVE  /\ Ascending(S) \in [1 .. Cardinality(S) -> S] /\ IsAscending(Ascending(S))
         /\ \A x \in S : \E i \in 1 .. Cardinality(S) : Ascending(S)[i] = x
         /\ Cardinality(S) \in Nat
<1> DEFINE n == Cardinality(S)
           s == Ascending(S)
<1>1. s \in [1 .. n -> S] /\ IsAscending(s)
  <2>1. \E r \in [1 .. n -> S] : \A i, j \in DOMAIN r : i < j => r[i] < r[j]
    BY AscendingExists DEF IsAscending
  <2>2. s = CHOOSE r \in [1 .. n -> S] : \A i, j \in DOMAIN r : i < j => r[i] < r[j]
    BY DEF Ascending
  <2> HIDE DEF s, n
  <2> QED  BY <2>1, <2>2 DEF IsAscending
<1>2. n \in Nat  BY FS_CardinalityType
<1> HIDE DEF s, n
<1>3. s \in Injection(1 .. n, S)
  <2>1. ASSUME NEW i \in 1 .. n, NEW j \in 1 .. n, s[i] = s[j], i # j PROVE FALSE
    <3>1. s[i] \in Nat /\ s[j] \in Nat  BY <1>1
    <3>2. i < j \/ j < i  BY <2>1
    <3>3. s[i] < s[j] \/ s[j] < s[i]  BY <1>1, <3>2 DEF IsAscending
    <3> QED  BY <2>1, <3>1, <3>3
  <2> QED  BY <1>1, <2>1 DEF Injection, IsInjective
<1>4. IsFiniteSet(1 .. n) /\ Cardinality(1 .. n) = n
  <2>1. 1 \in Int /\ n \in Int  BY <1>2
  <2>2. /\ IsFiniteSet(1 .. n)
        /\ Cardinality(1 .. n) = IF 1 > n THEN 0 ELSE n - 1 + 1
    BY <2>1, FS_Interval
  <2> QED  BY <1>2, <2>2
<1>5. s \in Surjection(1 .. n, S)  BY <1>3, <1>4, FS_Injection DEF n
<1>6. \A x \in S : \E i \in 1 .. n : s[i] = x  BY <1>5 DEF Surjection
<1> QED  BY <1>1, <1>2, <1>6 DEF s, n

(* The plans that lock the rows of a table by their ids. *)
LEMMA PlanLists ==
  ASSUME NEW S \in SUBSET Nat, IsFiniteSet(S), NEW table, \A x \in S : <<table, x>> \in Row
  PROVE  /\ Updates(table, S) \in Seq(Lockable) /\ KeyShares(table, S) \in Seq(Lockable)
         /\ Range(Updates(table, S)) = {Update(table, x) : x \in S}
         /\ Range(KeyShares(table, S)) = {KeyShare(table, x) : x \in S}
<1> DEFINE n == Cardinality(S)
           s == Ascending(S)
<1>1. /\ s \in [1 .. n -> S] /\ n \in Nat
      /\ \A x \in S : \E i \in 1 .. n : s[i] = x
  BY AscendingLists
<1> HIDE DEF n, s
<1>2. \A x \in S : Update(table, x) \in Lockable /\ KeyShare(table, x) \in Lockable
  <2> SUFFICES ASSUME NEW x \in S
               PROVE  Update(table, x) \in Lockable /\ KeyShare(table, x) \in Lockable
    OBVIOUS
  <2>1. <<table, x>> \in Row  OBVIOUS
  <2> QED  BY <2>1 DEF Update, KeyShare, Lockable, Mode
<1>3. /\ Updates(table, S) = [k \in 1 .. n |-> Update(table, s[k])]
      /\ KeyShares(table, S) = [k \in 1 .. n |-> KeyShare(table, s[k])]
  BY DEF Updates, KeyShares, n, s
<1>4. Updates(table, S) \in Seq(Lockable) /\ KeyShares(table, S) \in Seq(Lockable)
  <2>1. \A k \in 1 .. n : Update(table, s[k]) \in Lockable /\ KeyShare(table, s[k]) \in Lockable
    BY <1>1, <1>2
  <2>2. /\ [k \in 1 .. n |-> Update(table, s[k])] \in [1 .. n -> Lockable]
        /\ [k \in 1 .. n |-> KeyShare(table, s[k])] \in [1 .. n -> Lockable]
    BY <2>1, Zenon
  <2>3. \A q \in [1 .. n -> Lockable] : q \in Seq(Lockable)  BY <1>1
  <2> QED  BY <1>3, <2>2, <2>3
<1>5. {Update(table, s[k]) : k \in 1 .. n} = {Update(table, x) : x \in S}  BY <1>1
<1>6. {KeyShare(table, s[k]) : k \in 1 .. n} = {KeyShare(table, x) : x \in S}  BY <1>1
<1>7. Range(Updates(table, S)) = {Update(table, x) : x \in S}
  <2> DEFINE q == Updates(table, S)
  <2>1. DOMAIN q = 1 .. n /\ \A k \in 1 .. n : q[k] = Update(table, s[k])  BY <1>3
  <2> HIDE DEF q
  <2>2. Range(q) = {q[k] : k \in DOMAIN q}  BY DEF Range
  <2>3. {q[k] : k \in DOMAIN q} = {Update(table, s[k]) : k \in 1 .. n}  BY <2>1
  <2> QED  BY <1>5, <2>2, <2>3 DEF q
<1>8. Range(KeyShares(table, S)) = {KeyShare(table, x) : x \in S}
  <2> DEFINE q == KeyShares(table, S)
  <2>1. DOMAIN q = 1 .. n /\ \A k \in 1 .. n : q[k] = KeyShare(table, s[k])  BY <1>3
  <2> HIDE DEF q
  <2>2. Range(q) = {q[k] : k \in DOMAIN q}  BY DEF Range
  <2>3. {q[k] : k \in DOMAIN q} = {KeyShare(table, s[k]) : k \in 1 .. n}  BY <2>1
  <2> QED  BY <1>6, <2>2, <2>3 DEF q
<1> QED  BY <1>4, <1>7, <1>8

-----------------------------------------------------------------------------
(* Rows and ranks. *)
LEMMA Ranks ==
  /\ Rank("sugg") = 1 /\ Rank("tag") = 1 /\ Rank("post") = 2
  /\ Rank("itemKey") = 3 /\ Rank("item") = 4 /\ Rank("tagKey") = 5
<1>1. Rank("sugg") = 1 /\ Rank("tag") = 1  BY DEF Rank
<1>2. Rank("post") = 2  BY DEF Rank
<1>3. Rank("itemKey") = 3  BY DEF Rank
<1>4. Rank("item") = 4  BY DEF Rank
<1>5. Rank("tagKey") = 5  BY DEF Rank
<1> QED  BY <1>1, <1>2, <1>3, <1>4, <1>5

(* The table of a row, and the place of that table in the order. *)
LEMMA RowKinds ==
  ASSUME NEW k \in Row
  PROVE  /\ k[1] \in {"sugg", "tag", "post", "item", "itemKey", "tagKey"}
         /\ Rank(k[1]) \in 1 .. 5
         /\ k[1] \in {"sugg", "tag", "post", "item"} => k[2] \in Nat
         /\ k[1] = "sugg" => k[2] \in Sugg
         /\ Rank(k[1]) < 5 => k[1] # "tagKey"
<1>1. /\ k[1] \in {"sugg", "tag", "post", "item", "itemKey", "tagKey"}
      /\ k[1] \in {"sugg", "tag", "post", "item"} => k[2] \in Nat
      /\ k[1] = "sugg" => k[2] \in Sugg
  BY IdAssumption DEF Row
<1>2. ASSUME NEW x \in {"sugg", "tag", "post", "item", "itemKey", "tagKey"}
      PROVE  Rank(x) \in 1 .. 5 /\ (Rank(x) < 5 => x # "tagKey")
  BY Ranks
<1>3. Rank(k[1]) \in 1 .. 5 /\ (Rank(k[1]) < 5 => k[1] # "tagKey")  BY <1>1, <1>2, Zenon
<1> QED  BY <1>1, <1>3

(* No two rows come before each other. *)
LEMMA BeforeAsymmetric ==
  ASSUME NEW rows, NEW j \in Row, NEW k \in Row, Before(rows, j, k)
  PROVE  ~Before(rows, k, j)
<1>1. /\ Rank(j[1]) \in 1 .. 5 /\ Rank(k[1]) \in 1 .. 5
      /\ j[1] \in {"sugg", "tag", "post", "item"} => j[2] \in Nat
      /\ k[1] \in {"sugg", "tag", "post", "item"} => k[2] \in Nat
  BY RowKinds
<1>2. CASE Rank(j[1]) < Rank(k[1])
  <2>1. ~(Rank(k[1]) < Rank(j[1])) /\ k[1] # j[1]  BY <1>1, <1>2
  <2> QED  BY <2>1 DEF Before
<1>3. CASE j[1] = k[1] /\ j[1] \in {"tag", "post", "item"} /\ j[2] < k[2]
  <2>1. ~(Rank(k[1]) < Rank(j[1])) /\ ~(k[2] < j[2]) /\ j[1] # "sugg"  BY <1>1, <1>3
  <2> QED  BY <2>1 DEF Before
<1>4. CASE /\ j[1] = "sugg" /\ k[1] = "sugg"
           /\ rows[j[2]].kind = "window" /\ rows[k[2]].kind = "canteen"
  <2>1. ~(Rank(k[1]) < Rank(j[1]))  BY <1>1, <1>4
  <2> QED  BY <1>4, <2>1 DEF Before
<1> QED  BY <1>2, <1>3, <1>4 DEF Before

(* The rows of a table are locked in the order of their ids. *)
LEMMA PlanOrder ==
  ASSUME NEW S \in SUBSET Nat, IsFiniteSet(S), NEW table \in {"tag", "post", "item"}, NEW rows
  PROVE  InOrder(rows, {}, Updates(table, S)) /\ InOrder(rows, {}, KeyShares(table, S))
<1> DEFINE n == Cardinality(S)
           s == Ascending(S)
<1>1. s \in [1 .. n -> S] /\ \A i, j \in DOMAIN s : i < j => s[i] < s[j]
  BY AscendingLists DEF IsAscending
<1> HIDE DEF n, s
<1>2. /\ Updates(table, S) = [k \in 1 .. n |-> Update(table, s[k])]
      /\ KeyShares(table, S) = [k \in 1 .. n |-> KeyShare(table, s[k])]
  BY DEF Updates, KeyShares, n, s
<1>3. \A i, j \in 1 .. n : i < j => Before(rows, <<table, s[i]>>, <<table, s[j]>>)
  BY <1>1 DEF Before
<1>4. \A x : Update(table, x)[1] = <<table, x>> /\ KeyShare(table, x)[1] = <<table, x>>
  BY DEF Update, KeyShare
<1>5. \A i, j \in DOMAIN Updates(table, S) :
         i < j => Before(rows, Updates(table, S)[i][1], Updates(table, S)[j][1])
  <2> DEFINE q == Updates(table, S)
  <2>1. DOMAIN q = 1 .. n /\ \A k \in 1 .. n : q[k][1] = <<table, s[k]>>  BY <1>2, <1>4
  <2> HIDE DEF q
  <2>2. ASSUME NEW i \in DOMAIN q, NEW j \in DOMAIN q, i < j PROVE Before(rows, q[i][1], q[j][1])
    <3>1. i \in 1 .. n /\ j \in 1 .. n  BY <2>1
    <3>2. q[i][1] = <<table, s[i]>> /\ q[j][1] = <<table, s[j]>>  BY <2>1, <3>1
    <3>3. Before(rows, <<table, s[i]>>, <<table, s[j]>>)  BY <1>3, <2>2, <3>1
    <3> QED  BY <3>2, <3>3, Zenon
  <2> QED  BY <2>2 DEF q
<1>6. \A i, j \in DOMAIN KeyShares(table, S) :
         i < j => Before(rows, KeyShares(table, S)[i][1], KeyShares(table, S)[j][1])
  <2> DEFINE q == KeyShares(table, S)
  <2>1. DOMAIN q = 1 .. n /\ \A k \in 1 .. n : q[k][1] = <<table, s[k]>>  BY <1>2, <1>4
  <2> HIDE DEF q
  <2>2. ASSUME NEW i \in DOMAIN q, NEW j \in DOMAIN q, i < j PROVE Before(rows, q[i][1], q[j][1])
    <3>1. i \in 1 .. n /\ j \in 1 .. n  BY <2>1
    <3>2. q[i][1] = <<table, s[i]>> /\ q[j][1] = <<table, s[j]>>  BY <2>1, <3>1
    <3>3. Before(rows, <<table, s[i]>>, <<table, s[j]>>)  BY <1>3, <2>2, <3>1
    <3> QED  BY <3>2, <3>3, Zenon
  <2> QED  BY <2>2 DEF q
<1> QED  BY <1>5, <1>6 DEF InOrder

(* What a plan of locks is made of. *)
LEMMA PlanRange ==
  /\ Range(<<>>) = {} /\ Len(<<>>) = 0 /\ <<>> \in Seq(Lockable)
  /\ \A rows, held : InOrder(rows, held, <<>>)
  /\ \A a : Range(<<a>>) = {a} /\ Len(<<a>>) = 1 /\ <<a>> # <<>> /\ <<a>>[1] = a
            /\ DOMAIN <<a>> = {1}
  /\ \A a \in Lockable : <<a>> \in Seq(Lockable)
<1>1. Range(<<>>) = {} /\ Len(<<>>) = 0 /\ <<>> \in Seq(Lockable)  BY DEF Range
<1>2. \A rows, held : InOrder(rows, held, <<>>)  BY DEF InOrder
<1>3. ASSUME NEW a
      PROVE  Range(<<a>>) = {a} /\ Len(<<a>>) = 1 /\ <<a>> # <<>> /\ <<a>>[1] = a /\ DOMAIN <<a>> = {1}
  BY DEF Range
<1>4. \A a \in Lockable : <<a>> \in Seq(Lockable)  OBVIOUS
<1> QED  BY <1>1, <1>2, <1>3, <1>4

(* What a plan has in it can be locked. *)
LEMMA PlanType ==
  ASSUME NEW q \in Seq(Lockable)
  PROVE  /\ Range(q) \subseteq Lockable /\ \A i \in DOMAIN q : q[i] \in Range(q)
         /\ Len(q) > 1 => q # <<>>
  BY DEF Range

(* The first lock of a plan and the rest of it. *)
LEMMA HeadTail ==
  ASSUME NEW q \in Seq(Lockable), q # <<>>
  PROVE  /\ Head(q) \in Lockable /\ Tail(q) \in Seq(Lockable)
         /\ Range(q) = {Head(q)} \cup Range(Tail(q))
         /\ 1 \in DOMAIN q /\ Head(q) = q[1]
         /\ \A i \in DOMAIN Tail(q) : i + 1 \in DOMAIN q /\ Tail(q)[i] = q[i + 1] /\ i \in Nat /\ i > 0
<1>1. Head(q) \in Lockable /\ Tail(q) \in Seq(Lockable) /\ Head(q) = q[1] /\ 1 \in DOMAIN q  OBVIOUS
<1>2. /\ DOMAIN q = 1 .. Len(q) /\ Len(q) \in Nat /\ Len(q) > 0
      /\ DOMAIN Tail(q) = 1 .. Len(q) - 1
      /\ \A i \in 1 .. Len(q) - 1 : Tail(q)[i] = q[i + 1]
  OBVIOUS
<1>3. \A i \in DOMAIN Tail(q) : i + 1 \in DOMAIN q /\ Tail(q)[i] = q[i + 1] /\ i \in Nat /\ i > 0
  BY <1>2
<1>4. \A i \in DOMAIN q : i = 1 \/ (i - 1 \in DOMAIN Tail(q) /\ Tail(q)[i - 1] = q[i])
  BY <1>2
<1>5. Range(q) \subseteq {Head(q)} \cup Range(Tail(q))
  <2> SUFFICES ASSUME NEW i \in DOMAIN q PROVE q[i] \in {Head(q)} \cup Range(Tail(q))
    BY DEF Range
  <2>1. CASE i = 1  BY <1>1, <2>1
  <2>2. CASE i # 1  BY <1>4, <2>2 DEF Range
  <2> QED  BY <2>1, <2>2
<1>6. {Head(q)} \cup Range(Tail(q)) \subseteq Range(q)
  <2>1. Head(q) \in Range(q)  BY <1>1 DEF Range
  <2>2. ASSUME NEW i \in DOMAIN Tail(q) PROVE Tail(q)[i] \in Range(q)  BY <1>3 DEF Range
  <2> QED  BY <2>1, <2>2 DEF Range
<1> QED  BY <1>1, <1>3, <1>5, <1>6

(* An order of locks is kept when the first of them is taken. *)
LEMMA OrderKept ==
  ASSUME NEW rows, NEW held, NEW q \in Seq(Lockable), q # <<>>, InOrder(rows, held, q)
  PROVE  InOrder(rows, held \cup {Head(q)}, Tail(q))
<1>1. /\ 1 \in DOMAIN q /\ Head(q) = q[1]
      /\ \A i \in DOMAIN Tail(q) : i + 1 \in DOMAIN q /\ Tail(q)[i] = q[i + 1] /\ i \in Nat /\ i > 0
  BY HeadTail
<1>2. ASSUME NEW h \in held \cup {Head(q)}, NEW i \in DOMAIN Tail(q)
      PROVE  Before(rows, h[1], Tail(q)[i][1])
  <2>1. i + 1 \in DOMAIN q /\ Tail(q)[i] = q[i + 1] /\ 1 < i + 1  BY <1>1
  <2>2. CASE h \in held  BY <2>1, <2>2 DEF InOrder
  <2>3. CASE h = Head(q)
    <3>1. Before(rows, q[1][1], q[i + 1][1])  BY <1>1, <2>1 DEF InOrder
    <3> QED  BY <1>1, <2>1, <2>3, <3>1
  <2> QED  BY <2>2, <2>3
<1>3. ASSUME NEW i \in DOMAIN Tail(q), NEW j \in DOMAIN Tail(q), i < j
      PROVE  Before(rows, Tail(q)[i][1], Tail(q)[j][1])
  <2>1. /\ i + 1 \in DOMAIN q /\ Tail(q)[i] = q[i + 1] /\ j + 1 \in DOMAIN q /\ Tail(q)[j] = q[j + 1]
        /\ i + 1 < j + 1
    BY <1>1, <1>3
  <2> QED  BY <2>1 DEF InOrder
<1> QED  BY <1>2, <1>3 DEF InOrder

(* A plan whose tables come after what is held. *)
LEMMA OrderAfter ==
  ASSUME NEW rows, NEW held, NEW q, InOrder(rows, {}, q),
         \A h \in held : \A i \in DOMAIN q : Rank(h[1][1]) < Rank(q[i][1][1])
  PROVE  InOrder(rows, held, q)
  BY DEF InOrder, Before

(* The locks the requests plan are locks of rows and keys. *)
LEMMA LockTypes ==
  /\ \A s \in Sugg : Update("sugg", s) \in Lockable /\ LockSuggestionByID(s) \in Seq(Lockable)
  /\ \A i \in Tag : Update("tag", i) \in Lockable
  /\ \A p \in Post : Update("post", p) \in Lockable /\ <<Update("post", p)>> \in Seq(Lockable)
  /\ \A n \in Names : TagKey(n) \in Lockable
<1>1. ASSUME NEW r \in Row PROVE <<r, "update">> \in Lockable  BY DEF Lockable, Mode
<1>2. Tag \subseteq Nat /\ Sugg \subseteq Nat /\ Post \subseteq Nat  BY IdAssumption
<1>3. /\ \A s \in Sugg : <<"sugg", s>> \in Row
      /\ \A i \in Tag : <<"tag", i>> \in Row
      /\ \A p \in Post : <<"post", p>> \in Row
      /\ \A n \in Names : <<"tagKey", n>> \in Row
  BY <1>2 DEF Row
<1> QED  BY <1>1, <1>3, PlanRange DEF Update, TagKey, LockSuggestionByID

(* A row that is locked for update is locked against everybody. *)
LEMMA UpdateConflicts ==
  ASSUME NEW w \in Tx, NEW r, NEW m, <<r, m>> \in tx[w].held
  PROVE  HeldAgainst(w, <<r, "update">>) /\ (m = "update" => \A n : HeldAgainst(w, <<r, n>>))
<1>1. ASSUME NEW n, "update" \in {m, n} PROVE HeldAgainst(w, <<r, n>>)
  <2>1. <<r, m>>[1] = <<r, n>>[1] /\ Conflicts(<<r, m>>[2], <<r, n>>[2])
    BY <1>1 DEF Conflicts
  <2> QED  BY <2>1 DEF HeldAgainst
<1> QED  BY <1>1

(* A request that is not under way. *)
LEMMA IdleRow ==
  /\ IsTx(Idle) /\ Idle.pc = "idle" /\ Idle.op = "idle" /\ Idle.plan = <<>> /\ Idle.held = {}
  BY DEF Idle, IsTx

(* The fields of a request that is written field by field. *)
LEMMA TxFields ==
  ASSUME NEW q, IsTx(q)
  PROVE  DOMAIN q = {"pc", "op", "on", "arg", "at", "plan", "held"}
<1> DEFINE r == [pc |-> q.pc, op |-> q.op, on |-> q.on, arg |-> q.arg, at |-> q.at,
                 plan |-> q.plan, held |-> q.held]
<1>1. q = r  BY DEF IsTx
<1>2. DOMAIN r = {"pc", "op", "on", "arg", "at", "plan", "held"}  OBVIOUS
<1> QED  BY <1>1, <1>2

(* Only the request that takes a step changes. *)
LEMMA TxUpdate ==
  ASSUME Sound, NEW t \in Tx, NEW q, tx' = [tx EXCEPT ![t] = q]
  PROVE  /\ tx' = [w \in Tx |-> tx'[w]] /\ tx'[t] = q /\ \A w \in Tx \ {t} : tx'[w] = tx[w]
<1>1. tx = [w \in Tx |-> tx[w]]  BY Zenon DEF Sound
<1> QED  BY <1>1

-----------------------------------------------------------------------------
(* What a step on the tables leaves as another request has seen it.  An item *)
(* is at most deleted, and not while it is locked; a tag keeps its name      *)
(* while it is locked and no post is given it; a suggestion is reviewed      *)
(* once, and not while it is locked; and no window is added to a canteen     *)
(* that is locked.                                                           *)
Stands(w) ==
    /\ \A i \in Item : item[i].kind # "none" => item'[i].kind \in {item[i].kind, "gone"}
    /\ \A i \in Item : Exists(i) /\ HeldAgainst(w, Update("item", i)) => Exists(i)'
    /\ \A j \in Item : Exists(j)' =>
          \/ Exists(j) /\ item[j].of = item'[j].of
          \/ item'[j].of = None \/ ~HeldAgainst(w, KeyShare("item", item'[j].of))
    /\ \A i \in Tag : Named(i) =>
          /\ Named(i)'
          /\ tag'[i].name = tag[i].name \/ ~HeldAgainst(w, Update("tag", i))
    /\ \A s \in Sugg : sugg[s].st # "none" =>
          /\ sugg'[s].st # "none" /\ sugg'[s].kind = sugg[s].kind
          /\ \/ sugg'[s] = sugg[s]
             \/ sugg[s].st # "approved" /\ ~HeldAgainst(w, Update("sugg", s))
    /\ tx[w].op = "suggest" => sugg'[tx[w].on].st = "none"
    /\ \A p \in Post : Len(hist'[p]) >= Len(hist[p])
    /\ \A p \in Post : \A i \in Tag : i \in post'[p].tags =>
          i \in post[p].tags \/ ~Named(i) \/ ~HeldAgainst(w, KeyShare("tag", i))

(* What a request has locked is locked. *)
LEMMA OwnLocks ==
  ASSUME NEW w \in Tx, NEW table, NEW id
  PROVE  /\ Update(table, id) \in tx[w].held =>
              HeldAgainst(w, Update(table, id)) /\ HeldAgainst(w, KeyShare(table, id))
         /\ KeyShare(table, id) \in tx[w].held => HeldAgainst(w, Update(table, id))
  BY UpdateConflicts, Zenon DEF Update, KeyShare

(* What the invariant says of one request. *)
LEMMA TxParts ==
  ASSUME Sound, NEW t \in Tx
  PROVE  /\ LockSound(t) /\ SuggestSound(t) /\ ApproveSound(t) /\ ItemSound(t)
         /\ TagSound(t) /\ WriteSound(t)
         /\ tx[t].plan \in Seq(Lockable) /\ tx[t].held \subseteq Lockable
         /\ Range(tx[t].plan) \subseteq Lockable /\ Got(t) \subseteq Lockable /\ IsTx(tx[t])
<1>1. TxSound(t)  BY Zenon DEF Sound
<1>2. /\ LockSound(t) /\ SuggestSound(t) /\ ApproveSound(t) /\ ItemSound(t)
      /\ TagSound(t) /\ WriteSound(t)
  BY <1>1 DEF TxSound
<1>3. tx[t].plan \in Seq(Lockable) /\ tx[t].held \subseteq Lockable /\ IsTx(tx[t])
  BY <1>2, Zenon DEF LockSound
<1>4. Range(tx[t].plan) \subseteq Lockable  BY <1>3, PlanType
<1> QED  BY <1>2, <1>3, <1>4 DEF Got

(* The order of locks does not change under the requests that wait. *)
LEMMA OrderStands ==
  ASSUME Sound, NEW held \in SUBSET Lockable, NEW plan \in Seq(Lockable),
         InOrder(sugg, held, plan),
         \A s \in Sugg : sugg[s].st # "none" => sugg'[s].kind = sugg[s].kind
  PROVE  InOrder(sugg', held, plan)
<1>1. ASSUME NEW s \in Sugg, sugg[s].kind \in {"window", "canteen"}
      PROVE  sugg'[s].kind = sugg[s].kind
  <2>1. sugg[s] # NoSugg  BY <1>1 DEF NoSugg
  <2>2. KeysSound  BY DEF Sound
  <2> QED  BY <2>1, <2>2 DEF KeysSound
<1>2. ASSUME NEW j \in Row, NEW k \in Row, Before(sugg, j, k) PROVE Before(sugg', j, k)
  <2>1. (j[1] = "sugg" => j[2] \in Sugg) /\ (k[1] = "sugg" => k[2] \in Sugg)  BY RowKinds
  <2> QED  BY <1>1, <1>2, <2>1 DEF Before
<1>3. /\ \A i \in DOMAIN plan : plan[i][1] \in Row
      /\ \A h \in held : h[1] \in Row
  BY DEF Lockable
<1> QED  BY <1>2, <1>3 DEF InOrder

(* What a request relies on stands. *)
LEMMA OthersStand ==
  ASSUME Sound, NEW w \in Tx, tx'[w] = tx[w], Typed', Stands(w)
  PROVE  TxSound(w)'
<1> DEFINE q == tx[w]
<1>0. /\ LockSound(w) /\ SuggestSound(w) /\ ApproveSound(w) /\ ItemSound(w)
      /\ TagSound(w) /\ WriteSound(w)
      /\ q.plan \in Seq(Lockable) /\ q.held \subseteq Lockable /\ Typed /\ KeysSound
  BY TxParts DEF Sound
<1>1. Got(w)' = Got(w)  BY DEF Got
<1>2. \A s \in Sugg : sugg[s].st # "none" =>
         sugg'[s].st # "none" /\ sugg'[s].kind = sugg[s].kind
  BY DEF Stands
<1>3. LockSound(w)'
  <2>1. Orderly(w)' <=> Orderly(w)  BY DEF Orderly
  <2>2. Orderly(w) => InOrder(sugg, q.held, q.plan)  BY <1>0 DEF LockSound
  <2>3. Orderly(w) => InOrder(sugg', q.held, q.plan)
    <3> DEFINE h == q.held
               p == q.plan
    <3>1. h \in SUBSET Lockable /\ p \in Seq(Lockable)  BY <1>0
    <3> HIDE DEF h, p
    <3>2. InOrder(sugg, h, p) => InOrder(sugg', h, p)  BY <1>2, <3>1, OrderStands
    <3> QED  BY <2>2, <3>2 DEF h, p
  <2> QED  BY <1>0, <2>1, <2>3 DEF LockSound
<1>4. SuggestSound(w)'
  <2>1. tx[w].op = "suggest" => sugg'[tx[w].on].st = "none"  BY DEF Stands
  <2>2. tx[w].op = "suggest" /\ tx[w].arg.parent # None => tx[w].arg.parent \in Sugg
    BY <1>0 DEF SuggestSound, SuggRow
  <2> QED  BY <1>0, <1>2, <2>1, <2>2 DEF SuggestSound
<1>5. ApproveSound(w)'
  <2> SUFFICES ASSUME q.op = "approve" PROVE ApproveSound(w)'  BY DEF ApproveSound
  <2>1. q.on \in Sugg /\ sugg[q.on].st # "none"  BY <1>0 DEF ApproveSound
  <2>2. ASSUME q.pc # "body" PROVE sugg'[q.on] = sugg[q.on]
    <3>1. HeldAgainst(w, Update("sugg", q.on))  BY <1>0, <2>2, OwnLocks DEF ApproveSound
    <3> QED  BY <2>1, <3>1 DEF Stands
  <2>3. ASSUME q.pc \in {"source", "item", "commit"}
        PROVE  /\ CanteenSound(q.on)'
               /\ sugg[q.on].kind = "window" => ParentCanteen(tx[w].on)' = ParentCanteen(q.on)
    <3> DEFINE s == q.on
    <3>1. CanteenSound(s) /\ sugg'[s] = sugg[s] /\ s \in Sugg  BY <1>0, <2>1, <2>2, <2>3 DEF ApproveSound
    <3> SUFFICES ASSUME sugg[s].kind = "window"
                 PROVE  /\ sugg[s].parent # None => sugg'[sugg[s].parent].st = "approved"
                        /\ ParentCanteen(s)' \in Item
                        /\ item'[ParentCanteen(s)'].kind \in {"canteen", "gone"}
                        /\ ParentCanteen(s)' = ParentCanteen(s)
      BY <3>1 DEF CanteenSound
    <3>2. sugg[s].parent # None => sugg'[sugg[s].parent] = sugg[sugg[s].parent]
      <4>1. sugg[s].parent # None =>
              sugg[s].parent \in Sugg /\ sugg[sugg[s].parent].st = "approved"
        BY <1>0, <3>1 DEF CanteenSound, Typed, SuggRow
      <4> QED  BY <4>1 DEF Stands
    <3>3. ParentCanteen(s)' = ParentCanteen(s)  BY <3>1, <3>2 DEF ParentCanteen
    <3>4. ParentCanteen(s) \in Item /\ item[ParentCanteen(s)].kind \in {"canteen", "gone"}
      BY <3>1 DEF CanteenSound
    <3>5. item'[ParentCanteen(s)].kind \in {"canteen", "gone"}  BY <3>4 DEF Stands
    <3>6. sugg[s].parent # None => sugg'[sugg[s].parent].st = "approved"
      BY <3>1, <3>2 DEF CanteenSound
    <3> QED  BY <3>3, <3>4, <3>5, <3>6
  <2>4. sugg'[q.on].st # "none"  BY <1>2, <2>1
  <2> QED  BY <1>0, <1>1, <2>1, <2>2, <2>3, <2>4 DEF ApproveSound
<1>6. TagSound(w)'
  <2> SUFFICES ASSUME q.op \in {"rename", "merge"} PROVE TagSound(w)'  BY DEF TagSound
  <2>1. TagSound(w) /\ q.on \in Tag /\ Named(q.on) /\ (q.op = "merge" => q.arg \in Tag /\ Named(q.arg))
    BY <1>0, Zenon DEF TagSound
  <2>2. tag'[q.on].name # None /\ (q.op = "merge" => tag'[q.arg].name # None)
    BY <2>1 DEF Stands, Named
  <2>3. ASSUME q.pc # "body"
        PROVE  /\ {p \in Post : q.on \in post'[p].tags} \subseteq q.at
               /\ tag'[q.on].name = tag[q.on].name
    <3>1. Update("tag", q.on) \in q.held /\ FindTagPostIDs(q.on) \subseteq q.at
      <4> DEFINE tags == IF q.op = "merge" THEN {q.on, q.arg} ELSE {q.on}
      <4>1. q.on \in tags  OBVIOUS
      <4> QED  BY <1>0, <2>3, <4>1, Zenon DEF TagSound
    <3>2. HeldAgainst(w, Update("tag", q.on)) /\ HeldAgainst(w, KeyShare("tag", q.on))
      BY <3>1, OwnLocks
    <3>3. \A p \in Post : q.on \in post'[p].tags => q.on \in post[p].tags
      BY <2>1, <3>2 DEF Stands
    <3>4. tag'[q.on].name = tag[q.on].name  BY <2>1, <3>2 DEF Stands
    <3> QED  BY <3>1, <3>3, <3>4 DEF FindTagPostIDs
  <2>4. q.pc # "body" => FindTagPostIDs(tx[w].on)' \subseteq q.at
    BY <2>3 DEF FindTagPostIDs
  <2>5. q.pc # "body" /\ NamesSound(w) => NamesSound(w)'
    BY <2>3 DEF NamesSound, Within
  <2>6. Named(tx[w].on)' /\ (q.op = "merge" => Named(tx[w].arg)')  BY <2>2 DEF Named
  <2> QED  BY <1>1, <2>1, <2>4, <2>5, <2>6 DEF TagSound, Within
<1>7. WriteSound(w)'
  <2> SUFFICES ASSUME q.op \in PostWrites PROVE WriteSound(w)'  BY DEF WriteSound
  <2>1. q.op = "restoreHistory" => q.arg \in 1 .. Len(hist'[q.on])
    <3>1. q.on \in Post /\ hist[q.on] \in Seq(Snapshot)  BY <1>0 DEF WriteSound, Typed
    <3>2. Len(hist'[q.on]) >= Len(hist[q.on])  BY <3>1 DEF Stands
    <3> DEFINE n == Len(hist[q.on])
               m == Len(hist'[q.on])
    <3>3. n \in Nat /\ (q.op = "restoreHistory" => q.arg \in 1 .. n)  BY <1>0, <3>1 DEF WriteSound
    <3>4. m >= n /\ m \in Nat
      <4>1. hist'[q.on] \in Seq(Snapshot)  BY <3>1 DEF Typed
      <4> QED  BY <3>2, <4>1
    <3>5. Len(hist'[q.on]) = m  OBVIOUS
    <3> HIDE DEF n, m
    <3> QED  BY <3>3, <3>4, <3>5
  <2>2. ASSUME q.pc = "commit"
        PROVE  /\ \A i \in q.at.words : Exists(i)'
               /\ \A i \in q.at.tags : Named(i)'
    <3>1. /\ \A i \in q.at.words : i \in Item /\ Exists(i) /\ HeldAgainst(w, Update("item", i))
          /\ \A i \in q.at.tags : i \in Tag /\ Named(i)
      BY <1>0, <2>2, OwnLocks DEF WriteSound
    <3> QED  BY <3>1 DEF Stands
  <2> QED  BY <1>0, <1>1, <2>1, <2>2 DEF WriteSound
<1>8. ItemSound(w)'
  <2> SUFFICES ASSUME q.op \in {"renameItem", "deleteItem"} PROVE ItemSound(w)'  BY DEF ItemSound
  <2>1. q.on \in Item /\ q.on # None  BY <1>0, NoneAssumption DEF ItemSound
  <2>2. ASSUME q.pc # "body"
        PROVE  Exists(tx[w].on)' /\ \A j \in Item : j \in Doomed(tx[w].on)' => j \in Doomed(q.on)
    <3>1. /\ Exists(q.on) /\ HeldAgainst(w, Update("item", q.on))
          /\ HeldAgainst(w, KeyShare("item", q.on))
      BY <1>0, <2>2, OwnLocks DEF ItemSound
    <3>2. Exists(tx[w].on)'  BY <2>1, <3>1 DEF Stands, Exists
    <3>3. ASSUME NEW j \in Item, Exists(j)', item'[j].of = q.on PROVE Exists(j) /\ item[j].of = q.on
      BY <2>1, <3>1, <3>3 DEF Stands
    <3>4. \A j \in Item : j \in Doomed(tx[w].on)' => j = q.on \/ (Exists(j)' /\ item'[j].of = q.on)
      BY DEF Doomed, Exists
    <3> QED  BY <3>2, <3>3, <3>4 DEF Doomed
  <2>3. \A j \in Doomed(tx[w].on)' : j \in Item  BY DEF Doomed
  <2> QED  BY <1>0, <1>1, <2>1, <2>2, <2>3 DEF ItemSound
<1> QED  BY <1>3, <1>4, <1>5, <1>6, <1>7, <1>8 DEF TxSound

-----------------------------------------------------------------------------
(* begun counts the requests under way. *)
LEMMA BeginCounts ==
  ASSUME Counted, NEW t \in Tx, begun < MaxRequests, begun' = begun + 1,
         Active' \subseteq Active \cup {t}
  PROVE  Counted'
<1>1. IsFiniteSet(Active) /\ Cardinality(Active) \in Nat  BY FS_CardinalityType DEF Counted
<1>2. /\ IsFiniteSet(Active \cup {t})
      /\ \/ Cardinality(Active \cup {t}) = Cardinality(Active)
         \/ Cardinality(Active \cup {t}) = Cardinality(Active) + 1
  BY <1>1, FS_AddElement
<1>3. IsFiniteSet(Active') /\ Cardinality(Active') <= Cardinality(Active \cup {t})
  BY <1>2, FS_Subset
<1>4. Cardinality(Active') \in Nat  BY <1>3, FS_CardinalityType
<1>5. Cardinality(Active') <= Cardinality(Active) + 1  BY <1>1, <1>2, <1>3, <1>4
<1>6. begun \in 0 .. MaxRequests /\ Cardinality(Active) <= begun  BY DEF Counted
<1>7. begun' \in 0 .. MaxRequests /\ Cardinality(Active') <= begun'
  BY <1>1, <1>4, <1>5, <1>6, BoundAssumption
<1> QED  BY <1>3, <1>7 DEF Counted

(* A request that ends is counted at most until then. *)
LEMMA EndCounts ==
  ASSUME Counted, NEW t \in Active, begun' \in {begun, begun - 1}, Active' \subseteq Active \ {t}
  PROVE  Counted'
<1>1. IsFiniteSet(Active) /\ Cardinality(Active) \in Nat  BY FS_CardinalityType DEF Counted
<1>2. IsFiniteSet(Active \ {t}) /\ Cardinality(Active \ {t}) = Cardinality(Active) - 1
  BY <1>1, FS_RemoveElement
<1>3. IsFiniteSet(Active') /\ Cardinality(Active') <= Cardinality(Active) - 1  BY <1>2, FS_Subset
<1>4. Cardinality(Active') \in Nat  BY <1>3, FS_CardinalityType
<1>5. begun \in 0 .. MaxRequests /\ Cardinality(Active) <= begun  BY DEF Counted
<1>6. begun' \in 0 .. MaxRequests /\ Cardinality(Active') <= begun'
  BY <1>1, <1>3, <1>4, <1>5, BoundAssumption
<1> QED  BY <1>3, <1>6 DEF Counted

-----------------------------------------------------------------------------
(* The tables nobody writes. *)
Tables == <<item, sugg, tag, post, hist, text>>

(* As long as no table is written, the others keep what they rely on. *)
LEMMA TablesStand ==
  ASSUME Sound, UNCHANGED Tables
  PROVE  /\ Typed' /\ KeysSound' /\ SnapshotCurrent'
         /\ \A w \in Tx : tx'[w] = tx[w] => TxSound(w)'
<1>1. /\ item' = item /\ sugg' = sugg /\ tag' = tag /\ post' = post /\ hist' = hist /\ text' = text
  BY DEF Tables
<1>2. Typed'  BY <1>1 DEF Sound, Typed
<1>3. KeysSound'
  BY <1>1 DEF Sound, KeysSound, Titled, Referenced, Exists, Of, Named
<1>4. SnapshotCurrent'
  BY <1>1 DEF Sound, SnapshotCurrent, LoadSnapshotRelations
<1>5. ASSUME NEW w \in Tx, tx'[w] = tx[w] PROVE TxSound(w)'
  <2>1. tx[w].op = "suggest" => sugg'[tx[w].on].st = "none"
    BY <1>1, TxParts DEF SuggestSound
  <2>2. \A p \in Post : Len(hist'[p]) >= Len(hist[p])
    <3>1. \A p \in Post : Len(hist[p]) \in Nat  BY DEF Sound, Typed
    <3> QED  BY <1>1, <3>1
  <2>3. Stands(w)  BY <1>1, <2>1, <2>2 DEF Stands, Exists, Named
  <2> QED  BY <1>2, <1>5, <2>3, OthersStand
<1> QED  BY <1>2, <1>3, <1>4, <1>5

(* A step of one request that changes no table. *)
LEMMA RequestStep ==
  ASSUME Sound, NEW t \in Tx, NEW q, tx' = [tx EXCEPT ![t] = q],
         \A w \in Tx \ {t} : \A h \in q.held : ~HeldAgainst(w, h),
         UNCHANGED Tables, Counted',
         \A w \in Tx \ {t} : q.op = "suggest" /\ tx[w].op = "suggest" => q.on # tx[w].on,
         TxSound(t)'
  PROVE  Sound'
<1>0. tx' = [w \in Tx |-> tx'[w]] /\ tx'[t] = q /\ \A w \in Tx \ {t} : tx'[w] = tx[w]
  BY TxUpdate
<1>1. Typed' /\ KeysSound' /\ SnapshotCurrent'  BY TablesStand
<1>2. Exclusive'
  <2> SUFFICES ASSUME NEW v \in Tx, NEW w \in Tx \ {v}, NEW h \in tx'[v].held PROVE ~HeldAgainst(w, h)'
    BY DEF Exclusive
  <2>0. Exclusive  BY DEF Sound
  <2>1. CASE v = t  BY <1>0, <2>1 DEF HeldAgainst
  <2>2. CASE v # t /\ w # t  BY <1>0, <2>0, <2>2 DEF Exclusive, HeldAgainst
  <2>3. CASE w = t
    <3>1. tx'[v] = tx[v] /\ v \in Tx \ {t}  BY <1>0, <2>3
    <3>2. ASSUME NEW g \in tx'[t].held PROVE ~(g[1] = h[1] /\ Conflicts(g[2], h[2]))
      <4>1. ~HeldAgainst(v, g)  BY <1>0, <3>1
      <4> QED  BY <3>1, <4>1 DEF HeldAgainst, Conflicts
    <3> QED  BY <2>3, <3>2 DEF HeldAgainst
  <2> QED  BY <2>1, <2>2, <2>3
<1>3. \A w \in Tx : TxSound(w)'
  <2> SUFFICES ASSUME NEW w \in Tx PROVE TxSound(w)'  OBVIOUS
  <2>1. CASE w = t  BY <2>1
  <2>2. CASE w # t
    <3>1. tx'[w] = tx[w]  BY <1>0, <2>2
    <3> QED  BY <3>1, TablesStand
  <2> QED  BY <2>1, <2>2
<1>4. Drawn'
  <2> SUFFICES ASSUME NEW v \in Tx, NEW w \in Tx \ {v}, tx'[v].op = "suggest", tx'[w].op = "suggest"
               PROVE  tx'[v].on # tx'[w].on
    BY DEF Drawn
  <2>1. CASE v = t  BY <1>0, <2>1
  <2>2. CASE w = t  BY <1>0, <2>2
  <2>3. CASE v # t /\ w # t  BY <1>0, <2>3 DEF Sound, Drawn
  <2> QED  BY <2>1, <2>2, <2>3
<1> QED  BY <1>0, <1>1, <1>2, <1>3, <1>4 DEF Sound

(* A request that goes on with the tables as they are. *)
LEMMA OnwardStep ==
  ASSUME Sound, NEW t \in Tx, NEW q, tx' = [tx EXCEPT ![t] = q],
         UNCHANGED Tables, UNCHANGED begun,
         \A w \in Tx \ {t} : \A h \in q.held : ~HeldAgainst(w, h),
         tx[t].pc # "idle", q.pc # "idle", q.op = tx[t].op, q.on = tx[t].on,
         TxSound(t)'
  PROVE  Sound'
<1>0. tx'[t] = q /\ \A w \in Tx \ {t} : tx'[w] = tx[w]  BY TxUpdate
<1>1. Active' = Active  BY <1>0 DEF Active
<1>2. Counted'  BY <1>1 DEF Sound, Counted
<1>3. \A w \in Tx \ {t} : q.op = "suggest" /\ tx[w].op = "suggest" => q.on # tx[w].on
  BY DEF Sound, Drawn
<1> QED  BY <1>2, <1>3, RequestStep

(* A request is rolled back. *)
LEMMA RollbackStep == ASSUME Sound, NEW t \in Tx, Rollback(t) PROVE Sound'
<1>1. tx' = [tx EXCEPT ![t] = Idle] /\ UNCHANGED Tables /\ begun' = begun - 1 /\ tx[t].pc # "idle"
  BY DEF Rollback, Tables
<1>2. tx'[t] = Idle /\ \A w \in Tx \ {t} : tx'[w] = tx[w]  BY <1>1, TxUpdate
<1>3. t \in Active /\ Active' \subseteq Active \ {t}  BY <1>1, <1>2, IdleRow DEF Active
<1>4. Counted'  BY <1>1, <1>3, EndCounts DEF Sound
<1>5. TxSound(t)'
  BY <1>2, IdleRow, PlanRange
     DEF TxSound, LockSound, SuggestSound, ApproveSound, ItemSound, TagSound, WriteSound, PostWrites,
         Orderly
<1>6. \A w \in Tx \ {t} : \A h \in Idle.held : ~HeldAgainst(w, h)  BY IdleRow
<1>7. \A w \in Tx \ {t} : Idle.op = "suggest" /\ tx[w].op = "suggest" => Idle.on # tx[w].on
  BY IdleRow
<1> QED  BY <1>1, <1>4, <1>5, <1>6, <1>7, RequestStep

(* A request of one statement, which leaves the others what they rely on. *)
LEMMA AtOnceStep ==
  ASSUME Sound, AtOnce, Typed', KeysSound', SnapshotCurrent', \A w \in Tx : Stands(w)
  PROVE  Sound'
<1>1. tx' = tx /\ begun' = begun + 1 /\ begun < MaxRequests  BY DEF AtOnce
<1>2. \A w \in Tx : TxSound(w)'  BY <1>1, OthersStand
<1>3. Drawn' /\ Exclusive'  BY <1>1 DEF Sound, Drawn, Exclusive, HeldAgainst
<1>4. Counted'
  <2>1. Counted /\ Active' = Active  BY <1>1 DEF Sound, Active
  <2>2. begun \in 0 .. MaxRequests /\ IsFiniteSet(Active) /\ Cardinality(Active) <= begun
    BY <2>1 DEF Counted
  <2>3. Cardinality(Active) \in Nat  BY <2>2, FS_CardinalityType
  <2>4. begun' \in 0 .. MaxRequests /\ Cardinality(Active) <= begun'
    BY <1>1, <2>2, <2>3, BoundAssumption
  <2> QED  BY <2>1, <2>2, <2>4 DEF Counted
<1>5. tx' = [t \in Tx |-> tx'[t]]  BY <1>1 DEF Sound
<1> QED  BY <1>2, <1>3, <1>4, <1>5 DEF Sound

(* A request commits. *)
LEMMA CommitStep ==
  ASSUME Sound, NEW t \in Tx, tx[t].pc # "idle", Committed(t),
         Typed', KeysSound', SnapshotCurrent', \A w \in Tx \ {t} : Stands(w)
  PROVE  Sound'
<1>1. tx' = [tx EXCEPT ![t] = Idle] /\ begun' = begun  BY DEF Committed
<1>2. tx' = [w \in Tx |-> tx'[w]] /\ tx'[t] = Idle /\ \A w \in Tx \ {t} : tx'[w] = tx[w]
  BY <1>1, TxUpdate
<1>3. t \in Active /\ Active' \subseteq Active \ {t}  BY <1>2, IdleRow DEF Active
<1>4. Counted'  BY <1>1, <1>3, EndCounts DEF Sound
<1>5. TxSound(t)'
  BY <1>2, IdleRow, PlanRange
     DEF TxSound, LockSound, SuggestSound, ApproveSound, ItemSound, TagSound, WriteSound, PostWrites,
         Orderly
<1>6. \A w \in Tx \ {t} : TxSound(w)'  BY <1>2, OthersStand
<1>7. Exclusive'
  <2> SUFFICES ASSUME NEW v \in Tx, NEW w \in Tx \ {v}, NEW h \in tx'[v].held PROVE ~HeldAgainst(w, h)'
    BY DEF Exclusive
  <2>1. v # t  BY <1>2, IdleRow
  <2>2. CASE w = t  BY <1>2, <2>2, IdleRow DEF HeldAgainst
  <2>3. CASE w # t  BY <1>2, <2>1, <2>3 DEF Sound, Exclusive, HeldAgainst
  <2> QED  BY <2>2, <2>3
<1>8. Drawn'  BY <1>2, IdleRow DEF Sound, Drawn
<1>9. \A w \in Tx : TxSound(w)'  BY <1>5, <1>6
<1> QED  BY <1>2, <1>4, <1>7, <1>8, <1>9 DEF Sound

-----------------------------------------------------------------------------
(* A request whose fields are rewritten. *)
LEMMA TxTakes ==
  ASSUME NEW r, IsTx(r), NEW plan, NEW held, NEW q,
         q = [r EXCEPT !.held = held, !.plan = plan]
  PROVE  q = [pc |-> r.pc, op |-> r.op, on |-> r.on, arg |-> r.arg, at |-> r.at, plan |-> plan, held |-> held]
<1> DEFINE e == [pc |-> r.pc, op |-> r.op, on |-> r.on, arg |-> r.arg, at |-> r.at,
                 plan |-> r.plan, held |-> r.held]
<1>1. r = e  BY DEF IsTx
<1>2. q = [e EXCEPT !.held = held, !.plan = plan]  BY <1>1
<1> QED  BY <1>2

(* A request that goes on, with the locks of its next statements. *)
LEMMA TxGoesOn ==
  ASSUME NEW r, IsTx(r), NEW pc, NEW at, NEW plan, NEW held, NEW q,
         q = [r EXCEPT !.pc = pc, !.at = at, !.held = held, !.plan = plan]
  PROVE  q = [pc |-> pc, op |-> r.op, on |-> r.on, arg |-> r.arg, at |-> at, plan |-> plan, held |-> held]
<1> DEFINE e == [pc |-> r.pc, op |-> r.op, on |-> r.on, arg |-> r.arg, at |-> r.at,
                 plan |-> r.plan, held |-> r.held]
<1>1. r = e  BY DEF IsTx
<1>2. q = [e EXCEPT !.pc = pc, !.at = at, !.held = held, !.plan = plan]  BY <1>1
<1> QED  BY <1>2

(* A submission that has resolved its parent. *)
LEMMA TxPlans ==
  ASSUME NEW r, IsTx(r), NEW pc, NEW arg, NEW plan, NEW q,
         q = [r EXCEPT !.pc = pc, !.arg = arg, !.plan = plan]
  PROVE  q = [pc |-> pc, op |-> r.op, on |-> r.on, arg |-> arg, at |-> r.at, plan |-> plan, held |-> r.held]
<1> DEFINE e == [pc |-> r.pc, op |-> r.op, on |-> r.on, arg |-> r.arg, at |-> r.at,
                 plan |-> r.plan, held |-> r.held]
<1>1. r = e  BY DEF IsTx
<1>2. q = [e EXCEPT !.pc = pc, !.arg = arg, !.plan = plan]  BY <1>1
<1> QED  BY <1>2

(* The fields of a request. *)
LEMMA TxOf ==
  ASSUME NEW pc, NEW op, NEW on, NEW arg, NEW at, NEW plan, NEW held, NEW q,
         q = [pc |-> pc, op |-> op, on |-> on, arg |-> arg, at |-> at, plan |-> plan, held |-> held]
  PROVE  /\ IsTx(q) /\ q.pc = pc /\ q.op = op /\ q.on = on /\ q.arg = arg /\ q.at = at
         /\ q.plan = plan /\ q.held = held
  BY DEF IsTx

-----------------------------------------------------------------------------
(* The locks of a plan that nothing blocks, with the ones already held. *)
LEMMA GotFree ==
  ASSUME Sound, NEW t \in Tx, Ready(t), NEW w \in Tx \ {t}, NEW h \in Got(t)
  PROVE  ~HeldAgainst(w, h)
<1>1. h \in tx[t].held \/ h \in Range(tx[t].plan)  BY DEF Got
<1>2. CASE h \in tx[t].held  BY <1>2 DEF Sound, Exclusive
<1>3. CASE h \in Range(tx[t].plan)  BY <1>3 DEF Ready, Blocked
<1> QED  BY <1>1, <1>2, <1>3

(* What a request relies on does not depend on which of its locks it has     *)
(* taken, except for the ones it has to have before it goes on.              *)
LEMMA LockSteps == ASSUME Sound, NEW t \in Tx, Lock(t) PROVE Sound'
<1> DEFINE p == tx[t].plan
           held == tx[t].held \cup {Head(p)}
           rest == Tail(p)
           q == [tx[t] EXCEPT !.held = held, !.plan = rest]
<1>0. /\ LockSound(t) /\ SuggestSound(t) /\ ApproveSound(t) /\ ItemSound(t)
      /\ TagSound(t) /\ WriteSound(t)
      /\ p \in Seq(Lockable) /\ tx[t].held \subseteq Lockable /\ IsTx(tx[t])
  BY TxParts
<1>1. /\ Len(p) > 1 /\ p # <<>> /\ ~Blocked(t, Head(p)) /\ tx' = Locked(t)
      /\ UNCHANGED Tables /\ UNCHANGED begun
  BY <1>0, PlanType DEF Lock, CanLock, Tables
<1>2. tx' = [tx EXCEPT ![t] = q]
  <2>1. tx = [w \in Tx |-> tx[w]]  BY DEF Sound
  <2>2. DOMAIN tx[t] = {"pc", "op", "on", "arg", "at", "plan", "held"}  BY <1>0, TxFields
  <2> QED  BY <1>1, <2>1, <2>2 DEF Locked
<1>3. /\ IsTx(q) /\ q.pc = tx[t].pc /\ q.op = tx[t].op /\ q.on = tx[t].on /\ q.arg = tx[t].arg
      /\ q.at = tx[t].at /\ q.plan = Tail(p) /\ q.held = tx[t].held \cup {Head(p)}
  <2>1. q = [pc |-> tx[t].pc, op |-> tx[t].op, on |-> tx[t].on, arg |-> tx[t].arg, at |-> tx[t].at,
             plan |-> Tail(p), held |-> tx[t].held \cup {Head(p)}]
    <3> DEFINE r == tx[t]
    <3>1. IsTx(r)  BY <1>0
    <3>2. q = [r EXCEPT !.held = held, !.plan = rest]  OBVIOUS
    <3> HIDE DEF r, held, rest, q
    <3>3. q = [pc |-> r.pc, op |-> r.op, on |-> r.on, arg |-> r.arg, at |-> r.at, plan |-> rest, held |-> held]
      BY <3>1, <3>2, TxTakes
    <3> QED  BY <3>3 DEF r, held, rest
  <2> HIDE DEF q, p, held, rest
  <2> QED  BY <2>1, TxOf DEF held, rest
<1> HIDE DEF q
<1>more. Len(p) # 1
  <2>1. p \in Seq(Lockable) /\ Len(p) > 1  BY <1>0, <1>1
  <2> HIDE DEF p
  <2>2. Len(p) \in Nat  BY <2>1
  <2> DEFINE n == Len(p)
  <2>3. n \in Nat /\ n > 1  BY <2>1, <2>2
  <2> HIDE DEF n
  <2>4. n # 1  BY <2>3
  <2> QED  BY <2>4 DEF n
<1>4. tx'[t] = q  BY <1>2, TxUpdate
<1>5. /\ Head(p) \in Lockable /\ Tail(p) \in Seq(Lockable) /\ Range(p) = {Head(p)} \cup Range(Tail(p))
  BY <1>0, <1>1, HeadTail
<1>6. Got(t)' = Got(t)  BY <1>3, <1>4, <1>5 DEF Got
<1>7. \A w \in Tx \ {t} : \A h \in q.held : ~HeldAgainst(w, h)
  <2> SUFFICES ASSUME NEW w \in Tx \ {t}, NEW h \in q.held PROVE ~HeldAgainst(w, h)  OBVIOUS
  <2>1. CASE h \in tx[t].held  BY <2>1 DEF Sound, Exclusive
  <2>2. CASE h = Head(p)  BY <1>1, <2>2 DEF Blocked
  <2> QED  BY <1>3, <2>1, <2>2
<1>8. /\ item' = item /\ sugg' = sugg /\ tag' = tag /\ post' = post /\ hist' = hist
  BY <1>1 DEF Tables
<1>9. LockSound(t)'
  <2>1. Orderly(t)' <=> Orderly(t)  BY <1>3, <1>4 DEF Orderly
  <2>2. Orderly(t) => InOrder(sugg, q.held, q.plan)
    <3>1. Orderly(t) => InOrder(sugg, tx[t].held, p)  BY <1>0 DEF LockSound
    <3> HIDE DEF p
    <3>2. InOrder(sugg, tx[t].held, p) => InOrder(sugg, tx[t].held \cup {Head(p)}, Tail(p))
      BY <1>0, <1>1, OrderKept
    <3> QED  BY <1>3, <3>1, <3>2
  <2>3. tx[t].pc # "idle"  BY <1>0, <1>1 DEF LockSound
  <2> QED  BY <1>0, <1>3, <1>4, <1>5, <1>8, <2>1, <2>2, <2>3 DEF LockSound
<1>10. SuggestSound(t)'  BY <1>0, <1>1, <1>3, <1>4, <1>8 DEF SuggestSound
<1>11. ApproveSound(t)'
  <2> SUFFICES ASSUME tx[t].op = "approve" PROVE ApproveSound(t)'  BY <1>3, <1>4 DEF ApproveSound
  <2>1. tx[t].pc # "body"
    <3>1. \A s : Len(LockSuggestionByID(s)) = 1  BY PlanRange DEF LockSuggestionByID
    <3>2. tx[t].pc = "body" => p = LockSuggestionByID(tx[t].on)  BY <1>0 DEF ApproveSound
    <3> QED  BY <1>more, <3>1, <3>2, Zenon
  <2>2. \A s : ParentCanteen(s)' = ParentCanteen(s)  BY <1>8 DEF ParentCanteen
  <2>3. \A s : CanteenSound(s)' <=> CanteenSound(s)  BY <1>8, <2>2 DEF CanteenSound
  <2> QED  BY <1>0, <1>3, <1>4, <1>6, <1>8, <2>1, <2>2, <2>3 DEF ApproveSound, Within
<1>12. TagSound(t)'
  <2> SUFFICES ASSUME tx[t].op \in {"rename", "merge"} PROVE TagSound(t)'  BY <1>3, <1>4 DEF TagSound
  <2>1. ASSUME NamesSound(t) PROVE NamesSound(t)'
    <3> DEFINE old == TagKey(tag[tx[t].on].name)
               new == TagKey(tx[t].arg)
    <3> HIDE DEF old, new
    <3>1. \/ p = <<old, new>> /\ Within(tx[t].held, 2)
          \/ p = <<new>> /\ Within(tx[t].held \ {old}, 2)
      BY <2>1 DEF NamesSound, old, new
    <3>2. p = <<old, new>> /\ Within(tx[t].held, 2)  
      <4>1. Len(<<new>>) = 1  OBVIOUS
      <4>2. p # <<new>>  BY <1>more, <4>1
      <4> HIDE DEF p
      <4> QED  BY <3>1, <4>2
    <3>3. Head(p) = old /\ Tail(p) = <<new>>  BY <3>2
    <3>4. Within(q.held \ {old}, 2)  BY <1>3, <3>2, <3>3 DEF Within
    <3> QED  BY <1>3, <1>4, <1>8, <3>3, <3>4 DEF NamesSound, old, new
  <2>2. \A i : FindTagPostIDs(i)' = FindTagPostIDs(i) /\ (Named(i)' <=> Named(i))
    BY <1>8 DEF FindTagPostIDs, Named
  <2>3. \A k : k \in tx[t].held => k \in q.held  BY <1>3
  <2>4. TagSound(t)  BY <1>0
  <2> QED  BY <1>3, <1>4, <1>6, <2>1, <2>2, <2>3, <2>4 DEF TagSound, Within
<1>13. WriteSound(t)'
  <2> SUFFICES ASSUME tx[t].op \in PostWrites PROVE WriteSound(t)'  BY <1>3, <1>4 DEF WriteSound
  <2>1. \A i : (Exists(i)' <=> Exists(i)) /\ (Named(i)' <=> Named(i))  BY <1>8 DEF Exists, Named
  <2>2. \A k : k \in tx[t].held => k \in q.held  BY <1>3
  <2> QED  BY <1>0, <1>3, <1>4, <1>6, <1>8, <2>1, <2>2 DEF WriteSound
<1>14. ItemSound(t)'
  <2> SUFFICES ASSUME tx[t].op \in {"renameItem", "deleteItem"} PROVE ItemSound(t)'
    BY <1>3, <1>4 DEF ItemSound
  <2>1. tx[t].pc # "body"
    <3>1. \A k : Len(<<k>>) = 1  OBVIOUS
    <3>2. tx[t].pc = "body" => p = <<Update("item", tx[t].on)>>  BY <1>0 DEF ItemSound
    <3> QED  BY <1>more, <3>1, <3>2, Zenon
  <2>2. \A i : Exists(i)' <=> Exists(i)  BY <1>8 DEF Exists
  <2>3. \A i : Doomed(i)' = Doomed(i)  BY <1>8, <2>2 DEF Doomed
  <2> QED  BY <1>0, <1>3, <1>4, <1>6, <2>1, <2>2, <2>3 DEF ItemSound
<1>15. TxSound(t)'  BY <1>9, <1>10, <1>11, <1>12, <1>13, <1>14 DEF TxSound
<1>16. tx[t].pc # "idle"  BY <1>0, <1>1 DEF LockSound
<1> QED  BY <1>1, <1>2, <1>3, <1>7, <1>15, <1>16, OnwardStep

(* The row of a request that goes on with locks nobody stands in the way of. *)
LEMMA HeldRow ==
  ASSUME Sound, NEW t \in Tx, tx[t].pc # "idle",
         NEW pc, pc # "idle", NEW at, NEW held, NEW plan,
         tx' = [tx EXCEPT ![t].pc = pc, ![t].at = at, ![t].held = held, ![t].plan = plan],
         UNCHANGED <<item, sugg, tag, post, hist, text, begun>>,
         \A w \in Tx \ {t} : \A h \in held : ~HeldAgainst(w, h)
  PROVE  /\ IsTx(tx'[t]) /\ tx'[t].op = tx[t].op /\ tx'[t].on = tx[t].on /\ tx'[t].arg = tx[t].arg
         /\ tx'[t].pc = pc /\ tx'[t].at = at /\ tx'[t].held = held /\ tx'[t].plan = plan
         /\ UNCHANGED Tables
         /\ item' = item /\ sugg' = sugg /\ tag' = tag /\ post' = post /\ hist' = hist
         /\ TxSound(t)' => Sound'
<1> DEFINE q == [tx[t] EXCEPT !.pc = pc, !.at = at, !.held = held, !.plan = plan]
<1>0. IsTx(tx[t])  BY TxParts
<1>1. tx' = [tx EXCEPT ![t] = q] /\ UNCHANGED Tables /\ UNCHANGED begun
  <2>1. tx = [w \in Tx |-> tx[w]]  BY DEF Sound
  <2>2. DOMAIN tx[t] = {"pc", "op", "on", "arg", "at", "plan", "held"}  BY <1>0, TxFields
  <2> QED  BY <2>1, <2>2 DEF Tables
<1>2. /\ IsTx(q) /\ q.pc = pc /\ q.op = tx[t].op /\ q.on = tx[t].on /\ q.arg = tx[t].arg
      /\ q.at = at /\ q.plan = plan /\ q.held = held
  <2>1. q = [pc |-> pc, op |-> tx[t].op, on |-> tx[t].on, arg |-> tx[t].arg, at |-> at,
             plan |-> plan, held |-> held]
    <3> DEFINE r == tx[t]
    <3>1. IsTx(r)  BY <1>0
    <3>2. q = [r EXCEPT !.pc = pc, !.at = at, !.held = held, !.plan = plan]  OBVIOUS
    <3> HIDE DEF r, q
    <3>3. q = [pc |-> pc, op |-> r.op, on |-> r.on, arg |-> r.arg, at |-> at, plan |-> plan, held |-> held]
      BY <3>1, <3>2, TxGoesOn
    <3> QED  BY <3>3 DEF r
  <2> HIDE DEF q
  <2> QED  BY <2>1, TxOf
<1> HIDE DEF q
<1>3. tx'[t] = q  BY <1>1, TxUpdate
<1>4. \A w \in Tx \ {t} : \A h \in q.held : ~HeldAgainst(w, h)  BY <1>2
<1>5. item' = item /\ sugg' = sugg /\ tag' = tag /\ post' = post /\ hist' = hist
  BY <1>1 DEF Tables
<1>6. ASSUME TxSound(t)' PROVE Sound'
  BY <1>1, <1>2, <1>4, <1>6, OnwardStep
<1> QED  BY <1>1, <1>2, <1>3, <1>5, <1>6

(* The row of a request that has all the locks of its plan and goes on. *)
LEMMA GotoRow ==
  ASSUME Sound, NEW t \in Tx, Ready(t), tx[t].pc # "idle",
         NEW pc, pc # "idle", NEW at, NEW plan, Goto(t, pc, at, plan)
  PROVE  /\ IsTx(tx'[t]) /\ tx'[t].op = tx[t].op /\ tx'[t].on = tx[t].on /\ tx'[t].arg = tx[t].arg
         /\ tx'[t].pc = pc /\ tx'[t].at = at /\ tx'[t].held = Got(t) /\ tx'[t].plan = plan
         /\ UNCHANGED Tables
         /\ item' = item /\ sugg' = sugg /\ tag' = tag /\ post' = post /\ hist' = hist
         /\ TxSound(t)' => Sound'
<1> DEFINE held == Got(t)
<1>1. /\ tx' = [tx EXCEPT ![t].pc = pc, ![t].at = at, ![t].held = held, ![t].plan = plan]
      /\ UNCHANGED <<item, sugg, tag, post, hist, text, begun>>
  BY DEF Goto
<1>2. \A w \in Tx \ {t} : \A h \in held : ~HeldAgainst(w, h)  BY GotFree
<1>3. held = Got(t)  OBVIOUS
<1> HIDE DEF held
<1>4. /\ IsTx(tx'[t]) /\ tx'[t].op = tx[t].op /\ tx'[t].on = tx[t].on /\ tx'[t].arg = tx[t].arg
      /\ tx'[t].pc = pc /\ tx'[t].at = at /\ tx'[t].held = held /\ tx'[t].plan = plan
      /\ UNCHANGED Tables
      /\ item' = item /\ sugg' = sugg /\ tag' = tag /\ post' = post /\ hist' = hist
      /\ TxSound(t)' => Sound'
  BY <1>1, <1>2, HeldRow
<1> QED  BY <1>3, <1>4

-----------------------------------------------------------------------------
(* A request that begins. *)
LEMMA BeginStep ==
  ASSUME Sound, NEW t \in Tx, CanBegin(t), NEW op, NEW on, NEW arg, NEW plan, Begin(t, op, on, arg, plan),
         \A w \in Tx \ {t} : op = "suggest" /\ tx[w].op = "suggest" => on # tx[w].on
  PROVE  /\ IsTx(tx'[t]) /\ tx'[t].op = op /\ tx'[t].on = on /\ tx'[t].arg = arg
         /\ tx'[t].pc = "body" /\ tx'[t].at = {} /\ tx'[t].held = {} /\ tx'[t].plan = plan
         /\ Got(t)' = Range(plan)
         /\ item' = item /\ sugg' = sugg /\ tag' = tag /\ post' = post /\ hist' = hist
         /\ TxSound(t)' => Sound'
<1> DEFINE q == [Idle EXCEPT !.pc = "body", !.op = op, !.on = on, !.arg = arg, !.plan = plan]
<1>1. tx' = [tx EXCEPT ![t] = q] /\ UNCHANGED Tables /\ begun' = begun + 1 /\ begun < MaxRequests
  BY DEF Begin, CanBegin, Tables
<1>2. /\ IsTx(q) /\ q.pc = "body" /\ q.op = op /\ q.on = on /\ q.arg = arg
      /\ q.at = {} /\ q.plan = plan /\ q.held = {}
  <2>1. q = [pc |-> "body", op |-> op, on |-> on, arg |-> arg, at |-> {}, plan |-> plan, held |-> {}]
    <3> DEFINE none == None
               free == {}
               empty == <<>>
               body == "body"
               e == [pc |-> "idle", op |-> "idle", on |-> none, arg |-> none, at |-> free,
                     plan |-> empty, held |-> free]
    <3>1. q = [e EXCEPT !.pc = body, !.op = op, !.on = on, !.arg = arg, !.plan = plan]
      BY DEF Idle
    <3> HIDE DEF q, none, free, empty, body
    <3>2. q = [pc |-> body, op |-> op, on |-> on, arg |-> arg, at |-> free, plan |-> plan, held |-> free]
      BY <3>1
    <3> QED  BY <3>2 DEF body, free
  <2> HIDE DEF q
  <2> QED  BY <2>1, TxOf
<1> HIDE DEF q
<1>3. tx'[t] = q /\ \A w \in Tx \ {t} : tx'[w] = tx[w]  BY <1>1, TxUpdate
<1>4. \A w \in Tx \ {t} : \A h \in q.held : ~HeldAgainst(w, h)  BY <1>2
<1>5. item' = item /\ sugg' = sugg /\ tag' = tag /\ post' = post /\ hist' = hist
  BY <1>1 DEF Tables
<1>6. Active' \subseteq Active \cup {t}  BY <1>3 DEF Active
<1>7. Counted'
  <2>1. Counted  BY DEF Sound
  <2> QED  BY <1>1, <1>6, <2>1, BeginCounts
<1>8. \A w \in Tx \ {t} : q.op = "suggest" /\ tx[w].op = "suggest" => q.on # tx[w].on  BY <1>2
<1>9. ASSUME TxSound(t)' PROVE Sound'
  BY <1>1, <1>4, <1>7, <1>8, <1>9, RequestStep
<1>10. Got(t)' = Range(plan)  BY <1>2, <1>3 DEF Got
<1> QED  BY <1>1, <1>2, <1>3, <1>5, <1>9, <1>10

(* The order of the first locks of a request. *)
LEMMA OneInOrder == \A rows, a : InOrder(rows, {}, <<a>>)
<1> SUFFICES ASSUME NEW rows, NEW a PROVE InOrder(rows, {}, <<a>>)  OBVIOUS
<1> DEFINE q == <<a>>
<1>1. DOMAIN q = {1}  BY PlanRange
<1> HIDE DEF q
<1>2. InOrder(rows, {}, q)  BY <1>1 DEF InOrder
<1> QED  BY <1>2 DEF q

(* A suggestion is submitted or reviewed. *)
LEMMA SuggestionRequests ==
  ASSUME Sound, NEW t \in Tx, CanBegin(t), SuggestionRequest(t)
  PROVE  Sound'
<1>0. Typed /\ KeysSound  BY DEF Sound
<1>1. ASSUME NEW row \in Proposal,
             NEW s \in Fresh(Sugg, {s \in Sugg : sugg[s].st # "none"} \cup Taken("suggest")),
             Begin(t, "suggest", s, row, <<>>)
      PROVE  Sound'
  <2>1. s \in Sugg /\ sugg[s].st = "none" /\ s \notin Taken("suggest")  BY DEF Fresh
  <2>2. \A w \in Tx \ {t} : tx[w].op = "suggest" => s # tx[w].on  BY <2>1 DEF Taken
  <2>3. /\ row.st = "pending" /\ row.result = None /\ row.name # None /\ row.canteen \in Item \cup {None}
        /\ row.parent \in Sugg \cup {None}
        /\ row.parent # None => sugg[row.parent].st # "none"
        /\ normalizeSuggestion(row)
    BY NoneAssumption DEF Proposal, Live, Of
  <2>4. row \in SuggRow  BY DEF Proposal, SuggRow, Live, Of
  <2>5. row.parent # None =>
          /\ row.kind = "window"
          /\ sugg[row.parent].st # "none" /\ sugg[row.parent].kind = "canteen"
    BY <2>3 DEF normalizeSuggestion, applySubmittedParentSuggestion
  <2>6. /\ IsTx(tx'[t]) /\ tx'[t].op = "suggest" /\ tx'[t].on = s /\ tx'[t].arg = row
        /\ tx'[t].pc = "body" /\ tx'[t].held = {} /\ tx'[t].plan = <<>>
        /\ sugg' = sugg /\ (TxSound(t)' => Sound')
    BY <1>1, <2>2, BeginStep
  <2>7. TxSound(t)'
    BY <2>1, <2>3, <2>4, <2>5, <2>6, PlanRange
       DEF TxSound, LockSound, SuggestSound, ApproveSound, ItemSound, TagSound, WriteSound, PostWrites
  <2> QED  BY <2>6, <2>7
<1>2. ASSUME NEW s \in {s \in Sugg : sugg[s].st = "pending"}, NEW i \in Suggested(s) \cup {None},
             Begin(t, "approve", s, i, LockSuggestionByID(s))
      PROVE  Sound'
  <2>1. s \in Sugg /\ sugg[s].st = "pending" /\ i \in Item \cup {None}  BY DEF Suggested, Keys, Of
  <2> DEFINE plan == LockSuggestionByID(s)
  <2>2. plan \in Seq(Lockable) /\ InOrder(sugg, {}, plan)
    BY <2>1, LockTypes, OneInOrder DEF LockSuggestionByID
  <2>3. /\ IsTx(tx'[t]) /\ tx'[t].op = "approve" /\ tx'[t].on = s /\ tx'[t].arg = i
        /\ tx'[t].pc = "body" /\ tx'[t].held = {} /\ tx'[t].plan = plan
        /\ sugg' = sugg /\ (TxSound(t)' => Sound')
    BY <1>2, BeginStep
  <2> HIDE DEF plan
  <2>4. LockSound(t)'  BY <2>2, <2>3 DEF LockSound
  <2>5. ApproveSound(t)'  BY <2>1, <2>3 DEF ApproveSound, plan
  <2>6. TxSound(t)'
    BY <2>3, <2>4, <2>5 DEF TxSound, ItemSound, SuggestSound, TagSound, WriteSound, PostWrites
  <2> QED  BY <2>3, <2>6
<1> QED  BY <1>1, <1>2 DEF SuggestionRequest

(* The tags of a rename or merge. *)
LEMMA TagLocks ==
  ASSUME NEW ids, ids \in Seq(Tag), IsFiniteSet(Range(ids)), Range(ids) \subseteq Tag
  PROVE  /\ LockTagsByIDs(ids) \in Seq(Lockable)
         /\ \A rows : InOrder(rows, {}, LockTagsByIDs(ids))
         /\ Range(LockTagsByIDs(ids)) = {Update("tag", i) : i \in Range(ids)}
<1> DEFINE S == Range(ids)
<1>1. S \in SUBSET Nat /\ IsFiniteSet(S) /\ \A x \in S : <<"tag", x>> \in Row
  BY IdAssumption DEF Row
<1> HIDE DEF S
<1>2. /\ Updates("tag", S) \in Seq(Lockable) /\ \A rows : InOrder(rows, {}, Updates("tag", S))
      /\ Range(Updates("tag", S)) = {Update("tag", i) : i \in S}
  BY <1>1, PlanLists, PlanOrder
<1> QED  BY <1>2 DEF LockTagsByIDs, S

(* A tag is renamed or merged. *)
LEMMA TagRequests ==
  ASSUME Sound, NEW t \in Tx, CanBegin(t), TagRequest(t)
  PROVE  Sound'
<1>1. ASSUME NEW op \in {"rename", "merge"}, NEW i \in Tag, Named(i), NEW arg,
             IF op = "merge" THEN arg \in Tag /\ Named(arg) ELSE arg \in Name,
             NEW plan \in Seq(Lockable), Begin(t, op, i, arg, plan),
             \A rows : InOrder(rows, {}, plan),
             Range(plan) = {Update("tag", j) : j \in (IF op = "merge" THEN {i, arg} ELSE {i})}
      PROVE  Sound'
  <2>1. /\ IsTx(tx'[t]) /\ tx'[t].op = op /\ tx'[t].on = i /\ tx'[t].arg = arg
        /\ tx'[t].pc = "body" /\ tx'[t].held = {} /\ tx'[t].plan = plan
        /\ Got(t)' = Range(plan)
        /\ tag' = tag /\ sugg' = sugg /\ (TxSound(t)' => Sound')
    BY <1>1, BeginStep
  <2>2. LockSound(t)'  BY <1>1, <2>1 DEF LockSound
  <2>3. Within(Range(plan), 1)  BY <1>1, Ranks DEF Within, Update
  <2>4. TagSound(t)'
    <3>1. Named(tx[t].on)' /\ (op = "merge" => Named(tx[t].arg)')  BY <1>1, <2>1 DEF Named
    <3>2. Within(Got(t), 1)'  BY <2>1, <2>3 DEF Within
    <3> QED  BY <1>1, <2>1, <3>1, <3>2 DEF TagSound
  <2>5. TxSound(t)'
    BY <2>1, <2>2, <2>4 DEF TxSound, ItemSound, SuggestSound, ApproveSound, WriteSound, PostWrites
  <2> QED  BY <2>1, <2>5
<1>2. ASSUME NEW i \in Tag, Named(i), NEW n \in Name, Begin(t, "rename", i, n, LockTagsByIDs(<<i>>))
      PROVE  Sound'
  <2> DEFINE plan == LockTagsByIDs(<<i>>)
             op == "rename"
  <2>1. <<i>> \in Seq(Tag) /\ Range(<<i>>) = {i}  BY PlanRange
  <2>2. IsFiniteSet({i})  BY FS_Singleton
  <2>3. /\ plan \in Seq(Lockable) /\ \A rows : InOrder(rows, {}, plan)
        /\ Range(plan) = {Update("tag", j) : j \in {i}}
    <3> DEFINE ids == <<i>>
    <3>1. ids \in Seq(Tag) /\ IsFiniteSet(Range(ids)) /\ Range(ids) \subseteq Tag  BY <2>1, <2>2
    <3>2. Range(ids) = {i}  BY <2>1
    <3> HIDE DEF ids
    <3>3. /\ LockTagsByIDs(ids) \in Seq(Lockable) /\ \A rows : InOrder(rows, {}, LockTagsByIDs(ids))
          /\ Range(LockTagsByIDs(ids)) = {Update("tag", j) : j \in {i}}
      BY <3>1, <3>2, TagLocks
    <3> QED  BY <3>3 DEF ids
  <2>4. Begin(t, op, i, n, plan)  BY <1>2
  <2> HIDE DEF plan
  <2>5. Range(plan) = {Update("tag", j) : j \in (IF op = "merge" THEN {i, n} ELSE {i})}  BY <2>3
  <2>6. IF op = "merge" THEN n \in Tag /\ Named(n) ELSE n \in Name  BY <1>2
  <2>7. op \in {"rename", "merge"}  OBVIOUS
  <2> HIDE DEF op
  <2> QED  BY <1>1, <1>2, <2>3, <2>4, <2>5, <2>6, <2>7
<1>3. ASSUME NEW i \in Tag, Named(i), NEW j \in Tag, Named(j),
             Begin(t, "merge", i, j, LockTagsByIDs(<<i, j>>))
      PROVE  Sound'
  <2> DEFINE plan == LockTagsByIDs(<<i, j>>)
             op == "merge"
  <2>1. <<i, j>> \in Seq(Tag) /\ Range(<<i, j>>) = {i, j}  BY DEF Range
  <2>2. IsFiniteSet({i, j})
    <3>1. IsFiniteSet({i})  BY FS_Singleton
    <3>2. {i, j} = {i} \cup {j}  OBVIOUS
    <3> QED  BY <3>1, <3>2, FS_AddElement
  <2>3. /\ plan \in Seq(Lockable) /\ \A rows : InOrder(rows, {}, plan)
        /\ Range(plan) = {Update("tag", k) : k \in {i, j}}
    <3> DEFINE ids == <<i, j>>
    <3>1. ids \in Seq(Tag) /\ IsFiniteSet(Range(ids)) /\ Range(ids) \subseteq Tag  BY <2>1, <2>2
    <3>2. Range(ids) = {i, j}  BY <2>1
    <3> HIDE DEF ids
    <3>3. /\ LockTagsByIDs(ids) \in Seq(Lockable) /\ \A rows : InOrder(rows, {}, LockTagsByIDs(ids))
          /\ Range(LockTagsByIDs(ids)) = {Update("tag", k) : k \in {i, j}}
      BY <3>1, <3>2, TagLocks
    <3> QED  BY <3>3 DEF ids
  <2>4. Begin(t, op, i, j, plan)  BY <1>3
  <2> HIDE DEF plan
  <2>5. Range(plan) = {Update("tag", k) : k \in (IF op = "merge" THEN {i, j} ELSE {i})}  BY <2>3
  <2>6. IF op = "merge" THEN j \in Tag /\ Named(j) ELSE j \in Name  BY <1>3
  <2>7. op \in {"rename", "merge"}  OBVIOUS
  <2> HIDE DEF op
  <2> QED  BY <1>1, <1>3, <2>3, <2>4, <2>5, <2>6, <2>7
<1> QED  BY <1>2, <1>3 DEF TagRequest, Named

(* A post is created, edited, or put back to an old revision. *)
LEMMA PostRequests ==
  ASSUME Sound, NEW t \in Tx, CanBegin(t), PostRequest(t)
  PROVE  Sound'
<1>1. ASSUME NEW op \in PostWrites, NEW p \in Post, NEW arg, NEW plan \in Seq(Lockable),
             Begin(t, op, p, arg, plan),
             IF op = "restoreHistory" THEN arg \in 1 .. Len(hist[p]) ELSE arg \in PayloadRow,
             \A k \in Range(plan) : k[1][1] # "tagKey"
      PROVE  Sound'
  <2>0. op \notin {"idle", "suggest", "approve", "renameItem", "deleteItem", "rename", "merge"}  BY DEF PostWrites
  <2>1. /\ IsTx(tx'[t]) /\ tx'[t].op = op /\ tx'[t].on = p /\ tx'[t].arg = arg
        /\ tx'[t].pc = "body" /\ tx'[t].held = {} /\ tx'[t].plan = plan
        /\ Got(t)' = Range(plan)
        /\ hist' = hist /\ sugg' = sugg /\ (TxSound(t)' => Sound')
    BY <1>1, <2>0, BeginStep
  <2>2. LockSound(t)'  BY <1>1, <2>0, <2>1 DEF LockSound, Orderly
  <2>3. WriteSound(t)'
    <3>1. \A k \in Got(t)' : k[1][1] # "tagKey"  BY <1>1, <2>1
    <3> QED  BY <1>1, <2>1, <3>1 DEF WriteSound
  <2>4. TxSound(t)'
    BY <2>0, <2>1, <2>2, <2>3 DEF TxSound, ItemSound, SuggestSound, ApproveSound, TagSound
  <2> QED  BY <2>1, <2>4
<1>2. Payload \subseteq PayloadRow  BY DEF Payload, PayloadRow
<1>3. ASSUME NEW p \in Post, NEW payload \in Payload, Begin(t, "create", p, payload, <<>>)
      PROVE  Sound'
  <2> DEFINE plan == <<>>
             op == "create"
  <2>1. plan \in Seq(Lockable) /\ \A k \in Range(plan) : k[1][1] # "tagKey"  BY PlanRange
  <2>2. op \in PostWrites /\ op # "restoreHistory"  BY DEF PostWrites
  <2>3. Begin(t, op, p, payload, plan)  BY <1>3
  <2> HIDE DEF plan, op
  <2> QED  BY <1>1, <1>2, <2>1, <2>2, <2>3
<1>4. ASSUME NEW p \in Post
      PROVE  /\ <<Update("post", p)>> \in Seq(Lockable)
             /\ \A k \in Range(<<Update("post", p)>>) : k[1][1] # "tagKey"
  BY LockTypes, PlanRange DEF Update
<1>5. ASSUME NEW p \in Post, NEW payload \in Payload,
             Begin(t, "edit", p, payload, <<Update("post", p)>>)
      PROVE  Sound'
  <2> DEFINE plan == <<Update("post", p)>>
             op == "edit"
  <2>1. plan \in Seq(Lockable) /\ \A k \in Range(plan) : k[1][1] # "tagKey"  BY <1>4
  <2>2. op \in PostWrites /\ op # "restoreHistory"  BY DEF PostWrites
  <2>3. Begin(t, op, p, payload, plan)  BY <1>5
  <2> HIDE DEF plan, op
  <2> QED  BY <1>1, <1>2, <2>1, <2>2, <2>3
<1>6. ASSUME NEW p \in Post, NEW r \in 1 .. Len(hist[p]),
             Begin(t, "restoreHistory", p, r, <<Update("post", p)>>)
      PROVE  Sound'
  <2> DEFINE plan == <<Update("post", p)>>
             op == "restoreHistory"
  <2>1. plan \in Seq(Lockable) /\ \A k \in Range(plan) : k[1][1] # "tagKey"  BY <1>4
  <2>2. op \in PostWrites /\ op = "restoreHistory"  BY DEF PostWrites
  <2>3. Begin(t, op, p, r, plan)  BY <1>6
  <2> HIDE DEF plan, op
  <2> QED  BY <1>1, <2>1, <2>2, <2>3
<1> QED  BY <1>3, <1>5, <1>6 DEF PostRequest, Fresh

-----------------------------------------------------------------------------
(* Plans that follow each other. *)
LEMMA PlansFollow ==
  ASSUME NEW p \in Seq(Lockable), NEW q \in Seq(Lockable), NEW rows
  PROVE  /\ p \o q \in Seq(Lockable) /\ Range(p \o q) = Range(p) \cup Range(q)
         /\ InOrder(rows, {}, p) /\ InOrder(rows, {}, q)
               /\ (\A j \in Range(p), k \in Range(q) : Rank(j[1][1]) < Rank(k[1][1]))
            => InOrder(rows, {}, p \o q)
<1> DEFINE r == p \o q
           m == Len(p)
           n == Len(q)
<1>1. /\ m \in Nat /\ n \in Nat /\ DOMAIN p = 1 .. m /\ DOMAIN q = 1 .. n /\ DOMAIN r = 1 .. m + n
      /\ r \in Seq(Lockable)
  OBVIOUS
<1>2. /\ \A i \in 1 .. m : i \in DOMAIN r /\ r[i] = p[i]
      /\ \A i \in 1 .. n : m + i \in DOMAIN r /\ r[m + i] = q[i]
      /\ \A i \in 1 .. m + n : i \in 1 .. m \/ (i - m \in 1 .. n /\ r[i] = q[i - m])
  OBVIOUS
<1> HIDE DEF r, m, n
<1>3. Range(r) = Range(p) \cup Range(q)
  <2>1. Range(r) \subseteq Range(p) \cup Range(q)
    <3> SUFFICES ASSUME NEW i \in 1 .. m + n PROVE r[i] \in Range(p) \cup Range(q)
      BY <1>1 DEF Range
    <3>1. CASE i \in 1 .. m  BY <1>1, <1>2, <3>1 DEF Range
    <3>2. CASE i - m \in 1 .. n /\ r[i] = q[i - m]  BY <1>1, <3>2 DEF Range
    <3> QED  BY <1>2, <3>1, <3>2
  <2>2. Range(p) \subseteq Range(r)  BY <1>1, <1>2 DEF Range
  <2>3. Range(q) \subseteq Range(r)
    <3> SUFFICES ASSUME NEW i \in 1 .. n PROVE q[i] \in Range(r)  BY <1>1 DEF Range
    <3>1. m + i \in DOMAIN r /\ r[m + i] = q[i]  BY <1>2
    <3> QED  BY <3>1 DEF Range
  <2> QED  BY <2>1, <2>2, <2>3
<1>4. ASSUME InOrder(rows, {}, p), InOrder(rows, {}, q),
             \A j \in Range(p), k \in Range(q) : Rank(j[1][1]) < Rank(k[1][1])
      PROVE  InOrder(rows, {}, r)
  <2> SUFFICES ASSUME NEW i \in 1 .. m + n, NEW j \in 1 .. m + n, i < j
               PROVE  Before(rows, r[i][1], r[j][1])
    BY <1>1 DEF InOrder
  <2>1. CASE i \in 1 .. m /\ j \in 1 .. m
    <3>1. r[i] = p[i] /\ r[j] = p[j]  BY <1>2, <2>1
    <3>2. Before(rows, p[i][1], p[j][1])  BY <1>1, <1>4, <2>1 DEF InOrder
    <3> QED  BY <3>1, <3>2
  <2>2. CASE i \in 1 .. m /\ ~(j \in 1 .. m)
    <3>1. r[i] = p[i] /\ j - m \in 1 .. n /\ r[j] = q[j - m]  BY <1>2, <2>2
    <3>2. p[i] \in Range(p) /\ q[j - m] \in Range(q)  BY <1>1, <2>2, <3>1 DEF Range
    <3>3. Rank(p[i][1][1]) < Rank(q[j - m][1][1])  BY <1>4, <3>2
    <3> QED  BY <3>1, <3>3 DEF Before
  <2>3. CASE ~(i \in 1 .. m)
    <3>1. ~(j \in 1 .. m)  BY <1>1, <2>3
    <3>2. i - m \in 1 .. n /\ r[i] = q[i - m] /\ j - m \in 1 .. n /\ r[j] = q[j - m]
      BY <1>2, <2>3, <3>1
    <3>3. i - m < j - m  BY <1>1
    <3>4. Before(rows, q[i - m][1], q[j - m][1])  BY <1>1, <1>4, <3>2, <3>3 DEF InOrder
    <3> QED  BY <3>2, <3>4
  <2> QED  BY <2>1, <2>2, <2>3
<1> QED  BY <1>1, <1>3, <1>4 DEF r

(* A plan of one table after the tables before it. *)
LEMMA PlanAfter ==
  ASSUME NEW rows, NEW held \in SUBSET Lockable, NEW plan \in Seq(Lockable), InOrder(rows, {}, plan),
         NEW r \in 1 .. 5, Within(held, r), \A k \in Range(plan) : Rank(k[1][1]) > r
  PROVE  InOrder(rows, held, plan)
<1>1. \A h \in held : Rank(h[1][1]) \in 1 .. 5 /\ Rank(h[1][1]) <= r
  BY RowKinds DEF Within, Lockable
<1>2. \A i \in DOMAIN plan : Rank(plan[i][1][1]) \in 1 .. 5 /\ Rank(plan[i][1][1]) > r
  <2>1. \A i \in DOMAIN plan : plan[i] \in Range(plan) /\ plan[i] \in Lockable  BY PlanType
  <2> QED  BY <2>1, RowKinds DEF Lockable
<1>3. \A h \in held : \A i \in DOMAIN plan : Rank(h[1][1]) < Rank(plan[i][1][1])
  BY <1>1, <1>2
<1> QED  BY <1>3, OrderAfter

(* Locks of higher ranks among the ones already held. *)
LEMMA WithinMore ==
  ASSUME NEW held \in SUBSET Lockable, NEW more \in SUBSET Lockable, NEW r \in 1 .. 5, NEW s \in 1 .. 5,
         r <= s, Within(held, r), \A k \in more : Rank(k[1][1]) <= s
  PROVE  Within(held \cup more, s)
<1>1. \A h \in held : Rank(h[1][1]) \in 1 .. 5 /\ Rank(h[1][1]) <= r
  BY RowKinds DEF Within, Lockable
<1> QED  BY <1>1 DEF Within

-----------------------------------------------------------------------------
(* Submitting a suggestion. *)
LEMMA SuggestionPlan ==
  ASSUME NEW row \in SuggRow, NEW rows
  PROVE  /\ SuggestionKeys(row) \in Seq(Lockable)
         /\ row.parent = None => InOrder(rows, {}, SuggestionKeys(row))
<1> DEFINE P == {row.post} \ {None}
           C == {row.canteen} \ {None}
           S == {row.parent} \ {None}
           posts == KeyShares("post", P)
           items == KeyShares("item", C)
           suggs == KeyShares("sugg", S)
<1>1. P \subseteq Post /\ C \subseteq Item /\ S \subseteq Sugg  BY DEF SuggRow
<1>2. IsFiniteSet(P) /\ IsFiniteSet(C) /\ IsFiniteSet(S)  BY FS_Singleton, FS_Subset
<1>3. P \in SUBSET Nat /\ C \in SUBSET Nat /\ S \in SUBSET Nat  BY <1>1, IdAssumption
<1>4. (\A x \in P : <<"post", x>> \in Row) /\ (\A x \in C : <<"item", x>> \in Row)
         /\ (\A x \in S : <<"sugg", x>> \in Row)
  BY <1>1 DEF Row
<1>5. row.parent = None => S = {}  OBVIOUS
<1>6. SuggestionKeys(row) = posts \o items \o suggs  BY DEF SuggestionKeys
<1> HIDE DEF P, C, S
<1>7. /\ posts \in Seq(Lockable) /\ Range(posts) = {KeyShare("post", x) : x \in P}
      /\ InOrder(rows, {}, posts)
  BY <1>2, <1>3, <1>4, PlanLists, PlanOrder
<1>8. /\ items \in Seq(Lockable) /\ Range(items) = {KeyShare("item", x) : x \in C}
      /\ InOrder(rows, {}, items)
  BY <1>2, <1>3, <1>4, PlanLists, PlanOrder
<1>9. suggs \in Seq(Lockable) /\ Range(suggs) = {KeyShare("sugg", x) : x \in S}
  BY <1>2, <1>3, <1>4, PlanLists
<1> HIDE DEF posts, items, suggs
<1>10. \A j \in Range(posts), k \in Range(items) : Rank(j[1][1]) < Rank(k[1][1])
  BY <1>7, <1>8, Ranks DEF KeyShare
<1>11. posts \o items \in Seq(Lockable) /\ InOrder(rows, {}, posts \o items)
  BY <1>7, <1>8, <1>10, PlansFollow
<1> DEFINE both == posts \o items
<1>12. both \in Seq(Lockable) /\ InOrder(rows, {}, both)  BY <1>11
<1> HIDE DEF both
<1>13. both \o suggs \in Seq(Lockable)  BY <1>9, <1>12
<1>14. ASSUME row.parent = None PROVE InOrder(rows, {}, both \o suggs)
  <2>1. Range(suggs) = {}  BY <1>5, <1>9, <1>14
  <2>2. InOrder(rows, {}, suggs)  BY <2>1 DEF InOrder, Range
  <2>3. \A j \in Range(both), k \in Range(suggs) : Rank(j[1][1]) < Rank(k[1][1])  BY <2>1
  <2> QED  BY <1>9, <1>12, <2>2, <2>3, PlansFollow
<1> QED  BY <1>6, <1>13, <1>14 DEF both

(* A submission plans the locks of its foreign keys. *)
LEMMA SuggestBody ==
  ASSUME Sound, NEW t \in Tx, At(t, "suggest", "body"), normalizeSuggestion(tx[t].arg),
         NEW row, row = applyApprovedSubmittedParent(tx[t].arg),
         tx' = [tx EXCEPT ![t].pc = "commit", ![t].arg = row, ![t].plan = SuggestionKeys(row)],
         UNCHANGED <<item, sugg, tag, post, hist, text, begun>>
  PROVE  Sound'
<1> DEFINE plan == SuggestionKeys(row)
           pc == "commit"
           q == [tx[t] EXCEPT !.pc = pc, !.arg = row, !.plan = plan]
<1>0. /\ IsTx(tx[t]) /\ SuggestSound(t) /\ tx[t].op = "suggest" /\ tx[t].pc = "body"
      /\ Typed /\ KeysSound
  BY TxParts DEF At, Sound
<1>1. tx' = [tx EXCEPT ![t] = q] /\ UNCHANGED Tables /\ UNCHANGED begun
  <2>1. tx = [w \in Tx |-> tx[w]]  BY DEF Sound
  <2>2. DOMAIN tx[t] = {"pc", "op", "on", "arg", "at", "plan", "held"}  BY <1>0, TxFields
  <2> QED  BY <2>1, <2>2 DEF Tables
<1>2. /\ IsTx(q) /\ q.pc = pc /\ q.op = tx[t].op /\ q.on = tx[t].on /\ q.arg = row
      /\ q.at = tx[t].at /\ q.plan = plan /\ q.held = tx[t].held
  <2>1. q = [pc |-> pc, op |-> tx[t].op, on |-> tx[t].on, arg |-> row, at |-> tx[t].at,
             plan |-> plan, held |-> tx[t].held]
    <3> DEFINE r == tx[t]
    <3>1. IsTx(r)  BY <1>0
    <3>2. q = [r EXCEPT !.pc = pc, !.arg = row, !.plan = plan]  OBVIOUS
    <3> HIDE DEF r, q, pc, plan
    <3>3. q = [pc |-> pc, op |-> r.op, on |-> r.on, arg |-> row, at |-> r.at, plan |-> plan,
               held |-> r.held]
      BY <3>1, <3>2, TxPlans
    <3> QED  BY <3>3 DEF r
  <2> HIDE DEF q, pc, plan
  <2> QED  BY <2>1, TxOf
<1> HIDE DEF q, plan
<1>3. tx'[t] = q  BY <1>1, TxUpdate
<1>4. tx[t].held = {}  BY <1>0 DEF SuggestSound
<1>5. /\ row \in SuggRow /\ row.st = "pending" /\ row.result = None /\ row.name # None
      /\ row.parent # None =>
           /\ row.kind = "window"
           /\ sugg[row.parent].st # "none" /\ sugg[row.parent].kind = "canteen"
  <2> DEFINE a == tx[t].arg
  <2>1. /\ a \in SuggRow /\ a.st = "pending" /\ a.result = None /\ a.name # None
        /\ a.parent # None =>
             /\ a.kind = "window"
             /\ sugg[a.parent].st # "none" /\ sugg[a.parent].kind = "canteen"
    BY <1>0 DEF SuggestSound
  <2>2. row = applyApprovedSubmittedParent(a)  OBVIOUS
  <2> HIDE DEF a
  <2>3. CASE row = a  BY <2>1, <2>3
  <2>4. CASE a.parent # None /\ row = [a EXCEPT !.canteen = sugg[a.parent].result]
    <3>1. a.parent \in Sugg  BY <2>1, <2>4 DEF SuggRow
    <3> DEFINE c == sugg[a.parent].result
    <3>2. c \in Item \cup {None}  BY <1>0, <3>1 DEF Typed, SuggRow
    <3>3. row = [a EXCEPT !.canteen = c]  BY <2>4
    <3> HIDE DEF c
    <3>4. /\ row \in SuggRow /\ row.st = a.st /\ row.result = a.result /\ row.parent = a.parent
          /\ row.kind = a.kind /\ row.name = a.name
      BY <2>1, <3>2, <3>3 DEF SuggRow
    <3> QED  BY <2>1, <3>4
  <2> QED  BY <2>2, <2>3, <2>4 DEF applyApprovedSubmittedParent
<1>6. plan \in Seq(Lockable) /\ (row.parent = None => InOrder(sugg, {}, plan))
  BY <1>5, SuggestionPlan DEF plan
<1>7. \A w \in Tx \ {t} : \A h \in q.held : ~HeldAgainst(w, h)  BY <1>2, <1>4
<1>8. sugg' = sugg  BY <1>1 DEF Tables
<1>9. LockSound(t)'
  BY <1>0, <1>2, <1>3, <1>4, <1>6, <1>8 DEF LockSound, Orderly
<1>10. SuggestSound(t)'  BY <1>0, <1>2, <1>3, <1>5, <1>8 DEF SuggestSound
<1>11. TxSound(t)'
  BY <1>0, <1>2, <1>3, <1>9, <1>10 DEF TxSound, ItemSound, ApproveSound, TagSound, WriteSound, PostWrites
<1> QED  BY <1>0, <1>1, <1>2, <1>7, <1>11, OnwardStep

-----------------------------------------------------------------------------
(* Approving a suggestion, up to its commit. *)
LEMMA ApproveGoes ==
  ASSUME Sound, NEW t \in Tx, tx[t].op = "approve", Ready(t),
         NEW pc \in {"parent", "source", "item", "commit"}, NEW at, NEW held \in SUBSET Got(t),
         NEW plan \in Seq(Lockable),
         tx' = [tx EXCEPT ![t].pc = pc, ![t].at = at, ![t].held = held, ![t].plan = plan],
         UNCHANGED <<item, sugg, tag, post, hist, text, begun>>,
         sugg[tx[t].on].st = "pending", Update("sugg", tx[t].on) \in held,
         InOrder(sugg, held, plan),
         NEW r \in 1 .. 5, Within(held, r),
         NEW s \in 1 .. 5, r <= s, \A k \in Range(plan) : Rank(k[1][1]) <= s,
         (pc = "parent" => s = 1) /\ (pc = "source" => s = 2) /\ (pc = "item" => s = 3),
         pc # "parent" => CanteenSound(tx[t].on),
         pc = "commit" =>
            /\ at \subseteq Item
            /\ sugg[tx[t].on].kind = "window" => KeyShare("item", ParentCanteen(tx[t].on)) \in Range(plan)
  PROVE  Sound'
<1>0. /\ LockSound(t) /\ ApproveSound(t) /\ tx[t].pc # "idle" /\ pc # "idle"
      /\ held \in SUBSET Lockable
      /\ \A w \in Tx \ {t} : \A h \in held : ~HeldAgainst(w, h)
  BY TxParts, GotFree DEF LockSound
<1>o. PICK on : on = tx[t].on  OBVIOUS
<1>1. /\ IsTx(tx'[t]) /\ tx'[t].op = "approve" /\ tx'[t].on = tx[t].on /\ tx'[t].arg = tx[t].arg
      /\ tx'[t].pc = pc /\ tx'[t].at = at /\ tx'[t].held = held /\ tx'[t].plan = plan
      /\ item' = item /\ sugg' = sugg
      /\ (TxSound(t)' => Sound')
  <2>1. tx[t].pc # "idle"  BY <1>0
  <2>2. pc # "idle"  BY <1>0
  <2>3. \A w \in Tx \ {t} : \A h \in held : ~HeldAgainst(w, h)  BY <1>0
  <2>4. /\ IsTx(tx'[t]) /\ tx'[t].op = tx[t].op /\ tx'[t].on = tx[t].on /\ tx'[t].arg = tx[t].arg
        /\ tx'[t].pc = pc /\ tx'[t].at = at /\ tx'[t].held = held /\ tx'[t].plan = plan
        /\ UNCHANGED Tables
        /\ item' = item /\ sugg' = sugg /\ tag' = tag /\ post' = post /\ hist' = hist
        /\ TxSound(t)' => Sound'
    BY <2>1, <2>2, <2>3, HeldRow, ZenonT(60)
  <2> QED  BY <2>4
<1>2. Within(Got(t), s)'
  <2>1. Got(t)' = held \cup Range(plan)  BY <1>1 DEF Got
  <2>2. Within(held \cup Range(plan), s)
    <3> DEFINE more == Range(plan)
    <3>1. more \in SUBSET Lockable /\ \A k \in more : Rank(k[1][1]) <= s  BY PlanType
    <3> HIDE DEF more
    <3>2. Within(held \cup more, s)  BY <1>0, <3>1, WithinMore
    <3> QED  BY <3>2 DEF more
  <2> QED  BY <2>1, <2>2 DEF Within
<1>3. LockSound(t)'  BY <1>0, <1>1 DEF LockSound
<1>4. /\ pc # "parent" => CanteenSound(tx[t].on)'
      /\ ParentCanteen(tx[t].on)' = ParentCanteen(tx[t].on)
      /\ Range(plan) \subseteq Got(t)'
  <2>1. tx'[t].on = on /\ item' = item /\ sugg' = sugg  BY <1>1, <1>o
  <2>2. ParentCanteen(on)' = ParentCanteen(on)  BY <2>1 DEF ParentCanteen
  <2>3. CanteenSound(on)' = CanteenSound(on)  BY <2>1, <2>2 DEF CanteenSound
  <2>4. Got(t)' = held \cup Range(plan)  BY <1>1 DEF Got
  <2> QED  BY <1>o, <2>1, <2>2, <2>3, <2>4
<1>5. ApproveSound(t)'
  <2>1. tx[t].on \in Sugg /\ sugg[tx[t].on].st # "none" /\ tx[t].arg \in Item \cup {None}
    BY <1>0 DEF ApproveSound
  <2>2. pc # "body"  OBVIOUS
  <2>3. /\ pc = "parent" => Within(Got(t), 1)'
        /\ pc = "source" => Within(Got(t), 2)'
        /\ pc = "item" => Within(Got(t), 3)'
    BY <1>2
  <2> QED  BY <1>1, <1>4, <2>1, <2>2, <2>3 DEF ApproveSound
<1>6. TxSound(t)'
  BY <1>1, <1>3, <1>5 DEF TxSound, ItemSound, SuggestSound, TagSound, WriteSound, PostWrites
<1> QED  BY <1>1, <1>6

(* An approval goes on from the suggestion to the one of its canteen. *)
LEMMA ApproveBody ==
  ASSUME Sound, NEW t \in Tx, At(t, "approve", "body"), NEW s, s = tx[t].on, sugg[s].st = "pending",
         Goto(t, "parent", {}, IF sugg[s].parent = None THEN <<>>
                               ELSE LockSuggestionByID(sugg[s].parent))
  PROVE  Sound'
<1> DEFINE parent == sugg[s].parent
           plan == IF parent = None THEN <<>> ELSE LockSuggestionByID(parent)
           pc == "parent"
           at == {}
<1>0. /\ ApproveSound(t) /\ tx[t].op = "approve" /\ tx[t].pc = "body" /\ Ready(t)
      /\ Typed /\ KeysSound
  BY TxParts DEF At, Sound
<1>1. s \in Sugg /\ tx[t].held = {} /\ tx[t].plan = LockSuggestionByID(s)
  BY <1>0 DEF ApproveSound
<1>2. Got(t) = {Update("sugg", s)}
  <2>1. Range(<<Update("sugg", s)>>) = {Update("sugg", s)}  BY PlanRange
  <2> QED  BY <1>1, <2>1 DEF Got, LockSuggestionByID
<1>3. Update("sugg", s)[1] = <<"sugg", s>>  BY DEF Update
<1>4. Within(Got(t), 1)  BY <1>2, <1>3, Ranks DEF Within
<1>5. parent # None =>
        parent \in Sugg /\ sugg[s].kind = "window" /\ sugg[parent].kind = "canteen"
  BY <1>0, <1>1 DEF Typed, SuggRow, KeysSound
<1> HIDE DEF parent
<1>6. /\ plan \in Seq(Lockable) /\ InOrder(sugg, Got(t), plan)
      /\ \A k \in Range(plan) : Rank(k[1][1]) <= 1
  <2>1. CASE parent = None  BY <2>1, PlanRange
  <2>2. CASE parent # None
    <3> DEFINE k == Update("sugg", parent)
               one == <<k>>
    <3>1. plan = one  BY <2>2 DEF LockSuggestionByID
    <3>2. one \in Seq(Lockable)  BY <1>5, <2>2, LockTypes DEF LockSuggestionByID
    <3>3. k[1] = <<"sugg", parent>>  BY DEF Update
    <3>4. DOMAIN one = {1} /\ one[1] = k /\ Range(one) = {k}  BY PlanRange
    <3> HIDE DEF k, one
    <3>5. Before(sugg, <<"sugg", s>>, <<"sugg", parent>>)  BY <1>5, <2>2 DEF Before
    <3>6. InOrder(sugg, Got(t), one)  BY <1>2, <1>3, <3>3, <3>4, <3>5 DEF InOrder
    <3>7. \A j \in Range(one) : Rank(j[1][1]) <= 1  BY <3>3, <3>4, Ranks
    <3> QED  BY <3>1, <3>2, <3>6, <3>7
  <2> QED  BY <2>1, <2>2
<1>h. PICK held : held = Got(t)  OBVIOUS
<1>7. /\ tx' = [tx EXCEPT ![t].pc = pc, ![t].at = at, ![t].held = held, ![t].plan = plan]
      /\ UNCHANGED <<item, sugg, tag, post, hist, text, begun>>
  BY <1>h DEF Goto, parent
<1> HIDE DEF plan
<1>8. held \in SUBSET Got(t) /\ Update("sugg", tx[t].on) \in held /\ InOrder(sugg, held, plan)
  BY <1>2, <1>6, <1>h
<1>9. pc \in {"parent", "source", "item", "commit"} /\ pc = "parent"  OBVIOUS
<1>10. at \subseteq Item  OBVIOUS
<1> DEFINE one == 1
<1>11. one \in 1 .. 5 /\ one <= one  OBVIOUS
<1>12. Within(held, one) /\ \A k \in Range(plan) : Rank(k[1][1]) <= one  BY <1>4, <1>6, <1>h
<1>13. (pc = "parent" => one = 1) /\ pc # "commit"  OBVIOUS
<1> HIDE DEF pc, at
<1> QED  BY <1>0, <1>6, <1>7, <1>8, <1>9, <1>10, <1>11, <1>12, <1>13, ApproveGoes

(* An approval resolves the canteen and goes on to the source post. *)
LEMMA ApproveParent ==
  ASSUME Sound, NEW t \in Tx, At(t, "approve", "parent"), NEW s, s = tx[t].on,
         resolveApprovalParent(s), Goto(t, "source", {}, lockSourcePost(s))
  PROVE  Sound'
<1> DEFINE plan == lockSourcePost(s)
           pc == "source"
           at == {}
<1>0. /\ ApproveSound(t) /\ tx[t].op = "approve" /\ tx[t].pc = "parent" /\ Ready(t)
      /\ Typed /\ KeysSound /\ Got(t) \in SUBSET Lockable
  BY TxParts DEF At, Sound
<1>1. /\ s \in Sugg /\ Update("sugg", s) \in Got(t) /\ sugg[s].st = "pending" /\ Within(Got(t), 1)
  BY <1>0 DEF ApproveSound, Got
<1>2. CanteenSound(s)
  BY DEF resolveApprovalParent, resolveApprovedParentSuggestion, CanteenSound, Live, Of
<1>3. /\ plan \in Seq(Lockable) /\ InOrder(sugg, {}, plan)
      /\ \A k \in Range(plan) : Rank(k[1][1]) = 2
  <2> DEFINE p == sugg[s].post
  <2>1. p \in Post \cup {None}  BY <1>0, <1>1 DEF Typed, SuggRow
  <2>2. plan = IF p = None THEN <<>> ELSE <<Update("post", p)>>  BY DEF lockSourcePost
  <2> HIDE DEF p
  <2>3. CASE p = None  BY <2>2, <2>3, PlanRange
  <2>4. CASE p # None
    <3>1. <<Update("post", p)>> \in Seq(Lockable)  BY <2>1, <2>4, LockTypes
    <3>2. Range(<<Update("post", p)>>) = {Update("post", p)}  BY PlanRange
    <3>3. Rank(Update("post", p)[1][1]) = 2  BY Ranks DEF Update
    <3>4. InOrder(sugg, {}, <<Update("post", p)>>)  BY OneInOrder
    <3>5. plan = <<Update("post", p)>>  BY <2>2, <2>4
    <3> HIDE DEF plan
    <3> QED  BY <3>1, <3>2, <3>3, <3>4, <3>5
  <2> QED  BY <2>3, <2>4
<1> DEFINE one == 1
           two == 2
           held == Got(t)
<1>4. /\ tx' = [tx EXCEPT ![t].pc = pc, ![t].at = at, ![t].held = held, ![t].plan = plan]
      /\ UNCHANGED <<item, sugg, tag, post, hist, text, begun>>
  BY DEF Goto
<1> HIDE DEF plan
<1>5. \A k \in Range(plan) : Rank(k[1][1]) > 1 /\ Rank(k[1][1]) <= 2  BY <1>3
<1>6. held \in SUBSET Lockable /\ one \in 1 .. 5 /\ Within(held, one)  BY <1>0, <1>1
<1>7. two \in 1 .. 5 /\ one <= two  OBVIOUS
<1>8. \A k \in Range(plan) : Rank(k[1][1]) > one  BY <1>5
<1>9. \A k \in Range(plan) : Rank(k[1][1]) <= two  BY <1>5
<1>10. pc \in {"parent", "source", "item", "commit"} /\ pc # "commit"  OBVIOUS
<1>11. (pc = "parent" => two = 1) /\ (pc = "source" => two = 2) /\ (pc = "item" => two = 3)  OBVIOUS
<1>12. held \in SUBSET Got(t) /\ Update("sugg", tx[t].on) \in held  BY <1>1
<1> HIDE DEF one, two, held
<1>13. InOrder(sugg, held, plan)  BY <1>3, <1>6, <1>8, PlanAfter
<1> HIDE DEF pc, at
<1>14. sugg[tx[t].on].st = "pending" /\ CanteenSound(tx[t].on)  BY <1>1, <1>2
<1> QED
  BY <1>0, <1>3, <1>4, <1>6, <1>7, <1>9, <1>10, <1>11, <1>12, <1>13, <1>14, ApproveGoes

(* From then on the canteen of a window is known. *)
LEMMA ApproveOn ==
  ASSUME Sound, NEW t \in Tx, tx[t].op = "approve", Ready(t),
         NEW pc \in {"item", "commit"}, NEW at, NEW held \in SUBSET Got(t), NEW plan \in Seq(Lockable),
         tx' = [tx EXCEPT ![t].pc = pc, ![t].at = at, ![t].held = held, ![t].plan = plan],
         UNCHANGED <<item, sugg, tag, post, hist, text, begun>>,
         sugg[tx[t].on].st = "pending", Update("sugg", tx[t].on) \in held,
         InOrder(sugg, {}, plan), CanteenSound(tx[t].on),
         NEW r \in 1 .. 3, Within(held, r), \A k \in Range(plan) : Rank(k[1][1]) = r + 1,
         pc = "item" => r = 2,
         pc = "commit" =>
            /\ at \subseteq Item
            /\ sugg[tx[t].on].kind = "window" => KeyShare("item", ParentCanteen(tx[t].on)) \in Range(plan)
  PROVE  Sound'
<1> DEFINE s == r + 1
<1>1. s \in 1 .. 5 /\ r \in 1 .. 5 /\ r <= s  OBVIOUS
<1>2. (pc = "parent" => s = 1) /\ (pc = "source" => s = 2) /\ (pc = "item" => s = 3)  OBVIOUS
<1>3. \A k \in Range(plan) : Rank(k[1][1]) > r /\ Rank(k[1][1]) <= s  OBVIOUS
<1>4. held \in SUBSET Lockable  BY TxParts
<1> HIDE DEF s
<1>5. \A k \in Range(plan) : Rank(k[1][1]) > r  BY <1>3
<1>6. InOrder(sugg, held, plan)  BY <1>1, <1>4, <1>5, PlanAfter
<1>7. \A k \in Range(plan) : Rank(k[1][1]) <= s  BY <1>3
<1>8. pc \in {"parent", "source", "item", "commit"} /\ (pc # "parent" => CanteenSound(tx[t].on))
  OBVIOUS
<1> QED  BY <1>1, <1>2, <1>6, <1>7, <1>8, ApproveGoes

(* The key of the item that is suggested. *)
LEMMA SuggestedTypes ==
  ASSUME Sound, NEW s \in Sugg, CanteenSound(s)
  PROVE  /\ <<SuggestedKey(s)>> \in Seq(Lockable) /\ Rank(SuggestedKey(s)[1][1]) = 3
         /\ Suggested(s) \subseteq Item
         /\ sugg[s].kind = "window" => ParentCanteen(s) \in Item
         /\ SuggestedOf(s) \in Items
<1>0. sugg[s].kind \in Kind /\ sugg[s].name \in Names  BY DEF Sound, Typed, SuggRow, Names
<1>1. sugg[s].kind = "window" => ParentCanteen(s) \in Item  BY DEF CanteenSound
<1>2. SuggestedOf(s) \in Items  BY <1>1 DEF SuggestedOf, Items
<1> DEFINE id == <<sugg[s].kind, sugg[s].name, SuggestedOf(s)>>
<1>3. id \in Kind \X Names \X Items  BY <1>0, <1>2
<1> HIDE DEF id
<1>4. <<"itemKey", id>> \in Row  BY <1>3 DEF Row
<1>5. SuggestedKey(s) = <<<<"itemKey", id>>, "update">>  BY DEF SuggestedKey, ItemKey, Update, id
<1>6. SuggestedKey(s) \in Lockable  BY <1>4, <1>5 DEF Lockable, Mode
<1>7. Rank(SuggestedKey(s)[1][1]) = 3  BY <1>5, Ranks
<1>8. Suggested(s) \subseteq Item  BY DEF Suggested, Keys, Of
<1> QED  BY <1>1, <1>2, <1>6, <1>7, <1>8, PlanRange

(* An approval goes on from the source post to the key of the item. *)
LEMMA ApproveSource ==
  ASSUME Sound, NEW t \in Tx, At(t, "approve", "source"), NEW s, s = tx[t].on,
         Goto(t, "item", {}, IF tx[t].arg # None THEN <<>> ELSE FindOrCreate(s))
  PROVE  Sound'
<1> DEFINE plan == IF tx[t].arg # None THEN <<>> ELSE FindOrCreate(s)
           pc == "item"
           at == {}
           two == 2
<1>0. /\ ApproveSound(t) /\ tx[t].op = "approve" /\ tx[t].pc = "source" /\ Ready(t)
  BY TxParts DEF At
<1>1. /\ s \in Sugg /\ Update("sugg", s) \in Got(t) /\ sugg[s].st = "pending" /\ Within(Got(t), 2)
      /\ CanteenSound(s)
  BY <1>0 DEF ApproveSound, Got
<1>2. plan = <<>> \/ plan = <<SuggestedKey(s)>>  BY DEF FindOrCreate
<1>h. PICK held : held = Got(t)  OBVIOUS
<1>3. /\ tx' = [tx EXCEPT ![t].pc = pc, ![t].at = at, ![t].held = held, ![t].plan = plan]
      /\ UNCHANGED <<item, sugg, tag, post, hist, text, begun>>
  BY <1>h DEF Goto
<1> HIDE DEF plan
<1>4. /\ plan \in Seq(Lockable) /\ InOrder(sugg, {}, plan)
      /\ \A k \in Range(plan) : Rank(k[1][1]) = 3
  <2>1. CASE plan = <<>>  BY <2>1, PlanRange
  <2>2. CASE plan = <<SuggestedKey(s)>>
    <3> DEFINE k == SuggestedKey(s)
    <3>1. <<k>> \in Seq(Lockable) /\ Rank(k[1][1]) = 3  BY <1>1, SuggestedTypes
    <3>2. plan = <<k>>  BY <2>2
    <3> HIDE DEF k
    <3>3. Range(<<k>>) = {k} /\ InOrder(sugg, {}, <<k>>)  BY PlanRange, OneInOrder
    <3> QED  BY <3>1, <3>2, <3>3
  <2> QED  BY <1>2, <2>1, <2>2
<1>5. two \in 1 .. 3 /\ Within(held, two)  BY <1>1, <1>h
<1>6. \A k \in Range(plan) : Rank(k[1][1]) = two + 1  BY <1>4
<1>7. pc \in {"item", "commit"} /\ (pc = "item" => two = 2) /\ pc # "commit"
  OBVIOUS
<1> HIDE DEF pc, at, two
<1>8. /\ held \in SUBSET Got(t) /\ Update("sugg", tx[t].on) \in held
      /\ sugg[tx[t].on].st = "pending" /\ CanteenSound(tx[t].on)
  BY <1>1, <1>h
<1> QED  BY <1>0, <1>3, <1>4, <1>5, <1>6, <1>7, <1>8, ApproveOn

(* An approval finds the item, or that there is none, and locks it. *)
LEMMA ApproveItem ==
  ASSUME Sound, NEW t \in Tx, At(t, "approve", "item"), approveDictionaryItem(t)
  PROVE  Sound'
<1> DEFINE s == tx[t].on
           i == tx[t].arg
           at == IF i # None THEN {i} ELSE Suggested(s)
           S == at \cup (IF sugg[s].kind = "window" THEN {ParentCanteen(s)} ELSE {})
           plan == KeyShares("item", S)
           held == IF at = {} THEN Got(t) ELSE tx[t].held
           pc == "commit"
           three == 3
<1>0. /\ ApproveSound(t) /\ tx[t].op = "approve" /\ tx[t].pc = "item" /\ Ready(t)
  BY TxParts DEF At
<1>1. /\ s \in Sugg /\ Update("sugg", s) \in tx[t].held /\ sugg[s].st = "pending" /\ Within(Got(t), 3)
      /\ CanteenSound(s) /\ i \in Item \cup {None}
  BY <1>0 DEF ApproveSound
<1>2. Suggested(s) \subseteq Item /\ (sugg[s].kind = "window" => ParentCanteen(s) \in Item)
  BY <1>1, SuggestedTypes
<1>3. at \subseteq Item /\ S \subseteq Item  BY <1>1, <1>2
<1>4. /\ tx' = [tx EXCEPT ![t].pc = pc, ![t].at = at, ![t].held = held, ![t].plan = plan]
      /\ UNCHANGED <<item, sugg, tag, post, hist, text, begun>>
  <2>1. IsTx(tx[t]) /\ tx = [w \in Tx |-> tx[w]]  BY TxParts DEF Sound
  <2>2. DOMAIN tx[t] = {"pc", "op", "on", "arg", "at", "plan", "held"}  BY <2>1, TxFields
  <2>3. /\ tx' = [tx EXCEPT ![t].pc = pc, ![t].at = at,
                            ![t].held = IF at = {} THEN Got(t) ELSE @, ![t].plan = plan]
        /\ UNCHANGED <<item, sugg, tag, post, hist, text, begun>>
    BY DEF approveDictionaryItem
  <2> HIDE DEF at, plan
  <2>4. [tx[t] EXCEPT !.pc = pc, !.at = at, !.held = IF at = {} THEN Got(t) ELSE @, !.plan = plan]
          = [tx[t] EXCEPT !.pc = pc, !.at = at, !.held = held, !.plan = plan]
    BY <2>2
  <2> QED  BY <2>1, <2>2, <2>3, <2>4
<1>h. /\ held \in SUBSET Got(t) /\ Update("sugg", tx[t].on) \in held
      /\ sugg[s].kind = "window" => ParentCanteen(s) \in S
  BY <1>1 DEF Got
<1> HIDE DEF S, at, held
<1>5. S \in SUBSET Nat /\ IsFiniteSet(S) /\ \A x \in S : <<"item", x>> \in Row
  BY <1>3, IdAssumption, FS_Subset DEF Row
<1>6. /\ plan \in Seq(Lockable) /\ InOrder(sugg, {}, plan)
      /\ Range(plan) = {KeyShare("item", x) : x \in S}
  BY <1>5, PlanLists, PlanOrder
<1> HIDE DEF plan
<1>7. \A k \in Range(plan) : Rank(k[1][1]) = three + 1  BY <1>6, Ranks DEF KeyShare
<1>8. three \in 1 .. 3 /\ Within(held, three)  BY <1>1, <1>h DEF Within
<1>9. /\ pc \in {"item", "commit"} /\ (pc = "item" => three = 2) /\ at \subseteq Item
      /\ sugg[tx[t].on].kind = "window" => KeyShare("item", ParentCanteen(tx[t].on)) \in Range(plan)
  BY <1>3, <1>6, <1>h
<1> HIDE DEF pc, three
<1>10. sugg[tx[t].on].st = "pending" /\ CanteenSound(tx[t].on)  BY <1>1
<1> QED  BY <1>0, <1>4, <1>6, <1>7, <1>8, <1>9, <1>10, <1>h, ApproveOn

-----------------------------------------------------------------------------
(* Renaming and merging tags, up to the commit. *)
LEMMA TagGoes ==
  ASSUME Sound, NEW t \in Tx, NEW op \in {"rename", "merge"}, At(t, op, "body"), NEW i, i = tx[t].on,
         NEW pc, prepareTagAffectedPosts(t, pc, i), IF op = "merge" THEN pc = "commit" ELSE pc = "name"
  PROVE  Sound'
<1> DEFINE S == FindTagPostIDs(i)
           plan == LockPostsByIDs(S)
           tags == IF op = "merge" THEN {i, tx[t].arg} ELSE {i}
           held == Got(t)
<1>0. /\ TagSound(t) /\ LockSound(t) /\ tx[t].op = op /\ tx[t].pc = "body" /\ Ready(t)
      /\ held \in SUBSET Lockable /\ pc # "idle" /\ pc # "body"
  BY TxParts DEF At
<1>1. /\ i \in Tag /\ Named(i) /\ Within(held, 1)
      /\ IF op = "merge" THEN tx[t].arg \in Tag /\ Named(tx[t].arg) ELSE tx[t].arg \in Name
      /\ \A j \in tags : Update("tag", j) \in held
  BY <1>0 DEF TagSound
<1>2. S \in SUBSET Nat /\ IsFiniteSet(S) /\ \A x \in S : <<"post", x>> \in Row
  <2>1. S \subseteq Post  BY DEF FindTagPostIDs
  <2> HIDE DEF S
  <2> QED  BY <2>1, IdAssumption, FS_Subset DEF Row
<1>3. Goto(t, pc, S, plan)  BY DEF prepareTagAffectedPosts
<1>4. S = FindTagPostIDs(i)  OBVIOUS
<1> HIDE DEF S, tags
<1>5. /\ plan \in Seq(Lockable) /\ InOrder(sugg, {}, plan)
      /\ Range(plan) = {Update("post", x) : x \in S}
  BY <1>2, PlanLists, PlanOrder DEF LockPostsByIDs
<1> HIDE DEF plan
<1>6. \A k \in Range(plan) : Rank(k[1][1]) = 2  BY <1>5, Ranks DEF Update
<1>7. /\ IsTx(tx'[t]) /\ tx'[t].op = op /\ tx'[t].on = i /\ tx'[t].arg = tx[t].arg
      /\ tx'[t].pc = pc /\ tx'[t].at = S /\ tx'[t].held = held /\ tx'[t].plan = plan
      /\ sugg' = sugg /\ tag' = tag /\ post' = post
      /\ (TxSound(t)' => Sound')
  <2>1. tx[t].pc # "idle"  BY <1>0
  <2> QED  BY <1>0, <1>3, <2>1, GotoRow
<1>8. InOrder(sugg, held, plan) /\ Within(held \cup Range(plan), 2)
  <2> DEFINE one == 1
             two == 2
             more == Range(plan)
  <2>1. one \in 1 .. 5 /\ two \in 1 .. 5 /\ one <= two /\ Within(held, one)  BY <1>1
  <2>2. more \in SUBSET Lockable  BY <1>5, PlanType
  <2>3. (\A k \in Range(plan) : Rank(k[1][1]) > one) /\ (\A k \in more : Rank(k[1][1]) <= two)
    BY <1>6
  <2>0. held \in SUBSET Lockable  BY <1>0
  <2> HIDE DEF held, one, two, more
  <2>4. InOrder(sugg, held, plan)  BY <1>5, <2>0, <2>1, <2>3, PlanAfter
  <2>5. Within(held \cup more, two)  BY <2>0, <2>1, <2>2, <2>3, WithinMore
  <2> QED  BY <2>4, <2>5 DEF more, two
<1>9. LockSound(t)'
  <2>1. op # "idle" /\ op \in {"idle", "suggest", "approve", "renameItem", "deleteItem", "rename", "merge"}
                            \cup PostWrites  OBVIOUS
  <2> QED  BY <1>0, <1>5, <1>7, <1>8, <2>1 DEF LockSound
<1>10. TagSound(t)'
  <2>1. Within(Got(t), 2)'  BY <1>7, <1>8 DEF Within, Got
  <2>2. FindTagPostIDs(tx[t].on)' \subseteq tx'[t].at  BY <1>4, <1>7 DEF FindTagPostIDs
  <2>3. Named(tx[t].on)' /\ (op = "merge" => Named(tx[t].arg)')  BY <1>1, <1>7 DEF Named
  <2> QED  BY <1>0, <1>1, <1>7, <2>1, <2>2, <2>3 DEF TagSound, tags
<1>11. TxSound(t)'
  BY <1>7, <1>9, <1>10 DEF TxSound, ItemSound, SuggestSound, ApproveSound, WriteSound, PostWrites
<1> QED  BY <1>7, <1>11

(* A rename goes on from the posts to the keys of the two names. *)
LEMMA RenameName ==
  ASSUME Sound, NEW t \in Tx, At(t, "rename", "name"), NEW i, i = tx[t].on, NEW name, name = tx[t].arg,
         Goto(t, "commit", tx[t].at, <<TagKey(tag[i].name), TagKey(name)>>)
  PROVE  Sound'
<1> DEFINE old == TagKey(tag[i].name)
           new == TagKey(name)
           plan == <<old, new>>
           pc == "commit"
           at == tx[t].at
<1>0. /\ TagSound(t) /\ LockSound(t) /\ tx[t].op = "rename" /\ tx[t].pc = "name" /\ Ready(t)
      /\ Got(t) \in SUBSET Lockable /\ Typed
  BY TxParts DEF At, Sound
<1>1. /\ i \in Tag /\ Named(i) /\ Within(Got(t), 2) /\ name \in Name
      /\ Update("tag", i) \in tx[t].held /\ FindTagPostIDs(i) \subseteq at
  BY <1>0 DEF TagSound
<1>2. tag[i].name \in Names /\ name \in Names  BY <1>0, <1>1 DEF Typed, TagRow, Names
<1>3. old \in Lockable /\ new \in Lockable  BY <1>2, LockTypes
<1>4. plan \in Seq(Lockable)
  <2> HIDE DEF old, new
  <2> QED  BY <1>3
<1>5. Goto(t, pc, at, plan) /\ plan = <<old, new>> /\ pc = "commit"  OBVIOUS
<1> HIDE DEF old, new, plan, pc, at
<1>6. /\ IsTx(tx'[t]) /\ tx'[t].op = "rename" /\ tx'[t].on = i /\ tx'[t].arg = name
      /\ tx'[t].pc = "commit" /\ tx'[t].at = at /\ tx'[t].held = Got(t) /\ tx'[t].plan = plan
      /\ sugg' = sugg /\ tag' = tag /\ post' = post
      /\ (TxSound(t)' => Sound')
  <2>1. tx[t].pc # "idle" /\ pc # "idle"  BY <1>0, <1>5
  <2> QED  BY <1>0, <1>5, <2>1, GotoRow
<1>7. LockSound(t)'  BY <1>0, <1>4, <1>6 DEF LockSound, Orderly
<1>8. NamesSound(t)'
  <2>1. Within(tx[t].held, 2)'  BY <1>1, <1>6 DEF Within
  <2> QED  BY <1>5, <1>6, <2>1 DEF NamesSound, old, new
<1>9. TagSound(t)'
  <2>1. FindTagPostIDs(tx[t].on)' \subseteq tx'[t].at  BY <1>1, <1>6 DEF FindTagPostIDs
  <2>2. Named(tx[t].on)'  BY <1>1, <1>6 DEF Named
  <2>3. Update("tag", i) \in Got(t)  BY <1>1 DEF Got
  <2> QED  BY <1>1, <1>6, <1>8, <2>1, <2>2, <2>3 DEF TagSound
<1>10. TxSound(t)'
  BY <1>6, <1>7, <1>9 DEF TxSound, ItemSound, SuggestSound, ApproveSound, WriteSound, PostWrites
<1> QED  BY <1>6, <1>10

-----------------------------------------------------------------------------
(* Writing a post, up to the commit. *)
LEMMA PayloadSteps ==
  ASSUME Sound, NEW t \in Tx, NEW op \in PostWrites, At(t, op, "body"),
         NEW payload \in PayloadRow, resolvePostPayload(t, payload)
  PROVE  Sound'
<1> DEFINE W == payload.words
           plan == KeyShares("item", W)
           pc == "names"
<1>0. /\ WriteSound(t) /\ LockSound(t) /\ tx[t].op = op /\ tx[t].pc = "body" /\ Ready(t)
      /\ Got(t) \in SUBSET Lockable
      /\ op \notin {"idle", "suggest", "approve", "renameItem", "deleteItem", "rename", "merge"}
  BY TxParts DEF At, PostWrites
<1>1. W \in SUBSET Nat /\ IsFiniteSet(W) /\ \A x \in W : <<"item", x>> \in Row
  <2>1. W \subseteq Item  BY DEF PayloadRow
  <2> HIDE DEF W
  <2> QED  BY <2>1, IdAssumption, FS_Subset DEF Row
<1>2. Goto(t, pc, payload, plan)  BY DEF resolvePostPayload
<1> HIDE DEF W
<1>3. plan \in Seq(Lockable) /\ Range(plan) = {KeyShare("item", x) : x \in W}
  BY <1>1, PlanLists
<1> HIDE DEF plan
<1>4. /\ IsTx(tx'[t]) /\ tx'[t].op = op /\ tx'[t].on = tx[t].on /\ tx'[t].arg = tx[t].arg
      /\ tx'[t].pc = pc /\ tx'[t].at = payload /\ tx'[t].held = Got(t) /\ tx'[t].plan = plan
      /\ sugg' = sugg /\ hist' = hist
      /\ (TxSound(t)' => Sound')
  <2>1. tx[t].pc # "idle" /\ pc # "idle"  BY <1>0
  <2> QED  BY <1>0, <1>2, <2>1, GotoRow
<1>5. Got(t)' = Got(t) \cup Range(plan)  BY <1>4 DEF Got
<1>6. LockSound(t)'  BY <1>0, <1>3, <1>4 DEF LockSound, Orderly
<1>7. WriteSound(t)'
  <2>1. \A i \in payload.words : KeyShare("item", i) \in Got(t)'  BY <1>3, <1>5 DEF W
  <2>2. \A k \in Range(plan) : k[1][1] # "tagKey"  BY <1>3 DEF KeyShare
  <2>3. \A k \in Got(t)' : k[1][1] = "tagKey" => k[1][2] \in Name
    <3>1. \A k \in Got(t) : k[1][1] = "tagKey" => k[1][2] \in Name  BY <1>0 DEF WriteSound
    <3> QED  BY <1>5, <2>2, <3>1
  <2>4. /\ tx[t].on \in Post /\ (op # "restoreHistory" => tx[t].arg \in PayloadRow)
        /\ op = "restoreHistory" => tx[t].arg \in 1 .. Len(hist[tx[t].on])
    BY <1>0 DEF WriteSound
  <2> QED  BY <1>4, <2>1, <2>3, <2>4 DEF WriteSound
<1>8. TxSound(t)'
  BY <1>0, <1>4, <1>6, <1>7 DEF TxSound, ItemSound, SuggestSound, ApproveSound, TagSound
<1> QED  BY <1>4, <1>8

(* What an old revision is put back with refers to tags by name and to items. *)
LEMMA RestoredPayload ==
  ASSUME Sound, NEW p \in Post, NEW r \in 1 .. Len(hist[p])
  PROVE  updateInputFromSnapshot(p, r) \in PayloadRow
<1>1. hist[p] \in Seq(Snapshot)  BY DEF Sound, Typed
<1>2. hist[p][r] \in Snapshot  BY <1>1
<1>3. \A S : \A i \in Live(S) : i \in Item  BY DEF Live, Of
<1> QED  BY <1>2, <1>3 DEF updateInputFromSnapshot, Snapshot, PayloadRow

(* A write finds its tags and takes the keys of the names that are new. *)
LEMMA TagsSteps ==
  ASSUME Sound, NEW t \in Tx, NEW op \in PostWrites, At(t, op, "names"), replaceTags(t)
  PROVE  Sound'
<1> DEFINE names == tx[t].at.tags
           found == FindOrCreateTag(names)
           at == [tx[t].at EXCEPT !.tags = found]
           plan == KeyShares("tag", found)
           held == Got(t) \cup {TagKey(n) : n \in NewNames(names)}
           pc == "commit"
           q == [tx[t] EXCEPT !.pc = pc, !.at = at, !.held = held, !.plan = plan]
<1>0. /\ WriteSound(t) /\ LockSound(t) /\ tx[t].op = op /\ tx[t].pc = "names" /\ Ready(t)
      /\ Got(t) \in SUBSET Lockable /\ IsTx(tx[t])
      /\ op \notin {"idle", "suggest", "approve", "renameItem", "deleteItem", "rename", "merge"}
  BY TxParts DEF At, PostWrites
<1>1. /\ tx[t].at \in PayloadRow
      /\ \A i \in tx[t].at.words : Exists(i) /\ KeyShare("item", i) \in Got(t)
      /\ \A k \in Got(t) : k[1][1] = "tagKey" => k[1][2] \in Name
      /\ tx[t].on \in Post /\ (op # "restoreHistory" => tx[t].arg \in PayloadRow)
      /\ op = "restoreHistory" => tx[t].arg \in 1 .. Len(hist[tx[t].on])
  BY <1>0 DEF WriteSound, replaceTags
<1>2. /\ at \in [tags : SUBSET Tag, words : SUBSET Item] /\ at.tags = found
      /\ at.words = tx[t].at.words
  <2> DEFINE a == tx[t].at
  <2>1. found \subseteq Tag  BY DEF FindOrCreateTag
  <2>2. a \in PayloadRow /\ at = [a EXCEPT !.tags = found]  BY <1>1
  <2>3. a.words \in SUBSET Item /\ DOMAIN a = {"tags", "words"}  BY <1>1 DEF PayloadRow
  <2> HIDE DEF a, found, at
  <2>4. at \in [tags : SUBSET Tag, words : SUBSET Item] /\ at.tags = found /\ at.words = a.words
    BY <2>1, <2>2, <2>3 DEF PayloadRow
  <2> QED  BY <2>4 DEF a
<1>3. names \subseteq Name  BY <1>1 DEF PayloadRow
<1>4. found \subseteq Tag /\ \A i \in found : Named(i)
  <2>1. None \notin Name  BY NoneAssumption
  <2> QED  BY <1>3, <2>1 DEF FindOrCreateTag, Named
<1>5. /\ UNCHANGED Tables /\ UNCHANGED begun /\ tx' = [tx EXCEPT ![t] = q]
      /\ \A n \in names : ~Blocked(t, TagKey(n))
  <2>1. tx = [w \in Tx |-> tx[w]]  BY DEF Sound
  <2>2. DOMAIN tx[t] = {"pc", "op", "on", "arg", "at", "plan", "held"}  BY <1>0, TxFields
  <2>3. tx' = [tx EXCEPT ![t].pc = pc, ![t].at.tags = found, ![t].held = held, ![t].plan = plan]
    BY DEF replaceTags
  <2>4. UNCHANGED Tables /\ UNCHANGED begun /\ \A n \in names : ~Blocked(t, TagKey(n))
    BY DEF replaceTags, Tables
  <2>5. tx' = [tx EXCEPT ![t] = q]
    <3> HIDE DEF pc, found, held, plan
    <3> QED  BY <2>1, <2>2, <2>3
  <2> QED  BY <2>4, <2>5
<1>6. /\ IsTx(q) /\ q.pc = pc /\ q.op = tx[t].op /\ q.on = tx[t].on /\ q.arg = tx[t].arg
      /\ q.at = at /\ q.plan = plan /\ q.held = held
  <2>1. q = [pc |-> pc, op |-> tx[t].op, on |-> tx[t].on, arg |-> tx[t].arg, at |-> at,
             plan |-> plan, held |-> held]
    <3> DEFINE r == tx[t]
    <3>1. IsTx(r)  BY <1>0
    <3>2. q = [r EXCEPT !.pc = pc, !.at = at, !.held = held, !.plan = plan]  OBVIOUS
    <3> HIDE DEF r, q, pc, at, held, plan
    <3>3. q = [pc |-> pc, op |-> r.op, on |-> r.on, arg |-> r.arg, at |-> at, plan |-> plan, held |-> held]
      BY <3>1, <3>2, TxGoesOn
    <3> QED  BY <3>3 DEF r
  <2> HIDE DEF q, pc, at, held, plan
  <2> QED  BY <2>1, TxOf
<1> HIDE DEF q, at, found
<1>7. tx'[t] = q  BY <1>5, TxUpdate
<1>8. plan \in Seq(Lockable) /\ Range(plan) = {KeyShare("tag", x) : x \in found}
  <2>1. found \in SUBSET Nat /\ IsFiniteSet(found) /\ \A x \in found : <<"tag", x>> \in Row
    BY <1>4, IdAssumption, FS_Subset DEF Row
  <2> QED  BY <2>1, PlanLists
<1> HIDE DEF plan
<1>9. /\ held \in SUBSET Lockable
      /\ \A k \in held : k \in Got(t) \/ \E n \in names : k = TagKey(n)
      /\ \A k \in Got(t) : k \in held
  <2>1. NewNames(names) \subseteq names /\ names \subseteq Names  BY <1>3 DEF NewNames, Names
  <2>2. \A n \in NewNames(names) : TagKey(n) \in Lockable  BY <2>1, LockTypes
  <2> QED  BY <1>0, <2>1, <2>2
<1> HIDE DEF held
<1>10. \A w \in Tx \ {t} : \A h \in q.held : ~HeldAgainst(w, h)
  <2> SUFFICES ASSUME NEW w \in Tx \ {t}, NEW h \in held PROVE ~HeldAgainst(w, h)  BY <1>6
  <2>1. CASE h \in Got(t)  BY <1>0, <2>1, GotFree
  <2>2. CASE \E n \in names : h = TagKey(n)  BY <1>5, <2>2 DEF Blocked
  <2> QED  BY <1>9, <2>1, <2>2
<1>11. sugg' = sugg /\ item' = item /\ tag' = tag /\ hist' = hist  BY <1>5 DEF Tables
<1>12. LockSound(t)'  BY <1>0, <1>6, <1>7, <1>8, <1>9, <1>11 DEF LockSound, Orderly
<1>13. WriteSound(t)'
  <2>1. Got(t)' = held \cup Range(plan)  BY <1>6, <1>7 DEF Got
  <2>2. \A k \in Range(plan) : k[1][1] # "tagKey"  BY <1>8 DEF KeyShare
  <2>3. \A n \in names : TagKey(n)[1][2] \in Name  BY <1>3 DEF TagKey, Update
  <2>4. \A k \in Got(t)' : k[1][1] = "tagKey" => k[1][2] \in Name
    <3> SUFFICES ASSUME NEW k \in held, k[1][1] = "tagKey" PROVE k[1][2] \in Name  BY <2>1, <2>2
    <3> QED  BY <1>1, <1>9, <2>3
  <2>5. \A i \in at.tags : KeyShare("tag", i) \in Got(t)'  BY <1>2, <1>8, <2>1
  <2>6. \A i \in at.tags : Named(i)'  BY <1>2, <1>4, <1>11 DEF Named
  <2>7. \A i \in at.words : Exists(i)' /\ KeyShare("item", i) \in held
    BY <1>1, <1>2, <1>9, <1>11 DEF Exists
  <2> QED  BY <1>0, <1>1, <1>2, <1>6, <1>7, <1>11, <2>4, <2>5, <2>6, <2>7 DEF WriteSound
<1>14. TxSound(t)'
  BY <1>0, <1>6, <1>7, <1>12, <1>13 DEF TxSound, ItemSound, SuggestSound, ApproveSound, TagSound
<1>15. tx[t].pc # "idle" /\ q.pc # "idle"  BY <1>0, <1>6
<1> QED  BY <1>5, <1>6, <1>10, <1>14, <1>15, OnwardStep

-----------------------------------------------------------------------------
(* The snapshot of the current revision of one post. *)
Current(p) ==
    post[p].put =>
        LET kept == hist[p][post[p].rev] IN
        /\ kept.tags = {tag[i].name : i \in post[p].tags}
        /\ kept.ids = {i \in post[p].words : item[i].kind # "flavor"}

(* The property, post by post. *)
LEMMA CurrentPosts ==
  /\ SnapshotCurrent <=> \A p \in Post : Current(p)
  /\ SnapshotCurrent' <=> \A p \in Post : Current(p)'
<1> DEFINE Kept(p) ==
             LET now == LoadSnapshotRelations(post[p], tag, item)
                 kept == hist[p][post[p].rev]
             IN  kept.tags = now.tags /\ kept.ids = now.ids
<1>1. \A p : Current(p) <=> (post[p].put => Kept(p))  BY DEF Current, LoadSnapshotRelations
<1>2. \A p : Current(p)' <=> (post'[p].put => Kept(p)')  BY DEF Current, LoadSnapshotRelations
<1>3. /\ SnapshotCurrent <=> \A p \in Post : (post[p].put => Kept(p))
      /\ SnapshotCurrent' <=> \A p \in Post : (post'[p].put => Kept(p)')
  BY DEF SnapshotCurrent
<1> HIDE DEF Kept
<1> QED  BY <1>1, <1>2, <1>3

(* A post that is not written, whose tags keep their names and whose items   *)
(* keep their kinds.                                                         *)
LEMMA CurrentKept ==
  ASSUME NEW p, Current(p),
         post'[p].put = post[p].put, post'[p].rev = post[p].rev,
         post'[p].tags = post[p].tags, post'[p].words = post[p].words,
         hist'[p] = hist[p],
         \A i \in post[p].tags : tag'[i].name = tag[i].name,
         \A i \in post[p].words : item'[i].kind = item[i].kind
  PROVE  Current(p)'
<1>1. {tag'[i].name : i \in post[p].tags} = {tag[i].name : i \in post[p].tags}  OBVIOUS
<1>2. {i \in post[p].words : item'[i].kind # "flavor"} = {i \in post[p].words : item[i].kind # "flavor"}
  OBVIOUS
<1> QED  BY <1>1, <1>2 DEF Current

(* What the invariant says of the tables. *)
LEMMA SoundParts ==
  ASSUME Sound
  PROVE  /\ Typed /\ KeysSound /\ \A p \in Post : Current(p)
         /\ \A p \in Post : /\ post[p].tags \subseteq Tag /\ post[p].words \subseteq Item
                            /\ Len(hist[p]) \in Nat /\ post[p].rev \in Nat
                            /\ hist[p] \in Seq(Snapshot) /\ text[p] \in Seq(TextRecord)
         /\ \A p \in Post : \A i \in post[p].words : Exists(i)
<1>1. Typed /\ KeysSound /\ SnapshotCurrent  BY DEF Sound
<1>2. \A p \in Post : post[p] \in PostRow /\ hist[p] \in Seq(Snapshot) /\ text[p] \in Seq(TextRecord)
  BY <1>1 DEF Typed
<1>3. \A p \in Post : /\ post[p].tags \subseteq Tag /\ post[p].words \subseteq Item
                      /\ Len(hist[p]) \in Nat /\ post[p].rev \in Nat
  BY <1>2 DEF PostRow
<1>4. \A p \in Post : \A i \in post[p].words : Exists(i)  BY <1>1, <1>3 DEF KeysSound, Referenced
<1> QED  BY <1>1, <1>2, <1>3, <1>4, CurrentPosts

(* What requests that submit a suggestion have drawn. *)
LEMMA SuggestDraws ==
  ASSUME Sound
  PROVE  \A w \in Tx : tx[w].op = "suggest" => tx[w].on \in Sugg /\ sugg[tx[w].on].st = "none"
  BY TxParts DEF SuggestSound

-----------------------------------------------------------------------------
(* What a request holds nobody else holds. *)
LEMMA HeldAlone ==
  ASSUME Sound, NEW t \in Tx, NEW w \in Tx \ {t}, NEW table, NEW id, Update(table, id) \in tx[t].held
  PROVE  ~HeldAgainst(w, Update(table, id)) /\ ~HeldAgainst(w, KeyShare(table, id))
<1>1. ~HeldAgainst(w, Update(table, id))  BY DEF Sound, Exclusive
<1>2. HeldAgainst(w, KeyShare(table, id)) => HeldAgainst(w, Update(table, id))
  BY DEF HeldAgainst, KeyShare, Update, Conflicts
<1> QED  BY <1>1, <1>2

(* Dictionary items: one that goes is not referred to. *)
LEMMA ItemTables ==
  ASSUME Sound, item' \in [Item -> ItemRow], UNCHANGED <<sugg, tag, post, hist, text>>,
         \A i \in Item : item[i].kind # "none" => item'[i].kind \in {item[i].kind, "gone"},
         \A i \in Item : Exists(i) /\ ~Exists(i)' => ~Referenced(i),
         \A i \in Item : Exists(i)' =>
            /\ item'[i].name # None
            /\ IF item'[i].kind = "window" THEN item'[i].of \in Of("canteen")' ELSE item'[i].of = None
  PROVE  Typed' /\ KeysSound' /\ SnapshotCurrent'
<1>0. /\ Typed /\ KeysSound /\ \A p \in Post : Current(p)
      /\ \A p \in Post : post[p].words \subseteq Item /\ Len(hist[p]) \in Nat
      /\ \A p \in Post : \A i \in post[p].words : Exists(i)
  BY SoundParts
<1>1. Typed'  BY <1>0 DEF Typed
<1>2. \A i \in Item : Referenced(i)' <=> Referenced(i)  BY DEF Referenced
<1>3. \A i \in Item : Exists(i)' /\ Exists(i) => item'[i].kind = item[i].kind
  BY DEF Exists, Kind
<1>4. KeysSound'
  <2>1. \A i \in Item : Referenced(i)' => Exists(i)'  BY <1>0, <1>2 DEF KeysSound
  <2>2. \A p \in Post : \A i \in post'[p].tags : Named(i)'  BY <1>0 DEF KeysSound, Named
  <2>3. /\ \A s \in Sugg : sugg'[s].st = "none" => sugg'[s] = NoSugg
        /\ \A s \in Sugg : sugg'[s].parent # None =>
             /\ sugg'[s].kind = "window"
             /\ sugg'[sugg'[s].parent].st # "none" /\ sugg'[sugg'[s].parent].kind = "canteen"
    BY <1>0 DEF KeysSound
  <2>4. Titled'  BY <1>0 DEF KeysSound, Titled
  <2> QED  BY <2>1, <2>2, <2>3, <2>4 DEF KeysSound
<1>5. SnapshotCurrent'
  <2> SUFFICES ASSUME NEW p \in Post PROVE Current(p)'  BY CurrentPosts
  <2>1. \A i \in post[p].words : i \in Item /\ Referenced(i) /\ Exists(i)  BY <1>0 DEF Referenced
  <2>2. \A i \in post[p].words : item'[i].kind = item[i].kind  BY <1>3, <2>1
  <2> QED  BY <1>0, <2>2, CurrentKept
<1> QED  BY <1>1, <1>4, <1>5

(* What a request relies on stands: no item that goes is locked, and no       *)
(* canteen that is given a window.                                            *)
LEMMA ItemsUnlocked ==
  ASSUME Sound, UNCHANGED <<sugg, tag, post, hist, text>>, NEW w \in Tx,
         \A i \in Item : item[i].kind # "none" => item'[i].kind \in {item[i].kind, "gone"},
         \A i \in Item : Exists(i) /\ ~Exists(i)' => ~HeldAgainst(w, Update("item", i)),
         \A i \in Item : Exists(i)' =>
            \/ Exists(i) /\ item[i].of = item'[i].of
            \/ item'[i].of = None \/ ~HeldAgainst(w, KeyShare("item", item'[i].of))
  PROVE  Stands(w)
<1>1. tx[w].op = "suggest" => sugg'[tx[w].on].st = "none"  BY SuggestDraws
<1>2. \A p \in Post : Len(hist'[p]) >= Len(hist[p])  BY SoundParts
<1>3. \A i \in Tag : Named(i) => Named(i)'  BY DEF Named
<1> QED  BY <1>1, <1>2, <1>3 DEF Stands

(* A dictionary item is created. *)
LEMMA CreateSteps ==
  ASSUME Sound, NEW kind \in Kind, NEW name \in Name, NEW active \in BOOLEAN,
         NEW of, IF kind = "window" THEN of \in Of("canteen") ELSE of = None,
         of # None => Free(KeyShare("item", of)),
         CreateDictionary(kind, name, active, of)
  PROVE  Sound'
<1>0. Typed /\ KeysSound  BY SoundParts
<1>1. PICK i \in FreshItem :
        /\ AtOnce
        /\ item' = [item EXCEPT ![i] = NewItem(kind, name, active, of)]
        /\ UNCHANGED <<sugg, tag, post, hist, text>>
  BY DEF CreateDictionary
<1>2. i \in Item /\ item[i].kind = "none"  BY DEF FreshItem, Fresh
<1> DEFINE row == NewItem(kind, name, active, of)
<1>3. row \in ItemRow /\ row.kind = kind /\ row.of = of /\ row.name # None
  BY NoneAssumption DEF NewItem, ItemRow, Of
<1> HIDE DEF row
<1>4. item' = [item EXCEPT ![i] = row]  BY <1>1 DEF row
<1>5. item' \in [Item -> ItemRow]  BY <1>0, <1>2, <1>3, <1>4 DEF Typed
<1>6. \A j \in Item : item[j].kind # "none" => item'[j] = item[j]  BY <1>0, <1>2, <1>4 DEF Typed
<1>7. \A j \in Item : Exists(j) => item'[j] = item[j] /\ Exists(j)'
  BY <1>6 DEF Exists, Kind
<1>8. item'[i] = row /\ \A j \in Item \ {i} : item'[j] = item[j] /\ (Exists(j)' <=> Exists(j))
  BY <1>0, <1>2, <1>4 DEF Typed, Exists
<1>9. ASSUME NEW j \in Item, Exists(j)'
      PROVE  /\ item'[j].name # None
             /\ IF item'[j].kind = "window" THEN item'[j].of \in Of("canteen")' ELSE item'[j].of = None
  <2>0. \A c \in Of("canteen") : c \in Of("canteen")'  BY <1>6 DEF Of
  <2>1. CASE j = i  BY <1>3, <1>8, <2>0, <2>1
  <2>2. CASE j # i  BY <1>0, <1>8, <1>9, <2>0, <2>2 DEF KeysSound, Titled
  <2> QED  BY <2>1, <2>2
<1>10. Typed' /\ KeysSound' /\ SnapshotCurrent'  BY <1>1, <1>5, <1>6, <1>7, <1>9, ItemTables
<1>11. ASSUME NEW w \in Tx PROVE Stands(w)
  <2>1. ASSUME NEW j \in Item, Exists(j)'
        PROVE  \/ Exists(j) /\ item[j].of = item'[j].of
               \/ item'[j].of = None \/ ~HeldAgainst(w, KeyShare("item", item'[j].of))
    <3>1. CASE j = i  BY <1>3, <1>8, <3>1 DEF Free
    <3>2. CASE j # i  BY <1>8, <2>1, <3>2
    <3> QED  BY <3>1, <3>2
  <2> QED  BY <1>1, <1>6, <1>7, <2>1, ItemsUnlocked
<1> QED  BY <1>1, <1>10, <1>11, AtOnceStep

(* An item keeps its kind and its canteen. *)
LEMMA ItemRewritten ==
  ASSUME Sound, UNCHANGED <<sugg, tag, post, hist, text>>, NEW i \in Item, NEW name \in Name,
         NEW active \in BOOLEAN, item' = [item EXCEPT ![i].name = name, ![i].active = active]
  PROVE  /\ Typed' /\ KeysSound' /\ SnapshotCurrent'
         /\ \A w \in Tx : Stands(w)
<1>0. Typed /\ KeysSound  BY SoundParts
<1>1. item[i] \in ItemRow  BY <1>0 DEF Typed
<1>2. item' \in [Item -> ItemRow] /\ \A j \in Item : item'[j].kind = item[j].kind /\ item'[j].of = item[j].of
                                                        /\ item'[j].name \in {name, item[j].name}
  <2> DEFINE row == [item[i] EXCEPT !.name = name, !.active = active]
  <2>1. row \in ItemRow /\ row.kind = item[i].kind /\ row.of = item[i].of /\ row.name = name
    BY <1>1 DEF ItemRow
  <2>2. item' = [item EXCEPT ![i] = row]  BY <1>0, <1>1 DEF Typed, ItemRow
  <2> HIDE DEF row
  <2> QED  BY <1>0, <2>1, <2>2 DEF Typed
<1>3. \A j \in Item : Exists(j)' <=> Exists(j)  BY <1>2 DEF Exists
<1>4. ASSUME NEW j \in Item, Exists(j)'
      PROVE  /\ item'[j].name # None
             /\ IF item'[j].kind = "window" THEN item'[j].of \in Of("canteen")' ELSE item'[j].of = None
  <2>1. \A c \in Of("canteen") : c \in Of("canteen")'  BY <1>2 DEF Of
  <2> QED  BY <1>0, <1>2, <1>3, <1>4, <2>1, NoneAssumption DEF KeysSound, Titled
<1>5. Typed' /\ KeysSound' /\ SnapshotCurrent'  BY <1>2, <1>3, <1>4, ItemTables
<1>6. ASSUME NEW w \in Tx PROVE Stands(w)  BY <1>2, <1>3, ItemsUnlocked
<1> QED  BY <1>5, <1>6

(* A request to rename or delete an item begins. *)
LEMMA ItemBegins ==
  ASSUME Sound, NEW t \in Tx, CanBegin(t), NEW i \in Item, NEW op \in {"renameItem", "deleteItem"},
         NEW arg, op = "renameItem" => arg \in [name : Name, active : BOOLEAN],
         NEW plan, plan = <<Update("item", i)>>, Begin(t, op, i, arg, plan)
  PROVE  Sound'
<1>1. op \notin {"idle", "suggest", "approve", "rename", "merge"} \cup PostWrites  BY DEF PostWrites
<1>2. /\ IsTx(tx'[t]) /\ tx'[t].op = op /\ tx'[t].on = i /\ tx'[t].arg = arg
      /\ tx'[t].pc = "body" /\ tx'[t].held = {} /\ tx'[t].plan = plan
      /\ TxSound(t)' => Sound'
  BY <1>1, BeginStep
<1>3. plan \in Seq(Lockable)
  <2>1. <<"item", i>> \in Row  BY IdAssumption DEF Row
  <2>2. Update("item", i) \in Lockable  BY <2>1 DEF Update, Lockable, Mode
  <2> QED  BY <2>2, PlanRange
<1>4. LockSound(t)'  BY <1>1, <1>2, <1>3 DEF LockSound, Orderly
<1>5. ItemSound(t)'  BY <1>2 DEF ItemSound
<1>6. TxSound(t)'
  BY <1>1, <1>2, <1>4, <1>5 DEF TxSound, SuggestSound, ApproveSound, TagSound, WriteSound
<1> QED  BY <1>2, <1>6

(* The key of the name of an item can be locked. *)
LEMMA NameKeyLockable ==
  ASSUME Sound, NEW i \in Item, Exists(i), NEW name \in Names
  PROVE  NameKey(i) \in Lockable /\ ItemKey(item[i].kind, name, item[i].of) \in Lockable
<1>1. item[i].kind \in Kind /\ item[i].name \in Names /\ item[i].of \in Items
  BY SoundParts DEF Typed, ItemRow, Exists, Names, Items
<1>2. ASSUME NEW n \in Names PROVE ItemKey(item[i].kind, n, item[i].of) \in Lockable
  <2> DEFINE id == <<item[i].kind, n, item[i].of>>
  <2>1. id \in Kind \X Names \X Items  BY <1>1
  <2> HIDE DEF id
  <2>2. <<"itemKey", id>> \in Row  BY <2>1 DEF Row
  <2>3. ItemKey(item[i].kind, n, item[i].of) = <<<<"itemKey", id>>, "update">>
    BY DEF ItemKey, Update, id
  <2> QED  BY <2>2, <2>3 DEF Lockable, Mode
<1> QED  BY <1>1, <1>2 DEF NameKey

(* The item is locked, and so is its name. *)
LEMMA ItemHeld ==
  ASSUME Sound, NEW t \in Tx, NEW op \in {"renameItem", "deleteItem"}, At(t, op, "body"),
         NEW pc \in {"commit", "check"}, NEW plan \in Seq(Lockable), HoldName(t, pc, plan),
         op = "deleteItem" =>
            Range(plan) = {Update("item", j) : j \in Doomed(tx[t].on) \ {tx[t].on}}
  PROVE  Sound'
<1>i. PICK i : i = tx[t].on  OBVIOUS
<1> DEFINE key == NameKey(i)
           held == Got(t) \cup {key}
           at == tx[t].at
<1>0. /\ ItemSound(t) /\ LockSound(t) /\ tx[t].op = op /\ tx[t].pc = "body" /\ Ready(t)
      /\ Got(t) \subseteq Lockable /\ IsTx(tx[t])
      /\ op \notin {"idle", "suggest", "approve", "rename", "merge"} \cup PostWrites
  BY TxParts DEF At, PostWrites
<1>1. /\ i \in Item /\ (op = "renameItem" => tx[t].arg \in [name : Name, active : BOOLEAN])
      /\ Update("item", i) \in Got(t)
  <2>1. tx[t].plan = <<Update("item", i)>>  BY <1>0, <1>i DEF ItemSound
  <2>2. Range(<<Update("item", i)>>) = {Update("item", i)}  BY PlanRange
  <2> QED  BY <1>0, <1>i, <2>1, <2>2 DEF ItemSound, Got
<1>2. /\ Exists(i) /\ ~Blocked(t, key)
      /\ tx' = [tx EXCEPT ![t].pc = pc, ![t].held = held, ![t].plan = plan]
      /\ UNCHANGED <<item, sugg, tag, post, hist, text, begun>>
  BY <1>i, Zenon DEF HoldName
<1>3. key \in Lockable
  <2>1. None \in Names  BY DEF Names
  <2> QED  BY <1>1, <1>2, <2>1, NameKeyLockable
<1>4. \A w \in Tx \ {t} : \A h \in held : ~HeldAgainst(w, h)
  <2>1. \A w \in Tx \ {t} : \A h \in Got(t) : ~HeldAgainst(w, h)  BY <1>0, GotFree
  <2>2. \A w \in Tx \ {t} : ~HeldAgainst(w, key)  BY <1>2 DEF Blocked
  <2> QED  BY <2>1, <2>2
<1>5. held \subseteq Lockable /\ Update("item", i) \in held  BY <1>0, <1>1, <1>3
<1> HIDE DEF held, key, at
<1>6. tx' = [tx EXCEPT ![t].pc = pc, ![t].at = at, ![t].held = held, ![t].plan = plan]
  <2>1. tx = [w \in Tx |-> tx[w]]  BY DEF Sound
  <2>2. DOMAIN tx[t] = {"pc", "op", "on", "arg", "at", "plan", "held"}  BY <1>0, TxFields
  <2>3. [tx[t] EXCEPT !.pc = pc, !.held = held, !.plan = plan]
          = [tx[t] EXCEPT !.pc = pc, !.at = at, !.held = held, !.plan = plan]
    BY <2>2 DEF at
  <2> QED  BY <1>2, <2>1, <2>2, <2>3
<1>7. /\ IsTx(tx'[t]) /\ tx'[t].op = op /\ tx'[t].on = i /\ tx'[t].arg = tx[t].arg
      /\ tx'[t].pc = pc /\ tx'[t].held = held /\ tx'[t].plan = plan
      /\ item' = item /\ (TxSound(t)' => Sound')
  <2>1. tx[t].pc # "idle"  BY <1>0
  <2>2. pc # "idle"  OBVIOUS
  <2>3. UNCHANGED <<item, sugg, tag, post, hist, text, begun>>  BY <1>2
  <2>4. /\ IsTx(tx'[t]) /\ tx'[t].op = tx[t].op /\ tx'[t].on = tx[t].on /\ tx'[t].arg = tx[t].arg
        /\ tx'[t].pc = pc /\ tx'[t].at = at /\ tx'[t].held = held /\ tx'[t].plan = plan
        /\ UNCHANGED Tables
        /\ item' = item /\ sugg' = sugg /\ tag' = tag /\ post' = post /\ hist' = hist
        /\ TxSound(t)' => Sound'
    BY <1>4, <1>6, <2>1, <2>2, <2>3, HeldRow, ZenonT(60)
  <2> QED  BY <1>0, <1>i, <2>4
<1>8. LockSound(t)'
  <2>1. pc # "idle" /\ op # "idle"  BY <1>0
  <2> QED  BY <1>0, <1>5, <1>7, <2>1 DEF LockSound, Orderly
<1>9. ItemSound(t)'
  <2>1. \A j : (Exists(j)' <=> Exists(j)) /\ Doomed(j)' = Doomed(j)  BY <1>7 DEF Exists, Doomed
  <2>2. Got(t)' = held \cup Range(plan)  BY <1>7 DEF Got
  <2>3. op = "deleteItem" => \A j \in Doomed(i) : Update("item", j) \in held \cup Range(plan)
    BY <1>i, <1>5
  <2>4. pc # "body"  OBVIOUS
  <2> QED  BY <1>1, <1>2, <1>5, <1>7, <2>1, <2>2, <2>3, <2>4 DEF ItemSound
<1>10. TxSound(t)'
  BY <1>0, <1>7, <1>8, <1>9 DEF TxSound, SuggestSound, ApproveSound, TagSound, WriteSound
<1> QED  BY <1>7, <1>10

(* A rename of an item: the locks, then the row. *)
LEMMA RenameItemSteps ==
  ASSUME Sound, NEW t \in Tx, RenameDictionary(t)
  PROVE  Sound'
<1>i. PICK i : i = tx[t].on  OBVIOUS
<1>n. PICK name : name = tx[t].arg.name  OBVIOUS
<1>1. CASE At(t, "renameItem", "body")
  <2> DEFINE op == "renameItem"
             pc == "commit"
             key == ItemKey(item[i].kind, name, item[i].of)
             plan == <<key>>
  <2>1. ~At(t, "renameItem", "commit")  BY <1>1 DEF At
  <2>2. HoldName(t, pc, plan)  BY <1>i, <1>n, <2>1, Zenon DEF RenameDictionary
  <2>3. op \in {"renameItem", "deleteItem"} /\ At(t, op, "body") /\ op # "deleteItem"
        /\ pc \in {"commit", "check"}
    BY <1>1
  <2>4. i \in Item /\ name \in Names /\ Exists(i)
    <3>1. ItemSound(t) /\ tx[t].op = "renameItem"  BY <1>1, TxParts DEF At
    <3>2. i \in Item /\ name \in Name  BY <1>i, <1>n, <3>1 DEF ItemSound
    <3> QED  BY <1>i, <2>2, <3>2 DEF HoldName, Names
  <2>5. key \in Lockable  BY <2>4, NameKeyLockable
  <2> HIDE DEF op, pc, key
  <2>6. plan \in Seq(Lockable)  BY <2>5
  <2> HIDE DEF plan
  <2> QED  BY <2>2, <2>3, <2>6, ItemHeld
<1>2. CASE At(t, "renameItem", "commit")
  <2>1. ~At(t, "renameItem", "body")  BY <1>2 DEF At
  <2>2. PICK active : active = tx[t].arg.active  OBVIOUS
  <2>3. /\ item' = [item EXCEPT ![i].name = name, ![i].active = active]
        /\ Committed(t) /\ UNCHANGED <<sugg, tag, post, hist, text>>
    BY <1>i, <1>n, <2>1, <2>2, Zenon DEF RenameDictionary
  <2>4. ItemSound(t) /\ tx[t].op = "renameItem" /\ tx[t].pc # "idle"  BY <1>2, TxParts DEF At
  <2>5. i \in Item /\ name \in Name /\ active \in BOOLEAN  BY <1>i, <1>n, <2>2, <2>4 DEF ItemSound
  <2>6. Typed' /\ KeysSound' /\ SnapshotCurrent' /\ \A w \in Tx : Stands(w)
    BY <2>3, <2>5, ItemRewritten
  <2> QED  BY <2>3, <2>4, <2>6, CommitStep
<1> QED  BY <1>1, <1>2 DEF RenameDictionary

(* An item is renamed, enabled or disabled. *)
LEMMA UpdateSteps ==
  ASSUME Sound, NEW t \in Tx, NEW i \in Item, NEW kind \in Kind, NEW name \in Name,
         NEW active \in BOOLEAN, UpdateDictionary(t, i, kind, name, active)
  PROVE  Sound'
<1>1. CASE CanBegin(t) /\ Begin(t, "renameItem", i, [name |-> name, active |-> active], <<Update("item", i)>>)
  <2> DEFINE op == "renameItem"
             arg == [name |-> name, active |-> active]
             plan == <<Update("item", i)>>
  <2>1. op \in {"renameItem", "deleteItem"} /\ arg \in [name : Name, active : BOOLEAN]
        /\ plan = <<Update("item", i)>> /\ CanBegin(t) /\ Begin(t, op, i, arg, plan)
    BY <1>1
  <2> HIDE DEF op, arg, plan
  <2> QED  BY <2>1, ItemBegins
<1>2. CASE /\ name = item[i].name
           /\ AtOnce /\ item' = [item EXCEPT ![i].active = active]
           /\ UNCHANGED <<sugg, tag, post, hist, text>>
  <2>1. item \in [Item -> ItemRow]  BY SoundParts DEF Typed
  <2>2. [item[i] EXCEPT !.name = name, !.active = active] = [item[i] EXCEPT !.active = active]
    <3>1. item[i] \in ItemRow  BY <2>1
    <3> QED  BY <1>2, <3>1 DEF ItemRow
  <2>3. item' = [item EXCEPT ![i].name = name, ![i].active = active]
    <3>1. item[i] \in ItemRow /\ DOMAIN item = Item  BY <2>1
    <3> QED  BY <1>2, <2>2, <3>1 DEF ItemRow
  <2> QED  BY <1>2, <2>3, ItemRewritten, AtOnceStep
<1> QED  BY <1>1, <1>2 DEF UpdateDictionary

(* An item goes, with the windows of a canteen. *)
LEMMA RemoveSteps ==
  ASSUME Sound, NEW t \in Tx, At(t, "deleteItem", "check"),
         \A j \in Doomed(tx[t].on) : ~Referenced(j), Removed(t)
  PROVE  Sound'
<1>i. PICK i : i = tx[t].on  OBVIOUS
<1>g. PICK gone : gone = Doomed(i)  OBVIOUS
<1> DEFINE row == [NoItem EXCEPT !.kind = "gone"]
<1>0. /\ Typed /\ KeysSound /\ ItemSound(t) /\ tx[t].op = "deleteItem" /\ tx[t].pc = "check"
      /\ tx[t].pc # "idle" /\ Ready(t)
  BY SoundParts, TxParts DEF At
<1>1. /\ i \in Item /\ Exists(i) /\ \A j \in gone : ~Referenced(j) /\ Update("item", j) \in Got(t)
      /\ \A j \in Item : j \in gone <=> j = i \/ (Exists(j) /\ item[j].of = i)
  BY <1>0, <1>i, <1>g DEF ItemSound, Doomed
<1>2. /\ item' = [j \in Item |-> IF j \in gone THEN row ELSE item[j]]
      /\ Committed(t) /\ UNCHANGED <<sugg, tag, post, hist, text>>
  BY <1>i, <1>g DEF Removed
<1>3. row \in ItemRow /\ row.kind = "gone"  BY DEF NoItem, ItemRow
<1> HIDE DEF row
<1>4. \A j \in gone : j = i \/ j \in Of("window")
  <2>1. gone \subseteq Item  BY <1>g DEF Doomed
  <2>2. \A j \in Item : Exists(j) /\ item[j].of = i => j \in Of("window")
    BY <1>0, <1>1, NoneAssumption DEF KeysSound, Of
  <2> QED  BY <1>1, <2>1, <2>2
<1>5. \A j \in Item : IF j \in gone THEN item'[j] = row ELSE item'[j] = item[j]  BY <1>2
<1>6. item' \in [Item -> ItemRow]  BY <1>0, <1>2, <1>3 DEF Typed
<1>7. \A j \in Item : item[j].kind # "none" => item'[j].kind \in {item[j].kind, "gone"}
  BY <1>3, <1>5
<1>8. \A j \in Item : Exists(j) /\ ~Exists(j)' => j \in gone  BY <1>5 DEF Exists
<1>9. \A j \in Item : Exists(j)' => j \notin gone /\ item'[j] = item[j] /\ Exists(j)
  BY <1>3, <1>5 DEF Exists, Kind
<1>10. ASSUME NEW j \in Item, Exists(j)'
       PROVE  /\ item'[j].name # None
              /\ IF item'[j].kind = "window" THEN item'[j].of \in Of("canteen")' ELSE item'[j].of = None
  <2>1. j \notin gone /\ item'[j] = item[j] /\ Exists(j)  BY <1>9, <1>10
  <2>0. item'[j].name # None  BY <1>0, <2>1 DEF KeysSound, Titled
  <2>2. CASE item[j].kind = "window"
    <3> DEFINE c == item[j].of
    <3>1. c \in Of("canteen") /\ c # i  BY <1>0, <1>1, <2>1, <2>2 DEF KeysSound
    <3>2. c \in Item /\ item[c].kind = "canteen" /\ c \notin gone  BY <1>4, <3>1 DEF Of
    <3>3. item'[c] = item[c]  BY <1>5, <3>2
    <3>4. c \in Of("canteen")'  BY <3>2, <3>3 DEF Of
    <3> QED  BY <2>0, <2>1, <2>2, <3>4
  <2>3. CASE item[j].kind # "window"  BY <1>0, <2>0, <2>1, <2>3 DEF KeysSound
  <2> QED  BY <2>2, <2>3
<1>11. Typed' /\ KeysSound' /\ SnapshotCurrent'
  BY <1>1, <1>2, <1>6, <1>7, <1>8, <1>10, ItemTables
<1>12. ASSUME NEW w \in Tx \ {t} PROVE Stands(w)
  <2>1. \A j \in gone : ~HeldAgainst(w, Update("item", j))  BY <1>0, <1>1, GotFree
  <2> QED  BY <1>2, <1>7, <1>8, <1>9, <2>1, ItemsUnlocked
<1> QED  BY <1>0, <1>2, <1>11, <1>12, CommitStep

(* A deletion goes on to the next row that refers to the item. *)
LEMMA CheckSteps ==
  ASSUME Sound, NEW t \in Tx, At(t, "deleteItem", "check"), NEW k \in Referring(tx[t].on),
         NEW plan, plan = <<k>>, Goto(t, "check", {}, plan)
  PROVE  Sound'
<1>i. PICK i : i = tx[t].on  OBVIOUS
<1> DEFINE pc == "check"
           at == {}
           held == Got(t)
<1>0. /\ ItemSound(t) /\ LockSound(t) /\ tx[t].op = "deleteItem" /\ tx[t].pc = "check" /\ Ready(t)
      /\ tx[t].pc # "idle" /\ held \subseteq Lockable /\ "deleteItem" \notin PostWrites
  BY TxParts DEF At, PostWrites
<1>1. plan \in Seq(Lockable)
  <2>1. k \in {KeyShare("sugg", s) : s \in Sugg} \cup {KeyShare("post", p) : p \in Post}
    BY DEF Referring
  <2>2. /\ \A s \in Sugg : <<"sugg", s>> \in Row
        /\ \A p \in Post : <<"post", p>> \in Row
    BY DEF Row
  <2>3. k \in Lockable  BY <2>1, <2>2 DEF KeyShare, Lockable, Mode
  <2> QED  BY <2>3, PlanRange
<1>2. Goto(t, pc, at, plan) /\ pc # "idle" /\ pc = "check"  OBVIOUS
<1> HIDE DEF pc, at
<1>3. /\ IsTx(tx'[t]) /\ tx'[t].op = "deleteItem" /\ tx'[t].on = i /\ tx'[t].arg = tx[t].arg
      /\ tx'[t].pc = "check" /\ tx'[t].held = held /\ tx'[t].plan = plan
      /\ item' = item /\ (TxSound(t)' => Sound')
  BY <1>0, <1>i, <1>2, GotoRow
<1>4. LockSound(t)'  BY <1>0, <1>1, <1>3 DEF LockSound, Orderly
<1>5. ItemSound(t)'
  <2>1. \A j : (Exists(j)' <=> Exists(j)) /\ Doomed(j)' = Doomed(j)  BY <1>3 DEF Exists, Doomed
  <2>2. held \subseteq Got(t)'  BY <1>3 DEF Got
  <2>3. Update("item", i) \in held  BY <1>0, <1>i DEF ItemSound, Got
  <2>4. /\ i \in Item /\ Exists(i)
        /\ \A j \in Doomed(i) : Update("item", j) \in held
    BY <1>0, <1>i DEF ItemSound
  <2> QED  BY <1>3, <2>1, <2>2, <2>3, <2>4 DEF ItemSound
<1>6. TxSound(t)'
  BY <1>0, <1>3, <1>4, <1>5 DEF TxSound, SuggestSound, ApproveSound, TagSound, WriteSound
<1> QED  BY <1>3, <1>6

(* A deletion: the locks, the checks, and the rows. *)
LEMMA DeleteSteps ==
  ASSUME Sound, NEW t \in Tx, DeleteDictionary(t)
  PROVE  Sound'
<1>i. PICK i : i = tx[t].on  OBVIOUS
<1>1. CASE At(t, "deleteItem", "body")
  <2> DEFINE op == "deleteItem"
             pc == "check"
             S == Doomed(i) \ {i}
             plan == Updates("item", S)
  <2>1. ~At(t, "deleteItem", "check")  BY <1>1 DEF At
  <2>2. HoldName(t, pc, plan)  BY <1>i, <2>1, Zenon DEF DeleteDictionary
  <2>3. op \in {"renameItem", "deleteItem"} /\ At(t, op, "body") /\ pc \in {"commit", "check"}
    BY <1>1
  <2>4. S \in SUBSET Nat /\ IsFiniteSet(S) /\ \A x \in S : <<"item", x>> \in Row
    BY IdAssumption, FS_Subset DEF Row, Doomed
  <2>5. S = Doomed(tx[t].on) \ {tx[t].on}  BY <1>i
  <2> HIDE DEF op, pc, S
  <2>6. plan \in Seq(Lockable) /\ Range(plan) = {Update("item", x) : x \in S}
    BY <2>4, PlanLists
  <2> HIDE DEF plan
  <2> QED  BY <2>2, <2>3, <2>5, <2>6, ItemHeld
<1>2. CASE At(t, "deleteItem", "check")
  <2>1. ~At(t, "deleteItem", "body")  BY <1>2 DEF At
  <2>2. CASE \E k \in Referring(i) : Goto(t, "check", {}, <<k>>)
    <3>1. PICK k \in Referring(i) : Goto(t, "check", {}, <<k>>)  BY <2>2
    <3>2. PICK plan : plan = <<k>>  OBVIOUS
    <3>3. Goto(t, "check", {}, plan)  BY <3>1, <3>2
    <3> QED  BY <1>i, <1>2, <3>2, <3>3, CheckSteps
  <2>3. CASE (\A j \in Doomed(i) : ~Referenced(j)) /\ Removed(t)
    BY <1>i, <1>2, <2>3, RemoveSteps
  <2> QED  BY <1>i, <2>1, <2>2, <2>3, Zenon DEF DeleteDictionary
<1> QED  BY <1>1, <1>2 DEF DeleteDictionary

(* A request to delete an item begins. *)
LEMMA DeleteBegins ==
  ASSUME Sound, NEW t \in Tx, NEW i \in Item, NEW kind \in Kind, BeginDelete(t, i, kind)
  PROVE  Sound'
<1> DEFINE op == "deleteItem"
           plan == <<Update("item", i)>>
<1>1. op \in {"renameItem", "deleteItem"} /\ op # "renameItem" /\ plan = <<Update("item", i)>>
      /\ CanBegin(t) /\ Begin(t, op, i, None, plan)
  BY DEF BeginDelete
<1> HIDE DEF op, plan
<1>2. PICK arg : arg = None  OBVIOUS
<1> QED  BY <1>1, <1>2, ItemBegins

-----------------------------------------------------------------------------
(* A suggestion that is rejected. *)
LEMMA RejectSteps ==
  ASSUME Sound, NEW s \in Sugg, Reject(s)
  PROVE  Sound'
<1>0. /\ Typed /\ KeysSound /\ \A p \in Post : Current(p)
      /\ \A p \in Post : Len(hist[p]) \in Nat
  BY SoundParts
<1> DEFINE row == [sugg[s] EXCEPT !.st = "rejected"]
<1>1. /\ AtOnce /\ Free(Update("sugg", s)) /\ sugg[s].st = "pending"
      /\ sugg' = [sugg EXCEPT ![s] = row] /\ UNCHANGED <<item, tag, post, hist, text>>
  BY DEF Reject, ReviewSuggestion
<1>2. /\ row \in SuggRow /\ row.st = "rejected" /\ row.kind = sugg[s].kind /\ row.name = sugg[s].name
      /\ row.parent = sugg[s].parent /\ row.canteen = sugg[s].canteen /\ row.result = sugg[s].result
  BY <1>0 DEF Typed, SuggRow
<1> HIDE DEF row
<1>3. sugg'[s] = row /\ \A r \in Sugg \ {s} : sugg'[r] = sugg[r]  BY <1>0, <1>1 DEF Typed
<1>4. Typed'  BY <1>0, <1>1, <1>2 DEF Typed
<1>5. \A r \in Sugg : /\ sugg'[r].kind = sugg[r].kind /\ sugg'[r].parent = sugg[r].parent
                      /\ sugg'[r].canteen = sugg[r].canteen /\ sugg'[r].result = sugg[r].result
                      /\ sugg'[r].name = sugg[r].name /\ (sugg'[r].st = "none" <=> sugg[r].st = "none")
  <2> SUFFICES ASSUME NEW r \in Sugg
               PROVE  /\ sugg'[r].kind = sugg[r].kind /\ sugg'[r].parent = sugg[r].parent
                      /\ sugg'[r].canteen = sugg[r].canteen /\ sugg'[r].result = sugg[r].result
                      /\ sugg'[r].name = sugg[r].name /\ (sugg'[r].st = "none" <=> sugg[r].st = "none")
    OBVIOUS
  <2>1. CASE r = s  BY <1>1, <1>2, <1>3, <2>1
  <2>2. CASE r # s  BY <1>3, <2>2
  <2> QED  BY <2>1, <2>2
<1>6. KeysSound'
  <2>1. \A i \in Item : Referenced(i)' => Exists(i)'
    <3>1. \A i \in Item : Referenced(i)' <=> Referenced(i)  BY <1>1, <1>5 DEF Referenced
    <3> QED  BY <1>0, <1>1, <3>1 DEF KeysSound, Exists
  <2>2. \A i \in Item : Exists(i)' => IF item'[i].kind = "window" THEN item'[i].of \in Of("canteen")'
                                                                  ELSE item'[i].of = None
    BY <1>0, <1>1 DEF KeysSound, Exists, Of
  <2>3. \A p \in Post : \A i \in post'[p].tags : Named(i)'  BY <1>0, <1>1 DEF KeysSound, Named
  <2>4. \A r \in Sugg : sugg'[r].st = "none" => sugg'[r] = NoSugg
    BY <1>0, <1>1, <1>2, <1>3 DEF KeysSound
  <2>5. \A r \in Sugg : sugg[r].parent # None => sugg[r].parent \in Sugg  BY <1>0 DEF Typed, SuggRow
  <2>6. \A r \in Sugg : sugg'[r].parent # None =>
             /\ sugg'[r].kind = "window"
             /\ sugg'[sugg'[r].parent].st # "none" /\ sugg'[sugg'[r].parent].kind = "canteen"
    BY <1>0, <1>5, <2>5 DEF KeysSound
  <2>7. Titled'  BY <1>0, <1>1, <1>5 DEF KeysSound, Titled, Exists
  <2> QED  BY <2>1, <2>2, <2>3, <2>4, <2>6, <2>7 DEF KeysSound
<1>7. SnapshotCurrent'
  <2> SUFFICES ASSUME NEW p \in Post PROVE Current(p)'  BY CurrentPosts
  <2> QED  BY <1>0, <1>1, CurrentKept
<1>8. ASSUME NEW w \in Tx PROVE Stands(w)
  <2>1. \A r \in Sugg : sugg[r].st # "none" =>
          /\ sugg'[r].st # "none" /\ sugg'[r].kind = sugg[r].kind
          /\ \/ sugg'[r] = sugg[r]
             \/ sugg[r].st # "approved" /\ ~HeldAgainst(w, Update("sugg", r))
    BY <1>1, <1>3, <1>5 DEF Free
  <2>2. tx[w].op = "suggest" => sugg'[tx[w].on].st = "none"  BY <1>5, SuggestDraws
  <2>3. \A p \in Post : Len(hist'[p]) >= Len(hist[p])  BY <1>0, <1>1
  <2> QED  BY <1>1, <2>1, <2>2, <2>3 DEF Stands, Exists, Named
<1> QED  BY <1>1, <1>4, <1>6, <1>7, <1>8, AtOnceStep

-----------------------------------------------------------------------------
(* Tags and posts, but for the names of tags and what posts are filed under. *)
LEMMA FiledStep ==
  ASSUME Sound, AtOnce, UNCHANGED <<item, sugg, hist>>, Typed',
         \A i \in Tag : tag'[i].name = tag[i].name,
         \A p \in Post : /\ post'[p].tags = post[p].tags /\ post'[p].words = post[p].words
                         /\ post'[p].rev = post[p].rev /\ post'[p].put = post[p].put
  PROVE  Sound'
<1>0. /\ Typed /\ KeysSound /\ \A p \in Post : Current(p)
      /\ \A p \in Post : post[p].tags \subseteq Tag /\ Len(hist[p]) \in Nat
  BY SoundParts
<1>1. KeysSound'
  <2>1. \A i \in Item : Referenced(i)' <=> Referenced(i)  BY DEF Referenced
  <2>2. \A i \in Item : Exists(i)' <=> Exists(i)  BY DEF Exists
  <2>3. \A i \in Tag : Named(i)' <=> Named(i)  BY DEF Named
  <2> QED  BY <1>0, <2>1, <2>2, <2>3 DEF KeysSound, Titled, Of
<1>2. SnapshotCurrent'
  <2> SUFFICES ASSUME NEW p \in Post PROVE Current(p)'  BY CurrentPosts
  <2> QED  BY <1>0, CurrentKept
<1>3. ASSUME NEW w \in Tx PROVE Stands(w)
  <2>1. tx[w].op = "suggest" => sugg'[tx[w].on].st = "none"  BY SuggestDraws
  <2>2. \A p \in Post : Len(hist'[p]) >= Len(hist[p])  BY <1>0
  <2> QED  BY <2>1, <2>2 DEF Stands, Exists, Named
<1> QED  BY <1>1, <1>2, <1>3, AtOnceStep

(* A tag keeps its name. *)
LEMMA TagRowSteps ==
  ASSUME Sound, AtOnce, UNCHANGED <<item, sugg, post, hist, text>>, NEW i \in Tag,
         NEW row \in TagRow, row.name = tag[i].name, tag' = [tag EXCEPT ![i] = row]
  PROVE  Sound'
<1>0. Typed  BY SoundParts
<1>1. \A j \in Tag : tag'[j].name = tag[j].name  BY <1>0 DEF Typed
<1>2. Typed'  BY <1>0 DEF Typed
<1> QED  BY <1>1, <1>2, FiledStep

(* A tag is deleted, restored or reviewed. *)
LEMMA ManageTagsSteps ==
  ASSUME Sound, ManageTags
  PROVE  Sound'
<1>0. Typed  BY SoundParts
<1>1. ASSUME NEW i \in Tag, NEW gone \in BOOLEAN, setTagDeleted(i, gone) PROVE Sound'
  <2> DEFINE row == [tag[i] EXCEPT !.gone = gone]
  <2>1. row \in TagRow /\ row.name = tag[i].name  BY <1>0 DEF Typed, TagRow
  <2>2. AtOnce /\ UNCHANGED <<item, sugg, post, hist, text>> /\ tag' = [tag EXCEPT ![i] = row]
    BY <1>0, <1>1 DEF setTagDeleted, Typed
  <2> HIDE DEF row
  <2> QED  BY <2>1, <2>2, TagRowSteps
<1>2. ASSUME NEW i \in Tag, NEW v \in {"pass", "block"}, ManualReview(i, v) PROVE Sound'
  <2> DEFINE row == applyManualTagVerdict(i, v)
  <2>1. row \in TagRow /\ row.name = tag[i].name
    <3> DEFINE gone == tag[i].gone \/ v = "block"
               open == FALSE
    <3>1. row = [tag[i] EXCEPT !.mod = v, !.open = open, !.gone = gone]
      BY DEF applyManualTagVerdict
    <3>2. gone \in BOOLEAN /\ open \in BOOLEAN /\ v \in Verdict  BY DEF Verdict
    <3> HIDE DEF gone, open, row
    <3> QED  BY <1>0, <3>1, <3>2 DEF Typed, TagRow
  <2>2. AtOnce /\ UNCHANGED <<item, sugg, post, hist, text>> /\ tag' = [tag EXCEPT ![i] = row]
    BY <1>2 DEF ManualReview
  <2> HIDE DEF row
  <2> QED  BY <2>1, <2>2, TagRowSteps
<1> QED  BY <1>1, <1>2 DEF ManageTags, DeleteTag, RestoreTag

(* A post keeps its revision and what it refers to. *)
LEMMA PostRowSteps ==
  ASSUME Sound, AtOnce, UNCHANGED <<item, sugg, tag, hist>>, NEW p \in Post,
         NEW row \in PostRow, post' = [post EXCEPT ![p] = row],
         row.tags = post[p].tags, row.words = post[p].words, row.rev = post[p].rev, row.put = post[p].put,
         text' \in [Post -> Seq(TextRecord)], \A r \in Post : Len(text'[r]) = Len(text[r])
  PROVE  Sound'
<1>0. Typed  BY SoundParts
<1>1. post'[p] = row /\ \A r \in Post \ {p} : post'[r] = post[r]  BY <1>0 DEF Typed
<1>2. \A r \in Post : /\ post'[r].tags = post[r].tags /\ post'[r].words = post[r].words
                      /\ post'[r].rev = post[r].rev /\ post'[r].put = post[r].put
  BY <1>1
<1>3. post' \in [Post -> PostRow]  BY <1>0 DEF Typed
<1>4. Typed'
  <2>1. \A r \in Post : /\ Len(hist'[r]) = Len(text'[r]) /\ post'[r].rev \in 0 .. Len(hist'[r])
                        /\ post'[r].put => post'[r].rev > 0
    BY <1>0, <1>2 DEF Typed
  <2> QED  BY <1>0, <1>3, <2>1 DEF Typed
<1> QED  BY <1>2, <1>4, FiledStep

(* A post is deleted or reviewed. *)
LEMMA ManagePostsSteps ==
  ASSUME Sound, ManagePosts
  PROVE  Sound'
<1>0. Typed  BY SoundParts
<1>1. ASSUME NEW p \in Post, DeletePost(p) PROVE Sound'
  <2> DEFINE row == [post[p] EXCEPT !.del = TRUE]
  <2>1. /\ row \in PostRow /\ row.tags = post[p].tags /\ row.words = post[p].words
        /\ row.rev = post[p].rev /\ row.put = post[p].put
    BY <1>0 DEF Typed, PostRow
  <2>2. AtOnce /\ UNCHANGED <<item, sugg, tag, hist, text>> /\ post' = [post EXCEPT ![p] = row]
    BY <1>0, <1>1 DEF DeletePost, Typed
  <2>3. text' \in [Post -> Seq(TextRecord)] /\ \A r \in Post : Len(text'[r]) = Len(text[r])
    BY <1>0, <2>2 DEF Typed
  <2> HIDE DEF row
  <2> QED  BY <2>1, <2>2, <2>3, PostRowSteps
<1>2. ASSUME NEW p \in Post, NEW v \in {"pass", "block"}, ManualReviewPost(p, v) PROVE Sound'
  <2> DEFINE st == aggregatePostModeration(v)
             row == [post[p] EXCEPT !.st = st]
             n == post[p].rev
             rec == [last |-> v, open |-> FALSE]
             recs == [text[p] EXCEPT ![n] = rec]
  <2>0. st \in {"none", "draft", "pending", "approved", "rejected"}  BY DEF aggregatePostModeration
  <2>1. /\ row \in PostRow /\ row.tags = post[p].tags /\ row.words = post[p].words
        /\ row.rev = post[p].rev /\ row.put = post[p].put
    <3> HIDE DEF st
    <3> QED  BY <1>0, <2>0 DEF Typed, PostRow
  <2>2. /\ AtOnce /\ UNCHANGED <<item, sugg, tag, hist>> /\ post' = [post EXCEPT ![p] = row]
        /\ text' = [text EXCEPT ![p] = recs] /\ p \in Queue
    <3> HIDE DEF st, rec, n
    <3>1. /\ AtOnce /\ UNCHANGED <<item, sugg, tag, hist>> /\ p \in Queue
          /\ post' = [post EXCEPT ![p].st = st] /\ text' = [text EXCEPT ![p][n] = rec]
      BY <1>2 DEF ManualReviewPost, st, rec, n
    <3> QED  BY <1>0, <3>1 DEF Typed
  <2>3. rec \in TextRecord  BY DEF TextRecord, Verdict
  <2>4. recs \in Seq(TextRecord) /\ Len(recs) = Len(text[p])
    <3> DEFINE q == text[p]
    <3>1. q \in Seq(TextRecord) /\ n \in 1 .. Len(q)
      <4>1. post[p].rev > 0 /\ post[p].rev \in 0 .. Len(hist[p]) /\ Len(hist[p]) = Len(text[p])
        BY <1>0, <2>2 DEF Queue, pendingModerationQuery, Typed
      <4>2. text[p] \in Seq(TextRecord)  BY <1>0 DEF Typed
      <4>3. Len(text[p]) \in Nat  BY <4>2
      <4> QED  BY <4>1, <4>2, <4>3
    <3>2. recs = [q EXCEPT ![n] = rec]  OBVIOUS
    <3> HIDE DEF q, n, rec, recs
    <3>3. recs \in Seq(TextRecord) /\ Len(recs) = Len(q)  BY <2>3, <3>1, <3>2, ExceptSeq
    <3> QED  BY <3>3 DEF q
  <2> HIDE DEF row, recs
  <2>5. text' \in [Post -> Seq(TextRecord)] /\ \A r \in Post : Len(text'[r]) = Len(text[r])
    BY <1>0, <2>2, <2>4 DEF Typed
  <2> QED  BY <2>1, <2>2, <2>5, PostRowSteps
<1> QED  BY <1>1, <1>2 DEF ManagePosts

-----------------------------------------------------------------------------
(* A suggestion is submitted. *)
LEMMA SuggestCommit ==
  ASSUME Sound, NEW t \in Tx, At(t, "suggest", "commit"),
         tx[t].arg.canteen # None => Exists(tx[t].arg.canteen),
         sugg' = [sugg EXCEPT ![tx[t].on] = tx[t].arg],
         Committed(t), UNCHANGED <<item, tag, post, hist, text>>
  PROVE  Sound'
<1> DEFINE s == tx[t].on
           row == tx[t].arg
<1>0. /\ Typed /\ KeysSound /\ \A p \in Post : Current(p)
      /\ \A p \in Post : Len(hist[p]) \in Nat
      /\ SuggestSound(t) /\ tx[t].op = "suggest" /\ tx[t].pc # "idle"
  BY SoundParts, TxParts DEF At
<1>1. /\ s \in Sugg /\ sugg[s].st = "none" /\ row \in SuggRow /\ row.st = "pending"
      /\ row.result = None /\ row.name # None
      /\ row.parent # None =>
           /\ row.kind = "window"
           /\ sugg[row.parent].st # "none" /\ sugg[row.parent].kind = "canteen"
      /\ row.canteen # None => Exists(row.canteen)
      /\ sugg' = [sugg EXCEPT ![s] = row]
  BY <1>0 DEF SuggestSound
<1>2. \A w \in Tx \ {t} : tx[w].op = "suggest" => tx[w].on # s
  BY <1>0 DEF Sound, Drawn
<1> HIDE DEF s, row
<1>3. sugg'[s] = row /\ \A r \in Sugg \ {s} : sugg'[r] = sugg[r]  BY <1>0, <1>1 DEF Typed
<1>4. Typed'  BY <1>0, <1>1 DEF Typed
<1>5. \A r \in Sugg : sugg[r].st # "none" => sugg'[r] = sugg[r]  BY <1>1, <1>3
<1>6. KeysSound'
  <2>1. ASSUME NEW i \in Item, Referenced(i)' PROVE Exists(i)'
    <3>1. Referenced(i) \/ i = row.canteen
      <4>1. i # None  BY NoneAssumption
      <4> QED  BY <1>1, <1>3, <2>1, <4>1 DEF Referenced
    <3>2. Exists(i)  BY <1>0, <1>1, <3>1, NoneAssumption DEF KeysSound
    <3> QED  BY <3>2 DEF Exists
  <2>2. \A i \in Item : Exists(i)' => IF item'[i].kind = "window" THEN item'[i].of \in Of("canteen")'
                                                                  ELSE item'[i].of = None
    BY <1>0 DEF KeysSound, Exists, Of
  <2>3. \A p \in Post : \A i \in post'[p].tags : Named(i)'  BY <1>0 DEF KeysSound, Named
  <2>4. \A r \in Sugg : sugg'[r].st = "none" => sugg'[r] = NoSugg
    BY <1>0, <1>1, <1>3 DEF KeysSound
  <2>5. \A r \in Sugg : sugg[r].parent # None => sugg[r].parent \in Sugg  BY <1>0 DEF Typed, SuggRow
  <2>6. row.parent # None => row.parent \in Sugg  BY <1>1 DEF SuggRow
  <2>7. ASSUME NEW r \in Sugg, sugg'[r].parent # None
        PROVE  /\ sugg'[r].kind = "window"
               /\ sugg'[sugg'[r].parent].st # "none" /\ sugg'[sugg'[r].parent].kind = "canteen"
    <3>1. CASE r = s
      <4>1. sugg'[row.parent] = sugg[row.parent]  BY <1>1, <1>3, <1>5, <2>6, <2>7, <3>1
      <4> QED  BY <1>1, <1>3, <2>7, <3>1, <4>1
    <3>2. CASE r # s
      <4>1. /\ sugg'[r] = sugg[r] /\ sugg[r].kind = "window" /\ sugg[r].parent \in Sugg
            /\ sugg[sugg[r].parent].st # "none" /\ sugg[sugg[r].parent].kind = "canteen"
        BY <1>0, <1>3, <2>5, <2>7, <3>2 DEF KeysSound
      <4>2. sugg'[sugg[r].parent] = sugg[sugg[r].parent]  BY <1>5, <4>1
      <4> QED  BY <4>1, <4>2
    <3> QED  BY <3>1, <3>2
  <2>8. Titled'  BY <1>0, <1>1, <1>3 DEF KeysSound, Titled, Exists
  <2> QED  BY <2>1, <2>2, <2>3, <2>4, <2>7, <2>8 DEF KeysSound
<1>7. SnapshotCurrent'
  <2> SUFFICES ASSUME NEW p \in Post PROVE Current(p)'  BY CurrentPosts
  <2> QED  BY <1>0, CurrentKept
<1>8. ASSUME NEW w \in Tx \ {t} PROVE Stands(w)
  <2>1. tx[w].op = "suggest" => sugg'[tx[w].on].st = "none"  BY <1>2, <1>3, SuggestDraws
  <2>2. \A p \in Post : Len(hist'[p]) >= Len(hist[p])  BY <1>0
  <2> QED  BY <1>5, <2>1, <2>2 DEF Stands, Exists, Named
<1> QED  BY <1>0, <1>4, <1>6, <1>7, <1>8, CommitStep


-----------------------------------------------------------------------------
(* What the rows of a post say has the type of a snapshot. *)
LEMMA SnapshotTypes ==
  ASSUME NEW T \in SUBSET Tag, NEW W \in SUBSET Item,
         NEW row, row.tags = T, row.words = W,
         NEW tags \in [Tag -> TagRow], NEW items \in [Item -> ItemRow],
         \A i \in T : tags[i].name # None, \A i \in W : items[i].name # None
  PROVE  LoadSnapshotRelations(row, tags, items) \in Snapshot
<1> DEFINE A == {tags[i].name : i \in T}
           B == {items[i].name : i \in {i \in W : items[i].kind = "flavor"}}
           C == {i \in W : items[i].kind # "flavor"}
<1>1. \A i \in T : tags[i].name \in Name  BY DEF TagRow
<1>2. \A i \in W : items[i].name \in Name  BY DEF ItemRow
<1>3. A \in SUBSET Name /\ B \in SUBSET Name /\ C \in SUBSET Item  BY <1>1, <1>2
<1>4. LoadSnapshotRelations(row, tags, items) = [tags |-> A, flavors |-> B, ids |-> C]
  BY DEF LoadSnapshotRelations
<1> HIDE DEF A, B, C
<1> QED  BY <1>3, <1>4 DEF Snapshot

(* A revision that is appended. *)
LEMMA Appended ==
  ASSUME NEW S, NEW q \in Seq(S), NEW x \in S
  PROVE  /\ Append(q, x) \in Seq(S) /\ Len(Append(q, x)) = Len(q) + 1 /\ Len(q) \in Nat
         /\ Append(q, x)[Len(q) + 1] = x
  OBVIOUS

(* A post of which a revision is written. *)
LEMMA CurrentWritten ==
  ASSUME NEW p, NEW row, NEW S, hist[p] \in Seq(S), NEW tags, NEW items,
         post'[p] = row, row.rev = NextHistoryRevision(p), items = item',
         \A i \in row.tags : tags[i].name = tag'[i].name,
         NEW x \in S, x = LoadSnapshotRelations(row, tags, items),
         hist'[p] = Append(hist[p], x)
  PROVE  Current(p)'
<1> DEFINE q == hist[p]
<1>0. {tag'[i].name : i \in row.tags} = {tags[i].name : i \in row.tags}  OBVIOUS
<1>1. x.tags = {tag'[i].name : i \in row.tags} /\ x.ids = {i \in row.words : item'[i].kind # "flavor"}
  BY <1>0 DEF LoadSnapshotRelations
<1>2. Append(q, x)[Len(q) + 1] = x  BY Appended
<1>3. hist'[p][row.rev] = x  BY <1>2 DEF NextHistoryRevision
<1> QED  BY <1>1, <1>3 DEF Current

-----------------------------------------------------------------------------
(* What a change of tags has to respect: the names that are in use, the posts *)
(* it does not know of and what the other requests have locked.               *)
TagChange(t, tags, affected, rows) ==
    /\ tags \in [Tag -> TagRow] /\ tag' \in [Tag -> TagRow]
    /\ \A i \in Tag : tag'[i].name = tags[i].name
    /\ \A i \in Tag : Named(i) => tags[i].name # None
    /\ \A p \in Post : /\ rows[p] \in PostRow /\ rows[p].words = post[p].words
                       /\ \A i \in rows[p].tags : tags[i].name # None
    /\ \A p \in Post : p \notin affected =>
          rows[p] = post[p] /\ \A i \in post[p].tags : tags[i].name = tag[i].name
    /\ \A w \in Tx \ {t} : \A i \in Tag : Named(i) =>
          tags[i].name = tag[i].name \/ ~HeldAgainst(w, Update("tag", i))
    /\ \A w \in Tx \ {t} : \A p \in Post : \A i \in rows[p].tags :
          i \in post[p].tags \/ ~HeldAgainst(w, KeyShare("tag", i))

(* A change of tags that writes the next revision of the posts it concerns.  *)
LEMMA TagCommit ==
  ASSUME Sound, NEW t \in Tx, tx[t].pc # "idle", Committed(t), UNCHANGED <<item, sugg>>,
         NEW tags, NEW affected, NEW rows, TagChange(t, tags, affected, rows),
         appendTagChangeVersions(affected, rows, tags)
  PROVE  Sound'
<1>0. /\ Typed /\ KeysSound /\ \A p \in Post : Current(p)
      /\ \A p \in Post : /\ post[p].tags \subseteq Tag /\ post[p].words \subseteq Item
                         /\ Len(hist[p]) \in Nat
                         /\ hist[p] \in Seq(Snapshot) /\ text[p] \in Seq(TextRecord)
      /\ \A p \in Post : \A i \in post[p].words : Exists(i)
  BY SoundParts
<1>c. /\ tags \in [Tag -> TagRow] /\ tag' \in [Tag -> TagRow]
      /\ \A i \in Tag : tag'[i].name = tags[i].name
      /\ \A i \in Tag : Named(i) => tags[i].name # None
      /\ \A p \in Post : /\ rows[p] \in PostRow /\ rows[p].words = post[p].words
                         /\ \A i \in rows[p].tags : tags[i].name # None
      /\ \A p \in Post : p \notin affected =>
            rows[p] = post[p] /\ \A i \in post[p].tags : tags[i].name = tag[i].name
      /\ \A w \in Tx \ {t} : \A i \in Tag : Named(i) =>
            tags[i].name = tag[i].name \/ ~HeldAgainst(w, Update("tag", i))
      /\ \A w \in Tx \ {t} : \A p \in Post : \A i \in rows[p].tags :
            i \in post[p].tags \/ ~HeldAgainst(w, KeyShare("tag", i))
  BY DEF TagChange
<1> DEFINE next(p) == [rows[p] EXCEPT !.rev = NextHistoryRevision(p), !.put = TRUE]
           now == [p \in Post |-> IF p \in affected THEN next(p) ELSE rows[p]]
           snap(p) == LoadSnapshotRelations(now[p], tags, item)
<1>1. /\ post' = now
      /\ hist' = [p \in Post |-> IF p \in affected THEN Append(hist[p], snap(p)) ELSE hist[p]]
      /\ text' = [p \in Post |-> IF p \in affected THEN Append(text[p], NoText) ELSE text[p]]
  BY DEF appendTagChangeVersions
<1>2. ASSUME NEW p \in Post
      PROVE  /\ next(p) \in PostRow /\ next(p).tags = rows[p].tags /\ next(p).words = post[p].words
             /\ next(p).rev = NextHistoryRevision(p)
  <2> DEFINE n == NextHistoryRevision(p)
             r == rows[p]
             put == TRUE
  <2>1. n \in Nat /\ put \in BOOLEAN /\ r \in PostRow /\ r.words = post[p].words
    BY <1>0, <1>c DEF NextHistoryRevision
  <2> HIDE DEF n, r, put
  <2>2. /\ [r EXCEPT !.rev = n, !.put = put] \in PostRow
        /\ [r EXCEPT !.rev = n, !.put = put].tags = r.tags
        /\ [r EXCEPT !.rev = n, !.put = put].words = r.words
        /\ [r EXCEPT !.rev = n, !.put = put].rev = n
    BY <2>1 DEF PostRow
  <2> QED  BY <2>1, <2>2 DEF r, n, put
<1>3. ASSUME NEW p \in Post
      PROVE  /\ now[p] \in PostRow /\ now[p].tags = rows[p].tags /\ now[p].words = post[p].words
             /\ p \in affected => now[p].rev = NextHistoryRevision(p)
             /\ p \notin affected => now[p] = post[p]
  <2> HIDE DEF next
  <2> QED  BY <1>2, <1>c
<1>4. ASSUME NEW p \in Post PROVE snap(p) \in Snapshot
  <2> DEFINE r == now[p]
             T == r.tags
             W == r.words
  <2>1. T \in SUBSET Tag /\ W \in SUBSET Item  BY <1>3 DEF PostRow
  <2>2. \A i \in T : tags[i].name # None  BY <1>3, <1>c
  <2>3. \A i \in W : item[i].name # None  BY <1>0, <1>3 DEF KeysSound, Titled
  <2>4. item \in [Item -> ItemRow]  BY <1>0 DEF Typed
  <2>5. T = r.tags /\ W = r.words /\ tags \in [Tag -> TagRow]  BY <1>c
  <2> HIDE DEF r, T, W
  <2>6. LoadSnapshotRelations(r, tags, item) \in Snapshot  BY <2>1, <2>2, <2>3, <2>4, <2>5, SnapshotTypes
  <2> QED  BY <2>6 DEF r
<1> HIDE DEF now
<1>5. ASSUME NEW p \in Post
      PROVE  /\ post'[p] = now[p]
             /\ hist'[p] = IF p \in affected THEN Append(hist[p], snap(p)) ELSE hist[p]
             /\ text'[p] = IF p \in affected THEN Append(text[p], NoText) ELSE text[p]
  BY <1>1
<1> HIDE DEF snap
<1>6. NoText \in TextRecord  BY DEF NoText, TextRecord
<1>7. ASSUME NEW p \in Post
      PROVE  /\ hist'[p] \in Seq(Snapshot) /\ text'[p] \in Seq(TextRecord)
             /\ Len(hist'[p]) = Len(text'[p]) /\ Len(hist'[p]) >= Len(hist[p])
             /\ post'[p].rev \in 0 .. Len(hist'[p]) /\ (post'[p].put => post'[p].rev > 0)
  <2>1. /\ hist[p] \in Seq(Snapshot) /\ text[p] \in Seq(TextRecord) /\ Len(hist[p]) = Len(text[p])
        /\ post[p].rev \in 0 .. Len(hist[p]) /\ (post[p].put => post[p].rev > 0)
    BY <1>0 DEF Typed
  <2>2. CASE p \notin affected  BY <1>0, <1>3, <1>5, <2>1, <2>2
  <2>3. CASE p \in affected
    <3> DEFINE h == hist[p]
               x == text[p]
    <3>1. h \in Seq(Snapshot) /\ x \in Seq(TextRecord) /\ snap(p) \in Snapshot /\ Len(h) = Len(x)
      BY <1>4, <2>1
    <3>2. /\ hist'[p] = Append(h, snap(p)) /\ text'[p] = Append(x, NoText)
          /\ post'[p].rev = Len(h) + 1
      BY <1>3, <1>5, <2>3 DEF NextHistoryRevision
    <3> HIDE DEF h, x
    <3>3. /\ Append(h, snap(p)) \in Seq(Snapshot) /\ Len(Append(h, snap(p))) = Len(h) + 1 /\ Len(h) \in Nat
          /\ Append(x, NoText) \in Seq(TextRecord) /\ Len(Append(x, NoText)) = Len(x) + 1
      BY <1>6, <3>1, Appended
    <3>4. /\ hist'[p] \in Seq(Snapshot) /\ text'[p] \in Seq(TextRecord)
          /\ Len(hist'[p]) = Len(h) + 1 /\ Len(text'[p]) = Len(h) + 1 /\ Len(h) \in Nat
      BY <3>1, <3>2, <3>3
    <3>5. /\ Len(hist'[p]) >= Len(h) /\ Len(h) + 1 \in 0 .. Len(hist'[p]) /\ Len(h) + 1 > 0
      BY <3>4
    <3> QED  BY <3>2, <3>4, <3>5 DEF h
  <2> QED  BY <2>2, <2>3
<1>8. Typed'
  <2>1. post' \in [Post -> PostRow]
    <3>1. post' = [p \in Post |-> post'[p]]  BY <1>1 DEF now
    <3> QED  BY <1>3, <1>5, <3>1
  <2>2. hist' \in [Post -> Seq(Snapshot)]
    <3>1. hist' = [p \in Post |-> hist'[p]]  BY <1>1, Zenon
    <3>2. \A p \in Post : hist'[p] \in Seq(Snapshot)  BY <1>7
    <3> QED  BY <3>1, <3>2
  <2>3. text' \in [Post -> Seq(TextRecord)]
    <3>1. text' = [p \in Post |-> text'[p]]  BY <1>1, Zenon
    <3>2. \A p \in Post : text'[p] \in Seq(TextRecord)  BY <1>7
    <3> QED  BY <3>1, <3>2
  <2> QED  BY <1>0, <1>7, <1>c, <2>1, <2>2, <2>3 DEF Typed
<1>9. \A p \in Post : post'[p].tags = rows[p].tags /\ post'[p].words = post[p].words  BY <1>3, <1>5
<1>10. KeysSound'
  <2>1. \A i \in Item : Referenced(i)' <=> Referenced(i)  BY <1>9 DEF Referenced
  <2>2. \A i \in Item : Exists(i)' <=> Exists(i)  BY DEF Exists
  <2>3. \A p \in Post : \A i \in post'[p].tags : Named(i)'  BY <1>9, <1>c DEF Named, PostRow
  <2>4. Titled'  BY <1>0, <2>2 DEF KeysSound, Titled
  <2> QED  BY <1>0, <2>1, <2>2, <2>3, <2>4 DEF KeysSound, Of
<1>11. SnapshotCurrent'
  <2> SUFFICES ASSUME NEW p \in Post PROVE Current(p)'  BY CurrentPosts
  <2>1. CASE p \notin affected
    <3>1. post'[p] = post[p] /\ hist'[p] = hist[p]  BY <1>3, <1>5, <2>1
    <3> QED  BY <1>0, <1>c, <2>1, <3>1, CurrentKept
  <2>2. CASE p \in affected
    <3> DEFINE r == now[p]
               x == snap(p)
    <3>1. /\ hist[p] \in Seq(Snapshot) /\ post'[p] = r /\ r.rev = NextHistoryRevision(p)
          /\ hist'[p] = Append(hist[p], x) /\ x \in Snapshot
      BY <1>0, <1>3, <1>4, <1>5, <2>2
    <3>2. x = LoadSnapshotRelations(r, tags, item)  BY DEF snap
    <3>3. item = item' /\ \A i \in r.tags : tags[i].name = tag'[i].name
      BY <1>3, <1>c DEF PostRow
    <3> HIDE DEF r, x
    <3> QED  BY <3>1, <3>2, <3>3, CurrentWritten
  <2> QED  BY <2>1, <2>2
<1>12. ASSUME NEW w \in Tx \ {t} PROVE Stands(w)
  <2>1. tx[w].op = "suggest" => sugg'[tx[w].on].st = "none"  BY SuggestDraws
  <2>2. \A p \in Post : Len(hist'[p]) >= Len(hist[p])  BY <1>7
  <2>3. \A i \in Tag : Named(i) => Named(i)' /\ (tag'[i].name = tag[i].name \/ ~HeldAgainst(w, Update("tag", i)))
    BY <1>c DEF Named
  <2>4. \A p \in Post : \A i \in Tag : i \in post'[p].tags =>
          i \in post[p].tags \/ ~Named(i) \/ ~HeldAgainst(w, KeyShare("tag", i))
    BY <1>9, <1>c
  <2> QED  BY <2>1, <2>2, <2>3, <2>4 DEF Stands, Exists
<1> QED  BY <1>8, <1>10, <1>11, <1>12, CommitStep

(* A rename commits: the posts with the tag are the ones that are locked. *)
LEMMA RenameCommit ==
  ASSUME Sound, NEW t \in Tx, At(t, "rename", "commit"), NEW i, i = tx[t].on, NEW name, name = tx[t].arg,
         NEW tags, tags = [tag EXCEPT ![i].name = name], tag' = tags,
         appendTagChangeVersions(tx[t].at, post, tags), Committed(t), UNCHANGED <<item, sugg>>
  PROVE  Sound'
<1> DEFINE affected == tx[t].at
           row == [tag[i] EXCEPT !.name = name]
           rows == post
<1>0. /\ TagSound(t) /\ tx[t].op = "rename" /\ tx[t].pc = "commit" /\ Typed /\ KeysSound
  BY TxParts DEF At, Sound
<1>1. /\ i \in Tag /\ Named(i) /\ name \in Name /\ Update("tag", i) \in tx[t].held
      /\ FindTagPostIDs(i) \subseteq affected
  BY <1>0 DEF TagSound
<1>2. row \in TagRow /\ row.name = name /\ tags = [tag EXCEPT ![i] = row]
  BY <1>0, <1>1 DEF Typed, TagRow
<1> HIDE DEF row, affected
<1>3. tags \in [Tag -> TagRow] /\ \A j \in Tag : tags[j] = IF j = i THEN row ELSE tag[j]
  BY <1>0, <1>1, <1>2 DEF Typed
<1>4. \A j \in Tag : Named(j) => tags[j].name # None
  BY <1>1, <1>2, <1>3, NoneAssumption DEF Named
<1>5. \A p \in Post : /\ rows[p] \in PostRow /\ rows[p].words = post[p].words
                      /\ \A j \in rows[p].tags : tags[j].name # None
  BY <1>0, <1>4 DEF Typed, KeysSound, PostRow
<1>6. \A p \in Post : p \notin affected =>
        rows[p] = post[p] /\ \A j \in post[p].tags : tags[j].name = tag[j].name
  <2> SUFFICES ASSUME NEW p \in Post, p \notin affected, NEW j \in post[p].tags
               PROVE  tags[j].name = tag[j].name
    OBVIOUS
  <2>1. i \notin post[p].tags  BY <1>1 DEF FindTagPostIDs
  <2>2. j \in Tag /\ j # i  BY <1>5, <2>1 DEF PostRow
  <2> QED  BY <1>3, <2>2
<1>7. \A w \in Tx \ {t} : \A j \in Tag : Named(j) =>
        tags[j].name = tag[j].name \/ ~HeldAgainst(w, Update("tag", j))
  BY <1>1, <1>3, HeldAlone
<1>8. \A w \in Tx \ {t} : \A p \in Post : \A j \in rows[p].tags :
        j \in post[p].tags \/ ~HeldAgainst(w, KeyShare("tag", j))
  OBVIOUS
<1>9. tx[t].pc # "idle" /\ appendTagChangeVersions(affected, rows, tags)
  BY <1>0 DEF affected
<1>10. tag' \in [Tag -> TagRow] /\ \A j \in Tag : tag'[j].name = tags[j].name  BY <1>3
<1> HIDE DEF rows
<1>11. TagChange(t, tags, affected, rows)
  BY <1>3, <1>4, <1>5, <1>6, <1>7, <1>8, <1>10 DEF TagChange
<1> QED  BY <1>9, <1>11, TagCommit

(* A merge commits: the posts of the source are the ones that are locked. *)
LEMMA MergeCommit ==
  ASSUME Sound, NEW t \in Tx, At(t, "merge", "commit"), NEW i, i = tx[t].on, NEW target, target = tx[t].arg,
         tag' = [tag EXCEPT ![i].gone = TRUE],
         appendTagChangeVersions(tx[t].at, MergeTagRelations(i, target), tag),
         Committed(t), UNCHANGED <<item, sugg>>
  PROVE  Sound'
<1> DEFINE affected == tx[t].at
           rows == MergeTagRelations(i, target)
           row == [tag[i] EXCEPT !.gone = TRUE]
           tags == tag
<1>0. /\ TagSound(t) /\ tx[t].op = "merge" /\ tx[t].pc = "commit" /\ Typed /\ KeysSound
  BY TxParts DEF At, Sound
<1>1. /\ i \in Tag /\ Named(i) /\ target \in Tag /\ Named(target)
      /\ Update("tag", i) \in tx[t].held /\ Update("tag", target) \in tx[t].held
      /\ FindTagPostIDs(i) \subseteq affected
  BY <1>0 DEF TagSound
<1>2. row \in TagRow /\ row.name = tag[i].name /\ tag' = [tag EXCEPT ![i] = row]
  <2> DEFINE old == tag[i]
  <2>1. old \in TagRow /\ tag \in [Tag -> TagRow] /\ row = [old EXCEPT !.gone = TRUE]
    BY <1>0, <1>1 DEF Typed
  <2>2. tag' = [tag EXCEPT ![i] = row]  BY <1>1, <2>1
  <2> HIDE DEF old, row
  <2>3. row \in TagRow /\ row.name = old.name  BY <2>1 DEF TagRow
  <2> QED  BY <2>2, <2>3 DEF old
<1> HIDE DEF row
<1>3. /\ tag' \in [Tag -> TagRow]
      /\ \A j \in Tag : tag'[j].name = tag[j].name
  BY <1>0, <1>1, <1>2 DEF Typed
<1>4. /\ tags \in [Tag -> TagRow] /\ \A j \in Tag : Named(j) => tags[j].name # None
      /\ \A j \in Tag : tag'[j].name = tags[j].name
  BY <1>0, <1>3 DEF Typed, Named
<1>5. \A p \in Post : rows[p] = IF i \in post[p].tags
                               THEN [post[p] EXCEPT !.tags = (@ \ {i}) \cup {target}] ELSE post[p]
  BY DEF MergeTagRelations
<1> HIDE DEF affected, rows
<1>6. ASSUME NEW p \in Post
      PROVE  /\ rows[p] \in PostRow /\ rows[p].words = post[p].words
             /\ \A j \in rows[p].tags : j \in post[p].tags \/ j = target
             /\ \A j \in post[p].tags : tag[j].name # None
  <2> DEFINE r == post[p]
             T == (r.tags \ {i}) \cup {target}
  <2>1. r \in PostRow /\ T \in SUBSET Tag  BY <1>0, <1>1 DEF Typed, PostRow
  <2>2. rows[p] = IF i \in r.tags THEN [r EXCEPT !.tags = T] ELSE r  BY <1>5
  <2>3. \A j \in T : j \in r.tags \/ j = target  OBVIOUS
  <2>4. \A j \in r.tags : tag[j].name # None  BY <1>0 DEF KeysSound, Named
  <2> HIDE DEF r, T
  <2>5. /\ [r EXCEPT !.tags = T] \in PostRow /\ [r EXCEPT !.tags = T].tags = T
        /\ [r EXCEPT !.tags = T].words = r.words
    BY <2>1 DEF PostRow
  <2>6. /\ rows[p] \in PostRow /\ rows[p].words = r.words
        /\ \A j \in rows[p].tags : j \in r.tags \/ j = target
    BY <2>1, <2>2, <2>3, <2>5
  <2> QED  BY <2>4, <2>6 DEF r
<1>7. \A p \in Post : /\ rows[p] \in PostRow /\ rows[p].words = post[p].words
                      /\ \A j \in rows[p].tags : tags[j].name # None
  BY <1>1, <1>6 DEF Named
<1>8. \A p \in Post : p \notin affected =>
        rows[p] = post[p] /\ \A j \in post[p].tags : tags[j].name = tag[j].name
  BY <1>1, <1>5 DEF FindTagPostIDs
<1>9. \A w \in Tx \ {t} : \A j \in Tag : Named(j) =>
        tags[j].name = tag[j].name \/ ~HeldAgainst(w, Update("tag", j))
  OBVIOUS
<1>10. \A w \in Tx \ {t} : \A p \in Post : \A j \in rows[p].tags :
        j \in post[p].tags \/ ~HeldAgainst(w, KeyShare("tag", j))
  BY <1>1, <1>6, HeldAlone
<1>11. tx[t].pc # "idle" /\ appendTagChangeVersions(affected, rows, tags)
  BY <1>0 DEF affected, rows
<1> HIDE DEF tags
<1>12. TagChange(t, tags, affected, rows)
  BY <1>3, <1>4, <1>7, <1>8, <1>9, <1>10 DEF TagChange
<1> QED  BY <1>11, <1>12, TagCommit

-----------------------------------------------------------------------------
(* The tags a write creates. *)
LEMMA InsertedTags ==
  ASSUME Sound, NEW t \in Tx, NEW op \in PostWrites, At(t, op, "commit"), NEW f \in NewTags(Created(t))
  PROVE  /\ Inserted(f) \in [Tag -> TagRow]
         /\ \A i \in Tag : Named(i) => Inserted(f)[i] = tag[i]
         /\ ReplaceTags(t, f) \subseteq Tag
         /\ \A i \in ReplaceTags(t, f) : Inserted(f)[i].name # None
         /\ \A i \in ReplaceTags(t, f) : ~Named(i) \/ KeyShare("tag", i) \in Got(t)
<1>0. /\ WriteSound(t) /\ tx[t].op = op /\ tx[t].pc = "commit" /\ Typed
  BY TxParts DEF At, Sound
<1>1. /\ tx[t].at.tags \subseteq Tag
      /\ \A i \in tx[t].at.tags : Named(i) /\ KeyShare("tag", i) \in Got(t)
      /\ \A k \in tx[t].held : k[1][1] = "tagKey" => k[1][2] \in Name
  BY <1>0 DEF WriteSound, Got
<1>2. Created(t) \subseteq Name  BY <1>1 DEF Created
<1>3. /\ DOMAIN f = Created(t)
      /\ \A n \in DOMAIN f : f[n][1] \in Tag /\ ~Named(f[n][1]) /\ f[n][2] \in Verdict
  <2>1. f \in [Created(t) -> FreshTags \X Verdict]  BY DEF NewTags
  <2> QED  BY <2>1 DEF FreshTags, Named
<1> DEFINE mine(i) == {n \in DOMAIN f : f[n][1] = i}
           one(i) == CHOOSE n \in mine(i) : TRUE
<1>4. \A i \in Tag : Inserted(f)[i] = IF mine(i) = {} THEN tag[i]
                                      ELSE moderateTag(one(i), f[one(i)][2])
  BY DEF Inserted
<1>5. \A i : mine(i) # {} => one(i) \in mine(i)  OBVIOUS
<1> HIDE DEF one
<1>6. \A n \in Name, v \in Verdict : moderateTag(n, v) \in TagRow /\ moderateTag(n, v).name # None
  BY NoneAssumption DEF moderateTag, TagRow, Verdict
<1>7. ASSUME NEW i \in Tag
      PROVE  /\ Inserted(f)[i] \in TagRow
             /\ mine(i) # {} => Inserted(f)[i].name # None
             /\ mine(i) = {} => Inserted(f)[i] = tag[i]
  <2>1. CASE mine(i) = {}  BY <1>0, <1>4, <2>1 DEF Typed
  <2>2. CASE mine(i) # {}
    <3>1. one(i) \in Name /\ f[one(i)][2] \in Verdict  BY <1>2, <1>3, <1>5, <2>2
    <3>2. Inserted(f)[i] = moderateTag(one(i), f[one(i)][2])  BY <1>4, <2>2
    <3> QED  BY <1>6, <2>2, <3>1, <3>2
  <2> QED  BY <2>1, <2>2
<1>8. Inserted(f) \in [Tag -> TagRow]
  <2>1. Inserted(f) = [i \in Tag |-> Inserted(f)[i]]  BY DEF Inserted
  <2> QED  BY <1>7, <2>1
<1>9. \A i \in Tag : Named(i) => Inserted(f)[i] = tag[i]
  <2>1. \A i \in Tag : Named(i) => mine(i) = {}  BY <1>3
  <2> QED  BY <1>7, <2>1
<1>10. ASSUME NEW i \in ReplaceTags(t, f)
       PROVE  /\ i \in Tag /\ Inserted(f)[i].name # None
              /\ ~Named(i) \/ KeyShare("tag", i) \in Got(t)
  <2>1. CASE i \in tx[t].at.tags
    <3>1. i \in Tag /\ Named(i) /\ KeyShare("tag", i) \in Got(t)  BY <1>1, <2>1
    <3>2. Inserted(f)[i] = tag[i]  BY <1>9, <3>1
    <3> QED  BY <3>1, <3>2 DEF Named
  <2>2. CASE \E n \in DOMAIN f : i = f[n][1]
    <3>1. mine(i) # {} /\ i \in Tag /\ ~Named(i)  BY <1>3, <2>2
    <3> QED  BY <1>7, <3>1
  <2> QED  BY <2>1, <2>2 DEF ReplaceTags
<1> QED  BY <1>8, <1>9, <1>10

(* A post is written, with a new revision or an old one. *)
LEMMA PostWritten ==
  ASSUME Sound, NEW t \in Tx, NEW op \in PostWrites, At(t, op, "commit"),
         NEW f \in NewTags(Created(t)), tag' = Inserted(f), NEW p, p = tx[t].on, NEW row \in PostRow,
         post' = [post EXCEPT ![p] = row], row.tags = ReplaceTags(t, f), row.words = tx[t].at.words,
         hist' \in [Post -> Seq(Snapshot)], text' \in [Post -> Seq(TextRecord)],
         \A r \in Post \ {p} : hist'[r] = hist[r] /\ text'[r] = text[r],
         Len(hist'[p]) = Len(text'[p]), Len(hist'[p]) >= Len(hist[p]), row.rev \in 0 .. Len(hist'[p]),
         row.put => row.rev > 0,
         Current(p)',
         Committed(t), UNCHANGED <<item, sugg>>
  PROVE  Sound'
<1>0. /\ Typed /\ KeysSound /\ \A r \in Post : Current(r)
      /\ \A r \in Post : post[r].tags \subseteq Tag /\ Len(hist[r]) \in Nat
      /\ WriteSound(t) /\ tx[t].op = op /\ tx[t].pc = "commit" /\ Ready(t)
  BY SoundParts, TxParts DEF At
<1>1. p \in Post /\ row.words \subseteq Item /\ \A i \in row.words : Exists(i)
  BY <1>0 DEF WriteSound
<1>2. /\ tag' \in [Tag -> TagRow]
      /\ \A i \in Tag : Named(i) => tag'[i] = tag[i]
      /\ \A i \in row.tags : i \in Tag /\ tag'[i].name # None
      /\ \A i \in row.tags : ~Named(i) \/ KeyShare("tag", i) \in Got(t)
  BY InsertedTags
<1>3. post'[p] = row /\ \A r \in Post \ {p} : post'[r] = post[r]  BY <1>0, <1>1 DEF Typed
<1>4. Typed'
  <2>1. post' \in [Post -> PostRow]  BY <1>0 DEF Typed
  <2>2. \A r \in Post : /\ Len(hist'[r]) = Len(text'[r]) /\ post'[r].rev \in 0 .. Len(hist'[r])
                        /\ post'[r].put => post'[r].rev > 0
    <3> SUFFICES ASSUME NEW r \in Post
                 PROVE  /\ Len(hist'[r]) = Len(text'[r]) /\ post'[r].rev \in 0 .. Len(hist'[r])
                        /\ post'[r].put => post'[r].rev > 0
      OBVIOUS
    <3>1. CASE r = p  BY <1>3, <3>1
    <3>2. CASE r # p
      <4>1. hist'[r] = hist[r] /\ text'[r] = text[r] /\ post'[r] = post[r]  BY <1>3, <3>2
      <4>2. /\ Len(hist[r]) = Len(text[r]) /\ post[r].rev \in 0 .. Len(hist[r])
            /\ post[r].put => post[r].rev > 0
        BY <1>0 DEF Typed
      <4> QED  BY <4>1, <4>2
    <3> QED  BY <3>1, <3>2
  <2> QED  BY <1>0, <1>2, <2>1, <2>2 DEF Typed
<1>5. KeysSound'
  <2>1. ASSUME NEW i \in Item, Referenced(i)' PROVE Exists(i)'
    <3>1. Referenced(i) \/ i \in row.words  BY <1>3, <2>1 DEF Referenced
    <3>2. Exists(i)  BY <1>0, <1>1, <3>1 DEF KeysSound
    <3> QED  BY <3>2 DEF Exists
  <2>2. \A i \in Item : Exists(i)' <=> Exists(i)  BY DEF Exists
  <2>3. ASSUME NEW r \in Post, NEW i \in post'[r].tags PROVE Named(i)'
    <3>1. CASE r = p  BY <1>2, <1>3, <2>3, <3>1 DEF Named
    <3>2. CASE r # p
      <4>1. i \in post[r].tags /\ i \in Tag /\ Named(i)  BY <1>0, <1>3, <2>3, <3>2 DEF KeysSound
      <4> QED  BY <1>2, <4>1 DEF Named
    <3> QED  BY <3>1, <3>2
  <2>4. Titled'  BY <1>0, <2>2 DEF KeysSound, Titled
  <2>5. \A i \in Item : Exists(i)' => IF item'[i].kind = "window" THEN item'[i].of \in Of("canteen")'
                                                                  ELSE item'[i].of = None
    BY <1>0, <2>2 DEF KeysSound, Of
  <2>6. /\ \A s \in Sugg : sugg'[s].st = "none" => sugg'[s] = NoSugg
        /\ \A s \in Sugg : sugg'[s].parent # None =>
             /\ sugg'[s].kind = "window"
             /\ sugg'[sugg'[s].parent].st # "none" /\ sugg'[sugg'[s].parent].kind = "canteen"
    BY <1>0 DEF KeysSound
  <2> QED  BY <2>1, <2>3, <2>4, <2>5, <2>6 DEF KeysSound
<1>6. SnapshotCurrent'
  <2> SUFFICES ASSUME NEW r \in Post PROVE Current(r)'  BY CurrentPosts
  <2>1. CASE r = p  BY <2>1
  <2>2. CASE r # p
    <3>1. post'[r] = post[r] /\ hist'[r] = hist[r]  BY <1>3, <2>2
    <3>2. \A i \in post[r].tags : tag'[i].name = tag[i].name  BY <1>0, <1>2 DEF KeysSound
    <3>3. \A i \in post[r].words : item'[i].kind = item[i].kind  OBVIOUS
    <3> QED  BY <1>0, <3>1, <3>2, <3>3, CurrentKept
  <2> QED  BY <2>1, <2>2
<1>7. ASSUME NEW w \in Tx \ {t} PROVE Stands(w)
  <2>1. tx[w].op = "suggest" => sugg'[tx[w].on].st = "none"  BY SuggestDraws
  <2>2. \A r \in Post : Len(hist'[r]) >= Len(hist[r])
    <3> SUFFICES ASSUME NEW r \in Post PROVE Len(hist'[r]) >= Len(hist[r])  OBVIOUS
    <3>1. CASE r = p  BY <3>1
    <3>2. CASE r # p
      <4>1. hist'[r] = hist[r]  BY <3>2
      <4> DEFINE n == Len(hist[r])
      <4>2. n \in Nat  BY <1>0
      <4> HIDE DEF n
      <4>3. n >= n  BY <4>2
      <4> QED  BY <4>1, <4>3 DEF n
    <3> QED  BY <3>1, <3>2
  <2>3. \A i \in Tag : Named(i) => Named(i)' /\ tag'[i].name = tag[i].name
    BY <1>2 DEF Named
  <2>4. ASSUME NEW r \in Post, NEW i \in Tag, i \in post'[r].tags
        PROVE  i \in post[r].tags \/ ~Named(i) \/ ~HeldAgainst(w, KeyShare("tag", i))
    <3>1. CASE r = p
      <4>1. ~Named(i) \/ KeyShare("tag", i) \in Got(t)  BY <1>2, <1>3, <2>4, <3>1
      <4> QED  BY <1>0, <4>1, GotFree
    <3>2. CASE r # p  BY <1>3, <2>4, <3>2
    <3> QED  BY <3>1, <3>2
  <2> QED  BY <2>1, <2>2, <2>3, <2>4 DEF Stands, Exists
<1>8. tx[t].pc # "idle"  BY <1>0
<1> QED  BY <1>4, <1>5, <1>6, <1>7, <1>8, CommitStep

(* The row of a post once a write has put a revision of it in place, which it *)
(* wrote itself or took from the history.                                     *)
RowOf(t, f, v, rev, put) == [applyPostRelations(t, f, Status(v), rev) EXCEPT !.put = put]

(* Rows of a post that is written. *)
LEMMA WrittenRow ==
  ASSUME Sound, NEW t \in Tx, NEW op \in PostWrites, At(t, op, "commit"),
         NEW f \in NewTags(Created(t)), NEW v \in Verdict \cup {None}, NEW rev \in Nat, NEW put \in {TRUE, FALSE}
  PROVE  LET row == RowOf(t, f, v, rev, put) IN
         /\ row \in PostRow /\ row.tags = ReplaceTags(t, f) /\ row.words = tx[t].at.words
         /\ row.rev = rev /\ row.put = put
<1> DEFINE row == RowOf(t, f, v, rev, put)
<1>0. /\ WriteSound(t) /\ tx[t].op = op /\ tx[t].pc = "commit" /\ Typed
  BY TxParts DEF At, Sound
<1>1. tx[t].on \in Post /\ tx[t].at.words \in SUBSET Item  BY <1>0 DEF WriteSound
<1> DEFINE r == post[tx[t].on]
           st == Status(v)
           T == ReplaceTags(t, f)
           W == tx[t].at.words
           del == FALSE
<1>2. r \in PostRow  BY <1>0, <1>1 DEF Typed
<1>3. T \in SUBSET Tag  BY InsertedTags
<1>4. st \in {"none", "draft", "pending", "approved", "rejected"}
  BY NoneAssumption DEF Status, aggregatePostModeration, Verdict
<1>5. row = [[r EXCEPT !.st = st, !.rev = rev, !.tags = T, !.words = W, !.del = del] EXCEPT !.put = put]
  BY DEF applyPostRelations, RowOf
<1>6. W \in SUBSET Item /\ del \in BOOLEAN  BY <1>1
<1> HIDE DEF r, st, T, W, del
<1> DEFINE r1 == [r EXCEPT !.st = st, !.rev = rev, !.tags = T, !.words = W, !.del = del]
<1>7. r1 \in PostRow /\ r1.tags = T /\ r1.words = W /\ r1.rev = rev
  BY <1>2, <1>3, <1>4, <1>6 DEF PostRow
<1>8. row = [r1 EXCEPT !.put = put]  BY <1>5
<1> HIDE DEF r1
<1>9. row \in PostRow /\ row.tags = T /\ row.words = W /\ row.rev = rev /\ row.put = put
  BY <1>7, <1>8 DEF PostRow
<1> QED  BY <1>9 DEF row, T, W

(* A write commits, with a new revision and its snapshot. *)
LEMMA ReplaceSteps ==
  ASSUME Sound, NEW t \in Tx, NEW op \in PostWrites, At(t, op, "commit"), replacePostContentVersion(t)
  PROVE  Sound'
<1>p. PICK p : p = tx[t].on  OBVIOUS
<1>0. /\ Typed /\ KeysSound
      /\ \A r \in Post : /\ hist[r] \in Seq(Snapshot) /\ text[r] \in Seq(TextRecord)
                         /\ Len(hist[r]) \in Nat
      /\ WriteSound(t) /\ tx[t].op = op /\ tx[t].pc = "commit"
  BY SoundParts, TxParts DEF At
<1>1. PICK v \in Verdict \cup {None}, f \in NewTags(Created(t)) :
        LET row == [applyPostRelations(t, f, Status(v), NextHistoryRevision(p)) EXCEPT !.put = TRUE]
        IN  /\ tag' = Inserted(f)
            /\ post' = [post EXCEPT ![p] = row]
            /\ appendPostHistory(p, row, tag', item)
            /\ text' = [text EXCEPT ![p] = Append(@, finishModeration(v))]
            /\ Committed(t) /\ UNCHANGED <<item, sugg>>
  BY <1>p DEF replacePostContentVersion
<1> DEFINE put == TRUE
           rev == NextHistoryRevision(p)
           row == [applyPostRelations(t, f, Status(v), rev) EXCEPT !.put = put]
           x == LoadSnapshotRelations(row, tag', item)
           rec == finishModeration(v)
           h == Append(hist[p], x)
           c == Append(text[p], rec)
<1>2. p \in Post /\ tx[t].at.words \subseteq Item /\ \A i \in tx[t].at.words : Exists(i)
  BY <1>p, <1>0 DEF WriteSound
<1>3. rev \in Nat /\ put \in BOOLEAN /\ rev > 0 /\ rev = Len(hist[p]) + 1
  BY <1>0, <1>2 DEF NextHistoryRevision
<1>4. /\ tag' = Inserted(f) /\ post' = [post EXCEPT ![p] = row]
      /\ hist' = [hist EXCEPT ![p] = h] /\ text' = [text EXCEPT ![p] = c]
      /\ Committed(t) /\ UNCHANGED <<item, sugg>>
  BY <1>0, <1>1, <1>2 DEF appendPostHistory, Typed
<1>5. row = RowOf(t, f, v, rev, put)  BY DEF RowOf
<1>6. x = LoadSnapshotRelations(row, tag', item)  OBVIOUS
<1>7. rec \in TextRecord  BY DEF finishModeration, NoText, TextRecord
<1>71. rev = NextHistoryRevision(p)  OBVIOUS
<1> HIDE DEF row, put, rev, rec, x
<1>8. /\ row \in PostRow /\ row.tags = ReplaceTags(t, f) /\ row.words = tx[t].at.words
      /\ row.rev = rev
  <2>1. rev \in Nat /\ put \in {TRUE, FALSE}  BY <1>3
  <2>2. LET q == RowOf(t, f, v, rev, put) IN
        /\ q \in PostRow /\ q.tags = ReplaceTags(t, f) /\ q.words = tx[t].at.words
        /\ q.rev = rev /\ q.put = put
    BY <2>1, WrittenRow, ZenonT(30)
  <2> QED  BY <1>5, <2>2
<1>9. /\ tag' \in [Tag -> TagRow] /\ row.tags \in SUBSET Tag
      /\ \A i \in row.tags : tag'[i].name # None
  BY <1>4, <1>8, InsertedTags
<1>10. x \in Snapshot
  <2> DEFINE T == row.tags
             W == row.words
             tags == tag'
  <2>1. T \in SUBSET Tag /\ W \in SUBSET Item /\ tags \in [Tag -> TagRow] /\ item \in [Item -> ItemRow]
    BY <1>0, <1>2, <1>8, <1>9 DEF Typed
  <2>2. \A i \in T : tags[i].name # None  BY <1>9
  <2>3. \A i \in W : item[i].name # None  BY <1>0, <1>2, <1>8 DEF KeysSound, Titled
  <2>4. row.tags = T /\ row.words = W /\ x = LoadSnapshotRelations(row, tags, item)  BY <1>6
  <2> HIDE DEF T, W, tags
  <2>5. LoadSnapshotRelations(row, tags, item) \in Snapshot  BY <2>1, <2>2, <2>3, <2>4, SnapshotTypes
  <2> QED  BY <2>4, <2>5
<1>11. /\ h \in Seq(Snapshot) /\ Len(h) = Len(hist[p]) + 1 /\ Len(hist[p]) \in Nat
       /\ c \in Seq(TextRecord) /\ Len(c) = Len(text[p]) + 1 /\ Len(text[p]) = Len(hist[p])
  <2> DEFINE a == hist[p]
             b == text[p]
  <2>1. a \in Seq(Snapshot) /\ b \in Seq(TextRecord) /\ Len(b) = Len(a)  BY <1>0, <1>2 DEF Typed
  <2> HIDE DEF a, b
  <2>2. /\ Append(a, x) \in Seq(Snapshot) /\ Len(Append(a, x)) = Len(a) + 1 /\ Len(a) \in Nat
        /\ Append(b, rec) \in Seq(TextRecord) /\ Len(Append(b, rec)) = Len(b) + 1
    BY <1>7, <1>10, <2>1, Appended
  <2> QED  BY <2>1, <2>2 DEF a, b
<1>12. hist'[p] = h /\ text'[p] = c /\ post'[p] = row  BY <1>0, <1>2, <1>4 DEF Typed
<1>13. Current(p)'
  <2>1. hist[p] \in Seq(Snapshot) /\ post'[p] = row /\ row.rev = NextHistoryRevision(p)
        /\ hist'[p] = Append(hist[p], x) /\ item = item'
    BY <1>0, <1>2, <1>4, <1>71, <1>8, <1>12
  <2> DEFINE tags == tag'
  <2>2. x = LoadSnapshotRelations(row, tags, item) /\ \A i \in row.tags : tags[i].name = tag'[i].name
    BY <1>6
  <2> HIDE DEF tags
  <2> QED  BY <1>10, <2>1, <2>2, CurrentWritten
<1> HIDE DEF h, c
<1>14. hist' \in [Post -> Seq(Snapshot)]  BY <1>0, <1>4, <1>11 DEF Typed
<1>15. text' \in [Post -> Seq(TextRecord)]  BY <1>0, <1>4, <1>11 DEF Typed
<1>16. \A r \in Post \ {p} : hist'[r] = hist[r] /\ text'[r] = text[r]  BY <1>0, <1>4 DEF Typed
<1>17. Len(hist'[p]) = Len(text'[p]) /\ Len(hist'[p]) >= Len(hist[p]) /\ row.rev \in 0 .. Len(hist'[p])
       /\ (row.put => row.rev > 0)
  <2> DEFINE n == Len(hist[p])
  <2>1. Len(hist'[p]) = n + 1 /\ Len(text'[p]) = n + 1 /\ n \in Nat /\ row.rev = n + 1
    BY <1>3, <1>8, <1>11, <1>12
  <2> HIDE DEF n
  <2>2. n + 1 >= n /\ n + 1 \in 0 .. n + 1 /\ n + 1 > 0  BY <2>1
  <2> QED  BY <2>1, <2>2 DEF n
<1> QED  BY <1>p, <1>4, <1>8, <1>13, <1>14, <1>15, <1>16, <1>17, PostWritten, ZenonT(30)

(* An old revision is put back; a verdict is recorded when it had none. *)
LEMMA RestoreSteps ==
  ASSUME Sound, NEW t \in Tx, At(t, "restoreHistory", "commit"), RestoreHistory(t)
  PROVE  Sound'
<1> DEFINE put == FALSE
<1>p. PICK p : p = tx[t].on  OBVIOUS
<1>r. PICK r : r = tx[t].arg  OBVIOUS
<1>op. PICK op \in PostWrites : op = "restoreHistory"  BY DEF PostWrites
<1>0. /\ Typed /\ WriteSound(t) /\ tx[t].op = op
  BY <1>op, SoundParts, TxParts DEF At
<1>1. p \in Post /\ r \in 1 .. Len(hist[p])  BY <1>p, <1>r, <1>op, <1>0 DEF WriteSound
<1>2. /\ hist[p] \in Seq(Snapshot) /\ text[p] \in Seq(TextRecord) /\ Len(text[p]) = Len(hist[p])
      /\ r \in 1 .. Len(text[p])
  BY <1>0, <1>1 DEF Typed
<1>3. At(t, op, "commit") /\ put \in {TRUE, FALSE} /\ (put <=> FALSE)  BY <1>op
<1>4. text[p][r].last \in Verdict \cup {None}
  <2> DEFINE q == text[p]
  <2>1. q \in Seq(TextRecord) /\ r \in 1 .. Len(q)  BY <1>2
  <2> HIDE DEF q
  <2>2. q[r] \in TextRecord  BY <2>1
  <2> QED  BY <2>2 DEF q, TextRecord
<1>5. PICK v \in Verdict \cup {None}, f \in NewTags(Created(t)) :
        /\ tag' = Inserted(f)
        /\ post' = [post EXCEPT ![p] = RowOf(t, f, v, r, put)]
        /\ text' = IF text[p][r].last # None THEN text
                   ELSE [text EXCEPT ![p][r] = finishModeration(v)]
        /\ Committed(t) /\ UNCHANGED <<item, sugg, hist>>
  <2>1. ~At(t, "restoreHistory", "body") /\ ~At(t, "restoreHistory", "names")  BY DEF At
  <2>2. PICK v \in IF text[p][r].last = None THEN Verdict ELSE {text[p][r].last},
             f \in NewTags(Created(t)) :
          /\ tag' = Inserted(f)
          /\ post' = [post EXCEPT ![p] = [applyPostRelations(t, f, Status(v), r) EXCEPT !.put = FALSE]]
          /\ text' = IF text[p][r].last # None THEN text
                     ELSE [text EXCEPT ![p][r] = finishModeration(v)]
    BY <1>p, <1>r, <2>1 DEF RestoreHistory
  <2>3. Committed(t) /\ UNCHANGED <<item, sugg, hist>>
    BY <2>1 DEF RestoreHistory
  <2>4. v \in Verdict \cup {None}  BY <1>4
  <2>5. [applyPostRelations(t, f, Status(v), r) EXCEPT !.put = FALSE] = RowOf(t, f, v, r, put)
    BY DEF RowOf
  <2> QED  BY <2>2, <2>3, <2>4, <2>5
<1> DEFINE row == RowOf(t, f, v, r, put)
           rec == finishModeration(v)
           q == text[p]
           q1 == [q EXCEPT ![r] = rec]
<1>6. rec \in TextRecord  BY DEF finishModeration, NoText, TextRecord, Verdict
<1>7. row = RowOf(t, f, v, r, put) /\ post' = [post EXCEPT ![p] = row]  BY <1>5
<1>8. text' = text \/ text' = [text EXCEPT ![p] = q1]  BY <1>0, <1>1, <1>5 DEF Typed
<1>9. tag' = Inserted(f) /\ Committed(t) /\ UNCHANGED <<item, sugg, hist>>  BY <1>5
<1> HIDE DEF row, put
<1>10. LET x == RowOf(t, f, v, r, put) IN
       /\ x \in PostRow /\ x.tags = ReplaceTags(t, f) /\ x.words = tx[t].at.words
       /\ x.rev = r /\ x.put = put
  <2>1. r \in Nat  BY <1>1, <1>2
  <2> QED  BY <1>3, <2>1, WrittenRow, ZenonT(30)
<1>11. /\ row \in PostRow /\ row.tags = ReplaceTags(t, f) /\ row.words = tx[t].at.words
       /\ row.rev = r /\ ~row.put
  BY <1>3, <1>7, <1>10
<1>12. q1 \in Seq(TextRecord) /\ Len(q1) = Len(q)
  <2>1. q1 = [q EXCEPT ![r] = rec] /\ q \in Seq(TextRecord) /\ r \in 1 .. Len(q)  BY <1>2
  <2> HIDE DEF q, rec, q1
  <2> QED  BY <1>6, <2>1, ExceptSeq
<1> HIDE DEF q1
<1>13. /\ text' \in [Post -> Seq(TextRecord)] /\ Len(text'[p]) = Len(text[p])
       /\ \A s \in Post \ {p} : text'[s] = text[s]
  BY <1>0, <1>1, <1>8, <1>12 DEF Typed
<1>14. /\ hist' \in [Post -> Seq(Snapshot)] /\ Len(hist'[p]) = Len(text'[p])
       /\ \A s \in Post \ {p} : hist'[s] = hist[s] /\ text'[s] = text[s]
  BY <1>0, <1>1, <1>9, <1>13 DEF Typed
<1>15. Len(hist'[p]) >= Len(hist[p]) /\ row.rev \in 0 .. Len(hist'[p])
  <2> DEFINE n == Len(hist[p])
  <2>1. n \in Nat /\ r \in 1 .. n /\ Len(hist'[p]) = n  BY <1>1, <1>2, <1>9
  <2> HIDE DEF n
  <2>2. n >= n /\ row.rev \in 0 .. n  BY <1>11, <2>1
  <2> QED  BY <2>1, <2>2 DEF n
<1>16. Current(p)'  BY <1>0, <1>1, <1>7, <1>11 DEF Current, Typed
<1>17. row.put => row.rev > 0  BY <1>11
<1> QED  BY <1>p, <1>3, <1>7, <1>9, <1>11, <1>13, <1>14, <1>15, <1>16, <1>17, PostWritten, ZenonT(30)

-----------------------------------------------------------------------------
(* An approval commits with the item that is suggested, which is either there *)
(* or new.                                                                    *)
ItemOf(t) == IF tx[t].at = {} THEN FreshItem ELSE tx[t].at
ItemsWith(t, i) ==
    IF tx[t].at # {} THEN item
    ELSE [item EXCEPT ![i] = NewItem(sugg[tx[t].on].kind, sugg[tx[t].on].name, TRUE, SuggestedOf(tx[t].on))]

(* Items that are there stay as they are, and a new one has its canteen. *)
ItemsStand(i) ==
    /\ item' \in [Item -> ItemRow]
    /\ i \in Item /\ Exists(i)'
    /\ \A j \in Item : item[j].kind # "none" => item'[j] = item[j]
    /\ \A j \in Item : Exists(j)' =>
          /\ item'[j].name # None
          /\ IF item'[j].kind = "window" THEN item'[j].of \in Of("canteen")' ELSE item'[j].of = None

(* An approval leaves the items as they were, but for the one it creates. *)
LEMMA ApprovedItem ==
  ASSUME Sound, NEW t \in Tx, At(t, "approve", "commit"), NEW i \in ItemOf(t), item' = ItemsWith(t, i),
         \A j \in tx[t].at : Exists(j),
         sugg[tx[t].on].kind = "window" => Exists(ParentCanteen(tx[t].on))
  PROVE  /\ ItemsStand(i)
         /\ SuggestedOf(tx[t].on) \in Items
         /\ SuggestedOf(tx[t].on) # None => Exists(SuggestedOf(tx[t].on))
<1> DEFINE s == tx[t].on
           of == SuggestedOf(s)
           row == NewItem(sugg[s].kind, sugg[s].name, TRUE, of)
<1>0. /\ Typed /\ KeysSound /\ ApproveSound(t) /\ tx[t].op = "approve" /\ tx[t].pc = "commit"
  BY SoundParts, TxParts DEF At
<1>1. /\ s \in Sugg /\ sugg[s].st = "pending" /\ CanteenSound(s) /\ tx[t].at \subseteq Item
      /\ sugg[s] \in SuggRow /\ sugg[s].name # None
  BY <1>0 DEF ApproveSound, Typed, KeysSound, Titled
<1>2. /\ sugg[s].kind = "window" => of \in Of("canteen")
      /\ sugg[s].kind # "window" => of = None
  <2>1. CASE sugg[s].kind = "window"
    <3>1. of = ParentCanteen(s)  BY <2>1 DEF SuggestedOf
    <3> HIDE DEF of
    <3>2. of \in Item /\ item[of].kind \in {"canteen", "gone"} /\ Exists(of)
      BY <1>1, <2>1, <3>1 DEF CanteenSound
    <3> QED  BY <2>1, <3>2 DEF Exists, Kind, Of
  <2>2. CASE sugg[s].kind # "window"  BY <2>2 DEF SuggestedOf
  <2> QED  BY <2>1, <2>2
<1>3. of \in Items /\ (of # None => Exists(of))  BY <1>2 DEF Items, Of, Exists, Kind
<1>4. /\ row \in ItemRow /\ row.kind = sugg[s].kind /\ row.kind \in Kind /\ row.name # None
      /\ row.of = of
  <2> HIDE DEF of
  <2> QED  BY <1>1, <1>3 DEF NewItem, ItemRow, SuggRow, Items
<1>5. item' = IF tx[t].at # {} THEN item ELSE [item EXCEPT ![i] = row]  BY DEF ItemsWith
<1> HIDE DEF of, row, s
<1>6. CASE tx[t].at # {}
  <2>1. item' = item /\ i \in tx[t].at  BY <1>5, <1>6 DEF ItemOf
  <2>2. i \in Item /\ Exists(i)  BY <1>1, <2>1
  <2>3. Exists(i)' /\ \A j \in Item : Exists(j)' => Exists(j)  BY <2>1, <2>2 DEF Exists
  <2>4. Of("canteen")' = Of("canteen")  BY <2>1 DEF Of
  <2>5. ASSUME NEW j \in Item, Exists(j)'
        PROVE  /\ item'[j].name # None
               /\ IF item'[j].kind = "window" THEN item'[j].of \in Of("canteen")' ELSE item'[j].of = None
    BY <1>0, <2>1, <2>3, <2>4, <2>5 DEF KeysSound, Titled
  <2>6. ItemsStand(i)  BY <1>0, <2>1, <2>2, <2>3, <2>5 DEF ItemsStand, Typed
  <2> QED  BY <1>3, <2>6 DEF of, s
<1>7. CASE tx[t].at = {}
  <2>1. item' = [item EXCEPT ![i] = row] /\ i \in Item /\ item[i].kind = "none"
    BY <1>5, <1>7 DEF ItemOf, FreshItem, Fresh
  <2>2. item' \in [Item -> ItemRow] /\ item'[i] = row /\ \A j \in Item \ {i} : item'[j] = item[j]
    BY <1>0, <1>4, <2>1 DEF Typed
  <2>3. Exists(i)'  BY <1>4, <2>2 DEF Exists
  <2>4. Of("canteen") \subseteq Of("canteen")'
    <3> SUFFICES ASSUME NEW j \in Of("canteen") PROVE j \in Of("canteen")'  OBVIOUS
    <3>1. j \in Item /\ item[j].kind = "canteen" /\ j # i  BY <2>1 DEF Of
    <3> QED  BY <2>2, <3>1 DEF Of
  <2>5. ASSUME NEW j \in Item, Exists(j)'
        PROVE  /\ item'[j].name # None
               /\ IF item'[j].kind = "window" THEN item'[j].of \in Of("canteen")' ELSE item'[j].of = None
    <3>1. CASE j = i  BY <1>2, <1>4, <2>2, <2>4, <3>1
    <3>2. CASE j # i
      <4>1. item'[j] = item[j] /\ Exists(j)  BY <2>2, <2>5, <3>2 DEF Exists
      <4> QED  BY <1>0, <2>4, <4>1 DEF KeysSound, Titled
    <3> QED  BY <3>1, <3>2
  <2>6. ItemsStand(i)  BY <2>1, <2>2, <2>3, <2>5 DEF ItemsStand
  <2> QED  BY <1>3, <2>6 DEF of, s
<1> QED  BY <1>6, <1>7

(* The posts after an approval: they keep their tags, refer to items that are *)
(* there, and have their revisions.                                           *)
PostsStand ==
    /\ post' \in [Post -> PostRow]
    /\ hist' \in [Post -> Seq(Snapshot)] /\ text' \in [Post -> Seq(TextRecord)]
    /\ \A p \in Post : /\ Len(hist'[p]) = Len(text'[p]) /\ post'[p].rev \in 0 .. Len(hist'[p])
                       /\ post'[p].put => post'[p].rev > 0
                       /\ Len(hist'[p]) >= Len(hist[p])
                       /\ post'[p].tags = post[p].tags
                       /\ \A i \in post'[p].words : Exists(i)'
                       /\ Current(p)'

(* An approval that is bound to no post. *)
LEMMA Unbound ==
  ASSUME Sound, NEW i, ItemsStand(i), UNCHANGED <<tag, post, hist, text>>
  PROVE  PostsStand
<1>0. /\ Typed /\ KeysSound /\ \A p \in Post : Current(p) /\ Len(hist[p]) \in Nat
      /\ \A p \in Post : post[p].words \subseteq Item /\ \A j \in post[p].words : Exists(j)
  BY SoundParts
<1>1. \A j \in Item : Exists(j) => item'[j] = item[j]  BY DEF ItemsStand, Exists, Kind
<1>2. ASSUME NEW p \in Post
      PROVE  Len(hist'[p]) >= Len(hist[p]) /\ (\A j \in post'[p].words : Exists(j)') /\ Current(p)'
  <2>1. \A j \in post[p].words : item'[j] = item[j]  BY <1>0, <1>1
  <2>2. \A j \in post'[p].words : Exists(j)'  BY <1>0, <2>1 DEF Exists
  <2>3. Current(p)'  BY <1>0, <2>1, CurrentKept
  <2>4. Len(hist'[p]) >= Len(hist[p])
    <3> DEFINE n == Len(hist[p])
    <3>1. n \in Nat  BY <1>0
    <3> HIDE DEF n
    <3>2. n >= n  BY <3>1
    <3> QED  BY <3>2 DEF n
  <2> QED  BY <2>2, <2>3, <2>4
<1> QED  BY <1>0, <1>2 DEF PostsStand, Typed

(* The words of a post that an approved suggestion is bound to. *)
LEMMA BoundTo ==
  ASSUME Sound, NEW i, ItemsStand(i), NEW items, items = item', NEW W \in SUBSET Item,
         \A j \in W : Exists(j)
  PROVE  /\ BoundWords(W, i, items[i]) \in SUBSET Item
         /\ \A j \in BoundWords(W, i, items[i]) : Exists(j)'
<1> DEFINE row == items[i]
           V == BoundWords(W, i, row)
<1>1. /\ i \in Item /\ Exists(i)' /\ \A j \in Item : Exists(j) => Exists(j)'
      /\ row.kind = "window" => row.of \in Item /\ Exists(row.of)'
  BY DEF ItemsStand, Exists, Kind, Of
<1>2. row.kind \in Kind  BY <1>1 DEF Exists
<1> HIDE DEF row
<1>3. V \subseteq W \cup {i} \cup (IF row.kind = "window" THEN {row.of} ELSE {})
  BY <1>2 DEF BoundWords, Kind
<1> HIDE DEF V
<1>4. V \in SUBSET Item /\ \A j \in V : Exists(j)'  BY <1>1, <1>3
<1> QED  BY <1>4 DEF V, row

(* An approval that writes the next revision of its source post. *)
LEMMA Bound ==
  ASSUME Sound, NEW i, ItemsStand(i), NEW items, items = item', NEW p \in Post, tag' = tag,
         bindSuggestionToPost(p, i, items)
  PROVE  PostsStand
<1>0. /\ Typed /\ KeysSound
      /\ \A r \in Post : /\ Current(r) /\ Len(hist[r]) \in Nat
                         /\ hist[r] \in Seq(Snapshot) /\ text[r] \in Seq(TextRecord)
      /\ \A r \in Post : post[r].words \subseteq Item /\ \A j \in post[r].words : Exists(j)
  BY SoundParts
<1> DEFINE words == BoundWords(post[p].words, i, items[i])
           rev == NextHistoryRevision(p)
           put == TRUE
           row == [post[p] EXCEPT !.rev = rev, !.put = put, !.words = words]
           x == LoadSnapshotRelations(row, tag, items)
           h == Append(hist[p], x)
           c == Append(text[p], NoText)
<1>1. words \in SUBSET Item /\ \A j \in words : Exists(j)'
  <2> DEFINE W == post[p].words
  <2>1. W \in SUBSET Item /\ \A j \in W : Exists(j)  BY <1>0
  <2> HIDE DEF W
  <2>2. /\ BoundWords(W, i, items[i]) \in SUBSET Item
        /\ \A j \in BoundWords(W, i, items[i]) : Exists(j)'
    BY <2>1, BoundTo
  <2> QED  BY <2>2 DEF W
<1>2. rev = NextHistoryRevision(p) /\ rev \in Nat /\ rev = Len(hist[p]) + 1  BY <1>0 DEF NextHistoryRevision
<1>3. post' = [post EXCEPT ![p] = row] /\ hist' = [hist EXCEPT ![p] = h] /\ text' = [text EXCEPT ![p] = c]
  <2> HIDE DEF words, rev
  <2>1. post' = [post EXCEPT ![p] = row]
    BY <1>0 DEF bindSuggestionToPost, words, rev, Typed
  <2>2. hist' = [hist EXCEPT ![p] = h] /\ text' = [text EXCEPT ![p] = c]
    BY <1>0 DEF bindSuggestionToPost, appendPostHistory, words, rev, Typed
  <2> QED  BY <2>1, <2>2
<1>4. /\ row \in PostRow /\ row.tags = post[p].tags /\ row.words = words /\ row.rev = rev
  <2> HIDE DEF words, rev
  <2> QED  BY <1>0, <1>1, <1>2 DEF Typed, PostRow
<1>5. x = LoadSnapshotRelations(row, tag, items)  OBVIOUS
<1> HIDE DEF words, rev, row, x
<1>6. x \in Snapshot
  <2> DEFINE T == row.tags
             W == row.words
  <2>1. /\ T \in SUBSET Tag /\ W \in SUBSET Item /\ tag \in [Tag -> TagRow]
        /\ items \in [Item -> ItemRow]
    BY <1>0, <1>4 DEF Typed, ItemsStand, PostRow
  <2>2. \A j \in T : tag[j].name # None  BY <1>0, <1>4 DEF KeysSound, Named
  <2>3. \A j \in W : items[j].name # None  BY <1>1, <1>4 DEF ItemsStand
  <2>4. row.tags = T /\ row.words = W  OBVIOUS
  <2> HIDE DEF T, W
  <2>5. LoadSnapshotRelations(row, tag, items) \in Snapshot  BY <2>1, <2>2, <2>3, <2>4, SnapshotTypes
  <2> QED  BY <1>5, <2>5
<1>7. /\ h \in Seq(Snapshot) /\ Len(h) = Len(hist[p]) + 1 /\ Len(hist[p]) \in Nat
      /\ c \in Seq(TextRecord) /\ Len(c) = Len(text[p]) + 1 /\ Len(text[p]) = Len(hist[p])
  <2> DEFINE a == hist[p]
             b == text[p]
             rec == NoText
  <2>1. a \in Seq(Snapshot) /\ b \in Seq(TextRecord) /\ Len(b) = Len(a) /\ rec \in TextRecord
    BY <1>0 DEF Typed, NoText, TextRecord
  <2> HIDE DEF a, b, rec
  <2>2. /\ Append(a, x) \in Seq(Snapshot) /\ Len(Append(a, x)) = Len(a) + 1 /\ Len(a) \in Nat
        /\ Append(b, rec) \in Seq(TextRecord) /\ Len(Append(b, rec)) = Len(b) + 1
    BY <1>6, <2>1, Appended
  <2> QED  BY <2>1, <2>2 DEF a, b, rec
<1>8. hist'[p] = h /\ text'[p] = c /\ post'[p] = row  BY <1>0, <1>3 DEF Typed
<1>9. Current(p)'
  <2> DEFINE tags == tag
  <2>1. /\ hist[p] \in Seq(Snapshot) /\ post'[p] = row /\ row.rev = NextHistoryRevision(p)
        /\ hist'[p] = Append(hist[p], x)
    BY <1>0, <1>2, <1>4, <1>8
  <2>2. x = LoadSnapshotRelations(row, tags, items) /\ \A j \in row.tags : tags[j].name = tag'[j].name
    BY <1>5
  <2> HIDE DEF tags
  <2> QED  BY <1>6, <2>1, <2>2, CurrentWritten
<1> HIDE DEF h, c
<1>10. post' \in [Post -> PostRow]  BY <1>0, <1>3, <1>4 DEF Typed
<1>11. hist' \in [Post -> Seq(Snapshot)] /\ text' \in [Post -> Seq(TextRecord)]
  BY <1>0, <1>3, <1>7 DEF Typed
<1>12. ASSUME NEW r \in Post
       PROVE  /\ Len(hist'[r]) = Len(text'[r]) /\ post'[r].rev \in 0 .. Len(hist'[r])
              /\ post'[r].put => post'[r].rev > 0
              /\ Len(hist'[r]) >= Len(hist[r])
              /\ post'[r].tags = post[r].tags
              /\ \A j \in post'[r].words : Exists(j)'
              /\ Current(r)'
  <2>1. CASE r = p
    <3> DEFINE n == Len(hist[p])
    <3>1. Len(hist'[p]) = n + 1 /\ Len(text'[p]) = n + 1 /\ n \in Nat /\ post'[p].rev = n + 1
      BY <1>2, <1>4, <1>7, <1>8
    <3>2. post'[p].tags = post[p].tags /\ \A j \in post'[p].words : Exists(j)'  BY <1>1, <1>4, <1>8
    <3> HIDE DEF n
    <3>3. n + 1 >= n /\ n + 1 \in 0 .. n + 1 /\ n + 1 > 0  BY <3>1
    <3>4. Len(hist'[p]) >= Len(hist[p])  BY <3>1, <3>3 DEF n
    <3> QED  BY <1>9, <2>1, <3>1, <3>2, <3>3, <3>4
  <2>2. CASE r # p
    <3> DEFINE n == Len(hist[r])
    <3>1. hist'[r] = hist[r] /\ text'[r] = text[r] /\ post'[r] = post[r]  BY <1>0, <1>3, <2>2 DEF Typed
    <3>2. /\ Len(hist[r]) = Len(text[r]) /\ post[r].rev \in 0 .. Len(hist[r])
          /\ post[r].put => post[r].rev > 0
      BY <1>0 DEF Typed
    <3>3. \A j \in post[r].words : item'[j] = item[j] /\ Exists(j)'
      BY <1>0 DEF ItemsStand, Exists, Kind
    <3>4. Current(r)'  BY <1>0, <3>1, <3>3, CurrentKept
    <3>5. n \in Nat  BY <1>0
    <3> HIDE DEF n
    <3>6. n >= n  BY <3>5
    <3> QED  BY <3>1, <3>2, <3>3, <3>4, <3>6 DEF n
  <2> QED  BY <2>1, <2>2
<1> QED  BY <1>10, <1>11, <1>12 DEF PostsStand

(* An approval commits. *)
LEMMA ApproveCommit ==
  ASSUME Sound, NEW t \in Tx, At(t, "approve", "commit"), Approve(t)
  PROVE  Sound'
<1>s. PICK s : s = tx[t].on  OBVIOUS
<1> DEFINE of == SuggestedOf(s)
<1>0. /\ Typed /\ KeysSound /\ ApproveSound(t) /\ tx[t].op = "approve" /\ tx[t].pc = "commit"
      /\ tx[t].pc # "idle"
  BY SoundParts, TxParts DEF At
<1>1. /\ s \in Sugg /\ sugg[s].st = "pending" /\ Update("sugg", s) \in tx[t].held
      /\ sugg[s] \in SuggRow
  BY <1>0, <1>s DEF ApproveSound, Typed
<1>2. PICK i \in ItemOf(t) :
        /\ item' = ItemsWith(t, i)
        /\ sugg' = [sugg EXCEPT ![s] = [sugg[s] EXCEPT !.st = "approved", !.result = i, !.canteen = of]]
        /\ \/ sugg[s].post # None /\ bindSuggestionToPost(sugg[s].post, i, item')
           \/ UNCHANGED <<post, hist, text>>
        /\ Committed(t) /\ UNCHANGED tag
        /\ \A j \in tx[t].at : Exists(j)
        /\ sugg[s].kind = "window" => Exists(ParentCanteen(s))
  <2>1. /\ ~At(t, "approve", "body") /\ ~At(t, "approve", "parent") /\ ~At(t, "approve", "source")
        /\ ~At(t, "approve", "item")
    BY DEF At
  <2> HIDE DEF of
  <2> QED  BY <1>s, <2>1, Zenon DEF Approve, ItemOf, ItemsWith, ReviewSuggestion, of
<1>3. /\ ItemsStand(i) /\ of \in Items /\ (of # None => Exists(of))
  BY <1>2, <1>s, ApprovedItem
<1>4. PostsStand
  <2>1. CASE UNCHANGED <<post, hist, text>>
    <3>1. UNCHANGED <<tag, post, hist, text>>  BY <1>2, <2>1
    <3> QED  BY <1>3, <3>1, Unbound
  <2>2. CASE sugg[s].post # None /\ bindSuggestionToPost(sugg[s].post, i, item')
    <3>1. PICK p \in Post : p = sugg[s].post  BY <1>1, <2>2 DEF SuggRow
    <3>2. PICK items : items = item'  OBVIOUS
    <3>3. bindSuggestionToPost(p, i, items) /\ tag' = tag  BY <1>2, <2>2, <3>1, <3>2
    <3> QED  BY <1>3, <3>2, <3>3, Bound
  <2> QED  BY <1>2, <2>1, <2>2
<1> DEFINE row == [sugg[s] EXCEPT !.st = "approved", !.result = i, !.canteen = of]
<1>5. /\ sugg' = [sugg EXCEPT ![s] = row] /\ tag' = tag /\ Committed(t)  BY <1>2
<1> HIDE DEF of
<1>6. /\ row \in SuggRow /\ row.st = "approved" /\ row.result = i /\ row.canteen = of
      /\ row.kind = sugg[s].kind /\ row.name = sugg[s].name /\ row.parent = sugg[s].parent
  <2>1. i \in Items  BY <1>3 DEF ItemsStand, Items
  <2> QED  BY <1>1, <1>3, <2>1 DEF SuggRow, Items
<1> HIDE DEF row
<1>7. sugg' \in [Sugg -> SuggRow] /\ sugg'[s] = row /\ \A r \in Sugg \ {s} : sugg'[r] = sugg[r]
  BY <1>0, <1>1, <1>5, <1>6 DEF Typed
<1>8. Typed'  BY <1>0, <1>3, <1>4, <1>5, <1>7 DEF Typed, ItemsStand, PostsStand
<1>9. \A r \in Sugg : /\ sugg'[r].kind = sugg[r].kind /\ sugg'[r].parent = sugg[r].parent
                      /\ sugg'[r].name = sugg[r].name
                      /\ (sugg'[r].st = "none" <=> sugg[r].st = "none")
  BY <1>1, <1>6, <1>7
<1>10. \A j \in Item : Exists(j) => item'[j] = item[j] /\ Exists(j)'
  BY <1>3 DEF ItemsStand, Exists, Kind
<1>11. KeysSound'
  <2>1. ASSUME NEW j \in Item, Referenced(j)' PROVE Exists(j)'
    <3>1. CASE \E p \in Post : j \in post'[p].words  BY <1>4, <3>1 DEF PostsStand
    <3>2. CASE \E r \in Sugg : j \in {sugg'[r].canteen, sugg'[r].result}
      <4>1. PICK r \in Sugg : j \in {sugg'[r].canteen, sugg'[r].result}  BY <3>2
      <4>2. CASE r = s
        <5>1. j = of \/ j = i  BY <1>6, <1>7, <4>1, <4>2
        <5>2. j # None  BY NoneAssumption
        <5> QED  BY <1>3, <1>10, <5>1, <5>2 DEF ItemsStand
      <4>3. CASE r # s
        <5>1. Referenced(j)  BY <1>7, <4>1, <4>3 DEF Referenced
        <5> QED  BY <1>0, <1>10, <5>1 DEF KeysSound
      <4> QED  BY <4>2, <4>3
    <3> QED  BY <2>1, <3>1, <3>2 DEF Referenced
  <2>2. Titled'  BY <1>0, <1>3, <1>9 DEF KeysSound, Titled, ItemsStand
  <2>3. \A j \in Item : Exists(j)' => IF item'[j].kind = "window" THEN item'[j].of \in Of("canteen")'
                                                                  ELSE item'[j].of = None
    BY <1>3 DEF ItemsStand
  <2>4. \A p \in Post : \A j \in post'[p].tags : Named(j)'
    BY <1>0, <1>4, <1>5 DEF KeysSound, Named, PostsStand
  <2>5. \A r \in Sugg : sugg'[r].st = "none" => sugg'[r] = NoSugg
    BY <1>0, <1>1, <1>6, <1>7 DEF KeysSound
  <2>6. ASSUME NEW r \in Sugg, sugg'[r].parent # None
        PROVE  /\ sugg'[r].kind = "window"
               /\ sugg'[sugg'[r].parent].st # "none" /\ sugg'[sugg'[r].parent].kind = "canteen"
    <3> DEFINE m == sugg[r].parent
    <3>1. m = sugg'[r].parent /\ m # None  BY <1>9, <2>6
    <3>2. m \in Sugg  BY <1>0, <3>1 DEF Typed, SuggRow
    <3>3. sugg[r].kind = "window" /\ sugg[m].st # "none" /\ sugg[m].kind = "canteen"
      BY <1>0, <3>1 DEF KeysSound
    <3> HIDE DEF m
    <3> QED  BY <1>9, <3>1, <3>2, <3>3
  <2> QED  BY <2>1, <2>2, <2>3, <2>4, <2>5, <2>6 DEF KeysSound
<1>12. SnapshotCurrent'
  <2> SUFFICES ASSUME NEW p \in Post PROVE Current(p)'  BY CurrentPosts
  <2> QED  BY <1>4 DEF PostsStand
<1>13. ASSUME NEW w \in Tx \ {t} PROVE Stands(w)
  <2>1. tx[w].op = "suggest" => sugg'[tx[w].on].st = "none"  BY <1>9, SuggestDraws
  <2>2. \A j \in Item : item[j].kind # "none" => item'[j] = item[j]  BY <1>3 DEF ItemsStand
  <2>3. \A r \in Sugg : sugg[r].st # "none" =>
          /\ sugg'[r].st # "none" /\ sugg'[r].kind = sugg[r].kind
          /\ \/ sugg'[r] = sugg[r]
             \/ sugg[r].st # "approved" /\ ~HeldAgainst(w, Update("sugg", r))
    <3> SUFFICES ASSUME NEW r \in Sugg, sugg[r].st # "none"
                 PROVE  \/ sugg'[r] = sugg[r]
                        \/ sugg[r].st # "approved" /\ ~HeldAgainst(w, Update("sugg", r))
      BY <1>9
    <3>1. CASE r = s
      <4>1. ~HeldAgainst(w, Update("sugg", s))  BY <1>1, HeldAlone
      <4> QED  BY <1>1, <3>1, <4>1
    <3>2. CASE r # s  BY <1>7, <3>2
    <3> QED  BY <3>1, <3>2
  <2>4. \A p \in Post : Len(hist'[p]) >= Len(hist[p]) /\ post'[p].tags = post[p].tags
    BY <1>4 DEF PostsStand
  <2>5. ASSUME NEW j \in Item, Exists(j)'
        PROVE  \/ Exists(j) /\ item[j].of = item'[j].of
               \/ item'[j].of = None \/ ~HeldAgainst(w, KeyShare("item", item'[j].of))
    <3>1. CASE item'[j] = item[j]  BY <2>5, <3>1 DEF Exists
    <3>2. CASE item'[j] # item[j]
      <4>1. item'[j].of = of  BY <1>0, <1>2, <1>s, <3>2 DEF ItemsWith, NewItem, of, Typed
      <4>2. CASE sugg[s].kind = "window"
        <5>1. KeyShare("item", of) \in Got(t)
          BY <1>0, <1>s, <4>2 DEF ApproveSound, SuggestedOf, of
        <5>2. Ready(t)  BY DEF At
        <5> QED  BY <4>1, <5>1, <5>2, GotFree
      <4>3. CASE sugg[s].kind # "window"  BY <4>1, <4>3 DEF SuggestedOf, of
      <4> QED  BY <4>2, <4>3
    <3> QED  BY <3>1, <3>2
  <2> QED  BY <1>5, <1>10, <2>1, <2>2, <2>3, <2>4, <2>5 DEF Stands, Named
<1> QED  BY <1>0, <1>5, <1>8, <1>11, <1>12, <1>13, CommitStep

-----------------------------------------------------------------------------
(* The steps of each request, and of each table that is managed. *)
LEMMA SuggestSteps ==
  ASSUME Sound, NEW t \in Tx, CreateSuggestion(t)
  PROVE  Sound'
<1>1. PICK row : row = applyApprovedSubmittedParent(tx[t].arg)  OBVIOUS
<1>2. CASE At(t, "suggest", "body")
  <2>1. ~At(t, "suggest", "commit")  BY <1>2 DEF At
  <2>2. /\ normalizeSuggestion(tx[t].arg)
        /\ tx' = [tx EXCEPT ![t].pc = "commit", ![t].arg = row, ![t].plan = SuggestionKeys(row)]
        /\ UNCHANGED <<item, sugg, tag, post, hist, text, begun>>
    BY <1>1, <2>1, Zenon DEF CreateSuggestion
  <2> QED  BY <1>1, <1>2, <2>2, SuggestBody
<1>3. CASE At(t, "suggest", "commit")
  <2>1. ~At(t, "suggest", "body")  BY <1>3 DEF At
  <2>2. /\ tx[t].arg.canteen # None => Exists(tx[t].arg.canteen)
        /\ sugg' = [sugg EXCEPT ![tx[t].on] = tx[t].arg]
        /\ Committed(t) /\ UNCHANGED <<item, tag, post, hist, text>>
    BY <2>1 DEF CreateSuggestion
  <2> QED  BY <1>3, <2>2, SuggestCommit
<1> QED  BY <1>2, <1>3 DEF CreateSuggestion

(* The steps of an approval. *)
LEMMA ApproveSteps ==
  ASSUME Sound, NEW t \in Tx, Approve(t)
  PROVE  Sound'
<1>s. PICK s : s = tx[t].on  OBVIOUS
<1>1. CASE At(t, "approve", "body")
  <2>1. /\ ~At(t, "approve", "parent") /\ ~At(t, "approve", "source") /\ ~At(t, "approve", "item")
        /\ ~At(t, "approve", "commit")
    BY <1>1 DEF At
  <2>2. /\ sugg[s].st = "pending"
        /\ Goto(t, "parent", {}, IF sugg[s].parent = None THEN <<>>
                                 ELSE LockSuggestionByID(sugg[s].parent))
    BY <1>s, <2>1 DEF Approve
  <2> QED  BY <1>s, <1>1, <2>2, ApproveBody
<1>2. CASE At(t, "approve", "parent")
  <2>1. /\ ~At(t, "approve", "body") /\ ~At(t, "approve", "source") /\ ~At(t, "approve", "item")
        /\ ~At(t, "approve", "commit")
    BY <1>2 DEF At
  <2>2. resolveApprovalParent(s) /\ Goto(t, "source", {}, lockSourcePost(s))
    BY <1>s, <2>1 DEF Approve
  <2> QED  BY <1>s, <1>2, <2>2, ApproveParent
<1>3. CASE At(t, "approve", "source")
  <2>1. /\ ~At(t, "approve", "body") /\ ~At(t, "approve", "parent") /\ ~At(t, "approve", "item")
        /\ ~At(t, "approve", "commit")
    BY <1>3 DEF At
  <2>2. Goto(t, "item", {}, IF tx[t].arg # None THEN <<>> ELSE FindOrCreate(s))
    BY <1>s, <2>1 DEF Approve
  <2> QED  BY <1>s, <1>3, <2>2, ApproveSource
<1>4. CASE At(t, "approve", "item")
  <2>1. /\ ~At(t, "approve", "body") /\ ~At(t, "approve", "parent") /\ ~At(t, "approve", "source")
        /\ ~At(t, "approve", "commit")
    BY <1>4 DEF At
  <2>2. approveDictionaryItem(t)  BY <2>1 DEF Approve
  <2> QED  BY <1>4, <2>2, ApproveItem
<1>5. CASE At(t, "approve", "commit")  BY <1>5, ApproveCommit
<1> QED  BY <1>1, <1>2, <1>3, <1>4, <1>5 DEF Approve

(* The steps of a rename. *)
LEMMA RenameSteps ==
  ASSUME Sound, NEW t \in Tx, RenameTag(t)
  PROVE  Sound'
<1>i. PICK i : i = tx[t].on  OBVIOUS
<1>n. PICK name : name = tx[t].arg  OBVIOUS
<1>1. CASE At(t, "rename", "body")
  <2> DEFINE op == "rename"
             pc == "name"
  <2>1. ~At(t, "rename", "name") /\ ~At(t, "rename", "commit")  BY <1>1 DEF At
  <2>2. prepareTagAffectedPosts(t, pc, i)  BY <1>i, <2>1 DEF RenameTag
  <2>3. op \in {"rename", "merge"} /\ At(t, op, "body") /\ IF op = "merge" THEN pc = "commit" ELSE pc = "name"
    BY <1>1
  <2> HIDE DEF op, pc
  <2> QED  BY <1>i, <2>2, <2>3, TagGoes
<1>2. CASE At(t, "rename", "name")
  <2>1. ~At(t, "rename", "body") /\ ~At(t, "rename", "commit")  BY <1>2 DEF At
  <2>2. Goto(t, "commit", tx[t].at, <<TagKey(tag[i].name), TagKey(name)>>)
    BY <1>i, <1>n, <2>1 DEF RenameTag
  <2> QED  BY <1>i, <1>n, <1>2, <2>2, RenameName
<1>3. CASE At(t, "rename", "commit")
  <2>1. ~At(t, "rename", "body") /\ ~At(t, "rename", "name")  BY <1>3 DEF At
  <2>2. PICK tags : tags = [tag EXCEPT ![i].name = name]  OBVIOUS
  <2>3. /\ tag' = tags /\ appendTagChangeVersions(tx[t].at, post, tags)
        /\ Committed(t) /\ UNCHANGED <<item, sugg>>
    BY <1>i, <1>n, <2>1, <2>2 DEF RenameTag
  <2> QED  BY <1>i, <1>n, <1>3, <2>2, <2>3, RenameCommit
<1> QED  BY <1>1, <1>2, <1>3 DEF RenameTag

(* The steps of a merge. *)
LEMMA MergeSteps ==
  ASSUME Sound, NEW t \in Tx, MergeTag(t)
  PROVE  Sound'
<1>i. PICK i : i = tx[t].on  OBVIOUS
<1>j. PICK target : target = tx[t].arg  OBVIOUS
<1>1. CASE At(t, "merge", "body")
  <2> DEFINE op == "merge"
             pc == "commit"
  <2>1. ~At(t, "merge", "commit")  BY <1>1 DEF At
  <2>2. prepareTagAffectedPosts(t, pc, i)  BY <1>i, <2>1 DEF MergeTag
  <2>3. op \in {"rename", "merge"} /\ At(t, op, "body") /\ IF op = "merge" THEN pc = "commit" ELSE pc = "name"
    BY <1>1
  <2> HIDE DEF op, pc
  <2> QED  BY <1>i, <2>2, <2>3, TagGoes
<1>2. CASE At(t, "merge", "commit")
  <2>1. ~At(t, "merge", "body")  BY <1>2 DEF At
  <2>2. /\ tag' = [tag EXCEPT ![i].gone = TRUE]
        /\ appendTagChangeVersions(tx[t].at, MergeTagRelations(i, target), tag)
        /\ Committed(t) /\ UNCHANGED <<item, sugg>>
    BY <1>i, <1>j, <2>1 DEF MergeTag
  <2> QED  BY <1>i, <1>j, <1>2, <2>2, MergeCommit
<1> QED  BY <1>1, <1>2 DEF MergeTag

(* The steps of a write: what it resolves, its tags, and the commit. *)
LEMMA WriteSteps ==
  ASSUME Sound, NEW t \in Tx, CreatePost(t) \/ UpdatePost(t) \/ RestoreHistory(t)
  PROVE  Sound'
<1>1. ASSUME NEW op \in PostWrites, At(t, op, "names"), replaceTags(t) PROVE Sound'
  BY <1>1, TagsSteps
<1>2. ASSUME NEW op \in PostWrites, At(t, op, "commit"), replacePostContentVersion(t) PROVE Sound'
  BY <1>2, ReplaceSteps
<1>3. ASSUME NEW op \in {"create", "edit"}, At(t, op, "body"), resolvePostPayload(t, tx[t].arg) PROVE Sound'
  <2>1. WriteSound(t) /\ tx[t].op = op /\ op \in PostWrites  BY <1>3, TxParts DEF At, PostWrites
  <2>2. PICK payload : payload = tx[t].arg  OBVIOUS
  <2>3. payload \in PayloadRow  BY <1>3, <2>1, <2>2 DEF WriteSound
  <2> QED  BY <1>3, <2>1, <2>2, <2>3, PayloadSteps
<1>4. ASSUME At(t, "restoreHistory", "body"),
             resolvePostPayload(t, updateInputFromSnapshot(tx[t].on, tx[t].arg))
      PROVE  Sound'
  <2>1. PICK op \in PostWrites : op = "restoreHistory"  BY DEF PostWrites
  <2>2. WriteSound(t) /\ tx[t].op = op /\ At(t, op, "body")  BY <1>4, <2>1, TxParts DEF At
  <2>3. PICK p : p = tx[t].on  OBVIOUS
  <2>4. PICK r : r = tx[t].arg  OBVIOUS
  <2>5. p \in Post /\ r \in 1 .. Len(hist[p])  BY <2>1, <2>2, <2>3, <2>4 DEF WriteSound
  <2>6. PICK payload : payload = updateInputFromSnapshot(p, r)  OBVIOUS
  <2>7. payload \in PayloadRow  BY <2>5, <2>6, RestoredPayload
  <2>8. resolvePostPayload(t, payload)  BY <1>4, <2>3, <2>4, <2>6
  <2> QED  BY <2>2, <2>7, <2>8, PayloadSteps
<1>5. CASE CreatePost(t)
  <2>1. "create" \in PostWrites /\ "create" \in {"create", "edit"}  BY DEF PostWrites
  <2> QED  BY <1>1, <1>2, <1>3, <1>5, <2>1, Zenon DEF CreatePost
<1>6. CASE UpdatePost(t)
  <2>1. "edit" \in PostWrites /\ "edit" \in {"create", "edit"}  BY DEF PostWrites
  <2> QED  BY <1>1, <1>2, <1>3, <1>6, <2>1, Zenon DEF UpdatePost
<1>7. CASE RestoreHistory(t)
  <2>1. "restoreHistory" \in PostWrites  BY DEF PostWrites
  <2>2. CASE At(t, "restoreHistory", "commit")  BY <1>7, <2>2, RestoreSteps
  <2>3. CASE ~At(t, "restoreHistory", "commit")
    <3>1. \/ /\ At(t, "restoreHistory", "body")
             /\ resolvePostPayload(t, updateInputFromSnapshot(tx[t].on, tx[t].arg))
          \/ At(t, "restoreHistory", "names") /\ replaceTags(t)
      BY <1>7, <2>3, Zenon DEF RestoreHistory
    <3> QED  BY <1>1, <1>4, <2>1, <3>1, Zenon
  <2> QED  BY <2>2, <2>3
<1> QED  BY <1>5, <1>6, <1>7

(* The steps of the dictionaries. *)
LEMMA ItemSteps ==
  ASSUME Sound, NEW t \in Tx,
         ManageFlavors(t) \/ ManageCuisines(t) \/ ManageCanteens(t) \/ ManageWindows(t)
  PROVE  Sound'
<1>0. Typed /\ KeysSound  BY SoundParts
<1>1. ASSUME NEW kind \in Kind \ {"window"}, NEW n \in Name, NEW active \in BOOLEAN,
             CreateDictionary(kind, n, active, None)
      PROVE  Sound'
  <2>1. PICK of : of = None  OBVIOUS
  <2>2. kind \in Kind /\ (IF kind = "window" THEN of \in Of("canteen") ELSE of = None)  BY <2>1
  <2> QED  BY <1>1, <2>1, <2>2, CreateSteps
<1>2. ASSUME NEW i \in Item, NEW n \in Name, NEW active \in BOOLEAN, CreateWindow(i, n, active) PROVE Sound'
  <2>1. PICK kind \in Kind : kind = "window"  BY DEF Kind
  <2>2. /\ CreateDictionary(kind, n, active, i) /\ Free(KeyShare("item", i))
        /\ IF kind = "window" THEN i \in Of("canteen") ELSE i = None
    BY <1>2, <2>1 DEF CreateWindow
  <2> QED  BY <2>2, CreateSteps
<1>3. ASSUME NEW i \in Item, NEW kind \in Kind, Enable(t, i, kind) PROVE Sound'
  <2>1. item[i].kind = kind  BY <1>3 DEF Enable, UpdateDictionary
  <2>2. PICK n : n = item[i].name  OBVIOUS
  <2>3. n \in Name  BY <1>0, <2>1, <2>2 DEF Exists, KeysSound, Titled, Typed, ItemRow
  <2>4. PICK active \in BOOLEAN : active = TRUE  OBVIOUS
  <2>5. UpdateDictionary(t, i, kind, n, active)  BY <1>3, <2>2, <2>4 DEF Enable
  <2> QED  BY <2>3, <2>5, UpdateSteps
<1>4. /\ "flavor" \in Kind \ {"window"} /\ "cuisine" \in Kind \ {"window"} /\ "canteen" \in Kind \ {"window"}
      /\ "flavor" \in Kind /\ "cuisine" \in Kind /\ "canteen" \in Kind /\ "window" \in Kind
  BY DEF Kind
<1>5. ASSUME NEW kind \in Kind, NEW i \in Item,
             \/ \E n \in Name, active \in BOOLEAN : UpdateDictionary(t, i, kind, n, active)
             \/ Enable(t, i, kind) \/ BeginDelete(t, i, kind)
      PROVE  Sound'
  BY <1>3, <1>5, UpdateSteps, DeleteBegins
<1>6. CASE ManageFlavors(t)
  BY <1>1, <1>4, <1>5, <1>6, Zenon
     DEF ManageFlavors, CreateFlavor, UpdateFlavor, EnableFlavor, DeleteFlavor
<1>7. CASE ManageCuisines(t)
  BY <1>1, <1>4, <1>5, <1>7, Zenon
     DEF ManageCuisines, CreateCuisine, UpdateCuisine, EnableCuisine, DeleteCuisine
<1>8. CASE ManageCanteens(t)
  BY <1>1, <1>4, <1>5, <1>8, Zenon
     DEF ManageCanteens, CreateCanteen, UpdateCanteen, EnableCanteen, DeleteCanteen
<1>9. CASE ManageWindows(t)
  BY <1>2, <1>4, <1>5, <1>9, Zenon DEF ManageWindows, UpdateWindow, EnableWindow, DeleteWindow
<1> QED  BY <1>6, <1>7, <1>8, <1>9

(* Every step preserves the invariant. *)
LEMMA NextSound == ASSUME Sound, [Next]_vars PROVE Sound'
<1>1. ASSUME NEW t \in Tx, Handle(t) PROVE Sound'
  BY <1>1, SuggestSteps, ApproveSteps, RenameItemSteps, DeleteSteps, RenameSteps, MergeSteps, WriteSteps
     DEF Handle
<1>2. ASSUME NEW t \in Tx,
             \/ CanBegin(t) /\ (SuggestionRequest(t) \/ TagRequest(t) \/ PostRequest(t))
             \/ ManageFlavors(t) \/ ManageCuisines(t) \/ ManageCanteens(t) \/ ManageWindows(t)
             \/ Lock(t) \/ Rollback(t)
      PROVE  Sound'
  BY <1>2, SuggestionRequests, TagRequests, PostRequests, ItemSteps, LockSteps, RollbackStep
<1>3. ASSUME UNCHANGED vars PROVE Sound'
  <2>1. UNCHANGED Tables /\ tx' = tx /\ begun' = begun  BY <1>3 DEF vars, Tables
  <2>2. Typed' /\ KeysSound' /\ SnapshotCurrent' /\ \A w \in Tx : TxSound(w)'  BY <2>1, TablesStand
  <2>3. Drawn' /\ Exclusive'  BY <2>1 DEF Sound, Drawn, Exclusive, HeldAgainst
  <2>4. Counted'  BY <2>1 DEF Sound, Counted, Active
  <2>5. tx' = [t \in Tx |-> tx'[t]]  BY <2>1 DEF Sound
  <2> QED  BY <2>2, <2>3, <2>4, <2>5 DEF Sound
<1> QED  BY <1>1, <1>2, <1>3, ManageTagsSteps, ManagePostsSteps, RejectSteps DEF Next

-----------------------------------------------------------------------------
(* The rows of the first tables. *)
LEMMA EmptyRows ==
  /\ NoItem \in ItemRow /\ NoItem.kind = "none"
  /\ NoSugg \in SuggRow /\ NoSugg.st = "none" /\ NoSugg.parent = None /\ NoSugg.canteen = None
  /\ NoSugg.result = None
  /\ NoTag \in TagRow /\ NoTag.name = None
  /\ NoPost \in PostRow /\ NoPost.tags = {} /\ NoPost.words = {} /\ NoPost.rev = 0 /\ ~NoPost.put
<1>1. NoItem \in ItemRow /\ NoItem.kind = "none"  BY DEF NoItem, ItemRow
<1>2. /\ NoSugg \in SuggRow /\ NoSugg.st = "none" /\ NoSugg.parent = None /\ NoSugg.canteen = None
      /\ NoSugg.result = None
  BY DEF NoSugg, SuggRow, Kind
<1>3. NoTag \in TagRow /\ NoTag.name = None  BY DEF NoTag, TagRow, Verdict
<1>4. /\ NoPost \in PostRow /\ NoPost.tags = {} /\ NoPost.words = {} /\ NoPost.rev = 0 /\ ~NoPost.put
  BY DEF NoPost, PostRow
<1> QED  BY <1>1, <1>2, <1>3, <1>4

(* The first tables, with no request under way. *)
LEMMA InitSound == ASSUME Init PROVE Sound
<1>1. PICK n \in Name, m \in Name, v \in Verdict, kind \in Kind, second \in BOOLEAN :
        /\ n # m /\ (second => kind = "canteen")
        /\ item = [i \in Item |-> CASE i = 1 -> NewItem("canteen", n, TRUE, None)
                                   [] i = 2 /\ second -> NewItem("canteen", m, TRUE, None)
                                   [] OTHER -> NoItem]
        /\ tag = [i \in Tag |-> CASE i = 1 -> [NoTag EXCEPT !.name = n]
                                 [] i = 2 /\ second -> [NoTag EXCEPT !.name = m]
                                 [] OTHER -> NoTag]
        /\ post = [p \in Post |->
              IF p = 1 THEN [st |-> Status(v), del |-> FALSE, rev |-> 1, put |-> TRUE, tags |-> {1},
                             words |-> {1}]
              ELSE NoPost]
        /\ hist = [p \in Post |-> IF p = 1 THEN <<[tags |-> {n}, flavors |-> {}, ids |-> {1}]>> ELSE <<>>]
        /\ text = [p \in Post |-> IF p = 1 THEN <<finishModeration(v)>> ELSE <<>>]
        /\ sugg = [s \in Sugg |->
              CASE s = 1 -> [NoSugg EXCEPT !.st = "pending", !.kind = kind, !.name = m, !.post = 1,
                                           !.canteen = IF kind = "window" THEN 1 ELSE None]
                [] s = 2 /\ kind = "canteen" ->
                      [NoSugg EXCEPT !.st = "pending", !.kind = "window", !.name = n, !.post = 1,
                                     !.parent = 1]
                [] OTHER -> NoSugg]
        /\ tx = [t \in Tx |-> Idle]
        /\ begun = 0
  BY Zenon DEF Init
<1>2. /\ 1 \in Tag /\ 1 \in Item /\ 1 \in Sugg /\ 1 \in Post
      /\ n # None /\ m # None /\ None \notin Item /\ None \notin Sugg
  BY IdAssumption, NoneAssumption
<1> DEFINE a == NewItem("canteen", n, TRUE, None)
           c == NewItem("canteen", m, TRUE, None)
           b == [NoTag EXCEPT !.name = n]
           d == [NoTag EXCEPT !.name = m]
           st == Status(v)
           row == [st |-> st, del |-> FALSE, rev |-> 1, put |-> TRUE, tags |-> {1}, words |-> {1}]
           x == [tags |-> {n}, flavors |-> {}, ids |-> {1}]
           rec == finishModeration(v)
           of == IF kind = "window" THEN 1 ELSE None
           e == [NoSugg EXCEPT !.st = "pending", !.kind = kind, !.name = m, !.post = 1, !.canteen = of]
           f == [NoSugg EXCEPT !.st = "pending", !.kind = "window", !.name = n, !.post = 1, !.parent = 1]
<1>3. /\ a \in ItemRow /\ a.kind = "canteen" /\ a.name = n /\ a.of = None
      /\ c \in ItemRow /\ c.kind = "canteen" /\ c.name = m /\ c.of = None
  BY DEF NewItem, ItemRow, Kind
<1>4. b \in TagRow /\ b.name = n /\ d \in TagRow /\ d.name = m
  BY EmptyRows DEF TagRow
<1>5. /\ row \in PostRow /\ row.rev = 1 /\ row.put /\ row.tags = {1} /\ row.words = {1}
  <2>1. st \in {"none", "draft", "pending", "approved", "rejected"}
    BY NoneAssumption DEF Status, aggregatePostModeration, Verdict
  <2> HIDE DEF st
  <2>2. {1} \in SUBSET Tag /\ {1} \in SUBSET Item /\ 1 \in Nat  BY <1>2
  <2> QED  BY <2>1, <2>2 DEF PostRow
<1>6. x \in Snapshot /\ x.tags = {n} /\ x.ids = {1}  BY <1>2 DEF Snapshot
<1>7. rec \in TextRecord  BY DEF finishModeration, NoText, TextRecord, Verdict
<1>8. /\ e \in SuggRow /\ e.st = "pending" /\ e.kind = kind /\ e.name = m /\ e.parent = None
      /\ e.canteen \in {1, None} /\ e.result = None
  <2>1. of \in {1, None} /\ of \in Item \cup {None}  BY <1>2
  <2> HIDE DEF of
  <2> QED  BY <1>2, <2>1, EmptyRows DEF SuggRow, Kind
<1>9. /\ f \in SuggRow /\ f.st = "pending" /\ f.kind = "window" /\ f.name = n /\ f.parent = 1
      /\ f.canteen = None /\ f.result = None
  BY <1>2, EmptyRows DEF SuggRow, Kind
<1>10. /\ post = [p \in Post |-> IF p = 1 THEN row ELSE NoPost]
       /\ hist = [p \in Post |-> IF p = 1 THEN <<x>> ELSE <<>>]
       /\ text = [p \in Post |-> IF p = 1 THEN <<rec>> ELSE <<>>]
       /\ tx = [t \in Tx |-> Idle] /\ begun = 0
  BY <1>1
<1>11. /\ tag = [i \in Tag |-> IF i = 1 THEN b ELSE IF i = 2 /\ second THEN d ELSE NoTag]
       /\ item = [i \in Item |-> IF i = 1 THEN a ELSE IF i = 2 /\ second THEN c ELSE NoItem]
  <2> HIDE DEF a, b, c, d
  <2>1. /\ tag = [i \in Tag |-> CASE i = 1 -> b [] i = 2 /\ second -> d [] OTHER -> NoTag]
        /\ item = [i \in Item |-> CASE i = 1 -> a [] i = 2 /\ second -> c [] OTHER -> NoItem]
    BY <1>1 DEF a, b, c, d
  <2> QED  BY <2>1
<1>12. sugg = [s \in Sugg |-> IF s = 1 THEN e ELSE IF s = 2 /\ kind = "canteen" THEN f ELSE NoSugg]
  <2> HIDE DEF e, f
  <2>1. sugg = [s \in Sugg |-> CASE s = 1 -> e [] s = 2 /\ kind = "canteen" -> f [] OTHER -> NoSugg]
    BY <1>1 DEF e, f
  <2> QED  BY <2>1
<1> HIDE DEF a, b, c, d, st, row, x, rec, of, e, f
<1>13. /\ item \in [Item -> ItemRow] /\ item[1] = a
       /\ \A i \in Item \ {1} : item[i] = NoItem \/ item[i] = c
       /\ post \in [Post -> PostRow] /\ post[1] = row /\ \A p \in Post \ {1} : post[p] = NoPost
       /\ tag \in [Tag -> TagRow] /\ tag[1] = b
       /\ sugg \in [Sugg -> SuggRow] /\ sugg[1] = e
       /\ \A s \in Sugg \ {1} : sugg[s] = NoSugg \/ (kind = "canteen" /\ sugg[s] = f)
  BY <1>2, <1>3, <1>4, <1>5, <1>8, <1>9, <1>10, <1>11, <1>12, EmptyRows
<1>14. /\ hist \in [Post -> Seq(Snapshot)] /\ hist[1] = <<x>> /\ \A p \in Post \ {1} : hist[p] = <<>>
       /\ text \in [Post -> Seq(TextRecord)] /\ text[1] = <<rec>> /\ \A p \in Post \ {1} : text[p] = <<>>
  <2>1. /\ <<x>> \in Seq(Snapshot) /\ <<>> \in Seq(Snapshot)
        /\ <<rec>> \in Seq(TextRecord) /\ <<>> \in Seq(TextRecord)
    BY <1>6, <1>7
  <2> QED  BY <1>2, <1>10, <2>1
<1>15. Len(<<x>>) = 1 /\ Len(<<rec>>) = 1 /\ <<x>>[1] = x
  OBVIOUS
<1>16. Typed
  <2>1. ASSUME NEW p \in Post
        PROVE  /\ Len(hist[p]) = Len(text[p]) /\ post[p].rev \in 0 .. Len(hist[p])
               /\ post[p].put => post[p].rev > 0
    <3>1. CASE p = 1
      <4>1. hist[p] = <<x>> /\ text[p] = <<rec>> /\ post[p].rev = 1  BY <1>5, <1>13, <1>14, <3>1
      <4>2. Len(hist[p]) = 1 /\ Len(text[p]) = 1  BY <1>15, <4>1
      <4> QED  BY <4>1, <4>2
    <3>2. CASE p # 1
      <4>1. hist[p] = <<>> /\ text[p] = <<>> /\ post[p] = NoPost  BY <1>13, <1>14, <3>2
      <4>2. Len(hist[p]) = 0 /\ Len(text[p]) = 0  BY <4>1, PlanRange
      <4> QED  BY <4>1, <4>2, EmptyRows
    <3> QED  BY <3>1, <3>2
  <2> QED  BY <1>13, <1>14, <2>1 DEF Typed
<1>17. KeysSound
  <2>1. /\ Exists(1)
        /\ \A i \in Item : Exists(i) => item[i] \in {a, c}
    <3>1. item[1].kind \in Kind  BY <1>3, <1>13 DEF Kind
    <3>2. NoItem.kind \notin Kind  BY EmptyRows DEF Kind
    <3> QED  BY <1>2, <1>13, <3>1, <3>2 DEF Exists
  <2>2. Titled
    <3>1. \A i \in Item : Exists(i) => item[i].name # None  BY <1>2, <1>3, <2>1
    <3>2. \A s \in Sugg : sugg[s].st # "none" => sugg[s].name # None
      BY <1>2, <1>8, <1>9, <1>13, EmptyRows
    <3> QED  BY <3>1, <3>2 DEF Titled
  <2>3. ASSUME NEW i \in Item, Referenced(i) PROVE Exists(i)
    <3>1. \A s \in Sugg : sugg[s].canteen \in {1, None} /\ sugg[s].result = None
      BY <1>8, <1>9, <1>13, EmptyRows
    <3>2. \A p \in Post : post[p].words \subseteq {1}  BY <1>5, <1>13, EmptyRows
    <3>3. i = 1
      <4>1. i # None  BY <1>2
      <4> QED  BY <2>3, <3>1, <3>2, <4>1 DEF Referenced
    <3> QED  BY <2>1, <3>3
  <2>4. \A i \in Item : Exists(i) => IF item[i].kind = "window" THEN item[i].of \in Of("canteen")
                                                                ELSE item[i].of = None
    BY <1>3, <2>1
  <2>5. \A p \in Post : \A i \in post[p].tags : Named(i)
    <3>1. Named(1)  BY <1>2, <1>4, <1>13 DEF Named
    <3>2. \A p \in Post : post[p].tags \subseteq {1}  BY <1>5, <1>13, EmptyRows
    <3> QED  BY <3>1, <3>2
  <2>6. \A s \in Sugg : sugg[s].st = "none" => sugg[s] = NoSugg  BY <1>8, <1>9, <1>13
  <2>7. ASSUME NEW s \in Sugg, sugg[s].parent # None
        PROVE  /\ sugg[s].kind = "window"
               /\ sugg[sugg[s].parent].st # "none" /\ sugg[sugg[s].parent].kind = "canteen"
    <3>1. s # 1 /\ kind = "canteen" /\ sugg[s] = f  BY <1>8, <1>13, <2>7, EmptyRows
    <3> QED  BY <1>8, <1>9, <1>13, <3>1
  <2> QED  BY <2>2, <2>3, <2>4, <2>5, <2>6, <2>7 DEF KeysSound
<1>18. SnapshotCurrent
  <2> SUFFICES ASSUME NEW p \in Post PROVE Current(p)  BY CurrentPosts
  <2>1. CASE p = 1
    <3>1. /\ post[p].tags = {1} /\ post[p].words = {1} /\ post[p].rev = 1 /\ hist[p][1] = x
          /\ tag[1].name = n /\ item[1].kind = "canteen"
      BY <1>3, <1>4, <1>5, <1>13, <1>14, <1>15, <2>1
    <3>2. {tag[i].name : i \in {1}} = {n} /\ {i \in {1} : item[i].kind # "flavor"} = {1}  BY <3>1
    <3> QED  BY <1>6, <3>1, <3>2 DEF Current
  <2>2. CASE p # 1
    <3>1. ~post[p].put  BY <1>13, <2>2, EmptyRows
    <3> QED  BY <3>1 DEF Current
  <2> QED  BY <2>1, <2>2
<1>19. tx = [t \in Tx |-> tx[t]] /\ \A t \in Tx : tx[t] = Idle  BY <1>10
<1>20. ASSUME NEW t \in Tx PROVE TxSound(t)
  BY <1>19, IdleRow, PlanRange
     DEF TxSound, LockSound, SuggestSound, ApproveSound, ItemSound, TagSound, WriteSound, PostWrites,
         Orderly
<1>21. Drawn /\ Exclusive  BY <1>19, IdleRow DEF Drawn, Exclusive
<1>22. Counted
  <2>1. Active = {}  BY <1>19, IdleRow DEF Active
  <2> QED  BY <1>10, <2>1, FS_EmptySet, BoundAssumption DEF Counted
<1> QED  BY <1>16, <1>17, <1>18, <1>19, <1>20, <1>21, <1>22 DEF Sound

(* The inductive invariant: rows refer to rows that are there, the current    *)
(* revision that was written has the snapshot it needs, and every request     *)
(* has locked what it goes by and takes its locks in order.                   *)
THEOREM AlwaysSound == Spec => []Sound
<1>1. Init => Sound  BY InitSound
<1>2. Sound /\ [Next]_vars => Sound'  BY NextSound
<1> QED  BY <1>1, <1>2, PTL DEF Spec

-----------------------------------------------------------------------------
(* The rows have their types, and no deletion, approval, merge or write that  *)
(* overlaps with another leaves a post, a window or a suggestion with an item *)
(* or a tag that is gone.                                                     *)
THEOREM TypeCorrect == Spec => []TypeOK
<1>1. Sound => TypeOK
  <2> SUFFICES ASSUME Sound PROVE TypeOK  OBVIOUS
  <2>1. Typed /\ KeysSound  BY SoundParts
  <2>2. \A p \in Post : /\ hist[p] \in Seq(Snapshot) /\ text[p] \in Seq(TextRecord)
                        /\ Len(hist[p]) = Len(text[p]) /\ post[p].rev \in 0 .. Len(hist[p])
    BY <2>1 DEF Typed
  <2>3. DOMAIN tx = Tx
    <3>1. tx = [t \in Tx |-> tx[t]]  BY DEF Sound
    <3> QED  BY <3>1
  <2>4. begun \in 0 .. MaxRequests  BY DEF Sound, Counted
  <2>5. \A i \in Of("window") : item[i].of \in Of("canteen")
    BY <2>1 DEF KeysSound, Of, Exists, Kind
  <2>6. \A p \in Post : \A i \in post[p].tags : tag[i].name # None  BY <2>1 DEF KeysSound, Named
  <2>7. \A i \in Item : Referenced(i) => Exists(i)  BY <2>1 DEF KeysSound
  <2> QED  BY <2>1, <2>2, <2>3, <2>4, <2>5, <2>6, <2>7 DEF Typed, TypeOK
<1> QED  BY <1>1, AlwaysSound, PTL

(* However renames, merges, approvals and edits overlap, the snapshot of a    *)
(* current revision that was written names the tags and places the post has.  *)
THEOREM SnapshotSafety == Spec => []SnapshotCurrent
<1>1. Sound => SnapshotCurrent  BY DEF Sound
<1> QED  BY <1>1, AlwaysSound, PTL

-----------------------------------------------------------------------------
(* A request that is none of those that hold rows while they wait for earlier *)
(* ones takes its locks in order, or is a rename that waits for a name.       *)
LEMMA WaitsInOrder ==
  ASSUME Sound, NEW t \in Tx, tx[t].plan # <<>>, ~Unordered(t)
  PROVE  LET k == Head(tx[t].plan) IN
         /\ k \in Lockable
         /\ \/ \A h \in tx[t].held : Before(sugg, h[1], k[1])
            \/ tx[t].op = "rename" /\ tx[t].pc = "commit" /\ NamesSound(t)
<1> DEFINE p == tx[t].plan
           held == tx[t].held
<1>1. /\ LockSound(t) /\ TagSound(t) /\ p \in Seq(Lockable) /\ p # <<>>  BY TxParts
<1>2. tx[t].pc # "idle" /\ tx[t].op # "idle"  BY <1>1 DEF LockSound
<1>3. /\ tx[t].op \in {"suggest", "approve", "rename", "merge"}
      /\ tx[t].op = "suggest" => tx[t].arg.parent = None
  BY <1>1, <1>2 DEF LockSound, Unordered
<1>4. /\ Orderly(t) => InOrder(sugg, held, p)
      /\ tx[t].op = "rename" /\ tx[t].pc = "commit" => NamesSound(t)
  BY <1>1 DEF LockSound, TagSound
<1>5. Orderly(t) \/ (tx[t].op = "rename" /\ tx[t].pc = "commit")  BY <1>3 DEF Orderly
<1> HIDE DEF p, held
<1>6. Head(p) \in Lockable /\ Head(p) = p[1] /\ 1 \in DOMAIN p  BY <1>1
<1>7. InOrder(sugg, held, p) => \A h \in held : Before(sugg, h[1], Head(p)[1])  BY <1>6 DEF InOrder
<1> QED  BY <1>4, <1>5, <1>6, <1>7 DEF p, held

(* The names a rename waits for are the last locks of all.                    *)
LEMMA RenameWaits ==
  ASSUME Sound, NEW t \in Tx, NamesSound(t), NEW k, k = Head(tx[t].plan)
  PROVE  /\ k[1][1] = "tagKey"
         /\ \A h \in tx[t].held : h[1][1] = "tagKey" =>
               h = TagKey(tag[tx[t].on].name) /\ k = TagKey(tx[t].arg)
<1> DEFINE p == tx[t].plan
           held == tx[t].held
           old == TagKey(tag[tx[t].on].name)
           new == TagKey(tx[t].arg)
<1>1. \/ p = <<old, new>> /\ Within(held, 2)
      \/ p = <<new>> /\ Within(held \ {old}, 2)
  BY DEF NamesSound
<1>2. old[1][1] = "tagKey" /\ new[1][1] = "tagKey"  BY DEF TagKey, Update
<1>3. k = Head(p)  OBVIOUS
<1>4. \A h : h[1][1] = "tagKey" => ~(Rank(h[1][1]) <= 2)  BY Ranks
<1> HIDE DEF p, held, old, new
<1>5. k = old \/ k = new  BY <1>1, <1>3
<1>6. ASSUME NEW h \in held, h[1][1] = "tagKey" PROVE h = old /\ k = new
  <2>1. ~Within(held, 2)  BY <1>4, <1>6 DEF Within
  <2>2. p = <<new>> /\ Within(held \ {old}, 2)  BY <1>1, <2>1
  <2>3. h = old  BY <1>4, <1>6, <2>2 DEF Within
  <2> QED  BY <1>3, <2>2, <2>3
<1> QED  BY <1>2, <1>5, <1>6 DEF held, old, new

(* However many rows there are, no set of them has for each one a later one.  *)
LEMMA NoEndlessOrder ==
  ASSUME NEW K \in SUBSET Row, K # {}, NEW rows
  PROVE  \E k \in K : \A j \in K : ~Before(rows, k, j)
<1> DEFINE R == {Rank(k[1]) : k \in K}
<1>1. \A k \in K : k \in Row  OBVIOUS
<1>2. \A k \in K : Rank(k[1]) \in 1 .. 5  BY <1>1, RowKinds
<1>3. R \in SUBSET (1 .. 5) /\ R # {}  BY <1>2
<1> HIDE DEF R
<1>4. R \in SUBSET Nat /\ IsFiniteSet(R)
  <2>1. 1 \in Int /\ 5 \in Int  OBVIOUS
  <2>2. IsFiniteSet(1 .. 5)  BY <2>1, FS_Interval
  <2>3. IsFiniteSet(R)  BY <1>3, <2>2, FS_Subset
  <2>4. \A i \in 1 .. 5 : i \in Nat  OBVIOUS
  <2> QED  BY <1>3, <2>3, <2>4
<1>5. PICK r \in R : \A i \in R : i <= r  BY <1>3, <1>4, LargestExists
<1> DEFINE L == {k \in K : Rank(k[1]) = r}
<1>6. /\ L # {} /\ L \subseteq K
      /\ \A k \in L : \A j \in K : ~(Rank(k[1]) < Rank(j[1]))
  <2>1. \A j \in K : Rank(j[1]) \in R  BY DEF R
  <2>2. L # {} /\ L \subseteq K  BY DEF R
  <2> QED  BY <1>2, <1>5, <2>1, <2>2
<1> DEFINE Ids(table) == {k[2] : k \in {k \in K : k[1] = table}}
<1>7. ASSUME NEW table \in {"tag", "post", "item"}, NEW g \in L, g[1] = table
      PROVE  \E k \in K : \A j \in K : ~Before(rows, k, j)
  <2> DEFINE I == Ids(table)
  <2>1. I \in SUBSET Nat /\ IsFiniteSet(I)
    <3>1. \A k \in K : k[1] = table => k[2] \in Tag \cup Post \cup Item  BY <1>1, <1>7 DEF Row
    <3>2. I \subseteq Tag \cup Post \cup Item  BY <3>1
    <3>3. IsFiniteSet(Tag \cup Post \cup Item)
      <4>1. IsFiniteSet(Tag) /\ IsFiniteSet(Post) /\ IsFiniteSet(Item)  BY IdAssumption
      <4>2. IsFiniteSet(Tag \cup Post)  BY <4>1, FS_Union
      <4> QED  BY <4>1, <4>2, FS_Union
    <3>4. Tag \cup Post \cup Item \subseteq Nat  BY IdAssumption
    <3> HIDE DEF I
    <3> QED  BY <3>2, <3>3, <3>4, FS_Subset
  <2>2. I # {}  BY <1>6, <1>7
  <2> HIDE DEF I
  <2>3. PICK i \in I : \A x \in I : x <= i  BY <2>1, <2>2, LargestExists
  <2>4. PICK k \in K : k[1] = table /\ k[2] = i  BY <2>3 DEF I
  <2>5. k \in L  BY <1>7, <2>4
  <2>6. ASSUME NEW j \in K PROVE ~Before(rows, k, j)
    <3>1. j[1] = table => j[2] \in I  BY Zenon DEF I
    <3>2. ASSUME j[1] = k[1] PROVE ~(k[2] < j[2])
      <4>1. j[2] \in I  BY <2>4, <3>1, <3>2
      <4>2. j[2] \in Nat /\ i \in Nat /\ j[2] <= i  BY <2>1, <2>3, <4>1
      <4> QED  BY <2>4, <4>2
    <3>3. ~(Rank(k[1]) < Rank(j[1])) /\ k[1] # "sugg"  BY <1>6, <1>7, <2>4, <2>5
    <3> QED  BY <3>2, <3>3 DEF Before
  <2> QED  BY <2>6
<1>8. ASSUME NEW k \in L, k[1] \notin {"tag", "post", "item"}
      PROVE  \E n \in K : \A j \in K : ~Before(rows, n, j)
  <2> SUFFICES ASSUME NEW n \in K, Before(rows, k, n)
               PROVE  \A j \in K : ~Before(rows, n, j)
    BY <1>6
  <2>1. ~(Rank(k[1]) < Rank(n[1]))  BY <1>6
  <2>2. /\ k[1] = "sugg" /\ n[1] = "sugg"
        /\ rows[k[2]].kind = "window" /\ rows[n[2]].kind = "canteen"
    BY <1>8, <2>1 DEF Before
  <2>3. ASSUME NEW j \in K PROVE ~Before(rows, n, j)
    <3>1. ~(Rank(n[1]) < Rank(j[1]))  BY <1>6, <2>2
    <3> QED  BY <2>2, <3>1 DEF Before
  <2> QED  BY <2>3
<1>9. PICK k \in L : TRUE  BY <1>6
<1> QED  BY <1>7, <1>8, <1>9

(* Whoever waits for a name waits for a rename that waits for its new name:   *)
(* names go round.                                                            *)
LEMMA RenamesGoRound ==
  ASSUME Sound, NEW S \in SUBSET Tx, Ring(S), \A t \in S : ~Unordered(t),
         NEW z \in S, Head(tx[z].plan)[1][1] = "tagKey"
  PROVE  NamesGoRound(S)
<1> DEFINE W == {t \in S : Head(tx[t].plan)[1][1] = "tagKey"}
           R == {w \in W : \E t \in W : WaitsFor(t, w)}
<1>1. ASSUME NEW t \in W, NEW w \in S, WaitsFor(t, w)
      PROVE  /\ w \in W /\ t # w /\ tx[w].op = "rename"
             /\ Head(tx[t].plan)[1] = TagKey(tag[tx[w].on].name)[1]
             /\ Head(tx[w].plan) = TagKey(tx[w].arg)
  <2>1. PICK j : j = Head(tx[t].plan)  OBVIOUS
  <2>2. PICK k : k = Head(tx[w].plan)  OBVIOUS
  <2>3. /\ t \in S /\ t \in Tx /\ w \in Tx /\ t # w
        /\ tx[t].plan # <<>> /\ HeldAgainst(w, j) /\ j[1][1] = "tagKey"
    BY <1>1, <2>1 DEF WaitsFor
  <2>4. tx[w].plan # <<>>  BY DEF Ring, WaitsFor
  <2>5. PICK g \in tx[w].held : g[1] = j[1]  BY <2>3 DEF HeldAgainst
  <2>6. j \in Lockable  BY <2>1, <2>3, WaitsInOrder
  <2>7. /\ k \in Lockable
        /\ \/ Before(sugg, j[1], k[1])
           \/ tx[w].op = "rename" /\ NamesSound(w)
    BY <2>2, <2>3, <2>4, <2>5, WaitsInOrder
  <2>8. ~Before(sugg, j[1], k[1])
    <3>1. j[1] \in Row /\ k[1] \in Row  BY <2>6, <2>7 DEF Lockable
    <3>2. Rank(j[1][1]) = 5 /\ Rank(k[1][1]) \in 1 .. 5  BY <2>3, <3>1, Ranks, RowKinds
    <3> QED  BY <2>3, <3>2 DEF Before
  <2>9. /\ tx[w].op = "rename" /\ k[1][1] = "tagKey"
        /\ g = TagKey(tag[tx[w].on].name) /\ k = TagKey(tx[w].arg)
    BY <2>2, <2>3, <2>5, <2>7, <2>8, RenameWaits
  <2> QED  BY <2>1, <2>2, <2>3, <2>5, <2>9
<1>2. W \subseteq S /\ R \subseteq W /\ z \in W  OBVIOUS
<1>3. ASSUME NEW t \in W PROVE \E w \in R : WaitsFor(t, w)
  <2>1. PICK w \in S : WaitsFor(t, w)  BY <1>2 DEF Ring
  <2>2. w \in W  BY <1>1, <2>1
  <2> QED  BY <2>1, <2>2
<1>4. R \in (SUBSET S) \ {{}}  BY <1>2, <1>3
<1>5. ASSUME NEW t \in R
      PROVE  tx[t].op = "rename" /\ \E w \in R \ {t} : tx[t].arg = tag[tx[w].on].name
  <2>1. PICK u \in W : WaitsFor(u, t)  OBVIOUS
  <2>2. t \in W /\ t \in S  BY <1>2
  <2>3. tx[t].op = "rename" /\ Head(tx[t].plan) = TagKey(tx[t].arg)  BY <1>1, <2>1, <2>2
  <2>4. PICK w \in R : WaitsFor(t, w)  BY <1>3, <2>2
  <2>5. w \in S  BY <1>2
  <2>6. t # w /\ Head(tx[t].plan)[1] = TagKey(tag[tx[w].on].name)[1]  BY <1>1, <2>2, <2>4, <2>5
  <2>7. \A m, n : TagKey(m)[1] = TagKey(n)[1] => m = n  BY DEF TagKey, Update
  <2>8. tx[t].arg = tag[tx[w].on].name  BY <2>3, <2>6, <2>7
  <2> QED  BY <2>3, <2>4, <2>6, <2>8
<1> HIDE DEF R, W
<1> QED  BY <1>4, <1>5 DEF NamesGoRound

(* Any number of requests that wait in a circle have among them the write of  *)
(* an author, the submission of a window below a suggested canteen, the       *)
(* renaming or deletion of a dictionary item, or renames of tags that hand    *)
(* their names on in a circle: of the rows that the others wait for there is  *)
(* one that nothing comes after.                                              *)
THEOREM WaitSafety == Spec => []OrderedNeverCircle
<1>1. Sound => OrderedNeverCircle
  <2> SUFFICES ASSUME Sound, NEW S \in SUBSET Tx, Ring(S), \A t \in S : ~Unordered(t)
               PROVE  NamesGoRound(S)
    BY DEF OrderedNeverCircle
  <2>1. CASE \E z \in S : Head(tx[z].plan)[1][1] = "tagKey"  BY <2>1, RenamesGoRound
  <2>2. CASE ~ \E z \in S : Head(tx[z].plan)[1][1] = "tagKey"
    <3> DEFINE K == {Head(tx[t].plan)[1] : t \in S}
    <3>1. \A t \in S : tx[t].plan # <<>>  BY DEF Ring, WaitsFor
    <3>2. ASSUME NEW t \in S
          PROVE  /\ Head(tx[t].plan)[1] \in Row
                 /\ \A h \in tx[t].held : Before(sugg, h[1], Head(tx[t].plan)[1])
      <4>1. t \in Tx /\ tx[t].plan # <<>>  BY <3>1
      <4>2. PICK k : k = Head(tx[t].plan)  OBVIOUS
      <4>3. /\ k \in Lockable
            /\ \/ \A h \in tx[t].held : Before(sugg, h[1], k[1])
               \/ NamesSound(t)
        BY <4>1, <4>2, WaitsInOrder
      <4>4. ~NamesSound(t)  BY <2>2, <4>1, <4>2, RenameWaits
      <4> QED  BY <4>2, <4>3, <4>4 DEF Lockable
    <3>3. K \in SUBSET Row /\ K # {}  BY <3>2 DEF Ring
    <3>4. \A k \in K : \E t \in S : k = Head(tx[t].plan)[1]  OBVIOUS
    <3>5. \A t \in S : Head(tx[t].plan)[1] \in K  OBVIOUS
    <3> HIDE DEF K
    <3>6. PICK k \in K : \A j \in K : ~Before(sugg, k, j)  BY <3>3, NoEndlessOrder
    <3>7. PICK t \in S : k = Head(tx[t].plan)[1]  BY <3>4
    <3>8. PICK w \in S : WaitsFor(t, w)  BY DEF Ring
    <3>9. PICK h \in tx[w].held : h[1] = k  BY <3>7, <3>8 DEF WaitsFor, HeldAgainst
    <3> QED  BY <3>2, <3>5, <3>6, <3>9
  <2> QED  BY <2>1, <2>2
<1> QED  BY <1>1, AlwaysSound, PTL

=============================================================================
