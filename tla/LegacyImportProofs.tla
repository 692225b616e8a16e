------------------------- MODULE LegacyImportProofs -------------------------
(***************************************************************************)
(* Proofs about LegacyImport for any dumps, any number of commands and any *)
(* writes of the application: the threads of the source arrive as they     *)
(* were, and nothing the application wrote is overwritten or blocked       *)
(* unless it writes while a command runs, but for a cuisine an             *)
(* administrator created under a historical name and identity.             *)
(***************************************************************************)
EXTENDS LegacyImport, FiniteSetTheorems, WellFoundedInduction, TLAPS

Fields == Tables \cup {"histories", "others", "counts"}

(* The target is in a transaction once the command is past its checks.       *)
Past == {"begin", "lock", "written", "advanced"}
Checking == {"check", "compare", "verify"}

Numbered(table) == DOMAIN table \subseteq Nat /\ IsFiniteSet(DOMAIN table)

Stored(t) == DOMAIN t = Fields /\ \A f \in Identity : Numbered(t[f])

(* Rows of users as the import writes them.                                  *)
HasUsers(d) == \A u \in DOMAIN d.users : DOMAIN d.users[u] = {"by", "banned", "avatar"}

(* The rows of plan that are in the table have the same names there.         *)
Agree(rows, table) == \A k \in DOMAIN rows \cap DOMAIN table : rows[k].name = table[k].name

Typed ==
    /\ source \in Source
    /\ seq \in [Identity -> Nat]
    /\ DOMAIN proc = Proc
    /\ \A p \in Proc : LET q == proc[p] IN
          \/ q.pc \in Ended /\ q = [pc |-> q.pc]
          \/ q.pc \in Checking \cup {"begin"} /\ q = [pc |-> q.pc, plan |-> q.plan]
          \/ /\ q.pc \in {"lock", "written", "advanced"}
             /\ q = [pc |-> q.pc, plan |-> q.plan, snap |-> q.snap]
    /\ app \in {None} \cup [table : {"users", "cuisines"}, id : Nat]
    /\ lock \in Proc \cup {None}
    /\ runs \in 0..MaxRuns /\ imports \in Nat /\ apps \in 0..MaxApp
    /\ overlap \in BOOLEAN

(* Every running command may still commit.                                   *)
Counted == imports + Cardinality(Running) <= runs

LockSound == Writing = {lock} \ {None}

(* The target has all comments of the source or none, and its counters and   *)
(* foreign keys hold.                                                        *)
TargetSound ==
    /\ Stored(target)
    /\ target.counts = deriveCounters(target)
    /\ DOMAIN target.comments # {} =>
          /\ transformCommentsOK(source)
          /\ target.comments = transformComments(source)
          /\ CommentKeysHold(target)

(* The plan of a running command is what its source says, however long ago   *)
(* it read the dictionaries of the target.                                   *)
PlanSound(p) == LET plan == proc[p].plan IN
    /\ DOMAIN plan = Tables
    /\ \A f \in Identity : Numbered(plan[f])
    /\ transformCommentsOK(source) /\ plan.comments = transformComments(source)
    /\ HasUsers(plan) /\ \A u \in DOMAIN plan.users : plan.users[u].by = "legacy"
    /\ ~overlap => /\ plan.cuisines = HistoricalRows(Cuisines(source), OldCuisines, target.cuisines)
                   /\ Agree(plan.cuisines, target.cuisines)
                   /\ proc[p].pc \in Past => \A u \in DOMAIN target.users : target.users[u].by # "app"

(* Nobody else commits between the snapshot of a command that writes and its *)
(* commit.                                                                   *)
SnapSound(p) == LET snap == proc[p].snap IN
    /\ Stored(snap.target) /\ snap.imports \in 0..imports
    /\ ~overlap /\ snap.imports = imports => snap.target = target

WriteSound(p) ==
    /\ proc[p].snap.imports = imports
    /\ CommentKeysHold(writeDataset(target, proc[p].plan))
    /\ ~overlap /\ proc[p].pc = "advanced" =>
          \A t \in {"users", "cuisines"} : \A k \in DOMAIN proc[p].plan[t] : k <= seq[t]

(* The sequences of the tables the application inserts into are past every   *)
(* row, and past the row it is about to insert.                              *)
SequenceSound == ~overlap =>
    /\ \A t \in {"users", "cuisines"} : \A k \in DOMAIN target[t] : k <= seq[t]
    /\ app # None => /\ Running = {}
                     /\ app.id \notin DOMAIN target[app.table] /\ app.id <= seq[app.table]

Sound ==
    /\ Typed /\ Counted /\ LockSound /\ TargetSound /\ SequenceSound
    /\ \A p \in Running : PlanSound(p)
    /\ \A p \in Proc : proc[p].pc \in {"lock", "written", "advanced"} => SnapSound(p)
    /\ \A p \in Writing : WriteSound(p)
    /\ ApplicationIntact

-----------------------------------------------------------------------------
(* Numbers, tables and the order of rows.                                     *)

(* A set with 0 that every number in it is followed by its successor has all. *)
LEMMA Naturally ==
  ASSUME NEW T, 0 \in T, \A n \in Nat : n \in T => n + 1 \in T
  PROVE  Nat \subseteq T
<1> SUFFICES ASSUME Nat \ T # {} PROVE FALSE  OBVIOUS
<1> DEFINE R == {m \in Nat \X Nat : m[1] < m[2]}
           U == Nat \ T
<1>1. IsWellFoundedOn(R, Nat)  BY NatLessThanWellFounded DEF OpToRel
<1>0. U \subseteq Nat /\ U # {}  OBVIOUS
<1> HIDE DEF R, U
<1>2. PICK n \in U : \A m \in U : <<m, n>> \notin R  BY <1>0, <1>1, WFMin
<1> USE DEF U
<1>3. n # 0 /\ n - 1 \in Nat /\ (n - 1) + 1 = n  BY <1>2
<1>4. <<n - 1, n>> \in R  BY <1>2, <1>3 DEF R
<1>5. n - 1 \in T  BY <1>2, <1>3, <1>4
<1> QED  BY <1>2, <1>3, <1>5

(* Max of a finite set of numbers is one of them.                             *)
LEMMA GreatestExists ==
  ASSUME NEW S, S \subseteq Nat, IsFiniteSet(S), S # {}
  PROVE  /\ Max(S) \in S
         /\ \A n \in S : n <= Max(S)
<1> DEFINE Higher(n) == {m \in S : m > n}
           T == {Higher(n) : n \in S}
           R == StrictSubsetOrdering(S)
<1>1. IsWellFoundedOn(R, SUBSET S)
  BY FS_FiniteSubsetsOfFinite, FS_StrictSubsetOrderingWellFounded
<1>2. T \subseteq SUBSET S /\ T # {}  OBVIOUS
<1> HIDE DEF T, R
<1>3. PICK B \in T : \A b \in T : <<b, B>> \notin R  BY <1>1, <1>2, WFMin
<1>4. PICK n \in S : B = Higher(n)  BY <1>3 DEF T
<1>5. \A m \in S : m <= n
  <2> SUFFICES ASSUME NEW m \in S, m > n PROVE FALSE  OBVIOUS
  <2> DEFINE X == Higher(m)
  <2>1. X \in T  BY DEF T
  <2>2. X \subseteq B /\ m \in B /\ m \notin X /\ B \subseteq S
    <3>0. n \in Nat /\ m \in Nat /\ ~(m > m)  OBVIOUS
    <3>1. B = {k \in S : k > n}  BY <1>4
    <3>2. ASSUME NEW k \in S, k > m PROVE k > n  BY <3>0, <3>2
    <3> QED  BY <3>0, <3>1, <3>2
  <2> HIDE DEF X
  <2>3. X \in SUBSET S /\ B \in SUBSET S /\ X # B  BY <2>2
  <2>4. <<X, B>> \in R  BY <2>2, <2>3 DEF R, StrictSubsetOrdering
  <2> QED  BY <1>3, <2>1, <2>4
<1>6. Max(S) = CHOOSE x \in S : \A y \in S : x >= y  BY DEF Max
<1>7. n \in S /\ \A y \in S : n >= y  BY <1>5
<1>8. Max(S) \in S /\ \A y \in S : Max(S) >= y
  <2> HIDE DEF Higher
  <2> QED  BY <1>6, <1>7
<1> QED  BY <1>8

(* The greatest key of a numbered table is above all its keys.                *)
LEMMA GreatestBounds ==
  ASSUME NEW table, Numbered(table)
  PROVE  /\ Greatest(table) \in Nat
         /\ \A k \in DOMAIN table : k <= Greatest(table)
<1> DEFINE S == {0} \cup DOMAIN table
<1>1. S \subseteq Nat /\ S # {}  BY DEF Numbered
<1>2. IsFiniteSet(S)
  <2>1. IsFiniteSet({0})  BY FS_Singleton
  <2> QED  BY <2>1, FS_Union DEF Numbered
<1>3. Greatest(table) = Max(S)  BY DEF Greatest
<1> HIDE DEF S
<1>4. Max(S) \in S /\ \A n \in S : n <= Max(S)  BY <1>1, <1>2, GreatestExists
<1>5. DOMAIN table \subseteq S  BY DEF S
<1> QED  BY <1>1, <1>3, <1>4, <1>5

(* Over keeps the rows of the one table and adds those of the other.           *)
LEMMA Joined ==
  ASSUME NEW f, NEW g
  PROVE  /\ DOMAIN Over(f, g) = DOMAIN f \cup DOMAIN g
         /\ \A k \in DOMAIN f : Over(f, g)[k] = f[k]
         /\ \A k \in DOMAIN g \ DOMAIN f : Over(f, g)[k] = g[k]
  BY DEF Over

(* Tables are numbered whichever way their keys come about: by joining two,   *)
LEMMA NumberedUnion ==
  ASSUME NEW f, NEW g, NEW h, Numbered(f), Numbered(g), DOMAIN h = DOMAIN f \cup DOMAIN g
  PROVE  Numbered(h)
  BY FS_Union DEF Numbered

(* by keeping a part,                                                         *)
LEMMA NumberedPart ==
  ASSUME NEW f, NEW h, Numbered(f), DOMAIN h \subseteq DOMAIN f
  PROVE  Numbered(h)
  BY FS_Subset DEF Numbered

(* by counting to n,                                                          *)
LEMMA NumberedTo ==
  ASSUME NEW n \in Nat, NEW h, DOMAIN h = 1..n
  PROVE  Numbered(h)
<1>1. IsFiniteSet(1..n)  BY FS_Interval
<1> QED  BY <1>1 DEF Numbered

(* as a table of a dump.                                                      *)
LEMMA TableNumbered ==
  ASSUME NEW t, IsTable(t)
  PROVE  Numbered(t) /\ IsFiniteSet(DOMAIN t)
<1>1. Len(t) \in Nat /\ DOMAIN t = 1..Len(t)  BY DEF IsTable
<1>2. Numbered(t)  BY <1>1, NumberedTo
<1> QED  BY <1>2 DEF Numbered

(* A finite function has finitely many values.                                *)
LEMMA ImageFinite ==
  ASSUME NEW f, IsFiniteSet(DOMAIN f)
  PROVE  IsFiniteSet({f[x] : x \in DOMAIN f})
<1> DEFINE S == DOMAIN f
           T == {f[x] : x \in S}
           g == [x \in S |-> f[x]]
<1>1. g \in Surjection(S, T)  BY DEF Surjection
<1> HIDE DEF g, T, S
<1>2. IsFiniteSet(T)  BY <1>1, FS_Surjection DEF S
<1> QED  BY <1>2 DEF T, S

-----------------------------------------------------------------------------
(* What writeDataset leaves in the target.                                    *)

(* writeUsers writes the users of the dataset and leaves the others.          *)
LEMMA UsersWritten ==
  ASSUME NEW t, NEW d, DOMAIN t = Fields, HasUsers(d)
  PROVE  LET w == writeUsers(t, d) IN
         /\ DOMAIN w = Fields /\ \A f \in Fields \ {"users"} : w[f] = t[f]
         /\ DOMAIN w.users = DOMAIN d.users \cup DOMAIN t.users
         /\ \A u \in DOMAIN d.users : /\ DOMAIN w.users[u] = {"by", "banned", "avatar"}
                                      /\ w.users[u].by = d.users[u].by
         /\ \A u \in DOMAIN t.users \ DOMAIN d.users : w.users[u] = t.users[u]
<1> DEFINE w == writeUsers(t, d)
           a(u) == IF Has(t.users, u) THEN t.users[u].avatar ELSE 0
           rows == [u \in DOMAIN d.users |-> [d.users[u] EXCEPT !.avatar = a(u)]]
<1>1. w = [t EXCEPT !.users = Over(rows, t.users)]  BY DEF writeUsers
<1>2. "users" \in Fields  BY DEF Fields, Tables
<1> HIDE DEF w, rows
<1>3. DOMAIN w = Fields /\ w.users = Over(rows, t.users) /\ \A f \in Fields \ {"users"} : w[f] = t[f]
  BY <1>1, <1>2
<1>4. DOMAIN rows = DOMAIN d.users  BY DEF rows
<1>5. ASSUME NEW u \in DOMAIN d.users
      PROVE  DOMAIN rows[u] = {"by", "banned", "avatar"} /\ rows[u].by = d.users[u].by
  <2> DEFINE r == d.users[u]
  <2>1. DOMAIN r = {"by", "banned", "avatar"}  BY DEF HasUsers
  <2>2. rows[u] = [r EXCEPT !.avatar = a(u)]  BY DEF rows
  <2> HIDE DEF r, a
  <2>3. DOMAIN rows[u] = {"by", "banned", "avatar"} /\ rows[u].by = r.by  BY <2>1, <2>2
  <2> QED  BY <2>3 DEF r
<1>6. /\ DOMAIN Over(rows, t.users) = DOMAIN rows \cup DOMAIN t.users
      /\ \A u \in DOMAIN rows : Over(rows, t.users)[u] = rows[u]
      /\ \A u \in DOMAIN t.users \ DOMAIN rows : Over(rows, t.users)[u] = t.users[u]
  BY Joined
<1> QED  BY <1>3, <1>4, <1>5, <1>6 DEF w

(* writeUserAvatars changes an avatar and nothing else.                       *)
LEMMA AvatarsWritten ==
  ASSUME NEW t, NEW d, DOMAIN t = Fields, DOMAIN d.users \subseteq DOMAIN t.users,
         \A u \in DOMAIN d.users : DOMAIN t.users[u] = {"by", "banned", "avatar"}
  PROVE  LET w == writeUserAvatars(t, d) IN
         /\ DOMAIN w = Fields /\ \A f \in Fields \ {"users"} : w[f] = t[f]
         /\ DOMAIN w.users = DOMAIN t.users
         /\ \A u \in DOMAIN d.users : w.users[u].by = t.users[u].by
         /\ \A u \in DOMAIN t.users \ DOMAIN d.users : w.users[u] = t.users[u]
<1> DEFINE w == writeUserAvatars(t, d)
           rows == [u \in DOMAIN d.users |-> [t.users[u] EXCEPT !.avatar = d.users[u].avatar]]
<1>1. w = [t EXCEPT !.users = Over(rows, t.users)]  BY DEF writeUserAvatars
<1>2. "users" \in Fields  BY DEF Fields, Tables
<1> HIDE DEF w, rows
<1>3. DOMAIN w = Fields /\ w.users = Over(rows, t.users) /\ \A f \in Fields \ {"users"} : w[f] = t[f]
  BY <1>1, <1>2
<1>4. DOMAIN rows = DOMAIN d.users  BY DEF rows
<1>5. ASSUME NEW u \in DOMAIN d.users PROVE rows[u].by = t.users[u].by
  <2> DEFINE r == t.users[u]
             a == d.users[u].avatar
  <2>1. DOMAIN r = {"by", "banned", "avatar"}  OBVIOUS
  <2>2. rows[u] = [r EXCEPT !.avatar = a]  BY DEF rows
  <2> HIDE DEF r, a
  <2>3. rows[u].by = r.by  BY <2>1, <2>2
  <2> QED  BY <2>3 DEF r
<1>6. /\ DOMAIN Over(rows, t.users) = DOMAIN rows \cup DOMAIN t.users
      /\ \A u \in DOMAIN rows : Over(rows, t.users)[u] = rows[u]
      /\ \A u \in DOMAIN t.users \ DOMAIN rows : Over(rows, t.users)[u] = t.users[u]
  BY Joined
<1> QED  BY <1>3, <1>4, <1>5, <1>6 DEF w

(* Every table but users: the rows of the plan over those of the target, and  *)
(* the other way round for audit records.                                     *)
Taken == {"images", "cuisines", "flavors", "posts", "tags", "comments", "notifications"}
Audit == {"roleRecords", "banRecords"}

(* What writeDataset leaves in each table, and the counters it derives.       *)
LEMMA DatasetWritten ==
  ASSUME NEW t, NEW d, DOMAIN t = Fields, HasUsers(d)
  PROVE  LET w == writeDataset(t, d) IN
         /\ DOMAIN w = Fields
         /\ DOMAIN w.users = DOMAIN d.users \cup DOMAIN t.users
         /\ \A u \in DOMAIN d.users : w.users[u].by = d.users[u].by
         /\ \A u \in DOMAIN t.users \ DOMAIN d.users : w.users[u] = t.users[u]
         /\ \A f \in Taken : w[f] = Over(d[f], t[f])
         /\ \A f \in Audit : w[f] = Over(t[f], d[f])
         /\ w.counts = deriveCounters(w)
<1> DEFINE t1 == writeUsers(t, d)
           t2 == writeRolesAndAudit(t1, d)
           t3 == writeImages(t2, d)
           t4 == writeUserAvatars(t3, d)
           t5 == writeHistoricalDictionaries(t4, d)
           t6 == writePosts(t5, d)
           t7 == writeTags(t6, d)
           t8 == writePostRelations(t7, d)
           t9 == writeComments(t8, d)
           t10 == writeInitialContentVersions(t9)
           t11 == writeActions(t10, d)
           t12 == writeNotifications(t11, d)
           w == recountAll(t12)
<1>0. Taken \cup Audit \cup {"users", "counts"} \subseteq Fields
  BY DEF Taken, Audit, Fields, Tables
<1> HIDE DEF t1, t2, t3, t4, t5, t6, t7, t8, t9, t10, t11, t12, w
<1>a. w = writeDataset(t, d)
  BY DEF writeDataset, t1, t2, t3, t4, t5, t6, t7, t8, t9, t10, t11, t12, w
<1>1. /\ DOMAIN t1 = Fields /\ \A f \in Fields \ {"users"} : t1[f] = t[f]
      /\ DOMAIN t1.users = DOMAIN d.users \cup DOMAIN t.users
      /\ \A u \in DOMAIN d.users : /\ DOMAIN t1.users[u] = {"by", "banned", "avatar"}
                                   /\ t1.users[u].by = d.users[u].by
      /\ \A u \in DOMAIN t.users \ DOMAIN d.users : t1.users[u] = t.users[u]
  BY UsersWritten DEF t1
<1>2. /\ DOMAIN t2 = Fields /\ \A f \in Fields \ {"roles", "roleRecords", "banRecords"} : t2[f] = t1[f]
      /\ \A f \in Audit : t2[f] = Over(t1[f], d[f])
  BY <1>0, <1>1 DEF t2, writeRolesAndAudit, Audit
<1>3. /\ DOMAIN t3 = Fields /\ \A f \in Fields \ {"images"} : t3[f] = t2[f]
      /\ t3.images = Over(d.images, t2.images)
  BY <1>0, <1>2 DEF t3, writeImages, Taken
<1>4. /\ DOMAIN t4 = Fields /\ \A f \in Fields \ {"users"} : t4[f] = t3[f]
      /\ DOMAIN t4.users = DOMAIN t3.users
      /\ \A u \in DOMAIN d.users : t4.users[u].by = t3.users[u].by
      /\ \A u \in DOMAIN t3.users \ DOMAIN d.users : t4.users[u] = t3.users[u]
  <2>1. t3.users = t1.users  BY <1>0, <1>2, <1>3
  <2> QED  BY <1>1, <1>3, <2>1, AvatarsWritten DEF t4
<1>5. /\ DOMAIN t5 = Fields /\ \A f \in Fields \ {"cuisines", "flavors"} : t5[f] = t4[f]
      /\ t5.cuisines = Over(d.cuisines, t4.cuisines) /\ t5.flavors = Over(d.flavors, t4.flavors)
  BY <1>0, <1>4 DEF t5, writeHistoricalDictionaries, Taken
<1>6. /\ DOMAIN t6 = Fields /\ \A f \in Fields \ {"posts"} : t6[f] = t5[f]
      /\ t6.posts = Over(d.posts, t5.posts)
  BY <1>0, <1>5 DEF t6, writePosts, Taken
<1>7. /\ DOMAIN t7 = Fields /\ \A f \in Fields \ {"tags"} : t7[f] = t6[f]
      /\ t7.tags = Over(d.tags, t6.tags)
  BY <1>0, <1>6 DEF t7, writeTags, Taken
<1>8. DOMAIN t8 = Fields /\ \A f \in Fields \ {"postTags", "postFlavors", "postImages"} : t8[f] = t7[f]
  BY <1>7 DEF t8, writePostRelations
<1>9. /\ DOMAIN t9 = Fields /\ \A f \in Fields \ {"comments"} : t9[f] = t8[f]
      /\ t9.comments = Over(d.comments, t8.comments)
  BY <1>0, <1>8 DEF t9, writeComments, Taken
<1>10. DOMAIN t10 = Fields /\ \A f \in Fields \ {"histories"} : t10[f] = t9[f]
  BY <1>9 DEF t10, writeInitialContentVersions
<1>11. /\ DOMAIN t11 = Fields
       /\ \A f \in Fields \ {"follows", "favorites", "postLikes", "commentLikes"} : t11[f] = t10[f]
  BY <1>10 DEF t11, writeActions
<1>12. /\ DOMAIN t12 = Fields /\ \A f \in Fields \ {"notifications"} : t12[f] = t11[f]
       /\ t12.notifications = Over(d.notifications, t11.notifications)
  BY <1>0, <1>11 DEF t12, writeNotifications, Taken
<1>13. /\ DOMAIN w = Fields /\ \A f \in Fields \ {"counts"} : w[f] = t12[f]
       /\ w.counts = deriveCounters(t12)
  BY <1>0, <1>12 DEF w, recountAll
<1>14. \A f \in Fields \ {"users", "counts"} : w[f] = t12[f] /\ t1[f] = t[f]  BY <1>1, <1>13
<1>15. \A f \in Taken : w[f] = Over(d[f], t[f])
  BY <1>0, <1>1, <1>2, <1>3, <1>4, <1>5, <1>6, <1>7, <1>8, <1>9, <1>10, <1>11, <1>12, <1>13 DEF Taken
<1>16. \A f \in Audit : w[f] = Over(t[f], d[f])
  BY <1>0, <1>1, <1>2, <1>3, <1>4, <1>5, <1>6, <1>7, <1>8, <1>9, <1>10, <1>11, <1>12, <1>13 DEF Audit
<1>17. w.users = t4.users /\ t3.users = t1.users
  BY <1>0, <1>2, <1>3, <1>5, <1>6, <1>7, <1>8, <1>9, <1>10, <1>11, <1>12, <1>13
<1>18. w.counts = deriveCounters(w)
  <2>1. {"posts", "postLikes", "favorites", "comments", "commentLikes"} \subseteq Fields \ {"counts"}
    BY DEF Fields, Tables
  <2>2. /\ w.posts = t12.posts /\ w.postLikes = t12.postLikes /\ w.favorites = t12.favorites
        /\ w.comments = t12.comments /\ w.commentLikes = t12.commentLikes
    BY <1>13, <2>1
  <2>3. deriveCounters(w) = deriveCounters(t12)  BY <2>2 DEF deriveCounters
  <2> QED  BY <1>13, <2>3
<1>19. /\ DOMAIN w.users = DOMAIN d.users \cup DOMAIN t.users
       /\ \A u \in DOMAIN d.users : w.users[u].by = d.users[u].by
       /\ \A u \in DOMAIN t.users \ DOMAIN d.users : w.users[u] = t.users[u]
  BY <1>1, <1>4, <1>17
<1> QED  BY <1>a, <1>13, <1>15, <1>16, <1>18, <1>19

(* A target stays numbered when a dataset is written.                         *)
LEMMA WrittenStored ==
  ASSUME NEW t, NEW d, Stored(t), HasUsers(d), \A f \in Identity : Numbered(d[f])
  PROVE  Stored(writeDataset(t, d))
<1> DEFINE w == writeDataset(t, d)
<1>1. DOMAIN t = Fields /\ \A f \in Identity : Numbered(t[f])  BY DEF Stored
<1>2. /\ DOMAIN w = Fields /\ DOMAIN w.users = DOMAIN d.users \cup DOMAIN t.users
      /\ \A f \in Taken : w[f] = Over(d[f], t[f])
      /\ \A f \in Audit : w[f] = Over(t[f], d[f])
  BY <1>1, DatasetWritten
<1>3. Identity = {"users"} \cup Taken \cup Audit  BY DEF Identity, Taken, Audit
<1> HIDE DEF w
<1>4. ASSUME NEW f \in Identity PROVE DOMAIN w[f] = DOMAIN d[f] \cup DOMAIN t[f]
  <2>1. CASE f = "users"  BY <1>2, <2>1
  <2>2. CASE f \in Taken
    <3>1. w[f] = Over(d[f], t[f])  BY <1>2, <2>2
    <3>2. DOMAIN Over(d[f], t[f]) = DOMAIN d[f] \cup DOMAIN t[f]  BY DEF Over
    <3> QED  BY <3>1, <3>2
  <2>3. CASE f \in Audit
    <3>1. w[f] = Over(t[f], d[f])  BY <1>2, <2>3
    <3>2. DOMAIN Over(t[f], d[f]) = DOMAIN d[f] \cup DOMAIN t[f]  BY DEF Over
    <3> QED  BY <3>1, <3>2
  <2> QED  BY <1>3, <2>1, <2>2, <2>3
<1>5. ASSUME NEW f \in Identity PROVE Numbered(w[f])
  <2>1. Numbered(t[f]) /\ Numbered(d[f])  BY <1>1
  <2> QED  BY <1>4, <2>1, NumberedUnion
<1>6. Stored(w)  BY <1>2, <1>5 DEF Stored
<1> QED  BY <1>6 DEF w

-----------------------------------------------------------------------------
(* The threads of the source.  findOriginalRoot climbs at most as many steps  *)
(* as there are comments.                                                     *)

Climb(s, f, n) == [c \in DOMAIN s.comments |->
    IF s.comments[c].parent = 0 THEN c
    ELSE IF n = 0 \/ ~Has(s.comments, s.comments[c].parent) THEN 0
    ELSE f[n - 1][s.comments[c].parent]]

(* Only the step below matters.                                               *)
LEMMA ClimbLocal ==
  ASSUME NEW s, NEW f, NEW g, NEW n \in Nat, n # 0 => f[n - 1] = g[n - 1]
  PROVE  Climb(s, f, n) = Climb(s, g, n)
<1>1. CASE n = 0  BY <1>1 DEF Climb
<1>2. CASE n # 0  BY <1>2 DEF Climb
<1> QED  BY <1>1, <1>2

(* The recursive function of findOriginalRoot is defined.                     *)
LEMMA ClimbExists ==
  ASSUME NEW s, NEW N \in Nat
  PROVE  \E f : f = [n \in 0..N |-> Climb(s, f, n)]
<1> DEFINE T == {n \in Nat : \E f : \A m \in 0..n : f[m] = Climb(s, f, m)}
<1>1. 0 \in T
  <2> DEFINE f == [m \in {0} |-> Climb(s, <<>>, 0)]
  <2>1. f[0] = Climb(s, <<>>, 0)  OBVIOUS
  <2> HIDE DEF f
  <2>2. Climb(s, f, 0) = Climb(s, <<>>, 0)  BY ClimbLocal
  <2>3. \A m \in 0..0 : f[m] = Climb(s, f, m)  BY <2>1, <2>2
  <2> QED  BY <2>3
<1>2. ASSUME NEW n \in Nat, n \in T PROVE n + 1 \in T
  <2>1. PICK f : \A m \in 0..n : f[m] = Climb(s, f, m)  BY <1>2
  <2> DEFINE g == [m \in 0..(n + 1) |-> IF m = n + 1 THEN Climb(s, f, n + 1) ELSE f[m]]
  <2>2. g[n + 1] = Climb(s, f, n + 1) /\ \A m \in 0..n : g[m] = f[m]  OBVIOUS
  <2> HIDE DEF g
  <2>3. ASSUME NEW m \in 0..(n + 1) PROVE Climb(s, g, m) = Climb(s, f, m)
    <3>1. m \in Nat /\ (m # 0 => m - 1 \in 0..n)  OBVIOUS
    <3>2. m # 0 => g[m - 1] = f[m - 1]  BY <2>2, <3>1
    <3> QED  BY <3>1, <3>2, ClimbLocal
  <2>4. ASSUME NEW m \in 0..(n + 1) PROVE g[m] = Climb(s, g, m)
    <3>1. CASE m = n + 1  BY <2>2, <2>3, <3>1
    <3>2. CASE m # n + 1
      <4>1. m \in 0..n  BY <3>2
      <4> QED  BY <2>1, <2>2, <2>3, <4>1
    <3> QED  BY <3>1, <3>2
  <2>5. n + 1 \in Nat /\ \E h : \A m \in 0..(n + 1) : h[m] = Climb(s, h, m)  BY <2>4
  <2> QED  BY <2>5
<1>3. N \in T
  <2> HIDE DEF T
  <2> QED  BY <1>1, <1>2, Naturally
<1>4. PICK f : \A m \in 0..N : f[m] = Climb(s, f, m)  BY <1>3
<1> DEFINE g == [m \in 0..N |-> f[m]]
<1>5. \A m \in 0..N : g[m] = f[m]  OBVIOUS
<1>6. DOMAIN g = 0..N /\ g = [m \in 0..N |-> g[m]]  OBVIOUS
<1> HIDE DEF g
<1>7. ASSUME NEW m \in 0..N PROVE g[m] = Climb(s, g, m)
  <2>1. m \in Nat /\ (m # 0 => m - 1 \in 0..N)  OBVIOUS
  <2>2. m # 0 => g[m - 1] = f[m - 1]  BY <1>5, <2>1
  <2>3. Climb(s, g, m) = Climb(s, f, m)  BY <2>1, <2>2, ClimbLocal
  <2> QED  BY <1>4, <1>5, <2>3
<1>8. g = [m \in 0..N |-> Climb(s, g, m)]  BY <1>6, <1>7
<1> QED  BY <1>8

(* findOriginalRoot is the last of Len(comments) climbs.                      *)
LEMMA RootsByClimbing ==
  ASSUME NEW s, Len(s.comments) \in Nat
  PROVE  \E up : /\ \A n \in 0..Len(s.comments) : up[n] = Climb(s, up, n)
                 /\ findOriginalRoot(s) = up[Len(s.comments)]
<1> DEFINE N == Len(s.comments)
           up == CHOOSE f : f = [n \in 0..N |-> Climb(s, f, n)]
<1>1. \E f : f = [n \in 0..N |-> Climb(s, f, n)]  BY ClimbExists
<1>2. up = [n \in 0..N |-> Climb(s, up, n)]
  <2> HIDE DEF N
  <2> QED  BY <1>1
<1>3. findOriginalRoot(s) = up[N]  BY DEF findOriginalRoot, Climb
<1> HIDE DEF up
<1>4. \A n \in 0..N : up[n] = Climb(s, up, n)  BY <1>2
<1> QED  BY <1>3, <1>4

Forest == IsTable(source.comments) /\ \A c \in DOMAIN source.comments : findOriginalRoot(source)[c] # 0

(* What is found at some height is a root above, and is found from then on.   *)
LEMMA Climbed ==
  ASSUME IsTable(source.comments), NEW up,
         \A n \in 0..Len(source.comments) : up[n] = Climb(source, up, n)
  PROVE  \A n \in 0..Len(source.comments) : \A c \in DOMAIN source.comments :
            up[n][c] # 0 => /\ up[n][c] \in DOMAIN source.comments
                            /\ source.comments[up[n][c]].parent = 0
                            /\ Above(c, up[n][c])
                            /\ \A m \in n..Len(source.comments) : up[m][c] = up[n][c]
<1> DEFINE D == DOMAIN source.comments
           N == Len(source.comments)
           parent(c) == source.comments[c].parent
           Found(n, c) == /\ up[n][c] \in D /\ parent(up[n][c]) = 0
                          /\ Above(c, up[n][c])
                          /\ \A m \in n..N : up[m][c] = up[n][c]
           T == {n \in Nat : n <= N => \A c \in D : up[n][c] # 0 => Found(n, c)}
<1>1. N \in Nat /\ D = 1..N  BY DEF IsTable
<1>2. ASSUME NEW n \in 0..N, NEW c \in D
      PROVE  up[n][c] = IF parent(c) = 0 THEN c
                        ELSE IF n = 0 \/ parent(c) \notin D THEN 0 ELSE up[n - 1][parent(c)]
  <2>1. up[n] = Climb(source, up, n)  OBVIOUS
  <2>2. Climb(source, up, n)[c] = IF parent(c) = 0 THEN c
             ELSE IF n = 0 \/ parent(c) \notin D THEN 0 ELSE up[n - 1][parent(c)]
    BY DEF Climb, Has
  <2> QED  BY <2>1, <2>2
<1> HIDE DEF parent, D, N
<1>3. ASSUME NEW n \in 0..N, NEW c \in D, parent(c) = 0 PROVE Found(n, c)
  <2>1. \A m \in n..N : m \in 0..N  BY <1>1
  <2>2. \A m \in 0..N : up[m][c] = c  BY <1>2, <1>3
  <2>3. Above(c, c)  BY DEF Above
  <2> QED  BY <1>1, <1>3, <2>1, <2>2, <2>3
<1>4. 0 \in T
  <2>1. 0 \in 0..N  BY <1>1
  <2>2. \A c \in D : up[0][c] # 0 => parent(c) = 0  BY <1>2, <2>1
  <2>3. \A c \in D : up[0][c] # 0 => Found(0, c)  BY <1>3, <2>1, <2>2
  <2> QED  BY <2>3
<1>5. ASSUME NEW n \in Nat, n \in T PROVE n + 1 \in T
  <2> SUFFICES ASSUME n + 1 <= N, NEW c \in D, up[n + 1][c] # 0 PROVE Found(n + 1, c)  BY <1>5
  <2>1. n \in 0..N /\ n + 1 \in 0..N /\ (n + 1) - 1 = n /\ n + 1 # 0  BY <1>1
  <2>2. \A d \in D : up[n][d] # 0 => Found(n, d)  BY <1>5, <2>1
  <2>3. CASE parent(c) = 0  BY <1>3, <2>1, <2>3
  <2>4. CASE parent(c) # 0
    <3> DEFINE d == parent(c)
    <3>1. d \in D /\ up[n + 1][c] = up[n][d]  BY <1>2, <2>1, <2>4
    <3> HIDE DEF d
    <3>2. Found(n, d)  BY <2>2, <3>1
    <3>3. Above(c, up[n][d])
      <4> SUFFICES ASSUME NEW S \in SUBSET DOMAIN source.comments, c \in S,
                          \A e \in S : source.comments[e].parent \in S \cup {0}
                   PROVE  up[n][d] \in S
        BY DEF Above
      <4>1. d \in S  BY <2>4 DEF parent, d
      <4>2. Above(d, up[n][d])  BY <3>2
      <4> QED  BY <4>1, <4>2 DEF Above
    <3>4. ASSUME NEW m \in (n + 1)..N PROVE up[m][c] = up[n + 1][c]
      <4>1. m \in 0..N /\ m # 0 /\ m - 1 \in n..N  BY <1>1, <2>1
      <4>2. up[m][c] = up[m - 1][d]  BY <1>2, <2>4, <3>1, <4>1 DEF d
      <4> QED  BY <3>1, <3>2, <4>1, <4>2
    <3> QED  BY <3>1, <3>2, <3>3, <3>4
  <2> QED  BY <2>3, <2>4
<1>6. Nat \subseteq T
  <2> HIDE DEF T
  <2> QED  BY <1>4, <1>5, Naturally
<1>7. \A n \in 0..N : n \in T /\ n <= N  BY <1>1, <1>6
<1>8. \A n \in 0..N : \A c \in D : up[n][c] # 0 => Found(n, c)  BY <1>7
<1> QED  BY <1>8 DEF D, N, parent

(* A comment has the root of its parent.                                      *)
LEMMA RootSound ==
  ASSUME Forest, NEW c \in DOMAIN source.comments
  PROVE  LET root == findOriginalRoot(source) IN
         /\ root[c] \in DOMAIN source.comments /\ source.comments[root[c]].parent = 0
         /\ Above(c, root[c])
         /\ source.comments[c].parent = 0 => root[c] = c
         /\ source.comments[c].parent # 0 => /\ source.comments[c].parent \in DOMAIN source.comments
                                             /\ root[c] = root[source.comments[c].parent]
<1> DEFINE D == DOMAIN source.comments
           N == Len(source.comments)
           root == findOriginalRoot(source)
           d == source.comments[c].parent
<1>1. N \in Nat /\ D = 1..N /\ N \in 0..N /\ IsTable(source.comments) /\ \A e \in D : root[e] # 0
  BY DEF Forest, IsTable
<1>2. PICK up : (\A n \in 0..N : up[n] = Climb(source, up, n)) /\ root = up[N]  BY <1>1, RootsByClimbing
<1>3. \A n \in 0..N : \A e \in D : up[n][e] # 0 =>
         /\ up[n][e] \in D /\ source.comments[up[n][e]].parent = 0 /\ Above(e, up[n][e])
         /\ \A m \in n..N : up[m][e] = up[n][e]
  BY <1>1, <1>2, Climbed
<1>4. root[c] \in D /\ source.comments[root[c]].parent = 0 /\ Above(c, root[c])  BY <1>1, <1>2, <1>3
<1>5. up[N] = Climb(source, up, N)  BY <1>1, <1>2
<1>6. up[N][c] = IF d = 0 THEN c ELSE IF N = 0 \/ d \notin D THEN 0 ELSE up[N - 1][d]
  <2>1. Climb(source, up, N)[c] = IF d = 0 THEN c ELSE IF N = 0 \/ d \notin D THEN 0 ELSE up[N - 1][d]
    BY DEF Climb, Has
  <2> QED  BY <1>5, <2>1
<1>7. ASSUME d # 0 PROVE d \in D /\ root[c] = root[d]
  <2>1. d \in D /\ N # 0 /\ up[N][c] = up[N - 1][d] /\ up[N - 1][d] # 0  BY <1>1, <1>2, <1>6, <1>7
  <2>2. N - 1 \in 0..N /\ N \in (N - 1)..N  BY <1>1, <2>1
  <2>3. up[N][d] = up[N - 1][d]  BY <1>3, <2>1, <2>2
  <2> QED  BY <1>2, <2>1, <2>3
<1> QED  BY <1>1, <1>2, <1>4, <1>6, <1>7

(* It has only this one.                                                      *)
LEMMA RootUnique ==
  ASSUME Forest, NEW c \in DOMAIN source.comments, NEW r, Above(c, r), source.comments[r].parent = 0
  PROVE  r = findOriginalRoot(source)[c]
<1> DEFINE D == DOMAIN source.comments
           root == findOriginalRoot(source)
           S == {e \in D : root[e] = root[c]}
<1>1. ASSUME NEW e \in S PROVE source.comments[e].parent \in S \cup {0}
  <2>1. source.comments[e].parent # 0 => /\ source.comments[e].parent \in D
                                         /\ root[e] = root[source.comments[e].parent]
    BY RootSound
  <2> QED  BY <2>1
<1>2. S \in SUBSET D /\ c \in S  OBVIOUS
<1>3. r \in S  BY <1>1, <1>2 DEF Above
<1>4. root[r] = r  BY <1>3, RootSound
<1> QED  BY <1>3, <1>4

-----------------------------------------------------------------------------
(* The rows of transformComments, each made from earlier ones.                *)

Chosen(s, c) == CHOOSE e \in chooseReplyParent(s, c) : TRUE

CommentOf(s, f, c) == LET r == s.comments[c] IN
    IF r.parent = 0
    THEN [post |-> r.post, author |-> r.author, parent |-> 0, root |-> 0,
          to |-> s.posts[r.post].author]
    ELSE LET d == Chosen(s, c)
         IN  [post |-> r.post, author |-> r.author, parent |-> d,
              root |-> IF f[d].root = 0 THEN d ELSE f[d].root, to |-> f[d].author]

(* The parent of an accepted reply is the one candidate, an earlier comment.  *)
LEMMA ChosenEarlier ==
  ASSUME NEW s, transformCommentsOK(s), NEW c \in DOMAIN s.comments, s.comments[c].parent # 0
  PROVE  /\ Chosen(s, c) \in 1..(c - 1) /\ chooseReplyParent(s, c) = {Chosen(s, c)}
         /\ s.comments[c].to # 0
<1>1. transformCommentOK(s, c)  BY DEF transformCommentsOK
<1>2. s.comments[c].to # 0 /\ \E d \in 1..(c - 1) : chooseReplyParent(s, c) = {d}
  BY <1>1 DEF transformCommentOK
<1>3. PICK d \in 1..(c - 1) : chooseReplyParent(s, c) = {d}  BY <1>2
<1>4. Chosen(s, c) = d
  <2>1. Chosen(s, c) = CHOOSE e \in {d} : TRUE  BY <1>3 DEF Chosen
  <2> QED  BY <2>1
<1> QED  BY <1>2, <1>3, <1>4

(* The row of a comment hangs on the rows of earlier comments only.           *)
LEMMA CommentOfLocal ==
  ASSUME NEW s, transformCommentsOK(s), NEW c \in DOMAIN s.comments, NEW f, NEW g,
         \A d \in 1..(c - 1) : f[d] = g[d]
  PROVE  CommentOf(s, f, c) = CommentOf(s, g, c)
<1>1. CASE s.comments[c].parent = 0  BY <1>1 DEF CommentOf
<1>2. CASE s.comments[c].parent # 0
  <2>1. f[Chosen(s, c)] = g[Chosen(s, c)]  BY <1>2, ChosenEarlier
  <2> QED  BY <1>2, <2>1 DEF CommentOf
<1> QED  BY <1>1, <1>2

(* So there are rows that satisfy the recursive definition.                   *)
LEMMA CommentsExist ==
  ASSUME NEW s, IsTable(s.comments), transformCommentsOK(s)
  PROVE  \E f : f = [c \in DOMAIN s.comments |-> CommentOf(s, f, c)]
<1> DEFINE D == DOMAIN s.comments
           N == Len(s.comments)
           T == {n \in Nat : n <= N => \E f : \A c \in 1..n : f[c] = CommentOf(s, f, c)}
<1>1. N \in Nat /\ D = 1..N  BY DEF IsTable
<1> HIDE DEF D, N
<1>2. 0 \in T
  <2>1. \A c \in 1..0 : <<>>[c] = CommentOf(s, <<>>, c)  OBVIOUS
  <2> QED  BY <2>1
<1>3. ASSUME NEW n \in Nat, n \in T PROVE n + 1 \in T
  <2> SUFFICES ASSUME n + 1 <= N PROVE \E f : \A c \in 1..(n + 1) : f[c] = CommentOf(s, f, c)
    OBVIOUS
  <2>1. n <= N /\ \A c \in 1..(n + 1) : c \in D  BY <1>1
  <2>2. PICK f : \A c \in 1..n : f[c] = CommentOf(s, f, c)  BY <1>3, <2>1
  <2> DEFINE g == [c \in 1..(n + 1) |-> IF c = n + 1 THEN CommentOf(s, f, n + 1) ELSE f[c]]
  <2>3. g[n + 1] = CommentOf(s, f, n + 1) /\ \A c \in 1..n : g[c] = f[c]  OBVIOUS
  <2> HIDE DEF g
  <2>4. ASSUME NEW c \in 1..(n + 1) PROVE CommentOf(s, g, c) = CommentOf(s, f, c)
    <3>1. c \in D /\ \A d \in 1..(c - 1) : g[d] = f[d]
      <4>1. \A d \in 1..(c - 1) : d \in 1..n  OBVIOUS
      <4> QED  BY <2>1, <2>3, <4>1
    <3> QED  BY <3>1, CommentOfLocal DEF D
  <2>5. ASSUME NEW c \in 1..(n + 1) PROVE g[c] = CommentOf(s, g, c)
    <3>1. CASE c = n + 1  BY <2>3, <2>4, <3>1
    <3>2. CASE c # n + 1
      <4>1. c \in 1..n  BY <3>2
      <4> QED  BY <2>2, <2>3, <2>4, <4>1
    <3> QED  BY <3>1, <3>2
  <2> QED  BY <2>5
<1>4. N \in T /\ N <= N
  <2> HIDE DEF T
  <2> QED  BY <1>1, <1>2, <1>3, Naturally
<1>5. PICK f : \A c \in 1..N : f[c] = CommentOf(s, f, c)  BY <1>4
<1> DEFINE g == [c \in D |-> f[c]]
<1>6. (\A c \in D : g[c] = f[c]) /\ g = [c \in D |-> g[c]]  OBVIOUS
<1> HIDE DEF g
<1>7. ASSUME NEW c \in D PROVE g[c] = CommentOf(s, g, c)
  <2>1. \A d \in 1..(c - 1) : g[d] = f[d]
    <3>1. \A d \in 1..(c - 1) : d \in D  BY <1>1
    <3> QED  BY <1>6, <3>1
  <2>2. CommentOf(s, g, c) = CommentOf(s, f, c)  BY <2>1, CommentOfLocal DEF D
  <2> QED  BY <1>1, <1>5, <1>6, <2>2
<1>8. g = [c \in D |-> CommentOf(s, g, c)]  BY <1>6, <1>7
<1> QED  BY <1>8 DEF D

(* transformComments makes a row of every comment, by its definition.         *)
LEMMA CommentRows ==
  ASSUME NEW s, IsTable(s.comments), transformCommentsOK(s)
  PROVE  LET rows == transformComments(s) IN
         /\ DOMAIN rows = DOMAIN s.comments
         /\ \A c \in DOMAIN rows : rows[c] = CommentOf(s, rows, c)
<1> DEFINE D == DOMAIN s.comments
           row == CHOOSE f : f = [c \in D |-> CommentOf(s, f, c)]
           rows == transformComments(s)
<1>1. \E f : f = [c \in D |-> CommentOf(s, f, c)]  BY CommentsExist
<1>2. row = [c \in D |-> CommentOf(s, row, c)]
  <2> HIDE DEF D
  <2> QED  BY <1>1
<1>3. rows = [c \in D |-> row[c]]  BY DEF transformComments, CommentOf, Chosen
<1> HIDE DEF row
<1>4. rows = row  BY <1>2, <1>3
<1> HIDE DEF rows, D
<1>5. DOMAIN rows = D /\ \A c \in D : rows[c] = CommentOf(s, rows, c)  BY <1>2, <1>4
<1> QED  BY <1>5 DEF D, rows

(* Without a comment there is nothing to write.                               *)
LEMMA ForestFound ==
  ASSUME IsTable(source.comments), transformCommentsOK(source)
  PROVE  Forest
  BY DEF transformCommentsOK, Forest

(* The parent of a reply is earlier, in its thread, and by the user it names.  *)
LEMMA ChosenSound ==
  ASSUME IsTable(source.comments), transformCommentsOK(source),
         NEW c \in DOMAIN source.comments, source.comments[c].parent # 0
  PROVE  LET d == Chosen(source, c) IN
         /\ d \in DOMAIN source.comments /\ d < c
         /\ findOriginalRoot(source)[d] = findOriginalRoot(source)[c]
         /\ c # Fallback => source.comments[d].author = source.comments[c].to
<1> DEFINE r == source.comments[c]
           d == Chosen(source, c)
           root == findOriginalRoot(source)
<1>1. d \in 1..(c - 1) /\ chooseReplyParent(source, c) = {d} /\ r.to # 0  BY ChosenEarlier
<1>2. Forest  BY ForestFound
<1>3. CASE ParentStands(source, c)
  <2>1. d = r.parent  BY <1>1, <1>3 DEF chooseReplyParent
  <2>2. r.parent \in DOMAIN source.comments /\ root[c] = root[r.parent]  BY <1>2, RootSound
  <2>3. c # Fallback => source.comments[r.parent].author = r.to  BY <1>1, <1>3 DEF ParentStands
  <2>4. d < c  BY <1>1 DEF IsTable
  <2> QED  BY <2>1, <2>2, <2>3, <2>4
<1>4. CASE ~ParentStands(source, c)
  <2>1. d \in inferReplyParent(source, c)  BY <1>1, <1>4 DEF chooseReplyParent
  <2>2. d \in DOMAIN source.comments /\ root[d] = root[c] /\ source.comments[d].author = r.to
    BY <2>1 DEF inferReplyParent
  <2>3. d < c  BY <1>1 DEF IsTable
  <2> QED  BY <2>2, <2>3
<1> QED  BY <1>3, <1>4

(* The fields of an imported comment.                                         *)
LEMMA RowFields ==
  ASSUME IsTable(source.comments), transformCommentsOK(source), NEW c \in DOMAIN source.comments
  PROVE  LET rows == transformComments(source)
             d == Chosen(source, c)
         IN  /\ rows[c].post = source.comments[c].post /\ rows[c].author = source.comments[c].author
             /\ source.comments[c].parent = 0 => rows[c].root = 0 /\ rows[c].parent = 0
             /\ source.comments[c].parent # 0 => /\ rows[c].parent = d
                                                 /\ rows[c].root = (IF rows[d].root = 0 THEN d ELSE rows[d].root)
                                                 /\ rows[c].to = rows[d].author
<1> DEFINE rows == transformComments(source)
           d == Chosen(source, c)
<1>1. rows[c] = CommentOf(source, rows, c)  BY CommentRows
<1> HIDE DEF rows
<1>2. ASSUME source.comments[c].parent = 0
      PROVE  /\ rows[c].post = source.comments[c].post /\ rows[c].author = source.comments[c].author
             /\ rows[c].root = 0 /\ rows[c].parent = 0
  BY <1>1, <1>2 DEF CommentOf
<1>3. ASSUME source.comments[c].parent # 0
      PROVE  /\ rows[c].post = source.comments[c].post /\ rows[c].author = source.comments[c].author
             /\ rows[c].parent = d /\ rows[c].to = rows[d].author
             /\ rows[c].root = (IF rows[d].root = 0 THEN d ELSE rows[d].root)
  <2>1. rows[c] = [post |-> source.comments[c].post, author |-> source.comments[c].author, parent |-> d,
                   root |-> IF rows[d].root = 0 THEN d ELSE rows[d].root, to |-> rows[d].author]
    BY <1>1, <1>3 DEF CommentOf
  <2> HIDE DEF d
  <2> QED  BY <2>1
<1> HIDE DEF d
<1>4. /\ rows[c].post = source.comments[c].post /\ rows[c].author = source.comments[c].author
      /\ source.comments[c].parent = 0 => rows[c].root = 0 /\ rows[c].parent = 0
      /\ source.comments[c].parent # 0 => /\ rows[c].parent = d
                                          /\ rows[c].root = (IF rows[d].root = 0 THEN d ELSE rows[d].root)
                                          /\ rows[c].to = rows[d].author
  BY <1>2, <1>3
<1> QED  BY <1>4 DEF rows, d

(* A reply is filed under the root it has in the source.                      *)
LEMMA RowRoots ==
  ASSUME IsTable(source.comments), transformCommentsOK(source),
         NEW c \in DOMAIN source.comments, source.comments[c].parent # 0
  PROVE  transformComments(source)[c].root = findOriginalRoot(source)[c]
<1> DEFINE D == DOMAIN source.comments
           N == Len(source.comments)
           rows == transformComments(source)
           root == findOriginalRoot(source)
           parent(e) == source.comments[e].parent
           T == {n \in Nat : \A e \in D : e <= n /\ parent(e) # 0 => rows[e].root = root[e]}
<1>1. N \in Nat /\ D = 1..N  BY DEF IsTable
<1>2. Forest  BY ForestFound
<1>3. 0 \in T  BY <1>1
<1>4. ASSUME NEW n \in Nat, n \in T PROVE n + 1 \in T
  <2> SUFFICES ASSUME NEW e \in D, e <= n + 1, parent(e) # 0 PROVE rows[e].root = root[e]
    OBVIOUS
  <2> DEFINE d == Chosen(source, e)
  <2>1. d \in D /\ d < e /\ root[d] = root[e]  BY ChosenSound
  <2>2. d <= n  BY <1>1, <2>1
  <2>3. rows[e].root = IF rows[d].root = 0 THEN d ELSE rows[d].root  BY RowFields
  <2>4. /\ parent(d) = 0 => rows[d].root = 0 /\ root[d] = d
        /\ root[d] # 0
    BY <1>1, <1>2, <2>1, RootSound, RowFields
  <2>5. parent(d) # 0 => rows[d].root = root[d]  BY <1>4, <2>1, <2>2
  <2> QED  BY <2>1, <2>3, <2>4, <2>5
<1>5. Nat \subseteq T
  <2> HIDE DEF T
  <2> QED  BY <1>3, <1>4, Naturally
<1>6. c \in Nat /\ c <= c  BY <1>1
<1>7. c \in T  BY <1>5, <1>6
<1> QED  BY <1>6, <1>7

(* The replies of a root are the comments below it.                           *)
LEMMA FloorKept ==
  ASSUME IsTable(source.comments), transformCommentsOK(source),
         NEW c \in DOMAIN source.comments, source.comments[c].parent = 0
  PROVE  {d \in DOMAIN source.comments : transformComments(source)[d].root = c}
            = {d \in DOMAIN source.comments \ {c} : Above(d, c)}
<1> DEFINE D == DOMAIN source.comments
           rows == transformComments(source)
           root == findOriginalRoot(source)
           parent(e) == source.comments[e].parent
<1>1. Forest /\ 0 \notin D  BY ForestFound DEF IsTable
<1>2. ASSUME NEW d \in D, rows[d].root = c PROVE d # c /\ Above(d, c)
  <2>1. parent(d) # 0  BY <1>1, <1>2, RowFields
  <2>2. root[d] = c  BY <1>2, <2>1, RowRoots
  <2> QED  BY <1>1, <2>1, <2>2, RootSound
<1>3. ASSUME NEW d \in D, d # c, Above(d, c) PROVE rows[d].root = c
  <2>1. root[d] = c  BY <1>1, <1>3, RootUnique
  <2>2. parent(d) # 0  BY <1>1, <1>3, <2>1, RootSound
  <2> QED  BY <2>1, <2>2, RowRoots
<1> HIDE DEF rows
<1> QED  BY <1>2, <1>3 DEF rows

(* The comments of a sound target are in the threads of the source.           *)
LEMMA ThreadsArrive ==
  ASSUME source \in Source, TargetSound
  PROVE  ThreadsKept
<1> DEFINE rows == transformComments(source)
           D == DOMAIN source.comments
           root == findOriginalRoot(source)
<1>1. IsTable(source.comments)  BY SourceAssumption
<1> SUFFICES ASSUME NEW c \in DOMAIN target.comments
             PROVE  LET r == target.comments[c]  l == source.comments[c] IN
        IF l.parent = 0
        THEN /\ r.root = 0
             /\ target.counts.comments[c].replies = Cardinality({d \in DOMAIN source.comments \ {c} : Above(d, c)})
        ELSE /\ r.root # 0 /\ source.comments[r.root].parent = 0
             /\ Above(c, r.root)
             /\ r.parent < c /\ target.comments[r.parent].post = r.post
             /\ target.comments[r.parent].author = r.to
             /\ c # Fallback => r.to = l.to
  BY DEF ThreadsKept
<1>2. /\ transformCommentsOK(source) /\ target.comments = rows /\ CommentKeysHold(target)
      /\ target.counts = deriveCounters(target)
  BY DEF TargetSound
<1>3. DOMAIN rows = D /\ c \in D  BY <1>1, <1>2, CommentRows
<1>4. Forest /\ 0 \notin D  BY <1>1, <1>2, ForestFound DEF IsTable
<1>5. CASE source.comments[c].parent = 0
  <2>1. rows[c].root = 0  BY <1>1, <1>2, <1>3, <1>5, RowFields
  <2>2. target.counts.comments[c].replies = Cardinality({d \in DOMAIN target.comments : target.comments[d].root = c})
    <3>1. deriveCounters(target).comments
            = [e \in DOMAIN target.comments |->
                [likes |-> Cardinality({l \in target.commentLikes : l[2] = e}),
                 replies |-> Cardinality({d \in DOMAIN target.comments : target.comments[d].root = e})]]
      BY DEF deriveCounters
    <3> QED  BY <1>2, <3>1
  <2>3. {d \in D : rows[d].root = c} = {d \in D \ {c} : Above(d, c)}  BY <1>1, <1>2, <1>3, <1>5, FloorKept
  <2>4. {d \in DOMAIN target.comments : target.comments[d].root = c} = {d \in D : rows[d].root = c}
    <3> HIDE DEF rows
    <3> QED  BY <1>2, <1>3
  <2> HIDE DEF rows
  <2> QED  BY <1>2, <1>5, <2>1, <2>2, <2>3, <2>4
<1>6. CASE source.comments[c].parent # 0
  <2> DEFINE d == Chosen(source, c)
  <2>1. d \in D /\ d < c /\ (c # Fallback => source.comments[d].author = source.comments[c].to)
    BY <1>1, <1>2, <1>3, <1>6, ChosenSound
  <2>2. rows[c].parent = d /\ rows[c].to = rows[d].author /\ rows[d].author = source.comments[d].author
    BY <1>1, <1>2, <1>3, <1>6, <2>1, RowFields
  <2>3. rows[c].root = root[c]  BY <1>1, <1>2, <1>3, <1>6, RowRoots
  <2>4. root[c] \in D /\ source.comments[root[c]].parent = 0 /\ Above(c, root[c])
    BY <1>3, <1>4, RootSound
  <2>5. rows[d].post = rows[c].post
    <3>1. d # 0  BY <1>4, <2>1
    <3>2. target.comments[c].parent = d  BY <1>2, <2>2
    <3>3. target.comments[target.comments[c].parent].post = target.comments[c].post
      BY <1>2, <3>1, <3>2 DEF CommentKeysHold
    <3> QED  BY <1>2, <3>2, <3>3
  <2> HIDE DEF rows, d, root
  <2> QED  BY <1>2, <1>4, <1>6, <2>1, <2>2, <2>3, <2>4, <2>5
<1> QED  BY <1>5, <1>6

-----------------------------------------------------------------------------
(* The dictionaries of the target and what a plan adds to them.               *)

OldNames(used, names) == used \cap ToSet(names)

(* A historical name gets a number.                                           *)
LEMMA HistoricalID ==
  ASSUME NEW names, IsTable(names), NEW table, Numbered(table), NEW n \in ToSet(names)
  PROVE  historicalDictionaryID(n, names, table) \in Nat
<1> DEFINE S == {0} \cup {k \in DOMAIN table : table[k].name \notin ToSet(names)}
           i == CHOOSE i \in DOMAIN names : names[i] = n
<1>1. S \subseteq Nat /\ S # {}  BY DEF Numbered
<1>2. IsFiniteSet(S)
  <2>1. IsFiniteSet({0})  BY FS_Singleton
  <2>2. IsFiniteSet({k \in DOMAIN table : table[k].name \notin ToSet(names)})  BY FS_Subset DEF Numbered
  <2> QED  BY <2>1, <2>2, FS_Union
<1>3. i \in Nat
  <2>1. \E j \in DOMAIN names : names[j] = n  BY DEF ToSet
  <2>2. i \in DOMAIN names  BY <2>1
  <2> QED  BY <2>2 DEF IsTable
<1>4. historicalDictionaryID(n, names, table) = Max(S) + i  BY DEF historicalDictionaryID
<1> HIDE DEF S, i
<1>5. Max(S) \in Nat  BY <1>1, <1>2, GreatestExists
<1> QED  BY <1>3, <1>4, <1>5

(* Every historical name in use has a row, under its number.                  *)
LEMMA HistoricalRow ==
  ASSUME NEW used, NEW names, NEW table
  PROVE  LET rows == HistoricalRows(used, names, table) IN
         /\ \A n \in OldNames(used, names) : historicalDictionaryID(n, names, table) \in DOMAIN rows
         /\ \A k \in DOMAIN rows : /\ rows[k].name \in OldNames(used, names)
                                   /\ historicalDictionaryID(rows[k].name, names, table) = k
<1> DEFINE old == OldNames(used, names)
           id(n) == historicalDictionaryID(n, names, table)
           rows == HistoricalRows(used, names, table)
<1>1. rows = [k \in {id(n) : n \in old} |-> [name |-> CHOOSE n \in old : id(n) = k, by |-> "legacy"]]
  BY DEF HistoricalRows, OldNames
<1> HIDE DEF rows, id, old
<1>2. DOMAIN rows = {id(n) : n \in old}  BY <1>1
<1>4. \A n \in old : id(n) \in DOMAIN rows  BY <1>2
<1>3. ASSUME NEW k \in DOMAIN rows PROVE rows[k].name \in old /\ id(rows[k].name) = k
  <2>1. \E n \in old : id(n) = k  BY <1>2
  <2>2. rows[k].name = CHOOSE n \in old : id(n) = k  BY <1>1, <1>2
  <2> QED  BY <2>1, <2>2
<1> QED  BY <1>3, <1>4 DEF rows, id, old

(* The historical rows of a dictionary are numbered.                          *)
LEMMA HistoricalNumbered ==
  ASSUME NEW used, NEW names, IsTable(names), NEW table, Numbered(table)
  PROVE  Numbered(HistoricalRows(used, names, table))
<1> DEFINE old == OldNames(used, names)
           f == [n \in old |-> historicalDictionaryID(n, names, table)]
           rows == HistoricalRows(used, names, table)
<1>1. IsFiniteSet(old)
  <2>1. IsFiniteSet({names[i] : i \in DOMAIN names})  BY TableNumbered, ImageFinite
  <2> QED  BY <2>1, FS_Subset DEF OldNames, ToSet
<1>2. IsFiniteSet({f[n] : n \in DOMAIN f})
  <2>1. DOMAIN f = old  OBVIOUS
  <2> HIDE DEF f, old
  <2> QED  BY <1>1, <2>1, ImageFinite
<1>0. \A k \in DOMAIN rows : /\ rows[k].name \in old
                             /\ historicalDictionaryID(rows[k].name, names, table) = k
  BY HistoricalRow
<1>3. DOMAIN rows \subseteq {f[n] : n \in DOMAIN f}
  <2>1. ASSUME NEW k \in DOMAIN rows PROVE rows[k].name \in DOMAIN f /\ f[rows[k].name] = k  BY <1>0, <2>1
  <2> HIDE DEF rows, f
  <2> QED  BY <2>1
<1>4. DOMAIN rows \subseteq Nat
  <2>1. \A n \in old : historicalDictionaryID(n, names, table) \in Nat  BY HistoricalID DEF OldNames
  <2> HIDE DEF rows, old
  <2> QED  BY <1>0, <2>1
<1> HIDE DEF rows, f
<1>5. IsFiniteSet(DOMAIN rows)  BY <1>2, <1>3, FS_Subset
<1> QED  BY <1>4, <1>5 DEF Numbered, rows

(* The rows a plan adds have old names, so that the next plan has the same.   *)
LEMMA HistoricalSame ==
  ASSUME NEW used, NEW names, NEW table,
         Agree(HistoricalRows(used, names, table), table)
  PROVE  LET rows == HistoricalRows(used, names, table)
             now == Over(rows, table)
         IN  HistoricalRows(used, names, now) = rows /\ Agree(rows, now)
<1> DEFINE rows == HistoricalRows(used, names, table)
           now == Over(rows, table)
           S(t) == {k \in DOMAIN t : t[k].name \notin ToSet(names)}
<1>1. \A k \in DOMAIN rows : rows[k].name \in ToSet(names)  BY HistoricalRow DEF OldNames
<1>2. /\ DOMAIN now = DOMAIN rows \cup DOMAIN table
      /\ \A k \in DOMAIN rows : now[k] = rows[k]
      /\ \A k \in DOMAIN table \ DOMAIN rows : now[k] = table[k]
  BY Joined
<1>3. \A k \in DOMAIN rows \cap DOMAIN table : table[k].name \in ToSet(names)  BY <1>1 DEF Agree
<1> HIDE DEF now, rows
<1>4. S(now) = S(table)
  <2>1. ASSUME NEW k \in DOMAIN now PROVE now[k].name \notin ToSet(names) <=> k \in S(table)
    <3>1. CASE k \in DOMAIN rows  BY <1>1, <1>2, <1>3, <3>1
    <3>2. CASE k \notin DOMAIN rows  BY <1>2, <2>1, <3>2
    <3> QED  BY <3>1, <3>2
  <2> QED  BY <1>2, <2>1
<1>5. \A n : historicalDictionaryID(n, names, now) = historicalDictionaryID(n, names, table)
  <2>1. \A n : historicalDictionaryID(n, names, now) = Max({0} \cup S(now)) + (CHOOSE i \in DOMAIN names : names[i] = n)
    BY DEF historicalDictionaryID
  <2>2. \A n : historicalDictionaryID(n, names, table) = Max({0} \cup S(table)) + (CHOOSE i \in DOMAIN names : names[i] = n)
    BY DEF historicalDictionaryID
  <2> HIDE DEF S
  <2> QED  BY <1>4, <2>1, <2>2
<1>6. HistoricalRows(used, names, now) = HistoricalRows(used, names, table)
  BY <1>5 DEF HistoricalRows
<1>7. Agree(rows, now)  BY <1>2 DEF Agree
<1> QED  BY <1>6, <1>7 DEF now, rows

(* A dump that passes transformPosts names no dictionary entry another way.   *)
LEMMA PlanAgrees ==
  ASSUME NEW s, NEW t, transformPostsOK(s, t)
  PROVE  Agree(HistoricalRows(Cuisines(s), OldCuisines, t.cuisines), t.cuisines)
<1> DEFINE rows == HistoricalRows(Cuisines(s), OldCuisines, t.cuisines)
           id(n) == historicalDictionaryID(n, OldCuisines, t.cuisines)
<1> SUFFICES ASSUME NEW k \in DOMAIN rows \cap DOMAIN t.cuisines
             PROVE  rows[k].name = t.cuisines[k].name
  BY DEF Agree
<1> DEFINE n == rows[k].name
<1>0. \A j \in DOMAIN rows : rows[j].name \in OldNames(Cuisines(s), OldCuisines) /\ id(rows[j].name) = j
  BY HistoricalRow
<1>1. n \in OldNames(Cuisines(s), OldCuisines) /\ id(n) = k  BY <1>0
<1> HIDE DEF n, rows
<1>2. n \in Cuisines(s) /\ n \in ToSet(OldCuisines)  BY <1>1 DEF OldNames
<1>3. PICK p \in DOMAIN s.posts : n = s.posts[p].cuisine  BY <1>2 DEF Cuisines
<1>4. n # None  BY <1>2, NamesAssumption DEF ToSet
<1>5. Resolved(n, CuisineAlias, OldCuisines, t.cuisines)  BY <1>3, <1>4 DEF transformPostsOK
<1>6. ensureHistoricalDictionary(n, OldCuisines, t.cuisines)  BY <1>2, <1>5 DEF Resolved
<1>7. k \in DOMAIN t.cuisines => t.cuisines[k].name = n
  BY <1>1, <1>6 DEF ensureHistoricalDictionary, Has
<1> QED  BY <1>7 DEF n

(* A part of the rows of a table, in an order.                                *)
LEMMA HeldFinite ==
  ASSUME NEW t, IsTable(t), NEW S \in SUBSET DOMAIN t
  PROVE  Cardinality(S) \in Nat
  BY TableNumbered, FS_Subset, FS_CardinalityType

(* transformSource numbers the rows of every table.                           *)
LEMMA PlanNumbered ==
  ASSUME NEW s \in Source, NEW t, Stored(t), NEW f \in Identity
  PROVE  Numbered(transformSource(s, t)[f])
<1> DEFINE plan == transformSource(s, t)
<1>1. /\ IsTable(s.users) /\ IsTable(s.images) /\ IsTable(s.posts) /\ IsTable(s.comments)
      /\ IsTable(s.notifications) /\ \A p \in DOMAIN s.posts : IsTable(s.posts[p].tags)
  BY SourceAssumption
<1>2. /\ plan.users = transformUsers(s) /\ plan.roleRecords = transformRoles(s)
      /\ plan.banRecords = transformBans(s) /\ plan.images = transformImages(s)
      /\ plan.posts = transformPosts(s, t) /\ plan.tags = transformTags(s)
      /\ plan.comments = transformComments(s) /\ plan.notifications = transformNotifications(s)
      /\ plan.cuisines = HistoricalRows(Cuisines(s), OldCuisines, t.cuisines)
      /\ plan.flavors = HistoricalRows(Flavors(s), OldFlavors, t.flavors)
  BY DEF transformSource
<1> HIDE DEF plan
<1>3. Numbered(plan.users)
  <2>1. DOMAIN transformUsers(s) = DOMAIN s.users  BY DEF transformUsers
  <2> QED  BY <1>1, <1>2, <2>1, TableNumbered, NumberedPart
<1>4. Numbered(plan.roleRecords)
  <2> DEFINE S == {u \in DOMAIN s.users : s.users[u].role # "user"}
  <2>1. DOMAIN transformRoles(s) = 1..Cardinality(S)  BY DEF transformRoles, InOrder
  <2>2. Cardinality(S) \in Nat  BY <1>1, HeldFinite
  <2> HIDE DEF S
  <2> QED  BY <1>2, <2>1, <2>2, NumberedTo
<1>5. Numbered(plan.banRecords)
  <2> DEFINE S == {u \in DOMAIN s.users : ~s.users[u].active}
  <2>1. DOMAIN transformBans(s) = 1..Cardinality(S)  BY DEF transformBans, InOrder
  <2>2. Cardinality(S) \in Nat  BY <1>1, HeldFinite
  <2> HIDE DEF S
  <2> QED  BY <1>2, <2>1, <2>2, NumberedTo
<1>6. Numbered(plan.images)
  <2>1. DOMAIN transformImages(s) \subseteq DOMAIN s.images  BY DEF transformImages
  <2> QED  BY <1>1, <1>2, <2>1, TableNumbered, NumberedPart
<1>7. Numbered(plan.notifications)
  <2>1. DOMAIN transformNotifications(s) \subseteq DOMAIN s.notifications  BY DEF transformNotifications
  <2> QED  BY <1>1, <1>2, <2>1, TableNumbered, NumberedPart
<1>8. Numbered(plan.posts)
  <2>1. DOMAIN transformPosts(s, t) = DOMAIN s.posts  BY DEF transformPosts
  <2> QED  BY <1>1, <1>2, <2>1, TableNumbered, NumberedPart
<1>9. Numbered(plan.comments)
  <2>1. DOMAIN transformComments(s) = DOMAIN s.comments  BY DEF transformComments
  <2> QED  BY <1>1, <1>2, <2>1, TableNumbered, NumberedPart
<1>10. Numbered(plan.cuisines) /\ Numbered(plan.flavors)
  <2>1. Numbered(t.cuisines) /\ Numbered(t.flavors)  BY DEF Stored, Identity
  <2>2. IsTable(OldCuisines) /\ IsTable(OldFlavors)  BY NamesAssumption
  <2>3. Numbered(HistoricalRows(Cuisines(s), OldCuisines, t.cuisines))  BY <2>1, <2>2, HistoricalNumbered
  <2>4. Numbered(HistoricalRows(Flavors(s), OldFlavors, t.flavors))  BY <2>1, <2>2, HistoricalNumbered
  <2> QED  BY <1>2, <2>3, <2>4
<1>11. Numbered(plan.tags)
  <2> DEFINE name(m) == s.posts[m[1]].tags[m[2]]
             g == [p \in DOMAIN s.posts |-> {p} \X DOMAIN s.posts[p].tags]
             named == UNION {{p} \X DOMAIN s.posts[p].tags : p \in DOMAIN s.posts}
             new == {m \in named : \A n \in named : Folded[name(n)] = Folded[name(m)] => ~Earlier(n, m)}
  <2>1. DOMAIN transformTags(s) = 1..Cardinality(new)  BY DEF transformTags, InOrder
  <2>2. IsFiniteSet(named)
    <3>1. \A p \in DOMAIN s.posts : IsFiniteSet({p} \X DOMAIN s.posts[p].tags)
      <4> SUFFICES ASSUME NEW p \in DOMAIN s.posts PROVE IsFiniteSet({p} \X DOMAIN s.posts[p].tags)  OBVIOUS
      <4>1. IsFiniteSet({p}) /\ IsFiniteSet(DOMAIN s.posts[p].tags)  BY <1>1, TableNumbered, FS_Singleton
      <4> QED  BY <4>1, FS_Product
    <3>2. DOMAIN g = DOMAIN s.posts /\ \A p \in DOMAIN g : g[p] = {p} \X DOMAIN s.posts[p].tags  OBVIOUS
    <3>3. {{p} \X DOMAIN s.posts[p].tags : p \in DOMAIN s.posts} = {g[p] : p \in DOMAIN g}  OBVIOUS
    <3> HIDE DEF g
    <3>4. IsFiniteSet({g[p] : p \in DOMAIN g})  BY <1>1, <3>2, TableNumbered, ImageFinite
    <3>5. \A S \in {g[p] : p \in DOMAIN g} : IsFiniteSet(S)  BY <3>1, <3>2
    <3>6. IsFiniteSet(UNION {g[p] : p \in DOMAIN g})  BY <3>4, <3>5, FS_UNION
    <3> QED  BY <3>3, <3>6
  <2>3. Cardinality(new) \in Nat
    <3> HIDE DEF named
    <3> QED  BY <2>2, FS_Subset, FS_CardinalityType
  <2> HIDE DEF new
  <2> QED  BY <1>2, <2>1, <2>3, NumberedTo
<1>12. f \in {"users", "roleRecords", "banRecords", "images", "cuisines",
              "flavors", "posts", "tags", "comments", "notifications"}
  BY DEF Identity
<1>13. Numbered(plan[f])
  BY <1>3, <1>4, <1>5, <1>6, <1>7, <1>8, <1>9, <1>10, <1>11, <1>12
<1> QED  BY <1>13 DEF plan

(* What a command takes along from prepareTarget and transformSource.         *)
LEMMA PlanMade ==
  ASSUME source \in Source, Stored(target), transformSourceOK(source, target)
  PROVE  LET plan == transformSource(source, target) IN
         /\ DOMAIN plan = Tables /\ \A f \in Identity : Numbered(plan[f])
         /\ transformCommentsOK(source) /\ plan.comments = transformComments(source)
         /\ HasUsers(plan) /\ \A u \in DOMAIN plan.users : plan.users[u].by = "legacy"
         /\ plan.cuisines = HistoricalRows(Cuisines(source), OldCuisines, target.cuisines)
         /\ Agree(plan.cuisines, target.cuisines)
<1> DEFINE plan == transformSource(source, target)
<1>1. \A f \in Identity : Numbered(plan[f])  BY PlanNumbered
<1>2. DOMAIN plan = Tables  BY DEF transformSource, Tables
<1>3. /\ plan.users = transformUsers(source) /\ plan.comments = transformComments(source)
      /\ plan.cuisines = HistoricalRows(Cuisines(source), OldCuisines, target.cuisines)
  BY DEF transformSource
<1>4. transformCommentsOK(source) /\ transformPostsOK(source, target)  BY DEF transformSourceOK
<1>5. HasUsers(plan) /\ \A u \in DOMAIN plan.users : plan.users[u].by = "legacy"
  <2> HIDE DEF plan
  <2>1. ASSUME NEW u \in DOMAIN plan.users
        PROVE  DOMAIN plan.users[u] = {"by", "banned", "avatar"} /\ plan.users[u].by = "legacy"
    <3> DEFINE b == ~source.users[u].active
               a == resolveAvatar(source, u)
    <3>1. plan.users[u] = [by |-> "legacy", banned |-> b, avatar |-> a]  BY <1>3 DEF transformUsers
    <3> HIDE DEF a, b
    <3> QED  BY <3>1
  <2> QED  BY <2>1 DEF HasUsers
<1>6. Agree(plan.cuisines, target.cuisines)
  <2> HIDE DEF plan
  <2> QED  BY <1>3, <1>4, PlanAgrees
<1> QED  BY <1>1, <1>2, <1>3, <1>4, <1>5, <1>6

-----------------------------------------------------------------------------
(* Sets of processes and their records.                                       *)

InTx == {"lock", "written", "advanced"}

(* The steps of a command before, in and after its transaction.               *)
LEMMA Places ==
  /\ Ended \cap (Checking \cup Past) = {} /\ InTx \subseteq Past
  /\ "begin" \in Past /\ "begin" \notin InTx /\ "check" \in Checking /\ "verify" \in Checking
  /\ Checking \cap Past = {} /\ {"written", "advanced"} \subseteq InTx
  BY DEF Ended, Checking, Past, InTx

IsProc(q) ==
    \/ q.pc \in Ended /\ q = [pc |-> q.pc]
    \/ q.pc \in Checking \cup {"begin"} /\ q = [pc |-> q.pc, plan |-> q.plan]
    \/ q.pc \in InTx /\ q = [pc |-> q.pc, plan |-> q.plan, snap |-> q.snap]

(* Each process has what its step needs.                                      *)
LEMMA ProcTyped ==
  ASSUME Typed
  PROVE  DOMAIN proc = Proc /\ \A p \in Proc : IsProc(proc[p])
  BY DEF Typed, IsProc, InTx

(* There are finitely many running commands.                                  *)
LEMMA RunningFinite ==
  ASSUME DOMAIN proc = Proc
  PROVE  /\ IsFiniteSet(Running) /\ Cardinality(Running) \in Nat
         /\ Running \subseteq Proc /\ Writing \subseteq Running
<1>1. Running \subseteq Proc  BY DEF Running
<1>2. Writing \subseteq Running  BY DEF Writing, Running, Ended
<1> QED  BY <1>1, <1>2, ProcAssumption, FS_Subset, FS_CardinalityType

(* proc[p] becomes row, the other processes stay.                             *)
LEMMA ProcChanged ==
  ASSUME DOMAIN proc = Proc, NEW p \in Proc, NEW row, proc' = [proc EXCEPT ![p] = row]
  PROVE  /\ DOMAIN proc' = Proc /\ proc'[p] = row
         /\ \A q \in Proc \ {p} : proc'[q] = proc[q]
         /\ Running' = (IF row.pc \in Ended THEN Running \ {p} ELSE Running \cup {p})
         /\ Writing' = (IF row.pc \in {"written", "advanced"} THEN Writing \cup {p} ELSE Writing \ {p})
<1>1. /\ DOMAIN proc' = Proc /\ proc'[p] = row
      /\ \A q \in Proc \ {p} : proc'[q] = proc[q]
  OBVIOUS
<1>2. Running' = (IF row.pc \in Ended THEN Running \ {p} ELSE Running \cup {p})
  <2>1. Running' = {q \in Proc : proc'[q].pc \notin Ended}  BY DEF Running
  <2> QED  BY <1>1, <2>1 DEF Running
<1>3. Writing' = (IF row.pc \in {"written", "advanced"} THEN Writing \cup {p} ELSE Writing \ {p})
  <2>1. Writing' = {q \in Proc : proc'[q].pc \in {"written", "advanced"}}  BY DEF Writing
  <2> QED  BY <1>1, <2>1 DEF Writing
<1> QED  BY <1>1, <1>2, <1>3

(* A step of a command to a row of the right shape keeps the types.           *)
LEMMA TypedStep ==
  ASSUME Typed, NEW p \in Proc, NEW row, IsProc(row), proc' = [proc EXCEPT ![p] = row],
         source' = source, seq' \in [Identity -> Nat], app' = app, lock' \in Proc \cup {None},
         runs' \in 0..MaxRuns, imports' \in Nat, apps' = apps,
         overlap' \in BOOLEAN
  PROVE  Typed'
<1>1. DOMAIN proc = Proc /\ \A q \in Proc : IsProc(proc[q])  BY ProcTyped
<1>2. DOMAIN proc' = Proc /\ proc'[p] = row /\ \A q \in Proc \ {p} : proc'[q] = proc[q]
  BY <1>1, ProcChanged
<1>3. \A q \in Proc : IsProc(proc'[q])
  <2>1. ASSUME NEW q \in Proc PROVE IsProc(proc'[q])
    <3>1. CASE q = p  BY <1>2, <3>1
    <3>2. CASE q # p  BY <1>1, <1>2, <3>2
    <3> QED  BY <3>1, <3>2
  <2> QED  BY <2>1
<1>4. \A q \in Proc :
         \/ proc'[q].pc \in Ended /\ proc'[q] = [pc |-> proc'[q].pc]
         \/ /\ proc'[q].pc \in Checking \cup {"begin"}
            /\ proc'[q] = [pc |-> proc'[q].pc, plan |-> proc'[q].plan]
         \/ /\ proc'[q].pc \in {"lock", "written", "advanced"}
            /\ proc'[q] = [pc |-> proc'[q].pc, plan |-> proc'[q].plan, snap |-> proc'[q].snap]
  BY <1>3 DEF IsProc, InTx
<1>5. /\ source \in Source /\ apps \in 0..MaxApp
      /\ app \in {None} \cup [table : {"users", "cuisines"}, id : Nat]
  BY DEF Typed
<1> QED  BY <1>2, <1>4, <1>5 DEF Typed

(* Every import and every running command is a run.                           *)
LEMMA CountedStep ==
  ASSUME Sound, NEW p \in Proc, NEW row, proc' = [proc EXCEPT ![p] = row],
         runs' \in Nat,
         \/ p \in Running /\ row.pc \notin Ended /\ imports' = imports /\ runs' = runs
         \/ p \in Running /\ row.pc \in Ended /\ imports' \in {imports, imports + 1} /\ runs' = runs
         \/ p \notin Running /\ imports' = imports /\ runs' = runs + 1
  PROVE  Counted'
<1>1. DOMAIN proc = Proc /\ imports \in Nat /\ runs \in Nat /\ imports + Cardinality(Running) <= runs
  BY BoundsAssumption DEF Sound, Typed, Counted
<1>2. Running' = (IF row.pc \in Ended THEN Running \ {p} ELSE Running \cup {p})  BY <1>1, ProcChanged
<1>3. IsFiniteSet(Running) /\ Cardinality(Running) \in Nat  BY <1>1, RunningFinite
<1>4. CASE p \in Running /\ row.pc \notin Ended /\ imports' = imports /\ runs' = runs
  <2>1. Running' = Running  BY <1>2, <1>4
  <2> QED  BY <1>1, <1>4, <2>1 DEF Counted
<1>5. CASE p \in Running /\ row.pc \in Ended /\ imports' \in {imports, imports + 1} /\ runs' = runs
  <2>1. Running' = Running \ {p}  BY <1>2, <1>5
  <2>2. Cardinality(Running \ {p}) = Cardinality(Running) - 1  BY <1>3, <1>5, FS_RemoveElement
  <2> QED  BY <1>1, <1>3, <1>5, <2>1, <2>2 DEF Counted
<1>6. CASE p \notin Running /\ imports' = imports /\ runs' = runs + 1
  <2>1. Running' \in {Running, Running \cup {p}}
    <3>1. Running \ {p} = Running  BY <1>6
    <3> QED  BY <1>2, <3>1
  <2>2. Cardinality(Running \cup {p}) = Cardinality(Running) + 1  BY <1>3, <1>6, FS_AddElement
  <2> QED  BY <1>1, <1>3, <1>6, <2>1, <2>2 DEF Counted
<1> QED  BY <1>4, <1>5, <1>6

-----------------------------------------------------------------------------
(* Steps of one command that leave the target alone.                          *)

(* What was done to the rows of the application stays as it was judged.       *)
LEMMA IntactStands ==
  ASSUME ApplicationIntact, harmed' = harmed, overlap => overlap'
  PROVE  ApplicationIntact'
  BY DEF ApplicationIntact, Adopted

(* The target is sound as long as it stays what it is.                        *)
LEMMA TargetStands ==
  ASSUME TargetSound, source' = source, target' = target
  PROVE  TargetSound'
  BY DEF TargetSound, CommentKeysHold

(* A step of one command without a commit leaves the others all they rest on. *)
LEMMA OthersStand ==
  ASSUME Sound, NEW p \in Proc, NEW row, proc' = [proc EXCEPT ![p] = row],
         source' = source, target' = target, imports' = imports,
         overlap \in BOOLEAN, overlap' \in BOOLEAN, overlap => overlap',
         seq' = seq \/ Writing' \subseteq {p}
  PROVE  /\ \A q \in Running' \ {p} : PlanSound(q)'
         /\ \A q \in Proc \ {p} : proc'[q].pc \in InTx => SnapSound(q)'
         /\ \A q \in Writing' \ {p} : WriteSound(q)'
<1>1. DOMAIN proc = Proc  BY DEF Sound, Typed
<1>2. /\ \A q \in Proc \ {p} : proc'[q] = proc[q]
      /\ Running' \ {p} \subseteq Running /\ Writing' \ {p} \subseteq Writing
      /\ Running \subseteq Proc /\ Writing \subseteq Proc
  BY <1>1, ProcChanged DEF Running, Writing
<1>3. ASSUME NEW q \in Running' \ {p} PROVE PlanSound(q)'
  <2>1. q \in Running /\ proc'[q] = proc[q]  BY <1>2
  <2>2. PlanSound(q)  BY <2>1 DEF Sound
  <2> QED  BY <2>1, <2>2 DEF PlanSound
<1>4. ASSUME NEW q \in Proc \ {p}, proc'[q].pc \in InTx PROVE SnapSound(q)'
  <2>1. proc'[q] = proc[q]  BY <1>2
  <2>2. SnapSound(q)  BY <1>4, <2>1 DEF Sound, InTx
  <2> QED  BY <2>1, <2>2 DEF SnapSound
<1>5. ASSUME NEW q \in Writing' \ {p} PROVE WriteSound(q)'
  <2>1. q \in Writing /\ proc'[q] = proc[q] /\ seq' = seq  BY <1>2
  <2>2. WriteSound(q)  BY <2>1 DEF Sound
  <2>3. CommentKeysHold(writeDataset(target, proc[q].plan))'  BY <2>1, <2>2 DEF WriteSound
  <2> QED  BY <2>1, <2>2, <2>3 DEF WriteSound
<1> QED  BY <1>3, <1>4, <1>5

(* A running command goes on.                                                 *)
LEMMA GoOn ==
  ASSUME Sound, NEW p \in Running, NEW row, IsProc(row), row.pc \notin Ended, row.plan = proc[p].plan,
         proc' = [proc EXCEPT ![p] = row],
         UNCHANGED <<source, target, app, imports, runs, apps, overlap, harmed>>,
         seq' \in [Identity -> Nat], lock' \in Proc \cup {None}, LockSound', SequenceSound',
         seq' = seq \/ Writing' \subseteq {p},
         row.pc \in Past /\ ~overlap => \A u \in DOMAIN target.users : target.users[u].by # "app",
         row.pc \in InTx => SnapSound(p)', row.pc \in {"written", "advanced"} => WriteSound(p)'
  PROVE  Sound'
<1>1. /\ Typed /\ PlanSound(p) /\ TargetSound /\ p \in Proc /\ DOMAIN proc = Proc
      /\ runs \in Nat /\ runs \in 0..MaxRuns /\ imports \in Nat
      /\ overlap \in BOOLEAN /\ ApplicationIntact
  BY BoundsAssumption DEF Sound, Typed, Running
<1>2. /\ proc'[p] = row /\ DOMAIN proc' = Proc
      /\ Writing' = (IF row.pc \in {"written", "advanced"} THEN Writing \cup {p} ELSE Writing \ {p})
  BY <1>1, ProcChanged
<1>3. Typed'  BY <1>1, TypedStep
<1>4. Counted'  BY <1>1, CountedStep
<1>5. TargetSound'  BY <1>1, TargetStands
<1>6. /\ \A q \in Running' \ {p} : PlanSound(q)'
      /\ \A q \in Proc \ {p} : proc'[q].pc \in InTx => SnapSound(q)'
      /\ \A q \in Writing' \ {p} : WriteSound(q)'
  BY <1>1, OthersStand
<1>7. PlanSound(p)'  BY <1>1, <1>2 DEF PlanSound
<1>8. \A q \in Running' : PlanSound(q)'
  <2>1. \A q \in Running' : q = p \/ q \in Running' \ {p}  OBVIOUS
  <2> QED  BY <1>6, <1>7, <2>1
<1>9. \A q \in Proc : proc'[q].pc \in {"lock", "written", "advanced"} => SnapSound(q)'
  <2>1. ASSUME NEW q \in Proc, proc'[q].pc \in InTx PROVE SnapSound(q)'
    <3>1. CASE q = p  BY <1>2, <2>1, <3>1
    <3>2. CASE q # p  BY <1>6, <2>1, <3>2
    <3> QED  BY <3>1, <3>2
  <2> QED  BY <2>1 DEF InTx
<1>10. \A q \in Writing' : WriteSound(q)'
  <2>1. ASSUME NEW q \in Writing' PROVE WriteSound(q)'
    <3>1. CASE q = p
      <4>1. row.pc \in {"written", "advanced"}  BY <1>2, <2>1, <3>1
      <4> QED  BY <3>1, <4>1
    <3>2. CASE q # p  BY <1>6, <2>1, <3>2
    <3> QED  BY <3>1, <3>2
  <2> QED  BY <2>1
<1>11. ApplicationIntact'  BY <1>1, IntactStands
<1> QED  BY <1>1, <1>3, <1>4, <1>5, <1>8, <1>9, <1>10, <1>11 DEF Sound

(* A command ends without a commit; its lock is free.                         *)
LEMMA EndStep ==
  ASSUME Sound, NEW p \in Proc, NEW pc \in Ended, End(p, pc),
         UNCHANGED <<source, target, seq, app, imports, apps, harmed>>,
         overlap' \in BOOLEAN, overlap => overlap', runs' \in 0..MaxRuns,
         \/ p \in Running /\ runs' = runs
         \/ p \notin Running /\ runs' = runs + 1,
         lock' = IF lock = p THEN None ELSE lock
  PROVE  Sound'
<1> DEFINE row == [pc |-> pc]
<1>1. /\ Typed /\ TargetSound /\ DOMAIN proc = Proc /\ imports \in Nat /\ runs' \in Nat
      /\ lock \in Proc \cup {None} /\ overlap \in BOOLEAN /\ ApplicationIntact
      /\ seq \in [Identity -> Nat] /\ LockSound /\ SequenceSound
  BY BoundsAssumption DEF Sound, Typed
<1>2. proc' = [proc EXCEPT ![p] = row] /\ row.pc = pc /\ row.pc \in Ended /\ IsProc(row)  BY DEF End, IsProc
<1> HIDE DEF row
<1>3. row.pc \notin {"written", "advanced"} /\ row.pc \notin InTx
  BY <1>2, Places
<1>4. /\ proc'[p] = row /\ DOMAIN proc' = Proc /\ Writing' = Writing \ {p}
      /\ Running' = Running \ {p}
  BY <1>1, <1>2, <1>3, ProcChanged
<1>5. lock' \in Proc \cup {None}  BY <1>1
<1>6. Typed'  BY <1>1, <1>2, <1>5, TypedStep
<1>7. Counted'  BY <1>1, <1>2, CountedStep
<1>8. LockSound'
  <2>1. Writing = {lock} \ {None}  BY <1>1 DEF LockSound
  <2>2. p # None  BY NoneAssumption
  <2>3. Writing \ {p} = {lock'} \ {None}  BY <1>1, <2>1, <2>2
  <2> QED  BY <1>4, <2>3 DEF LockSound
<1>9. TargetSound'  BY <1>1, TargetStands
<1>10. SequenceSound'
  <2> SUFFICES ASSUME ~overlap' PROVE SequenceSound'  BY DEF SequenceSound
  <2>1. ~overlap  OBVIOUS
  <2> QED  BY <1>1, <1>4, <2>1 DEF SequenceSound
<1>11. /\ \A q \in Running' \ {p} : PlanSound(q)'
       /\ \A q \in Proc \ {p} : proc'[q].pc \in InTx => SnapSound(q)'
       /\ \A q \in Writing' \ {p} : WriteSound(q)'
  BY <1>1, <1>2, OthersStand
<1>12. /\ \A q \in Running' : PlanSound(q)'
       /\ \A q \in Writing' : WriteSound(q)'
  <2>1. p \notin Running' /\ p \notin Writing'  BY <1>4
  <2> QED  BY <1>11, <2>1
<1>13. \A q \in Proc : proc'[q].pc \in {"lock", "written", "advanced"} => SnapSound(q)'
  <2>1. ASSUME NEW q \in Proc, proc'[q].pc \in InTx PROVE SnapSound(q)'
    <3>1. q # p  BY <1>3, <1>4, <2>1
    <3> QED  BY <1>11, <2>1, <3>1
  <2> QED  BY <2>1 DEF InTx
<1>14. ApplicationIntact'  BY <1>1, IntactStands
<1> QED  BY <1>6, <1>7, <1>8, <1>9, <1>10, <1>12, <1>13, <1>14 DEF Sound

-----------------------------------------------------------------------------
(* The start, and the steps of a command.                                     *)

(* The migrated target is numbered, has no comments and its counters hold.    *)
LEMMA EmptyTarget ==
  /\ DOMAIN Empty = Fields /\ \A f \in Identity : Numbered(Empty[f])
  /\ DOMAIN Empty.comments = {} /\ Empty.counts = deriveCounters(Empty)
<1>1. DOMAIN Empty = Fields  BY DEF Empty, Fields
<1>2. /\ Empty.cuisines = Seed(SeedCuisine) /\ Empty.flavors = Seed(SeedFlavor)
      /\ Empty.counts = [posts |-> <<>>, comments |-> <<>>]
      /\ \A f \in Identity \ Dictionary : Empty[f] = <<>>
  BY DEF Empty, Tables, Identity, Dictionary
<1>3. DOMAIN <<>> = {}  OBVIOUS
<1>4. Numbered(<<>>)
  <2>1. DOMAIN <<>> = 1..0  OBVIOUS
  <2> QED  BY <2>1, NumberedTo
<1>5. Numbered(Seed(SeedCuisine)) /\ Numbered(Seed(SeedFlavor))
  <2>1. IsTable(SeedCuisine) /\ IsTable(SeedFlavor)  BY NamesAssumption
  <2>2. DOMAIN Seed(SeedCuisine) = DOMAIN SeedCuisine /\ DOMAIN Seed(SeedFlavor) = DOMAIN SeedFlavor
    BY DEF Seed
  <2> QED  BY <2>1, <2>2, TableNumbered, NumberedPart
<1>6. \A f \in Identity : Numbered(Empty[f])
  <2>1. \A f \in Identity : f \in Identity \ Dictionary \/ f = "cuisines" \/ f = "flavors"  BY DEF Dictionary
  <2> QED  BY <1>2, <1>4, <1>5, <2>1
<1>7. Empty.posts = <<>> /\ Empty.comments = <<>>  BY <1>2 DEF Identity, Dictionary
<1>8. Empty.counts = deriveCounters(Empty)
  <2>1. deriveCounters(Empty).posts = <<>> /\ deriveCounters(Empty).comments = <<>>
    BY <1>3, <1>7 DEF deriveCounters
  <2>2. deriveCounters(Empty) = [posts |-> deriveCounters(Empty).posts, comments |-> deriveCounters(Empty).comments]
    BY DEF deriveCounters
  <2> QED  BY <1>2, <2>1, <2>2
<1> QED  BY <1>1, <1>3, <1>6, <1>7, <1>8

(* All holds before the first command (Init).                                 *)
LEMMA InitSound == ASSUME Init PROVE Sound
<1>1. /\ source \in Source /\ target = Empty /\ seq = [t \in Identity |-> Greatest(Empty[t])]
      /\ proc = [p \in Proc |-> [pc |-> "idle"]] /\ lock = None /\ app = None
      /\ imports = 0 /\ runs = 0 /\ apps = 0 /\ overlap = FALSE /\ harmed = {}
  BY DEF Init
<1>2. \A f \in Identity : Numbered(Empty[f])  BY EmptyTarget
<1>3. \A f \in Identity : /\ Greatest(Empty[f]) \in Nat
                          /\ \A k \in DOMAIN Empty[f] : k <= Greatest(Empty[f])
  BY <1>2, GreatestBounds
<1>4. Typed
  <2>1. seq \in [Identity -> Nat]  BY <1>1, <1>3
  <2>2. DOMAIN proc = Proc /\ \A p \in Proc : proc[p].pc \in Ended /\ proc[p] = [pc |-> proc[p].pc]
    BY <1>1 DEF Ended
  <2>3. \A p \in Proc :
           \/ proc[p].pc \in Ended /\ proc[p] = [pc |-> proc[p].pc]
           \/ /\ proc[p].pc \in Checking \cup {"begin"}
              /\ proc[p] = [pc |-> proc[p].pc, plan |-> proc[p].plan]
           \/ /\ proc[p].pc \in {"lock", "written", "advanced"}
              /\ proc[p] = [pc |-> proc[p].pc, plan |-> proc[p].plan, snap |-> proc[p].snap]
    BY <2>2
  <2>4. /\ app \in {None} \cup [table : {"users", "cuisines"}, id : Nat] /\ lock \in Proc \cup {None}
        /\ overlap \in BOOLEAN
    BY <1>1
  <2>5. runs \in 0..MaxRuns /\ imports \in Nat /\ apps \in 0..MaxApp
    <3>1. MaxRuns \in Nat /\ MaxApp \in Nat  BY BoundsAssumption
    <3> QED  BY <1>1, <3>1
  <2> QED  BY <1>1, <2>1, <2>2, <2>3, <2>4, <2>5 DEF Typed
<1>5. Running = {} /\ Writing = {}  BY <1>1 DEF Running, Writing, Ended
<1>6. Counted  BY <1>1, <1>5, FS_EmptySet DEF Counted
<1>7. LockSound  BY <1>1, <1>5 DEF LockSound
<1>8. TargetSound  BY <1>1, EmptyTarget DEF TargetSound, Stored
<1>9. SequenceSound
  <2>1. {"users", "cuisines"} \subseteq Identity  BY DEF Identity
  <2> QED  BY <1>1, <1>3, <2>1 DEF SequenceSound
<1>10. \A p \in Proc : proc[p].pc \notin {"lock", "written", "advanced"}  BY <1>1
<1>11. ApplicationIntact  BY <1>1 DEF ApplicationIntact
<1> QED  BY <1>1, <1>4, <1>5, <1>6, <1>7, <1>8, <1>9, <1>10, <1>11 DEF Sound

(* Import and verify read the target and plan (Prepare).                      *)
LEMMA PrepareStep ==
  ASSUME Sound, NEW p \in Proc, NEW pc \in {"check", "verify"}, Prepare(p, pc)
  PROVE  Sound'
<1>1. /\ p \notin Running /\ runs' = runs + 1 /\ runs < MaxRuns /\ overlap' = (overlap \/ app # None)
      /\ UNCHANGED <<source, target, seq, lock, app, imports, apps, harmed>>
  BY DEF Prepare
<1>2. /\ Typed /\ TargetSound /\ DOMAIN proc = Proc /\ imports \in Nat /\ runs \in 0..MaxRuns /\ MaxRuns \in Nat
      /\ lock \in Proc \cup {None} /\ overlap \in BOOLEAN /\ ApplicationIntact
      /\ seq \in [Identity -> Nat] /\ LockSound /\ SequenceSound /\ source \in Source /\ Stored(target)
  BY BoundsAssumption DEF Sound, Typed, TargetSound
<1>3. overlap' \in BOOLEAN /\ (overlap => overlap') /\ runs' \in 0..MaxRuns /\ runs' \in Nat
  BY <1>1, <1>2
<1>4. lock # p
  <2>1. p \notin Writing  BY <1>1, <1>2, RunningFinite
  <2> QED  BY <1>2, <2>1, NoneAssumption DEF LockSound
<1>5. CASE ~transformSourceOK(source, target)
  <2>1. End(p, "failed")  BY <1>5 DEF Prepare
  <2>2. "failed" \in Ended  BY DEF Ended
  <2> QED  BY <1>1, <1>3, <1>4, <2>1, <2>2, EndStep
<1>6. CASE transformSourceOK(source, target)
  <2> DEFINE plan == transformSource(source, target)
             row == [pc |-> pc, plan |-> plan]
  <2>1. proc' = [proc EXCEPT ![p] = row]  BY <1>6 DEF Prepare
  <2>2. /\ DOMAIN plan = Tables /\ \A f \in Identity : Numbered(plan[f])
        /\ transformCommentsOK(source) /\ plan.comments = transformComments(source)
        /\ HasUsers(plan) /\ \A u \in DOMAIN plan.users : plan.users[u].by = "legacy"
        /\ plan.cuisines = HistoricalRows(Cuisines(source), OldCuisines, target.cuisines)
        /\ Agree(plan.cuisines, target.cuisines)
    BY <1>2, <1>6, PlanMade
  <2> HIDE DEF plan
  <2>3. row.pc = pc /\ row.plan = plan /\ IsProc(row)  BY DEF IsProc, Checking
  <2> HIDE DEF row
  <2>4. row.pc \notin Ended /\ row.pc \notin {"written", "advanced"} /\ row.pc \notin InTx /\ row.pc \notin Past
    BY <2>3 DEF Ended, InTx, Past
  <2>5. /\ proc'[p] = row /\ DOMAIN proc' = Proc /\ Writing' = Writing \ {p}
        /\ Running' = Running \cup {p}
    BY <1>2, <2>1, <2>4, ProcChanged
  <2>6. Typed'  BY <1>1, <1>2, <1>3, <2>1, <2>3, TypedStep
  <2>7. Counted'  BY <1>1, <1>3, <2>1, CountedStep
  <2>8. LockSound'
    <3>1. Writing' = Writing  BY <1>1, <1>2, <2>5, RunningFinite
    <3> QED  BY <1>1, <1>2, <3>1 DEF LockSound
  <2>9. TargetSound'  BY <1>1, <1>2, TargetStands
  <2>10. SequenceSound'
    <3> SUFFICES ASSUME ~overlap' PROVE SequenceSound'  BY DEF SequenceSound
    <3>1. ~overlap /\ app = None  BY <1>1
    <3> QED  BY <1>1, <1>2, <3>1 DEF SequenceSound
  <2>11. /\ \A q \in Running' \ {p} : PlanSound(q)'
         /\ \A q \in Proc \ {p} : proc'[q].pc \in InTx => SnapSound(q)'
         /\ \A q \in Writing' \ {p} : WriteSound(q)'
    BY <1>1, <1>2, <1>3, <2>1, OthersStand
  <2>12. PlanSound(p)'
    <3>1. proc'[p].plan = plan /\ proc'[p].pc \notin Past  BY <2>3, <2>4, <2>5
    <3>2. source' = source /\ target' = target  BY <1>1
    <3> QED  BY <2>2, <3>1, <3>2 DEF PlanSound
  <2>13. /\ \A q \in Running' : PlanSound(q)'
         /\ \A q \in Writing' : WriteSound(q)'
    <3>1. p \notin Writing' /\ \A q \in Running' : q = p \/ q \in Running' \ {p}  BY <2>5
    <3> QED  BY <2>11, <2>12, <3>1
  <2>14. \A q \in Proc : proc'[q].pc \in {"lock", "written", "advanced"} => SnapSound(q)'
    <3>1. ASSUME NEW q \in Proc, proc'[q].pc \in InTx PROVE SnapSound(q)'
      <4>1. q # p  BY <2>4, <2>5, <3>1
      <4> QED  BY <2>11, <3>1, <4>1
    <3> QED  BY <3>1 DEF InTx
  <2>15. ApplicationIntact'  BY <1>1, <1>2, <1>3, IntactStands
  <2> QED  BY <2>6, <2>7, <2>8, <2>9, <2>10, <2>13, <2>14, <2>15 DEF Sound
<1> QED  BY <1>5, <1>6


(* What a command and the target satisfy before a step of the command.        *)
LEMMA Underway ==
  ASSUME Sound, NEW p \in Running
  PROVE  /\ p \in Proc /\ DOMAIN proc = Proc /\ IsProc(proc[p]) /\ PlanSound(p) /\ p # None
         /\ proc[p].pc \notin Ended
         /\ proc[p].pc \in Checking \cup {"begin"} => proc[p] = [pc |-> proc[p].pc, plan |-> proc[p].plan]
         /\ proc[p].pc \in InTx =>
               /\ proc[p] = [pc |-> proc[p].pc, plan |-> proc[p].plan, snap |-> proc[p].snap]
               /\ SnapSound(p)
         /\ Stored(target) /\ LockSound /\ SequenceSound
         /\ seq \in [Identity -> Nat] /\ lock \in Proc \cup {None}
         /\ runs \in 0..MaxRuns /\ overlap \in BOOLEAN /\ imports \in Nat
<1>1. p \in Proc /\ proc[p].pc \notin Ended  BY DEF Running
<1>2. DOMAIN proc = Proc /\ IsProc(proc[p])  BY <1>1, ProcTyped DEF Sound
<1>3. Checking \cap InTx = {} /\ "begin" \notin InTx /\ InTx = {"lock", "written", "advanced"}
  BY DEF Checking, InTx
<1>4. proc[p].pc \in InTx => SnapSound(p)  BY <1>1, <1>3 DEF Sound
<1>5. proc[p].pc \in Checking \cup {"begin"} => proc[p] = [pc |-> proc[p].pc, plan |-> proc[p].plan]
  BY <1>1, <1>2, <1>3 DEF IsProc
<1>6. proc[p].pc \in InTx => proc[p] = [pc |-> proc[p].pc, plan |-> proc[p].plan, snap |-> proc[p].snap]
  BY <1>1, <1>2, <1>3 DEF IsProc
<1> QED  BY <1>1, <1>2, <1>4, <1>5, <1>6, NoneAssumption DEF Sound, Typed, TargetSound

(* The checks before the transaction: the next one, or the transaction.       *)
LEMMA Checked ==
  ASSUME Sound, NEW p \in Running, proc[p].pc \in Checking, NEW pc \in {"compare", "begin"}, Goto(p, pc),
         pc = "begin" /\ ~overlap => \A u \in DOMAIN target.users : target.users[u].by # "app",
         UNCHANGED <<source, target, seq, lock, app, imports, runs, apps, overlap, harmed>>
  PROVE  Sound'
<1> PICK plan : plan = proc[p].plan  OBVIOUS
<1> DEFINE row == [pc |-> pc, plan |-> plan]
<1>1. /\ p \in Proc /\ DOMAIN proc = Proc /\ proc[p] = [pc |-> proc[p].pc, plan |-> plan]
      /\ seq \in [Identity -> Nat] /\ lock \in Proc \cup {None} /\ LockSound /\ SequenceSound
  BY Underway
<1>2. proc' = [proc EXCEPT ![p] = row]
  <2>1. [proc[p] EXCEPT !.pc = pc] = row  BY <1>1
  <2>2. proc' = [proc EXCEPT ![p] = [proc[p] EXCEPT !.pc = pc]]  BY DEF Goto
  <2> QED  BY <2>1, <2>2
<1>3. row.pc = pc /\ row.plan = plan /\ IsProc(row)  BY DEF IsProc, Checking
<1> HIDE DEF row
<1>4. /\ row.pc \notin Ended /\ row.pc \notin InTx /\ row.pc \notin {"written", "advanced"}
      /\ row.pc \in Past => pc = "begin"
  BY <1>3 DEF Ended, InTx, Past
<1>5. p \notin Writing  BY DEF Checking, Writing
<1>6. Writing' = Writing \ {p} /\ Running' = Running \cup {p}  BY <1>1, <1>2, <1>4, ProcChanged
<1>7. Writing' = Writing /\ Running' = Running  BY <1>5, <1>6
<1>8. LockSound'  BY <1>1, <1>7 DEF LockSound
<1>9. SequenceSound'  BY <1>1, <1>7 DEF SequenceSound
<1> QED  BY <1>1, <1>2, <1>3, <1>4, <1>8, <1>9, GoOn

(* The check for business rows lets only a target without users through.      *)
LEMMA CheckStep == ASSUME Sound, NEW p \in Proc, Check(p) PROVE Sound'
<1>1. /\ proc[p].pc = "check" /\ proc[p].pc \in Checking /\ p \in Running
      /\ UNCHANGED <<source, target, seq, lock, app, imports, runs, apps, overlap, harmed>>
  BY DEF Check, Running, Ended, Checking
<1>2. CASE targetHasBusinessRows(target)
  <2>1. Goto(p, "compare")  BY <1>2 DEF Check
  <2> QED  BY <1>1, <2>1, Checked
<1>3. CASE ~targetHasBusinessRows(target)
  <2>1. Goto(p, "begin")  BY <1>3 DEF Check
  <2>2. "users" \in Identity \ Dictionary  BY DEF Identity, Dictionary
  <2>3. DOMAIN target.users = {}  BY <1>3, <2>2 DEF targetHasBusinessRows
  <2> QED  BY <1>1, <2>1, <2>3, Checked
<1> QED  BY <1>2, <1>3

(* The comparison lets through only a target with the planned users.          *)
LEMMA CompareStep == ASSUME Sound, NEW p \in Proc, Compare(p) PROVE Sound'
<1>1. /\ proc[p].pc = "compare" /\ proc[p].pc \in Checking /\ p \in Running
      /\ UNCHANGED <<source, target, seq, lock, app, imports, runs, apps, overlap, harmed>>
  BY DEF Compare, Running, Ended, Checking
<1>2. /\ PlanSound(p) /\ runs \in 0..MaxRuns /\ overlap \in BOOLEAN /\ lock \in Proc \cup {None}
      /\ LockSound /\ p # None
  BY <1>1, Underway
<1>3. CASE collectMismatches(proc[p].plan, target)
  <2>1. End(p, "refused") /\ "refused" \in Ended  BY <1>3 DEF Compare, Ended
  <2>2. lock # p  BY <1>1, <1>2 DEF LockSound, Writing
  <2> QED  BY <1>1, <1>2, <2>1, <2>2, EndStep
<1>4. CASE ~collectMismatches(proc[p].plan, target)
  <2>1. Goto(p, "begin")  BY <1>4 DEF Compare
  <2>2. "users" \in Tables \ Dictionary  BY DEF Tables, Dictionary
  <2>3. target.users = proc[p].plan.users  BY <1>4, <2>2 DEF collectMismatches, compareDatasets
  <2>4. \A u \in DOMAIN target.users : target.users[u].by # "app"  BY <1>2, <2>3 DEF PlanSound
  <2> QED  BY <1>1, <2>1, <2>4, Checked
<1> QED  BY <1>3, <1>4

(* A verification ends with its report.                                       *)
LEMMA ReportStep == ASSUME Sound, NEW p \in Proc, CompareAndReport(p) PROVE Sound'
<1>1. /\ proc[p].pc = "verify" /\ p \in Running
      /\ UNCHANGED <<source, target, seq, lock, app, imports, runs, apps, overlap, harmed>>
  BY DEF CompareAndReport, Running, Ended
<1>2. runs \in 0..MaxRuns /\ overlap \in BOOLEAN /\ LockSound /\ p # None  BY <1>1, Underway
<1>3. PICK pc \in {"mismatch", "ok"} : End(p, pc)  BY DEF CompareAndReport
<1>4. pc \in Ended  BY DEF Ended
<1>5. lock # p  BY <1>1, <1>2 DEF LockSound, Writing
<1> QED  BY <1>1, <1>2, <1>3, <1>4, <1>5, EndStep

(* A failure ends a command and frees its lock.                               *)
LEMMA FailStep == ASSUME Sound, NEW p \in Proc, Fail(p) PROVE Sound'
<1>1. p \in Running /\ End(p, "failed") /\ "failed" \in Ended
      /\ UNCHANGED <<source, target, seq, app, imports, runs, apps, overlap, harmed>>
      /\ lock' = IF lock = p THEN None ELSE lock
  BY DEF Fail, Ended
<1>2. runs \in 0..MaxRuns /\ overlap \in BOOLEAN  BY <1>1, Underway
<1> QED  BY <1>1, <1>2, EndStep

(* The snapshot a transaction takes is the target (Begin).                    *)
LEMMA BeginStep == ASSUME Sound, NEW p \in Proc, Begin(p) PROVE Sound'
<1> PICK plan : plan = proc[p].plan  OBVIOUS
<1> DEFINE snap == [target |-> target, imports |-> imports]
           row == [pc |-> "lock", plan |-> plan, snap |-> snap]
<1>1. /\ proc[p].pc = "begin" /\ p \in Running
      /\ UNCHANGED <<source, target, seq, lock, app, imports, runs, apps, overlap, harmed>>
  BY DEF Begin, Running, Ended
<1>2. /\ DOMAIN proc = Proc /\ PlanSound(p) /\ seq \in [Identity -> Nat] /\ lock \in Proc \cup {None}
      /\ LockSound /\ SequenceSound /\ Stored(target) /\ imports \in Nat
  BY <1>1, Underway
<1>3. proc' = [proc EXCEPT ![p] = row]  BY DEF Begin
<1>4. snap.target = target /\ snap.imports = imports  OBVIOUS
<1> HIDE DEF snap
<1>5. row.pc = "lock" /\ row.plan = plan /\ row.snap = snap /\ IsProc(row)  BY DEF IsProc, InTx
<1> HIDE DEF row
<1>6. row.pc \notin Ended /\ row.pc \notin {"written", "advanced"}  BY <1>5 DEF Ended
<1>7. p \notin Writing  BY <1>1 DEF Writing
<1>8. /\ Writing' = Writing \ {p} /\ Running' = Running \cup {p} /\ proc'[p] = row
  BY <1>2, <1>3, <1>6, ProcChanged
<1>9. Writing' = Writing /\ Running' = Running  BY <1>1, <1>7, <1>8
<1>10. LockSound'  BY <1>1, <1>2, <1>9 DEF LockSound
<1>11. SequenceSound'  BY <1>1, <1>2, <1>9 DEF SequenceSound
<1>12. SnapSound(p)'  BY <1>1, <1>2, <1>4, <1>5, <1>8 DEF SnapSound, Stored
<1>13. ~overlap => \A u \in DOMAIN target.users : target.users[u].by # "app"
  BY <1>1, <1>2 DEF PlanSound, Past
<1> QED  BY <1>1, <1>2, <1>3, <1>5, <1>6, <1>10, <1>11, <1>12, <1>13, GoOn

(* The writer has the lock, and nobody committed since its snapshot (Write).  *)
LEMMA WriteStep == ASSUME Sound, NEW p \in Proc, Write(p) PROVE Sound'
<1> PICK plan, snap : plan = proc[p].plan /\ snap = proc[p].snap  OBVIOUS
<1> DEFINE row == [pc |-> "written", plan |-> plan, snap |-> snap]
<1>1. /\ proc[p].pc = "lock" /\ proc[p].pc \in InTx /\ p \in Running /\ lock = None
      /\ UNCHANGED <<source, target, seq, app, imports, runs, apps, overlap, harmed>>
  BY DEF Write, Running, Ended, InTx
<1>2. /\ DOMAIN proc = Proc /\ PlanSound(p) /\ SnapSound(p) /\ seq \in [Identity -> Nat] /\ p # None
      /\ LockSound /\ SequenceSound /\ runs \in 0..MaxRuns /\ overlap \in BOOLEAN
      /\ proc[p] = [pc |-> "lock", plan |-> plan, snap |-> snap]
  BY <1>1, Underway
<1>3. CASE NotSerializable(p) \/ ~CommentKeysHold(writeDataset(target, plan))
  <2>1. End(p, "failed") /\ lock' = lock /\ "failed" \in Ended  BY <1>3 DEF Write, Ended
  <2> QED  BY <1>1, <1>2, <2>1, EndStep
<1>4. CASE ~NotSerializable(p) /\ CommentKeysHold(writeDataset(target, plan))
  <2>1. Goto(p, "written") /\ lock' = p  BY <1>4 DEF Write
  <2>2. proc' = [proc EXCEPT ![p] = row]
    <3>1. [proc[p] EXCEPT !.pc = "written"] = row  BY <1>2
    <3>2. proc' = [proc EXCEPT ![p] = [proc[p] EXCEPT !.pc = "written"]]  BY <2>1 DEF Goto
    <3> QED  BY <3>1, <3>2
  <2>3. row.pc = "written" /\ row.plan = plan /\ row.snap = snap /\ IsProc(row)  BY DEF IsProc, InTx
  <2> HIDE DEF row
  <2>4. row.pc \notin Ended  BY <2>3 DEF Ended
  <2>5. /\ Writing' = Writing \cup {p} /\ Running' = Running \cup {p} /\ proc'[p] = row
    BY <1>2, <2>2, <2>3, <2>4, ProcChanged
  <2>6. LockSound'  BY <1>1, <1>2, <2>1, <2>5 DEF LockSound
  <2>7. SequenceSound'
    <3>1. Running' = Running  BY <1>1, <2>5
    <3> QED  BY <1>1, <1>2, <3>1 DEF SequenceSound
  <2>8. SnapSound(p)'  BY <1>1, <1>2, <2>3, <2>5 DEF SnapSound, Stored
  <2>9. snap.imports = imports  BY <1>4 DEF NotSerializable
  <2>10. CommentKeysHold(writeDataset(target, plan))'  BY <1>1, <1>4
  <2>11. WriteSound(p)'
    <3>1. proc'[p].pc # "advanced" /\ proc'[p].plan = plan /\ proc'[p].snap = snap  BY <2>3, <2>5
    <3> QED  BY <1>1, <2>9, <2>10, <3>1 DEF WriteSound
  <2>12. ~overlap => \A u \in DOMAIN target.users : target.users[u].by # "app"
    BY <1>1, <1>2 DEF PlanSound, Past
  <2> QED  BY <1>1, <1>2, <2>1, <2>2, <2>3, <2>4, <2>6, <2>7, <2>8, <2>11, <2>12, GoOn
<1> QED  BY <1>3, <1>4

(* The sequences are past all the writer is about to commit (Advance).        *)
LEMMA AdvanceStep == ASSUME Sound, NEW p \in Proc, Advance(p) PROVE Sound'
<1> PICK plan, snap : plan = proc[p].plan /\ snap = proc[p].snap  OBVIOUS
<1> DEFINE row == [pc |-> "advanced", plan |-> plan, snap |-> snap]
           view == writeDataset(snap.target, plan)
<1>1. /\ proc[p].pc = "written" /\ proc[p].pc \in InTx /\ p \in Running /\ p \in Writing
      /\ UNCHANGED <<source, target, lock, app, imports, runs, apps, overlap, harmed>>
      /\ seq' = [t \in Identity |-> Greatest(view[t])] /\ Goto(p, "advanced")
  BY DEF Advance, Running, Ended, InTx, advanceIdentitySequences, Writing
<1>2. /\ DOMAIN proc = Proc /\ PlanSound(p) /\ SnapSound(p) /\ lock \in Proc \cup {None}
      /\ LockSound /\ SequenceSound
      /\ proc[p] = [pc |-> "written", plan |-> plan, snap |-> snap]
  BY <1>1, Underway
<1>3. WriteSound(p)  BY <1>1 DEF Sound
<1>4. Stored(snap.target) /\ HasUsers(plan) /\ \A f \in Identity : Numbered(plan[f])
  BY <1>2 DEF PlanSound, SnapSound
<1>5. Stored(view)  BY <1>4, WrittenStored
<1>6. \A t \in Identity : Greatest(view[t]) \in Nat /\ \A k \in DOMAIN view[t] : k <= Greatest(view[t])
  BY <1>5, GreatestBounds DEF Stored
<1>7. \A t \in {"users", "cuisines"} : DOMAIN view[t] = DOMAIN plan[t] \cup DOMAIN snap.target[t]
  <2>1. DOMAIN view.users = DOMAIN plan.users \cup DOMAIN snap.target.users
    BY <1>4, DatasetWritten DEF Stored
  <2>2. view.cuisines = Over(plan.cuisines, snap.target.cuisines)
    <3>1. "cuisines" \in Taken  BY DEF Taken
    <3>2. \A f \in Taken : view[f] = Over(plan[f], snap.target[f])  BY <1>4, DatasetWritten DEF Stored
    <3> QED  BY <3>1, <3>2
  <2> HIDE DEF view
  <2>3. DOMAIN view.cuisines = DOMAIN plan.cuisines \cup DOMAIN snap.target.cuisines
    <3>1. DOMAIN Over(plan.cuisines, snap.target.cuisines) = DOMAIN plan.cuisines \cup DOMAIN snap.target.cuisines
      BY Joined
    <3> QED  BY <2>2, <3>1
  <2> QED  BY <2>1, <2>3
<1> HIDE DEF view
<1>8. seq' \in [Identity -> Nat]  BY <1>1, <1>6
<1>9. \A t \in {"users", "cuisines"} : \A k \in DOMAIN plan[t] \cup DOMAIN snap.target[t] : k <= seq'[t]
  <2>1. {"users", "cuisines"} \subseteq Identity  BY DEF Identity
  <2> QED  BY <1>1, <1>6, <1>7, <2>1
<1>10. proc' = [proc EXCEPT ![p] = row]
  <2>1. [proc[p] EXCEPT !.pc = "advanced"] = row  BY <1>2
  <2>2. proc' = [proc EXCEPT ![p] = [proc[p] EXCEPT !.pc = "advanced"]]  BY <1>1 DEF Goto
  <2> QED  BY <2>1, <2>2
<1>11. row.pc = "advanced" /\ row.plan = plan /\ row.snap = snap /\ IsProc(row)  BY DEF IsProc, InTx
<1> HIDE DEF row
<1>12. row.pc \notin Ended  BY <1>11 DEF Ended
<1>13. Writing' = Writing \cup {p} /\ Running' = Running \cup {p} /\ proc'[p] = row
  BY <1>2, <1>10, <1>11, <1>12, ProcChanged
<1>14. Writing' = Writing  BY <1>1, <1>13
<1>15. LockSound'  BY <1>1, <1>2, <1>14 DEF LockSound
<1>16. Writing' \subseteq {p}  BY <1>1, <1>2, <1>14 DEF LockSound
<1>17. ~overlap => snap.target = target /\ app = None
  BY <1>1, <1>2, <1>3 DEF SnapSound, WriteSound, SequenceSound
<1>18. SequenceSound'
  <2> SUFFICES ASSUME ~overlap PROVE SequenceSound'  BY <1>1 DEF SequenceSound
  <2>1. target' = snap.target /\ app' = None  BY <1>1, <1>17
  <2> QED  BY <1>9, <2>1 DEF SequenceSound
<1>19. SnapSound(p)'  BY <1>1, <1>2, <1>11, <1>13 DEF SnapSound, Stored
<1>20. WriteSound(p)'
  <2>1. proc'[p].plan = plan /\ proc'[p].snap = snap /\ imports' = imports  BY <1>1, <1>11, <1>13
  <2>2. CommentKeysHold(writeDataset(target, plan))'  BY <1>1, <1>3 DEF WriteSound
  <2>3. \A t \in {"users", "cuisines"} : \A k \in DOMAIN plan[t] : k <= seq'[t]  BY <1>9
  <2> QED  BY <1>3, <2>1, <2>2, <2>3 DEF WriteSound
<1>21. ~overlap => \A u \in DOMAIN target.users : target.users[u].by # "app"
  BY <1>1, <1>2 DEF PlanSound, Past
<1> QED  BY <1>1, <1>2, <1>8, <1>10, <1>11, <1>12, <1>15, <1>16, <1>18, <1>19, <1>20, <1>21, GoOn

(* The threads the source has are in the target after a commit as they were   *)
(* before one.                                                                *)
LEMMA CommentsCommitted ==
  ASSUME TargetSound, source \in Source, NEW d, HasUsers(d), \A f \in Identity : Numbered(d[f]),
         transformCommentsOK(source), d.comments = transformComments(source),
         CommentKeysHold(writeDataset(target, d)),
         source' = source, target' = writeDataset(target, d)
  PROVE  TargetSound'
<1> DEFINE w == writeDataset(target, d)
           rows == transformComments(source)
<1>1. DOMAIN target = Fields /\ Stored(target)  BY DEF TargetSound, Stored
<1>2. Stored(w)  BY <1>1, WrittenStored
<1>3. w.counts = deriveCounters(w) /\ w.comments = Over(d.comments, target.comments)
  <2>1. "comments" \in Taken  BY DEF Taken
  <2>2. w.counts = deriveCounters(w) /\ \A f \in Taken : w[f] = Over(d[f], target[f])
    BY <1>1, DatasetWritten
  <2> QED  BY <2>1, <2>2
<1>4. rows = [c \in DOMAIN rows |-> rows[c]]  BY DEF transformComments
<1>5. DOMAIN target.comments = {} \/ target.comments = rows  BY DEF TargetSound
<1> HIDE DEF rows
<1>6. Over(rows, target.comments) = [c \in DOMAIN rows |-> rows[c]]
  <2>1. DOMAIN rows \cup DOMAIN target.comments = DOMAIN rows  BY <1>5
  <2> QED  BY <2>1 DEF Over
<1>7. w.comments = rows  BY <1>3, <1>4, <1>6 DEF rows
<1> HIDE DEF w
<1>8. target' = w /\ CommentKeysHold(w)  BY DEF w
<1> QED  BY <1>2, <1>3, <1>7, <1>8 DEF TargetSound, rows, Stored, CommentKeysHold

(* A commit overwrites no row of the application but a cuisine it adopts, and *)
(* other plans stay right (Commit).                                           *)
LEMMA CommitStep == ASSUME Sound, NEW p \in Proc, Commit(p) PROVE Sound'
<1> PICK plan, snap : plan = proc[p].plan /\ snap = proc[p].snap  OBVIOUS
<1> DEFINE row == [pc |-> "ok"]
           w == writeDataset(target, plan)
<1>1. /\ proc[p].pc = "advanced" /\ proc[p].pc \in InTx /\ proc[p].pc \in Past
      /\ p \in Running /\ p \in Writing
      /\ target' = w /\ harmed' = harmed \cup Overwritten(p) /\ imports' = imports + 1 /\ lock' = None
      /\ proc' = [proc EXCEPT ![p] = row]
      /\ UNCHANGED <<source, seq, app, runs, apps, overlap>>
  BY DEF Commit, End, Running, Ended, InTx, Past, Writing
<1>2. /\ DOMAIN proc = Proc /\ PlanSound(p) /\ SnapSound(p) /\ WriteSound(p) /\ TargetSound /\ Typed
      /\ LockSound /\ SequenceSound /\ seq \in [Identity -> Nat] /\ runs \in 0..MaxRuns
      /\ overlap \in BOOLEAN /\ imports \in Nat /\ source \in Source /\ Stored(target) /\ p # None
  BY <1>1, Underway DEF Sound, Typed
<1>3. /\ DOMAIN target = Fields /\ HasUsers(plan) /\ \A f \in Identity : Numbered(plan[f])
      /\ transformCommentsOK(source) /\ plan.comments = transformComments(source)
      /\ \A u \in DOMAIN plan.users : plan.users[u].by = "legacy"
      /\ CommentKeysHold(w)
  BY <1>2 DEF Stored, PlanSound, WriteSound
<1>4. TargetSound'  BY <1>1, <1>2, <1>3, CommentsCommitted
<1>5. /\ DOMAIN w.users = DOMAIN plan.users \cup DOMAIN target.users
      /\ \A u \in DOMAIN plan.users : w.users[u].by = plan.users[u].by
      /\ \A u \in DOMAIN target.users \ DOMAIN plan.users : w.users[u] = target.users[u]
      /\ w.cuisines = Over(plan.cuisines, target.cuisines)
  <2>1. "cuisines" \in Taken  BY DEF Taken
  <2>2. \A f \in Taken : w[f] = Over(plan[f], target[f])  BY <1>3, DatasetWritten
  <2> QED  BY <1>3, <2>1, <2>2, DatasetWritten
<1> HIDE DEF w
<1>6. row.pc \in Ended /\ row.pc \notin {"written", "advanced"} /\ row.pc \notin InTx /\ IsProc(row)
  BY DEF Ended, InTx, IsProc
<1> HIDE DEF row
<1>7. /\ Writing' = Writing \ {p} /\ Running' = Running \ {p} /\ proc'[p] = row /\ DOMAIN proc' = Proc
      /\ \A q \in Proc \ {p} : proc'[q] = proc[q]
  BY <1>1, <1>2, <1>6, ProcChanged
<1>8. Writing' = {}  BY <1>1, <1>2, <1>7 DEF LockSound
<1>9. LockSound'  BY <1>1, <1>8 DEF LockSound
<1>10. runs \in Nat /\ runs' = runs /\ imports' \in Nat  BY <1>1, <1>2, BoundsAssumption
<1>11. ~overlap => \A h \in Overwritten(p) : Adopted(h)
  <2> SUFFICES ASSUME ~overlap, NEW h \in Overwritten(p) PROVE Adopted(h)  OBVIOUS
  <2>1. /\ Agree(plan.cuisines, target.cuisines) /\ \A u \in DOMAIN target.users : target.users[u].by # "app"
        /\ plan.cuisines = HistoricalRows(Cuisines(source), OldCuisines, target.cuisines)
    BY <1>1, <1>2 DEF PlanSound
  <2>2. PICK t \in {"users", "cuisines"} : \E k \in DOMAIN plan[t] \cap DOMAIN target[t] :
           /\ target[t][k].by = "app"
           /\ h = [how |-> "overwritten", table |-> t, was |-> target[t][k], now |-> plan[t][k]]
    BY DEF Overwritten
  <2>3. t = "cuisines"  BY <2>1, <2>2
  <2>4. PICK k \in DOMAIN plan.cuisines \cap DOMAIN target.cuisines :
           h = [how |-> "overwritten", table |-> "cuisines", was |-> target.cuisines[k], now |-> plan.cuisines[k]]
    BY <2>2, <2>3
  <2>5. target.cuisines[k].name = plan.cuisines[k].name  BY <2>1 DEF Agree
  <2>6. plan.cuisines[k].name \in ToSet(OldCuisines)  BY <2>1, HistoricalRow DEF OldNames
  <2> QED  BY <2>4, <2>5, <2>6 DEF Adopted
<1>12. Typed'
  <2>1. seq' \in [Identity -> Nat] /\ runs' \in 0..MaxRuns /\ overlap' \in BOOLEAN /\ lock' \in Proc \cup {None}
    BY <1>1, <1>2
  <2> QED  BY <1>1, <1>2, <1>6, <1>10, <2>1, TypedStep
<1>13. Counted'  BY <1>1, <1>6, <1>10, CountedStep
<1>14. SequenceSound'
  <2> SUFFICES ASSUME ~overlap PROVE SequenceSound'  BY <1>1 DEF SequenceSound
  <2>1. app = None  BY <1>1, <1>2 DEF SequenceSound
  <2>2. \A t \in {"users", "cuisines"} : \A k \in DOMAIN plan[t] \cup DOMAIN target[t] : k <= seq[t]
    BY <1>1, <1>2 DEF SequenceSound, WriteSound
  <2>3. \A t \in {"users", "cuisines"} : DOMAIN w[t] = DOMAIN plan[t] \cup DOMAIN target[t]
    <3>1. DOMAIN Over(plan.cuisines, target.cuisines) = DOMAIN plan.cuisines \cup DOMAIN target.cuisines  BY Joined
    <3> QED  BY <1>5, <3>1
  <2>4. \A t \in {"users", "cuisines"} : \A k \in DOMAIN target'[t] : k <= seq'[t]  BY <1>1, <2>2, <2>3
  <2> QED  BY <1>1, <2>1, <2>4 DEF SequenceSound
<1>15. ASSUME NEW q \in Running' PROVE PlanSound(q)'
  <2> PICK other : other = proc[q].plan  OBVIOUS
  <2>1. q \in Running /\ q # p /\ q \in Proc  BY <1>7 DEF Running
  <2>2. proc'[q] = proc[q]  BY <1>7, <2>1
  <2>3. PlanSound(q)  BY <2>1 DEF Sound
  <2>4. ASSUME ~overlap
        PROVE  /\ other.cuisines = HistoricalRows(Cuisines(source), OldCuisines, target'.cuisines)
               /\ Agree(other.cuisines, target'.cuisines)
               /\ proc[q].pc \in Past => \A u \in DOMAIN target'.users : target'.users[u].by # "app"
    <3> DEFINE old == HistoricalRows(Cuisines(source), OldCuisines, target.cuisines)
    <3>1. /\ other.cuisines = old /\ plan.cuisines = old /\ Agree(old, target.cuisines)
      BY <1>2, <2>3, <2>4 DEF PlanSound
    <3>2. HistoricalRows(Cuisines(source), OldCuisines, Over(old, target.cuisines)) = old
          /\ Agree(old, Over(old, target.cuisines))
      BY <3>1, HistoricalSame
    <3> HIDE DEF old
    <3>3. target'.cuisines = Over(old, target.cuisines)  BY <1>1, <1>5, <3>1
    <3>4. proc[q].pc \in Past => \A u \in DOMAIN target.users : target.users[u].by # "app"
      BY <2>3, <2>4 DEF PlanSound
    <3>5. proc[q].pc \in Past => \A u \in DOMAIN w.users : w.users[u].by # "app"
      BY <1>3, <1>5, <3>4
    <3> QED  BY <1>1, <3>1, <3>2, <3>3, <3>5
  <2> QED  BY <1>1, <2>2, <2>3, <2>4 DEF PlanSound
<1>16. ASSUME NEW q \in Proc, proc'[q].pc \in InTx PROVE SnapSound(q)'
  <2>1. q # p  BY <1>6, <1>7, <1>16
  <2>2. proc'[q] = proc[q]  BY <1>7, <2>1
  <2>3. SnapSound(q)  BY <1>16, <2>2 DEF Sound, InTx
  <2>4. Stored(proc[q].snap.target) /\ proc[q].snap.imports \in 0..imports  BY <2>3 DEF SnapSound
  <2>5. proc[q].snap.imports \in 0..imports' /\ proc[q].snap.imports # imports'  BY <1>1, <1>2, <2>4
  <2>6. Stored(proc'[q].snap.target)  BY <2>2, <2>4
  <2> QED  BY <2>2, <2>5, <2>6 DEF SnapSound, Stored
<1>17. \A q \in Proc : proc'[q].pc \in {"lock", "written", "advanced"} => SnapSound(q)'
  BY <1>16 DEF InTx
<1>18. ApplicationIntact'
  <2>1. overlap' = overlap /\ harmed' = harmed \cup Overwritten(p)  BY <1>1
  <2>2. ~overlap => \A h \in harmed : Adopted(h)  BY DEF Sound, ApplicationIntact
  <2> QED  BY <1>11, <2>1, <2>2 DEF ApplicationIntact, Adopted
<1> QED  BY <1>4, <1>8, <1>9, <1>12, <1>13, <1>14, <1>15, <1>17, <1>18 DEF Sound

-----------------------------------------------------------------------------
(* The steps of the application. It changes no comment, post or counter.      *)

Content == {"posts", "comments", "counts", "postLikes", "favorites", "commentLikes"}

(* The keys of the comments a dataset writes do not hang on the rows the      *)
(* application writes.                                                        *)
LEMMA KeysDepend ==
  ASSUME NEW t, NEW w, NEW d, DOMAIN t = Fields, DOMAIN w = Fields, HasUsers(d),
         w.comments = t.comments, w.posts = t.posts, CommentKeysHold(writeDataset(t, d))
  PROVE  CommentKeysHold(writeDataset(w, d))
<1> DEFINE a == writeDataset(t, d)
           b == writeDataset(w, d)
<1>1. {"posts", "comments"} \subseteq Taken  BY DEF Taken
<1>2. \A f \in Taken : a[f] = Over(d[f], t[f])  BY DatasetWritten
<1>3. \A f \in Taken : b[f] = Over(d[f], w[f])  BY DatasetWritten
<1>4. CommentKeysHold(a)  OBVIOUS
<1> HIDE DEF a, b
<1>5. b.comments = a.comments /\ b.posts = a.posts  BY <1>1, <1>2, <1>3
<1>6. CommentKeysHold(b)  BY <1>4, <1>5 DEF CommentKeysHold
<1> QED  BY <1>6 DEF b

(* A step of the application beside the commands leaves all they rest on: if  *)
(* one runs, the overlap is on record.                                        *)
LEMMA AppStep ==
  ASSUME Sound, UNCHANGED <<source, proc, lock, imports, runs>>,
         overlap' = (overlap \/ Running # {}), ApplicationIntact',
         seq' \in [Identity -> Nat], app' \in {None} \cup [table : {"users", "cuisines"}, id : Nat],
         apps' \in 0..MaxApp, Stored(target'), \A f \in Content : target'[f] = target[f],
         SequenceSound'
  PROVE  Sound'
<1>1. /\ Typed /\ Counted /\ LockSound /\ TargetSound /\ DOMAIN proc = Proc /\ overlap \in BOOLEAN
  BY DEF Sound, Typed
<1>2. Running' = Running /\ Writing' = Writing  BY DEF Running, Writing
<1>3. overlap' \in BOOLEAN /\ \A q \in Running : overlap'  BY <1>1
<1>4. /\ target'.posts = target.posts /\ target'.comments = target.comments
      /\ target'.counts = target.counts /\ target'.postLikes = target.postLikes
      /\ target'.favorites = target.favorites /\ target'.commentLikes = target.commentLikes
  BY DEF Content
<1>5. Typed'  BY <1>1, <1>3 DEF Typed
<1>6. Counted' /\ LockSound'  BY <1>1, <1>2 DEF Counted, LockSound
<1>7. TargetSound'
  <2>1. deriveCounters(target') = deriveCounters(target)  BY <1>4 DEF deriveCounters
  <2>2. CommentKeysHold(target) => CommentKeysHold(target')  BY <1>4 DEF CommentKeysHold
  <2>3. /\ Stored(target') /\ target'.counts = deriveCounters(target')
        /\ DOMAIN target'.comments # {} =>
              /\ transformCommentsOK(source)
              /\ target'.comments = transformComments(source)
              /\ CommentKeysHold(target')
    BY <1>1, <1>4, <2>1, <2>2 DEF TargetSound
  <2> QED  BY <2>3 DEF TargetSound, Stored, CommentKeysHold
<1>8. ASSUME NEW q \in Running PROVE PlanSound(q)'
  <2>1. PlanSound(q)  BY DEF Sound
  <2> QED  BY <1>3, <2>1 DEF PlanSound
<1>9. ASSUME NEW q \in Proc, proc[q].pc \in InTx PROVE SnapSound(q)'
  <2>1. q \in Running  BY <1>9 DEF Running, Ended, InTx
  <2>2. SnapSound(q)  BY <1>9 DEF Sound, InTx
  <2> QED  BY <1>3, <2>1, <2>2 DEF SnapSound, Stored
<1>10. ASSUME NEW q \in Writing PROVE WriteSound(q)'
  <2>1. q \in Running  BY <1>1, RunningFinite
  <2>2. WriteSound(q) /\ HasUsers(proc[q].plan)  BY <2>1 DEF Sound, PlanSound
  <2>3. CommentKeysHold(writeDataset(target', proc[q].plan))
    <3>1. DOMAIN target = Fields /\ DOMAIN target' = Fields  BY <1>1 DEF TargetSound, Stored
    <3>2. CommentKeysHold(writeDataset(target, proc[q].plan))  BY <2>2 DEF WriteSound
    <3> QED  BY <1>4, <2>2, <3>1, <3>2, KeysDepend
  <2>4. CommentKeysHold(writeDataset(target, proc[q].plan))'  BY <2>3
  <2> QED  BY <1>3, <2>1, <2>2, <2>4 DEF WriteSound
<1>11. \A q \in Proc : proc'[q].pc \in {"lock", "written", "advanced"} => SnapSound(q)'
  BY <1>9 DEF InTx
<1> QED  BY <1>2, <1>5, <1>6, <1>7, <1>8, <1>10, <1>11 DEF Sound

(* A value of a sequence is not the key of a row.                             *)
LEMMA NextValStep == ASSUME Sound, NEW t \in {"users", "cuisines"}, NextVal(t) PROVE Sound'
<1> PICK n : n = seq[t]  OBVIOUS
<1>1. /\ apps < MaxApp /\ app = None /\ seq' = [seq EXCEPT ![t] = n + 1]
      /\ app' = [table |-> t, id |-> n + 1] /\ apps' = apps + 1 /\ overlap' = (overlap \/ Running # {})
      /\ UNCHANGED <<source, target, proc, lock, imports, runs, harmed>>
  BY DEF NextVal, AppWrites
<1>2. /\ seq \in [Identity -> Nat] /\ apps \in 0..MaxApp /\ MaxApp \in Nat /\ Stored(target)
      /\ ApplicationIntact /\ overlap \in BOOLEAN /\ SequenceSound
  BY BoundsAssumption DEF Sound, Typed, TargetSound
<1>3. {"users", "cuisines"} \subseteq Identity /\ n \in Nat  BY <1>2 DEF Identity
<1>4. seq' \in [Identity -> Nat] /\ apps' \in 0..MaxApp  BY <1>1, <1>2, <1>3
<1>5. app' \in {None} \cup [table : {"users", "cuisines"}, id : Nat]  BY <1>1, <1>3
<1>6. SequenceSound'
  <2> SUFFICES ASSUME ~overlap' PROVE SequenceSound'  BY DEF SequenceSound
  <2>1. ~overlap /\ Running = {}  BY <1>1
  <2>2. \A f \in {"users", "cuisines"} : \A k \in DOMAIN target[f] : k <= seq[f] /\ k \in Nat
    BY <1>2, <1>3, <2>1 DEF SequenceSound, Stored, Numbered
  <2>3. \A f \in {"users", "cuisines"} : seq'[f] \in Nat /\ seq[f] \in Nat /\ seq[f] <= seq'[f]
    BY <1>1, <1>2, <1>3
  <2>4. \A f \in {"users", "cuisines"} : \A k \in DOMAIN target'[f] : k <= seq'[f]
    BY <1>1, <2>2, <2>3
  <2>5. app'.table = t /\ app'.id = n + 1 /\ app'.id <= seq'[t]  BY <1>1, <1>2, <1>3
  <2>6. n + 1 \notin DOMAIN target[t]  BY <1>3, <2>2
  <2>7. Running' = {}  BY <1>1, <2>1 DEF Running
  <2> QED  BY <1>1, <2>4, <2>5, <2>6, <2>7 DEF SequenceSound
<1>7. ApplicationIntact' /\ Stored(target')  BY <1>1, <1>2, IntactStands
<1> QED  BY <1>1, <1>4, <1>5, <1>6, <1>7, AppStep

(* A row of the application meets another only if it was begun while a        *)
(* command ran.                                                               *)
LEMMA InsertStep == ASSUME Sound, NEW t \in {"users", "cuisines"}, NEW row, Insert(t, row) PROVE Sound'
<1> PICK id : id = app.id  OBVIOUS
<1>1. /\ app # None /\ app.table = t /\ app' = None /\ overlap' = (overlap \/ Running # {})
      /\ UNCHANGED <<source, seq, proc, lock, imports, runs, apps>>
  BY DEF Insert
<1>2. /\ seq \in [Identity -> Nat] /\ apps \in 0..MaxApp /\ Stored(target) /\ id \in Nat
      /\ ApplicationIntact /\ overlap \in BOOLEAN /\ SequenceSound
  BY <1>1 DEF Sound, Typed, TargetSound
<1>3. t \in Identity /\ t \in Fields /\ t \notin Content  BY DEF Identity, Fields, Tables, Content
<1>4. CASE Has(target[t], id)
  <2>1. target' = target  BY <1>4 DEF Insert
  <2>2. overlap  BY <1>1, <1>2, <1>4 DEF SequenceSound, Has
  <2>3. SequenceSound' /\ ApplicationIntact'  BY <1>1, <2>2 DEF SequenceSound, ApplicationIntact
  <2> QED  BY <1>1, <1>2, <2>1, <2>2, <2>3, AppStep
<1>5. CASE ~Has(target[t], id)
  <2> DEFINE one == [k \in {id} |-> row]
             table == Over(one, target[t])
  <2>1. target' = [target EXCEPT ![t] = table] /\ harmed' = harmed  BY <1>5 DEF Insert
  <2>2. DOMAIN one = {id}  OBVIOUS
  <2> HIDE DEF one
  <2>3. DOMAIN table = {id} \cup DOMAIN target[t]
    <3>1. DOMAIN Over(one, target[t]) = DOMAIN one \cup DOMAIN target[t]  BY Joined
    <3> QED  BY <2>2, <3>1
  <2>4. Numbered(one)  BY <1>2, <2>2, FS_Singleton DEF Numbered
  <2>5. Numbered(target[t])  BY <1>2, <1>3 DEF Stored
  <2>6. Numbered(table)  BY <2>2, <2>3, <2>4, <2>5, NumberedUnion
  <2> HIDE DEF table
  <2>7. /\ DOMAIN target' = Fields /\ target'[t] = table
        /\ \A f \in Fields \ {t} : target'[f] = target[f]
    BY <1>2, <1>3, <2>1 DEF Stored
  <2>8. Identity \subseteq Fields /\ Content \subseteq Fields \ {t}
    BY DEF Identity, Fields, Tables, Content
  <2>9. Stored(target')  BY <1>2, <2>6, <2>7, <2>8 DEF Stored
  <2>10. \A f \in Content : target'[f] = target[f]  BY <2>7, <2>8
  <2>11. SequenceSound'
    <3> SUFFICES ASSUME ~overlap PROVE SequenceSound'  BY <1>1 DEF SequenceSound
    <3>1. /\ \A f \in {"users", "cuisines"} : \A k \in DOMAIN target[f] : k <= seq[f]
          /\ id <= seq[t]
      BY <1>1, <1>2 DEF SequenceSound
    <3>2. {"users", "cuisines"} \subseteq Fields  BY DEF Fields, Tables
    <3>3. \A f \in {"users", "cuisines"} : \A k \in DOMAIN target'[f] : k <= seq[f]
      BY <2>3, <2>7, <3>1, <3>2
    <3> QED  BY <1>1, <3>3 DEF SequenceSound
  <2>12. ApplicationIntact'  BY <1>1, <1>2, <2>1, IntactStands
  <2> QED  BY <1>1, <1>2, <2>9, <2>10, <2>11, <2>12, AppStep
<1> QED  BY <1>4, <1>5

(* An edited profile leaves every key.                                        *)
LEMMA UpdateProfileStep == ASSUME Sound, NEW u \in DOMAIN target.users, UpdateProfile(u) PROVE Sound'
<1> DEFINE table == [target.users EXCEPT ![u].by = "app"]
<1>1. /\ apps < MaxApp /\ target' = [target EXCEPT !.users = table]
      /\ apps' = apps + 1 /\ overlap' = (overlap \/ Running # {})
      /\ UNCHANGED <<source, seq, proc, lock, app, imports, runs, harmed>>
  BY DEF UpdateProfile, AppWrites
<1>2. /\ seq \in [Identity -> Nat] /\ apps \in 0..MaxApp /\ MaxApp \in Nat /\ Stored(target)
      /\ app \in {None} \cup [table : {"users", "cuisines"}, id : Nat]
      /\ ApplicationIntact /\ overlap \in BOOLEAN /\ SequenceSound
  BY BoundsAssumption DEF Sound, Typed, TargetSound
<1>3. DOMAIN table = DOMAIN target.users  OBVIOUS
<1> HIDE DEF table
<1>4. /\ "users" \in Identity /\ "users" \in Fields /\ Identity \subseteq Fields
      /\ Content \subseteq Fields \ {"users"} /\ {"users", "cuisines"} \subseteq Fields
  BY DEF Identity, Fields, Tables, Content
<1>5. DOMAIN target' = Fields /\ target'.users = table /\ \A f \in Fields \ {"users"} : target'[f] = target[f]
  BY <1>1, <1>2, <1>4 DEF Stored
<1>6. Numbered(table)  BY <1>2, <1>3, <1>4, NumberedPart DEF Stored
<1>7. Stored(target')  BY <1>2, <1>4, <1>5, <1>6 DEF Stored
<1>8. \A f \in Content : target'[f] = target[f]  BY <1>4, <1>5
<1>9. \A f \in {"users", "cuisines"} : DOMAIN target'[f] = DOMAIN target[f]  BY <1>3, <1>4, <1>5
<1>10. SequenceSound'
  <2> SUFFICES ASSUME ~overlap' PROVE SequenceSound'  BY DEF SequenceSound
  <2>1. ~overlap /\ Running' = {}  BY <1>1 DEF Running
  <2>2. app # None => app.table \in {"users", "cuisines"}  BY <1>2
  <2> QED  BY <1>1, <1>2, <1>9, <2>1, <2>2 DEF SequenceSound
<1>11. apps' \in 0..MaxApp /\ ApplicationIntact'  BY <1>1, <1>2, IntactStands
<1> QED  BY <1>1, <1>2, <1>7, <1>8, <1>10, <1>11, AppStep

(* A verification code is in no table of the import.                          *)
LEMMA RequestCodeStep == ASSUME Sound, RequestCode PROVE Sound'
<1> DEFINE codes == target.others \cup {"code"}
<1>1. /\ apps < MaxApp /\ target' = [target EXCEPT !.others = codes]
      /\ apps' = apps + 1 /\ overlap' = (overlap \/ Running # {})
      /\ UNCHANGED <<source, seq, proc, lock, app, imports, runs, harmed>>
  BY DEF RequestCode, AppWrites
<1>2. /\ seq \in [Identity -> Nat] /\ apps \in 0..MaxApp /\ MaxApp \in Nat /\ Stored(target)
      /\ app \in {None} \cup [table : {"users", "cuisines"}, id : Nat]
      /\ ApplicationIntact /\ overlap \in BOOLEAN /\ SequenceSound
  BY BoundsAssumption DEF Sound, Typed, TargetSound
<1> HIDE DEF codes
<1>3. /\ Identity \subseteq Fields \ {"others"} /\ Content \subseteq Fields \ {"others"}
      /\ {"users", "cuisines"} \subseteq Fields \ {"others"}
  BY DEF Identity, Fields, Tables, Content
<1>4. DOMAIN target' = Fields /\ \A f \in Fields \ {"others"} : target'[f] = target[f]
  BY <1>1, <1>2 DEF Stored
<1>5. Stored(target')  BY <1>2, <1>3, <1>4 DEF Stored
<1>6. \A f \in Content : target'[f] = target[f]  BY <1>3, <1>4
<1>7. target'.users = target.users /\ target'.cuisines = target.cuisines  BY <1>3, <1>4
<1>8. SequenceSound'
  <2> SUFFICES ASSUME ~overlap' PROVE SequenceSound'  BY DEF SequenceSound
  <2>1. ~overlap /\ Running' = {}  BY <1>1 DEF Running
  <2>2. app # None => app.table \in {"users", "cuisines"}  BY <1>2
  <2> QED  BY <1>1, <1>2, <1>7, <2>1, <2>2 DEF SequenceSound
<1>9. apps' \in 0..MaxApp /\ ApplicationIntact'  BY <1>1, <1>2, IntactStands
<1> QED  BY <1>1, <1>2, <1>5, <1>6, <1>8, <1>9, AppStep

-----------------------------------------------------------------------------
(* The theorems.                                                              *)

(* Every step keeps what the commands and the target satisfy.                 *)
LEMMA NextSound == ASSUME Sound, [Next]_vars PROVE Sound'
<1>1. ASSUME NEW p \in Proc, Import(p) PROVE Sound'  BY <1>1, PrepareStep DEF Import
<1>2. ASSUME NEW p \in Proc, Verify(p) PROVE Sound'  BY <1>2, PrepareStep DEF Verify
<1>3. ASSUME NEW p \in Proc, Check(p) PROVE Sound'  BY <1>3, CheckStep
<1>4. ASSUME NEW p \in Proc, Compare(p) PROVE Sound'  BY <1>4, CompareStep
<1>5. ASSUME NEW p \in Proc, CompareAndReport(p) PROVE Sound'  BY <1>5, ReportStep
<1>6. ASSUME NEW p \in Proc, Begin(p) PROVE Sound'  BY <1>6, BeginStep
<1>7. ASSUME NEW p \in Proc, Write(p) PROVE Sound'  BY <1>7, WriteStep
<1>8. ASSUME NEW p \in Proc, Advance(p) PROVE Sound'  BY <1>8, AdvanceStep
<1>9. ASSUME NEW p \in Proc, Commit(p) PROVE Sound'  BY <1>9, CommitStep
<1>10. ASSUME NEW p \in Proc, Fail(p) PROVE Sound'  BY <1>10, FailStep
<1>11. ASSUME NEW t \in {"users", "cuisines"}, NextVal(t) PROVE Sound'  BY <1>11, NextValStep
<1>12. CASE Register  BY <1>12, InsertStep DEF Register
<1>13. ASSUME NEW n, CreateCuisine(n) PROVE Sound'  BY <1>13, InsertStep DEF CreateCuisine
<1>14. ASSUME NEW u \in DOMAIN target.users, UpdateProfile(u) PROVE Sound'  BY <1>14, UpdateProfileStep
<1>15. CASE RequestCode  BY <1>15, RequestCodeStep
<1>16. CASE UNCHANGED vars
  <2>1. Typed' /\ Counted' /\ LockSound' /\ SequenceSound'
    BY <1>16 DEF vars, Sound, Typed, Counted, LockSound, SequenceSound, Running, Writing
  <2>2. TargetSound'  BY <1>16, TargetStands DEF vars, Sound
  <2>3. \A p \in Running' : PlanSound(p)'  BY <1>16 DEF vars, Sound, PlanSound, Running
  <2>4. \A p \in Proc : proc'[p].pc \in {"lock", "written", "advanced"} => SnapSound(p)'
    BY <1>16 DEF vars, Sound, SnapSound
  <2>5. \A p \in Writing' : WriteSound(p)'
    <3>1. ASSUME NEW p \in Writing' PROVE WriteSound(p)'
      <4>1. p \in Writing  BY <1>16, <3>1 DEF vars, Writing
      <4>2. CommentKeysHold(writeDataset(target, proc[p].plan))'
        BY <1>16, <4>1 DEF vars, Sound, WriteSound
      <4> QED  BY <1>16, <4>1, <4>2 DEF vars, Sound, WriteSound
    <3> QED  BY <3>1
  <2>6. ApplicationIntact'  BY <1>16, IntactStands DEF vars, Sound
  <2> QED  BY <2>1, <2>2, <2>3, <2>4, <2>5, <2>6 DEF Sound
<1> QED
  BY <1>1, <1>2, <1>3, <1>4, <1>5, <1>6, <1>7, <1>8, <1>9, <1>10,
     <1>11, <1>12, <1>13, <1>14, <1>15, <1>16 DEF Next

(* What the steps of commands and application keep.                           *)
THEOREM AlwaysSound == Spec => []Sound
<1>1. Init => Sound  BY InitSound
<1>2. Sound /\ [Next]_vars => Sound'  BY NextSound
<1> QED  BY <1>1, <1>2, PTL DEF Spec

(* The commands keep what their step needs, a writing one holds the advisory  *)
(* lock and nobody else does, and there are no more imports than runs.        *)
THEOREM TypeCorrect == Spec => []TypeOK
<1>1. ASSUME Sound PROVE TypeOK
  <2>1. /\ Typed /\ Counted /\ DOMAIN proc = Proc /\ \A p \in Proc : IsProc(proc[p])
        /\ Writing = {lock} \ {None}
    BY <1>1, ProcTyped DEF Sound, LockSound
  <2>2. ASSUME NEW p \in Proc
        PROVE  /\ proc[p].pc \in Ended \cup {"check", "compare", "verify", "begin", "lock", "written", "advanced"}
               /\ Has(proc[p], "plan") <=> proc[p].pc \notin Ended
               /\ Has(proc[p], "snap") <=> proc[p].pc \in {"lock", "written", "advanced"}
    <3>1. IsProc(proc[p])  BY <2>1
    <3>2. CASE proc[p].pc \in Ended /\ proc[p] = [pc |-> proc[p].pc]
      <4>1. DOMAIN proc[p] = {"pc"}  BY <3>2
      <4> QED  BY <3>2, <4>1 DEF Has, Ended
    <3>3. CASE proc[p].pc \in Checking \cup {"begin"} /\ proc[p] = [pc |-> proc[p].pc, plan |-> proc[p].plan]
      <4>1. DOMAIN proc[p] = {"pc", "plan"}  BY <3>3
      <4> QED  BY <3>3, <4>1 DEF Has, Ended, Checking
    <3>4. CASE /\ proc[p].pc \in InTx
               /\ proc[p] = [pc |-> proc[p].pc, plan |-> proc[p].plan, snap |-> proc[p].snap]
      <4>1. DOMAIN proc[p] = {"pc", "plan", "snap"}  BY <3>4
      <4> QED  BY <3>4, <4>1 DEF Has, Ended, InTx
    <3> QED  BY <3>1, <3>2, <3>3, <3>4 DEF IsProc
  <2>3. imports \in 0..runs
    <3>1. Cardinality(Running) \in Nat  BY <2>1, RunningFinite
    <3>2. imports \in Nat /\ runs \in Nat /\ imports + Cardinality(Running) <= runs
      BY <2>1, BoundsAssumption DEF Typed, Counted
    <3> QED  BY <3>1, <3>2
  <2> QED  BY <2>1, <2>2, <2>3 DEF TypeOK, Typed
<1> QED  BY <1>1, AlwaysSound, PTL

(* transformComments, findOriginalRoot and inferReplyParent: whatever forest  *)
(* the dump has, an imported reply is in its thread, answers an earlier       *)
(* comment of the post by the user it named, and threads are counted whole.   *)
THEOREM ThreadSafety == Spec => []ThreadsKept
<1>1. Sound => ThreadsKept  BY ThreadsArrive DEF Sound, Typed
<1> QED  BY <1>1, AlwaysSound, PTL

(* Unless the application writes while a command runs, no import leaves a     *)
(* sequence behind its rows or overwrites one, however often imports run,     *)
(* fail or meet, but for a cuisine an administrator created under the name    *)
(* and the identity of a historical one, whose name and identity stay         *)
(* (Import, writeHistoricalDictionaries, advanceIdentitySequences).           *)
THEOREM ApplicationSafety == Spec => []ApplicationIntact
<1>1. Sound => ApplicationIntact  BY DEF Sound
<1> QED  BY <1>1, AlwaysSound, PTL

=============================================================================
