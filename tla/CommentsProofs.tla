--------------------------- MODULE CommentsProofs ---------------------------
(***************************************************************************)
(* Proofs about Comments for any comments and users and any number of      *)
(* concurrent requests: the counters are exact, the state of a comment is  *)
(* the latest verdict on its text, only the creation of a reply can be     *)
(* part of a circle of waiting transactions, and a reader who follows the  *)
(* cursors gets every comment that kept its place exactly once.            *)
(***************************************************************************)
EXTENDS Comments, FiniteSetTheorems, WellFoundedInduction, TLAPS

Status == {"approved", "pending", "deleted"}

(* Operations that lock the comment they rewrite, and the ones that remove it. *)
Writers == {"update", "delete", "adminDelete", "restore", "review"}
Removals == {"delete", "adminDelete"}

TxRow == [pc : {"idle", "body", "count", "commit"}, op : Operation \cup {"idle"},
          by : User \cup {None}, on : Nat \cup {None}, id : Comment \cup {None},
          arg : Verdict \cup Reaction \cup Status \cup {None}, mentions : SUBSET User,
          plan : Seq(Row \X Mode), held : SUBSET (Row \X Mode)]

PostRow == [st : Status, comments : Nat, likes : Nat, favorites : Nat]

Existing == {c \in Comment : Exists(c)}

(* The requests under way; begun counts at least those. *)
Active == {t \in Tx : tx[t].pc # "idle"}

(* The type invariant but for the reader, with the shape of every row.  *)
Typed ==
    /\ comment \in [Comment -> CommentRow]
    /\ record \in [Comment -> Seq(ModerationRecord)]
    /\ post \in PostRow
    /\ reaction \subseteq Reaction
    /\ unread \subseteq Notification
    /\ tx \in [Tx -> TxRow]
    /\ begun \in 0 .. MaxRequests
    /\ IsFiniteSet(Active) /\ Cardinality(Active) <= begun
    /\ IsFiniteSet(Existing) /\ IsFiniteSet(reaction)

(* A comment has one record for each revision, shows the latest, and answers *)
(* a root that exists.                                                       *)
RowSound(c) ==
    /\ ~Exists(c) => comment[c] = NoComment /\ record[c] = <<>>
    /\ Exists(c) => /\ comment[c].rev = Len(record[c]) /\ comment[c].rev \in 1 .. MaxRev
                    /\ comment[c].mod = record[c][comment[c].rev].last
                    /\ comment[c].mod = "block" <=> comment[c].deleted = "moderation"
    /\ comment[c].root # None =>
          Exists(comment[c].root) /\ comment[comment[c].root].root = None

(* A request keeps what it was made about. *)
ArgSound(t) ==
    LET q == tx[t] IN
    /\ q.op = "create" => /\ q.id \in Comment /\ ~Exists(q.id) /\ q.arg \in Verdict /\ q.by \in User
                          /\ q.on \in Comment \cup {None}
                          /\ q.on # None => Exists(q.on)
    /\ q.op \in Writers => q.id \in Comment /\ Exists(q.id) /\ q.by \in User
    /\ q.op = "update" => q.arg \in Verdict
    /\ q.op = "review" => q.on \in DOMAIN record[q.id] /\ q.arg \in {"pass", "block"}
    /\ q.op \in {"react", "unreact"} =>
          q.arg \in Reaction /\ (q.arg.on \in Comment => Exists(q.arg.on))
    /\ q.op = "writePost" => q.arg \in Status
    /\ q.op \notin Writers \cup {"create"} => q.id = None

(* A new id is drawn once. *)
Drawn ==
    \A t \in Tx : \A w \in Tx \ {t} :
        tx[t].op = "create" /\ tx[w].op = "create" => tx[t].id # tx[w].id

Exclusive ==
    \A t \in Tx : \A w \in Tx \ {t} : \A h \in tx[t].held : ~HeldAgainst(w, h)

(* The operations take their locks in the order reply, root, post.  Only a  *)
(* reply that is being created may wait for the rest with a lock in hand.   *)
LockSound(t) ==
    LET q == tx[t] IN
    /\ q.pc = "idle" => q.op = "idle" /\ q.plan = <<>> /\ q.held = {}
    /\ q.pc = "count" => q.op \in Writers
    /\ q.pc = "body" /\ q.op \in Writers => q.held = {} /\ q.plan = LockByID(q.id)
    /\ q.pc = "count" =>
          /\ comment[q.id].root # None
          /\ q.held = {<<q.id, "update">>}
          /\ q.plan = <<<<comment[q.id].root, "noKeyUpdate">>>>
    /\ q.pc = "commit" /\ q.op \in Writers =>
          /\ <<q.id, "update">> \in q.held
          /\ q.held \subseteq {<<q.id, "update">>, <<comment[q.id].root, "noKeyUpdate">>}
          /\ q.plan \in {<<>>, <<<<Post, "noKeyUpdate">>>>}
    /\ q.op \notin Writers /\ ~(q.op = "create" /\ q.on # None) =>
          Len(q.plan) < 2 /\ (q.held = {} \/ q.plan = <<>>)
    /\ q.pc = "body" /\ q.op \in {"react", "unreact"} => q.held = {} /\ q.plan = <<>>

(* What was decided in the body stands while the comment is locked. *)
DecisionSound(t) ==
    tx[t].pc \in {"count", "commit"} =>
        /\ tx[t].op \in Removals => comment[tx[t].id].deleted = "no"
        /\ tx[t].op = "update" => Len(record[tx[t].id]) < MaxRev

(* The reader has seen, of what kept its place, exactly what is up to its   *)
(* cursor.                                                                  *)
WalkSound ==
    /\ page \in Walk
    /\ page.again = {} /\ page.missed = {}
    /\ page.pc = "idle" => page = NoWalk
    /\ page.kept \subseteq visibleCommentQuery(comment, Reader, page.floor)
    /\ page.after = None => page.seen = {}
    /\ page.after # None =>
          /\ page.after.scope = page.sort
          /\ \A c \in page.kept :
                c \in page.seen <=> ~Precedes(page.after, Key(comment, page.sort, c))

(* The inductive invariant. *)
Sound ==
    /\ Typed
    /\ \A c \in Comment : RowSound(c)
    /\ CountsExact
    /\ \A t \in Tx : ArgSound(t) /\ LockSound(t) /\ DecisionSound(t)
    /\ Drawn /\ Exclusive
    /\ WalkSound

-----------------------------------------------------------------------------
(* What a plan of locks is made of. *)
LEMMA PlanRange ==
  /\ Range(<<>>) = {} /\ Len(<<>>) = 0
  /\ \A a : Range(<<a>>) = {a} /\ Len(<<a>>) = 1 /\ <<a>> # <<>>
<1>1. Range(<<>>) = {} /\ Len(<<>>) = 0  BY DEF Range
<1>2. ASSUME NEW a PROVE Range(<<a>>) = {a} /\ Len(<<a>>) = 1 /\ <<a>> # <<>>  BY DEF Range
<1> QED  BY <1>1, <1>2

LEMMA PlanType ==
  ASSUME NEW q \in Seq(Row \X Mode)
  PROVE  Range(q) \subseteq Row \X Mode
  BY DEF Range

(* The rows and modes of the locks. *)
LEMMA LockType ==
  /\ \A r \in Row : /\ <<r, "update">> \in Row \X Mode /\ <<r, "noKeyUpdate">> \in Row \X Mode
                    /\ <<r, "keyShare">> \in Row \X Mode
                    /\ LockByID(r) \in Seq(Row \X Mode)
                    /\ <<<<r, "noKeyUpdate">>>> \in Seq(Row \X Mode)
                    /\ <<<<r, "keyShare">>>> \in Seq(Row \X Mode)
                    /\ <<<<r, "update">>>> \in Seq(Row \X Mode)
  /\ <<>> \in Seq(Row \X Mode) /\ Post \in Row /\ Comment \subseteq Row
<1>1. ASSUME NEW r \in Row
      PROVE  /\ <<r, "update">> \in Row \X Mode /\ <<r, "noKeyUpdate">> \in Row \X Mode
             /\ <<r, "keyShare">> \in Row \X Mode
  BY DEF Mode
<1>2. ASSUME NEW k \in Row \X Mode PROVE <<k>> \in Seq(Row \X Mode)  OBVIOUS
<1>3. <<>> \in Seq(Row \X Mode) /\ Post \in Row /\ Comment \subseteq Row  BY DEF Row
<1> QED  BY <1>1, <1>2, <1>3 DEF LockByID

(* A row that is locked for update is locked against everybody. *)
LEMMA UpdateConflicts ==
  ASSUME NEW w \in Tx, NEW r, NEW m, <<r, m>> \in tx[w].held
  PROVE  HeldAgainst(w, <<r, "update">>) /\ (m = "update" => \A n : HeldAgainst(w, <<r, n>>))
<1>1. ASSUME NEW n, "update" \in {m, n} PROVE HeldAgainst(w, <<r, n>>)
  <2>1. <<r, m>>[1] = <<r, n>>[1] /\ Conflicts(<<r, m>>[2], <<r, n>>[2])
    BY <1>1 DEF Conflicts
  <2> QED  BY <2>1 DEF HeldAgainst
<1> QED  BY <1>1

(* The empty rows have their types. *)
LEMMA EmptyRows ==
  /\ NoComment \in CommentRow /\ NoComment.author = None /\ NoComment.root = None
  /\ Idle \in TxRow /\ Idle.op = "idle" /\ Idle.pc = "idle" /\ Idle.held = {} /\ Idle.plan = <<>>
  /\ Idle.id = None
  /\ NoWalk \in Walk
<1>1. NoComment \in CommentRow  BY BoundAssumption DEF NoComment, CommentRow, Verdict
<1>2. Idle \in TxRow  BY LockType DEF Idle, TxRow
<1>3. NoWalk \in Walk  BY DEF NoWalk, Walk, Scope
<1> QED  BY <1>1, <1>2, <1>3 DEF Idle, NoComment

LEMMA RowType ==
  ASSUME Sound, NEW t \in Tx
  PROVE  /\ tx[t] \in TxRow /\ tx[t].plan \in Seq(Row \X Mode) /\ tx[t].held \subseteq Row \X Mode
         /\ Range(tx[t].plan) \subseteq Row \X Mode /\ Got(t) \subseteq Row \X Mode
         /\ ArgSound(t) /\ LockSound(t) /\ DecisionSound(t)
<1>1. tx[t] \in TxRow /\ tx[t].plan \in Seq(Row \X Mode) /\ tx[t].held \subseteq Row \X Mode
  BY DEF Sound, Typed, TxRow
<1>2. Range(tx[t].plan) \subseteq Row \X Mode  BY <1>1, PlanType
<1>3. Got(t) \subseteq Row \X Mode  BY <1>1, <1>2 DEF Got
<1> QED  BY <1>1, <1>2, <1>3 DEF Sound

-----------------------------------------------------------------------------
(* begun counts the requests under way. *)
LEMMA BeginCounts ==
  ASSUME Typed, NEW t \in Tx, begun < MaxRequests, begun' = begun + 1,
         Active' \subseteq Active \cup {t}
  PROVE  begun' \in 0 .. MaxRequests /\ IsFiniteSet(Active') /\ Cardinality(Active)' <= begun'
<1>1. IsFiniteSet(Active) /\ Cardinality(Active) \in Nat  BY FS_CardinalityType DEF Typed
<1>2. /\ IsFiniteSet(Active \cup {t})
      /\ \/ Cardinality(Active \cup {t}) = Cardinality(Active)
         \/ Cardinality(Active \cup {t}) = Cardinality(Active) + 1
  BY <1>1, FS_AddElement
<1>3. IsFiniteSet(Active') /\ Cardinality(Active') <= Cardinality(Active \cup {t})
  BY <1>2, FS_Subset
<1>4. Cardinality(Active') \in Nat  BY <1>3, FS_CardinalityType
<1>5. Cardinality(Active') <= Cardinality(Active) + 1  BY <1>1, <1>2, <1>3, <1>4
<1>6. begun \in 0 .. MaxRequests /\ Cardinality(Active) <= begun  BY DEF Typed
<1> QED  BY <1>1, <1>3, <1>4, <1>5, <1>6, BoundAssumption

LEMMA EndCounts ==
  ASSUME Typed, NEW t \in Active, begun' \in {begun, begun - 1}, Active' \subseteq Active \ {t}
  PROVE  begun' \in 0 .. MaxRequests /\ IsFiniteSet(Active') /\ Cardinality(Active)' <= begun'
<1>1. IsFiniteSet(Active) /\ Cardinality(Active) \in Nat  BY FS_CardinalityType DEF Typed
<1>2. IsFiniteSet(Active \ {t}) /\ Cardinality(Active \ {t}) = Cardinality(Active) - 1
  BY <1>1, FS_RemoveElement
<1>3. IsFiniteSet(Active') /\ Cardinality(Active') <= Cardinality(Active) - 1  BY <1>2, FS_Subset
<1>4. Cardinality(Active') \in Nat  BY <1>3, FS_CardinalityType
<1>5. begun \in 0 .. MaxRequests /\ Cardinality(Active) <= begun  BY DEF Typed
<1> QED  BY <1>1, <1>3, <1>4, <1>5, BoundAssumption

-----------------------------------------------------------------------------
(* The counters of tables that nobody writes. *)
LEMMA CountsStand ==
  ASSUME CountsExact, UNCHANGED <<comment, post, reaction>>
  PROVE  CountsExact'
<1>1. comment' = comment /\ post' = post /\ reaction' = reaction  OBVIOUS
<1>2. \A c : RootOf(c)' = RootOf(c)  BY <1>1 DEF RootOf
<1>3. {c \in Comment : Public(comment'[c]) /\ Public(comment'[RootOf(c)'])}
         = {c \in Comment : Public(comment[c]) /\ Public(comment[RootOf(c)])}
  BY <1>1, <1>2
<1>4. post'.comments = Cardinality({c \in Comment : Public(comment'[c]) /\ Public(comment'[RootOf(c)'])})
  BY <1>1, <1>3 DEF CountsExact
<1>5. \A c \in Comment :
         /\ comment'[c].replies = Cardinality({d \in Comment : Public(comment'[d]) /\ comment'[d].root = c})
         /\ comment'[c].likes = Cardinality({x \in reaction' : x.on = c})
  BY <1>1 DEF CountsExact
<1>6. /\ post'.likes = Cardinality({x \in reaction' : x.on = Post /\ x.kind = "like"})
      /\ post'.favorites = Cardinality({x \in reaction' : x.kind = "favorite"})
  BY <1>1 DEF CountsExact
<1> QED  BY <1>4, <1>5, <1>6 DEF CountsExact

(* A step of one request that changes no table. *)
LEMMA RequestStep ==
  ASSUME Sound, NEW t \in Tx, tx' \in [Tx -> TxRow],
         \A w \in Tx \ {t} : tx'[w] = tx[w],
         \A w \in Tx \ {t} : \A h \in tx'[t].held : ~HeldAgainst(w, h),
         UNCHANGED <<comment, record, post, reaction, unread, page>>,
         begun' \in 0 .. MaxRequests, IsFiniteSet(Active'), Cardinality(Active)' <= begun',
         \A w \in Tx \ {t} : tx'[t].op = "create" /\ tx[w].op = "create" => tx'[t].id # tx[w].id,
         ArgSound(t)', LockSound(t)', DecisionSound(t)'
  PROVE  Sound'
<1>1. Typed'
  <2>1. Existing' = Existing  BY DEF Existing, Exists
  <2> QED  BY <2>1 DEF Sound, Typed
<1>2. Exclusive'
  <2> SUFFICES ASSUME NEW v \in Tx, NEW w \in Tx \ {v}, NEW h \in tx'[v].held PROVE ~HeldAgainst(w, h)'
    BY DEF Exclusive
  <2>1. CASE v = t  BY <2>1 DEF HeldAgainst
  <2>2. CASE v # t /\ w # t  BY <2>2 DEF Sound, Exclusive, HeldAgainst
  <2>3. CASE w = t
    <3>1. tx'[v] = tx[v] /\ v \in Tx \ {t}  BY <2>3
    <3>2. ASSUME NEW g \in tx'[t].held PROVE ~(g[1] = h[1] /\ Conflicts(g[2], h[2]))
      <4>1. ~HeldAgainst(v, g)  BY <3>1
      <4> QED  BY <3>1, <4>1 DEF HeldAgainst, Conflicts
    <3> QED  BY <2>3, <3>2 DEF HeldAgainst
  <2> QED  BY <2>1, <2>2, <2>3
<1>3. ASSUME NEW w \in Tx PROVE (ArgSound(w) /\ LockSound(w) /\ DecisionSound(w))'
  <2>1. CASE w = t  BY <2>1
  <2>2. CASE w # t
    <3>1. ArgSound(w) /\ LockSound(w) /\ DecisionSound(w)  BY DEF Sound
    <3>2. tx'[w] = tx[w]  BY <2>2
    <3>3. ArgSound(w)'  BY <3>1, <3>2 DEF ArgSound, Exists
    <3>4. LockSound(w)'  BY <3>1, <3>2 DEF LockSound
    <3>5. DecisionSound(w)'  BY <3>1, <3>2 DEF DecisionSound
    <3> QED  BY <3>3, <3>4, <3>5
  <2> QED  BY <2>1, <2>2
<1>4. \A c \in Comment : RowSound(c)'  BY DEF Sound, RowSound, Exists
<1>5. CountsExact'  BY CountsStand DEF Sound
<1>6. WalkSound'  BY DEF Sound, WalkSound
<1>7. Drawn'
  <2> SUFFICES ASSUME NEW v \in Tx, NEW w \in Tx \ {v}, tx'[v].op = "create", tx'[w].op = "create"
               PROVE  tx'[v].id # tx'[w].id
    BY DEF Drawn
  <2>1. CASE v = t  BY <2>1
  <2>2. CASE w = t  BY <2>2
  <2>3. CASE v # t /\ w # t  BY <2>3 DEF Sound, Drawn
  <2> QED  BY <2>1, <2>2, <2>3
<1> QED  BY <1>1, <1>2, <1>3, <1>4, <1>5, <1>6, <1>7 DEF Sound

-----------------------------------------------------------------------------
(* The parts of a request that runs: its locks and its decisions. *)

(* The row of a request that has all the locks of its plan and moves on. *)
LEMMA GotoRow ==
  ASSUME Sound, NEW t \in Tx, Ready(t), tx[t].pc # "idle", NEW pc \in {"count", "commit"},
         NEW plan \in Seq(Row \X Mode), Goto(t, pc, plan)
  PROVE  /\ tx' \in [Tx -> TxRow] /\ \A w \in Tx \ {t} : tx'[w] = tx[w]
         /\ tx'[t].op = tx[t].op /\ tx'[t].id = tx[t].id /\ tx'[t].on = tx[t].on
         /\ tx'[t].arg = tx[t].arg /\ tx'[t].by = tx[t].by
         /\ tx'[t].pc = pc /\ tx'[t].held = Got(t) /\ tx'[t].plan = plan
         /\ LockSound(t)' /\ DecisionSound(t)' => Sound'
<1>0. /\ tx[t] \in TxRow /\ Got(t) \subseteq Row \X Mode /\ tx \in [Tx -> TxRow] /\ ArgSound(t)
      /\ Typed
  BY RowType DEF Sound, Typed
<1> DEFINE q == [tx[t] EXCEPT !.pc = pc, !.held = Got(t), !.plan = plan]
<1>1. tx' = [tx EXCEPT ![t] = q]  BY <1>0 DEF Goto
<1>2. /\ q \in TxRow /\ q.op = tx[t].op /\ q.id = tx[t].id /\ q.on = tx[t].on /\ q.arg = tx[t].arg
      /\ q.by = tx[t].by /\ q.pc = pc /\ q.held = Got(t) /\ q.plan = plan
  BY <1>0, ZenonT(60) DEF TxRow
<1> HIDE DEF q
<1>3. tx' \in [Tx -> TxRow] /\ tx'[t] = q /\ \A w \in Tx \ {t} : tx'[w] = tx[w]
  BY <1>0, <1>1, <1>2
<1>4. /\ UNCHANGED <<comment, record, post, reaction, unread, page>> /\ begun' = begun
  BY DEF Goto
<1>5. ASSUME NEW w \in Tx \ {t}, NEW h \in tx'[t].held PROVE ~HeldAgainst(w, h)
  <2>1. h \in tx[t].held \/ h \in Range(tx[t].plan)  BY <1>2, <1>3 DEF Got
  <2>2. CASE h \in tx[t].held  BY <2>2 DEF Sound, Exclusive
  <2>3. CASE h \in Range(tx[t].plan)  BY <2>3 DEF Ready, Blocked
  <2> QED  BY <2>1, <2>2, <2>3
<1>6. Active' = Active  BY <1>2, <1>3 DEF Active
<1>7. begun' \in 0 .. MaxRequests /\ IsFiniteSet(Active') /\ Cardinality(Active)' <= begun'
  BY <1>0, <1>4, <1>6 DEF Typed
<1>8. \A w \in Tx \ {t} : tx'[t].op = "create" /\ tx[w].op = "create" => tx'[t].id # tx[w].id
  <2>1. \A w \in Tx \ {t} : tx[t].op = "create" /\ tx[w].op = "create" => tx[t].id # tx[w].id
    BY Zenon DEF Sound, Drawn
  <2>2. tx'[t].op = tx[t].op /\ tx'[t].id = tx[t].id  BY <1>2, <1>3
  <2> QED  BY <2>1, <2>2, Zenon
<1>9. ArgSound(t)'  BY <1>0, <1>2, <1>3, <1>4 DEF ArgSound, Exists
<1>10. ASSUME LockSound(t)', DecisionSound(t)' PROVE Sound'
  BY <1>3, <1>4, <1>5, <1>7, <1>8, <1>9, <1>10, RequestStep
<1> QED  BY <1>2, <1>3, <1>10

LEMMA LockSteps == ASSUME Sound, NEW t \in Tx, Lock(t) PROVE Sound'
<1>0. /\ tx[t] \in TxRow /\ tx[t].plan \in Seq(Row \X Mode) /\ tx[t].held \subseteq Row \X Mode
      /\ tx \in [Tx -> TxRow] /\ ArgSound(t) /\ LockSound(t) /\ Typed
  BY RowType DEF Sound, Typed
<1>1. Len(tx[t].plan) > 1 /\ ~Blocked(t, Head(tx[t].plan))  BY DEF Lock, CanLock
<1>2. Head(tx[t].plan) \in Row \X Mode /\ Tail(tx[t].plan) \in Seq(Row \X Mode)  BY <1>0, <1>1
<1>3. tx[t].op = "create" /\ tx[t].on # None
  <2>1. tx[t].pc \in {"idle", "body", "count", "commit"}  BY <1>0 DEF TxRow
  <2>2. Len(tx[t].plan) # 0 /\ Len(tx[t].plan) # 1 /\ ~(Len(tx[t].plan) < 2)
    <3>1. Len(tx[t].plan) \in Nat  BY <1>0
    <3>2. \A n \in Nat : n > 1 => n # 0 /\ n # 1 /\ ~(n < 2)  OBVIOUS
    <3> QED  BY <1>1, <3>1, <3>2
  <2>3. tx[t].op \notin Writers
    <3> SUFFICES ASSUME tx[t].op \in Writers PROVE FALSE  OBVIOUS
    <3>2. tx[t].plan # <<>> /\ \A a : tx[t].plan # <<a>>
      <4>1. tx[t].plan # <<>>  BY <2>2, PlanRange
      <4>2. ASSUME NEW a PROVE tx[t].plan # <<a>>  BY <2>2, PlanRange
      <4> QED  BY <4>1, <4>2
    <3>1. tx[t].pc # "idle"  BY <1>0, <3>2 DEF LockSound
    <3>3. CASE tx[t].pc = "body"  BY <1>0, <3>2, <3>3 DEF LockSound, LockByID
    <3>4. CASE tx[t].pc = "count"  BY <1>0, <3>2, <3>4 DEF LockSound
    <3>5. CASE tx[t].pc = "commit"  BY <1>0, <3>2, <3>5 DEF LockSound
    <3> QED  BY <2>1, <3>1, <3>3, <3>4, <3>5
  <2> QED  BY <1>0, <2>2, <2>3 DEF LockSound
<1> DEFINE q == [tx[t] EXCEPT !.held = tx[t].held \cup {Head(tx[t].plan)}, !.plan = Tail(tx[t].plan)]
<1>4. tx' = [tx EXCEPT ![t] = q]  BY <1>0 DEF Lock, Locked
<1>5. /\ q \in TxRow /\ q.op = tx[t].op /\ q.id = tx[t].id /\ q.on = tx[t].on /\ q.arg = tx[t].arg
      /\ q.by = tx[t].by /\ q.pc = tx[t].pc /\ q.held = tx[t].held \cup {Head(tx[t].plan)}
  BY <1>0, <1>2 DEF TxRow
<1> HIDE DEF q
<1>6. tx' \in [Tx -> TxRow] /\ tx'[t] = q /\ \A w \in Tx \ {t} : tx'[w] = tx[w]
  BY <1>0, <1>4, <1>5
<1>7. /\ UNCHANGED <<comment, record, post, reaction, unread, page>> /\ begun' = begun
  BY DEF Lock
<1>8. ASSUME NEW w \in Tx \ {t}, NEW h \in tx'[t].held PROVE ~HeldAgainst(w, h)
  <2>1. CASE h \in tx[t].held  BY <2>1 DEF Sound, Exclusive
  <2>2. CASE h = Head(tx[t].plan)  BY <1>1, <2>2 DEF Blocked
  <2> QED  BY <1>5, <1>6, <2>1, <2>2
<1>9. Active' = Active  BY <1>5, <1>6 DEF Active
<1>10. begun' \in 0 .. MaxRequests /\ IsFiniteSet(Active') /\ Cardinality(Active)' <= begun'
  BY <1>0, <1>7, <1>9 DEF Typed
<1>11. \A w \in Tx \ {t} : tx'[t].op = "create" /\ tx[w].op = "create" => tx'[t].id # tx[w].id
  BY <1>5, <1>6 DEF Sound, Drawn
<1>12. ArgSound(t)'  BY <1>0, <1>5, <1>6, <1>7 DEF ArgSound, Exists
<1>13. LockSound(t)'
  <2>1. tx[t].pc # "idle" /\ tx[t].pc # "count"  BY <1>0, <1>3 DEF LockSound, Writers
  <2> QED  BY <1>3, <1>5, <1>6, <2>1 DEF LockSound, Writers
<1>14. DecisionSound(t)'  BY <1>3, <1>5, <1>6 DEF DecisionSound, Removals
<1> QED  BY <1>6, <1>7, <1>8, <1>10, <1>11, <1>12, <1>13, <1>14, RequestStep

(* The decision of a request that rewrites its comment. *)
LEMMA DecidedStep ==
  ASSUME Sound, NEW t \in Tx, tx[t].pc = "body", tx[t].op \in Writers, Ready(t), NEW new,
         new.root = comment[tx[t].id].root, Decided(t, tx[t].id, new),
         tx[t].op \in Removals => comment[tx[t].id].deleted = "no",
         tx[t].op = "update" => Len(record[tx[t].id]) < MaxRev
  PROVE  Sound'
<1> DEFINE c == tx[t].id
           pc == IF delta(comment[c], new) # 0 /\ new.root # None THEN "count" ELSE "commit"
           plan == CountLocks(c, new)
<1>1. /\ LockSound(t) /\ ArgSound(t) /\ c \in Comment /\ comment[c] \in CommentRow
      /\ new.root \in Comment \cup {None}
  BY RowType DEF Sound, Typed, ArgSound, CommentRow
<1>2. Got(t) = {<<c, "update">>}  BY <1>1, PlanRange DEF LockSound, Got, LockByID
<1>3. plan \in {<<>>, <<<<Post, "noKeyUpdate">>>>, <<<<new.root, "noKeyUpdate">>>>}
      /\ (pc = "count" => plan = <<<<new.root, "noKeyUpdate">>>> /\ new.root # None)
      /\ (pc = "commit" => plan \in {<<>>, <<<<Post, "noKeyUpdate">>>>})
  <2>1. CASE delta(comment[c], new) = 0  BY <2>1 DEF CountLocks
  <2>2. CASE delta(comment[c], new) # 0 /\ new.root = None  BY <2>2 DEF CountLocks
  <2>3. CASE delta(comment[c], new) # 0 /\ new.root # None  BY <2>3 DEF CountLocks
  <2> QED  BY <2>1, <2>2, <2>3
<1>4. plan \in Seq(Row \X Mode)
  <2>1. CASE pc = "count"
    <3>1. new.root \in Row  BY <1>1, <1>3, <2>1, LockType
    <3> QED  BY <1>3, <2>1, <3>1, LockType
  <2>2. CASE pc = "commit"  BY <1>3, <2>2, LockType
  <2> QED  BY <2>1, <2>2
<1>5. Goto(t, pc, plan) /\ pc \in {"count", "commit"}  BY DEF Decided
<1> HIDE DEF pc, plan
<1>6. /\ tx'[t].op = tx[t].op /\ tx'[t].id = c /\ tx'[t].on = tx[t].on
      /\ tx'[t].pc = pc /\ tx'[t].held = Got(t) /\ tx'[t].plan = plan
      /\ LockSound(t)' /\ DecisionSound(t)' => Sound'
  BY <1>4, <1>5, GotoRow
<1>7. comment' = comment /\ record' = record  BY <1>5 DEF Goto
<1>8. LockSound(t)'
  BY <1>2, <1>3, <1>5, <1>6, <1>7 DEF LockSound, Writers
<1>9. DecisionSound(t)'  BY <1>6, <1>7 DEF DecisionSound
<1> QED  BY <1>6, <1>8, <1>9

LEMMA CountStep == ASSUME Sound, NEW t \in Tx, Count(t) PROVE Sound'
<1> DEFINE r == comment[tx[t].id].root
           plan == IF r # None /\ ~Public(comment[r]) THEN <<>> ELSE <<<<Post, "noKeyUpdate">>>>
<1>1. LockSound(t) /\ ArgSound(t) /\ DecisionSound(t) /\ tx[t].op \in Writers /\ tx[t].pc = "count"
  BY RowType DEF Count, LockSound
<1>2. Got(t) = {<<tx[t].id, "update">>, <<r, "noKeyUpdate">>}
  <2>1. tx[t].held = {<<tx[t].id, "update">>} /\ tx[t].plan = <<<<r, "noKeyUpdate">>>>
    BY <1>1 DEF LockSound
  <2>2. Range(tx[t].plan) = {<<r, "noKeyUpdate">>}  BY <2>1, PlanRange
  <2> QED  BY <2>1, <2>2 DEF Got
<1>3. plan \in Seq(Row \X Mode) /\ plan \in {<<>>, <<<<Post, "noKeyUpdate">>>>}  BY LockType
<1>4. Goto(t, "commit", plan) /\ Ready(t)  BY DEF Count
<1> HIDE DEF plan
<1>5. /\ tx'[t].op = tx[t].op /\ tx'[t].id = tx[t].id /\ tx'[t].on = tx[t].on
      /\ tx'[t].pc = "commit" /\ tx'[t].held = Got(t) /\ tx'[t].plan = plan
      /\ LockSound(t)' /\ DecisionSound(t)' => Sound'
  BY <1>1, <1>3, <1>4, GotoRow
<1>6. comment' = comment /\ record' = record  BY <1>4 DEF Goto
<1>7. LockSound(t)'  BY <1>1, <1>2, <1>3, <1>5, <1>6 DEF LockSound, Writers
<1>8. DecisionSound(t)'  BY <1>1, <1>5, <1>6 DEF DecisionSound
<1> QED  BY <1>5, <1>7, <1>8

LEMMA RollbackStep == ASSUME Sound, NEW t \in Tx, Rollback(t) PROVE Sound'
<1>0. Typed  BY DEF Sound
<1>1. tx' \in [Tx -> TxRow] /\ tx'[t] = Idle /\ \A w \in Tx \ {t} : tx'[w] = tx[w]
  BY <1>0, EmptyRows DEF Typed, Rollback
<1>2. UNCHANGED <<comment, record, post, reaction, unread, page>> /\ begun' = begun - 1
  BY DEF Rollback
<1>3. t \in Active /\ Active' \subseteq Active \ {t}  BY <1>1, EmptyRows DEF Active, Rollback
<1>4. begun' \in 0 .. MaxRequests /\ IsFiniteSet(Active') /\ Cardinality(Active)' <= begun'
  BY <1>0, <1>2, <1>3, EndCounts
<1>5. ArgSound(t)' /\ LockSound(t)' /\ DecisionSound(t)'
  BY <1>1, EmptyRows, PlanRange DEF ArgSound, LockSound, DecisionSound, Writers, Removals
<1> QED  BY <1>1, <1>2, <1>4, <1>5, EmptyRows, RequestStep

-----------------------------------------------------------------------------
(* A request begins. *)
LEMMA BeginStep ==
  ASSUME Sound, NEW t \in Tx, NEW q \in TxRow, Begin(t, q),
         q.pc = "body", q.held = {},
         q.op # "idle" /\ (q.op \notin Writers \cup {"create"} => q.id = None),
         q.op = "create" => /\ q.id \in Fresh /\ q.arg \in Verdict /\ q.by \in User
                            /\ q.on \in Comment \cup {None} /\ (q.on # None => Exists(q.on))
                            /\ q.on = None => Len(q.plan) < 2,
         q.op \in Writers => /\ q.id \in Comment /\ Exists(q.id) /\ q.by \in User
                             /\ q.plan = LockByID(q.id),
         q.op = "update" => q.arg \in Verdict,
         q.op = "review" => q.on \in DOMAIN record[q.id] /\ q.arg \in {"pass", "block"},
         q.op \in {"react", "unreact"} =>
            q.arg \in Reaction /\ (q.arg.on \in Comment => Exists(q.arg.on)) /\ q.plan = <<>>,
         q.op = "writePost" => q.arg \in Status /\ Len(q.plan) < 2
  PROVE  Sound'
<1>0. Typed  BY DEF Sound
<1>1. tx' \in [Tx -> TxRow] /\ tx'[t] = q /\ \A w \in Tx \ {t} : tx'[w] = tx[w]
  BY <1>0 DEF Typed, Begin
<1>2. UNCHANGED <<comment, record, post, reaction, unread, page>>  BY DEF Begin
<1>3. Active' \subseteq Active \cup {t}  BY <1>1 DEF Active
<1>4. begun' \in 0 .. MaxRequests /\ IsFiniteSet(Active') /\ Cardinality(Active)' <= begun'
  BY <1>0, <1>3, BeginCounts DEF Begin
<1>5. q.op = "create" => q.id \in Comment /\ ~Exists(q.id) /\ \A w \in Tx : tx[w].id # q.id
  BY DEF Fresh
<1>6. ArgSound(t)'  BY <1>1, <1>2, <1>5 DEF ArgSound, Exists
<1>7. q.op \in Operation  BY DEF TxRow
<1>8. LockSound(t)'
  <2>1. q.op \notin Writers /\ ~(q.op = "create" /\ q.on # None) => Len(q.plan) < 2
    <3>1. q.op \in {"create", "react", "unreact", "writePost"} \/ q.op \in Writers
      BY <1>7 DEF Operation, Writers
    <3>2. q.plan = <<>> => Len(q.plan) < 2  BY PlanRange
    <3> QED  BY <3>1, <3>2
  <2> QED  BY <1>1, <2>1 DEF LockSound
<1>9. DecisionSound(t)'  BY <1>1 DEF DecisionSound
<1> QED  BY <1>1, <1>2, <1>4, <1>5, <1>6, <1>8, <1>9, RequestStep

LEMMA WritesStep ==
  ASSUME Sound, NEW t \in Tx, NEW op \in Writers, NEW c \in Comment, Exists(c),
         NEW on \in Nat \cup {None}, NEW arg \in Verdict \cup {None}, NEW m \in SUBSET User,
         Writes(t, op, c, on, arg, m),
         op = "update" => arg \in Verdict,
         op = "review" => on \in DOMAIN record[c] /\ arg \in {"pass", "block"}
  PROVE  Sound'
<1> DEFINE q == Wanted(op, comment[c].author, on, c, arg, m, LockByID(c))
<1>1. comment[c].author \in User  BY DEF Sound, Typed, CommentRow, Exists
<1>2. LockByID(c) \in Seq(Row \X Mode)  BY LockType
<1>3. op \in Operation /\ op \in Writers /\ op \notin {"idle", "create", "react", "unreact", "writePost"}
  BY DEF Operation, Writers
<1>4. /\ q \in TxRow /\ q.pc = "body" /\ q.held = {} /\ q.op = op /\ q.by = comment[c].author
      /\ q.on = on /\ q.id = c /\ q.arg = arg /\ q.plan = LockByID(c)
  <2>1. c \in Comment \cup {None} /\ arg \in Verdict \cup Reaction \cup Status \cup {None}  OBVIOUS
  <2> QED  BY <1>1, <1>2, <1>3, <2>1, SMTT(20) DEF Wanted, TxRow
<1>5. Begin(t, q)  BY DEF Writes
<1> HIDE DEF q
<1> QED  BY <1>1, <1>3, <1>4, <1>5, BeginStep

LEMMA RequestSteps == ASSUME Sound, NEW t \in Tx, Request(t) PROVE Sound'
<1>1. ASSUME BeginCreate(t) PROVE Sound'
  <2>1. PICK u \in User, on \in {c \in Comment : Exists(c)} \cup {None}, v \in Verdict, c \in Fresh :
           Begin(t, Wanted("create", u, on, c, v, User,
                           LockByID(Post) \o (IF on = None THEN <<>> ELSE LockByID(on))))
    BY <1>1 DEF BeginCreate
  <2> DEFINE plan == LockByID(Post) \o (IF on = None THEN <<>> ELSE LockByID(on))
             q == Wanted("create", u, on, c, v, User, plan)
  <2>2. plan \in Seq(Row \X Mode) /\ (on = None => Len(plan) < 2)
    <3>1. LockByID(Post) \in Seq(Row \X Mode) /\ <<>> \in Seq(Row \X Mode)  BY LockType
    <3>2. on # None => LockByID(on) \in Seq(Row \X Mode)  BY LockType
    <3>3. plan \in Seq(Row \X Mode)  BY <3>1, <3>2
    <3>4. on = None => Len(plan) = Len(LockByID(Post)) + Len(<<>>)  BY <3>1
    <3> QED  BY <3>3, <3>4, PlanRange DEF LockByID
  <2> HIDE DEF plan
  <2>3. /\ on \in Nat \cup {None} /\ c \in Comment /\ "create" \in Operation /\ User \in SUBSET User
        /\ on \in Comment \cup {None} /\ (on # None => Exists(on))
    BY IdAssumption DEF Fresh, Operation
  <2>4. /\ q \in TxRow /\ q.pc = "body" /\ q.held = {} /\ q.op = "create" /\ q.by = u
        /\ q.on = on /\ q.id = c /\ q.arg = v /\ q.plan = plan
    <3>1. c \in Comment \cup {None} /\ v \in Verdict \cup Reaction \cup Status \cup {None}  BY <2>3
    <3> QED  BY <2>2, <2>3, <3>1, SMTT(20) DEF Wanted, TxRow
  <2>5. Begin(t, q)  BY <2>1 DEF plan
  <2> HIDE DEF q
  <2> QED  BY <2>2, <2>3, <2>4, <2>5, BeginStep DEF Writers
<1>2. ASSUME NEW c \in {x \in Comment : Exists(x)}, NEW v \in Verdict, NEW m \in Mentioned,
             Writes(t, "update", c, None, v, m)
      PROVE  Sound'
  <2>1. m \in SUBSET User  BY DEF Mentioned
  <2> QED  BY <1>2, <2>1, WritesStep DEF Writers
<1>3. ASSUME NEW c \in {x \in Comment : Exists(x)}, NEW op \in {"delete", "adminDelete", "restore"},
             Writes(t, op, c, None, None, {})
      PROVE  Sound'
  BY <1>3, WritesStep DEF Writers
<1>4. ASSUME NEW c \in {x \in Comment : Exists(x)}, NEW r \in DOMAIN record[c], NEW v \in {"pass", "block"},
             Writes(t, "review", c, r, v, {})
      PROVE  Sound'
  <2>1. record[c] \in Seq(ModerationRecord)  BY DEF Sound, Typed
  <2>2. r \in Nat /\ v \in Verdict  BY <2>1 DEF Verdict
  <2> QED  BY <1>4, <2>2, WritesStep DEF Writers
<1>5. ASSUME NEW x \in Reaction, x.on \in Comment => Exists(x.on), NEW op \in {"react", "unreact"},
             Begin(t, Wanted(op, x.by, None, None, x, {}, <<>>))
      PROVE  Sound'
  <2> DEFINE q == Wanted(op, x.by, None, None, x, {}, <<>>)
  <2>1. x.by \in User
    BY DEF Reaction, PostLike, CommentLike, Favorite, Follow
  <2>2. op \in Operation /\ <<>> \in Seq(Row \X Mode)  BY LockType DEF Operation
  <2>3. /\ q \in TxRow /\ q.pc = "body" /\ q.held = {} /\ q.op = op /\ q.by = x.by
        /\ q.id = None /\ q.arg = x /\ q.plan = <<>>
    <3>1. /\ None \in Comment \cup {None} /\ None \in Nat \cup {None} /\ {} \in SUBSET User
          /\ x \in Verdict \cup Reaction \cup Status \cup {None}
      OBVIOUS
    <3> QED  BY <2>1, <2>2, <3>1, SMTT(20) DEF Wanted, TxRow
  <2>4. Begin(t, q)  BY <1>5
  <2> HIDE DEF q
  <2> QED  BY <1>5, <2>3, <2>4, BeginStep DEF Writers
<1>6. ASSUME NEW st \in Status, Begin(t, Wanted("writePost", Owner, None, None, st, {}, LockByID(Post)))
      PROVE  Sound'
  <2> DEFINE q == Wanted("writePost", Owner, None, None, st, {}, LockByID(Post))
  <2>1. "writePost" \in Operation /\ LockByID(Post) \in Seq(Row \X Mode) /\ Owner \in User
    BY LockType, IdAssumption DEF Operation
  <2>2. /\ q \in TxRow /\ q.pc = "body" /\ q.held = {} /\ q.op = "writePost"
        /\ q.id = None /\ q.arg = st /\ q.plan = LockByID(Post)
    <3>1. /\ None \in Comment \cup {None} /\ None \in Nat \cup {None} /\ {} \in SUBSET User
          /\ st \in Verdict \cup Reaction \cup Status \cup {None}
      OBVIOUS
    <3> QED  BY <2>1, <3>1, SMTT(20) DEF Wanted, TxRow
  <2>3. Begin(t, q)  BY <1>6
  <2>4. Len(LockByID(Post)) < 2  BY PlanRange DEF LockByID
  <2> HIDE DEF q
  <2> QED  BY <2>2, <2>3, <2>4, BeginStep DEF Writers
<1> QED  BY <1>1, <1>2, <1>3, <1>4, <1>5, <1>6 DEF Request, Status

-----------------------------------------------------------------------------
(* The bodies of requests that write something new. *)
LEMMA RootType ==
  ASSUME Sound, NEW c \in Comment, Exists(c)
  PROVE  /\ RootOf(c) \in Comment /\ Exists(RootOf(c)) /\ comment[RootOf(c)].root = None
         /\ comment[c] \in CommentRow /\ comment[c].author \in User
<1>1. comment[c] \in CommentRow /\ RowSound(c)  BY DEF Sound, Typed
<1>2. comment[c].root \in Comment \cup {None} /\ comment[c].author \in User
  BY <1>1 DEF CommentRow, Exists
<1> QED  BY <1>1, <1>2 DEF RootOf, RowSound

LEMMA CreateBody ==
  ASSUME Sound, NEW t \in Tx, InBody(t, "create"), NEW root, NEW mode \in Mode,
         root = IF tx[t].on = None THEN None ELSE RootOf(tx[t].on),
         Goto(t, "commit", IF root = None \/ root = tx[t].on THEN <<>> ELSE <<<<root, mode>>>>)
  PROVE  Sound'
<1> DEFINE plan == IF root = None \/ root = tx[t].on THEN <<>> ELSE <<<<root, mode>>>>
<1>1. ArgSound(t) /\ tx[t].pc = "body" /\ tx[t].op = "create" /\ Ready(t)  BY RowType DEF InBody
<1>2. tx[t].on # None => root \in Comment  BY <1>1, RootType DEF ArgSound
<1>3. plan \in Seq(Row \X Mode)
  <2>1. CASE root = None \/ root = tx[t].on  BY <2>1, LockType
  <2>2. CASE ~(root = None \/ root = tx[t].on)
    <3>1. root \in Row  BY <1>2, <2>2, LockType
    <3>2. <<root, mode>> \in Row \X Mode  BY <3>1
    <3> QED  BY <2>2, <3>2
  <2> QED  BY <2>1, <2>2
<1>4. tx[t].on = None => plan = <<>>  OBVIOUS
<1> HIDE DEF plan
<1>5. /\ tx'[t].op = "create" /\ tx'[t].on = tx[t].on /\ tx'[t].pc = "commit" /\ tx'[t].plan = plan
      /\ LockSound(t)' /\ DecisionSound(t)' => Sound'
  BY <1>1, <1>3, GotoRow DEF plan
<1>6. LockSound(t)'  BY <1>4, <1>5, PlanRange DEF LockSound, Writers
<1>7. DecisionSound(t)'  BY <1>5 DEF DecisionSound, Removals
<1> QED  BY <1>5, <1>6, <1>7

LEMMA ReactBody ==
  ASSUME Sound, NEW t \in Tx, NEW op \in {"react", "unreact"}, InBody(t, op),
         Goto(t, "commit", ReactionLocks(tx[t].arg))
  PROVE  Sound'
<1> DEFINE plan == ReactionLocks(tx[t].arg)
<1>1. /\ ArgSound(t) /\ LockSound(t) /\ tx[t].pc = "body" /\ tx[t].op = op /\ Ready(t)
  BY RowType DEF InBody
<1>2. tx[t].arg \in Reaction  BY <1>1 DEF ArgSound
<1>3. tx[t].arg.kind = "follow" \/ tx[t].arg.on \in Row
  BY <1>2 DEF Reaction, PostLike, CommentLike, Favorite, Follow, Row
<1>4. plan \in Seq(Row \X Mode) /\ Len(plan) < 2
  <2>1. CASE tx[t].arg.kind = "follow"
    <3>1. plan = <<>>  BY <2>1 DEF ReactionLocks
    <3>2. Len(plan) = 0  BY <3>1, PlanRange
    <3>3. plan \in Seq(Row \X Mode)  BY <3>1, LockType
    <3> QED  BY <3>2, <3>3
  <2>2. CASE tx[t].arg.kind # "follow"
    <3>1. plan = <<<<tx[t].arg.on, "noKeyUpdate">>>>  BY <2>2 DEF ReactionLocks
    <3>2. Len(plan) = 1  BY <3>1, PlanRange
    <3>3. plan \in Seq(Row \X Mode)  BY <1>3, <2>2, <3>1, LockType
    <3> QED  BY <3>2, <3>3
  <2> QED  BY <2>1, <2>2
<1> HIDE DEF plan
<1>5. Got(t) = {}  BY <1>1, PlanRange DEF LockSound, Got
<1>6. /\ tx'[t].op = op /\ tx'[t].pc = "commit" /\ tx'[t].plan = plan /\ tx'[t].held = {}
      /\ LockSound(t)' /\ DecisionSound(t)' => Sound'
  BY <1>1, <1>4, <1>5, GotoRow DEF plan
<1>7. LockSound(t)'  BY <1>4, <1>6 DEF LockSound, Writers
<1>8. DecisionSound(t)'  BY <1>6 DEF DecisionSound, Removals
<1> QED  BY <1>6, <1>7, <1>8

-----------------------------------------------------------------------------
(* A request commits.  What it writes leaves alone what the others have      *)
(* decided about: they hold the lock of their comment.                       *)
LEMMA OthersStand ==
  ASSUME Sound, NEW t \in Tx, NEW w \in Tx \ {t}, tx'[w] = tx[w],
         \A c \in Comment : Exists(c) => /\ Exists(c)' /\ comment'[c].root = comment[c].root
                                         /\ DOMAIN record[c] \subseteq DOMAIN record'[c],
         \A c \in Comment : ~Exists(c) => ~Exists(c)' \/ (tx[t].op = "create" /\ c = tx[t].id),
         \A c \in Comment : Exists(c) =>
            \/ comment'[c].deleted = comment[c].deleted /\ Len(record'[c]) = Len(record[c])
            \/ c = tx[t].id /\ tx[t].op \in Writers /\ tx[t].pc = "commit"
  PROVE  (ArgSound(w) /\ LockSound(w) /\ DecisionSound(w))'
<1>0. ArgSound(w) /\ LockSound(w) /\ DecisionSound(w) /\ LockSound(t)  BY RowType
<1>1. tx[w].op \in Writers => tx[w].id \in Comment /\ Exists(tx[w].id)  BY <1>0 DEF ArgSound
<1>2. ArgSound(w)'
  <2>1. tx[w].op = "create" => ~Exists(tx[w].id)'
    <3>1. tx[w].op = "create" /\ tx[t].op = "create" => tx[w].id # tx[t].id  BY DEF Sound, Drawn
    <3> QED  BY <1>0, <3>1 DEF ArgSound
  <2>2. tx[w].op = "create" /\ tx[w].on # None => Exists(tx[w].on)'  BY <1>0 DEF ArgSound
  <2>3. tx[w].op = "review" => tx[w].on \in DOMAIN record'[tx[w].id]
    <3>1. ASSUME tx[w].op = "review" PROVE tx[w].on \in DOMAIN record'[tx[w].id]
      <4>1. tx[w].on \in DOMAIN record[tx[w].id] /\ tx[w].id \in Comment /\ Exists(tx[w].id)
        BY <1>0, <1>1, <3>1 DEF ArgSound, Writers
      <4> QED  BY <4>1
    <3> QED  BY <3>1
  <2>4. tx[w].op \in Writers => Exists(tx[w].id)'  BY <1>1
  <2>5. tx[w].op \in {"react", "unreact"} =>
          (tx[w].arg.on \in Comment => Exists(tx[w].arg.on)')
    BY <1>0 DEF ArgSound
  <2> QED  BY <1>0, <2>1, <2>2, <2>3, <2>4, <2>5 DEF ArgSound
<1>3. LockSound(w)'
  <2>1. tx[w].op \in Writers => comment'[tx[w].id].root = comment[tx[w].id].root  BY <1>1
  <2>2. tx[w].pc = "count" => tx[w].op \in Writers  BY <1>0 DEF LockSound
  <2> QED  BY <1>0, <2>1, <2>2 DEF LockSound
<1>4. DecisionSound(w)'
  <2> SUFFICES ASSUME tx[w].pc \in {"count", "commit"}, tx[w].op \in Removals \cup {"update"}
               PROVE  /\ comment'[tx[w].id].deleted = comment[tx[w].id].deleted
                      /\ Len(record'[tx[w].id]) = Len(record[tx[w].id])
    BY <1>0 DEF DecisionSound
  <2>1. tx[w].op \in Writers  BY DEF Removals, Writers
  <2>2. <<tx[w].id, "update">> \in tx[w].held  BY <1>0, <2>1 DEF LockSound
  <2>3. ASSUME tx[w].id = tx[t].id, tx[t].op \in Writers, tx[t].pc = "commit" PROVE FALSE
    <3>1. <<tx[t].id, "update">> \in tx[t].held  BY <1>0, <2>3 DEF LockSound
    <3>2. HeldAgainst(w, <<tx[t].id, "update">>)  BY <2>2, <2>3, UpdateConflicts
    <3> QED  BY <3>1, <3>2 DEF Sound, Exclusive
  <2> QED  BY <1>1, <2>1, <2>3
<1> QED  BY <1>2, <1>3, <1>4

LEMMA CommitStep ==
  ASSUME Sound, NEW t \in Tx, tx[t].pc # "idle", Committed(t),
         comment' \in [Comment -> CommentRow], record' \in [Comment -> Seq(ModerationRecord)],
         post' \in PostRow, reaction' \subseteq Reaction, IsFiniteSet(reaction'),
         unread' \subseteq Notification,
         \A c \in Comment : Exists(c) => /\ Exists(c)' /\ comment'[c].root = comment[c].root
                                         /\ DOMAIN record[c] \subseteq DOMAIN record'[c],
         \A c \in Comment : ~Exists(c) => ~Exists(c)' \/ (tx[t].op = "create" /\ c = tx[t].id),
         \A c \in Comment : Exists(c) =>
            \/ comment'[c].deleted = comment[c].deleted /\ Len(record'[c]) = Len(record[c])
            \/ c = tx[t].id /\ tx[t].op \in Writers /\ tx[t].pc = "commit",
         \A c \in Comment : RowSound(c)', CountsExact', WalkSound'
  PROVE  Sound'
<1>0. Typed  BY DEF Sound
<1>1. tx' \in [Tx -> TxRow] /\ tx'[t] = Idle /\ (\A w \in Tx \ {t} : tx'[w] = tx[w]) /\ begun' = begun
  BY <1>0, EmptyRows DEF Typed, Committed
<1>2. t \in Active /\ Active' \subseteq Active \ {t}  BY <1>1, EmptyRows DEF Active
<1>3. begun' \in 0 .. MaxRequests /\ IsFiniteSet(Active') /\ Cardinality(Active)' <= begun'
  BY <1>0, <1>1, <1>2, EndCounts
<1>4. IsFiniteSet(Existing')
  <2>1. Existing' \subseteq Existing \cup {tx[t].id}  BY DEF Existing
  <2>2. IsFiniteSet(Existing \cup {tx[t].id})  BY <1>0, FS_AddElement DEF Typed
  <2> QED  BY <2>1, <2>2, FS_Subset
<1>5. Typed'  BY <1>1, <1>3, <1>4 DEF Typed
<1>6. Exclusive'
  <2> SUFFICES ASSUME NEW v \in Tx, NEW w \in Tx \ {v}, NEW h \in tx'[v].held PROVE ~HeldAgainst(w, h)'
    BY DEF Exclusive
  <2>1. v # t  BY <1>1, EmptyRows
  <2>2. CASE w = t  BY <1>1, <2>2, EmptyRows DEF HeldAgainst
  <2>3. CASE w # t  BY <1>1, <2>1, <2>3 DEF Sound, Exclusive, HeldAgainst
  <2> QED  BY <2>2, <2>3
<1>7. Drawn'  BY <1>1, EmptyRows DEF Sound, Drawn
<1>8. ASSUME NEW w \in Tx PROVE (ArgSound(w) /\ LockSound(w) /\ DecisionSound(w))'
  <2>1. CASE w = t
    <3>1. tx'[w] = Idle  BY <1>1, <2>1
    <3>2. ArgSound(w)'  BY <3>1, EmptyRows DEF ArgSound, Writers
    <3>3. LockSound(w)'  BY <3>1, EmptyRows, PlanRange DEF LockSound, Writers
    <3>4. DecisionSound(w)'  BY <3>1, EmptyRows DEF DecisionSound
    <3> QED  BY <3>2, <3>3, <3>4
  <2>2. CASE w # t
    <3>1. w \in Tx \ {t} /\ tx'[w] = tx[w]  BY <1>1, <2>2
    <3> QED  BY <3>1, OthersStand
  <2> QED  BY <2>1, <2>2
<1> QED  BY <1>5, <1>6, <1>7, <1>8 DEF Sound

(* What is still in its place when a table is written kept its key. *)
LEMMA WalkKeeps ==
  ASSUME Sound, NEW table, comment' = table, page' = [page EXCEPT !.kept = Keep(table)]
  PROVE  WalkSound'
<1>0. WalkSound /\ page \in Walk  BY DEF Sound, WalkSound
<1>1. /\ Keep(table) \subseteq page.kept
      /\ Keep(table) \subseteq visibleCommentQuery(table, Reader, page.floor)
      /\ \A c \in Keep(table) : Key(table, page.sort, c) = Key(comment, page.sort, c)
  BY DEF Keep
<1> DEFINE K == Keep(table)
<1> HIDE DEF K
<1>2. K \in SUBSET Comment  BY <1>0, <1>1 DEF Walk, K
<1>3. page' = [page EXCEPT !.kept = K]  BY DEF K
<1>4. /\ page' \in Walk /\ page'.kept = K /\ page'.floor = page.floor /\ page'.sort = page.sort
      /\ page'.after = page.after /\ page'.seen = page.seen /\ page'.again = page.again
      /\ page'.missed = page.missed /\ page'.pc = page.pc
  BY <1>0, <1>2, <1>3 DEF Walk
<1>5. page'.pc = "idle" => page' = NoWalk
  <2> SUFFICES ASSUME page.pc = "idle" PROVE page' = NoWalk  BY <1>4
  <2>1. page = NoWalk /\ page.kept = {}  BY <1>0 DEF WalkSound, NoWalk
  <2>2. K = {}  BY <1>1, <2>1 DEF K
  <2> QED  BY <1>3, <2>1, <2>2 DEF NoWalk
<1>6. (page.kept \subseteq visibleCommentQuery(comment, Reader, page.floor))'
  BY <1>1, <1>4 DEF K
<1>7. ASSUME page.after # None
      PROVE  /\ page.after.scope = page.sort
             /\ \A c \in K : c \in page.seen <=> ~Precedes(page.after, Key(table, page.sort, c))
  BY <1>0, <1>1, <1>7 DEF WalkSound, K
<1>8. (page.after # None => /\ page.after.scope = page.sort
                            /\ \A c \in page.kept :
                                c \in page.seen <=> ~Precedes(page.after, Key(comment, page.sort, c)))'
  BY <1>4, <1>7
<1> QED  BY <1>0, <1>4, <1>5, <1>6, <1>8 DEF WalkSound

-----------------------------------------------------------------------------
(* The counters.  The write of one row moves at most that comment, or, when it *)
(* is a root, that comment and its floor, into or out of the list.             *)
Floor(table, r) == {d \in Comment : Public(table[d]) /\ table[d].root = r}

RootIn(table, c) == IF table[c].root = None THEN c ELSE table[c].root

Shown(table) == {c \in Comment : Public(table[c]) /\ Public(table[RootIn(table, c)])}

(* The write of row c, with what every write of a comment keeps. *)
Legal(c, new) ==
    /\ new \in CommentRow /\ new.author # None
    /\ new.replies = comment[c].replies /\ new.likes = comment[c].likes
    /\ Exists(c) => new.root = comment[c].root
    /\ new.root # None => Exists(new.root) /\ comment[new.root].root = None

LEMMA OneMember ==
  ASSUME NEW A, NEW B, NEW c, IsFiniteSet(A), B \ {c} = A \ {c}
  PROVE  /\ IsFiniteSet(B) /\ Cardinality(A) \in Nat /\ Cardinality(B) \in Nat
         /\ c \in A /\ c \in B => Cardinality(B) = Cardinality(A)
         /\ c \notin A /\ c \in B => Cardinality(B) = Cardinality(A) + 1
         /\ c \in A /\ c \notin B => Cardinality(B) = Cardinality(A) - 1
         /\ c \notin A /\ c \notin B => Cardinality(B) = Cardinality(A)
<1> DEFINE C == A \ {c}
<1>1. IsFiniteSet(C) /\ Cardinality(A) \in Nat /\ Cardinality(C) \in Nat
  BY FS_RemoveElement, FS_CardinalityType
<1>2. c \notin C /\ C \subseteq A /\ C \subseteq B  OBVIOUS
<1>3. (c \in A => A = C \cup {c}) /\ (c \notin A => A = C)  OBVIOUS
<1>4. (c \in B => B = C \cup {c}) /\ (c \notin B => B = C)  OBVIOUS
<1> HIDE DEF C
<1>5. IsFiniteSet(C \cup {c}) /\ Cardinality(C \cup {c}) = Cardinality(C) + 1
  BY <1>1, <1>2, FS_AddElement
<1>6. IsFiniteSet(B)  BY <1>1, <1>4, <1>5
<1>7. c \in A => Cardinality(A) = Cardinality(C) + 1  BY <1>3, <1>5
<1>8. c \notin A => Cardinality(A) = Cardinality(C)  BY <1>3
<1>9. c \in B => Cardinality(B) = Cardinality(C) + 1  BY <1>4, <1>5
<1>10. c \notin B => Cardinality(B) = Cardinality(C)  BY <1>4
<1> QED  BY <1>1, <1>6, <1>7, <1>8, <1>9, <1>10

(* The sets that are counted are finite. *)
LEMMA CountedFinite ==
  ASSUME Sound
  PROVE  /\ IsFiniteSet(Shown(comment)) /\ Cardinality(Shown(comment)) = post.comments
         /\ \A r \in Comment : /\ IsFiniteSet(Floor(comment, r))
                               /\ Cardinality(Floor(comment, r)) = comment[r].replies
         /\ \A c \in Comment : Public(comment[c]) => Exists(c)
<1>1. \A c \in Comment : Public(comment[c]) => Exists(c)  BY DEF Public, Exists
<1>2. Shown(comment) \subseteq Existing /\ \A r \in Comment : Floor(comment, r) \subseteq Existing
  BY <1>1 DEF Shown, Floor, Existing
<1>3. IsFiniteSet(Existing)  BY DEF Sound, Typed
<1>4. Shown(comment) = {c \in Comment : Public(comment[c]) /\ Public(comment[RootOf(c)])}
  BY DEF Shown, RootIn, RootOf
<1>5. Cardinality(Shown(comment)) = post.comments  BY <1>4 DEF Sound, CountsExact
<1>6. ASSUME NEW r \in Comment PROVE Cardinality(Floor(comment, r)) = comment[r].replies
  BY DEF Sound, CountsExact, Floor
<1>7. IsFiniteSet(Shown(comment)) /\ \A r \in Comment : IsFiniteSet(Floor(comment, r))
  BY <1>2, <1>3, FS_Subset
<1> QED  BY <1>1, <1>5, <1>6, <1>7

(* The table a write leaves. *)
Rewritten(T, c, new) ==
    /\ T \in [Comment -> CommentRow] /\ T[c] = new /\ new.root # c
    /\ new.root \in Comment \cup {None}
    /\ \A x \in Comment \ {c} : x # new.root => T[x] = comment[x]
    /\ new.root # None =>
          T[new.root] = [comment[new.root] EXCEPT !.replies =
                            Greatest(comment[new.root].replies + delta(comment[c], new))]
    /\ \A x \in Comment \ {c} : /\ T[x].author = comment[x].author /\ T[x].root = comment[x].root
                                /\ T[x].deleted = comment[x].deleted /\ T[x].mod = comment[x].mod
                                /\ T[x].rev = comment[x].rev /\ T[x].likes = comment[x].likes

LEMMA TableWrite ==
  ASSUME Sound, NEW c \in Comment, NEW new, Legal(c, new)
  PROVE  Rewritten(danshi_sync_comment_counts(c, new).table, c, new)
<1> DEFINE T == danshi_sync_comment_counts(c, new).table
<1> DEFINE r == new.root
           d == delta(comment[c], new)
           q == [comment[r] EXCEPT !.replies = Greatest(comment[r].replies + d)]
<1>0. /\ comment \in [Comment -> CommentRow] /\ new \in CommentRow
  BY DEF Sound, Typed, Legal
<1>1. r \in Comment \cup {None}  BY <1>0 DEF CommentRow
<1>2. r # c
  <2> SUFFICES ASSUME r = c PROVE FALSE  OBVIOUS
  <2>1. r # None  BY NoneAssumption
  <2> QED  BY <2>1 DEF Legal
<1>3. d \in {-1, 0, 1}  BY DEF delta
<1>4. CASE r = None
  <2>1. T = [comment EXCEPT ![c] = new]  BY <1>4 DEF danshi_sync_comment_counts
  <2> HIDE DEF T
  <2>2. T \in [Comment -> CommentRow] /\ T[c] = new /\ \A x \in Comment \ {c} : T[x] = comment[x]
    BY <1>0, <2>1
  <2>3. Rewritten(T, c, new)  BY <1>1, <1>2, <1>4, <2>2, Zenon DEF Rewritten
  <2> QED  BY <2>3 DEF T
<1>5. CASE r # None
  <2>0. r \in Comment  BY <1>1, <1>5
  <2>1. T = [comment EXCEPT ![c] = new, ![r] = q]
    <3>1. T = [comment EXCEPT ![c] = new, ![r].replies = Greatest(@ + d)]
      BY <1>5 DEF danshi_sync_comment_counts
    <3>2. [comment EXCEPT ![c] = new][r] = comment[r]  BY <1>0, <1>2, <2>0
    <3> QED  BY <1>0, <1>2, <2>0, <3>1, <3>2
  <2>2. comment[r] \in CommentRow /\ comment[r].replies \in Nat  BY <1>0, <2>0 DEF CommentRow
  <2>3. Greatest(comment[r].replies + d) \in Nat  BY <1>3, <2>2 DEF Greatest
  <2> HIDE DEF d, T
  <2>4. /\ q \in CommentRow /\ q.author = comment[r].author /\ q.root = comment[r].root
        /\ q.deleted = comment[r].deleted /\ q.mod = comment[r].mod /\ q.rev = comment[r].rev
        /\ q.likes = comment[r].likes
    BY <2>2, <2>3 DEF CommentRow
  <2> HIDE DEF q
  <2>5. /\ T \in [Comment -> CommentRow] /\ T[c] = new /\ T[r] = q
        /\ \A x \in Comment \ {c} : x # r => T[x] = comment[x]
    BY <1>0, <1>2, <2>0, <2>1, <2>4
  <2>6. T[r] = [comment[r] EXCEPT !.replies = Greatest(comment[r].replies + d)]
    BY <2>5 DEF q
  <2>7. \A x \in Comment \ {c} :
           /\ T[x].author = comment[x].author /\ T[x].root = comment[x].root
           /\ T[x].deleted = comment[x].deleted /\ T[x].mod = comment[x].mod
           /\ T[x].rev = comment[x].rev /\ T[x].likes = comment[x].likes
    BY <2>4, <2>5
  <2>8. Rewritten(T, c, new)  BY <1>1, <1>2, <2>5, <2>6, <2>7, Zenon DEF d, Rewritten
  <2> QED  BY <2>8 DEF T
<1> QED  BY <1>1, <1>4, <1>5

(* The write of a reply. *)
LEMMA ReplyCounts ==
  ASSUME Sound, NEW c \in Comment, NEW new, Legal(c, new), new.root # None, NEW T,
         T = danshi_sync_comment_counts(c, new).table
  PROVE  /\ Cardinality(Shown(T)) = danshi_sync_comment_counts(c, new).count
         /\ \A x \in Comment : Cardinality(Floor(T, x)) = T[x].replies
         /\ Cardinality(Shown(T)) \in Nat
<1> DEFINE r == new.root
           d == delta(comment[c], new)
<1>0. /\ T[c] = new /\ r # c /\ r \in Comment /\ comment[r].root = None /\ Exists(r)
      /\ \A x \in Comment \ {c} : x # r => T[x] = comment[x]
      /\ T[r] = [comment[r] EXCEPT !.replies = Greatest(comment[r].replies + d)]
      /\ \A x \in Comment \ {c} : /\ T[x].author = comment[x].author /\ T[x].root = comment[x].root
                                  /\ T[x].deleted = comment[x].deleted /\ T[x].mod = comment[x].mod
      /\ comment[r] \in CommentRow
  <2>1. Rewritten(T, c, new) /\ comment \in [Comment -> CommentRow]  BY TableWrite DEF Sound, Typed
  <2> QED  BY <2>1 DEF Rewritten, Legal
<1>1. \A x \in Comment \ {c} : Public(T[x]) <=> Public(comment[x])  BY <1>0 DEF Public
<1>2. Public(comment[c]) => comment[c].root = r  BY DEF Public, Legal, Exists
<1>3. ASSUME NEW x \in Comment PROVE comment[x].root # c
  <2> SUFFICES ASSUME comment[x].root = c PROVE FALSE  OBVIOUS
  <2>1. Exists(c) /\ comment[c].root = None  BY NoneAssumption DEF Sound, RowSound
  <2> QED  BY <2>1 DEF Legal
<1>4. d = (IF Public(new) THEN 1 ELSE 0) - (IF Public(comment[c]) THEN 1 ELSE 0)
  BY DEF delta
<1>5. ASSUME NEW x \in Comment \ {r} PROVE Cardinality(Floor(T, x)) = T[x].replies
  <2>1. T[x].replies = comment[x].replies
    <3>1. CASE x = c  BY <1>0, <3>1 DEF Legal
    <3>2. CASE x # c  BY <1>0, <3>2
    <3> QED  BY <3>1, <3>2
  <2>2. Floor(T, x) = Floor(comment, x)
    <3>1. c \notin Floor(T, x) /\ c \notin Floor(comment, x)  BY <1>0, <1>2 DEF Floor
    <3>2. \A y \in Comment \ {c} : y \in Floor(T, x) <=> y \in Floor(comment, x)
      BY <1>0, <1>1 DEF Floor
    <3>3. Floor(T, x) \subseteq Comment /\ Floor(comment, x) \subseteq Comment  BY DEF Floor
    <3> QED  BY <3>1, <3>2, <3>3
  <2> QED  BY <2>1, <2>2, CountedFinite
<1>6. Cardinality(Floor(T, r)) = T[r].replies
  <2>1. Floor(T, r) \ {c} = Floor(comment, r) \ {c}  BY <1>0, <1>1 DEF Floor
  <2>2. c \in Floor(T, r) <=> Public(new)  BY <1>0 DEF Floor
  <2>3. c \in Floor(comment, r) <=> Public(comment[c])  BY <1>2 DEF Floor
  <2>4. IsFiniteSet(Floor(comment, r)) /\ Cardinality(Floor(comment, r)) = comment[r].replies
    BY <1>0, CountedFinite
  <2> DEFINE A == Floor(comment, r)
             B == Floor(T, r)
  <2> HIDE DEF A, B
  <2>5. /\ Cardinality(A) \in Nat /\ Cardinality(B) \in Nat
        /\ c \in A /\ c \in B => Cardinality(B) = Cardinality(A)
        /\ c \notin A /\ c \in B => Cardinality(B) = Cardinality(A) + 1
        /\ c \in A /\ c \notin B => Cardinality(B) = Cardinality(A) - 1
        /\ c \notin A /\ c \notin B => Cardinality(B) = Cardinality(A)
    BY <2>1, <2>4, OneMember DEF A, B
  <2>6. Cardinality(B) = Cardinality(A) + d  BY <1>4, <2>2, <2>3, <2>5 DEF A, B
  <2> HIDE DEF d
  <2>7. T[r].replies = Greatest(Cardinality(A) + d)
    BY <1>0, <2>4 DEF A, CommentRow
  <2> QED  BY <2>5, <2>6, <2>7 DEF Greatest, B
<1>7. /\ Cardinality(Shown(T)) = danshi_sync_comment_counts(c, new).count
      /\ Cardinality(Shown(T)) \in Nat
  <2>0. danshi_sync_comment_counts(c, new).count =
           IF Public(comment[r]) THEN Greatest(post.comments + d) ELSE post.comments
    BY DEF danshi_sync_comment_counts
  <2>1. RootIn(T, c) = r /\ (Public(comment[c]) => RootIn(comment, c) = r)
    BY <1>0, <1>2 DEF RootIn
  <2>2. \A x \in Comment \ {c} : RootIn(T, x) = RootIn(comment, x) /\ RootIn(comment, x) \in Comment \ {c}
    <3>1. \A x \in Comment : comment[x].root \in Comment \cup {None}  BY DEF Sound, Typed, CommentRow
    <3>2. ASSUME NEW x \in Comment \ {c}
          PROVE  RootIn(T, x) = RootIn(comment, x) /\ RootIn(comment, x) \in Comment \ {c}
      <4>1. T[x].root = comment[x].root  BY <1>0
      <4> QED  BY <1>3, <3>1, <4>1 DEF RootIn
    <3> QED  BY <3>2
  <2>3. Public(T[r]) <=> Public(comment[r])  BY <1>0, <1>1
  <2>4. Shown(T) \ {c} = Shown(comment) \ {c}
    <3>1. ASSUME NEW x \in Comment \ {c} PROVE x \in Shown(T) <=> x \in Shown(comment)
      BY <1>1, <2>2 DEF Shown
    <3> QED  BY <3>1 DEF Shown
  <2>5. c \in Shown(T) <=> Public(new) /\ Public(comment[r])  BY <1>0, <2>1, <2>3 DEF Shown
  <2>6. c \in Shown(comment) <=> Public(comment[c]) /\ Public(comment[r])  BY <2>1 DEF Shown
  <2>7. IsFiniteSet(Shown(comment)) /\ Cardinality(Shown(comment)) = post.comments  BY CountedFinite
  <2> DEFINE A == Shown(comment)
             B == Shown(T)
  <2> HIDE DEF A, B
  <2>8. /\ Cardinality(A) \in Nat /\ Cardinality(B) \in Nat
        /\ c \in A /\ c \in B => Cardinality(B) = Cardinality(A)
        /\ c \notin A /\ c \in B => Cardinality(B) = Cardinality(A) + 1
        /\ c \in A /\ c \notin B => Cardinality(B) = Cardinality(A) - 1
        /\ c \notin A /\ c \notin B => Cardinality(B) = Cardinality(A)
    BY <2>4, <2>7, OneMember DEF A, B
  <2>9. CASE Public(comment[r])
    <3>1. Cardinality(B) = Cardinality(A) + d  BY <1>4, <2>5, <2>6, <2>8, <2>9 DEF A, B
    <3> HIDE DEF d
    <3> QED  BY <2>0, <2>7, <2>8, <2>9, <3>1 DEF Greatest, A, B
  <2>10. CASE ~Public(comment[r])
    BY <2>0, <2>5, <2>6, <2>7, <2>8, <2>10 DEF A, B
  <2> QED  BY <2>9, <2>10
<1> QED  BY <1>5, <1>6, <1>7

LEMMA JoinCount ==
  ASSUME NEW A, NEW F, NEW c, IsFiniteSet(A), IsFiniteSet(F), c \notin F, c \notin A, A \cap F = {}
  PROVE  /\ Cardinality(A \cup ({c} \cup F)) = Cardinality(A) + (1 + Cardinality(F))
         /\ Cardinality(A) \in Nat /\ Cardinality(F) \in Nat
<1>1. IsFiniteSet(F \cup {c}) /\ Cardinality(F \cup {c}) = Cardinality(F) + 1
  BY FS_AddElement
<1>2. F \cup {c} = {c} \cup F /\ A \cap ({c} \cup F) = {}  OBVIOUS
<1>3. Cardinality(A \cup ({c} \cup F)) = Cardinality(A) + Cardinality({c} \cup F) - Cardinality({})
  BY <1>1, <1>2, FS_Union
<1>4. Cardinality(A) \in Nat /\ Cardinality(F) \in Nat /\ Cardinality({}) = 0
  BY FS_CardinalityType, FS_EmptySet
<1> QED  BY <1>1, <1>2, <1>3, <1>4

(* The write of a root. *)
LEMMA RootCounts ==
  ASSUME Sound, NEW c \in Comment, NEW new, Legal(c, new), new.root = None, NEW T,
         T = danshi_sync_comment_counts(c, new).table
  PROVE  /\ Cardinality(Shown(T)) = danshi_sync_comment_counts(c, new).count
         /\ \A x \in Comment : Cardinality(Floor(T, x)) = T[x].replies
         /\ Cardinality(Shown(T)) \in Nat
<1> DEFINE d == delta(comment[c], new)
           F == Floor(comment, c)
           n == danshi_sync_comment_counts(c, new).count
<1>0. /\ T[c] = new /\ \A x \in Comment \ {c} : T[x] = comment[x]
  <2>1. \A x \in Comment : x # None  BY NoneAssumption
  <2>2. Rewritten(T, c, new)  BY TableWrite
  <2> QED  BY <2>1, <2>2 DEF Rewritten
<1>1. comment[c].root = None /\ new.replies = comment[c].replies
  <2>1. CASE Exists(c)  BY <2>1 DEF Legal
  <2>2. CASE ~Exists(c)  BY <2>2, EmptyRows DEF Sound, RowSound, Legal
  <2> QED  BY <2>1, <2>2
<1>2. \A x \in Comment : Floor(T, x) = Floor(comment, x)
  <2> SUFFICES ASSUME NEW x \in Comment PROVE Floor(T, x) = Floor(comment, x)  OBVIOUS
  <2>1. x # None  BY NoneAssumption
  <2>2. c \notin Floor(T, x) /\ c \notin Floor(comment, x)  BY <1>0, <1>1, <2>1 DEF Floor
  <2>3. \A y \in Comment \ {c} : y \in Floor(T, x) <=> y \in Floor(comment, x)  BY <1>0 DEF Floor
  <2>4. Floor(T, x) \subseteq Comment /\ Floor(comment, x) \subseteq Comment  BY DEF Floor
  <2> QED  BY <2>2, <2>3, <2>4
<1>3. \A x \in Comment : Cardinality(Floor(T, x)) = T[x].replies
  <2> SUFFICES ASSUME NEW x \in Comment PROVE Cardinality(Floor(T, x)) = T[x].replies  OBVIOUS
  <2>1. T[x].replies = comment[x].replies  BY <1>0, <1>1
  <2> QED  BY <1>2, <2>1, CountedFinite
<1>4. n = Greatest(post.comments + d * (1 + new.replies))  BY DEF danshi_sync_comment_counts
<1>5. RootIn(T, c) = c /\ RootIn(comment, c) = c /\ T[c].root = None  BY <1>0, <1>1 DEF RootIn
<1>6. \A x \in Comment \ {c} : RootIn(T, x) = RootIn(comment, x) /\ T[x] = comment[x]
  BY <1>0 DEF RootIn
<1>7. \A x \in Comment \ {c} : RootIn(comment, x) = c <=> comment[x].root = c
  BY NoneAssumption DEF RootIn
<1>8. c \notin F /\ F \subseteq Comment
  BY <1>1, NoneAssumption DEF Floor
<1>9. ASSUME NEW x \in Comment \ {c}, x \notin F PROVE x \in Shown(T) <=> x \in Shown(comment)
  <2>1. CASE comment[x].root = c  BY <1>6, <1>9, <2>1 DEF Shown, Floor
  <2>2. CASE comment[x].root # c
    <3>1. RootIn(comment, x) \in Comment \ {c}
      BY <1>7, <2>2 DEF RootIn, Sound, Typed, CommentRow
    <3> QED  BY <1>6, <3>1 DEF Shown
  <2> QED  BY <2>1, <2>2
<1>10. \A x \in F : (x \in Shown(T) <=> Public(new)) /\ (x \in Shown(comment) <=> Public(comment[c]))
  <2> SUFFICES ASSUME NEW x \in F
               PROVE  (x \in Shown(T) <=> Public(new)) /\ (x \in Shown(comment) <=> Public(comment[c]))
    OBVIOUS
  <2>1. x \in Comment \ {c} /\ comment[x].root = c /\ Public(comment[x])  BY <1>8 DEF Floor
  <2>2. RootIn(T, x) = c /\ RootIn(comment, x) = c /\ T[x] = comment[x]  BY <1>6, <1>7, <2>1
  <2> QED  BY <1>0, <2>1, <2>2 DEF Shown
<1>11. (c \in Shown(T) <=> Public(new)) /\ (c \in Shown(comment) <=> Public(comment[c]))
  BY <1>0, <1>5 DEF Shown
<1>12. /\ IsFiniteSet(Shown(comment)) /\ Cardinality(Shown(comment)) = post.comments
       /\ IsFiniteSet(F) /\ Cardinality(F) = new.replies
       /\ Shown(T) \subseteq Comment /\ Shown(comment) \subseteq Comment
  <2>1. Shown(T) \subseteq Comment /\ Shown(comment) \subseteq Comment  BY DEF Shown
  <2> QED  BY <1>1, <2>1, CountedFinite
<1>13. Cardinality(Shown(comment)) \in Nat /\ Cardinality(F) \in Nat  BY <1>12, FS_CardinalityType
<1> HIDE DEF F, n
<1>14. CASE Public(new) <=> Public(comment[c])
  <2>1. Shown(T) = Shown(comment)  BY <1>9, <1>10, <1>11, <1>12, <1>14
  <2>2. d = 0  BY <1>14 DEF delta
  <2> HIDE DEF d
  <2>3. d * (1 + new.replies) = 0  BY <1>12, <1>13, <2>2
  <2>4. n = post.comments  BY <1>4, <1>12, <1>13, <2>3 DEF Greatest
  <2> QED  BY <1>3, <1>12, <1>13, <2>1, <2>4 DEF n
<1>15. CASE Public(new) /\ ~Public(comment[c])
  <2>1. Shown(T) = Shown(comment) \cup ({c} \cup F)
    <3>1. ASSUME NEW x \in Comment PROVE x \in Shown(T) <=> x \in Shown(comment) \cup ({c} \cup F)
      BY <1>9, <1>10, <1>11, <1>15
    <3>2. Shown(comment) \cup ({c} \cup F) \subseteq Comment  BY <1>8, <1>12
    <3> QED  BY <1>12, <3>1, <3>2
  <2>2. c \notin Shown(comment) /\ Shown(comment) \cap F = {}  BY <1>10, <1>11, <1>15
  <2>3. Cardinality(Shown(T)) = Cardinality(Shown(comment)) + (1 + Cardinality(F))
    BY <1>8, <1>12, <2>1, <2>2, JoinCount
  <2>4. d = 1  BY <1>15 DEF delta
  <2> HIDE DEF d
  <2>5. d * (1 + new.replies) = 1 + new.replies  BY <1>12, <1>13, <2>4
  <2>6. n = post.comments + (1 + new.replies)  BY <1>4, <1>12, <1>13, <2>5 DEF Greatest
  <2> QED  BY <1>3, <1>12, <1>13, <2>3, <2>6 DEF n
<1>16. CASE ~Public(new) /\ Public(comment[c])
  <2>1. Shown(comment) = Shown(T) \cup ({c} \cup F)
    <3>1. ASSUME NEW x \in Comment PROVE x \in Shown(comment) <=> x \in Shown(T) \cup ({c} \cup F)
      BY <1>9, <1>10, <1>11, <1>16
    <3>2. Shown(T) \cup ({c} \cup F) \subseteq Comment  BY <1>8, <1>12
    <3> QED  BY <1>12, <3>1, <3>2
  <2>2. c \notin Shown(T) /\ Shown(T) \cap F = {}  BY <1>10, <1>11, <1>16
  <2>3. IsFiniteSet(Shown(T))  BY <1>12, <2>1, FS_Subset
  <2>4. /\ Cardinality(Shown(comment)) = Cardinality(Shown(T)) + (1 + Cardinality(F))
        /\ Cardinality(Shown(T)) \in Nat
    BY <1>8, <1>12, <2>1, <2>2, <2>3, JoinCount
  <2>5. d = -1  BY <1>16 DEF delta
  <2> HIDE DEF d
  <2>6. d * (1 + new.replies) = -(1 + new.replies)  BY <1>12, <1>13, <2>5
  <2>7. n = Cardinality(Shown(T))  BY <1>4, <1>12, <1>13, <2>4, <2>6 DEF Greatest
  <2> QED  BY <1>3, <2>4, <2>7 DEF n
<1> QED  BY <1>14, <1>15, <1>16

(* danshi_sync_comment_counts keeps the counters exact. *)
LEMMA CountsWrite ==
  ASSUME Sound, NEW c \in Comment, NEW new, Legal(c, new),
         comment' = danshi_sync_comment_counts(c, new).table,
         post' = [post EXCEPT !.comments = danshi_sync_comment_counts(c, new).count],
         reaction' = reaction
  PROVE  CountsExact' /\ post' \in PostRow
<1> DEFINE n == danshi_sync_comment_counts(c, new).count
<1>1. /\ Cardinality(Shown(comment')) = n
      /\ \A x \in Comment : Cardinality(Floor(comment', x)) = comment'[x].replies
      /\ n \in Nat
  <2>1. CASE new.root = None  BY <2>1, RootCounts
  <2>2. CASE new.root # None  BY <2>2, ReplyCounts
  <2> QED  BY <2>1, <2>2
<1>2. \A x \in Comment : comment'[x].likes = comment[x].likes
  <2>1. Rewritten(comment', c, new)  BY TableWrite
  <2> QED  BY <2>1 DEF Legal, Rewritten
<1> HIDE DEF n
<1>3. /\ post' \in PostRow /\ post'.comments = n /\ post'.likes = post.likes
      /\ post'.favorites = post.favorites
  <2>1. post \in PostRow /\ post' = [post EXCEPT !.comments = n]  BY DEF Sound, Typed, n
  <2> QED  BY <1>1, <2>1 DEF PostRow
<1>4. Shown(comment') = {x \in Comment : Public(comment'[x]) /\ Public(comment'[RootOf(x)'])}
  BY DEF Shown, RootIn, RootOf
<1>5. \A x \in Comment :
         Floor(comment', x) = {y \in Comment : Public(comment'[y]) /\ comment'[y].root = x}
  BY DEF Floor
<1>6. CountsExact  BY DEF Sound
<1> QED  BY <1>1, <1>2, <1>3, <1>4, <1>5, <1>6 DEF CountsExact

-----------------------------------------------------------------------------
(* The commit of a write of a comment with its records. *)
LEMMA WriteSound ==
  ASSUME Sound, NEW t \in Tx, tx[t].pc = "commit", NEW c \in Comment, c = tx[t].id,
         tx[t].op = "create" \/ tx[t].op \in Writers,
         NEW new, Legal(c, new), WriteComment(t, c, new),
         reaction' = reaction, unread' \subseteq Notification,
         record' \in [Comment -> Seq(ModerationRecord)],
         \A x \in Comment \ {c} : record'[x] = record[x],
         DOMAIN record[c] \subseteq DOMAIN record'[c],
         new.rev = Len(record'[c]), new.rev \in 1 .. MaxRev, new.mod = record'[c][new.rev].last,
         new.mod = "block" <=> new.deleted = "moderation"
  PROVE  Sound'
<1> DEFINE r == new.root
<1>0. /\ comment' = danshi_sync_comment_counts(c, new).table
      /\ post' = [post EXCEPT !.comments = danshi_sync_comment_counts(c, new).count]
      /\ page' = [page EXCEPT !.kept = Keep(danshi_sync_comment_counts(c, new).table)]
      /\ Committed(t)
  BY DEF WriteComment
<1>1. Rewritten(comment', c, new)  BY <1>0, TableWrite
<1>2. WalkSound'  BY <1>0, WalkKeeps
<1>3. CountsExact' /\ post' \in PostRow  BY <1>0, CountsWrite
<1>4. /\ comment' \in [Comment -> CommentRow] /\ comment'[c] = new /\ r # c
      /\ \A x \in Comment \ {c} : x # r => comment'[x] = comment[x]
      /\ \A x \in Comment \ {c} :
            /\ comment'[x].author = comment[x].author /\ comment'[x].root = comment[x].root
            /\ comment'[x].deleted = comment[x].deleted /\ comment'[x].mod = comment[x].mod
            /\ comment'[x].rev = comment[x].rev
  BY <1>1 DEF Rewritten
<1>5. /\ new.author # None /\ (Exists(c) => new.root = comment[c].root)
      /\ r # None => Exists(r) /\ comment[r].root = None
  BY DEF Legal
<1>6. \A x \in Comment \ {c} : Exists(x)' <=> Exists(x)  BY <1>4 DEF Exists
<1>7. Exists(c)'  BY <1>4, <1>5 DEF Exists
<1>8. r \in Comment \cup {None}  BY <1>1 DEF Rewritten
<1>9. ASSUME NEW x \in Comment PROVE RowSound(x)'
  <2>1. CASE x = c
    <3>1. r # None => Exists(r)' /\ comment'[r].root = None  BY <1>4, <1>5, <1>6, <1>8
    <3> QED  BY <1>4, <1>7, <2>1, <3>1 DEF RowSound
  <2>2. CASE x # c
    <3>0. RowSound(x) /\ comment[x].root \in Comment \cup {None} /\ x \in Comment \ {c}
      BY <2>2 DEF Sound, Typed, CommentRow
    <3>1. ~Exists(x) => comment'[x] = comment[x]
      <4>1. x = r => Exists(x)  BY <1>5, NoneAssumption
      <4> QED  BY <1>4, <3>0, <4>1
    <3>2. record'[x] = record[x]  BY <3>0
    <3>3. comment[x].root # None => Exists(comment[x].root)' /\ comment'[comment[x].root].root = None
      <4>1. CASE comment[x].root = c
        <5>1. Exists(c) /\ comment[c].root = None  BY <3>0, <4>1, NoneAssumption DEF RowSound
        <5> QED  BY <1>4, <1>5, <1>7, <4>1, <5>1
      <4>2. CASE comment[x].root # c  BY <1>4, <1>6, <3>0, <4>2 DEF RowSound
      <4> QED  BY <4>1, <4>2
    <3>4. Exists(x)' <=> Exists(x)  BY <1>6, <3>0
    <3> QED  BY <1>4, <3>0, <3>1, <3>2, <3>3, <3>4 DEF RowSound
  <2> QED  BY <2>1, <2>2
<1>10. \A x \in Comment : Exists(x) => /\ Exists(x)' /\ comment'[x].root = comment[x].root
                                       /\ DOMAIN record[x] \subseteq DOMAIN record'[x]
  BY <1>4, <1>5, <1>6, <1>7
<1>11. ArgSound(t)  BY RowType
<1>12. \A x \in Comment : ~Exists(x) => ~Exists(x)' \/ (tx[t].op = "create" /\ x = tx[t].id)
  <2>1. tx[t].op \in Writers => Exists(c)  BY <1>11 DEF ArgSound
  <2> QED  BY <1>6, <2>1
<1>13. \A x \in Comment : Exists(x) =>
         \/ comment'[x].deleted = comment[x].deleted /\ Len(record'[x]) = Len(record[x])
         \/ x = tx[t].id /\ tx[t].op \in Writers /\ tx[t].pc = "commit"
  <2>1. tx[t].op = "create" => ~Exists(c)  BY <1>11 DEF ArgSound
  <2> QED  BY <1>4, <2>1
<1>14. reaction' \subseteq Reaction /\ IsFiniteSet(reaction')  BY DEF Sound, Typed
<1> QED  BY <1>0, <1>2, <1>3, <1>4, <1>9, <1>10, <1>12, <1>13, <1>14, CommitStep

(* A verdict on a comment. *)
LEMMA VerdictRow ==
  ASSUME NEW row \in CommentRow, NEW v \in Verdict
  PROVE  LET new == ApplyModeration(row, v) IN
         /\ new \in CommentRow /\ new.author = row.author /\ new.root = row.root /\ new.rev = row.rev
         /\ new.replies = row.replies /\ new.likes = row.likes
         /\ new.mod = v /\ (v = "block" <=> new.deleted = "moderation")
  BY DEF ApplyModeration, CommentRow

(* The record of a new revision. *)
LEMMA NewRecord ==
  ASSUME Sound, NEW c \in Comment, NEW v \in Verdict, moderateComment(c, v)
  PROVE  /\ record' \in [Comment -> Seq(ModerationRecord)]
         /\ \A x \in Comment \ {c} : record'[x] = record[x]
         /\ DOMAIN record[c] \subseteq DOMAIN record'[c]
         /\ Len(record'[c]) = Len(record[c]) + 1 /\ Len(record[c]) \in Nat
         /\ record'[c][Len(record[c]) + 1].last = v
<1> DEFINE e == [machine |-> v, last |-> v, open |-> v # "pass"]
<1>1. e \in ModerationRecord /\ e.last = v  BY DEF ModerationRecord
<1>2. record \in [Comment -> Seq(ModerationRecord)] /\ record[c] \in Seq(ModerationRecord)
  BY DEF Sound, Typed
<1>3. record' = [record EXCEPT ![c] = Append(record[c], e)]  BY <1>2 DEF moderateComment
<1> HIDE DEF e
<1>4. Append(record[c], e) \in Seq(ModerationRecord)  BY <1>1, <1>2
<1>5. /\ record' \in [Comment -> Seq(ModerationRecord)] /\ record'[c] = Append(record[c], e)
      /\ \A x \in Comment \ {c} : record'[x] = record[x]
  BY <1>2, <1>3, <1>4
<1>6. /\ Len(record'[c]) = Len(record[c]) + 1 /\ Len(record[c]) \in Nat
      /\ record'[c][Len(record[c]) + 1] = e
  BY <1>1, <1>2, <1>5
<1>7. DOMAIN record[c] \subseteq DOMAIN record'[c]  BY <1>2, <1>5, <1>6
<1> QED  BY <1>1, <1>5, <1>6, <1>7

(* Another verdict on a revision. *)
LEMMA NewVerdict ==
  ASSUME Sound, NEW c \in Comment, NEW n \in DOMAIN record[c], NEW e \in ModerationRecord,
         record' = [record EXCEPT ![c] = [record[c] EXCEPT ![n] = e]]
  PROVE  /\ record' \in [Comment -> Seq(ModerationRecord)]
         /\ \A x \in Comment \ {c} : record'[x] = record[x]
         /\ DOMAIN record'[c] = DOMAIN record[c] /\ Len(record'[c]) = Len(record[c])
         /\ record'[c][n] = e /\ \A m \in DOMAIN record[c] \ {n} : record'[c][m] = record[c][m]
<1> DEFINE s == [record[c] EXCEPT ![n] = e]
<1>1. record \in [Comment -> Seq(ModerationRecord)] /\ record[c] \in Seq(ModerationRecord)
  BY DEF Sound, Typed
<1>2. /\ s \in Seq(ModerationRecord) /\ DOMAIN s = DOMAIN record[c] /\ Len(s) = Len(record[c])
      /\ s[n] = e /\ \A m \in DOMAIN record[c] \ {n} : s[m] = record[c][m]
  BY <1>1
<1> HIDE DEF s
<1>3. record' = [record EXCEPT ![c] = s]  BY DEF s
<1>4. record' \in [Comment -> Seq(ModerationRecord)] /\ record'[c] = s
  BY <1>1, <1>2, <1>3
<1>5. \A x \in Comment \ {c} : record'[x] = record[x]  BY <1>1, <1>3
<1> QED  BY <1>2, <1>4, <1>5

-----------------------------------------------------------------------------
(* The operations on comments. *)
LEMMA NewCommentRow ==
  ASSUME Sound, NEW t \in Tx, tx[t].op = "create", NEW made \in 0 .. 1
  PROVE  LET new == NewComment(t, made)
             root == IF tx[t].on = None THEN None ELSE RootOf(tx[t].on)
         IN  /\ Legal(tx[t].id, new) /\ new.root = root /\ new.rev = 1 /\ new.mod = tx[t].arg
             /\ new.mod = "block" <=> new.deleted = "moderation"
             /\ record[tx[t].id] = <<>> /\ tx[t].id \in Comment /\ tx[t].arg \in Verdict
<1> DEFINE new == NewComment(t, made)
           c == tx[t].id
           root == IF tx[t].on = None THEN None ELSE RootOf(tx[t].on)
           row == [NoComment EXCEPT !.author = tx[t].by, !.parent = tx[t].on, !.root = root,
                                    !.rev = 1, !.made = made, !.mentions = tx[t].mentions]
<1>1. ArgSound(t) /\ tx[t] \in TxRow  BY RowType
<1>2. /\ c \in Comment /\ ~Exists(c) /\ tx[t].arg \in Verdict /\ tx[t].by \in User
      /\ tx[t].on \in Comment \cup {None} /\ (tx[t].on # None => Exists(tx[t].on))
      /\ tx[t].mentions \in SUBSET User
  BY <1>1 DEF ArgSound, TxRow
<1>3. /\ root \in Comment \cup {None}
      /\ root # None => Exists(root) /\ comment[root].root = None
  BY <1>2, RootType
<1>4. comment[c] = NoComment /\ record[c] = <<>>  BY <1>2 DEF Sound, RowSound
<1> HIDE DEF root
<1>5. 1 \in 0 .. MaxRev  BY BoundAssumption
<1>6. row \in CommentRow
  <2>1. NoComment \in CommentRow  BY EmptyRows
  <2> QED  BY <1>2, <1>3, <1>5, <2>1 DEF CommentRow
<1>7. /\ row.author = tx[t].by /\ row.root = root /\ row.rev = 1 /\ row.replies = 0 /\ row.likes = 0
  BY DEF NoComment
<1>8. new = ApplyModeration(row, tx[t].arg)  BY DEF NewComment, root
<1> HIDE DEF row, new
<1>9. /\ new \in CommentRow /\ new.author = row.author /\ new.root = row.root /\ new.rev = row.rev
      /\ new.replies = row.replies /\ new.likes = row.likes
      /\ new.mod = tx[t].arg /\ (tx[t].arg = "block" <=> new.deleted = "moderation")
  BY <1>2, <1>6, <1>8, VerdictRow
<1>10. comment[c].replies = 0 /\ comment[c].likes = 0  BY <1>4 DEF NoComment
<1>11. Legal(c, new)
  BY <1>2, <1>3, <1>7, <1>9, <1>10, NoneAssumption DEF Legal
<1> QED  BY <1>2, <1>4, <1>7, <1>9, <1>11 DEF new, root

LEMMA MentionsType ==
  ASSUME NEW by \in User, NEW c \in Comment, NEW users \in SUBSET User
  PROVE  mentionNotifications(by, c, users) \subseteq Notification
<1>1. c \in Row \cup {None}  BY LockType
<1> QED  BY <1>1 DEF mentionNotifications, Notification

LEMMA CreateSound == ASSUME Sound, NEW t \in Tx, Create(t) PROVE Sound'
<1>1. ASSUME InBody(t, "create"), NEW new, new = NewComment(t, 0),
             Goto(t, "commit",
                  IF new.root = None \/ new.root = tx[t].on THEN <<>>
                  ELSE <<<<new.root, IF Public(new) THEN "noKeyUpdate" ELSE "keyShare">>>>)
      PROVE  Sound'
  <2>0. 0 \in 0 .. 1  OBVIOUS
  <2>1. tx[t].op = "create" /\ 0 \in 0 .. 1  BY <1>1, <2>0 DEF InBody
  <2>2. NewComment(t, 0).root = IF tx[t].on = None THEN None ELSE RootOf(tx[t].on)
    BY <2>1, NewCommentRow
  <2>3. (IF Public(new) THEN "noKeyUpdate" ELSE "keyShare") \in Mode  BY DEF Mode
  <2>4. new.root = IF tx[t].on = None THEN None ELSE RootOf(tx[t].on)  BY <1>1, <2>2
  <2> QED  BY <1>1, <2>3, <2>4, CreateBody
<1>2. ASSUME InCommit(t, "create"), NEW made \in 0 .. 1,
             WriteComment(t, tx[t].id, NewComment(t, made)), moderateComment(tx[t].id, tx[t].arg),
             unread' = IF tx[t].arg # "pass" THEN unread
                       ELSE unread \cup Foreign(createCommentNotifications(
                               tx[t].by, tx[t].id, tx[t].on, NewComment(t, 0).root, tx[t].mentions)),
             UNCHANGED reaction
      PROVE  Sound'
  <2> DEFINE c == tx[t].id
             new == NewComment(t, made)
             root == NewComment(t, 0).root
             notes == createCommentNotifications(tx[t].by, c, tx[t].on, root, tx[t].mentions)
  <2>0. 0 \in 0 .. 1  OBVIOUS
  <2>1. tx[t].op = "create" /\ tx[t].pc = "commit" /\ 0 \in 0 .. 1  BY <1>2, <2>0 DEF InCommit
  <2>2. /\ Legal(c, new) /\ new.rev = 1 /\ new.mod = tx[t].arg
        /\ new.mod = "block" <=> new.deleted = "moderation"
        /\ record[c] = <<>> /\ c \in Comment /\ tx[t].arg \in Verdict
    BY <2>1, NewCommentRow
  <2>3. root = IF tx[t].on = None THEN None ELSE RootOf(tx[t].on)  BY <2>1, NewCommentRow
  <2>4. ArgSound(t) /\ tx[t] \in TxRow  BY RowType
  <2>5. /\ tx[t].by \in User /\ tx[t].mentions \in SUBSET User /\ tx[t].on \in Comment \cup {None}
        /\ tx[t].on # None => Exists(tx[t].on)
    BY <2>1, <2>4 DEF ArgSound, TxRow
  <2> HIDE DEF root
  <2>6. notes \subseteq Notification
    <3>1. mentionNotifications(tx[t].by, c, tx[t].mentions) \subseteq Notification
      BY <2>2, <2>5, MentionsType
    <3>2. CASE tx[t].on = None
      <4>1. [to |-> Owner, from |-> tx[t].by, type |-> "comment", on |-> Post] \in Notification
        BY <2>5, IdAssumption, LockType DEF Notification
      <4> QED  BY <3>1, <3>2, <4>1 DEF createCommentNotifications
    <3>3. CASE tx[t].on # None
      <4>1. comment[tx[t].on].author \in User /\ root \in Row \cup {None}
        BY <2>3, <2>5, <3>3, RootType, LockType
      <4>2. [to |-> comment[tx[t].on].author, from |-> tx[t].by, type |-> "reply", on |-> root]
              \in Notification
        BY <2>5, <4>1 DEF Notification
      <4> QED  BY <3>1, <3>3, <4>2 DEF createCommentNotifications
    <3> QED  BY <3>2, <3>3
  <2> HIDE DEF notes, new
  <2>7. unread' \subseteq Notification
    <3>1. unread \subseteq Notification /\ Foreign(notes) \subseteq notes  BY DEF Sound, Typed, Foreign
    <3> QED  BY <1>2, <2>6, <3>1 DEF notes, root
  <2>8. /\ record' \in [Comment -> Seq(ModerationRecord)]
        /\ \A x \in Comment \ {c} : record'[x] = record[x]
        /\ DOMAIN record[c] \subseteq DOMAIN record'[c]
        /\ Len(record'[c]) = Len(record[c]) + 1 /\ record'[c][Len(record[c]) + 1].last = tx[t].arg
    BY <1>2, <2>2, NewRecord
  <2>9. new.rev = Len(record'[c]) /\ new.rev \in 1 .. MaxRev /\ new.mod = record'[c][new.rev].last
    <3>1. Len(record[c]) = 0  BY <2>2, PlanRange
    <3>2. Len(record'[c]) = 1 /\ record'[c][1].last = tx[t].arg  BY <2>8, <3>1
    <3> QED  BY <2>2, <3>2, BoundAssumption
  <2>10. WriteComment(t, c, new)  BY <1>2 DEF new
  <2> QED  BY <1>2, <2>1, <2>2, <2>7, <2>8, <2>9, <2>10, WriteSound
<1> QED  BY <1>1, <1>2 DEF Create

(* Operations on a comment that exists. *)
LEMMA WriterRow ==
  ASSUME Sound, NEW t \in Tx, tx[t].op \in Writers
  PROVE  /\ tx[t].id \in Comment /\ Exists(tx[t].id) /\ tx[t].by \in User
         /\ tx[t].mentions \in SUBSET User
         /\ comment[tx[t].id] \in CommentRow /\ comment[tx[t].id].author # None
         /\ comment[tx[t].id].root # None =>
              /\ Exists(comment[tx[t].id].root)
              /\ comment[comment[tx[t].id].root].root = None
         /\ comment[tx[t].id].rev = Len(record[tx[t].id]) /\ comment[tx[t].id].rev \in 1 .. MaxRev
         /\ comment[tx[t].id].rev \in DOMAIN record[tx[t].id]
         /\ comment[tx[t].id].mod = record[tx[t].id][comment[tx[t].id].rev].last
         /\ comment[tx[t].id].mod = "block" <=> comment[tx[t].id].deleted = "moderation"
         /\ record[tx[t].id] \in Seq(ModerationRecord) /\ DecisionSound(t)
         /\ tx[t].op = "update" => tx[t].arg \in Verdict
         /\ tx[t].op = "review" => tx[t].on \in DOMAIN record[tx[t].id] /\ tx[t].arg \in {"pass", "block"}
<1> DEFINE c == tx[t].id
<1>1. ArgSound(t) /\ DecisionSound(t) /\ tx[t] \in TxRow  BY RowType
<1>2. /\ c \in Comment /\ Exists(c) /\ tx[t].by \in User /\ tx[t].mentions \in SUBSET User
      /\ tx[t].op = "update" => tx[t].arg \in Verdict
      /\ tx[t].op = "review" => tx[t].on \in DOMAIN record[c] /\ tx[t].arg \in {"pass", "block"}
  BY <1>1 DEF ArgSound, TxRow
<1>3. RowSound(c) /\ comment[c] \in CommentRow /\ record[c] \in Seq(ModerationRecord)
  BY <1>2 DEF Sound, Typed
<1>4. comment[c].rev = Len(record[c]) /\ comment[c].rev \in 1 .. MaxRev  BY <1>2, <1>3 DEF RowSound
<1>5. comment[c].rev \in DOMAIN record[c]
  <2>1. DOMAIN record[c] = 1 .. Len(record[c])  BY <1>3
  <2> QED  BY <1>4, <2>1, BoundAssumption
<1> HIDE DEF c
<1>6. comment[c].author # None  BY <1>2 DEF Exists
<1> QED  BY <1>1, <1>2, <1>3, <1>4, <1>5, <1>6 DEF RowSound, c

LEMMA EditedRow ==
  ASSUME Sound, NEW t \in Tx, tx[t].op = "update", Len(record[tx[t].id]) < MaxRev
  PROVE  /\ Legal(tx[t].id, Edited(t)) /\ Edited(t).root = comment[tx[t].id].root
         /\ Edited(t).rev = Len(record[tx[t].id]) + 1 /\ Edited(t).rev \in 1 .. MaxRev
         /\ Edited(t).mod = tx[t].arg
         /\ Edited(t).mod = "block" <=> Edited(t).deleted = "moderation"
<1> DEFINE c == tx[t].id
           n == Len(record[c]) + 1
           row == [comment[c] EXCEPT !.rev = n, !.mentions = tx[t].mentions]
<1>1. /\ c \in Comment /\ Exists(c) /\ comment[c] \in CommentRow /\ comment[c].author # None
      /\ tx[t].mentions \in SUBSET User /\ tx[t].arg \in Verdict
      /\ comment[c].root # None => Exists(comment[c].root) /\ comment[comment[c].root].root = None
      /\ record[c] \in Seq(ModerationRecord)
  BY WriterRow DEF Writers
<1>2. n \in 1 .. MaxRev /\ n \in 0 .. MaxRev
  <2>1. Len(record[c]) \in Nat  BY <1>1
  <2> QED  BY <2>1, BoundAssumption
<1>3. Edited(t) = ApplyModeration(row, tx[t].arg)  BY DEF Edited, NextHistoryRevision
<1> HIDE DEF n
<1>4. /\ row \in CommentRow /\ row.author = comment[c].author /\ row.root = comment[c].root
      /\ row.rev = n /\ row.replies = comment[c].replies /\ row.likes = comment[c].likes
  BY <1>1, <1>2 DEF CommentRow
<1> HIDE DEF row
<1> DEFINE new == Edited(t)
<1> HIDE DEF new
<1>5. /\ new \in CommentRow /\ new.author = row.author /\ new.root = row.root /\ new.rev = row.rev
      /\ new.replies = row.replies /\ new.likes = row.likes
      /\ new.mod = tx[t].arg /\ (tx[t].arg = "block" <=> new.deleted = "moderation")
  BY <1>1, <1>3, <1>4, VerdictRow DEF new
<1>6. Legal(c, new)  BY <1>1, <1>4, <1>5 DEF Legal
<1> QED  BY <1>2, <1>4, <1>5, <1>6 DEF n, new

LEMMA UpdateSound == ASSUME Sound, NEW t \in Tx, Update(t) PROVE Sound'
<1> DEFINE c == tx[t].id
<1>1. ASSUME InBody(t, "update"), Len(record[c]) < MaxRev, Decided(t, c, Edited(t)) PROVE Sound'
  <2>1. tx[t].pc = "body" /\ tx[t].op = "update" /\ Ready(t)  BY <1>1 DEF InBody
  <2>2. Edited(t).root = comment[c].root  BY <1>1, <2>1, EditedRow
  <2> QED  BY <1>1, <2>1, <2>2, DecidedStep DEF Writers, Removals
<1>2. ASSUME InCommit(t, "update"), WriteComment(t, c, Edited(t)), moderateComment(c, tx[t].arg),
             unread' = IF tx[t].arg # "pass" THEN unread
                       ELSE unread \cup mentionNotifications(
                               tx[t].by, c, tx[t].mentions \ comment[c].mentions),
             UNCHANGED reaction
      PROVE  Sound'
  <2>1. tx[t].pc = "commit" /\ tx[t].op = "update" /\ tx[t].op \in Writers
    BY <1>2 DEF InCommit, Writers
  <2>2. /\ c \in Comment /\ tx[t].by \in User /\ tx[t].mentions \in SUBSET User /\ tx[t].arg \in Verdict
        /\ Len(record[c]) < MaxRev
    BY <2>1, WriterRow DEF DecisionSound
  <2> DEFINE new == Edited(t)
  <2> HIDE DEF new
  <2>3. /\ Legal(c, new) /\ new.rev = Len(record[c]) + 1 /\ new.rev \in 1 .. MaxRev
        /\ new.mod = tx[t].arg /\ (new.mod = "block" <=> new.deleted = "moderation")
    BY <2>1, <2>2, EditedRow DEF new
  <2>4. /\ record' \in [Comment -> Seq(ModerationRecord)]
        /\ \A x \in Comment \ {c} : record'[x] = record[x]
        /\ DOMAIN record[c] \subseteq DOMAIN record'[c]
        /\ Len(record'[c]) = Len(record[c]) + 1 /\ record'[c][Len(record[c]) + 1].last = tx[t].arg
    BY <1>2, <2>2, NewRecord
  <2>5. unread' \subseteq Notification
    <3>1. mentionNotifications(tx[t].by, c, tx[t].mentions \ comment[c].mentions) \subseteq Notification
      BY <2>2, MentionsType
    <3> QED  BY <1>2, <3>1 DEF Sound, Typed
  <2>6. new.rev = Len(record'[c]) /\ new.mod = record'[c][new.rev].last  BY <2>3, <2>4
  <2>7. WriteComment(t, c, new)  BY <1>2 DEF new
  <2> QED  BY <1>2, <2>1, <2>2, <2>3, <2>4, <2>5, <2>6, <2>7, WriteSound
<1> QED  BY <1>1, <1>2 DEF Update

(* A removal by the author or an administrator. *)
LEMMA RemovalCommit ==
  ASSUME Sound, NEW t \in Tx, tx[t].pc = "commit", tx[t].op \in Removals,
         NEW reason \in {"author", "admin"}, WriteComment(t, tx[t].id, SoftDelete(tx[t].id, reason)),
         UNCHANGED <<record, reaction, unread>>
  PROVE  Sound'
<1> DEFINE c == tx[t].id
           new == SoftDelete(c, reason)
<1>0. tx[t].op \in Writers /\ tx[t].op # "create"  BY DEF Writers, Removals
<1>1. /\ c \in Comment /\ comment[c] \in CommentRow /\ comment[c].author # None
      /\ comment[c].root # None => Exists(comment[c].root) /\ comment[comment[c].root].root = None
      /\ comment[c].rev = Len(record[c]) /\ comment[c].rev \in 1 .. MaxRev
      /\ comment[c].mod = record[c][comment[c].rev].last
      /\ comment[c].mod = "block" <=> comment[c].deleted = "moderation"
      /\ comment[c].deleted = "no"
  BY <1>0, WriterRow DEF DecisionSound
<1>2. /\ new \in CommentRow /\ new.author = comment[c].author /\ new.root = comment[c].root
      /\ new.replies = comment[c].replies /\ new.likes = comment[c].likes
      /\ new.rev = comment[c].rev /\ new.mod = comment[c].mod /\ new.deleted = reason
  BY <1>1 DEF SoftDelete, CommentRow
<1> HIDE DEF new
<1>3. Legal(c, new)  BY <1>1, <1>2 DEF Legal
<1>4. new.mod = "block" <=> new.deleted = "moderation"  BY <1>1, <1>2
<1>5. /\ record' \in [Comment -> Seq(ModerationRecord)] /\ record' = record /\ reaction' = reaction
      /\ unread' \subseteq Notification
  BY DEF Sound, Typed
<1>6. WriteComment(t, c, new)  BY DEF new
<1>7. /\ \A x \in Comment \ {c} : record'[x] = record[x]
      /\ DOMAIN record[c] \subseteq DOMAIN record'[c]
      /\ new.rev = Len(record'[c]) /\ new.rev \in 1 .. MaxRev /\ new.mod = record'[c][new.rev].last
  BY <1>1, <1>2, <1>5
<1> QED  BY <1>0, <1>1, <1>3, <1>4, <1>5, <1>6, <1>7, WriteSound

LEMMA RemovalSound ==
  ASSUME Sound, NEW t \in Tx, Delete(t) \/ DeleteComment(t)
  PROVE  Sound'
<1> DEFINE c == tx[t].id
<1>1. ASSUME NEW op \in Removals, NEW reason \in {"author", "admin"}, InBody(t, op),
             comment[c].deleted = "no", Decided(t, c, SoftDelete(c, reason))
      PROVE  Sound'
  <2>1. tx[t].pc = "body" /\ tx[t].op = op /\ Ready(t)  BY <1>1 DEF InBody
  <2>2. tx[t].op \in Writers /\ tx[t].op # "update"  BY <1>1, <2>1 DEF Removals, Writers
  <2>3. comment[c] \in CommentRow  BY <2>2, WriterRow
  <2>4. SoftDelete(c, reason).root = comment[c].root  BY <2>3 DEF SoftDelete, CommentRow
  <2> QED  BY <1>1, <2>1, <2>2, <2>4, DecidedStep
<1>2. ASSUME NEW op \in Removals, NEW reason \in {"author", "admin"}, InCommit(t, op),
             WriteComment(t, c, SoftDelete(c, reason)), UNCHANGED <<record, reaction, unread>>
      PROVE  Sound'
  <2>1. tx[t].pc = "commit" /\ tx[t].op \in Removals  BY <1>2 DEF InCommit
  <2> QED  BY <1>2, <2>1, RemovalCommit
<1> QED  BY <1>1, <1>2 DEF Delete, DeleteComment, Removals

(* A restoration, and the verdict of a reviewer: the row and the record. *)
LEMMA VerdictCommit ==
  ASSUME Sound, NEW t \in Tx, tx[t].pc = "commit", tx[t].op \in Writers, NEW new,
         NEW n \in DOMAIN record[tx[t].id], NEW e \in ModerationRecord,
         record' = [record EXCEPT ![tx[t].id] = [record[tx[t].id] EXCEPT ![n] = e]],
         WriteComment(t, tx[t].id, new), UNCHANGED <<reaction, unread>>,
         new \in CommentRow, new.author = comment[tx[t].id].author,
         new.root = comment[tx[t].id].root, new.replies = comment[tx[t].id].replies,
         new.likes = comment[tx[t].id].likes, new.rev = comment[tx[t].id].rev,
         new.mod = "block" <=> new.deleted = "moderation",
         n = new.rev => new.mod = e.last,
         n # new.rev => new.mod = comment[tx[t].id].mod
  PROVE  Sound'
<1> DEFINE c == tx[t].id
<1>1. /\ c \in Comment /\ comment[c].author # None
      /\ comment[c].root # None => Exists(comment[c].root) /\ comment[comment[c].root].root = None
      /\ comment[c].rev = Len(record[c]) /\ comment[c].rev \in 1 .. MaxRev
      /\ comment[c].rev \in DOMAIN record[c]
      /\ comment[c].mod = record[c][comment[c].rev].last
  BY WriterRow
<1>2. /\ record' \in [Comment -> Seq(ModerationRecord)]
      /\ \A x \in Comment \ {c} : record'[x] = record[x]
      /\ DOMAIN record'[c] = DOMAIN record[c] /\ Len(record'[c]) = Len(record[c])
      /\ record'[c][n] = e /\ \A m \in DOMAIN record[c] \ {n} : record'[c][m] = record[c][m]
  BY <1>1, NewVerdict
<1>3. Legal(c, new)  BY <1>1 DEF Legal
<1>4. unread' \subseteq Notification /\ reaction' = reaction  BY DEF Sound, Typed
<1>5. new.mod = record'[c][new.rev].last
  <2>1. CASE n = new.rev  BY <1>2, <2>1
  <2>2. CASE n # new.rev  BY <1>1, <1>2, <2>2
  <2> QED  BY <2>1, <2>2
<1>6. /\ DOMAIN record[c] \subseteq DOMAIN record'[c] /\ new.rev = Len(record'[c])
      /\ new.rev \in 1 .. MaxRev
  BY <1>1, <1>2
<1> QED  BY <1>1, <1>2, <1>3, <1>4, <1>5, <1>6, WriteSound

LEMMA RestoreSound == ASSUME Sound, NEW t \in Tx, RestoreComment(t) PROVE Sound'
<1> DEFINE c == tx[t].id
           new == [comment[c] EXCEPT !.deleted = "no", !.mod = "pass"]
<1>0. tx[t].op = "restore" /\ tx[t].op \in Writers  BY DEF RestoreComment, InBody, InCommit, Writers
<1>1. /\ c \in Comment /\ comment[c] \in CommentRow /\ comment[c].rev \in DOMAIN record[c]
      /\ record[c] \in Seq(ModerationRecord) /\ record \in [Comment -> Seq(ModerationRecord)]
  BY <1>0, WriterRow DEF Sound, Typed
<1>2. /\ new \in CommentRow /\ new.author = comment[c].author /\ new.root = comment[c].root
      /\ new.replies = comment[c].replies /\ new.likes = comment[c].likes
      /\ new.rev = comment[c].rev /\ new.mod = "pass" /\ new.deleted = "no"
  BY <1>1 DEF CommentRow, Verdict
<1>3. CASE InBody(t, "restore") /\ Decided(t, c, new)
  <2>1. tx[t].pc = "body" /\ Ready(t)  BY <1>3 DEF InBody
  <2> HIDE DEF new
  <2> QED  BY <1>0, <1>2, <1>3, <2>1, DecidedStep DEF Removals
<1>4. CASE /\ InCommit(t, "restore") /\ WriteComment(t, c, new)
           /\ record' = [record EXCEPT ![c][comment[c].rev].last = "pass"]
           /\ UNCHANGED <<reaction, unread>>
  <2> DEFINE n == comment[c].rev
             e == [record[c][n] EXCEPT !.last = "pass"]
  <2>1. record[c][n] \in ModerationRecord  BY <1>1
  <2>2. e \in ModerationRecord /\ e.last = "pass"  BY <2>1 DEF ModerationRecord, Verdict
  <2>3. record' = [record EXCEPT ![c] = [record[c] EXCEPT ![n] = e]]  BY <1>1, <1>4
  <2>4. tx[t].pc = "commit" /\ WriteComment(t, c, new)  BY <1>4 DEF InCommit
  <2> HIDE DEF new, e
  <2> QED  BY <1>0, <1>1, <1>2, <1>4, <2>2, <2>3, <2>4, VerdictCommit
<1> QED  BY <1>3, <1>4 DEF RestoreComment

LEMMA ReviewSound == ASSUME Sound, NEW t \in Tx, ManualReview(t) PROVE Sound'
<1> DEFINE c == tx[t].id
           r == tx[t].on
           new == applyManualCommentVerdict(c, r, tx[t].arg)
<1>0. tx[t].op = "review" /\ tx[t].op \in Writers  BY DEF ManualReview, InBody, InCommit, Writers
<1>1. /\ c \in Comment /\ comment[c] \in CommentRow /\ r \in DOMAIN record[c]
      /\ tx[t].arg \in {"pass", "block"} /\ tx[t].arg \in Verdict
      /\ comment[c].mod = "block" <=> comment[c].deleted = "moderation"
      /\ record[c] \in Seq(ModerationRecord) /\ record \in [Comment -> Seq(ModerationRecord)]
  BY <1>0, WriterRow DEF Sound, Typed, Verdict
<1>2. /\ new \in CommentRow /\ new.author = comment[c].author /\ new.root = comment[c].root
      /\ new.replies = comment[c].replies /\ new.likes = comment[c].likes
      /\ new.rev = comment[c].rev /\ (new.mod = "block" <=> new.deleted = "moderation")
      /\ (r = comment[c].rev => new.mod = tx[t].arg) /\ (r # comment[c].rev => new.mod = comment[c].mod)
  <2>1. CASE r = comment[c].rev
    <3>1. new = ApplyModeration(comment[c], tx[t].arg)
      BY <2>1 DEF applyManualCommentVerdict, IsCurrentContentRevision
    <3> HIDE DEF new
    <3>2. /\ new \in CommentRow /\ new.author = comment[c].author /\ new.root = comment[c].root
          /\ new.replies = comment[c].replies /\ new.likes = comment[c].likes
          /\ new.rev = comment[c].rev /\ (tx[t].arg = "block" <=> new.deleted = "moderation")
          /\ new.mod = tx[t].arg
      BY <1>1, <3>1, VerdictRow
    <3> QED  BY <2>1, <3>2
  <2>2. CASE r # comment[c].rev
    <3>1. new = comment[c]  BY <2>2 DEF applyManualCommentVerdict, IsCurrentContentRevision
    <3> HIDE DEF new
    <3> QED  BY <1>1, <2>2, <3>1
  <2> QED  BY <2>1, <2>2
<1>3. CASE InBody(t, "review") /\ Decided(t, c, new)
  <2>1. tx[t].pc = "body" /\ Ready(t)  BY <1>3 DEF InBody
  <2> HIDE DEF new
  <2> QED  BY <1>0, <1>2, <1>3, <2>1, DecidedStep DEF Removals
<1>4. CASE /\ InCommit(t, "review") /\ WriteComment(t, c, new)
           /\ record' = [record EXCEPT ![c][r] = [@ EXCEPT !.last = tx[t].arg, !.open = FALSE]]
           /\ UNCHANGED <<reaction, unread>>
  <2> DEFINE e == [record[c][r] EXCEPT !.last = tx[t].arg, !.open = FALSE]
  <2>1. record[c][r] \in ModerationRecord  BY <1>1
  <2>2. e \in ModerationRecord /\ e.last = tx[t].arg  BY <1>1, <2>1 DEF ModerationRecord
  <2>3. record' = [record EXCEPT ![c] = [record[c] EXCEPT ![r] = e]]  BY <1>1, <1>4
  <2>4. tx[t].pc = "commit" /\ WriteComment(t, c, new)  BY <1>4 DEF InCommit
  <2> HIDE DEF new, e
  <2>5. new.mod = "block" <=> new.deleted = "moderation"  BY <1>2
  <2>6. r = new.rev => new.mod = e.last  BY <1>2, <2>2
  <2>7. r # new.rev => new.mod = comment[c].mod  BY <1>2
  <2>8. UNCHANGED <<reaction, unread>>  BY <1>4
  <2>9. /\ new \in CommentRow /\ new.author = comment[c].author /\ new.root = comment[c].root
        /\ new.replies = comment[c].replies /\ new.likes = comment[c].likes
        /\ new.rev = comment[c].rev
    BY <1>2
  <2> QED  BY <1>0, <1>1, <2>2, <2>3, <2>4, <2>5, <2>6, <2>7, <2>8, <2>9, VerdictCommit
<1> QED  BY <1>3, <1>4 DEF ManualReview


-----------------------------------------------------------------------------
(* Reactions. *)
LEMMA MemberCount ==
  ASSUME NEW A, NEW B, NEW x, IsFiniteSet(A), B \ {x} = A \ {x}, NEW d,
         d = (IF x \in B THEN 1 ELSE 0) - (IF x \in A THEN 1 ELSE 0)
  PROVE  IsFiniteSet(B) /\ Cardinality(B) = Cardinality(A) + d /\ Cardinality(B) \in Nat
<1>1. /\ IsFiniteSet(B) /\ Cardinality(A) \in Nat /\ Cardinality(B) \in Nat
      /\ x \in A /\ x \in B => Cardinality(B) = Cardinality(A)
      /\ x \notin A /\ x \in B => Cardinality(B) = Cardinality(A) + 1
      /\ x \in A /\ x \notin B => Cardinality(B) = Cardinality(A) - 1
      /\ x \notin A /\ x \notin B => Cardinality(B) = Cardinality(A)
  BY OneMember
<1> QED  BY <1>1

LikesOf(R, c) == {x \in R : x.on = c}
PostLikes(R) == {x \in R : x.on = Post /\ x.kind = "like"}
Favorites(R) == {x \in R : x.kind = "favorite"}

(* The tables of reactions are disjoint. *)
LEMMA ReactionKinds ==
  ASSUME NEW x \in Reaction
  PROVE  /\ x.by \in User
         /\ \/ x.kind = "follow" /\ x.on \in User /\ x.on \notin Comment /\ x.on # Post
            \/ x.kind = "favorite" /\ x.on = Post /\ x.on \notin Comment
            \/ x.kind = "like" /\ x.on = Post /\ x.on \notin Comment
            \/ x.kind = "like" /\ x.on \in Comment /\ x.on # Post
<1>1. CASE x \in PostLike  BY <1>1, NoneAssumption DEF PostLike
<1>2. CASE x \in CommentLike  BY <1>2, NoneAssumption DEF CommentLike
<1>3. CASE x \in Favorite  BY <1>3, NoneAssumption DEF Favorite
<1>4. CASE x \in Follow  BY <1>4, TableAssumption DEF Follow
<1> QED  BY <1>1, <1>2, <1>3, <1>4 DEF Reaction

(* A commit that leaves the comments and the reader alone. *)
LEMMA TablesStand ==
  ASSUME Sound, NEW t \in Tx, tx[t].pc # "idle", Committed(t), UNCHANGED <<comment, record, page>>,
         post' \in PostRow, reaction' \subseteq Reaction, IsFiniteSet(reaction'),
         unread' \subseteq Notification, CountsExact'
  PROVE  Sound'
<1>1. comment' \in [Comment -> CommentRow] /\ record' \in [Comment -> Seq(ModerationRecord)]
  BY DEF Sound, Typed
<1>2. \A c \in Comment : Exists(c)' = Exists(c)  BY DEF Exists
<1>3. \A c \in Comment : RowSound(c)'  BY DEF Sound, RowSound, Exists
<1>4. WalkSound'  BY DEF Sound, WalkSound
<1> QED  BY <1>1, <1>2, <1>3, <1>4, CommitStep

(* A counter of likes moves: nothing else of the comment does. *)
LEMMA LikeStep ==
  ASSUME Sound, NEW t \in Tx, tx[t].pc # "idle", Committed(t), NEW c \in Comment, Exists(c), NEW n \in Nat,
         comment' = [comment EXCEPT ![c].likes = n],
         page' = [page EXCEPT !.kept = Keep([comment EXCEPT ![c].likes = n])],
         UNCHANGED <<post, record>>, reaction' \subseteq Reaction, IsFiniteSet(reaction'),
         unread' \subseteq Notification,
         \A x \in Comment \ {c} : LikesOf(reaction', x) = LikesOf(reaction, x),
         Cardinality(LikesOf(reaction', c)) = n,
         PostLikes(reaction') = PostLikes(reaction), Favorites(reaction') = Favorites(reaction)
  PROVE  Sound'
<1> DEFINE q == [comment[c] EXCEPT !.likes = n]
<1>0. /\ comment \in [Comment -> CommentRow] /\ comment[c] \in CommentRow
      /\ record' \in [Comment -> Seq(ModerationRecord)] /\ post' \in PostRow
  BY DEF Sound, Typed
<1>1. /\ q \in CommentRow /\ q.author = comment[c].author /\ q.root = comment[c].root
      /\ q.deleted = comment[c].deleted /\ q.mod = comment[c].mod /\ q.rev = comment[c].rev
      /\ q.replies = comment[c].replies /\ q.likes = n
  BY <1>0 DEF CommentRow
<1>2. comment' = [comment EXCEPT ![c] = q]  BY <1>0
<1> HIDE DEF q
<1>3. /\ comment' \in [Comment -> CommentRow] /\ comment'[c] = q
      /\ \A x \in Comment \ {c} : comment'[x] = comment[x]
  BY <1>0, <1>1, <1>2
<1>4. \A x \in Comment :
         /\ comment'[x].author = comment[x].author /\ comment'[x].root = comment[x].root
         /\ comment'[x].deleted = comment[x].deleted /\ comment'[x].mod = comment[x].mod
         /\ comment'[x].rev = comment[x].rev /\ comment'[x].replies = comment[x].replies
  BY <1>1, <1>3
<1>5. \A x \in Comment : Exists(x)' = Exists(x)  BY <1>4 DEF Exists
<1>6. ASSUME NEW x \in Comment PROVE RowSound(x)'
  <2>1. RowSound(x) /\ comment[x].root \in Comment \cup {None}  BY <1>0 DEF Sound, CommentRow
  <2>2. ~Exists(x) => comment'[x] = comment[x]  BY <1>3
  <2> QED  BY <1>4, <1>5, <2>1, <2>2 DEF RowSound
<1>7. WalkSound'  BY WalkKeeps
<1>8. CountsExact'
  <2>1. \A x \in Comment : Public(comment'[x]) <=> Public(comment[x])  BY <1>4 DEF Public
  <2>2. \A x \in Comment : RootOf(x)' = RootOf(x) /\ RootOf(x) \in Comment
    BY <1>0, <1>4 DEF RootOf, CommentRow
  <2>3. {x \in Comment : Public(comment'[x]) /\ Public(comment'[RootOf(x)'])}
           = {x \in Comment : Public(comment[x]) /\ Public(comment[RootOf(x)])}
    BY <2>1, <2>2
  <2>4. \A x \in Comment : {y \in Comment : Public(comment'[y]) /\ comment'[y].root = x}
                              = {y \in Comment : Public(comment[y]) /\ comment[y].root = x}
    BY <1>4, <2>1
  <2>5. CountsExact  BY DEF Sound
  <2>6. \A x \in Comment : comment'[x].likes = Cardinality({y \in reaction' : y.on = x})
    <3>1. ASSUME NEW x \in Comment PROVE comment'[x].likes = Cardinality(LikesOf(reaction', x))
      <4>1. CASE x = c  BY <1>1, <1>3, <4>1
      <4>2. CASE x # c  BY <1>3, <2>5, <4>2 DEF CountsExact, LikesOf
      <4> QED  BY <4>1, <4>2
    <3> QED  BY <3>1 DEF LikesOf
  <2>7. /\ {y \in reaction' : y.on = Post /\ y.kind = "like"}
              = {y \in reaction : y.on = Post /\ y.kind = "like"}
        /\ {y \in reaction' : y.kind = "favorite"} = {y \in reaction : y.kind = "favorite"}
    BY DEF PostLikes, Favorites
  <2>8. /\ post'.comments = Cardinality({x \in Comment : Public(comment'[x]) /\ Public(comment'[RootOf(x)'])})
        /\ post'.likes = Cardinality({y \in reaction' : y.on = Post /\ y.kind = "like"})
        /\ post'.favorites = Cardinality({y \in reaction' : y.kind = "favorite"})
    BY <2>3, <2>5, <2>7 DEF CountsExact
  <2>9. \A x \in Comment : comment'[x].replies
                             = Cardinality({y \in Comment : Public(comment'[y]) /\ comment'[y].root = x})
    <3>1. \A x \in Comment : comment[x].replies
                               = Cardinality({y \in Comment : Public(comment[y]) /\ comment[y].root = x})
      BY <2>5 DEF CountsExact
    <3>2. \A x \in Comment : comment'[x].replies = comment[x].replies  BY <1>4
    <3> QED  BY <2>4, <3>1, <3>2
  <2> QED  BY <2>6, <2>8, <2>9 DEF CountsExact
<1>9. \A x \in Comment : Exists(x) => /\ Exists(x)' /\ comment'[x].root = comment[x].root
                                      /\ DOMAIN record[x] \subseteq DOMAIN record'[x]
  BY <1>4, <1>5
<1>10. \A x \in Comment : ~Exists(x) => ~Exists(x)' \/ (tx[t].op = "create" /\ x = tx[t].id)
  BY <1>5
<1>11. \A x \in Comment : Exists(x) =>
         \/ comment'[x].deleted = comment[x].deleted /\ Len(record'[x]) = Len(record[x])
         \/ x = tx[t].id /\ tx[t].op \in Writers /\ tx[t].pc = "commit"
  BY <1>4
<1> QED  BY <1>0, <1>3, <1>6, <1>7, <1>8, <1>9, <1>10, <1>11, CommitStep

LEMMA ReactionCommit ==
  ASSUME Sound, NEW t \in Tx, tx[t].pc # "idle", NEW x \in Reaction, x.on \in Comment => Exists(x.on),
         reaction' \subseteq Reaction, reaction' \ {x} = reaction \ {x}, NEW d,
         d = (IF x \in reaction' THEN 1 ELSE 0) - (IF x \in reaction THEN 1 ELSE 0),
         danshi_sync_reactions(x, d), unread' \subseteq Notification, Committed(t), record' = record
  PROVE  Sound'
<1>0. /\ CountsExact /\ IsFiniteSet(reaction) /\ post \in PostRow
      /\ comment \in [Comment -> CommentRow]
  BY DEF Sound, Typed
<1>1. IsFiniteSet(reaction')  BY <1>0, MemberCount
<1>2. \A c : x.on # c => LikesOf(reaction', c) = LikesOf(reaction, c)  BY DEF LikesOf
<1>3. ~(x.on = Post /\ x.kind = "like") => PostLikes(reaction') = PostLikes(reaction)
  BY DEF PostLikes
<1>4. x.kind # "favorite" => Favorites(reaction') = Favorites(reaction)  BY DEF Favorites
<1>5. /\ \A c \in Comment : comment[c].likes = Cardinality(LikesOf(reaction, c))
      /\ post.likes = Cardinality(PostLikes(reaction))
      /\ post.favorites = Cardinality(Favorites(reaction))
  BY <1>0 DEF CountsExact, LikesOf, PostLikes, Favorites
<1>6. /\ IsFiniteSet(PostLikes(reaction)) /\ IsFiniteSet(Favorites(reaction))
      /\ \A c : IsFiniteSet(LikesOf(reaction, c))
  <2>1. /\ PostLikes(reaction) \subseteq reaction /\ Favorites(reaction) \subseteq reaction
        /\ \A c : LikesOf(reaction, c) \subseteq reaction
    BY DEF PostLikes, Favorites, LikesOf
  <2> QED  BY <1>0, <2>1, FS_Subset
(* The counts of the tables of reactions when the comments stay as they are. *)
<1>7. ASSUME UNCHANGED <<comment, page>>, post' \in PostRow, post'.comments = post.comments,
             post'.likes = Cardinality(PostLikes(reaction')),
             post'.favorites = Cardinality(Favorites(reaction')), x.on \notin Comment
      PROVE  Sound'
  <2>1. \A c \in Comment : comment'[c].likes = Cardinality({y \in reaction' : y.on = c})
    BY <1>2, <1>5, <1>7 DEF LikesOf
  <2>2. \A c : RootOf(c)' = RootOf(c)  BY <1>7 DEF RootOf
  <2>3. CountsExact'
    <3>1. /\ post'.comments = Cardinality({c \in Comment : Public(comment'[c]) /\ Public(comment'[RootOf(c)'])})
          /\ \A c \in Comment : comment'[c].replies
                = Cardinality({e \in Comment : Public(comment'[e]) /\ comment'[e].root = c})
      BY <1>0, <1>7, <2>2 DEF CountsExact
    <3>2. /\ post'.likes = Cardinality({y \in reaction' : y.on = Post /\ y.kind = "like"})
          /\ post'.favorites = Cardinality({y \in reaction' : y.kind = "favorite"})
      BY <1>7 DEF PostLikes, Favorites
    <3> QED  BY <2>1, <3>1, <3>2 DEF CountsExact
  <2> QED  BY <1>1, <1>7, <2>3, TablesStand
<1>8. CASE x.kind = "follow" /\ x.on \notin Comment /\ x.on # Post
  <2>1. UNCHANGED <<comment, page, post>>  BY <1>8 DEF danshi_sync_reactions
  <2> QED  BY <1>0, <1>3, <1>4, <1>5, <1>7, <1>8, <2>1
<1>9. CASE x.kind = "favorite" /\ x.on = Post /\ x.on \notin Comment
  <2>1. post' = [post EXCEPT !.favorites = @ + d] /\ UNCHANGED <<comment, page>>
    BY <1>9 DEF danshi_sync_reactions
  <2>2. Favorites(reaction') \ {x} = Favorites(reaction) \ {x}  BY DEF Favorites
  <2>3. /\ x \in Favorites(reaction') <=> x \in reaction'
        /\ x \in Favorites(reaction) <=> x \in reaction
    BY <1>9 DEF Favorites
  <2>4. /\ Cardinality(Favorites(reaction')) = Cardinality(Favorites(reaction)) + d
        /\ Cardinality(Favorites(reaction')) \in Nat
    <3>1. d = (IF x \in Favorites(reaction') THEN 1 ELSE 0) - (IF x \in Favorites(reaction) THEN 1 ELSE 0)
      BY <2>3
    <3> QED  BY <1>6, <2>2, <3>1, MemberCount
  <2>5. /\ post' \in PostRow /\ post'.comments = post.comments /\ post'.likes = post.likes
        /\ post'.favorites = Cardinality(Favorites(reaction'))
    <3> DEFINE n == Cardinality(Favorites(reaction'))
    <3>1. post' = [post EXCEPT !.favorites = n]  BY <1>0, <1>5, <2>1, <2>4 DEF PostRow
    <3>2. n \in Nat  BY <2>4
    <3> HIDE DEF n
    <3>3. post' \in PostRow /\ post'.comments = post.comments /\ post'.likes = post.likes
          /\ post'.favorites = n
      BY <1>0, <3>1, <3>2 DEF PostRow
    <3> QED  BY <3>3 DEF n
  <2> QED  BY <1>3, <1>5, <1>7, <1>9, <2>1, <2>5
<1>10. CASE x.kind = "like" /\ x.on = Post /\ x.on \notin Comment
  <2>1. post' = [post EXCEPT !.likes = @ + d] /\ UNCHANGED <<comment, page>>
    BY <1>10 DEF danshi_sync_reactions
  <2>2. PostLikes(reaction') \ {x} = PostLikes(reaction) \ {x}  BY DEF PostLikes
  <2>3. /\ x \in PostLikes(reaction') <=> x \in reaction'
        /\ x \in PostLikes(reaction) <=> x \in reaction
    BY <1>10 DEF PostLikes
  <2>4. /\ Cardinality(PostLikes(reaction')) = Cardinality(PostLikes(reaction)) + d
        /\ Cardinality(PostLikes(reaction')) \in Nat
    <3>1. d = (IF x \in PostLikes(reaction') THEN 1 ELSE 0) - (IF x \in PostLikes(reaction) THEN 1 ELSE 0)
      BY <2>3
    <3> QED  BY <1>6, <2>2, <3>1, MemberCount
  <2>5. /\ post' \in PostRow /\ post'.comments = post.comments /\ post'.favorites = post.favorites
        /\ post'.likes = Cardinality(PostLikes(reaction'))
    <3> DEFINE n == Cardinality(PostLikes(reaction'))
    <3>1. post' = [post EXCEPT !.likes = n]  BY <1>0, <1>5, <2>1, <2>4 DEF PostRow
    <3>2. n \in Nat  BY <2>4
    <3> HIDE DEF n
    <3>3. post' \in PostRow /\ post'.comments = post.comments /\ post'.favorites = post.favorites
          /\ post'.likes = n
      BY <1>0, <3>1, <3>2 DEF PostRow
    <3> QED  BY <3>3 DEF n
  <2> QED  BY <1>4, <1>5, <1>7, <1>10, <2>1, <2>5
<1>11. CASE x.kind = "like" /\ x.on \in Comment /\ x.on # Post
  <2> DEFINE c == x.on
             n == Cardinality(LikesOf(reaction', c))
  <2>1. /\ comment' = [comment EXCEPT ![c].likes = @ + d]
        /\ page' = [page EXCEPT !.kept = Keep([comment EXCEPT ![c].likes = @ + d])]
        /\ UNCHANGED post
    BY <1>11 DEF danshi_sync_reactions
  <2>2. LikesOf(reaction', c) \ {x} = LikesOf(reaction, c) \ {x}  BY DEF LikesOf
  <2>3. (x \in LikesOf(reaction', c) <=> x \in reaction') /\ (x \in LikesOf(reaction, c) <=> x \in reaction)
    BY DEF LikesOf
  <2>4. n = Cardinality(LikesOf(reaction, c)) + d /\ n \in Nat
    <3>1. d = (IF x \in LikesOf(reaction', c) THEN 1 ELSE 0) - (IF x \in LikesOf(reaction, c) THEN 1 ELSE 0)
      BY <2>3
    <3> QED  BY <1>6, <2>2, <3>1, MemberCount
  <2>5. comment[c].likes + d = n /\ c \in Comment /\ Exists(c)  BY <1>5, <1>11, <2>4
  <2>6. [comment EXCEPT ![c].likes = @ + d] = [comment EXCEPT ![c].likes = n]
    BY <1>0, <2>5
  <2>7. PostLikes(reaction') = PostLikes(reaction) /\ Favorites(reaction') = Favorites(reaction)
    BY <1>3, <1>4, <1>11
  <2>8. \A y \in Comment \ {c} : LikesOf(reaction', y) = LikesOf(reaction, y)  BY <1>2
  <2>9. /\ comment' = [comment EXCEPT ![c].likes = n]
        /\ page' = [page EXCEPT !.kept = Keep([comment EXCEPT ![c].likes = n])]
        /\ UNCHANGED <<post, record>> /\ Cardinality(LikesOf(reaction', c)) = n
    BY <2>1, <2>6
  <2> HIDE DEF n
  <2> QED  BY <1>1, <2>4, <2>5, <2>7, <2>8, <2>9, LikeStep
<1> QED  BY <1>8, <1>9, <1>10, <1>11, ReactionKinds

LEMMA ReactSound == ASSUME Sound, NEW t \in Tx, NEW table, React(t, table) PROVE Sound'
<1> DEFINE x == tx[t].arg
<1>0. ASSUME tx[t].op = "react" PROVE x \in Reaction /\ (x.on \in Comment => Exists(x.on))
  BY <1>0, RowType DEF ArgSound
<1>1. CASE InBody(t, "react") /\ Goto(t, "commit", ReactionLocks(x))  BY <1>1, ReactBody
<1>2. CASE /\ InCommit(t, "react") /\ reaction' = reaction \cup {x}
           /\ danshi_sync_reactions(x, IF x \notin reaction THEN 1 ELSE 0)
           /\ unread' = IF x \notin reaction THEN unread \cup Foreign(reactionNotifications(x)) ELSE unread
           /\ Committed(t) /\ record' = record
  <2>1. tx[t].pc # "idle" /\ x \in Reaction /\ (x.on \in Comment => Exists(x.on))
    BY <1>0, <1>2 DEF InCommit
  <2>2. reaction \subseteq Reaction /\ unread \subseteq Notification  BY DEF Sound, Typed
  <2>3. reaction' \subseteq Reaction /\ reaction' \ {x} = reaction \ {x}  BY <1>2, <2>1, <2>2
  <2>4. unread' \subseteq Notification
    <3> DEFINE n == [to |-> AuthorOf(x.on), from |-> x.by, type |-> x.kind,
                     on |-> IF x.kind = "follow" THEN None ELSE x.on]
    <3> SUFFICES ASSUME x.kind # "favorite" PROVE n \in Notification
      BY <1>2, <2>2 DEF Foreign, reactionNotifications
    <3>1. x.by \in User /\ x.kind \in {"comment", "reply", "mention", "like", "follow"}
      BY <2>1, ReactionKinds
    <3>2. AuthorOf(x.on) \in User
      <4>1. CASE x.on = Post  BY <4>1, IdAssumption, NoneAssumption DEF AuthorOf
      <4>2. CASE x.on \in Comment /\ x.on # Post
        <5>1. comment[x.on].author \in User  BY <2>1, <4>2, RootType
        <5> QED  BY <4>2, <5>1 DEF AuthorOf
      <4>3. CASE x.on \notin Comment /\ x.on # Post
        <5>1. x.on \in User  BY <2>1, <4>3, ReactionKinds
        <5> QED  BY <4>3, <5>1 DEF AuthorOf
      <4> QED  BY <4>1, <4>2, <4>3
    <3>3. (IF x.kind = "follow" THEN None ELSE x.on) \in Row \cup {None}
      BY <2>1, ReactionKinds DEF Row
    <3> QED  BY <3>1, <3>2, <3>3 DEF Notification
  <2> DEFINE d == IF x \notin reaction THEN 1 ELSE 0
  <2>5. d = (IF x \in reaction' THEN 1 ELSE 0) - (IF x \in reaction THEN 1 ELSE 0)  BY <1>2
  <2>6. danshi_sync_reactions(x, d) /\ Committed(t) /\ record' = record  BY <1>2
  <2> HIDE DEF d
  <2> QED  BY <2>1, <2>3, <2>4, <2>5, <2>6, ReactionCommit
<1> QED  BY <1>1, <1>2 DEF React

LEMMA UnreactSound == ASSUME Sound, NEW t \in Tx, NEW table, Unreact(t, table) PROVE Sound'
<1> DEFINE x == tx[t].arg
<1>0. ASSUME tx[t].op = "unreact" PROVE x \in Reaction /\ (x.on \in Comment => Exists(x.on))
  BY <1>0, RowType DEF ArgSound
<1>1. CASE InBody(t, "unreact") /\ Goto(t, "commit", ReactionLocks(x))  BY <1>1, ReactBody
<1>2. CASE /\ InCommit(t, "unreact") /\ reaction' = reaction \ {x}
           /\ danshi_sync_reactions(x, IF x \in reaction THEN -1 ELSE 0)
           /\ Committed(t) /\ UNCHANGED <<record, unread>>
  <2>1. tx[t].pc # "idle" /\ x \in Reaction /\ (x.on \in Comment => Exists(x.on))
    BY <1>0, <1>2 DEF InCommit
  <2>2. reaction \subseteq Reaction /\ unread' \subseteq Notification  BY <1>2 DEF Sound, Typed
  <2>3. reaction' \subseteq Reaction /\ reaction' \ {x} = reaction \ {x}  BY <1>2, <2>2
  <2> DEFINE d == IF x \in reaction THEN -1 ELSE 0
  <2>5. d = (IF x \in reaction' THEN 1 ELSE 0) - (IF x \in reaction THEN 1 ELSE 0)  BY <1>2
  <2>6. danshi_sync_reactions(x, d) /\ Committed(t) /\ record' = record  BY <1>2
  <2> HIDE DEF d
  <2> QED  BY <2>1, <2>2, <2>3, <2>5, <2>6, ReactionCommit
<1> QED  BY <1>1, <1>2 DEF Unreact

LEMMA WritePostSound == ASSUME Sound, NEW t \in Tx, WritePost(t) PROVE Sound'
<1>1. tx[t].pc # "idle" /\ tx[t].arg \in Status /\ post \in PostRow
  BY RowType DEF WritePost, InBody, ArgSound, Sound, Typed
<1>2. /\ post' \in PostRow /\ post'.comments = post.comments /\ post'.likes = post.likes
      /\ post'.favorites = post.favorites
  <2>1. post' = [post EXCEPT !.st = tx[t].arg]  BY DEF WritePost
  <2> QED  BY <1>1, <2>1 DEF PostRow
<1>3. Committed(t) /\ UNCHANGED <<comment, record, reaction, unread, page>>  BY DEF WritePost
<1>4. CountsExact'
  <2>1. \A c : RootOf(c)' = RootOf(c)  BY <1>3 DEF RootOf
  <2>2. CountsExact  BY DEF Sound
  <2> QED  BY <1>2, <1>3, <2>1, <2>2 DEF CountsExact
<1>5. reaction' \subseteq Reaction /\ IsFiniteSet(reaction') /\ unread' \subseteq Notification
  BY <1>3 DEF Sound, Typed
<1> QED  BY <1>1, <1>2, <1>3, <1>4, <1>5, TablesStand

-----------------------------------------------------------------------------
(* The reader.  The keys of a list are in a strict total order. *)
LEMMA KeyOrder ==
  ASSUME NEW k \in Cursor, NEW l \in Cursor, NEW m \in Cursor, k.scope = l.scope, l.scope = m.scope
  PROVE  /\ ~Precedes(k, k)
         /\ Precedes(k, l) /\ Precedes(l, m) => Precedes(k, m)
         /\ k.id # l.id => Precedes(k, l) \/ Precedes(l, k)
<1>1. /\ k.rank \in Int /\ k.made \in Int /\ k.id \in Int
      /\ l.rank \in Int /\ l.made \in Int /\ l.id \in Int
      /\ m.rank \in Int /\ m.made \in Int /\ m.id \in Int
  <2>1. ASSUME NEW x \in Cursor PROVE x.rank \in Int /\ x.made \in Int /\ x.id \in Int
    <3>1. x.rank \in Nat /\ x.made \in 0 .. 1 /\ x.id \in Comment  BY DEF Cursor
    <3>2. \A n \in Nat : n \in Int  OBVIOUS
    <3>3. \A n \in 0 .. 1 : n \in Int  OBVIOUS
    <3>4. Comment \subseteq Nat  BY IdAssumption
    <3> QED  BY <3>1, <3>2, <3>3, <3>4, Zenon
  <2> QED  BY <2>1
<1>2. CASE k.scope = "hot"  BY <1>1, <1>2 DEF Precedes
<1>3. CASE k.scope # "hot"  BY <1>1, <1>3 DEF Precedes
<1> QED  BY <1>2, <1>3

LEMMA KeyType ==
  ASSUME Sound, NEW c \in Comment, NEW sort \in Scope
  PROVE  /\ Key(comment, sort, c) \in Cursor /\ Key(comment, sort, c).scope = sort
         /\ Key(comment, sort, c).id = c
<1>1. comment[c].likes \in Nat /\ comment[c].made \in 0 .. 1  BY DEF Sound, Typed, CommentRow
<1>2. (IF sort = "hot" THEN comment[c].likes ELSE 0) \in Nat  BY <1>1
<1> QED  BY <1>1, <1>2 DEF Key, Cursor

FirstOf(rest, sort) ==
    {c \in rest : \A d \in rest \ {c} : Precedes(Key(comment, sort, c), Key(comment, sort, d))}

(* A finite part of a list that is not empty has exactly one first comment. *)
LEMMA FirstExists ==
  ASSUME Sound, NEW sort \in Scope, NEW rest \in SUBSET Comment, IsFiniteSet(rest), rest # {}
  PROVE  \E c \in rest : FirstOf(rest, sort) = {c}
<1> DEFINE K(c) == Key(comment, sort, c)
           Below(c) == {d \in rest : Precedes(K(d), K(c))}
           T == {Below(c) : c \in rest}
           R == StrictSubsetOrdering(rest)
<1>0. \A c \in rest : K(c) \in Cursor /\ K(c).scope = sort /\ K(c).id = c  BY KeyType
<1> HIDE DEF K
<1>1. IsWellFoundedOn(R, SUBSET rest)
  BY FS_FiniteSubsetsOfFinite, FS_StrictSubsetOrderingWellFounded
<1>2. T \subseteq SUBSET rest /\ T # {}  OBVIOUS
<1> HIDE DEF T, R
<1>3. PICK B \in T : \A b \in T : <<b, B>> \notin R  BY <1>1, <1>2, WFMin
<1>4. PICK c \in rest : B = Below(c)  BY <1>3 DEF T
<1>5. Below(c) = {}
  <2> SUFFICES ASSUME NEW d \in Below(c) PROVE FALSE  OBVIOUS
  <2>1. d \in rest /\ Precedes(K(d), K(c))  OBVIOUS
  <2>2. Below(d) \subseteq Below(c)
    <3>1. ASSUME NEW e \in rest, Precedes(K(e), K(d)) PROVE Precedes(K(e), K(c))
      BY <1>0, <2>1, <3>1, KeyOrder
    <3> QED  BY <3>1
  <2>3. d \notin Below(d)  BY <1>0, <2>1, KeyOrder
  <2>4. Below(d) \in T  BY <2>1 DEF T
  <2>5. <<Below(d), Below(c)>> \in R
    <3> DEFINE X == Below(d)
               Y == Below(c)
    <3>1. X \in SUBSET rest /\ Y \in SUBSET rest /\ X \subseteq Y /\ X # Y  BY <2>2, <2>3
    <3> HIDE DEF X, Y
    <3>2. <<X, Y>> \in R  BY <3>1 DEF R, StrictSubsetOrdering
    <3> QED  BY <3>2 DEF X, Y
  <2> QED  BY <1>3, <1>4, <2>4, <2>5
<1>6. ASSUME NEW d \in rest \ {c} PROVE Precedes(K(c), K(d))
  <2>1. ~Precedes(K(d), K(c))  BY <1>5
  <2> QED  BY <1>0, <2>1, KeyOrder
<1>7. ASSUME NEW d \in rest \ {c} PROVE ~Precedes(K(d), K(c))  BY <1>5
<1>8. FirstOf(rest, sort) = {d \in rest : \A e \in rest \ {d} : Precedes(K(d), K(e))}
  BY DEF FirstOf, K
<1>9. c \in FirstOf(rest, sort)  BY <1>6, <1>8
<1>10. ASSUME NEW d \in FirstOf(rest, sort), d # c PROVE FALSE
  <2>1. d \in rest \ {c} /\ c \in rest \ {d}  BY <1>8, <1>10
  <2> QED  BY <1>7, <1>8, <2>1
<1> QED  BY <1>9, <1>10

LEMMA ReaderStep ==
  ASSUME Sound, UNCHANGED <<comment, record, post, reaction, unread, tx, begun>>, WalkSound'
  PROVE  Sound'
<1>1. Typed'  BY DEF Sound, Typed, Existing, Exists, Active
<1>2. \A c \in Comment : RowSound(c)'  BY DEF Sound, RowSound, Exists
<1>3. CountsExact'  BY CountsStand DEF Sound
<1>4. ASSUME NEW w \in Tx PROVE (ArgSound(w) /\ LockSound(w) /\ DecisionSound(w))'
  <2>1. ArgSound(w) /\ LockSound(w) /\ DecisionSound(w)  BY DEF Sound
  <2>2. ArgSound(w)'  BY <2>1 DEF ArgSound, Exists
  <2>3. LockSound(w)'  BY <2>1 DEF LockSound
  <2>4. DecisionSound(w)'  BY <2>1 DEF DecisionSound
  <2> QED  BY <2>2, <2>3, <2>4
<1>5. Drawn' /\ Exclusive'  BY DEF Sound, Drawn, Exclusive, HeldAgainst
<1> QED  BY <1>1, <1>2, <1>3, <1>4, <1>5 DEF Sound

LEMMA BeginWalkSound ==
  ASSUME Sound, NEW sort \in Scope, NEW floor \in Comment \cup {None}, BeginWalk(sort, floor)
  PROVE  Sound'
<1> DEFINE V == visibleCommentQuery(comment, Reader, floor)
<1>1. /\ page = NoWalk /\ page \in Walk /\ V \in SUBSET Comment
  BY DEF BeginWalk, Sound, WalkSound, visibleCommentQuery
<1>2. page' = [page EXCEPT !.pc = "walk", !.sort = sort, !.floor = floor, !.kept = V]
  BY DEF BeginWalk
<1>3. UNCHANGED <<comment, record, post, reaction, unread, tx, begun>>  BY DEF BeginWalk
<1>4. (V \subseteq visibleCommentQuery(comment, Reader, floor)) /\ V' = V  BY <1>3
<1> HIDE DEF V
<1>5. /\ page' \in Walk /\ page'.pc = "walk" /\ page'.floor = floor /\ page'.kept = V
      /\ page'.after = None /\ page'.seen = {} /\ page'.again = {} /\ page'.missed = {}
  BY <1>1, <1>2 DEF Walk, NoWalk
<1>6. V \subseteq visibleCommentQuery(comment', Reader, floor)  BY <1>3 DEF V
<1>7. WalkSound'  BY <1>5, <1>6 DEF WalkSound
<1> QED  BY <1>3, <1>7, ReaderStep

(* Visible comments exist, and are so many as a page can count. *)
LEMMA VisibleFinite ==
  ASSUME Sound, NEW floor, NEW rest, rest \subseteq visibleCommentQuery(comment, Reader, floor)
  PROVE  rest \in SUBSET Comment /\ IsFiniteSet(rest)
<1>1. Reader # None  BY IdAssumption, NoneAssumption
<1>2. rest \subseteq Existing
  BY <1>1 DEF visibleCommentQuery, commentVisibleToViewer, Public, Existing, Exists
<1>3. IsFiniteSet(Existing) /\ Existing \subseteq Comment  BY DEF Sound, Typed, Existing
<1> QED  BY <1>2, <1>3, FS_Subset

(* The next page of a walk. *)
LEMMA DeliverSound ==
  ASSUME Sound, page.pc = "walk", Deliver(FindPage(page.sort, Reader, page.floor, page.after))
  PROVE  Sound'
<1> DEFINE sort == page.sort
           K(c) == Key(comment, sort, c)
           rest == {c \in visibleCommentQuery(comment, Reader, page.floor) :
                        applyCommentCursor(Key(comment, sort, c), page.after)}
           first == FirstOf(rest, sort)
           more == Cardinality(rest) > 1
           seen == page.seen \cup first
           again == page.again \cup (first \cap page.seen)
<1>0. /\ page \in Walk /\ page.again = {} /\ page.missed = {}
      /\ page.kept \subseteq visibleCommentQuery(comment, Reader, page.floor)
      /\ page.after = None => page.seen = {}
      /\ page.after # None =>
            /\ page.after.scope = page.sort
            /\ \A c \in page.kept : c \in page.seen <=> ~Precedes(page.after, K(c))
  BY DEF Sound, WalkSound
<1>1. /\ sort \in Scope /\ page.after \in Cursor \cup {None} /\ page.seen \in SUBSET Comment
      /\ page.kept \in SUBSET Comment /\ page.floor \in Comment \cup {None}
  BY <1>0 DEF Walk
<1>2. FindPage(page.sort, Reader, page.floor, page.after) = [rows |-> first, hasMore |-> more]
  BY DEF FindPage, FirstOf
<1> DEFINE found == FindPage(page.sort, Reader, page.floor, page.after)
<1> HIDE DEF found
<1>3. /\ page' = IF more THEN [page EXCEPT !.after = commentCursorMeta(first, TRUE, page.sort),
                                           !.seen = seen, !.again = again \cap page.kept]
                 ELSE [NoWalk EXCEPT !.again = again \cap page.kept, !.missed = page.kept \ seen]
      /\ UNCHANGED <<comment, record, post, reaction, unread, tx, begun>>
  <2>1. Deliver(found) /\ found.rows = first /\ found.hasMore = more  BY <1>2 DEF found
  <2> HIDE DEF first, more
  <2> QED  BY <2>1 DEF Deliver
<1>4. rest \in SUBSET Comment /\ IsFiniteSet(rest)  BY VisibleFinite
<1>5. \A c \in Comment : K(c) \in Cursor /\ K(c).scope = sort /\ K(c).id = c  BY <1>1, KeyType
<1>6. \A c \in rest : page.after # None => Precedes(page.after, K(c))  BY DEF applyCommentCursor
<1>7. \A c \in page.kept : c \in rest <=> c \notin page.seen
  <2>1. CASE page.after = None  BY <1>0, <2>1 DEF applyCommentCursor
  <2>2. CASE page.after # None  BY <1>0, <2>2 DEF applyCommentCursor
  <2> QED  BY <2>1, <2>2
<1>8. first \subseteq rest  BY DEF FirstOf
<1>9. again \cap page.kept = {}  BY <1>0, <1>7, <1>8
<1>10. CASE more
  <2>1. rest # {}
    <3>1. Cardinality({}) = 0  BY FS_EmptySet
    <3> QED  BY <1>10, <3>1
  <2> HIDE DEF rest
  <2>2. PICK c \in rest : first = {c}  BY <1>1, <1>4, <2>1, FirstExists
  <2>3. commentCursorMeta(first, TRUE, page.sort) = K(c)
    <3>1. (CHOOSE d \in {c} : TRUE) = c  OBVIOUS
    <3> QED  BY <2>2, <3>1 DEF commentCursorMeta
  <2>4. \A d \in rest \ {c} : Precedes(K(c), K(d))  BY <2>2 DEF FirstOf
  <2> HIDE DEF K
  <2>5. page' = [page EXCEPT !.after = K(c), !.seen = page.seen \cup {c}, !.again = {}]
    BY <1>3, <1>9, <1>10, <2>2, <2>3
  <2>6. /\ page' \in Walk /\ page'.after = K(c) /\ page'.seen = page.seen \cup {c}
        /\ page'.again = {} /\ page'.missed = {} /\ page'.pc = "walk" /\ page'.kept = page.kept
        /\ page'.sort = page.sort /\ page'.floor = page.floor
    <3>1. K(c) \in Cursor  BY <1>4, <1>5
    <3>2. page.seen \cup {c} \in SUBSET Comment  BY <1>1, <1>4
    <3> QED  BY <1>0, <2>5, <3>1, <3>2 DEF Walk
  <2>7. ASSUME NEW d \in page.kept PROVE d \in page.seen \cup {c} <=> ~Precedes(K(c), K(d))
    <3>0. c \in Comment /\ d \in Comment  BY <1>1, <1>4
    <3>1. CASE d = c  BY <1>5, <3>0, <3>1, KeyOrder
    <3>2. CASE d # c /\ d \in rest  BY <1>7, <2>4, <3>2
    <3>3. CASE d \notin rest
      <4>1. d \in page.seen  BY <1>7, <3>3
      <4>2. page.after \in Cursor /\ page.after # None  BY <1>0, <1>1, <4>1
      <4>3. ~Precedes(page.after, K(d)) /\ Precedes(page.after, K(c)) /\ page.after.scope = sort
        BY <1>0, <1>6, <2>2, <4>1, <4>2 DEF K
      <4>4. ~Precedes(K(c), K(d))  BY <1>5, <3>0, <4>2, <4>3, KeyOrder
      <4> QED  BY <4>1, <4>4
    <3> QED  BY <3>1, <3>2, <3>3
  <2>8. page'.after # None /\ page'.after.scope = page'.sort
    BY <1>4, <1>5, <2>6, CursorAssumption
  <2>9. \A d : Key(comment', page'.sort, d) = K(d)  BY <1>3, <2>6 DEF K, Key
  <2>10. (page.kept \subseteq visibleCommentQuery(comment, Reader, page.floor))'
    BY <1>0, <1>3, <2>6
  <2>11. \A d \in page'.kept : d \in page'.seen <=> ~Precedes(page'.after, Key(comment', page'.sort, d))
    BY <2>6, <2>7, <2>9
  <2>12. WalkSound'  BY <2>6, <2>8, <2>10, <2>11 DEF WalkSound
  <2> QED  BY <1>3, <2>12, ReaderStep
<1>11. CASE ~more
  <2> HIDE DEF rest
  <2>1. rest \subseteq first
    <3> SUFFICES ASSUME rest # {} PROVE rest \subseteq first  OBVIOUS
    <3>1. PICK c \in rest : first = {c}  BY <1>1, <1>4, FirstExists
    <3>2. ASSUME NEW d \in rest, d # c PROVE FALSE
      <4>1. IsFiniteSet({c}) /\ Cardinality({c}) = 1  BY FS_Singleton
      <4>2. Cardinality({c} \cup {d}) = 2  BY <3>2, <4>1, FS_AddElement
      <4>3. Cardinality({c} \cup {d}) <= Cardinality(rest)
        <5>1. {c} \cup {d} \in SUBSET rest  OBVIOUS
        <5> QED  BY <1>4, <5>1, FS_Subset
      <4>4. Cardinality(rest) \in Nat  BY <1>4, FS_CardinalityType
      <4> QED  BY <1>11, <4>2, <4>3, <4>4
    <3> QED  BY <3>1, <3>2
  <2>2. page.kept \ seen = {}  BY <1>7, <2>1
  <2>3. page' = [NoWalk EXCEPT !.again = {}, !.missed = {}]  BY <1>3, <1>9, <1>11, <2>2
  <2>4. page' = NoWalk  BY <2>3 DEF NoWalk
  <2>5. WalkSound'
    <3>1. /\ NoWalk.again = {} /\ NoWalk.missed = {} /\ NoWalk.kept = {} /\ NoWalk.after = None
          /\ NoWalk.seen = {}
      BY DEF NoWalk
    <3> QED  BY <2>4, <3>1, EmptyRows DEF WalkSound
  <2> QED  BY <1>3, <2>5, ReaderStep
<1> QED  BY <1>10, <1>11

LEMMA ListSound == ASSUME Sound, List \/ Replies PROVE Sound'
  BY DeliverSound DEF List, Replies, FindRootPage, FindReplyPage

LEMMA MarkSound ==
  ASSUME Sound, NEW u \in User, MarkRead(u) \/ MarkAllRead(u)
  PROVE  Sound'
<1>1. /\ unread' \subseteq unread /\ begun < MaxRequests /\ begun' = begun + 1
      /\ UNCHANGED <<comment, record, post, reaction, tx, page>>
  BY DEF MarkRead, MarkAllRead, Mark
<1>2. Typed  BY DEF Sound
<1>3. Typed'
  <2>1. unread' \subseteq Notification  BY <1>1, <1>2 DEF Typed
  <2>2. Active' = Active /\ Existing' = Existing  BY <1>1 DEF Active, Existing, Exists
  <2>3. begun' \in 0 .. MaxRequests /\ Cardinality(Active) <= begun'
    <3>1. begun \in 0 .. MaxRequests /\ Cardinality(Active) <= begun /\ Cardinality(Active) \in Nat
      BY <1>2, FS_CardinalityType DEF Typed
    <3> QED  BY <1>1, <3>1, BoundAssumption
  <2> QED  BY <1>1, <1>2, <2>1, <2>2, <2>3 DEF Typed
<1>4. \A c \in Comment : RowSound(c)'  BY <1>1 DEF Sound, RowSound, Exists
<1>5. CountsExact'  BY <1>1, CountsStand DEF Sound
<1>6. ASSUME NEW w \in Tx PROVE (ArgSound(w) /\ LockSound(w) /\ DecisionSound(w))'
  <2>1. ArgSound(w) /\ LockSound(w) /\ DecisionSound(w)  BY DEF Sound
  <2>2. ArgSound(w)'  BY <1>1, <2>1 DEF ArgSound, Exists
  <2>3. LockSound(w)'  BY <1>1, <2>1 DEF LockSound
  <2>4. DecisionSound(w)'  BY <1>1, <2>1 DEF DecisionSound
  <2> QED  BY <2>2, <2>3, <2>4
<1>7. Drawn' /\ Exclusive'  BY <1>1 DEF Sound, Drawn, Exclusive, HeldAgainst
<1>8. WalkSound'  BY <1>1 DEF Sound, WalkSound
<1> QED  BY <1>3, <1>4, <1>5, <1>6, <1>7, <1>8 DEF Sound

-----------------------------------------------------------------------------
(* The two comments of the initial state. *)
LEMMA InitSound == ASSUME Init PROVE Sound
<1>0. PICK u \in User, v \in Verdict, p \in {1, None} : Started(u, v, p)
  <2>1. PICK u \in User, v \in Verdict :
           \E p \in IF v = "pass" THEN {1, None} ELSE {1} : Started(u, v, p)
    BY DEF Init
  <2>2. PICK p \in IF v = "pass" THEN {1, None} ELSE {1} : Started(u, v, p)  BY <2>1
  <2>3. p \in {1, None}  BY <2>2
  <2> QED  BY <2>2, <2>3
<1>1. /\ comment = [c \in Comment |->
            CASE c = 1 -> [NoComment EXCEPT !.author = Owner, !.rev = 1,
                               !.replies = IF v = "pass" /\ p = 1 THEN 1 ELSE 0]
              [] c = 2 -> ApplyModeration([NoComment EXCEPT !.author = u, !.parent = p,
                                              !.root = p, !.rev = 1], v)
              [] OTHER -> NoComment]
      /\ record = [c \in Comment |->
            CASE c = 1 -> <<[machine |-> "pass", last |-> "pass", open |-> FALSE]>>
              [] c = 2 -> <<[machine |-> v, last |-> v, open |-> v # "pass"]>>
              [] OTHER -> <<>>]
      /\ post = [st |-> "approved", comments |-> IF v = "pass" THEN 2 ELSE 1, likes |-> 0,
                 favorites |-> 0]
  BY <1>0, Zenon DEF Started
<1>2. /\ reaction = {} /\ unread = {} /\ tx = [t \in Tx |-> Idle] /\ page = NoWalk /\ begun = 0
  BY DEF Init
<1>3. /\ 1 \in Comment /\ 2 \in Comment /\ Owner \in User /\ Owner # None /\ u # None
      /\ None \notin Comment /\ p \in Comment \cup {None} /\ p \in {1, None}
      /\ 1 \in 0 .. MaxRev /\ 1 \in 1 .. MaxRev
  <2>1. 1 \in Comment /\ 2 \in Comment /\ Owner \in User /\ None \notin Comment /\ None \notin User
    BY IdAssumption, NoneAssumption
  <2>2. p \in {1, None}  BY <1>1
  <2>3. 1 \in 0 .. MaxRev /\ 1 \in 1 .. MaxRev  BY BoundAssumption
  <2> QED  BY <2>1, <2>2, <2>3
<1> DEFINE n == IF v = "pass" /\ p = 1 THEN 1 ELSE 0
           a == [NoComment EXCEPT !.author = Owner, !.rev = 1, !.replies = n]
           raw == [NoComment EXCEPT !.author = u, !.parent = p, !.root = p, !.rev = 1]
           b == ApplyModeration(raw, v)
           e == [machine |-> "pass", last |-> "pass", open |-> FALSE]
           f == [machine |-> v, last |-> v, open |-> v # "pass"]
<1>4. /\ a \in CommentRow /\ a.author = Owner /\ a.root = None /\ a.rev = 1 /\ a.replies = n
      /\ a.likes = 0 /\ a.mod = "pass" /\ a.deleted = "no"
  <2>1. n \in Nat  OBVIOUS
  <2> HIDE DEF n
  <2> QED  BY <1>3, <2>1, EmptyRows, ZenonT(60) DEF NoComment, CommentRow
<1>5. /\ b \in CommentRow /\ b.author = u /\ b.root = p /\ b.rev = 1 /\ b.replies = 0 /\ b.likes = 0
      /\ b.mod = v /\ (v = "block" <=> b.deleted = "moderation") /\ (v = "pass" => b.deleted = "no")
  <2>1. /\ raw \in CommentRow /\ raw.author = u /\ raw.root = p /\ raw.rev = 1 /\ raw.replies = 0
        /\ raw.likes = 0
    BY <1>3, EmptyRows, ZenonT(60) DEF NoComment, CommentRow
  <2> HIDE DEF raw
  <2>2. v = "pass" => b.deleted = "no"  BY <2>1 DEF ApplyModeration, CommentRow
  <2> QED  BY <2>1, <2>2, VerdictRow
<1>6. e \in ModerationRecord /\ e.last = "pass" /\ f \in ModerationRecord /\ f.last = v
  BY DEF ModerationRecord, Verdict
<1>7. /\ comment = [c \in Comment |-> IF c = 1 THEN a ELSE IF c = 2 THEN b ELSE NoComment]
      /\ record = [c \in Comment |-> IF c = 1 THEN <<e>> ELSE IF c = 2 THEN <<f>> ELSE <<>>]
  <2> HIDE DEF a, b, e, f
  <2>1. /\ comment = [c \in Comment |-> CASE c = 1 -> a [] c = 2 -> b [] OTHER -> NoComment]
        /\ record = [c \in Comment |-> CASE c = 1 -> <<e>> [] c = 2 -> <<f>> [] OTHER -> <<>>]
    BY <1>1 DEF a, b, raw, e, f, n
  <2> QED  BY <2>1
<1> HIDE DEF a, b, e, f
<1>8. /\ comment[1] = a /\ comment[2] = b /\ record[1] = <<e>> /\ record[2] = <<f>>
      /\ \A c \in Comment \ {1, 2} : comment[c] = NoComment /\ record[c] = <<>>
      /\ comment \in [Comment -> CommentRow] /\ record \in [Comment -> Seq(ModerationRecord)]
  <2>1. <<e>> \in Seq(ModerationRecord) /\ <<f>> \in Seq(ModerationRecord) /\ <<>> \in Seq(ModerationRecord)
    BY <1>6
  <2> QED  BY <1>3, <1>4, <1>5, <1>7, <2>1, EmptyRows
<1>9. Existing = {1, 2}  BY <1>3, <1>4, <1>5, <1>8, EmptyRows DEF Existing, Exists
<1>10. Typed
  <2>1. post \in PostRow  BY <1>1 DEF PostRow, Status
  <2>2. tx \in [Tx -> TxRow] /\ Active = {}  BY <1>2, EmptyRows DEF Active
  <2>3. IsFiniteSet(Active) /\ Cardinality(Active) = 0 /\ IsFiniteSet(reaction)
    BY <1>2, <2>2, FS_EmptySet
  <2>4. IsFiniteSet(Existing)
    <3>1. IsFiniteSet({1}) /\ {1} \cup {2} = {1, 2}  BY FS_Singleton
    <3> QED  BY <1>9, <3>1, FS_AddElement
  <2>5. begun \in 0 .. MaxRequests /\ 0 <= begun  BY <1>2, BoundAssumption
  <2> QED  BY <1>2, <1>8, <2>1, <2>2, <2>3, <2>4, <2>5 DEF Typed
<1>11. ASSUME NEW c \in Comment PROVE RowSound(c)
  <2>1. Len(<<e>>) = 1 /\ Len(<<f>>) = 1 /\ <<e>>[1] = e /\ <<f>>[1] = f  OBVIOUS
  <2>2. Exists(c) <=> c \in {1, 2}  BY <1>9 DEF Existing
  <2>3. CASE c = 1
    <3>1. /\ comment[c] = a /\ record[c] = <<e>> /\ Exists(c) /\ Len(record[c]) = 1
          /\ record[c][1].last = "pass"
      BY <1>6, <1>8, <2>1, <2>2, <2>3
    <3>2. /\ comment[c].rev = 1 /\ comment[c].mod = "pass" /\ comment[c].deleted = "no"
          /\ comment[c].root = None
      BY <1>4, <3>1
    <3> QED  BY <1>3, <3>1, <3>2 DEF RowSound
  <2>4. CASE c = 2
    <3>1. p # None => Exists(p) /\ comment[p].root = None
      BY <1>3, <1>4, <1>8, <1>9 DEF Existing
    <3> QED  BY <1>3, <1>5, <1>6, <1>8, <2>1, <2>2, <2>4, <3>1 DEF RowSound
  <2>5. CASE c \notin {1, 2}  BY <1>8, <2>2, <2>5, EmptyRows DEF RowSound
  <2> QED  BY <2>3, <2>4, <2>5
<1>12. CountsExact
  <2>1. Public(a) /\ (Public(b) <=> v = "pass") /\ ~Public(NoComment)
    BY <1>3, <1>4, <1>5, EmptyRows DEF Public
  <2>2. RootOf(1) = 1 /\ RootOf(2) \in {1, 2}  BY <1>3, <1>4, <1>5, <1>8 DEF RootOf
  <2>3. {c \in Comment : Public(comment[c]) /\ Public(comment[RootOf(c)])} =
           IF v = "pass" THEN {1} \cup {2} ELSE {1}
    <3>1. \A c \in Comment \ {1, 2} : ~Public(comment[c])  BY <1>8, <2>1
    <3>2. Public(comment[1]) /\ Public(comment[RootOf(1)])  BY <1>8, <2>1, <2>2
    <3>3. Public(comment[2]) /\ Public(comment[RootOf(2)]) <=> v = "pass"  BY <1>8, <2>1, <2>2
    <3> QED  BY <1>3, <3>1, <3>2, <3>3
  <2>4. Cardinality({1}) = 1 /\ Cardinality({1} \cup {2}) = 2 /\ Cardinality({2}) = 1
        /\ Cardinality({}) = 0
    <3>1. IsFiniteSet({1}) /\ Cardinality({1}) = 1 /\ Cardinality({2}) = 1  BY FS_Singleton
    <3>2. 2 \notin {1}  OBVIOUS
    <3>3. Cardinality({1} \cup {2}) = Cardinality({1}) + 1  BY <3>1, <3>2, FS_AddElement
    <3> QED  BY <3>1, <3>3, FS_EmptySet
  <2>5. post.comments = Cardinality({c \in Comment : Public(comment[c]) /\ Public(comment[RootOf(c)])})
        /\ post.likes = 0 /\ post.favorites = 0
    BY <1>1, <2>3, <2>4
  <2>6. ASSUME NEW c \in Comment
        PROVE  comment[c].replies = Cardinality({d \in Comment : Public(comment[d]) /\ comment[d].root = c})
    <3>0. /\ \A d \in Comment \ {1, 2} : ~Public(comment[d])
          /\ comment[1].root # c /\ comment[2].root = p /\ (Public(comment[2]) <=> v = "pass")
      BY <1>3, <1>4, <1>5, <1>8, <2>1
    <3>1. {d \in Comment : Public(comment[d]) /\ comment[d].root = c} =
             IF v = "pass" /\ p = c THEN {2} ELSE {}
      BY <1>3, <3>0
    <3>2. comment[c].replies = IF v = "pass" /\ p = c THEN 1 ELSE 0
      <4>1. CASE c = 1  BY <1>4, <1>8, <4>1
      <4>2. CASE c = 2  BY <1>3, <1>5, <1>8, <4>2
      <4>3. CASE c \notin {1, 2}  BY <1>3, <1>8, <4>3 DEF NoComment
      <4> QED  BY <4>1, <4>2, <4>3
    <3> QED  BY <2>4, <3>1, <3>2
  <2>7. ASSUME NEW c \in Comment PROVE comment[c].likes = Cardinality({x \in reaction : x.on = c})
    <3>1. {x \in reaction : x.on = c} = {}  BY <1>2
    <3>2. comment[c].likes = 0  BY <1>4, <1>5, <1>8 DEF NoComment
    <3> QED  BY <2>4, <3>1, <3>2
  <2>8. /\ {x \in reaction : x.on = Post /\ x.kind = "like"} = {}
        /\ {x \in reaction : x.kind = "favorite"} = {}
    BY <1>2
  <2> QED  BY <2>4, <2>5, <2>6, <2>7, <2>8 DEF CountsExact
<1>13. ASSUME NEW t \in Tx PROVE ArgSound(t) /\ LockSound(t) /\ DecisionSound(t)
  <2>1. tx[t] = Idle  BY <1>2
  <2>2. ArgSound(t)  BY <2>1, EmptyRows DEF ArgSound, Writers
  <2>3. LockSound(t)  BY <2>1, EmptyRows, PlanRange DEF LockSound, Writers
  <2>4. DecisionSound(t)  BY <2>1, EmptyRows DEF DecisionSound
  <2> QED  BY <2>2, <2>3, <2>4
<1>14. Drawn /\ Exclusive  BY <1>2, EmptyRows DEF Drawn, Exclusive
<1>15. WalkSound
  <2>1. /\ NoWalk.again = {} /\ NoWalk.missed = {} /\ NoWalk.kept = {} /\ NoWalk.after = None
        /\ NoWalk.seen = {}
    BY DEF NoWalk
  <2> QED  BY <1>2, <2>1, EmptyRows DEF WalkSound
<1> QED  BY <1>10, <1>11, <1>12, <1>13, <1>14, <1>15 DEF Sound

LEMMA NextSound == ASSUME Sound, [Next]_vars PROVE Sound'
<1>1. ASSUME NEW t \in Tx, Handle(t) PROVE Sound'
  <2>1. CASE Create(t)  BY <2>1, CreateSound
  <2>2. CASE Update(t)  BY <2>2, UpdateSound
  <2>3. CASE Delete(t) \/ DeleteComment(t)  BY <2>3, RemovalSound
  <2>4. CASE RestoreComment(t)  BY <2>4, RestoreSound
  <2>5. CASE ManualReview(t)  BY <2>5, ReviewSound
  <2>6. CASE WritePost(t)  BY <2>6, WritePostSound
  <2>7. CASE LikePost(t) \/ LikeComment(t) \/ FavoritePost(t) \/ FollowUser(t)
    BY <2>7, ReactSound DEF LikePost, LikeComment, FavoritePost, FollowUser
  <2>8. CASE UnlikePost(t) \/ UnlikeComment(t) \/ UnfavoritePost(t) \/ UnfollowUser(t)
    BY <2>8, UnreactSound DEF UnlikePost, UnlikeComment, UnfavoritePost, UnfollowUser
  <2> QED  BY <1>1, <2>1, <2>2, <2>3, <2>4, <2>5, <2>6, <2>7, <2>8 DEF Handle
<1>2. ASSUME NEW t \in Tx, Request(t) \/ Lock(t) \/ Count(t) \/ Rollback(t) PROVE Sound'
  BY <1>2, RequestSteps, LockSteps, CountStep, RollbackStep
<1>3. ASSUME NEW sort \in {"latest", "hot"}, BeginWalk(sort, None) PROVE Sound'
  BY <1>3, BeginWalkSound DEF Scope
<1>4. ASSUME NEW c \in Comment, BeginWalk("replies", c) PROVE Sound'
  BY <1>4, BeginWalkSound DEF Scope
<1>5. ASSUME UNCHANGED vars PROVE Sound'
  <2>1. UNCHANGED <<comment, record, post, reaction, unread, tx, page, begun>>  BY <1>5 DEF vars
  <2>2. WalkSound'  BY <2>1 DEF Sound, WalkSound
  <2> QED  BY <2>1, <2>2, ReaderStep
<1> QED  BY <1>1, <1>2, <1>3, <1>4, <1>5, ListSound, MarkSound DEF Next

(* The inductive invariant of a discussion: exact counters, rows that show    *)
(* their latest verdict, requests that hold the locks of what they decided    *)
(* about, and a reader whose cursor separates what it saw from the rest.      *)
THEOREM AlwaysSound == Spec => []Sound
<1>1. Init => Sound  BY InitSound
<1>2. Sound /\ [Next]_vars => Sound'  BY NextSound
<1> QED  BY <1>1, <1>2, PTL DEF Spec

-----------------------------------------------------------------------------
(* Every table, request and cursor has its type; no comment has more than     *)
(* MaxRev revisions, and no request is begun beyond MaxRequests.              *)
THEOREM TypeCorrect == Spec => []TypeOK
<1>1. Sound => TypeOK
  <2> SUFFICES ASSUME Sound PROVE TypeOK  OBVIOUS
  <2>1. Typed  BY DEF Sound
  <2>2. ASSUME NEW c \in Comment PROVE record[c] \in Seq(ModerationRecord) /\ Len(record[c]) <= MaxRev
    <3>1. record[c] \in Seq(ModerationRecord)  BY <2>1 DEF Typed
    <3>2. CASE Exists(c)
      <4>1. comment[c].rev = Len(record[c]) /\ comment[c].rev \in 1 .. MaxRev  BY <3>2 DEF Sound, RowSound
      <4> QED  BY <3>1, <4>1
    <3>3. CASE ~Exists(c)
      <4>1. record[c] = <<>>  BY <3>3 DEF Sound, RowSound
      <4>2. Len(record[c]) = 0  BY <4>1, PlanRange
      <4> QED  BY <3>1, <4>2, BoundAssumption
    <3> QED  BY <3>2, <3>3
  <2>3. ASSUME NEW t \in Tx
        PROVE  /\ tx[t].op \in Operation \cup {"idle"} /\ tx[t].held \subseteq Row \X Mode
               /\ Range(tx[t].plan) \subseteq Row \X Mode
    <3>1. tx[t] \in TxRow  BY RowType
    <3>2. tx[t].op \in Operation \cup {"idle"}  BY <3>1 DEF TxRow
    <3> QED  BY <3>2, RowType
  <2>4. DOMAIN tx = Tx  BY <2>1 DEF Typed
  <2>5. page \in Walk  BY DEF Sound, WalkSound
  <2>6. post \in [st : {"approved", "pending", "deleted"}, comments : Nat, likes : Nat, favorites : Nat]
    BY <2>1 DEF Typed, PostRow, Status
  <2> QED  BY <2>1, <2>2, <2>3, <2>4, <2>5, <2>6 DEF Typed, TypeOK
<1> QED  BY <1>1, AlwaysSound, PTL

(* Whatever requests overlap, danshi_sync_comment_counts and the triggers on  *)
(* reactions leave the counters a recount would find.                         *)
THEOREM CountSafety == Spec => []CountsExact
<1>1. Sound => CountsExact  BY DEF Sound
<1> QED  BY <1>1, AlwaysSound, PTL

(* The state of a comment is the latest verdict on the revision it shows, and *)
(* moderation has removed it exactly while that verdict is block.             *)
THEOREM VerdictSafety == Spec => []VerdictCurrent
<1>1. Sound => VerdictCurrent  BY DEF Sound, RowSound, VerdictCurrent
<1> QED  BY <1>1, AlwaysSound, PTL

(* A reader who follows the cursors is given nothing twice and misses nothing *)
(* that kept its place.                                                       *)
THEOREM PageSafety == Spec => []PagesExact
<1>1. Sound => PagesExact  BY DEF Sound, WalkSound, PagesExact
<1> QED  BY <1>1, AlwaysSound, PTL

(* A transaction that waits with a lock in hand either creates a reply, or    *)
(* rewrites a reply and waits for its root, or rewrites a comment and waits   *)
(* for the post: without the first, no circle closes.                         *)
THEOREM WaitSafety == Spec => []CirclesNeedReply
<1>1. Sound => CirclesNeedReply
  <2> SUFFICES ASSUME Sound, NEW S \in SUBSET Tx, Ring(S),
                      \A x \in S : ~(tx[x].op = "create" /\ tx[x].on # None)
               PROVE  FALSE
    BY DEF CirclesNeedReply
  <2> DEFINE Q == {x \in S : tx[x].held # {}}
  <2>1. ASSUME NEW x \in S
        PROVE  tx[x].plan # <<>> /\ \E y \in Q : HeldAgainst(y, Head(tx[x].plan))
    BY DEF Ring, WaitsFor, HeldAgainst
  <2>0. Q # {} /\ Q \subseteq S /\ \A x \in Q : x \in Tx /\ tx[x].held # {}  BY <2>1 DEF Ring
  <2> HIDE DEF Q
  <2>2. \A a : Head(<<a>>) = a  OBVIOUS
  <2>3. \A x \in Q : /\ tx[x].op \in Writers /\ tx[x].id \in Comment /\ Exists(tx[x].id)
                          /\ comment[tx[x].id].root \in Comment \cup {None}
                          /\ tx[x].pc \in {"count", "commit"}
    <3> SUFFICES ASSUME NEW x \in Q
                 PROVE  /\ tx[x].op \in Writers /\ tx[x].id \in Comment /\ Exists(tx[x].id)
                        /\ comment[tx[x].id].root \in Comment \cup {None}
                        /\ tx[x].pc \in {"count", "commit"}
      OBVIOUS
    <3>1. LockSound(x) /\ ArgSound(x) /\ tx[x] \in TxRow  BY <2>0, RowType
    <3>2. tx[x].plan # <<>> /\ tx[x].held # {}  BY <2>0, <2>1
    <3>3. tx[x].op \in Writers  BY <2>0, <3>1, <3>2 DEF LockSound
    <3>4. tx[x].pc \in {"idle", "body", "count", "commit"}  BY <3>1 DEF TxRow
    <3>5. tx[x].pc \in {"count", "commit"}  BY <2>0, <3>1, <3>2, <3>3, <3>4 DEF LockSound
    <3>6. tx[x].id \in Comment /\ Exists(tx[x].id)  BY <3>1, <3>3 DEF ArgSound
    <3>7. comment[tx[x].id].root \in Comment \cup {None}  BY <3>6 DEF Sound, Typed, CommentRow
    <3> QED  BY <3>3, <3>5, <3>6, <3>7
  <2>4. ASSUME NEW x \in Q, NEW h \in tx[x].held
        PROVE  h[1] # Post /\ (tx[x].pc = "count" => h[1] = tx[x].id)
    <3>1. LockSound(x)  BY <2>0, RowType
    <3>2. h \in {<<tx[x].id, "update">>, <<comment[tx[x].id].root, "noKeyUpdate">>}
          /\ (tx[x].pc = "count" => h = <<tx[x].id, "update">>)
      BY <2>3, <3>1 DEF LockSound
    <3>3. tx[x].id # Post /\ comment[tx[x].id].root # Post  BY <2>3, NoneAssumption
    <3>4. CASE h = <<tx[x].id, "update">>
      <4>1. h[1] = tx[x].id  BY <3>4
      <4> QED  BY <3>3, <4>1
    <3>5. CASE h # <<tx[x].id, "update">>
      <4>1. h = <<comment[tx[x].id].root, "noKeyUpdate">> /\ tx[x].pc # "count"  BY <3>2, <3>5
      <4>2. h[1] = comment[tx[x].id].root  BY <4>1
      <4> QED  BY <3>3, <4>1, <4>2
    <3> QED  BY <3>4, <3>5
  <2>5. ASSUME NEW x \in Q
        PROVE  /\ tx[x].pc = "count" /\ Head(tx[x].plan)[1] = comment[tx[x].id].root
               /\ comment[tx[x].id].root # None
    <3>1. LockSound(x) /\ tx[x].plan # <<>>  BY <2>0, <2>1, RowType
    <3>2. tx[x].pc # "commit"
      <4> SUFFICES ASSUME tx[x].pc = "commit" PROVE FALSE  OBVIOUS
      <4>1. tx[x].plan = <<<<Post, "noKeyUpdate">>>>  BY <2>3, <3>1 DEF LockSound
      <4> DEFINE k == <<Post, "noKeyUpdate">>
      <4>0. tx[x].plan = <<k>> /\ k[1] = Post  BY <4>1
      <4> HIDE DEF k
      <4>2. Head(tx[x].plan)[1] = Post  BY <2>2, <4>0
      <4>3. PICK y \in Q : HeldAgainst(y, Head(tx[x].plan))  BY <2>0, <2>1
      <4> QED  BY <2>4, <4>2, <4>3 DEF HeldAgainst
    <3>3. tx[x].pc = "count"  BY <2>3, <3>2
    <3>4. tx[x].plan = <<<<comment[tx[x].id].root, "noKeyUpdate">>>> /\ comment[tx[x].id].root # None
      BY <3>1, <3>3 DEF LockSound
    <3> DEFINE k == <<comment[tx[x].id].root, "noKeyUpdate">>
    <3>5. tx[x].plan = <<k>> /\ k[1] = comment[tx[x].id].root  BY <3>4
    <3> HIDE DEF k
    <3>6. Head(tx[x].plan)[1] = comment[tx[x].id].root  BY <2>2, <3>5
    <3> QED  BY <3>3, <3>4, <3>6
  <2>6. PICK t \in Q : TRUE  BY <2>0
  <2>7. PICK w \in Q : HeldAgainst(w, Head(tx[t].plan))  BY <2>0, <2>1
  <2>8. tx[w].id = comment[tx[t].id].root  BY <2>4, <2>5, <2>7 DEF HeldAgainst
  <2>9. comment[comment[tx[t].id].root].root = None  BY <2>3, <2>5 DEF Sound, RowSound
  <2> QED  BY <2>5, <2>8, <2>9
<1> QED  BY <1>1, AlwaysSound, PTL

=============================================================================
