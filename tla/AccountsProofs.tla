--------------------------- MODULE AccountsProofs ---------------------------
(***************************************************************************)
(* Proofs about Accounts for any accounts, sessions, names, passwords and  *)
(* any number of concurrent requests: no session outlives the password,    *)
(* the ban or the deletion of its account, and names keep their owners.    *)
(***************************************************************************)
EXTENDS Accounts, FiniteSetTheorems, TLAPS

(* Operations that lock the row of the user they are about. *)
OnUser == {"register", "login", "reset", "submit", "update", "delete", "ban", "role", "review"}

(* Those whose records name the administrator or reviewer. *)
OnActor == {"ban", "role", "review"}

Target == User \cup Session \cup Name \cup Role \cup Nat \cup {None}
Argument == Password \cup {"grant", "revoke", "pass", "block"} \cup Nat \cup {None}

TxRow == [op : Operation \cup {"idle"}, sid : Session \cup {None}, on : User \cup {None},
          to : Target, arg : Argument, at : Time, now : Time,
          pc : {"idle", "body", "record", "claim", "write", "commit"}, plan : Seq(Row),
          held : SUBSET Row, keys : SUBSET User]

Exclusive == \A t \in Tx : \A w \in Tx \ {t} : tx[t].held \cap (tx[w].held \cup tx[w].keys) = {}

(* The requests under way; begun counts at least those. *)
Active == {t \in Tx : tx[t].pc # "idle"}

(* The type invariant with the shape of every row. *)
Typed ==
    /\ user \in [User -> UserRow]
    /\ session \in [Session -> SessionRow]
    /\ claim \in [Name -> User \cup {None}]
    /\ change \in [User -> [count : Nat, last : Time]]
    /\ review \in Seq(ReviewRow) /\ Len(review) <= MaxReviews
    /\ tx \in [Tx -> TxRow]
    /\ clock \in Time
    /\ begun \in 0 .. MaxRequests /\ Cardinality(Active) <= begun

(* The rows of users and names a request decides about. *)
MyUser(t) == IF tx[t].op \in OnUser THEN {tx[t].on} ELSE {}
MyName(t) == IF tx[t].op \in {"register", "update"} THEN {tx[t].to} ELSE {}

(* Arguments have the types their operation needs. *)
ArgSound(t) ==
    /\ tx[t].op \in OnUser => tx[t].on \in User
    /\ tx[t].op \in {"register", "update", "submit"} => tx[t].to \in Name
    /\ tx[t].op \in {"register", "login", "reset"} => tx[t].arg \in Password
    /\ tx[t].op = "kick" => tx[t].to \in Session
    /\ tx[t].op = "ban" => tx[t].arg \in 0 .. Forever
    /\ tx[t].op = "role" => tx[t].to \in Role
    /\ tx[t].op = "review" => tx[t].to \in DOMAIN review /\ tx[t].on = review[tx[t].to].of
    /\ tx[t].op \in OnActor => tx[t].sid \in Session /\ session[tx[t].sid].of # None

(* It locks them before it decides; only records share the row of an actor. *)
LockSound(t) ==
    /\ MyUser(t) \cup MyName(t) \subseteq Got(t)
    /\ tx[t].pc \notin {"idle", "body"} => MyUser(t) \cup MyName(t) \subseteq tx[t].held
    /\ tx[t].pc = "record" \/ tx[t].keys # {} => tx[t].pc \notin {"idle", "body"} /\ tx[t].op \in OnActor
    /\ tx[t].pc = "claim" => tx[t].op = "review"
    /\ tx[t].pc = "write" => tx[t].op # "review"

(* Operations after which no session of the account may be open. *)
Evicts(t) == tx[t].op \in {"reset", "delete"} \/ (tx[t].op = "ban" /\ tx[t].arg # 0)

OpenOf(u) == {s \in Session : session[s].of = u /\ session[s].revoked = None}

(* What a request has decided under its locks: rows are the sessions it has  *)
(* locked or will.                                                          *)
DecidedOn(t, rows) ==
    /\ tx[t].op = "register" => user[tx[t].on].st = "none" /\ claim[tx[t].to] = None
    /\ tx[t].op = "login" => /\ user[tx[t].on].st = "live"
                             /\ user[tx[t].on].pw = tx[t].arg
                             /\ user[tx[t].on].until <= clock
    /\ tx[t].op = "submit" => user[tx[t].on].st = "live"
    /\ tx[t].op = "update" => claim[tx[t].to] \in {None, tx[t].on}
    /\ tx[t].op = "review" /\ tx[t].arg = "pass" =>
          /\ change[tx[t].on].count = review[tx[t].to].rev
          /\ \/ user[tx[t].on].name = review[tx[t].to].cand
             \/ review[tx[t].to].cand \in rows /\ claim[review[tx[t].to].cand] \in {None, tx[t].on}
    /\ Evicts(t) => OpenOf(tx[t].on) \subseteq rows

(* A reviewer's pass that still applies, on its way to the name. *)
ClaimsFor(t, rows) ==
    /\ change[tx[t].on].count = review[tx[t].to].rev
    /\ review[tx[t].to].cand \in rows

(* It stays true until the commit. *)
DecisionSound(t) ==
    /\ tx[t].pc = "claim" => ClaimsFor(t, Got(t))
    /\ tx[t].pc = "write" => DecidedOn(t, Got(t))
    /\ tx[t].pc = "commit" => DecidedOn(t, tx[t].held)

(* An open session was let in by the password its account still has, and the *)
(* account may use it.                                                       *)
SessionSound(s) ==
    session[s].of # None /\ session[s].revoked = None =>
        LET u == user[session[s].of] IN
        u.st = "live" /\ u.until <= clock /\ session[s].proof = u.pw

(* The name of an account is its own. *)
NameSound(u) == user[u].st = "live" => user[u].name \in Name /\ claim[user[u].name] = u

(* A candidate of the current revision was submitted under the current name. *)
ReviewSound(r) ==
    LET u == review[r].of IN
    /\ user[u].st # "none"
    /\ review[r].rev <= change[u].count
    /\ review[r].rev = change[u].count => user[u].name = review[r].was

(* The inductive invariant. *)
Sound ==
    /\ Typed /\ Exclusive
    /\ \A t \in Tx : ArgSound(t) /\ LockSound(t) /\ DecisionSound(t)
    /\ \A s \in Session : SessionSound(s)
    /\ \A u \in User : NameSound(u)
    /\ \A r \in DOMAIN review : ReviewSound(r)

-----------------------------------------------------------------------------
(* What a plan of locks is made of. *)
LEMMA PlanRange ==
  /\ Range(<<>>) = {}
  /\ \A a : Range(<<a>>) = {a}
  /\ \A a, b : Range(<<a, b>>) = {a, b} /\ Range(<<a>> \o <<b>>) = {a, b}
<1>1. Range(<<>>) = {}  BY DEF Range
<1>2. ASSUME NEW a PROVE Range(<<a>>) = {a}  BY DEF Range
<1>3. ASSUME NEW a, NEW b PROVE Range(<<a, b>>) = {a, b}
  <2>1. DOMAIN <<a, b>> = {1, 2}  OBVIOUS
  <2> QED  BY <2>1 DEF Range
<1>4. ASSUME NEW a, NEW b PROVE Range(<<a>> \o <<b>>) = {a, b}
  <2> DEFINE q == <<a>> \o <<b>>
  <2>1. <<a>> \in Seq({a, b}) /\ <<b>> \in Seq({a, b})  OBVIOUS
  <2>2. q \in Seq({a, b}) /\ Len(q) = 2  BY <2>1
  <2>3. q[1] = a /\ q[2] = b  BY <2>1
  <2> HIDE DEF q
  <2>4. DOMAIN q = {1, 2}  BY <2>2
  <2>5. Range(q) = {a, b}  BY <2>3, <2>4 DEF Range
  <2> QED  BY <2>5 DEF q
<1> QED  BY <1>1, <1>2, <1>3, <1>4

(* A lock that is taken leaves the plan. *)
LEMMA PlanStep ==
  ASSUME NEW q \in Seq(Row), Len(q) > 1
  PROVE  Head(q) \in Row /\ Tail(q) \in Seq(Row) /\ Range(q) = {Head(q)} \cup Range(Tail(q))
<1>1. Head(q) \in Row /\ Tail(q) \in Seq(Row)  OBVIOUS
<1>2. Head(q) = q[1] /\ Len(Tail(q)) = Len(q) - 1 /\ \A i \in 1 .. Len(Tail(q)) : Tail(q)[i] = q[i + 1]
  OBVIOUS
<1>3. Range(q) \subseteq {Head(q)} \cup Range(Tail(q))
  <2> SUFFICES ASSUME NEW i \in DOMAIN q PROVE q[i] \in {Head(q)} \cup Range(Tail(q))
    BY DEF Range
  <2>1. i \in 1 .. Len(q) /\ Len(q) \in Nat  OBVIOUS
  <2>2. CASE i = 1  BY <1>2, <2>2
  <2>3. CASE i # 1
    <3>1. i - 1 \in 1 .. Len(Tail(q)) /\ (i - 1) + 1 = i  BY <1>2, <2>1, <2>3
    <3>2. Tail(q)[i - 1] = q[i] /\ i - 1 \in DOMAIN Tail(q)  BY <1>1, <1>2, <3>1
    <3> QED  BY <3>2 DEF Range
  <2> QED  BY <2>2, <2>3
<1>4. {Head(q)} \cup Range(Tail(q)) \subseteq Range(q)
  <2>1. Head(q) \in Range(q)
    <3>1. 1 \in DOMAIN q  OBVIOUS
    <3> QED  BY <1>2, <3>1 DEF Range
  <2>2. ASSUME NEW i \in DOMAIN Tail(q) PROVE Tail(q)[i] \in Range(q)
    <3>1. i \in 1 .. Len(Tail(q)) /\ Len(q) \in Nat  BY <1>1
    <3>2. i + 1 \in 1 .. Len(q)  BY <1>2, <3>1
    <3>3. Tail(q)[i] = q[i + 1] /\ i + 1 \in DOMAIN q  BY <1>2, <3>1, <3>2
    <3> QED  BY <3>3 DEF Range
  <2> QED  BY <2>1, <2>2 DEF Range
<1> QED  BY <1>1, <1>3, <1>4

(* The order in which sessions are locked reaches all of them. *)
LEMMA OrderRange ==
  ASSUME NEW S \in SUBSET Session, NEW q \in SetToSeqs(S)
  PROVE  q \in Seq(S) /\ Range(q) = S
<1> DEFINE D == 1 .. Cardinality(S)
<1>1. IsFiniteSet(S)  BY FS_Subset, FiniteAssumption
<1>2. Cardinality(S) \in Nat  BY <1>1, FS_CardinalityType
<1>3. q \in [D -> S] /\ \A i, j \in D : i # j => q[i] # q[j]  BY DEF SetToSeqs
<1>4. q \in Seq(S)  BY <1>2, <1>3
<1>5. Cardinality(D) = Cardinality(S)  BY <1>2, FS_Interval
<1>6. q \in Injection(D, S)  BY <1>3 DEF Injection, IsInjective
<1>7. q \in Surjection(D, S)  BY <1>1, <1>5, <1>6, FS_Injection
<1>8. Range(q) = S
  <2>1. DOMAIN q = D  BY <1>3
  <2>2. \A x \in S : \E i \in D : q[i] = x  BY <1>7 DEF Surjection
  <2>3. \A i \in D : q[i] \in S  BY <1>3
  <2> QED  BY <2>1, <2>2, <2>3 DEF Range
<1> QED  BY <1>4, <1>8

(* The touch of a session changes neither its account nor whether it is open. *)
LEMMA TouchFacts ==
  ASSUME NEW table \in [Session -> SessionRow], NEW s \in Session \cup {None}, NEW now \in Time
  PROVE  /\ Touch(table, s, now) \in [Session -> SessionRow]
         /\ \A x \in Session : /\ Touch(table, s, now)[x].of = table[x].of
                               /\ Touch(table, s, now)[x].revoked = table[x].revoked
                               /\ Touch(table, s, now)[x].proof = table[x].proof
<1>1. CASE ~TouchMatches(table, s, now)  BY <1>1 DEF Touch
<1>2. CASE TouchMatches(table, s, now)
  <2>1. s \in Session /\ table[s] \in SessionRow  BY <1>2 DEF TouchMatches
  <2> DEFINE q == [table[s] EXCEPT !.seen = now]
  <2>2. q \in SessionRow /\ q.of = table[s].of /\ q.revoked = table[s].revoked /\ q.proof = table[s].proof
    BY <2>1 DEF SessionRow
  <2>3. Touch(table, s, now) = [table EXCEPT ![s] = q]  BY <1>2 DEF Touch
  <2> HIDE DEF q
  <2> QED  BY <2>1, <2>2, <2>3
<1> QED  BY <1>1, <1>2

(* A revocation closes the rows it is for and opens none. *)
LEMMA RevokeFacts ==
  ASSUME NEW table \in [Session -> SessionRow], NEW rows, NEW now \in Time
  PROVE  /\ Revoke(table, rows, now) \in [Session -> SessionRow]
         /\ \A x \in Session :
               /\ Revoke(table, rows, now)[x].of = table[x].of
               /\ Revoke(table, rows, now)[x].proof = table[x].proof
               /\ Revoke(table, rows, now)[x].revoked = None => table[x].revoked = None /\ x \notin rows
<1> DEFINE R == Revoke(table, rows, now)
<1>1. ASSUME NEW x \in Session
      PROVE  /\ R[x] \in SessionRow /\ R[x].of = table[x].of /\ R[x].proof = table[x].proof
             /\ R[x].revoked = None => table[x].revoked = None /\ x \notin rows
  <2>1. table[x] \in SessionRow  OBVIOUS
  <2>2. CASE x \in rows /\ table[x].revoked = None
    <3> DEFINE at == IF now > table[x].seen THEN now ELSE table[x].seen
               q == [table[x] EXCEPT !.revoked = at]
    <3>1. at \in Time  BY <2>1 DEF SessionRow
    <3>2. at # None  BY <3>1, IdAssumption, TimeAssumption DEF Time
    <3>3. R[x] = q  BY <2>2 DEF Revoke
    <3> HIDE DEF at
    <3>4. q \in SessionRow /\ q.of = table[x].of /\ q.proof = table[x].proof /\ q.revoked = at
      BY <2>1, <3>1 DEF SessionRow
    <3> QED  BY <3>2, <3>3, <3>4
  <2>3. CASE ~(x \in rows /\ table[x].revoked = None)
    <3>1. R[x] = table[x]  BY <2>3 DEF Revoke
    <3> QED  BY <2>1, <2>3, <3>1
  <2> QED  BY <2>2, <2>3
<1>2. R = [x \in Session |-> R[x]]  BY DEF Revoke
<1> HIDE DEF R
<1>3. R \in [Session -> SessionRow]  BY <1>1, <1>2
<1> QED  BY <1>1, <1>3 DEF R

(* A new session is one of the user it is issued to, under the password given. *)
LEMMA IssueFacts ==
  ASSUME Typed, NEW t \in Tx, CanIssue, NEW table \in issueSession(t),
         tx[t].on \in User, tx[t].arg \in Password
  PROVE  /\ table \in [Session -> SessionRow]
         /\ \A x \in Session :
               \/ table[x] = session[x]
               \/ table[x].of = tx[t].on /\ table[x].proof = tx[t].arg
<1>1. PICK s \in Session : table = [session EXCEPT ![s] = newSession(tx[t].on, tx[t].arg, tx[t].now)]
  BY DEF issueSession, CanIssue
<1> DEFINE q == newSession(tx[t].on, tx[t].arg, tx[t].now)
<1>2. tx[t].now \in Time  BY DEF Typed, TxRow
<1>3. tx[t].now + SessionTTL \in 0 .. MaxTime + SessionTTL  BY <1>2, TimeAssumption DEF Time
<1>4. q \in SessionRow /\ q.of = tx[t].on /\ q.proof = tx[t].arg
  BY <1>2, <1>3 DEF newSession, SessionRow
<1> HIDE DEF q
<1> QED  BY <1>1, <1>4 DEF Typed, q

(* The empty rows have their types. *)
LEMMA EmptyRows ==
  /\ NoUser \in UserRow /\ NoSession \in SessionRow /\ NoSession.of = None
  /\ Idle \in TxRow /\ Idle.op = "idle" /\ Idle.pc = "idle" /\ Idle.held = {} /\ Idle.keys = {} /\ Idle.plan = <<>>
  /\ 0 \in Time /\ 0 \in 0 .. Forever /\ Forever \in 0 .. Forever
<1>1. 0 \in Time /\ 0 \in 0 .. Forever /\ Forever \in 0 .. Forever /\ 0 \in 0 .. MaxTime + SessionTTL
  BY TimeAssumption DEF Time, Forever
<1>2. NoUser \in UserRow  BY <1>1 DEF NoUser, UserRow
<1>3. NoSession \in SessionRow /\ NoSession.of = None  BY <1>1 DEF NoSession, SessionRow
<1>4. Idle \in TxRow  BY <1>1 DEF Idle, TxRow, Target, Argument
<1> QED  BY <1>1, <1>2, <1>3, <1>4 DEF Idle

-----------------------------------------------------------------------------
(* begun counts the requests under way. *)
LEMMA ActiveType ==
  ASSUME NEW S \in SUBSET Tx
  PROVE  IsFiniteSet(S) /\ Cardinality(S) \in Nat
  BY FS_Subset, FS_CardinalityType, FiniteAssumption

LEMMA BeginCounts ==
  ASSUME Typed, NEW t \in Tx, begun < MaxRequests, begun' = begun + 1,
         Active' \subseteq Active \cup {t}
  PROVE  begun' \in 0 .. MaxRequests /\ Cardinality(Active)' <= begun'
<1>1. Active \in SUBSET Tx /\ Active' \in SUBSET Tx  BY DEF Active
<1>2. IsFiniteSet(Active) /\ Cardinality(Active) \in Nat /\ Cardinality(Active') \in Nat
  BY <1>1, ActiveType
<1>3. /\ IsFiniteSet(Active \cup {t})
      /\ Cardinality(Active \cup {t}) = Cardinality(Active) \/ Cardinality(Active \cup {t}) = Cardinality(Active) + 1
  BY <1>2, FS_AddElement
<1>4. Cardinality(Active') <= Cardinality(Active \cup {t})  BY <1>3, FS_Subset
<1>5. Cardinality(Active') <= Cardinality(Active) + 1  BY <1>2, <1>3, <1>4
<1>6. begun \in 0 .. MaxRequests /\ Cardinality(Active) <= begun  BY DEF Typed
<1> QED  BY <1>2, <1>5, <1>6, TimeAssumption

LEMMA EndCounts ==
  ASSUME Typed, NEW t \in Active, begun' \in {begun, begun - 1}, Active' \subseteq Active \ {t}
  PROVE  begun' \in 0 .. MaxRequests /\ Cardinality(Active)' <= begun'
<1>1. Active \in SUBSET Tx /\ Active' \in SUBSET Tx  BY DEF Active
<1>2. IsFiniteSet(Active) /\ Cardinality(Active) \in Nat /\ Cardinality(Active') \in Nat
  BY <1>1, ActiveType
<1>3. IsFiniteSet(Active \ {t}) /\ Cardinality(Active \ {t}) = Cardinality(Active) - 1
  BY <1>2, FS_RemoveElement
<1>4. Cardinality(Active') <= Cardinality(Active) - 1  BY <1>3, FS_Subset
<1>5. begun \in 0 .. MaxRequests /\ Cardinality(Active) <= begun  BY DEF Typed
<1> QED  BY <1>2, <1>4, <1>5, TimeAssumption

-----------------------------------------------------------------------------
(* A step of one request that changes no table. *)
LEMMA RequestStep ==
  ASSUME Sound, NEW t \in Tx, tx' \in [Tx -> TxRow],
         \A w \in Tx \ {t} : /\ tx'[w] = tx[w]
                              /\ tx'[t].held \cap (tx[w].held \cup tx[w].keys) = {}
                              /\ tx'[t].keys \cap tx[w].held = {},
         UNCHANGED <<user, session, claim, change, review, clock>>,
         begun' \in 0 .. MaxRequests, Cardinality(Active)' <= begun',
         ArgSound(t)', LockSound(t)', DecisionSound(t)'
  PROVE  Sound'
<1>1. Typed'  BY DEF Sound, Typed
<1>2. Exclusive'
  <2> SUFFICES ASSUME NEW v \in Tx, NEW w \in Tx \ {v}
               PROVE  tx'[v].held \cap (tx'[w].held \cup tx'[w].keys) = {}
    BY DEF Exclusive
  <2>1. tx[v].held \cap (tx[w].held \cup tx[w].keys) = {}  BY DEF Sound, Exclusive
  <2>2. CASE v = t  BY <2>2
  <2>3. CASE w = t  BY <2>3
  <2>4. CASE v # t /\ w # t  BY <2>1, <2>4
  <2> QED  BY <2>2, <2>3, <2>4
<1>3. ASSUME NEW w \in Tx PROVE (ArgSound(w) /\ LockSound(w) /\ DecisionSound(w))'
  <2>1. CASE w = t  BY <2>1
  <2>2. CASE w # t
    <3>1. ArgSound(w) /\ LockSound(w) /\ DecisionSound(w)  BY DEF Sound
    <3>2. tx'[w] = tx[w]  BY <2>2
    <3>3. Got(w)' = Got(w) /\ MyUser(w)' = MyUser(w) /\ MyName(w)' = MyName(w)
      BY <3>2 DEF Got, MyUser, MyName
    <3>4. ArgSound(w)' /\ LockSound(w)'  BY <3>1, <3>2, <3>3 DEF ArgSound, LockSound
    <3>5. DecisionSound(w)'
      BY <3>1, <3>2, <3>3, ZenonT(60) DEF DecisionSound, DecidedOn, ClaimsFor, Evicts, OpenOf
    <3> QED  BY <3>4, <3>5
  <2> QED  BY <2>1, <2>2
<1>4. \A s \in Session : SessionSound(s)'  BY DEF Sound, SessionSound
<1>5. \A u \in User : NameSound(u)'  BY DEF Sound, NameSound
<1>6. \A r \in DOMAIN review' : ReviewSound(r)'  BY DEF Sound, ReviewSound
<1> QED  BY <1>1, <1>2, <1>3, <1>4, <1>5, <1>6 DEF Sound

(* A request goes on: it keeps its arguments and locks, gets rows of its plan *)
(* that nobody else has, and keeps or makes its decision.                     *)
LEMMA Progress ==
  ASSUME Sound, NEW t \in Tx, tx[t].pc # "idle", tx'[t].pc # "idle",
         tx' \in [Tx -> TxRow],
         \A w \in Tx \ {t} : tx'[w] = tx[w],
         tx'[t].op = tx[t].op, tx'[t].on = tx[t].on, tx'[t].to = tx[t].to, tx'[t].arg = tx[t].arg,
         tx'[t].sid = tx[t].sid,
         UNCHANGED <<user, session, claim, change, review, clock, begun>>,
         tx[t].held \subseteq tx'[t].held,
         \A row \in tx'[t].held : row \in tx[t].held \/ ~Blocked(t, row),
         \A u \in tx'[t].keys : u \in tx[t].keys \/ \A w \in Tx \ {t} : u \notin tx[w].held,
         Got(t) \subseteq Got(t)',
         tx'[t].pc # "body" /\ tx[t].pc = "body" => Got(t) \subseteq tx'[t].held,
         tx'[t].pc = "body" => tx[t].pc = "body",
         tx'[t].pc = "record" \/ tx'[t].keys # {} => tx'[t].pc # "body" /\ tx[t].op \in OnActor,
         tx'[t].pc = "claim" => tx[t].op = "review" /\ ClaimsFor(t, Got(t)'),
         tx'[t].pc = "write" => tx[t].op # "review" /\ DecidedOn(t, Got(t)'),
         tx'[t].pc = "commit" => DecidedOn(t, tx'[t].held)
  PROVE  Sound'
<1>1. ArgSound(t) /\ LockSound(t) /\ Typed /\ Exclusive  BY DEF Sound
<1>2. ASSUME NEW w \in Tx \ {t}
      PROVE  /\ tx'[t].held \cap (tx[w].held \cup tx[w].keys) = {}
             /\ tx'[t].keys \cap tx[w].held = {}
  <2>1. tx[t].held \cap (tx[w].held \cup tx[w].keys) = {} /\ tx[w].held \cap tx[t].keys = {}
    BY <1>1 DEF Exclusive
  <2>2. \A row : ~Blocked(t, row) => row \notin tx[w].held \cup tx[w].keys  BY DEF Blocked
  <2> QED  BY <2>1, <2>2
<1>3. begun' \in 0 .. MaxRequests /\ Cardinality(Active)' <= begun'
  <2>1. Active' = Active  BY DEF Active
  <2> QED  BY <1>1, <2>1 DEF Typed
<1>4. MyUser(t)' = MyUser(t) /\ MyName(t)' = MyName(t)  BY DEF MyUser, MyName
<1>5. ArgSound(t)'  BY <1>1 DEF ArgSound
<1>6. LockSound(t)'
  <2>1. (MyUser(t) \cup MyName(t) \subseteq Got(t))'  BY <1>1, <1>4 DEF LockSound
  <2>2. tx'[t].pc # "body" => MyUser(t) \cup MyName(t) \subseteq tx'[t].held
    BY <1>1 DEF LockSound
  <2> QED  BY <1>4, <2>1, <2>2 DEF LockSound
<1>7. DecisionSound(t)'
  <2>1. tx'[t].pc = "claim" => ClaimsFor(t, Got(t))'  BY DEF ClaimsFor
  <2>2. tx'[t].pc = "write" => DecidedOn(t, Got(t))'  BY DEF DecidedOn, Evicts, OpenOf
  <2>3. tx'[t].pc = "commit" => DecidedOn(t, tx[t].held)'  BY DEF DecidedOn, Evicts, OpenOf
  <2> QED  BY <2>1, <2>2, <2>3 DEF DecisionSound
<1> QED  BY <1>2, <1>3, <1>5, <1>6, <1>7, RequestStep

-----------------------------------------------------------------------------
(* The parts of a request that runs: its locks and its decisions. *)
LEMMA LockSteps == ASSUME Sound, NEW t \in Tx, Lock(t) PROVE Sound'
<1>0. Typed /\ tx[t] \in TxRow /\ tx[t].plan \in Seq(Row) /\ DecisionSound(t)
  BY DEF Sound, Typed, TxRow
<1>1. /\ Head(tx[t].plan) \in Row /\ Tail(tx[t].plan) \in Seq(Row)
      /\ Range(tx[t].plan) = {Head(tx[t].plan)} \cup Range(Tail(tx[t].plan))
  BY <1>0, PlanStep DEF Lock
<1> DEFINE q == [tx[t] EXCEPT !.held = tx[t].held \cup {Head(tx[t].plan)}, !.plan = Tail(tx[t].plan)]
<1>2. tx' = [tx EXCEPT ![t] = q]  BY <1>0 DEF Lock
<1>3. /\ q \in TxRow /\ q.op = tx[t].op /\ q.on = tx[t].on /\ q.to = tx[t].to /\ q.arg = tx[t].arg
      /\ q.pc = tx[t].pc /\ q.held = tx[t].held \cup {Head(tx[t].plan)} /\ q.plan = Tail(tx[t].plan)
      /\ q.sid = tx[t].sid /\ q.keys = tx[t].keys
  BY <1>0, <1>1 DEF TxRow
<1> HIDE DEF q
<1>4. tx' \in [Tx -> TxRow] /\ tx'[t] = q /\ \A w \in Tx \ {t} : tx'[w] = tx[w]
  BY <1>0, <1>2, <1>3 DEF Typed
<1>5. Got(t)' = Got(t)  BY <1>1, <1>3, <1>4 DEF Got
<1>6. \A row \in q.held : row \in tx[t].held \/ ~Blocked(t, row)  BY <1>3 DEF Lock
<1>7. UNCHANGED <<user, session, claim, change, review, clock, begun>>  BY DEF Lock
<1>8. /\ tx[t].pc = "claim" => ClaimsFor(t, Got(t))
      /\ tx[t].pc = "write" => DecidedOn(t, Got(t))
  BY <1>0 DEF DecisionSound
<1>9. tx[t].pc = "commit" => DecidedOn(t, q.held)
  BY <1>0, <1>3 DEF DecisionSound, DecidedOn
<1>12. LockSound(t)  BY DEF Sound
<1>10. CASE tx[t].pc # "idle"
  <2>1. /\ tx[t].pc = "record" \/ tx[t].keys # {} => tx[t].pc # "body" /\ tx[t].op \in OnActor
        /\ tx[t].pc = "claim" => tx[t].op = "review"
        /\ tx[t].pc = "write" => tx[t].op # "review"
    BY <1>12 DEF LockSound
  <2> QED  BY <1>3, <1>4, <1>5, <1>6, <1>7, <1>8, <1>9, <1>10, <2>1, Progress
<1>11. CASE tx[t].pc = "idle"
  <2>1. \A w \in Tx \ {t} : /\ q.held \cap (tx[w].held \cup tx[w].keys) = {}
                             /\ q.keys \cap tx[w].held = {}
    <3>1. SUFFICES ASSUME NEW w \in Tx \ {t}
                   PROVE  /\ q.held \cap (tx[w].held \cup tx[w].keys) = {}
                          /\ q.keys \cap tx[w].held = {}
      OBVIOUS
    <3>2. tx[t].held \cap (tx[w].held \cup tx[w].keys) = {} /\ tx[w].held \cap tx[t].keys = {}
      BY DEF Sound, Exclusive
    <3>3. \A row \in q.held : row \in tx[t].held \/ row \notin tx[w].held \cup tx[w].keys
      BY <1>6 DEF Blocked
    <3> QED  BY <1>3, <3>2, <3>3
  <2>2. Active' = Active  BY <1>3, <1>4 DEF Active
  <2>3. begun' \in 0 .. MaxRequests /\ Cardinality(Active)' <= begun'
    BY <1>0, <1>7, <2>2 DEF Typed
  <2>4. ArgSound(t) /\ LockSound(t)  BY DEF Sound
  <2>5. ArgSound(t)'  BY <1>3, <1>4, <1>7, <2>4 DEF ArgSound
  <2>6. MyUser(t)' = MyUser(t) /\ MyName(t)' = MyName(t)  BY <1>3, <1>4, <1>7 DEF MyUser, MyName
  <2>7. LockSound(t)'  BY <1>3, <1>4, <1>5, <1>11, <2>4, <2>6 DEF LockSound
  <2>8. DecisionSound(t)'  BY <1>3, <1>4, <1>11 DEF DecisionSound
  <2> QED  BY <1>4, <1>7, <2>1, <2>3, <2>5, <2>7, <2>8, RequestStep
<1> QED  BY <1>10, <1>11

(* The row of the actor, once nobody has it. *)
LEMMA KeysFacts ==
  ASSUME Sound, NEW t \in Tx, Ready(t)
  PROVE  /\ Keys(t) \in SUBSET User
         /\ \A u \in Keys(t) : u \in tx[t].keys \/ \A w \in Tx \ {t} : u \notin tx[w].held
         /\ Keys(t) # {} => tx[t].pc \notin {"idle", "body"} /\ tx[t].op \in OnActor
<1>0. Typed /\ tx[t] \in TxRow /\ ArgSound(t) /\ LockSound(t)  BY DEF Sound, Typed
<1>1. tx[t].keys \in SUBSET User  BY <1>0 DEF TxRow
<1>2. CASE tx[t].pc = "record"
  <2>1. tx[t].op \in OnActor  BY <1>0, <1>2 DEF LockSound
  <2>2. tx[t].sid \in Session /\ session[tx[t].sid].of # None  BY <1>0, <2>1 DEF ArgSound
  <2>3. Actor(t) \in User
    <3>1. session[tx[t].sid] \in SessionRow  BY <1>0, <2>2 DEF Typed
    <3> QED  BY <2>2, <3>1 DEF SessionRow, Actor
  <2>4. \A w \in Tx \ {t} : Actor(t) \notin tx[w].held  BY <1>2 DEF Ready, KeyWaits
  <2> QED  BY <1>1, <1>2, <2>1, <2>3, <2>4 DEF Keys
<1>3. CASE tx[t].pc # "record"
  <2>1. Keys(t) = tx[t].keys  BY <1>3 DEF Keys
  <2> QED  BY <1>0, <1>1, <2>1 DEF LockSound
<1> QED  BY <1>2, <1>3

(* The row of a request that has all its locks and moves on. *)
LEMMA ReadyStep ==
  ASSUME Sound, NEW t \in Tx, Ready(t), NEW pc \in {"record", "claim", "write", "commit"},
         NEW now \in Time, NEW plan \in Seq(Row), NEW keys \in {tx[t].keys, Keys(t)},
         tx[t].pc \in {"body", "record", "claim", "write"},
         tx' = [tx EXCEPT ![t] = [tx[t] EXCEPT !.pc = pc, !.now = now, !.held = Got(t), !.keys = keys,
                                               !.plan = plan]],
         UNCHANGED <<user, session, claim, change, review, clock, begun>>,
         pc = "record" => tx[t].op \in OnActor,
         pc = "claim" => tx[t].op = "review" /\ ClaimsFor(t, Got(t) \cup Range(plan)),
         pc = "write" => tx[t].op # "review" /\ DecidedOn(t, Got(t) \cup Range(plan)),
         pc = "commit" => DecidedOn(t, Got(t))
  PROVE  Sound'
<1>0. Typed /\ tx[t] \in TxRow /\ tx[t].plan \in Seq(Row) /\ tx[t].held \in SUBSET Row
      /\ LockSound(t)
  BY DEF Sound, Typed, TxRow
<1>1. Got(t) \in SUBSET Row
  <2>1. Range(tx[t].plan) \subseteq Row  BY <1>0 DEF Range
  <2> QED  BY <1>0, <2>1 DEF Got
<1>k. /\ keys \in SUBSET User
      /\ \A u \in keys : u \in tx[t].keys \/ \A w \in Tx \ {t} : u \notin tx[w].held
      /\ keys # {} => tx[t].pc # "body" /\ tx[t].op \in OnActor
  <2>1. CASE keys = Keys(t)  BY <2>1, KeysFacts
  <2>2. CASE keys = tx[t].keys  BY <1>0, <2>2 DEF TxRow, LockSound
  <2> QED  BY <2>1, <2>2
<1> DEFINE q == [tx[t] EXCEPT !.pc = pc, !.now = now, !.held = Got(t), !.keys = keys, !.plan = plan]
<1>2. /\ q \in TxRow /\ q.op = tx[t].op /\ q.on = tx[t].on /\ q.to = tx[t].to /\ q.arg = tx[t].arg
      /\ q.pc = pc /\ q.held = Got(t) /\ q.plan = plan /\ q.sid = tx[t].sid /\ q.keys = keys
  BY <1>0, <1>1, <1>k DEF TxRow
<1> HIDE DEF q
<1>3. tx' = [tx EXCEPT ![t] = q]  BY DEF q
<1>4. tx' \in [Tx -> TxRow] /\ tx'[t] = q /\ \A w \in Tx \ {t} : tx'[w] = tx[w]
  BY <1>0, <1>2, <1>3 DEF Typed
<1>5. Got(t)' = Got(t) \cup Range(plan)  BY <1>2, <1>4 DEF Got
<1>6. \A row \in Got(t) : row \in tx[t].held \/ ~Blocked(t, row)  BY DEF Got, Ready
<1>7. tx[t].held \subseteq Got(t)  BY DEF Got
<1>8. tx[t].pc # "idle" /\ pc # "idle" /\ pc # "body"  OBVIOUS
<1>9. /\ tx'[t].pc = "claim" => tx[t].op = "review" /\ ClaimsFor(t, Got(t)')
      /\ tx'[t].pc = "write" => tx[t].op # "review" /\ DecidedOn(t, Got(t)')
  BY <1>2, <1>4, <1>5
<1>10. tx'[t].pc = "commit" => DecidedOn(t, tx'[t].held)  BY <1>2, <1>4
<1>11. /\ tx'[t].op = tx[t].op /\ tx'[t].on = tx[t].on /\ tx'[t].to = tx[t].to /\ tx'[t].arg = tx[t].arg
       /\ tx'[t].sid = tx[t].sid /\ tx'[t].pc = pc /\ tx'[t].held = Got(t) /\ tx'[t].keys = keys
  BY <1>2, <1>4
<1>12. Got(t) \subseteq Got(t)'  BY <1>5
<1>13. /\ tx[t].held \subseteq tx'[t].held /\ Got(t) \subseteq tx'[t].held
       /\ \A row \in tx'[t].held : row \in tx[t].held \/ ~Blocked(t, row)
       /\ \A u \in tx'[t].keys : u \in tx[t].keys \/ \A w \in Tx \ {t} : u \notin tx[w].held
  BY <1>6, <1>7, <1>11, <1>k
<1>14. tx'[t].pc = "record" \/ tx'[t].keys # {} => tx'[t].pc # "body" /\ tx[t].op \in OnActor
  BY <1>8, <1>11, <1>k
<1> QED  BY <1>4, <1>8, <1>9, <1>10, <1>11, <1>12, <1>13, <1>14, Progress

(* What BeforeCommit asks for is a session or nothing. *)
LEMMA BeforeCommitType ==
  ASSUME Typed, NEW t \in Tx
  PROVE  BeforeCommit(t) \in Seq(Row)
<1>1. tx[t].sid \in Session \cup {None}  BY DEF Typed, TxRow
<1>2. TouchMatches(session, tx[t].sid, tx[t].at) => tx[t].sid \in Row  BY <1>1 DEF TouchMatches, Row
<1> QED  BY <1>2 DEF BeforeCommit

(* The stages in which a handler reads. *)
Reading == {"body", "record", "claim"}

LEMMA DecidedStep ==
  ASSUME Sound, NEW t \in Tx, NEW op, NEW pc \in Reading, At(t, op, pc), NEW now \in Time,
         Decided(t, now), DecidedOn(t, Got(t))
  PROVE  Sound'
<1>0. Typed /\ tx[t] \in TxRow  BY DEF Sound, Typed
<1>1. BeforeCommit(t) \in Seq(Row)  BY <1>0, BeforeCommitType
<1>2. tx' = [tx EXCEPT ![t] = [tx[t] EXCEPT !.pc = "commit", !.now = now, !.held = Got(t),
                                            !.keys = Keys(t), !.plan = BeforeCommit(t)]]
  BY <1>0 DEF Decided
<1>3. /\ Ready(t) /\ tx[t].pc \in {"body", "record", "claim", "write"}
      /\ UNCHANGED <<user, session, claim, change, review, clock, begun>>
  BY DEF At, Decided, Reading
<1> QED  BY <1>1, <1>2, <1>3, ReadyStep

LEMMA RecordingStep ==
  ASSUME Sound, NEW t \in Tx, NEW op \in OnActor, InBody(t, op), Recording(t)
  PROVE  Sound'
<1>0. Typed /\ tx[t] \in TxRow /\ tx[t].now \in Time  BY DEF Sound, Typed, TxRow
<1>1. <<>> \in Seq(Row)  OBVIOUS
<1>2. tx' = [tx EXCEPT ![t] = [tx[t] EXCEPT !.pc = "record", !.now = tx[t].now, !.held = Got(t),
                                            !.keys = tx[t].keys, !.plan = <<>>]]
  <2>1. [tx[t] EXCEPT !.pc = "record", !.now = tx[t].now, !.held = Got(t), !.keys = tx[t].keys, !.plan = <<>>]
        = [tx[t] EXCEPT !.pc = "record", !.held = Got(t), !.plan = <<>>]
    BY <1>0 DEF TxRow
  <2>2. tx' = [tx EXCEPT ![t] = [tx[t] EXCEPT !.pc = "record", !.held = Got(t), !.plan = <<>>]]
    BY <1>0 DEF Recording
  <2> QED  BY <2>1, <2>2
<1>3. /\ Ready(t) /\ tx[t].pc = "body" /\ tx[t].op \in OnActor
      /\ UNCHANGED <<user, session, claim, change, review, clock, begun>>
  BY DEF InBody, At, Recording
<1> QED  BY <1>0, <1>1, <1>2, <1>3, ReadyStep

LEMMA ClaimingStep ==
  ASSUME Sound, NEW t \in Tx, At(t, "review", "record"), NEW n \in Name, Claiming(t, n),
         n = review[tx[t].to].cand, change[tx[t].on].count = review[tx[t].to].rev
  PROVE  Sound'
<1>0. Typed /\ tx[t] \in TxRow /\ tx[t].now \in Time  BY DEF Sound, Typed, TxRow
<1>1. <<n>> \in Seq(Row) /\ Range(<<n>>) = {n}  BY PlanRange DEF Row
<1>2. tx' = [tx EXCEPT ![t] = [tx[t] EXCEPT !.pc = "claim", !.now = tx[t].now, !.held = Got(t),
                                            !.keys = Keys(t), !.plan = <<n>>]]
  <2>1. [tx[t] EXCEPT !.pc = "claim", !.now = tx[t].now, !.held = Got(t), !.keys = Keys(t), !.plan = <<n>>]
        = [tx[t] EXCEPT !.pc = "claim", !.held = Got(t), !.keys = Keys(t), !.plan = <<n>>]
    BY <1>0 DEF TxRow
  <2>2. tx' = [tx EXCEPT ![t] = [tx[t] EXCEPT !.pc = "claim", !.held = Got(t), !.keys = Keys(t), !.plan = <<n>>]]
    BY <1>0 DEF Claiming
  <2> QED  BY <2>1, <2>2
<1>3. /\ Ready(t) /\ tx[t].pc = "record" /\ tx[t].op = "review"
      /\ UNCHANGED <<user, session, claim, change, review, clock, begun>>
  BY DEF At, Claiming
<1>4. ClaimsFor(t, Got(t) \cup Range(<<n>>))  BY <1>1 DEF ClaimsFor
<1> QED  BY <1>0, <1>1, <1>2, <1>3, <1>4, ReadyStep

LEMMA RevokingStep ==
  ASSUME Sound, NEW t \in Tx, NEW op, NEW pc \in Reading, At(t, op, pc), op # "review",
         NEW rows \in SUBSET Session,
         NEW times \in SUBSET Time, Revoking(t, rows, times), DecidedOn(t, rows)
  PROVE  Sound'
<1>0. Typed /\ tx[t] \in TxRow  BY DEF Sound, Typed
<1>1. PICK now \in times, order \in SetToSeqs(rows \ Got(t)) :
         tx' = [tx EXCEPT ![t].pc = "write", ![t].now = now, ![t].held = Got(t), ![t].keys = Keys(t),
                          ![t].plan = order]
  BY DEF Revoking
<1>2. order \in Seq(rows \ Got(t)) /\ Range(order) = rows \ Got(t)
  BY OrderRange
<1>3. order \in Seq(Row)  BY <1>2 DEF Row
<1>4. tx' = [tx EXCEPT ![t] = [tx[t] EXCEPT !.pc = "write", !.now = now, !.held = Got(t), !.keys = Keys(t),
                                            !.plan = order]]
  BY <1>0, <1>1
<1>5. /\ Ready(t) /\ tx[t].pc \in {"body", "record", "claim", "write"} /\ tx[t].op # "review"
      /\ UNCHANGED <<user, session, claim, change, review, clock, begun>>
  BY DEF At, Revoking, Reading
<1>6. DecidedOn(t, Got(t) \cup Range(order))
  <2>1. rows \subseteq Got(t) \cup Range(order)  BY <1>2
  <2>2. tx[t].op # "review"  BY DEF At
  <2> QED  BY <2>1, <2>2 DEF DecidedOn
<1> QED  BY <1>3, <1>4, <1>5, <1>6, ReadyStep

LEMMA RevokedStep == ASSUME Sound, NEW t \in Tx, Revoked(t) PROVE Sound'
<1>0. Typed /\ tx[t] \in TxRow /\ tx[t].now \in Time /\ DecisionSound(t)  BY DEF Sound, Typed, TxRow
<1>1. BeforeCommit(t) \in Seq(Row)  BY <1>0, BeforeCommitType
<1>2. tx' = [tx EXCEPT ![t] = [tx[t] EXCEPT !.pc = "commit", !.now = tx[t].now, !.held = Got(t),
                                            !.keys = tx[t].keys, !.plan = BeforeCommit(t)]]
  <2>1. [tx[t] EXCEPT !.pc = "commit", !.now = tx[t].now, !.held = Got(t), !.keys = tx[t].keys,
                      !.plan = BeforeCommit(t)]
        = [tx[t] EXCEPT !.pc = "commit", !.held = Got(t), !.plan = BeforeCommit(t)]
    BY <1>0 DEF TxRow
  <2>2. tx' = [tx EXCEPT ![t] = [tx[t] EXCEPT !.pc = "commit", !.held = Got(t), !.plan = BeforeCommit(t)]]
    BY <1>0 DEF Revoked
  <2> QED  BY <2>1, <2>2
<1>3. /\ Ready(t) /\ tx[t].pc = "write" /\ UNCHANGED <<user, session, claim, change, review, clock, begun>>
      /\ DecidedOn(t, Got(t))
  BY <1>0 DEF Revoked, DecisionSound
<1> QED  BY <1>0, <1>1, <1>2, <1>3, ReadyStep

LEMMA RollbackStep == ASSUME Sound, NEW t \in Tx, Rollback(t) PROVE Sound'
<1>0. Typed  BY DEF Sound
<1>1. tx' \in [Tx -> TxRow] /\ tx'[t] = Idle /\ \A w \in Tx \ {t} : tx'[w] = tx[w]
  BY <1>0, EmptyRows DEF Typed, Rollback
<1>2. UNCHANGED <<user, session, claim, change, review, clock>> /\ begun' = begun - 1  BY DEF Rollback
<1>3. t \in Active /\ Active' \subseteq Active \ {t}  BY <1>1, EmptyRows DEF Active, Rollback
<1>4. begun' \in 0 .. MaxRequests /\ Cardinality(Active)' <= begun'  BY <1>0, <1>2, <1>3, EndCounts
<1>5. ArgSound(t)' /\ LockSound(t)' /\ DecisionSound(t)'
  BY <1>1, EmptyRows DEF ArgSound, LockSound, DecisionSound, MyUser, MyName, OnUser, OnActor
<1> QED  BY <1>1, <1>2, <1>4, <1>5, EmptyRows, RequestStep

-----------------------------------------------------------------------------
(* A request begins: its plan names the rows it will decide about. *)
LEMMA BeginStep ==
  ASSUME Sound, NEW t \in Tx, NEW q \in TxRow, Begin(t, q),
         q.held = {}, q.keys = {},
         q.op \in OnActor => q.sid \in Session /\ session[q.sid].of # None,
         q.op \in OnUser => q.on \in User /\ q.on \in Range(q.plan),
         q.op \in {"register", "update", "submit"} => q.to \in Name,
         q.op \in {"register", "update"} => q.to \in Range(q.plan),
         q.op \in {"register", "login", "reset"} => q.arg \in Password,
         q.op = "kick" => q.to \in Session,
         q.op = "ban" => q.arg \in 0 .. Forever,
         q.op = "role" => q.to \in Role,
         q.op = "review" => q.to \in DOMAIN review /\ q.on = review[q.to].of
  PROVE  Sound'
<1>0. Typed  BY DEF Sound
<1> DEFINE r == [q EXCEPT !.pc = "body"]
<1>1. tx' = [tx EXCEPT ![t] = r]  BY DEF Begin
<1>2. /\ r \in TxRow /\ r.op = q.op /\ r.on = q.on /\ r.to = q.to /\ r.arg = q.arg
      /\ r.pc = "body" /\ r.held = {} /\ r.plan = q.plan /\ r.sid = q.sid /\ r.keys = {}
  BY DEF TxRow
<1> HIDE DEF r
<1>3. tx' \in [Tx -> TxRow] /\ tx'[t] = r /\ \A w \in Tx \ {t} : tx'[w] = tx[w]
  BY <1>0, <1>1, <1>2 DEF Typed
<1>4. UNCHANGED <<user, session, claim, change, review, clock>>  BY DEF Begin
<1>5. Active' \subseteq Active \cup {t}  BY <1>3 DEF Active
<1>6. begun' \in 0 .. MaxRequests /\ Cardinality(Active)' <= begun'
  BY <1>0, <1>5, BeginCounts DEF Begin
<1>7. ArgSound(t)'  BY <1>2, <1>3, <1>4 DEF ArgSound
<1>8. LockSound(t)'
  <2>1. MyUser(t)' \subseteq Range(q.plan)  BY <1>2, <1>3 DEF MyUser
  <2>2. MyName(t)' \subseteq Range(q.plan)  BY <1>2, <1>3, <1>4 DEF MyName
  <2>3. Got(t)' = Range(q.plan)  BY <1>2, <1>3 DEF Got
  <2> QED  BY <1>2, <1>3, <2>1, <2>2, <2>3 DEF LockSound
<1>9. DecisionSound(t)'  BY <1>2, <1>3 DEF DecisionSound
<1> QED  BY <1>2, <1>3, <1>4, <1>6, <1>7, <1>8, <1>9, RequestStep

(* Requests without and with a session. *)
LEMMA AnonymousStep ==
  ASSUME Sound, NEW t \in Tx, NEW op \in {"register", "login", "reset"}, NEW u \in User,
         NEW to \in Target, NEW pw \in Password, NEW plan \in Seq(Row), Anonymous(t, op, u, to, pw, plan),
         u \in Range(plan), op = "register" => to \in Name /\ to \in Range(plan)
  PROVE  Sound'
<1> DEFINE q == [Idle EXCEPT !.op = op, !.on = u, !.to = to, !.arg = pw, !.plan = plan]
<1>1. Begin(t, q)  BY DEF Anonymous
<1>2. /\ q \in TxRow /\ q.op = op /\ q.on = u /\ q.to = to /\ q.arg = pw /\ q.plan = plan /\ q.held = {}
      /\ q.keys = {}
  BY EmptyRows, ZenonT(60) DEF Idle, TxRow, Operation, Argument
<1> HIDE DEF q
<1> QED  BY <1>1, <1>2, BeginStep DEF OnActor

LEMMA AuthorizedStep ==
  ASSUME Sound, NEW t \in Tx, NEW s \in Session, NEW op \in Operation, NEW on \in User \cup {None},
         NEW to \in Target, NEW arg \in Argument, NEW plan \in Seq(Row),
         RequireAuth(t, s, op, on, to, arg, plan), session[s].of # None,
         op \notin {"register", "login", "reset"},
         op \in OnUser => on \in User /\ on \in Range(plan),
         op \in {"update", "submit"} => to \in Name,
         op = "update" => to \in Range(plan),
         op = "kick" => to \in Session,
         op = "ban" => arg \in 0 .. Forever,
         op = "role" => to \in Role,
         op = "review" => to \in DOMAIN review /\ on = review[to].of
  PROVE  Sound'
<1> DEFINE q == [Idle EXCEPT !.op = op, !.sid = s, !.on = on, !.to = to, !.arg = arg, !.at = clock,
                             !.plan = plan]
<1>1. Begin(t, q)  BY DEF RequireAuth, deferSessionTouch
<1>2. clock \in Time  BY DEF Sound, Typed
<1>3. /\ q \in TxRow /\ q.op = op /\ q.on = on /\ q.to = to /\ q.arg = arg /\ q.plan = plan /\ q.held = {}
      /\ q.sid = s /\ q.keys = {}
  BY <1>2, EmptyRows, ZenonT(60) DEF Idle, TxRow
<1> HIDE DEF q
<1> QED  BY <1>1, <1>3, BeginStep

LEMMA RequestSteps == ASSUME Sound, NEW t \in Tx, Request(t) PROVE Sound'
<1>0. Typed /\ clock \in Time  BY DEF Sound, Typed
<1>a. ASSUME NEW u \in User PROVE <<u>> \in Seq(Row) /\ u \in Range(<<u>>)  BY PlanRange DEF Row
<1>b. ASSUME NEW u \in User, NEW n \in Name
      PROVE  /\ <<u, n>> \in Seq(Row) /\ u \in Range(<<u, n>>) /\ n \in Range(<<u, n>>)
             /\ <<u>> \o <<n>> \in Seq(Row) /\ u \in Range(<<u>> \o <<n>>) /\ n \in Range(<<u>> \o <<n>>)
  <2>1. <<u>> \in Seq(Row) /\ <<n>> \in Seq(Row) /\ <<u, n>> \in Seq(Row)  BY DEF Row
  <2>2. <<u>> \o <<n>> \in Seq(Row)  BY <2>1
  <2> QED  BY <2>1, <2>2, PlanRange
<1>c. <<>> \in Seq(Row) /\ \A s \in Session : <<s>> \in Seq(Row)  BY DEF Row
<1>1. ASSUME NEW u \in User, NEW n \in Name, NEW pw \in Password, BeginRegister(t, u, n, pw) PROVE Sound'
  <2>1. Anonymous(t, "register", u, n, pw, <<u, n>>)  BY <1>1 DEF BeginRegister
  <2>2. n \in Target  BY DEF Target
  <2>3. <<u, n>> \in Seq(Row) /\ u \in Range(<<u, n>>) /\ n \in Range(<<u, n>>)  BY <1>b
  <2> QED  BY <2>1, <2>2, <2>3, AnonymousStep
<1>2. ASSUME NEW id \in User \cup Name, NEW pw \in Password, BeginLogin(t, id, pw) PROVE Sound'
  <2>1. PICK u \in findLoginUser(id) : Anonymous(t, "login", u, id, pw, <<u>>)
    BY <1>2 DEF BeginLogin, LockByID
  <2>2. u \in User /\ id \in Target  BY DEF findLoginUser, FindByEmail, FindByUsername, Target
  <2>3. <<u>> \in Seq(Row) /\ u \in Range(<<u>>)  BY <1>a, <2>2
  <2> QED  BY <2>1, <2>2, <2>3, AnonymousStep
<1>3. ASSUME NEW u \in User, NEW pw \in Password, BeginReset(t, u, pw) PROVE Sound'
  <2>1. Anonymous(t, "reset", u, None, pw, <<u>>)  BY <1>3 DEF BeginReset, LockByID
  <2>2. None \in Target  BY DEF Target
  <2>3. <<u>> \in Seq(Row) /\ u \in Range(<<u>>)  BY <1>a, <2>2
  <2> QED  BY <2>1, <2>2, <2>3, AnonymousStep
<1> SUFFICES ASSUME NEW s \in Session, session[s].of # None,
                    \/ BeginUse(t, s) \/ BeginLogoutAll(t, s) \/ BeginDelete(t, s)
                    \/ \E other \in Session : BeginKick(t, s, other)
                    \/ \E n \in Name : BeginUpdate(t, s, n)
                    \/ \E u \in User, until \in normalizeAdminBan(clock) : BeginBan(t, s, u, until)
                    \/ \E u \in User, r \in Role, action \in {"grant", "revoke"} :
                           BeginRole(t, s, u, r, action)
                    \/ \E r \in DOMAIN review, v \in {"pass", "block"} : BeginReview(t, s, r, v)
             PROVE  Sound'
  BY <1>1, <1>2, <1>3 DEF Request
<1>4. session[s].of \in User  BY <1>0 DEF Typed, SessionRow
<1>5. /\ None \in Target /\ None \in Argument /\ None \in User \cup {None} /\ Name \subseteq Target
      /\ Session \subseteq Target /\ Role \subseteq Target
      /\ {"grant", "revoke", "pass", "block"} \subseteq Argument
  BY DEF Target, Argument
<1>6. /\ {"use", "logoutAll", "kick", "delete", "update", "submit", "ban", "role", "review"} \subseteq Operation
      /\ "use" \notin OnUser /\ "logoutAll" \notin OnUser /\ "kick" \notin OnUser
  BY DEF Operation, OnUser
<1>7. CASE BeginUse(t, s)
  <2>1. CASE RequireAuth(t, s, "use", None, None, None, <<>>)
    BY <1>c, <1>5, <1>6, <2>1, AuthorizedStep
  <2>2. CASE Begin(t, [Idle EXCEPT !.op = "use", !.sid = s, !.at = clock])
    <3> DEFINE q == [Idle EXCEPT !.op = "use", !.sid = s, !.at = clock]
    <3>1. q \in TxRow /\ q.op = "use" /\ q.held = {} /\ q.keys = {}
      BY <1>0, <1>6, EmptyRows DEF Idle, TxRow
    <3> HIDE DEF q
    <3>2. Begin(t, q)  BY <2>2 DEF q
    <3> QED  BY <1>6, <3>1, <3>2, BeginStep DEF OnActor
  <2> QED  BY <1>7, <2>1, <2>2 DEF BeginUse
<1>8. CASE BeginLogoutAll(t, s)
  BY <1>c, <1>5, <1>6, <1>8, AuthorizedStep DEF BeginLogoutAll
<1>9. CASE BeginDelete(t, s)
  <2>1. RequireAuth(t, s, "delete", session[s].of, None, None, <<session[s].of>>)
    BY <1>9 DEF BeginDelete, LockByID
  <2>2. <<session[s].of>> \in Seq(Row) /\ session[s].of \in Range(<<session[s].of>>)  BY <1>a, <1>4
  <2> QED  BY <1>4, <1>5, <1>6, <2>1, <2>2, AuthorizedStep
<1>10. ASSUME NEW other \in Session, BeginKick(t, s, other) PROVE Sound'
  <2>1. RequireAuth(t, s, "kick", None, other, None, <<other>>)  BY <1>10 DEF BeginKick
  <2> QED  BY <1>c, <1>5, <1>6, <2>1, AuthorizedStep
<1>11. ASSUME NEW n \in Name, BeginUpdate(t, s, n) PROVE Sound'
  <2>1. \/ RequireAuth(t, s, "update", session[s].of, n, None, <<session[s].of>> \o <<n>>)
        \/ RequireAuth(t, s, "submit", session[s].of, n, None, <<session[s].of>>)
    BY <1>11 DEF BeginUpdate, LockByID
  <2>2. CASE RequireAuth(t, s, "update", session[s].of, n, None, <<session[s].of>> \o <<n>>)
    <3>1. /\ <<session[s].of>> \o <<n>> \in Seq(Row)
          /\ session[s].of \in Range(<<session[s].of>> \o <<n>>) /\ n \in Range(<<session[s].of>> \o <<n>>)
      BY <1>b, <1>4
    <3> QED  BY <1>4, <1>5, <1>6, <2>2, <3>1, AuthorizedStep
  <2>3. CASE RequireAuth(t, s, "submit", session[s].of, n, None, <<session[s].of>>)
    <3>1. <<session[s].of>> \in Seq(Row) /\ session[s].of \in Range(<<session[s].of>>)  BY <1>a, <1>4
    <3> QED  BY <1>4, <1>5, <1>6, <2>3, <3>1, AuthorizedStep
  <2> QED  BY <2>1, <2>2, <2>3
<1>12. ASSUME NEW u \in User, NEW until \in normalizeAdminBan(clock), BeginBan(t, s, u, until)
       PROVE  Sound'
  <2>1. RequireAuth(t, s, "ban", u, None, until, <<u>>)  BY <1>12 DEF BeginBan, LockUserByID
  <2>2. until \in 0 .. Forever  BY TimeAssumption DEF normalizeAdminBan, Time, Forever
  <2>3. until \in Argument  BY <2>2, TimeAssumption DEF Argument, Forever
  <2>4. <<u>> \in Seq(Row) /\ u \in Range(<<u>>)  BY <1>a
  <2> QED  BY <1>5, <1>6, <2>1, <2>2, <2>3, <2>4, AuthorizedStep
<1>13. ASSUME NEW u \in User, NEW r \in Role, NEW action \in {"grant", "revoke"},
              BeginRole(t, s, u, r, action)
       PROVE  Sound'
  <2>1. RequireAuth(t, s, "role", u, r, action, <<u>>)  BY <1>13 DEF BeginRole, LockUserByID
  <2>2. <<u>> \in Seq(Row) /\ u \in Range(<<u>>)  BY <1>a
  <2> QED  BY <1>5, <1>6, <2>1, <2>2, AuthorizedStep
<1>14. ASSUME NEW r \in DOMAIN review, NEW v \in {"pass", "block"}, BeginReview(t, s, r, v)
       PROVE  Sound'
  <2>1. review[r].of \in User /\ review[r].cand \in Name /\ r \in Target
    <3>1. review \in Seq(ReviewRow)  BY <1>0 DEF Typed
    <3>2. review[r] \in ReviewRow /\ r \in Nat  BY <3>1
    <3> QED  BY <3>2 DEF ReviewRow, Target
  <2> DEFINE plan == LockManualTarget(r)
  <2>2. RequireAuth(t, s, "review", review[r].of, r, v, plan)  BY <1>14 DEF BeginReview
  <2>3. plan \in Seq(Row) /\ review[r].of \in Range(plan)
    BY <1>a, <2>1 DEF LockManualTarget
  <2> HIDE DEF plan
  <2> QED  BY <1>5, <1>6, <2>1, <2>2, <2>3, AuthorizedStep
<1> QED  BY <1>7, <1>8, <1>9, <1>10, <1>11, <1>12, <1>13, <1>14

-----------------------------------------------------------------------------
(* What any commit leaves alone: the accounts, names and records that are not *)
(* its own, and the owner of a name once it has one.                          *)
KeptSession(s) ==
    /\ session'[s].of = session[s].of /\ session'[s].proof = session[s].proof
    /\ session'[s].revoked = None => session[s].revoked = None

KeptReview(r) ==
    /\ review'[r].of = review[r].of /\ review'[r].cand = review[r].cand
    /\ review'[r].rev = review[r].rev /\ review'[r].was = review[r].was

CommitFrame(t) ==
    /\ tx[t].pc = "commit" /\ tx' = [tx EXCEPT ![t] = Idle] /\ clock' = clock /\ begun' = begun
    /\ user' \in [User -> UserRow] /\ session' \in [Session -> SessionRow]
    /\ claim' \in [Name -> User \cup {None}] /\ change' \in [User -> [count : Nat, last : Time]]
    /\ review' \in Seq(ReviewRow) /\ Len(review') <= MaxReviews
    /\ \A u \in User \ MyUser(t) : user'[u] = user[u] /\ change'[u] = change[u]
    /\ \A n \in Name : claim'[n] = claim[n] \/ (n \in tx[t].held /\ claim[n] = None)
    /\ \A s \in Session : session'[s].of \in MyUser(t) \/ KeptSession(s)
    /\ DOMAIN review \subseteq DOMAIN review' /\ \A r \in DOMAIN review : KeptReview(r)

(* The decisions of the others stand: they hold the rows they are about. *)
LEMMA OthersStand ==
  ASSUME Sound, NEW t \in Tx, CommitFrame(t), NEW w \in Tx \ {t}
  PROVE  (ArgSound(w) /\ LockSound(w) /\ DecisionSound(w))'
<1>1. ArgSound(w) /\ LockSound(w) /\ DecisionSound(w) /\ LockSound(t) /\ Typed /\ Exclusive
  BY DEF Sound
<1>2. tx'[w] = tx[w] /\ tx[t].pc = "commit" /\ clock' = clock  BY <1>1 DEF CommitFrame, Typed
<1>3. tx[w].op = "review" => tx[w].to \in DOMAIN review /\ KeptReview(tx[w].to) /\ tx[w].to \in DOMAIN review'
  BY <1>1 DEF ArgSound, CommitFrame
<1>4. Got(w)' = Got(w) /\ MyUser(w)' = MyUser(w)  BY <1>2 DEF Got, MyUser
<1>5. MyName(w)' = MyName(w)  BY <1>2 DEF MyName
<1>6. ArgSound(w)'
  <2>1. ASSUME tx[w].op \in OnActor PROVE session'[tx[w].sid].of # None
    <3>1. tx[w].sid \in Session /\ session[tx[w].sid].of # None  BY <1>1, <2>1 DEF ArgSound
    <3>2. session'[tx[w].sid].of \in MyUser(t) \/ KeptSession(tx[w].sid)  BY <3>1 DEF CommitFrame
    <3>3. None \notin MyUser(t)
      <4>1. ArgSound(t)  BY DEF Sound
      <4> QED  BY <4>1, IdAssumption DEF ArgSound, MyUser
    <3> QED  BY <3>1, <3>2, <3>3 DEF KeptSession
  <2> QED  BY <1>1, <1>2, <1>3, <2>1 DEF ArgSound, KeptReview
<1>7. LockSound(w)'  BY <1>1, <1>2, <1>4, <1>5 DEF LockSound
<1>o. ASSUME tx[w].pc \notin {"idle", "body"}, tx[w].op \in OnUser
      PROVE  /\ tx[w].on \in User \ MyUser(t)
             /\ user'[tx[w].on] = user[tx[w].on]
             /\ change'[tx[w].on] = change[tx[w].on]
  <2>1. tx[w].on \in tx[w].held /\ MyUser(t) \subseteq tx[t].held
    BY <1>1, <1>2, <1>o DEF LockSound, MyUser
  <2>2. tx[w].held \cap tx[t].held = {}  BY <1>1 DEF Exclusive
  <2> QED  BY <1>1, <1>o, <2>1, <2>2 DEF ArgSound, CommitFrame
<1>8. ASSUME NEW rows, tx[w].pc \in {"write", "commit"}, DecidedOn(w, rows),
             tx[w].op = "review" => rows \subseteq tx[w].held
      PROVE  DecidedOn(w, rows)'
  <2>1. /\ MyName(w) \cap tx[t].held = {}
        /\ tx[w].op = "review" => rows \cap tx[t].held = {}
    BY <1>1, <1>2, <1>8 DEF LockSound, Exclusive
  <2>2. tx[w].op \in OnUser => /\ tx[w].on \in User \ MyUser(t)
                               /\ user'[tx[w].on] = user[tx[w].on]
                               /\ change'[tx[w].on] = change[tx[w].on]
    BY <1>8, <1>o
  <2>3. tx[w].op \in {"register", "update"} => claim'[tx[w].to] = claim[tx[w].to]
    BY <1>1, <2>1 DEF ArgSound, MyName, CommitFrame
  <2>4. tx[w].op = "review" /\ review[tx[w].to].cand \in rows =>
           claim'[review[tx[w].to].cand] = claim[review[tx[w].to].cand]
    <3>1. SUFFICES ASSUME tx[w].op = "review", review[tx[w].to].cand \in rows
                   PROVE  claim'[review[tx[w].to].cand] = claim[review[tx[w].to].cand]
      OBVIOUS
    <3>2. review \in Seq(ReviewRow)  BY <1>1 DEF Typed
    <3>3. review[tx[w].to] \in ReviewRow  BY <1>3, <3>1, <3>2
    <3>4. review[tx[w].to].cand \in Name  BY <3>3 DEF ReviewRow
    <3>5. review[tx[w].to].cand \notin tx[t].held  BY <2>1, <3>1
    <3> QED  BY <3>4, <3>5 DEF CommitFrame
  <2>5. Evicts(w) => OpenOf(tx[w].on)' \subseteq OpenOf(tx[w].on)
    <3>1. SUFFICES ASSUME Evicts(w), NEW s \in Session, session'[s].of = tx[w].on, session'[s].revoked = None
                   PROVE  s \in OpenOf(tx[w].on)
      BY <1>2 DEF OpenOf
    <3>2. tx[w].op \in OnUser  BY <3>1 DEF Evicts, OnUser
    <3>3. session'[s].of \notin MyUser(t)  BY <2>2, <3>1, <3>2
    <3>4. KeptSession(s)  BY <3>3 DEF CommitFrame
    <3> QED  BY <3>1, <3>4 DEF KeptSession, OpenOf
  <2>6. tx[w].op \in OnUser \/ ~(tx[w].op \in {"register", "login", "submit", "update", "review"} \/ Evicts(w))
    BY DEF OnUser, Evicts
  <2>7. tx[w].op = "register" => user'[tx[w].on].st = "none" /\ claim'[tx[w].to] = None
    BY <1>8, <2>2, <2>3 DEF DecidedOn, OnUser
  <2>8. tx[w].op = "login" => /\ user'[tx[w].on].st = "live"
                              /\ user'[tx[w].on].pw = tx[w].arg
                              /\ user'[tx[w].on].until <= clock
    BY <1>8, <2>2 DEF DecidedOn, OnUser
  <2>9. /\ tx[w].op = "submit" => user'[tx[w].on].st = "live"
        /\ tx[w].op = "update" => claim'[tx[w].to] \in {None, tx[w].on}
    BY <1>8, <2>2, <2>3 DEF DecidedOn, OnUser
  <2>10. tx[w].op = "review" /\ tx[w].arg = "pass" =>
            /\ change'[tx[w].on].count = review'[tx[w].to].rev
            /\ \/ user'[tx[w].on].name = review'[tx[w].to].cand
               \/ /\ review'[tx[w].to].cand \in rows
                  /\ claim'[review'[tx[w].to].cand] \in {None, tx[w].on}
    BY <1>3, <1>8, <2>2, <2>4 DEF DecidedOn, OnUser, KeptReview
  <2>11. Evicts(w) => OpenOf(tx[w].on)' \subseteq rows  BY <1>8, <2>5 DEF DecidedOn
  <2>12. Evicts(w)' = Evicts(w)  BY <1>2 DEF Evicts
  <2>13. OpenOf(tx[w].on)' = {s \in Session : session'[s].of = tx[w].on /\ session'[s].revoked = None}
    BY <1>2 DEF OpenOf
  <2> QED  BY <1>2, <2>7, <2>8, <2>9, <2>10, <2>11, <2>12, <2>13 DEF DecidedOn, OpenOf
<1>9. DecisionSound(w)'
  <2>1. CASE tx[w].pc = "write"
    <3>1. DecidedOn(w, Got(w))'  
      <4>1. DecidedOn(w, Got(w))  BY <1>1, <2>1 DEF DecisionSound
      <4>2. PICK rows : rows = Got(w)  OBVIOUS
      <4>3. tx[w].op # "review"  BY <1>1, <2>1 DEF LockSound
      <4>4. DecidedOn(w, rows)'  BY <1>8, <2>1, <4>1, <4>2, <4>3
      <4> QED  BY <1>4, <4>2, <4>4 DEF DecidedOn
    <3> QED  BY <1>2, <2>1, <3>1 DEF DecisionSound
  <2>2. CASE tx[w].pc = "commit"
    <3>1. DecidedOn(w, tx[w].held)'
      <4>1. DecidedOn(w, tx[w].held)  BY <1>1, <2>2 DEF DecisionSound
      <4>2. PICK rows : rows = tx[w].held  OBVIOUS
      <4>3. DecidedOn(w, rows)'  BY <1>8, <2>2, <4>1, <4>2
      <4> QED  BY <1>2, <4>2, <4>3 DEF DecidedOn
    <3> QED  BY <1>2, <2>2, <3>1 DEF DecisionSound
  <2>3. CASE tx[w].pc = "claim"
    <3>1. ClaimsFor(w, Got(w)) /\ tx[w].op = "review"  BY <1>1, <2>3 DEF DecisionSound, LockSound
    <3>2. change'[tx[w].on] = change[tx[w].on]  BY <1>o, <2>3, <3>1 DEF OnUser
    <3>3. ClaimsFor(w, Got(w))'  BY <1>2, <1>3, <1>4, <3>1, <3>2 DEF ClaimsFor, KeptReview
    <3> QED  BY <1>2, <2>3, <3>3 DEF DecisionSound
  <2>4. CASE tx[w].pc \notin {"write", "commit", "claim"}  BY <1>2, <2>4 DEF DecisionSound
  <2> QED  BY <2>1, <2>2, <2>3, <2>4
<1> QED  BY <1>6, <1>7, <1>9

(* A commit is sound when it leaves its own rows sound. *)
LEMMA CommitSound ==
  ASSUME Sound, NEW t \in Tx, CommitFrame(t),
         \A s \in Session : session'[s].of \in MyUser(t) => SessionSound(s)',
         \A u \in MyUser(t) \cap User : NameSound(u)',
         \A r \in DOMAIN review' : r \notin DOMAIN review \/ review'[r].of \in MyUser(t) => ReviewSound(r)'
  PROVE  Sound'
<1>0. Typed /\ Exclusive  BY DEF Sound
<1>1. tx' \in [Tx -> TxRow] /\ tx'[t] = Idle /\ \A w \in Tx \ {t} : tx'[w] = tx[w]
  BY <1>0, EmptyRows DEF CommitFrame, Typed
<1>2. Typed'
  <2>1. t \in Active /\ Active' \subseteq Active \ {t}  BY <1>1, EmptyRows DEF Active, CommitFrame
  <2>2. begun' \in 0 .. MaxRequests /\ Cardinality(Active)' <= begun'
    BY <1>0, <2>1, EndCounts DEF CommitFrame
  <2>3. /\ user' \in [User -> UserRow] /\ session' \in [Session -> SessionRow]
        /\ claim' \in [Name -> User \cup {None}] /\ change' \in [User -> [count : Nat, last : Time]]
        /\ review' \in Seq(ReviewRow) /\ Len(review') <= MaxReviews /\ clock' = clock
    BY DEF CommitFrame
  <2> QED  BY <1>0, <1>1, <2>2, <2>3 DEF Typed
<1>3. Exclusive'  BY <1>0, <1>1, EmptyRows DEF Exclusive
<1>4. (ArgSound(t) /\ LockSound(t) /\ DecisionSound(t))'
  BY <1>1, EmptyRows DEF ArgSound, LockSound, DecisionSound, MyUser, MyName, OnUser, OnActor
<1>5. ASSUME NEW w \in Tx PROVE (ArgSound(w) /\ LockSound(w) /\ DecisionSound(w))'
  <2>1. CASE w = t  BY <1>4, <2>1
  <2>2. CASE w # t  BY <2>2, OthersStand
  <2> QED  BY <2>1, <2>2
<1>6. ASSUME NEW s \in Session PROVE SessionSound(s)'
  <2>1. CASE session'[s].of \in MyUser(t)  BY <2>1
  <2>2. CASE session'[s].of \notin MyUser(t)
    <3>1. KeptSession(s) /\ SessionSound(s) /\ clock' = clock  BY <2>2 DEF CommitFrame, Sound
    <3>2. session'[s].of \in User \cup {None}  BY <1>2 DEF Typed, SessionRow
    <3>3. session'[s].of # None => user'[session'[s].of] = user[session'[s].of]
      BY <2>2, <3>2 DEF CommitFrame
    <3> QED  BY <3>1, <3>3 DEF KeptSession, SessionSound
  <2> QED  BY <2>1, <2>2
<1>7. ASSUME NEW u \in User PROVE NameSound(u)'
  <2>1. CASE u \in MyUser(t)  BY <2>1
  <2>2. CASE u \notin MyUser(t)
    <3>1. NameSound(u) /\ user'[u] = user[u]  BY <2>2 DEF CommitFrame, Sound
    <3>2. \A n \in Name : claim[n] = u => claim'[n] = u  BY IdAssumption DEF CommitFrame
    <3> QED  BY <3>1, <3>2 DEF NameSound
  <2> QED  BY <2>1, <2>2
<1>8. ASSUME NEW r \in DOMAIN review' PROVE ReviewSound(r)'
  <2>1. CASE r \notin DOMAIN review \/ review'[r].of \in MyUser(t)  BY <2>1
  <2>2. CASE r \in DOMAIN review /\ review'[r].of \notin MyUser(t)
    <3>1. KeptReview(r) /\ ReviewSound(r)  BY <2>2 DEF CommitFrame, Sound
    <3>2. review'[r].of \in User
      <4>1. review' \in Seq(ReviewRow)  BY DEF CommitFrame
      <4>2. review'[r] \in ReviewRow  BY <4>1
      <4> QED  BY <4>2 DEF ReviewRow
    <3>3. user'[review'[r].of] = user[review'[r].of] /\ change'[review'[r].of] = change[review'[r].of]
      BY <2>2, <3>2 DEF CommitFrame
    <3> QED  BY <3>1, <3>3 DEF KeptReview, ReviewSound
  <2> QED  BY <2>1, <2>2
<1> QED  BY <1>2, <1>3, <1>5, <1>6, <1>7, <1>8 DEF Sound

-----------------------------------------------------------------------------
(* A commit that closes sessions at most. *)
Closing(t) ==
    /\ tx[t].pc = "commit" /\ tx' = [tx EXCEPT ![t] = Idle] /\ clock' = clock /\ begun' = begun
    /\ session' \in [Session -> SessionRow] /\ \A s \in Session : KeptSession(s)

(* What every commit has in common. *)
LEMMA CommitRow ==
  ASSUME Sound, NEW t \in Tx, NEW op, NEW table \in [Session -> SessionRow], Commit(t, op, table)
  PROVE  /\ tx[t].pc = "commit" /\ tx[t].op = op /\ tx' = [tx EXCEPT ![t] = Idle]
         /\ clock' = clock /\ begun' = begun /\ session' \in [Session -> SessionRow]
         /\ \A x \in Session : /\ session'[x].of = table[x].of
                               /\ session'[x].revoked = table[x].revoked
                               /\ session'[x].proof = table[x].proof
<1>1. tx[t].sid \in Session \cup {None} /\ tx[t].at \in Time  BY DEF Sound, Typed, TxRow
<1>2. session' = Touch(table, tx[t].sid, tx[t].at)  BY DEF Commit
<1> QED  BY <1>1, <1>2, TouchFacts DEF Commit

(* Sessions are closed at most, and one account may change but for its name. *)
LEMMA AccountCommit ==
  ASSUME Sound, NEW t \in Tx, NEW u \in User, NEW q \in UserRow, Closing(t),
         UNCHANGED <<claim, change, review>>,
         user' = [user EXCEPT ![u] = q], u \in MyUser(t) \/ q = user[u],
         q.name = user[u].name, q.st \in {user[u].st, "gone"},
         \A s \in Session : session'[s].of = u /\ session'[s].revoked = None =>
            q.st = "live" /\ q.until <= clock /\ session[s].proof = q.pw
  PROVE  Sound'
<1>0. Typed  BY DEF Sound
<1>c. /\ tx[t].pc = "commit" /\ tx' = [tx EXCEPT ![t] = Idle] /\ clock' = clock /\ begun' = begun
      /\ session' \in [Session -> SessionRow] /\ \A s \in Session : KeptSession(s)
  BY DEF Closing
<1>1. user' \in [User -> UserRow] /\ \A v \in User : user'[v] = IF v = u THEN q ELSE user[v]
  BY <1>0 DEF Typed
<1>2. CommitFrame(t)
  <2>1. \A r \in DOMAIN review : KeptReview(r)  BY DEF KeptReview
  <2>2. \A v \in User \ MyUser(t) : user'[v] = user[v] /\ change'[v] = change[v]  BY <1>1
  <2> QED  BY <1>0, <1>c, <1>1, <2>1, <2>2 DEF Typed, CommitFrame
<1>3. ASSUME NEW s \in Session PROVE SessionSound(s)'
  <2>1. SessionSound(s) /\ KeptSession(s) /\ clock' = clock  BY <1>c DEF Sound
  <2>2. CASE session'[s].of = u
    <3>1. user'[session'[s].of] = q  BY <1>1, <2>2
    <3> QED  BY <2>1, <2>2, <3>1 DEF SessionSound, KeptSession
  <2>3. CASE session'[s].of # u
    <3>1. session'[s].of \in User \cup {None}  BY <1>c DEF SessionRow
    <3>2. session'[s].of # None => user'[session'[s].of] = user[session'[s].of]  BY <1>1, <2>3, <3>1
    <3> QED  BY <2>1, <3>2 DEF SessionSound, KeptSession
  <2> QED  BY <2>2, <2>3
<1>4. ASSUME NEW v \in User PROVE NameSound(v)'
  <2>1. NameSound(v)  BY DEF Sound
  <2> QED  BY <1>1, <2>1 DEF NameSound
<1>5. ASSUME NEW r \in DOMAIN review' PROVE ReviewSound(r)'
  <2>1. r \in DOMAIN review /\ ReviewSound(r)  BY DEF Sound
  <2>2. review \in Seq(ReviewRow)  BY <1>0 DEF Typed
  <2>3. review[r].of \in User
    <3>1. review[r] \in ReviewRow  BY <2>1, <2>2
    <3> QED  BY <3>1 DEF ReviewRow
  <2>4. user'[review[r].of] = IF review[r].of = u THEN q ELSE user[review[r].of]  BY <1>1, <2>3
  <2>5. user'[review[r].of].st # "none" /\ user'[review[r].of].name = user[review[r].of].name
    BY <2>1, <2>4 DEF ReviewSound
  <2> QED  BY <2>1, <2>5 DEF ReviewSound
<1> QED  BY <1>2, <1>3, <1>4, <1>5, CommitSound

(* Sessions are closed at most, and nothing else changes. *)
LEMMA QuietCommit ==
  ASSUME Sound, NEW t \in Tx, NEW op, NEW table \in [Session -> SessionRow], Commit(t, op, table),
         \A x \in Session : /\ table[x].of = session[x].of /\ table[x].proof = session[x].proof
                            /\ table[x].revoked = None => session[x].revoked = None,
         UNCHANGED <<user, claim, change, review>>
  PROVE  Sound'
<1>1. Closing(t) /\ \A s \in Session : KeptSession(s)
  BY CommitRow DEF Closing, KeptSession
<1>2. Admin \in User /\ user[Admin] \in UserRow /\ user \in [User -> UserRow]
  BY IdAssumption DEF Sound, Typed
<1>3. user' = [user EXCEPT ![Admin] = user[Admin]]  BY <1>2
<1>4. ASSUME NEW s \in Session, session'[s].of = Admin, session'[s].revoked = None
      PROVE  user[Admin].st = "live" /\ user[Admin].until <= clock /\ session[s].proof = user[Admin].pw
  <2>1. SessionSound(s)  BY DEF Sound
  <2>2. session[s].of = Admin /\ session[s].revoked = None  BY <1>1, <1>4 DEF KeptSession
  <2>3. Admin # None  BY IdAssumption
  <2> QED  BY <2>1, <2>2, <2>3 DEF SessionSound
<1>5. \A s \in Session : session'[s].of = Admin /\ session'[s].revoked = None =>
          user[Admin].st = "live" /\ user[Admin].until <= clock /\ session[s].proof = user[Admin].pw
  BY <1>4
<1> QED  BY <1>1, <1>2, <1>3, <1>5, AccountCommit

(* The time an operation revokes as of. *)
LEMMA RevokeTimes ==
  ASSUME Sound, NEW t \in Tx
  PROVE  tx[t].now \in Time /\ {clock} \subseteq Time /\ (tx[t].at .. clock) \subseteq Time /\ clock \in Time
<1>1. tx[t].now \in Time /\ tx[t].at \in Time /\ clock \in Time  BY DEF Sound, Typed, TxRow
<1> QED  BY <1>1, TimeAssumption DEF Time

LEMMA QuietHandlers ==
  ASSUME Sound, NEW t \in Tx, Use(t) \/ KickSession(t) \/ LogoutAll(t)
  PROVE  Sound'
<1>0. Typed /\ session \in [Session -> SessionRow] /\ ArgSound(t)  BY DEF Sound, Typed
<1>1. ASSUME NEW op \in {"use", "kick", "logoutAll"}, tx[t].op = op, NEW rows PROVE DecidedOn(t, rows)
  BY <1>1 DEF DecidedOn, Evicts
<1>2. CASE Use(t)
  <2>1. CASE InBody(t, "use") /\ Decided(t, 0)
    BY <1>1, <2>1, EmptyRows, DecidedStep DEF InBody, At, Reading
  <2>2. CASE Commit(t, "use", session) /\ UNCHANGED <<user, claim, change, review>>
    BY <1>0, <2>2, QuietCommit
  <2> QED  BY <1>2, <2>1, <2>2 DEF Use
<1>3. CASE KickSession(t)
  <2>1. CASE InBody(t, "kick") /\ Revoking(t, {tx[t].to}, tx[t].at .. clock)
    <3>1. tx[t].op = "kick" /\ {tx[t].to} \in SUBSET Session /\ (tx[t].at .. clock) \in SUBSET Time
      BY <1>0, <2>1, RevokeTimes DEF InBody, At, ArgSound
    <3>2. DecidedOn(t, {tx[t].to})  BY <1>1, <3>1
    <3>3. "body" \in Reading /\ At(t, "kick", "body")  BY <2>1 DEF Reading, InBody
    <3> QED  BY <2>1, <3>1, <3>2, <3>3, RevokingStep
  <2>2. CASE Commit(t, "kick", Revoke(session, {tx[t].to}, tx[t].now)) /\ UNCHANGED <<user, claim, change, review>>
    <3> DEFINE R == Revoke(session, {tx[t].to}, tx[t].now)
    <3>1. /\ R \in [Session -> SessionRow]
          /\ \A x \in Session : /\ R[x].of = session[x].of /\ R[x].proof = session[x].proof
                                /\ R[x].revoked = None => session[x].revoked = None
      BY <1>0, RevokeTimes, RevokeFacts
    <3>2. Commit(t, "kick", R)  BY <2>2
    <3> HIDE DEF R
    <3> QED  BY <2>2, <3>1, <3>2, QuietCommit
  <2> QED  BY <1>3, <2>1, <2>2 DEF KickSession
<1>4. CASE LogoutAll(t)
  <2>1. CASE InBody(t, "logoutAll") /\ Revoking(t, RevokeAll(session[tx[t].sid].of), tx[t].at .. clock)
    <3> DEFINE rows == RevokeAll(session[tx[t].sid].of)
    <3>1. tx[t].op = "logoutAll" /\ rows \in SUBSET Session /\ (tx[t].at .. clock) \in SUBSET Time
      BY <2>1, RevokeTimes DEF InBody, At, RevokeAll
    <3>2. Revoking(t, rows, tx[t].at .. clock)  BY <2>1
    <3> HIDE DEF rows
    <3>3. DecidedOn(t, rows)  BY <1>1, <3>1
    <3>4. "body" \in Reading /\ At(t, "logoutAll", "body")  BY <2>1 DEF Reading, InBody
    <3> QED  BY <3>1, <3>2, <3>3, <3>4, RevokingStep
  <2>2. CASE Commit(t, "logoutAll", Revoke(session, Held(t), tx[t].now)) /\ UNCHANGED <<user, claim, change, review>>
    <3> DEFINE R == Revoke(session, Held(t), tx[t].now)
    <3>1. /\ R \in [Session -> SessionRow]
          /\ \A x \in Session : /\ R[x].of = session[x].of /\ R[x].proof = session[x].proof
                                /\ R[x].revoked = None => session[x].revoked = None
      BY <1>0, RevokeTimes, RevokeFacts
    <3>2. Commit(t, "logoutAll", R)  BY <2>2
    <3> HIDE DEF R
    <3> QED  BY <2>2, <3>1, <3>2, QuietCommit
  <2> QED  BY <1>4, <2>1, <2>2 DEF LogoutAll
<1> QED  BY <1>2, <1>3, <1>4

-----------------------------------------------------------------------------
(* An operation that evicts has locked every open session of the account. *)
LEMMA EvictRows ==
  ASSUME Sound, NEW t \in Tx, tx[t].op \in OnUser
  PROVE  RevokeAll(tx[t].on) \in SUBSET Session /\ RevokeAll(tx[t].on) = OpenOf(tx[t].on)
  BY DEF RevokeAll, OpenOf

LEMMA EvictDecides ==
  ASSUME Sound, NEW t \in Tx, NEW op \in {"reset", "delete", "ban"},
         NEW pc \in Reading, At(t, op, pc), NEW times \in SUBSET Time, Revoking(t, RevokeAll(tx[t].on), times)
  PROVE  Sound'
<1>1. tx[t].op = op /\ tx[t].op \in OnUser  BY DEF At, OnUser
<1>2. RevokeAll(tx[t].on) \in SUBSET Session /\ RevokeAll(tx[t].on) = OpenOf(tx[t].on)
  BY <1>1, EvictRows
<1>3. DecidedOn(t, RevokeAll(tx[t].on))  BY <1>1, <1>2 DEF DecidedOn
<1> QED  BY <1>2, <1>3, RevokingStep

(* ... and closes them with its commit. *)
LEMMA EvictCommit ==
  ASSUME Sound, NEW t \in Tx, NEW op \in {"reset", "delete", "ban"},
         Commit(t, op, Revoke(session, Held(t), tx[t].now))
  PROVE  /\ Closing(t) /\ tx[t].op = op
         /\ tx[t].on \in User /\ tx[t].on \in MyUser(t)
         /\ \A s \in Session : KeptSession(s)
         /\ Evicts(t) => \A s \in Session : session'[s].of = tx[t].on => session'[s].revoked # None
<1> DEFINE R == Revoke(session, Held(t), tx[t].now)
<1>0. ArgSound(t) /\ DecisionSound(t) /\ session \in [Session -> SessionRow]  BY DEF Sound, Typed
<1>1. /\ R \in [Session -> SessionRow]
      /\ \A x \in Session : /\ R[x].of = session[x].of /\ R[x].proof = session[x].proof
                            /\ R[x].revoked = None => session[x].revoked = None /\ x \notin Held(t)
  BY <1>0, RevokeTimes, RevokeFacts
<1> HIDE DEF R
<1>2. Commit(t, op, R)  BY DEF R
<1>3. /\ tx[t].pc = "commit" /\ tx[t].op = op /\ tx' = [tx EXCEPT ![t] = Idle]
      /\ clock' = clock /\ begun' = begun /\ session' \in [Session -> SessionRow]
      /\ \A x \in Session : /\ session'[x].of = R[x].of
                            /\ session'[x].revoked = R[x].revoked
                            /\ session'[x].proof = R[x].proof
  BY <1>1, <1>2, CommitRow
<1>4. tx[t].on \in User /\ tx[t].on \in MyUser(t)  BY <1>0, <1>3 DEF ArgSound, OnUser, MyUser
<1>5. \A s \in Session : KeptSession(s)  BY <1>1, <1>3 DEF KeptSession
<1>6. ASSUME Evicts(t), NEW s \in Session, session'[s].of = tx[t].on PROVE session'[s].revoked # None
  <2>1. OpenOf(tx[t].on) \subseteq tx[t].held  BY <1>0, <1>3, <1>6 DEF DecisionSound, DecidedOn
  <2> QED  BY <1>1, <1>3, <1>6, <2>1 DEF OpenOf, Held
<1> QED  BY <1>3, <1>4, <1>5, <1>6 DEF Closing

LEMMA ResetSound == ASSUME Sound, NEW t \in Tx, ResetPassword(t) PROVE Sound'
<1>1. CASE InBody(t, "reset") /\ Revoking(t, RevokeAll(tx[t].on), {clock})
  <2>1. {clock} \in SUBSET Time /\ "body" \in Reading  BY RevokeTimes DEF Reading
  <2> QED  BY <1>1, <2>1, EvictDecides DEF InBody
<1>2. CASE /\ Commit(t, "reset", Revoke(session, Held(t), tx[t].now))
           /\ user' = [user EXCEPT ![tx[t].on].pw = tx[t].arg]
           /\ UNCHANGED <<claim, change, review>>
  <2>1. /\ Closing(t) /\ tx[t].op = "reset"
        /\ tx[t].on \in User /\ tx[t].on \in MyUser(t)
        /\ \A s \in Session : KeptSession(s)
        /\ Evicts(t) => \A s \in Session : session'[s].of = tx[t].on => session'[s].revoked # None
    BY <1>2, EvictCommit
  <2>2. PICK u \in User : u = tx[t].on  BY <2>1
  <2> DEFINE q == [user[u] EXCEPT !.pw = tx[t].arg]
  <2>3. user[u] \in UserRow /\ tx[t].arg \in Password  BY <2>1 DEF Sound, Typed, ArgSound
  <2>4. q \in UserRow /\ q.name = user[u].name /\ q.st = user[u].st  BY <2>3 DEF UserRow
  <2>5. user' = [user EXCEPT ![u] = q]  BY <1>2, <2>2
  <2> HIDE DEF q
  <2>6. Evicts(t)  BY <2>1 DEF Evicts
  <2>7. \A s \in Session : session'[s].of = u /\ session'[s].revoked = None =>
                 q.st = "live" /\ q.until <= clock /\ session[s].proof = q.pw
    BY <2>1, <2>2, <2>6
  <2>8. UNCHANGED <<claim, change, review>>  BY <1>2
  <2>9. u \in MyUser(t) \/ q = user[u]  BY <2>1, <2>2
  <2>10. q.st \in {user[u].st, "gone"}  BY <2>4
  <2> QED  BY <2>1, <2>4, <2>5, <2>7, <2>8, <2>9, <2>10, AccountCommit
<1> QED  BY <1>1, <1>2 DEF ResetPassword

LEMMA DeleteSound == ASSUME Sound, NEW t \in Tx, Delete(t) PROVE Sound'
<1>1. CASE InBody(t, "delete") /\ Revoking(t, RevokeAll(tx[t].on), {clock})
  <2>1. {clock} \in SUBSET Time /\ "body" \in Reading  BY RevokeTimes DEF Reading
  <2> QED  BY <1>1, <2>1, EvictDecides DEF InBody
<1>2. CASE /\ Commit(t, "delete", Revoke(session, Held(t), tx[t].now))
           /\ user' = [user EXCEPT ![tx[t].on].st = "gone"]
           /\ UNCHANGED <<claim, change, review>>
  <2>1. /\ Closing(t) /\ tx[t].op = "delete"
        /\ tx[t].on \in User /\ tx[t].on \in MyUser(t)
        /\ \A s \in Session : KeptSession(s)
        /\ Evicts(t) => \A s \in Session : session'[s].of = tx[t].on => session'[s].revoked # None
    BY <1>2, EvictCommit
  <2>2. PICK u \in User : u = tx[t].on  BY <2>1
  <2> DEFINE q == [user[u] EXCEPT !.st = "gone"]
  <2>3. user[u] \in UserRow  BY DEF Sound, Typed
  <2>4. q \in UserRow /\ q.name = user[u].name /\ q.st = "gone"  BY <2>3 DEF UserRow
  <2>5. user' = [user EXCEPT ![u] = q]  BY <1>2, <2>2
  <2> HIDE DEF q
  <2>6. Evicts(t)  BY <2>1 DEF Evicts
  <2>7. \A s \in Session : session'[s].of = u /\ session'[s].revoked = None =>
                 q.st = "live" /\ q.until <= clock /\ session[s].proof = q.pw
    BY <2>1, <2>2, <2>6
  <2>8. UNCHANGED <<claim, change, review>>  BY <1>2
  <2>9. u \in MyUser(t) \/ q = user[u]  BY <2>1, <2>2
  <2>10. q.st \in {user[u].st, "gone"}  BY <2>4
  <2> QED  BY <2>1, <2>4, <2>5, <2>7, <2>8, <2>9, <2>10, AccountCommit
<1> QED  BY <1>1, <1>2 DEF Delete

(* A ban that is lifted evicts nobody, and whoever is in stays welcome. *)
LEMMA BanSound == ASSUME Sound, NEW t \in Tx, UpdateUserStatus(t) PROVE Sound'
<1>0. CASE InBody(t, "ban") /\ Recording(t)  BY <1>0, RecordingStep DEF OnActor
<1>r. "record" \in Reading  BY DEF Reading
<1>1. CASE Recorded(t, "ban") /\ tx[t].arg = 0 /\ Decided(t, 0)
  <2>1. At(t, "ban", "record") /\ tx[t].op = "ban"  BY <1>1 DEF Recorded, At
  <2>2. DecidedOn(t, Got(t))  BY <1>1, <2>1 DEF DecidedOn, Evicts
  <2> QED  BY <1>r, <1>1, <2>1, <2>2, EmptyRows, DecidedStep
<1>2. CASE Recorded(t, "ban") /\ Revoking(t, RevokeAll(tx[t].on), tx[t].at .. clock)
  <2>1. (tx[t].at .. clock) \in SUBSET Time  BY RevokeTimes
  <2> QED  BY <1>r, <1>2, <2>1, EvictDecides DEF Recorded
<1>3. CASE /\ Commit(t, "ban", Revoke(session, Held(t), tx[t].now))
           /\ user' = [user EXCEPT ![tx[t].on].until = tx[t].arg]
           /\ UNCHANGED <<claim, change, review>>
  <2>1. /\ Closing(t) /\ tx[t].op = "ban"
        /\ tx[t].on \in User /\ tx[t].on \in MyUser(t)
        /\ \A s \in Session : KeptSession(s)
        /\ Evicts(t) => \A s \in Session : session'[s].of = tx[t].on => session'[s].revoked # None
    BY <1>3, EvictCommit
  <2>2. PICK u \in User : u = tx[t].on  BY <2>1
  <2> DEFINE q == [user[u] EXCEPT !.until = tx[t].arg]
  <2>3. user[u] \in UserRow /\ tx[t].arg \in 0 .. Forever /\ clock \in Time
    BY <2>1 DEF Sound, Typed, ArgSound
  <2>4. q \in UserRow /\ q.name = user[u].name /\ q.st = user[u].st /\ q.pw = user[u].pw /\ q.until = tx[t].arg
    BY <2>3 DEF UserRow
  <2>5. user' = [user EXCEPT ![u] = q]  BY <1>3, <2>2
  <2> HIDE DEF q
  <2>6. ASSUME NEW s \in Session, session'[s].of = u, session'[s].revoked = None
        PROVE  q.st = "live" /\ q.until <= clock /\ session[s].proof = q.pw
    <3>1. tx[t].arg = 0  BY <2>1, <2>2, <2>6 DEF Evicts
    <3>2. q.until <= clock  BY <2>3, <2>4, <3>1 DEF Time
    <3>3. SessionSound(s) /\ KeptSession(s) /\ u # None  BY <2>1, IdAssumption DEF Sound
    <3> QED  BY <2>4, <2>6, <3>2, <3>3 DEF SessionSound, KeptSession
  <2>7. \A s \in Session : session'[s].of = u /\ session'[s].revoked = None =>
                 q.st = "live" /\ q.until <= clock /\ session[s].proof = q.pw
    BY <2>6
  <2>8. UNCHANGED <<claim, change, review>>  BY <1>3
  <2>9. u \in MyUser(t) \/ q = user[u]  BY <2>1, <2>2
  <2>10. q.st \in {user[u].st, "gone"}  BY <2>4
  <2> QED  BY <2>1, <2>4, <2>5, <2>7, <2>8, <2>9, <2>10, AccountCommit
<1> QED  BY <1>0, <1>1, <1>2, <1>3 DEF UpdateUserStatus

LEMMA RoleSound == ASSUME Sound, NEW t \in Tx, UpdateUserRole(t) PROVE Sound'
<1>0. CASE InBody(t, "role") /\ Recording(t)  BY <1>0, RecordingStep DEF OnActor
<1>1. ASSUME InBody(t, "role") \/ Recorded(t, "role"), Decided(t, 0) PROVE Sound'
  <2>1. PICK pc \in Reading : At(t, "role", pc)  BY <1>1 DEF Reading, InBody, Recorded
  <2>2. DecidedOn(t, Got(t))  BY <2>1 DEF At, DecidedOn, Evicts
  <2> QED  BY <1>1, <2>1, <2>2, EmptyRows, DecidedStep
<1>2. CASE /\ Commit(t, "role", session)
           /\ user' = [user EXCEPT ![tx[t].on].roles = IF tx[t].arg = "grant" THEN @ \cup {tx[t].to}
                                                       ELSE @ \ {tx[t].to}]
           /\ UNCHANGED <<claim, change, review>>
  <2>0. session \in [Session -> SessionRow] /\ ArgSound(t)  BY DEF Sound, Typed
  <2>1. Closing(t) /\ tx[t].op = "role" /\ \A s \in Session : KeptSession(s)
    BY <1>2, <2>0, CommitRow DEF Closing, KeptSession
  <2>2. PICK u \in User : u = tx[t].on /\ u \in MyUser(t)  BY <2>0, <2>1 DEF ArgSound, OnUser, MyUser
  <2> DEFINE roles == IF tx[t].arg = "grant" THEN user[u].roles \cup {tx[t].to} ELSE user[u].roles \ {tx[t].to}
             q == [user[u] EXCEPT !.roles = roles]
  <2>3. user[u] \in UserRow /\ tx[t].to \in Role  BY <2>0, <2>1 DEF Sound, Typed, ArgSound
  <2>4. roles \in SUBSET Role  BY <2>3 DEF UserRow
  <2>5. user' = [user EXCEPT ![u] = q]  BY <1>2, <2>2
  <2> HIDE DEF roles
  <2>6. /\ q \in UserRow /\ q.name = user[u].name /\ q.st = user[u].st /\ q.pw = user[u].pw
        /\ q.until = user[u].until
    BY <2>3, <2>4 DEF UserRow
  <2> HIDE DEF q
  <2>7. ASSUME NEW s \in Session, session'[s].of = u, session'[s].revoked = None
        PROVE  q.st = "live" /\ q.until <= clock /\ session[s].proof = q.pw
    <3>1. SessionSound(s) /\ KeptSession(s) /\ u # None  BY <2>1, IdAssumption DEF Sound
    <3> QED  BY <2>6, <2>7, <3>1 DEF SessionSound, KeptSession
  <2>8. \A s \in Session : session'[s].of = u /\ session'[s].revoked = None =>
                 q.st = "live" /\ q.until <= clock /\ session[s].proof = q.pw
    BY <2>7
  <2>9. UNCHANGED <<claim, change, review>>  BY <1>2
  <2>10. u \in MyUser(t) \/ q = user[u]  BY <2>2
  <2>11. q.st \in {user[u].st, "gone"}  BY <2>6
  <2> QED  BY <2>1, <2>5, <2>6, <2>8, <2>9, <2>10, <2>11, AccountCommit
<1> QED  BY <1>0, <1>1, <1>2 DEF UpdateUserRole

-----------------------------------------------------------------------------
(* A session is issued: the account that gets it is live, welcome, and has    *)
(* the password that was given.                                               *)
LEMMA IssueCommit ==
  ASSUME Sound, NEW t \in Tx, NEW op \in {"login", "register"}, CanIssue,
         NEW table \in issueSession(t), Commit(t, op, table)
  PROVE  /\ tx[t].pc = "commit" /\ tx[t].op = op /\ tx' = [tx EXCEPT ![t] = Idle]
         /\ clock' = clock /\ begun' = begun /\ session' \in [Session -> SessionRow]
         /\ tx[t].on \in User /\ tx[t].arg \in Password /\ tx[t].on \in MyUser(t)
         /\ \A s \in Session :
               \/ /\ session'[s].of = session[s].of /\ session'[s].proof = session[s].proof
                  /\ session'[s].revoked = session[s].revoked
               \/ session'[s].of = tx[t].on /\ session'[s].proof = tx[t].arg
<1>0. Typed /\ ArgSound(t)  BY DEF Sound
<1>1. tx[t].on \in User /\ tx[t].arg \in Password /\ tx[t].on \in MyUser(t) /\ tx[t].op = op
  BY <1>0 DEF Commit, ArgSound, OnUser, MyUser
<1>2. /\ table \in [Session -> SessionRow]
      /\ \A x \in Session :
            \/ table[x] = session[x]
            \/ table[x].of = tx[t].on /\ table[x].proof = tx[t].arg
  BY <1>0, <1>1, IssueFacts
<1>3. /\ tx[t].pc = "commit" /\ tx' = [tx EXCEPT ![t] = Idle]
      /\ clock' = clock /\ begun' = begun /\ session' \in [Session -> SessionRow]
      /\ \A x \in Session : /\ session'[x].of = table[x].of
                            /\ session'[x].revoked = table[x].revoked
                            /\ session'[x].proof = table[x].proof
  BY <1>2, CommitRow
<1>4. ASSUME NEW s \in Session
      PROVE  \/ /\ session'[s].of = session[s].of /\ session'[s].proof = session[s].proof
                /\ session'[s].revoked = session[s].revoked
             \/ session'[s].of = tx[t].on /\ session'[s].proof = tx[t].arg
  BY <1>2, <1>3
<1> QED  BY <1>1, <1>3, <1>4

LEMMA LoginSound == ASSUME Sound, NEW t \in Tx, Login(t) PROVE Sound'
<1>0. Typed  BY DEF Sound
<1>1. CASE /\ InBody(t, "login") /\ user[tx[t].on].st = "live" /\ tx[t].arg = user[tx[t].on].pw
           /\ ~banned(tx[t].on, clock) /\ Decided(t, clock)
  <2>1. tx[t].op = "login" /\ tx[t].on \in User /\ clock \in Time  BY <1>1 DEF InBody, At, Sound, Typed, ArgSound, OnUser
  <2>2. user[tx[t].on].until \in 0 .. Forever  BY <1>0, <2>1 DEF Typed, UserRow
  <2>3. user[tx[t].on].until <= clock  BY <1>1, <2>1, <2>2, TimeAssumption DEF banned, Time, Forever
  <2>4. DecidedOn(t, Got(t))  BY <1>1, <2>1, <2>3 DEF DecidedOn, Evicts
  <2>5. "body" \in Reading /\ At(t, "login", "body")  BY <1>1 DEF Reading, InBody
  <2> QED  BY <1>1, <2>1, <2>4, <2>5, DecidedStep
<1>2. ASSUME CanIssue, NEW table \in issueSession(t), Commit(t, "login", table),
             UNCHANGED <<user, claim, change, review>>
      PROVE  Sound'
  <2>1. /\ tx[t].pc = "commit" /\ tx[t].op = "login" /\ tx' = [tx EXCEPT ![t] = Idle]
        /\ clock' = clock /\ begun' = begun /\ session' \in [Session -> SessionRow]
        /\ tx[t].on \in User /\ tx[t].arg \in Password /\ tx[t].on \in MyUser(t)
        /\ \A s \in Session :
              \/ /\ session'[s].of = session[s].of /\ session'[s].proof = session[s].proof
                 /\ session'[s].revoked = session[s].revoked
              \/ session'[s].of = tx[t].on /\ session'[s].proof = tx[t].arg
    BY <1>2, IssueCommit
  <2>2. DecisionSound(t)  BY DEF Sound
  <2>3. user[tx[t].on].st = "live" /\ user[tx[t].on].pw = tx[t].arg /\ user[tx[t].on].until <= clock
    BY <2>1, <2>2 DEF DecisionSound, DecidedOn
  <2>4. CommitFrame(t)
    <3>1. \A s \in Session : session'[s].of \in MyUser(t) \/ KeptSession(s)  BY <2>1 DEF KeptSession
    <3>2. \A r \in DOMAIN review : KeptReview(r)  BY <1>2 DEF KeptReview
    <3> QED  BY <1>0, <1>2, <2>1, <3>1, <3>2 DEF CommitFrame, Typed
  <2>5. ASSUME NEW s \in Session PROVE SessionSound(s)'
    <3>1. SessionSound(s)  BY DEF Sound
    <3> QED  BY <1>2, <2>1, <2>3, <3>1 DEF SessionSound
  <2>6. \A u \in User : NameSound(u)'  BY <1>2 DEF Sound, NameSound
  <2>7. \A r \in DOMAIN review' : ReviewSound(r)'  BY <1>2 DEF Sound, ReviewSound
  <2> QED  BY <2>4, <2>5, <2>6, <2>7, CommitSound
<1> QED  BY <1>1, <1>2 DEF Login

LEMMA RegisterSound == ASSUME Sound, NEW t \in Tx, Register(t) PROVE Sound'
<1>0. Typed /\ clock \in Time  BY DEF Sound, Typed
<1>1. CASE /\ InBody(t, "register") /\ user[tx[t].on].st = "none" /\ claim[tx[t].to] = None
           /\ Decided(t, clock)
  <2>1. DecidedOn(t, Got(t))  BY <1>1 DEF InBody, At, DecidedOn, Evicts
  <2>2. "body" \in Reading /\ At(t, "register", "body")  BY <1>1 DEF Reading, InBody
  <2> QED  BY <1>0, <1>1, <2>1, <2>2, DecidedStep
<1>2. ASSUME CanIssue, NEW table \in issueSession(t), Commit(t, "register", table),
             user' = [user EXCEPT ![tx[t].on] = [NoUser EXCEPT !.st = "live", !.pw = tx[t].arg,
                                                               !.name = tx[t].to]],
             claim' = [claim EXCEPT ![tx[t].to] = tx[t].on],
             UNCHANGED <<change, review>>
      PROVE  Sound'
  <2>1. /\ tx[t].pc = "commit" /\ tx[t].op = "register" /\ tx' = [tx EXCEPT ![t] = Idle]
        /\ clock' = clock /\ begun' = begun /\ session' \in [Session -> SessionRow]
        /\ tx[t].on \in User /\ tx[t].arg \in Password /\ tx[t].on \in MyUser(t)
        /\ \A s \in Session :
              \/ /\ session'[s].of = session[s].of /\ session'[s].proof = session[s].proof
                 /\ session'[s].revoked = session[s].revoked
              \/ session'[s].of = tx[t].on /\ session'[s].proof = tx[t].arg
    BY <1>2, IssueCommit
  <2>2. DecisionSound(t) /\ ArgSound(t)  BY DEF Sound
  <2>3. user[tx[t].on].st = "none" /\ claim[tx[t].to] = None /\ tx[t].to \in Name
    BY <2>1, <2>2 DEF DecisionSound, DecidedOn, ArgSound
  <2>4. PICK u \in User, n \in Name, pw \in Password : u = tx[t].on /\ n = tx[t].to /\ pw = tx[t].arg
    BY <2>1, <2>3
  <2> DEFINE q == [NoUser EXCEPT !.st = "live", !.pw = pw, !.name = n]
  <2>5. q \in UserRow /\ q.st = "live" /\ q.pw = pw /\ q.name = n /\ q.until = 0
    BY EmptyRows DEF UserRow, NoUser
  <2>6. user' = [user EXCEPT ![u] = q] /\ claim' = [claim EXCEPT ![n] = u]  BY <1>2, <2>4
  <2> HIDE DEF q
  <2>7. /\ user' \in [User -> UserRow] /\ \A v \in User : user'[v] = IF v = u THEN q ELSE user[v]
        /\ claim' \in [Name -> User \cup {None}] /\ \A m \in Name : claim'[m] = IF m = n THEN u ELSE claim[m]
    BY <1>0, <2>5, <2>6 DEF Typed
  <2>8. MyUser(t) = {u} /\ n \in tx[t].held /\ claim[n] = None /\ user[u].st = "none"
    <3>1. LockSound(t)  BY DEF Sound
    <3> QED  BY <2>1, <2>3, <2>4, <3>1 DEF LockSound, MyUser, MyName, OnUser
  <2>9. CommitFrame(t)
    <3>1. \A s \in Session : session'[s].of \in MyUser(t) \/ KeptSession(s)  BY <2>1 DEF KeptSession
    <3>2. \A r \in DOMAIN review : KeptReview(r)  BY <1>2 DEF KeptReview
    <3>3. /\ \A v \in User \ MyUser(t) : user'[v] = user[v] /\ change'[v] = change[v]
          /\ \A m \in Name : claim'[m] = claim[m] \/ (m \in tx[t].held /\ claim[m] = None)
      BY <1>2, <2>7, <2>8
    <3> QED  BY <1>0, <1>2, <2>1, <2>7, <3>1, <3>2, <3>3 DEF CommitFrame, Typed
  <2>10. ASSUME NEW s \in Session, session'[s].of \in MyUser(t) PROVE SessionSound(s)'
    <3>1. SessionSound(s) /\ u # None  BY IdAssumption DEF Sound
    <3>2. session'[s].of = u /\ user'[u] = q /\ 0 <= clock  BY <1>0, <2>7, <2>8, <2>10 DEF Time
    <3>3. session'[s].revoked = None => session'[s].proof = pw
      BY <2>1, <2>4, <2>8, <3>1, <3>2 DEF SessionSound
    <3> QED  BY <2>1, <2>5, <3>2, <3>3 DEF SessionSound
  <2>11. \A v \in MyUser(t) \cap User : NameSound(v)'  BY <2>5, <2>7, <2>8 DEF NameSound
  <2>12. ASSUME NEW r \in DOMAIN review', r \notin DOMAIN review \/ review'[r].of \in MyUser(t)
         PROVE  ReviewSound(r)'
    <3>1. r \in DOMAIN review /\ review[r].of = u  BY <1>2, <2>8, <2>12
    <3>2. ReviewSound(r)  BY <3>1 DEF Sound
    <3> QED  BY <2>8, <3>1, <3>2 DEF ReviewSound
  <2> QED  BY <2>9, <2>10, <2>11, <2>12, CommitSound
<1> QED  BY <1>1, <1>2 DEF Register

-----------------------------------------------------------------------------
(* A candidate is recorded with the revision and the name it was made under. *)
LEMMA SubmitSound == ASSUME Sound, NEW t \in Tx, reviewUserField(t) PROVE Sound'
<1>0. Typed /\ session \in [Session -> SessionRow]  BY DEF Sound, Typed
<1>1. CASE InBody(t, "submit") /\ user[tx[t].on].st = "live" /\ Decided(t, 0)
  <2>1. DecidedOn(t, Got(t))  BY <1>1 DEF InBody, At, DecidedOn, Evicts
  <2>2. "body" \in Reading /\ At(t, "submit", "body")  BY <1>1 DEF Reading, InBody
  <2> QED  BY <1>1, <2>1, <2>2, EmptyRows, DecidedStep
<1>2. CASE /\ Commit(t, "submit", session) /\ Len(review) < MaxReviews
           /\ review' = Append(review, [of |-> tx[t].on, cand |-> tx[t].to, open |-> TRUE,
                                        rev |-> UsernameRevision(tx[t].on),
                                        was |-> user[tx[t].on].name])
           /\ UNCHANGED <<user, claim, change>>
  <2>1. Closing(t) /\ tx[t].op = "submit" /\ clock' = clock /\ \A s \in Session : KeptSession(s)
    BY <1>0, <1>2, CommitRow DEF Closing, KeptSession
  <2>2. DecisionSound(t) /\ ArgSound(t)  BY DEF Sound
  <2>3. user[tx[t].on].st = "live" /\ tx[t].on \in User /\ tx[t].to \in Name
    BY <2>1, <2>2 DEF Closing, DecisionSound, DecidedOn, ArgSound, OnUser
  <2>4. PICK u \in User, n \in Name : u = tx[t].on /\ n = tx[t].to  BY <2>3
  <2>5. user[u].name \in Name /\ change[u].count \in Nat
    BY <1>0, <2>3, <2>4 DEF Sound, NameSound, Typed
  <2> DEFINE q == [of |-> u, cand |-> n, open |-> TRUE, rev |-> change[u].count, was |-> user[u].name]
  <2>6. q \in ReviewRow /\ q.of = u /\ q.rev = change[u].count /\ q.was = user[u].name
    BY <2>5 DEF ReviewRow
  <2>7. review' = Append(review, q)  BY <1>2, <2>4 DEF UsernameRevision
  <2> HIDE DEF q
  <2>8. review \in Seq(ReviewRow) /\ Len(review) \in Nat  BY <1>0 DEF Typed
  <2>9. /\ review' \in Seq(ReviewRow) /\ Len(review') = Len(review) + 1
        /\ \A r \in 1 .. Len(review) : review'[r] = review[r]
        /\ review'[Len(review) + 1] = q
    BY <2>6, <2>7, <2>8
  <2>10. /\ DOMAIN review = 1 .. Len(review) /\ DOMAIN review' = 1 .. Len(review) + 1
    BY <2>8, <2>9
  <2>11. /\ DOMAIN review \subseteq DOMAIN review' /\ \A r \in DOMAIN review : KeptReview(r)
         /\ \A r \in DOMAIN review' : r \in DOMAIN review \/ review'[r] = q
    BY <2>8, <2>9, <2>10 DEF KeptReview
  <2>12. Len(review') <= MaxReviews  BY <1>2, <2>8, <2>9, TimeAssumption
  <2>13. CommitFrame(t)
    BY <1>0, <1>2, <2>1, <2>9, <2>11, <2>12 DEF CommitFrame, Closing, Typed
  <2>14. ASSUME NEW s \in Session PROVE SessionSound(s)'
    <3>1. SessionSound(s) /\ KeptSession(s)  BY <2>1 DEF Sound
    <3> QED  BY <1>2, <2>1, <3>1 DEF SessionSound, KeptSession
  <2>15. \A v \in User : NameSound(v)'  BY <1>2 DEF Sound, NameSound
  <2>16. ASSUME NEW r \in DOMAIN review' PROVE ReviewSound(r)'
    <3>1. CASE r \in DOMAIN review
      <4>1. ReviewSound(r) /\ KeptReview(r)  BY <2>11, <3>1 DEF Sound
      <4> QED  BY <1>2, <4>1 DEF ReviewSound, KeptReview
    <3>2. CASE review'[r] = q
      BY <1>2, <2>3, <2>4, <2>5, <2>6, <3>2 DEF ReviewSound
    <3> QED  BY <2>11, <3>1, <3>2
  <2> QED  BY <2>13, <2>14, <2>15, <2>16, CommitSound
<1> QED  BY <1>1, <1>2 DEF reviewUserField

(* A rename to a name that is free or the account's own. *)
LEMMA RenameCommit ==
  ASSUME Sound, NEW t \in Tx, NEW u \in User, NEW n \in Name, Closing(t), tx[t].op \in OnUser,
         u = tx[t].on, n \in tx[t].held, claim[n] \in {None, u}, UpdateProfile(u, n),
         review' \in Seq(ReviewRow), Len(review') <= MaxReviews, DOMAIN review' = DOMAIN review,
         \A r \in DOMAIN review : KeptReview(r)
  PROVE  Sound'
<1>0. Typed /\ clock \in Time  BY DEF Sound, Typed
<1>c. clock' = clock /\ \A s \in Session : KeptSession(s)  BY DEF Closing
<1>1. user[u] \in UserRow /\ change[u] \in [count : Nat, last : Time]  BY <1>0 DEF Typed
<1> DEFINE q == [user[u] EXCEPT !.name = n]
           c == [count |-> change[u].count + 1, last |-> clock]
<1>2. user' = [user EXCEPT ![u] = q] /\ change' = [change EXCEPT ![u] = c] /\ claim' = [claim EXCEPT ![n] = u]
  BY DEF UpdateProfile
<1>3. /\ q \in UserRow /\ q.name = n /\ q.st = user[u].st /\ q.pw = user[u].pw /\ q.until = user[u].until
  BY <1>1 DEF UserRow
<1>4. c \in [count : Nat, last : Time] /\ c.count = change[u].count + 1 /\ change[u].count \in Nat
  BY <1>0, <1>1
<1> HIDE DEF q, c
<1>5. /\ user' \in [User -> UserRow] /\ \A v \in User : user'[v] = IF v = u THEN q ELSE user[v]
      /\ claim' \in [Name -> User \cup {None}] /\ \A m \in Name : claim'[m] = IF m = n THEN u ELSE claim[m]
      /\ change' \in [User -> [count : Nat, last : Time]]
      /\ \A v \in User : change'[v] = IF v = u THEN c ELSE change[v]
  BY <1>0, <1>2, <1>3, <1>4 DEF Typed
<1>6. MyUser(t) = {u}  BY DEF MyUser
<1>7. CommitFrame(t)
  <2>1. /\ \A v \in User \ MyUser(t) : user'[v] = user[v] /\ change'[v] = change[v]
        /\ \A m \in Name : claim'[m] = claim[m] \/ (m \in tx[t].held /\ claim[m] = None)
    BY <1>5, <1>6
  <2> QED  BY <1>5, <2>1 DEF CommitFrame, Closing
<1>8. ASSUME NEW s \in Session, session'[s].of \in MyUser(t) PROVE SessionSound(s)'
  <2>1. SessionSound(s) /\ KeptSession(s) /\ session'[s].of = u  BY <1>c, <1>6, <1>8 DEF Sound
  <2>2. user'[u] = q  BY <1>5
  <2> QED  BY <1>c, <1>3, <2>1, <2>2 DEF SessionSound, KeptSession
<1>9. \A v \in MyUser(t) \cap User : NameSound(v)'  BY <1>3, <1>5, <1>6 DEF NameSound
<1>10. ASSUME NEW r \in DOMAIN review', review'[r].of \in MyUser(t) PROVE ReviewSound(r)'
  <2>1. r \in DOMAIN review /\ ReviewSound(r) /\ KeptReview(r) /\ review[r].of = u /\ review'[r].of = u
    BY <1>6, <1>10 DEF Sound, KeptReview
  <2>2. user'[u] = q /\ change'[u].count = change[u].count + 1  BY <1>4, <1>5
  <2>3. review[r].rev \in Nat
    <3>1. review \in Seq(ReviewRow)  BY <1>0 DEF Typed
    <3>2. review[r] \in ReviewRow  BY <2>1, <3>1
    <3> QED  BY <3>2 DEF ReviewRow
  <2>4. review[r].rev <= change[u].count /\ user[u].st # "none"  BY <2>1 DEF ReviewSound
  <2>5. review[r].rev <= change'[u].count /\ review[r].rev # change'[u].count
    BY <1>4, <2>2, <2>3, <2>4
  <2> QED  BY <1>3, <2>1, <2>2, <2>4, <2>5 DEF ReviewSound, KeptReview
<1> QED  BY <1>7, <1>8, <1>9, <1>10, CommitSound

LEMMA UpdateSound == ASSUME Sound, NEW t \in Tx, Update(t) PROVE Sound'
<1>0. Typed /\ session \in [Session -> SessionRow] /\ review \in Seq(ReviewRow) /\ Len(review) <= MaxReviews
  BY DEF Sound, Typed
<1>1. CASE InBody(t, "update") /\ ClaimUsername(tx[t].on, tx[t].to) /\ Decided(t, 0)
  <2>1. DecidedOn(t, Got(t))  BY <1>1 DEF InBody, At, DecidedOn, Evicts, ClaimUsername
  <2>2. "body" \in Reading /\ At(t, "update", "body")  BY <1>1 DEF Reading, InBody
  <2> QED  BY <1>1, <2>1, <2>2, EmptyRows, DecidedStep
<1>2. CASE Commit(t, "update", session) /\ UpdateProfile(tx[t].on, tx[t].to) /\ UNCHANGED review
  <2>1. Closing(t) /\ tx[t].op = "update" /\ tx[t].pc = "commit"
    BY <1>0, <1>2, CommitRow DEF Closing, KeptSession
  <2>2. DecisionSound(t) /\ ArgSound(t)  BY DEF Sound
  <2>3. claim[tx[t].to] \in {None, tx[t].on} /\ tx[t].op \in OnUser /\ tx[t].on \in User /\ tx[t].to \in Name
    BY <2>1, <2>2 DEF DecisionSound, DecidedOn, ArgSound, OnUser
  <2>4. tx[t].to \in tx[t].held
    <3>1. LockSound(t)  BY DEF Sound
    <3> QED  BY <2>1, <3>1 DEF LockSound, MyName
  <2>5. review' = review /\ \A r \in DOMAIN review : KeptReview(r)  BY <1>2 DEF KeptReview
  <2>6. UpdateProfile(tx[t].on, tx[t].to)  BY <1>2
  <2> QED  BY <1>0, <2>1, <2>3, <2>4, <2>5, <2>6, RenameCommit
<1> QED  BY <1>1, <1>2 DEF Update

LEMMA ReviewSteps == ASSUME Sound, NEW t \in Tx, ManualReview(t) PROVE Sound'
<1>0. Typed /\ session \in [Session -> SessionRow] /\ review \in Seq(ReviewRow) /\ Len(review) <= MaxReviews
  BY DEF Sound, Typed
<1>d. DecisionSound(t) /\ ArgSound(t)  BY DEF Sound
<1>a. CASE InBody(t, "review") /\ Recording(t)  BY <1>a, RecordingStep DEF OnActor
<1>b. ASSUME Recorded(t, "review"), tx[t].arg = "pass" => UsernameRevision(tx[t].on) = review[tx[t].to].rev
      PROVE  /\ "record" \in Reading /\ At(t, "review", "record") /\ tx[t].op = "review"
             /\ tx[t].on = review[tx[t].to].of /\ tx[t].to \in DOMAIN review
             /\ tx[t].arg = "pass" => change[tx[t].on].count = review[tx[t].to].rev
  BY <1>d, <1>b DEF Reading, Recorded, At, ArgSound, UsernameRevision
<1>c. CASE /\ Recorded(t, "review")
           /\ tx[t].arg = "pass" => UsernameRevision(tx[t].on) = review[tx[t].to].rev
           /\ ~Renames(tx[t].to, tx[t].arg) /\ Decided(t, 0)
  <2>1. DecidedOn(t, Got(t))  BY <1>b, <1>c DEF DecidedOn, Evicts, Renames
  <2> QED  BY <1>b, <1>c, <2>1, EmptyRows, DecidedStep
<1>e. CASE /\ Recorded(t, "review")
           /\ tx[t].arg = "pass" => UsernameRevision(tx[t].on) = review[tx[t].to].rev
           /\ Renames(tx[t].to, tx[t].arg) /\ Claiming(t, review[tx[t].to].cand)
  <2>1. review[tx[t].to] \in ReviewRow  BY <1>0, <1>b, <1>e
  <2>2. PICK n \in Name : n = review[tx[t].to].cand  BY <2>1 DEF ReviewRow
  <2>3. change[tx[t].on].count = review[tx[t].to].rev  BY <1>b, <1>e DEF Renames
  <2> QED  BY <1>b, <1>e, <2>2, <2>3, ClaimingStep
<1>1. CASE /\ At(t, "review", "claim") /\ ClaimUsername(tx[t].on, review[tx[t].to].cand)
           /\ Decided(t, 0)
  <2>1. tx[t].op = "review" /\ tx[t].pc = "claim" /\ "claim" \in Reading  BY <1>1 DEF At, Reading
  <2>2. ClaimsFor(t, Got(t))  BY <1>d, <2>1 DEF DecisionSound
  <2>3. DecidedOn(t, Got(t))  BY <1>1, <2>1, <2>2 DEF DecidedOn, ClaimsFor, Evicts, ClaimUsername
  <2> QED  BY <1>1, <2>1, <2>3, EmptyRows, DecidedStep
<1>2. CASE /\ Commit(t, "review", session)
           /\ review' = [review EXCEPT ![tx[t].to].open = FALSE]
           /\ IF Renames(tx[t].to, tx[t].arg) THEN UpdateProfile(tx[t].on, review[tx[t].to].cand)
              ELSE UNCHANGED <<user, claim, change>>
  <2>1. Closing(t) /\ tx[t].op = "review" /\ tx[t].pc = "commit" /\ clock' = clock
        /\ \A s \in Session : KeptSession(s)
    BY <1>0, <1>2, CommitRow DEF Closing, KeptSession
  <2>2. tx[t].op \in OnUser /\ tx[t].on \in User /\ tx[t].to \in DOMAIN review /\ tx[t].on = review[tx[t].to].of
    BY <1>d, <2>1 DEF ArgSound, OnUser
  <2>3. PICK r \in DOMAIN review : r = tx[t].to  BY <2>2
  <2>4. review[r] \in ReviewRow  BY <1>0
  <2> DEFINE q == [review[r] EXCEPT !.open = FALSE]
  <2>5. /\ q \in ReviewRow /\ q.of = review[r].of /\ q.cand = review[r].cand
        /\ q.rev = review[r].rev /\ q.was = review[r].was
    BY <2>4 DEF ReviewRow
  <2>6. review' = [review EXCEPT ![r] = q]  BY <1>2, <2>3
  <2> HIDE DEF q
  <2>7. /\ review' \in Seq(ReviewRow) /\ Len(review') = Len(review) /\ DOMAIN review' = DOMAIN review
        /\ \A k \in DOMAIN review : review'[k] = IF k = r THEN q ELSE review[k]
    BY <1>0, <2>5, <2>6
  <2>8. \A k \in DOMAIN review : KeptReview(k)  BY <2>5, <2>7 DEF KeptReview
  <2>9. CASE Renames(tx[t].to, tx[t].arg)
    <3>1. PICK n \in Name : n = review[r].cand  BY <2>4 DEF ReviewRow
    <3>2. UpdateProfile(tx[t].on, n)  BY <1>2, <2>3, <2>9, <3>1
    <3>3. tx[t].arg = "pass" /\ user[tx[t].on].name # n  BY <2>2, <2>3, <2>9, <3>1 DEF Renames
    <3>5. n \in tx[t].held /\ claim[n] \in {None, tx[t].on}
      BY <1>d, <2>1, <2>3, <3>1, <3>3 DEF DecisionSound, DecidedOn
    <3>6. Len(review') <= MaxReviews  BY <1>0, <2>7
    <3> QED  BY <2>1, <2>2, <2>7, <2>8, <3>2, <3>5, <3>6, RenameCommit
  <2>10. CASE ~Renames(tx[t].to, tx[t].arg)
    <3>1. UNCHANGED <<user, claim, change>>  BY <1>2, <2>10
    <3>2. CommitFrame(t)
      BY <1>0, <2>1, <2>7, <2>8, <3>1 DEF CommitFrame, Closing, Typed
    <3>3. ASSUME NEW s \in Session PROVE SessionSound(s)'
      <4>1. SessionSound(s) /\ KeptSession(s)  BY <2>1 DEF Sound
      <4> QED  BY <2>1, <3>1, <4>1 DEF SessionSound, KeptSession
    <3>4. \A v \in User : NameSound(v)'  BY <3>1 DEF Sound, NameSound
    <3>5. ASSUME NEW k \in DOMAIN review' PROVE ReviewSound(k)'
      <4>1. k \in DOMAIN review /\ ReviewSound(k) /\ KeptReview(k)  BY <2>7, <2>8 DEF Sound
      <4> QED  BY <3>1, <4>1 DEF ReviewSound, KeptReview
    <3> QED  BY <3>2, <3>3, <3>4, <3>5, CommitSound
  <2> QED  BY <2>9, <2>10
<1> QED  BY <1>a, <1>c, <1>e, <1>1, <1>2 DEF ManualReview

-----------------------------------------------------------------------------
(* Time passes: a ban that is over stays over. *)
LEMMA TickSound == ASSUME Sound, Tick PROVE Sound'
<1>0. Typed /\ Exclusive  BY DEF Sound
<1>1. clock \in Time /\ clock' = clock + 1 /\ clock < MaxTime  BY <1>0 DEF Tick, Typed
<1>2. clock' \in Time /\ clock \in Nat /\ clock' \in Nat  BY <1>1, TimeAssumption DEF Time
<1>3. UNCHANGED <<user, session, claim, change, review, tx, begun>>  BY DEF Tick
<1>4. Typed' /\ Exclusive'  BY <1>0, <1>2, <1>3 DEF Typed, Exclusive, Active
<1>5. ASSUME NEW u \in User, user[u].until <= clock PROVE user[u].until <= clock'
  <2>1. user[u] \in UserRow  BY <1>0 DEF Typed
  <2>2. user[u].until \in Nat  BY <2>1, TimeAssumption DEF UserRow, Forever
  <2> QED  BY <1>1, <1>2, <1>5, <2>2
<1>6. ASSUME NEW t \in Tx PROVE (ArgSound(t) /\ LockSound(t) /\ DecisionSound(t))'
  <2>1. ArgSound(t) /\ LockSound(t) /\ DecisionSound(t)  BY DEF Sound
  <2>2. Got(t)' = Got(t) /\ MyUser(t)' = MyUser(t) /\ MyName(t)' = MyName(t)
    BY <1>3 DEF Got, MyUser, MyName
  <2>3. ArgSound(t)' /\ LockSound(t)'  BY <1>3, <2>1, <2>2 DEF ArgSound, LockSound
  <2>4. ASSUME NEW rows, DecidedOn(t, rows) PROVE DecidedOn(t, rows)'
    <3>1. tx[t].op = "login" => tx[t].on \in User  BY <2>1 DEF ArgSound, OnUser
    <3>2. tx[t].op = "login" => user[tx[t].on].until <= clock'  BY <1>5, <2>4, <3>1 DEF DecidedOn
    <3> QED  BY <1>3, <2>4, <3>2 DEF DecidedOn, Evicts, OpenOf
  <2>5. DecisionSound(t)'  BY <1>3, <2>1, <2>2, <2>4 DEF DecisionSound, ClaimsFor
  <2> QED  BY <2>3, <2>5
<1>7. ASSUME NEW s \in Session PROVE SessionSound(s)'
  <2>1. SessionSound(s)  BY DEF Sound
  <2>2. session[s] \in SessionRow  BY <1>0 DEF Typed
  <2>3. session[s].of # None => session[s].of \in User  BY <2>2 DEF SessionRow
  <2> QED  BY <1>3, <1>5, <2>1, <2>3 DEF SessionSound
<1>8. \A u \in User : NameSound(u)'  BY <1>3 DEF Sound, NameSound
<1>9. \A r \in DOMAIN review' : ReviewSound(r)'  BY <1>3 DEF Sound, ReviewSound
<1> QED  BY <1>4, <1>6, <1>7, <1>8, <1>9 DEF Sound

LEMMA StutterSound == ASSUME Sound, UNCHANGED vars PROVE Sound'
<1>1. UNCHANGED <<user, session, claim, change, review, tx, clock, begun>>  BY DEF vars
<1>2. Typed' /\ Exclusive'  BY <1>1 DEF Sound, Typed, Exclusive, Active
<1>3. ASSUME NEW t \in Tx PROVE (ArgSound(t) /\ LockSound(t) /\ DecisionSound(t))'
  <2>1. ArgSound(t) /\ LockSound(t) /\ DecisionSound(t)  BY DEF Sound
  <2> QED
    BY <1>1, <2>1 DEF ArgSound, LockSound, DecisionSound, DecidedOn, ClaimsFor, Evicts, OpenOf, Got, MyUser, MyName
<1>4. \A s \in Session : SessionSound(s)'  BY <1>1 DEF Sound, SessionSound
<1>5. \A u \in User : NameSound(u)'  BY <1>1 DEF Sound, NameSound
<1>6. \A r \in DOMAIN review' : ReviewSound(r)'  BY <1>1 DEF Sound, ReviewSound
<1> QED  BY <1>2, <1>3, <1>4, <1>5, <1>6 DEF Sound

LEMMA InitSound == ASSUME Init PROVE Sound
<1> DEFINE s0 == CHOOSE s \in Session : TRUE
           a == [NoUser EXCEPT !.st = "live", !.pw = AdminPassword, !.name = AdminName, !.roles = Role]
           b == [of |-> Admin, seen |-> 0, expires |-> SessionTTL, revoked |-> None, proof |-> AdminPassword]
<1>0. s0 \in Session  BY IdAssumption
<1>1. /\ user = [u \in User |-> IF u = Admin THEN a ELSE NoUser]
      /\ session = [x \in Session |-> IF x = s0 THEN b ELSE NoSession]
      /\ claim = [m \in Name |-> IF m = AdminName THEN Admin ELSE None]
      /\ change = [u \in User |-> [count |-> 0, last |-> 0]]
      /\ review = <<>> /\ tx = [t \in Tx |-> Idle] /\ clock = TouchEvery /\ begun = 0
  BY DEF Init
<1>2. /\ a \in UserRow /\ a.st = "live" /\ a.pw = AdminPassword /\ a.name = AdminName /\ a.until = 0
      /\ NoUser.st = "none"
  BY EmptyRows, IdAssumption DEF NoUser, UserRow
<1>3. SessionTTL \in 0 .. MaxTime + SessionTTL /\ TouchEvery \in Time /\ 0 <= TouchEvery
  BY TimeAssumption DEF Time
<1>4. b \in SessionRow /\ b.of = Admin /\ b.proof = AdminPassword
  BY <1>3, EmptyRows, IdAssumption DEF SessionRow
<1> HIDE DEF s0, a, b
<1>5. Typed
  <2>1. user \in [User -> UserRow] /\ session \in [Session -> SessionRow]
    BY <1>1, <1>2, <1>4, EmptyRows
  <2>2. claim \in [Name -> User \cup {None}]  BY <1>1, IdAssumption
  <2>3. [count |-> 0, last |-> 0] \in [count : Nat, last : Time]  BY EmptyRows
  <2>4. change \in [User -> [count : Nat, last : Time]]  BY <1>1, <2>3
  <2>5. review \in Seq(ReviewRow) /\ Len(review) <= MaxReviews  BY <1>1, TimeAssumption
  <2>6. tx \in [Tx -> TxRow]  BY <1>1, EmptyRows
  <2>7. Active = {}  BY <1>1, EmptyRows DEF Active
  <2>8. begun \in 0 .. MaxRequests /\ Cardinality(Active) <= begun
    BY <1>1, <2>7, FS_EmptySet, TimeAssumption
  <2> QED  BY <1>1, <1>3, <2>1, <2>2, <2>4, <2>5, <2>6, <2>8 DEF Typed
<1>6. Exclusive  BY <1>1, EmptyRows DEF Exclusive
<1>7. ASSUME NEW t \in Tx PROVE ArgSound(t) /\ LockSound(t) /\ DecisionSound(t)
  <2>1. tx[t].op = "idle" /\ tx[t].pc = "idle" /\ tx[t].keys = {}  BY <1>1, EmptyRows
  <2>2. MyUser(t) = {} /\ MyName(t) = {}  BY <2>1 DEF MyUser, MyName, OnUser
  <2> QED  BY <2>1, <2>2 DEF ArgSound, LockSound, DecisionSound, OnUser, OnActor
<1>8. ASSUME NEW s \in Session PROVE SessionSound(s)
  <2>1. CASE s = s0
    <3>1. session[s] = b /\ user[Admin] = a  BY <1>1, <2>1, IdAssumption
    <3> QED  BY <1>1, <1>2, <1>3, <1>4, <3>1 DEF SessionSound
  <2>2. CASE s # s0
    <3>1. session[s] = NoSession  BY <1>1, <2>2
    <3> QED  BY <3>1, EmptyRows DEF SessionSound
  <2> QED  BY <2>1, <2>2
<1>9. ASSUME NEW u \in User PROVE NameSound(u)
  BY <1>1, <1>2, IdAssumption DEF NameSound
<1>10. \A r \in DOMAIN review : ReviewSound(r)  BY <1>1
<1> QED  BY <1>5, <1>6, <1>7, <1>8, <1>9, <1>10 DEF Sound

LEMMA NextSound == ASSUME Sound, [Next]_vars PROVE Sound'
<1>1. ASSUME NEW t \in Tx, Handle(t) PROVE Sound'
  BY <1>1, RegisterSound, LoginSound, ResetSound, QuietHandlers, SubmitSound, UpdateSound, DeleteSound,
     BanSound, RoleSound, ReviewSteps DEF Handle
<1>2. ASSUME NEW t \in Tx, Request(t) \/ Lock(t) \/ Handle(t) \/ Revoked(t) \/ Rollback(t) PROVE Sound'
  BY <1>1, <1>2, RequestSteps, LockSteps, RevokedStep, RollbackStep
<1>3. CASE Tick  BY <1>3, TickSound
<1>4. CASE UNCHANGED vars  BY <1>4, StutterSound
<1> QED  BY <1>2, <1>3, <1>4 DEF Next

(* The inductive invariant holds of every behaviour of the requests. *)
THEOREM AlwaysSound == Spec => []Sound
  BY InitSound, NextSound, PTL DEF Spec

-----------------------------------------------------------------------------
(* Every table has its columns' types and no row is locked by two transactions *)
(* (users, user_sessions, user_name_claims; the UnitOfWork of a request).       *)
THEOREM TypeCorrect == Spec => []TypeOK
<1>1. ASSUME Sound PROVE TypeOK
  <2>0. Typed /\ Exclusive  BY <1>1 DEF Sound
  <2>1. \A u \in User : change[u].count \in Nat /\ change[u].last \in Time
    <3>1. \A u \in User : change[u] \in [count : Nat, last : Time]  BY <2>0 DEF Typed
    <3> QED  BY <3>1
  <2>2. \A r \in DOMAIN review : review[r] \in ReviewRow
    <3>1. review \in Seq(ReviewRow)  BY <2>0 DEF Typed
    <3> QED  BY <3>1
  <2>3. ASSUME NEW t \in Tx
        PROVE  /\ tx[t].op \in Operation \cup {"idle"}
               /\ tx[t].held \subseteq Row /\ Range(tx[t].plan) \subseteq Row
               /\ tx[t].keys \subseteq User
               /\ \A w \in Tx \ {t} : tx[t].held \cap (tx[w].held \cup tx[w].keys) = {}
    <3>1. tx[t] \in TxRow  BY <2>0 DEF Typed
    <3>2. /\ tx[t].op \in Operation \cup {"idle"} /\ tx[t].held \subseteq Row /\ tx[t].plan \in Seq(Row)
          /\ tx[t].keys \subseteq User
      BY <3>1 DEF TxRow
    <3>3. Range(tx[t].plan) \subseteq Row  BY <3>2 DEF Range
    <3> QED  BY <2>0, <3>2, <3>3 DEF Exclusive
  <2> QED  BY <2>0, <2>1, <2>2, <2>3 DEF TypeOK, Typed
<1> QED  BY <1>1, AlwaysSound, PTL

(* However a password reset races with logins, every open session was let in by *)
(* the password its account has now (ResetPassword, Login).                     *)
THEOREM SessionSafety == Spec => []SessionProvesPassword
<1>1. ASSUME Sound PROVE SessionProvesPassword
  BY <1>1 DEF Sound, SessionSound, SessionProvesPassword
<1> QED  BY <1>1, AlwaysSound, PTL

(* However bans and deletions race with logins, an account that is banned or    *)
(* deleted has no open session (UpdateUserStatus, Delete, Login).               *)
THEOREM BanSafety == Spec => []BannedHasNoSession
<1>1. ASSUME Sound PROVE BannedHasNoSession
  <2> SUFFICES ASSUME NEW s \in Session, session[s].of # None, session[s].revoked = None
               PROVE  user[session[s].of].st = "live" /\ ~banned(session[s].of, clock)
    BY DEF BannedHasNoSession
  <2>0. Typed /\ SessionSound(s)  BY <1>1 DEF Sound
  <2>1. session[s] \in SessionRow  BY <2>0 DEF Typed
  <2>2. session[s].of \in User  BY <2>1 DEF SessionRow
  <2>3. user[session[s].of] \in UserRow /\ clock \in Time  BY <2>0, <2>2 DEF Typed
  <2>4. user[session[s].of].until \in Nat /\ clock \in Nat
    BY <2>3, TimeAssumption DEF UserRow, Forever, Time
  <2>5. user[session[s].of].st = "live" /\ user[session[s].of].until <= clock
    BY <2>0 DEF SessionSound
  <2>6. ~(user[session[s].of].until > clock)  BY <2>4, <2>5
  <2> QED  BY <2>5, <2>6 DEF banned
<1> QED  BY <1>1, AlwaysSound, PTL

-----------------------------------------------------------------------------
(* The commits that give an account a name. *)
NewName(t) ==
    /\ tx[t].op = "register" /\ tx[t].pc = "commit"
    /\ claim' = [claim EXCEPT ![tx[t].to] = tx[t].on] /\ UNCHANGED review

Renamed(t) ==
    /\ tx[t].op = "update" /\ tx[t].pc = "commit"
    /\ UpdateProfile(tx[t].on, tx[t].to) /\ UNCHANGED review

Passed(t) ==
    /\ tx[t].op = "review" /\ tx[t].pc = "commit"
    /\ review' = [review EXCEPT ![tx[t].to].open = FALSE]
    /\ Renames(tx[t].to, tx[t].arg) /\ UpdateProfile(tx[t].on, review[tx[t].to].cand)

(* Every other step leaves the claims alone, and either the records or the accounts. *)
LEMMA NameSteps ==
  ASSUME [Next]_vars
  PROVE  \/ UNCHANGED <<claim, review>>
         \/ UNCHANGED <<claim, user>>
         \/ \E t \in Tx : NewName(t) \/ Renamed(t) \/ Passed(t)
<1> DEFINE Goal == \/ UNCHANGED <<claim, review>>
                   \/ UNCHANGED <<claim, user>>
                   \/ \E t \in Tx : NewName(t) \/ Renamed(t) \/ Passed(t)
<1>1. ASSUME NEW t \in Tx, Request(t) PROVE Goal
  <2>1. ASSUME NEW request, Begin(t, request) PROVE UNCHANGED <<claim, review>>
    BY <2>1 DEF Begin
  <2>2. \E request : Begin(t, request)
    BY <1>1 DEF Request, BeginRegister, BeginLogin, BeginReset, BeginUse, BeginKick, BeginLogoutAll,
       BeginUpdate, BeginDelete, BeginBan, BeginRole, BeginReview, Anonymous, RequireAuth
  <2> QED  BY <2>1, <2>2
<1>2. ASSUME NEW t \in Tx, Lock(t) \/ Revoked(t) \/ Rollback(t) PROVE Goal
  BY <1>2 DEF Lock, Revoked, Rollback
<1>3. ASSUME NEW t \in Tx, Handle(t) PROVE Goal
  <2>0. ASSUME NEW now, NEW rows, NEW times, NEW n,
               Recording(t) \/ Claiming(t, n) \/ Decided(t, now) \/ Revoking(t, rows, times)
        PROVE  UNCHANGED <<claim, review>>
    BY <2>0 DEF Recording, Claiming, Decided, Revoking
  <2>1. CASE Register(t)  BY <2>0, <2>1 DEF Register, Commit, NewName
  <2>2. CASE Login(t) \/ ResetPassword(t) \/ Use(t) \/ KickSession(t)
    BY <2>0, <2>2 DEF Login, ResetPassword, Use, KickSession
  <2>3. CASE LogoutAll(t) \/ Delete(t) \/ UpdateUserStatus(t) \/ UpdateUserRole(t)
    BY <2>0, <2>3 DEF LogoutAll, Delete, UpdateUserStatus, UpdateUserRole
  <2>4. CASE reviewUserField(t)  BY <2>0, <2>4 DEF reviewUserField
  <2>5. CASE Update(t)  BY <2>0, <2>5 DEF Update, Commit, Renamed
  <2>6. CASE ManualReview(t)
    <3>1. CASE Recording(t) \/ Claiming(t, review[tx[t].to].cand) \/ Decided(t, 0)  BY <2>0, <3>1
    <3>2. CASE /\ Commit(t, "review", session)
               /\ review' = [review EXCEPT ![tx[t].to].open = FALSE]
               /\ IF Renames(tx[t].to, tx[t].arg) THEN UpdateProfile(tx[t].on, review[tx[t].to].cand)
                  ELSE UNCHANGED <<user, claim, change>>
      BY <3>2 DEF Commit, Passed
    <3> QED  BY <2>6, <3>1, <3>2 DEF ManualReview
  <2> QED  BY <1>3, <2>1, <2>2, <2>3, <2>4, <2>5, <2>6 DEF Handle
<1>4. CASE Tick  BY <1>4 DEF Tick
<1>5. CASE UNCHANGED vars  BY <1>5 DEF vars
<1> QED  BY <1>1, <1>2, <1>3, <1>4, <1>5 DEF Next

(* No claim is taken from its owner. *)
LEMMA ClaimStands ==
  ASSUME Sound, [Next]_vars, NEW n \in Name, claim[n] # None
  PROVE  claim'[n] = claim[n]
<1>0. Typed /\ claim \in [Name -> User \cup {None}] /\ review \in Seq(ReviewRow)  BY DEF Sound, Typed
<1>1. ASSUME NEW t \in Tx, NewName(t) \/ Renamed(t) \/ Passed(t) PROVE claim'[n] = claim[n]
  <2>1. DecisionSound(t) /\ ArgSound(t)  BY DEF Sound
  <2>2. CASE NewName(t)
    <3>1. claim[tx[t].to] = None  BY <2>1, <2>2 DEF NewName, DecisionSound, DecidedOn
    <3> QED  BY <1>0, <2>2, <3>1 DEF NewName
  <2>3. CASE Renamed(t)
    <3>1. claim[tx[t].to] \in {None, tx[t].on}  BY <2>1, <2>3 DEF Renamed, DecisionSound, DecidedOn
    <3> QED  BY <1>0, <2>3, <3>1 DEF Renamed, UpdateProfile
  <2>4. CASE Passed(t)
    <3> DEFINE m == review[tx[t].to].cand
    <3>1. tx[t].arg = "pass" /\ tx[t].on = review[tx[t].to].of /\ m # user[tx[t].on].name
      BY <2>1, <2>4 DEF Passed, Renames, ArgSound
    <3>2. claim[m] \in {None, tx[t].on}
      BY <2>1, <2>4, <3>1 DEF Passed, DecisionSound, DecidedOn
    <3>3. claim' = [claim EXCEPT ![m] = tx[t].on]  BY <2>4 DEF Passed, UpdateProfile
    <3> HIDE DEF m
    <3> QED  BY <1>0, <3>2, <3>3
  <2> QED  BY <1>1, <2>2, <2>3, <2>4
<1> QED  BY <1>1, NameSteps

(* A reviewer's pass meets the name under which the candidate was submitted. *)
LEMMA VerdictMeetsName ==
  ASSUME Sound, [Next]_vars, NEW r \in DOMAIN review, review'[r] # review[r],
         user'[review[r].of].name # user[review[r].of].name
  PROVE  user[review[r].of].name = review[r].was /\ user'[review[r].of].name = review[r].cand
<1>0. Typed /\ user \in [User -> UserRow] /\ review \in Seq(ReviewRow)  BY DEF Sound, Typed
<1>1. PICK t \in Tx : Passed(t)
  BY NameSteps DEF NewName, Renamed
<1>2. DecisionSound(t) /\ ArgSound(t) /\ ReviewSound(r)  BY DEF Sound
<1>3. tx[t].to \in DOMAIN review /\ tx[t].on = review[tx[t].to].of /\ tx[t].arg = "pass"
  BY <1>1, <1>2 DEF Passed, Renames, ArgSound
<1>4. r = tx[t].to
  <2>1. \A k \in DOMAIN review : k # tx[t].to => review'[k] = review[k]  BY <1>0, <1>1, <1>3 DEF Passed
  <2> QED  BY <2>1
<1>5. change[review[r].of].count = review[r].rev
  BY <1>1, <1>2, <1>3, <1>4 DEF Passed, DecisionSound, DecidedOn
<1>6. user[review[r].of].name = review[r].was  BY <1>2, <1>5 DEF ReviewSound
<1>7. review[r] \in ReviewRow  BY <1>0
<1>8. PICK u \in User : u = review[r].of  BY <1>7 DEF ReviewRow
<1>9. user' = [user EXCEPT ![u].name = review[r].cand]
  BY <1>1, <1>3, <1>4, <1>8 DEF Passed, UpdateProfile
<1>10. user[u] \in UserRow  BY <1>0
<1>11. user'[u].name = review[r].cand  BY <1>0, <1>9, <1>10 DEF UserRow
<1> QED  BY <1>6, <1>8, <1>11

(* A name belongs to its first owner for good, through renames, reviews and     *)
(* deletions at the same time, and a late verdict renames nobody who has a      *)
(* different name by now (ClaimUsername, applyManualUsernameVerdict).           *)
THEOREM NameSafety == Spec => NamesStand
<1> DEFINE Step == /\ \A n \in Name : claim[n] # None =>
                         claim'[n] = claim[n] /\ FindByUsername(n)' \subseteq {claim[n]}
                   /\ \A r \in DOMAIN review : LET u == review[r].of IN
                         review'[r] # review[r] /\ user'[u].name # user[u].name =>
                             user[u].name = review[r].was /\ user'[u].name = review[r].cand
<1>1. ASSUME Sound, [Next]_vars PROVE Step
  <2>1. Sound'  BY <1>1, NextSound
  <2>2. ASSUME NEW n \in Name, claim[n] # None
        PROVE  claim'[n] = claim[n] /\ FindByUsername(n)' \subseteq {claim[n]}
    <3>1. claim'[n] = claim[n]  BY <1>1, <2>2, ClaimStands
    <3>2. \A u \in User : user'[u].st = "live" /\ user'[u].name = n => claim'[n] = u
      BY <2>1 DEF Sound, NameSound
    <3> QED  BY <3>1, <3>2 DEF FindByUsername
  <2>3. ASSUME NEW r \in DOMAIN review, review'[r] # review[r],
               user'[review[r].of].name # user[review[r].of].name
        PROVE  user[review[r].of].name = review[r].was /\ user'[review[r].of].name = review[r].cand
    BY <1>1, <2>3, VerdictMeetsName
  <2> QED  BY <2>2, <2>3
<1>2. ASSUME Sound, [Next]_vars PROVE [Step]_vars  BY <1>1, <1>2
<1> QED  BY <1>2, AlwaysSound, PTL DEF Spec, NamesStand

-----------------------------------------------------------------------------
(* The operations that lock sessions of others, or several with no user. *)
Revokers == {"kick", "logoutAll", "ban"}

(* The order of locks: the user, then a name, then sessions.  Only reset and   *)
(* delete hold sessions, and those are of the user they hold; the touch of a   *)
(* session is the last lock.                                                   *)
UserFirst(plan) == Len(plan) <= 2 /\ \A i \in DOMAIN plan : plan[i] \in IF i = 1 THEN User ELSE Name

BodyOrder(t) ==
    /\ tx[t].held \subseteq User
    /\ tx[t].held = {} => UserFirst(tx[t].plan)
    /\ tx[t].held # {} => Len(tx[t].plan) <= 1 /\ Range(tx[t].plan) \subseteq Name

WriteOrder(t) ==
    /\ Range(tx[t].plan) \subseteq Session
    /\ tx[t].held \cap Session # {} \/ tx[t].pc = "write" => tx[t].op \in {"reset", "delete"}
    /\ tx[t].op \in {"reset", "delete"} => \A s \in Got(t) \cap Session : session[s].of = tx[t].on
    /\ tx[t].pc = "commit" => Len(tx[t].plan) <= 1

LockOrder(t) ==
    tx[t].op \notin Revokers =>
        /\ tx[t].pc = "idle" => tx[t].plan = <<>> /\ tx[t].held = {}
        /\ tx[t].pc \in Reading => BodyOrder(t)
        /\ tx[t].pc \in {"body", "record"} /\ tx[t].op \in OnActor => Got(t) \subseteq User
        /\ tx[t].pc \in {"write", "commit"} => WriteOrder(t)
        /\ tx[t].op = "delete" => tx[t].sid \in Session /\ session[tx[t].sid].of = tx[t].on
        /\ tx[t].op = "reset" => tx[t].sid = None

Ordered == \A t \in Tx : LockOrder(t)

(* No circle of waiting under that order: who holds a session waits for none,  *)
(* who holds a name waits at most for a session, who holds a user for either;  *)
(* and who shares a user's row holds one.                                      *)
LEMMA OrderedCircles == ASSUME Sound, Ordered PROVE CirclesNeedActorOrRevocation
<1> SUFFICES ASSUME NEW S \in (SUBSET Tx) \ {{}}, \A t \in S : \E w \in S \ {t} : WaitsFor(t, w),
                    \A t \in S : /\ tx[t].op \notin Revokers
                                  /\ ~(tx[t].op \in {"role", "review"} /\ tx[t].pc = "record")
             PROVE  FALSE
  BY DEF CirclesNeedActorOrRevocation, Revokers
<1>0. Typed /\ Exclusive  BY DEF Sound
<1>1. ASSUME NEW w \in S
      PROVE  /\ w \in Tx /\ LockOrder(w) /\ LockSound(w) /\ ArgSound(w) /\ tx[w].op \notin Revokers
             /\ tx[w].pc \in {"idle", "body", "claim", "write", "commit"} /\ tx[w].plan \in Seq(Row)
             /\ tx[w].held \subseteq Row /\ tx[w].keys \subseteq User
             /\ tx[w].keys # {} => tx[w].held # {}
  <2>1. w \in Tx /\ LockOrder(w) /\ LockSound(w) /\ ArgSound(w) /\ tx[w] \in TxRow
    BY <1>0 DEF Ordered, Sound, Typed
  <2>2. /\ tx[w].pc \in {"idle", "body", "record", "claim", "write", "commit"} /\ tx[w].plan \in Seq(Row)
        /\ tx[w].held \subseteq Row /\ tx[w].keys \subseteq User
    BY <2>1 DEF TxRow
  <2>3. tx[w].op \notin Revokers /\ tx[w].pc # "record"
    BY <2>1 DEF LockSound, OnActor, Revokers
  <2>4. tx[w].keys # {} => tx[w].on \in tx[w].held
    BY <2>1 DEF LockSound, OnActor, OnUser, MyUser
  <2> QED  BY <2>1, <2>2, <2>3, <2>4
<1>2. ASSUME NEW w \in S, NEW v \in S, WaitsFor(w, v)
      PROVE  /\ Head(tx[w].plan) \in Range(tx[w].plan)
             /\ Head(tx[w].plan) \in tx[v].held \cup tx[v].keys
             /\ tx[v].held # {}
  <2>1. tx[w].plan \in Seq(Row) /\ tx[w].plan # <<>>  BY <1>1, <1>2 DEF WaitsFor
  <2>2. Head(tx[w].plan) = tx[w].plan[1] /\ 1 \in DOMAIN tx[w].plan  BY <2>1
  <2>3. Head(tx[w].plan) \in tx[v].held \cup tx[v].keys
    <3>1. tx[w].pc # "record"  BY <1>1
    <3> QED  BY <1>2, <3>1 DEF WaitsFor
  <2>4. tx[v].held # {}  BY <1>1, <2>3
  <2> QED  BY <2>2, <2>3, <2>4 DEF Range
<1>3. ASSUME NEW w \in S, tx[w].held \cap Session # {}
      PROVE  /\ Range(tx[w].plan) \subseteq Session /\ tx[w].on \in tx[w].held
             /\ \A s \in Got(w) \cap Session : session[s].of = tx[w].on
  <2>1. tx[w].pc \in {"write", "commit"}
    BY <1>1, <1>3, RowAssumption DEF LockOrder, BodyOrder, Reading
  <2>2. WriteOrder(w) /\ tx[w].op \in {"reset", "delete"}  BY <1>1, <1>3, <2>1 DEF LockOrder, WriteOrder
  <2>3. tx[w].on \in MyUser(w)  BY <2>2 DEF MyUser, OnUser
  <2> QED  BY <1>1, <2>1, <2>2, <2>3 DEF WriteOrder, LockSound
<1>4. \A w \in S : tx[w].held \cap Session = {}
  <2> SUFFICES ASSUME NEW w \in S, tx[w].held \cap Session # {} PROVE FALSE  OBVIOUS
  <2>1. PICK v \in S \ {w} : WaitsFor(w, v)  OBVIOUS
  <2> DEFINE s == Head(tx[w].plan)
  <2>2. s \in Range(tx[w].plan) /\ s \in tx[v].held \cup tx[v].keys  BY <1>2, <2>1
  <2>3. s \in Session /\ session[s].of = tx[w].on /\ tx[w].on \in tx[w].held /\ s \in tx[v].held
    BY <1>1, <1>3, <2>2, RowAssumption DEF Got
  <2>4. session[s].of = tx[v].on /\ tx[v].on \in tx[v].held  BY <1>3, <2>2, <2>3 DEF Got
  <2>5. tx[w].held \cap tx[v].held = {}  BY <1>0, <1>1 DEF Exclusive
  <2> QED  BY <2>3, <2>4, <2>5
<1>5. ASSUME NEW w \in S, tx[w].pc \in {"write", "commit"} PROVE FALSE
  <2>1. PICK v \in S \ {w} : WaitsFor(w, v)  OBVIOUS
  <2>2. Range(tx[w].plan) \subseteq Session  BY <1>1, <1>5 DEF LockOrder, WriteOrder
  <2>3. Session \cap tx[v].keys = {}  BY <1>1, RowAssumption
  <2> QED  BY <1>2, <1>4, <2>1, <2>2, <2>3
<1>6. ASSUME NEW w \in S, tx[w].held # {} PROVE FALSE
  <2>1. PICK v \in S \ {w} : WaitsFor(w, v)  OBVIOUS
  <2>2. tx[w].pc \in {"body", "claim"} /\ tx[v].pc \in {"idle", "body", "claim"}
    BY <1>1, <1>5, <1>6 DEF LockOrder
  <2>3. Range(tx[w].plan) \subseteq Name  BY <1>1, <1>6, <2>2 DEF LockOrder, BodyOrder, Reading
  <2>4. tx[v].held \cup tx[v].keys \subseteq User  BY <1>1, <2>2 DEF LockOrder, BodyOrder, Reading
  <2> QED  BY <1>2, <2>1, <2>3, <2>4, RowAssumption
<1>7. PICK t \in S : TRUE  OBVIOUS
<1>8. PICK v \in S \ {t} : WaitsFor(t, v)  OBVIOUS
<1> QED  BY <1>2, <1>6, <1>8

(* A session never changes its owner. *)
LEMMA OwnerStands ==
  ASSUME Sound, [Next]_vars, NEW s \in Session, session[s].of # None
  PROVE  session'[s].of = session[s].of
<1> DEFINE Goal == session'[s].of = session[s].of
<1>0. session \in [Session -> SessionRow] /\ Typed  BY DEF Sound, Typed
<1>1. ASSUME NEW t \in Tx, NEW op, NEW table \in [Session -> SessionRow], Commit(t, op, table),
             table[s].of = session[s].of
      PROVE  Goal
  BY <1>1, CommitRow
<1>2. ASSUME NEW t \in Tx, NEW op, Commit(t, op, session) PROVE Goal  BY <1>0, <1>1, <1>2
<1>3. ASSUME NEW t \in Tx, NEW op, NEW rows, Commit(t, op, Revoke(session, rows, tx[t].now)) PROVE Goal
  <2> DEFINE R == Revoke(session, rows, tx[t].now)
  <2>1. R \in [Session -> SessionRow] /\ R[s].of = session[s].of
    BY <1>0, RevokeTimes, RevokeFacts
  <2>2. Commit(t, op, R)  BY <1>3
  <2> HIDE DEF R
  <2> QED  BY <1>1, <2>1, <2>2
<1>4. ASSUME NEW t \in Tx, NEW op \in {"register", "login"}, CanIssue,
             NEW table \in issueSession(t), Commit(t, op, table)
      PROVE  Goal
  <2>1. ArgSound(t) /\ tx[t].op = op  BY <1>4 DEF Sound, Commit
  <2>2. tx[t].on \in User /\ tx[t].arg \in Password  BY <1>4, <2>1 DEF ArgSound, OnUser
  <2>3. table \in [Session -> SessionRow]  BY <1>0, <1>4, <2>2, IssueFacts
  <2> DEFINE c == CHOOSE x \in Session : session[x].of = None
  <2>4. c \in Session /\ session[c].of = None  BY <1>4 DEF CanIssue
  <2>5. table = [session EXCEPT ![c] = newSession(tx[t].on, tx[t].arg, tx[t].now)]
    BY <1>4 DEF issueSession
  <2> HIDE DEF c
  <2>6. table[s] = session[s]  BY <1>0, <2>4, <2>5
  <2> QED  BY <1>1, <1>4, <2>3, <2>6
<1>5. ASSUME NEW t \in Tx, Request(t) \/ Lock(t) \/ Revoked(t) \/ Rollback(t) PROVE Goal
  <2>1. ASSUME NEW request, Begin(t, request) PROVE Goal  BY <2>1 DEF Begin
  <2>2. Request(t) => \E request : Begin(t, request)
    BY DEF Request, BeginRegister, BeginLogin, BeginReset, BeginUse, BeginKick, BeginLogoutAll,
       BeginUpdate, BeginDelete, BeginBan, BeginRole, BeginReview, Anonymous, RequireAuth
  <2> QED  BY <1>5, <2>1, <2>2 DEF Lock, Revoked, Rollback
<1>6. ASSUME NEW t \in Tx, Handle(t) PROVE Goal
  <2>0. ASSUME NEW now, NEW rows, NEW times, NEW n,
               Recording(t) \/ Claiming(t, n) \/ Decided(t, now) \/ Revoking(t, rows, times)
        PROVE  Goal
    BY <2>0 DEF Recording, Claiming, Decided, Revoking
  <2>1. CASE Register(t) \/ Login(t)  BY <1>4, <2>0, <2>1 DEF Register, Login
  <2>2. CASE ResetPassword(t) \/ KickSession(t) \/ LogoutAll(t)
    BY <1>3, <2>0, <2>2 DEF ResetPassword, KickSession, LogoutAll
  <2>3. CASE Delete(t) \/ UpdateUserStatus(t)  BY <1>3, <2>0, <2>3 DEF Delete, UpdateUserStatus
  <2>4. CASE Use(t) \/ reviewUserField(t) \/ Update(t)  BY <1>2, <2>0, <2>4 DEF Use, reviewUserField, Update
  <2>5. CASE UpdateUserRole(t) \/ ManualReview(t)  BY <1>2, <2>0, <2>5 DEF UpdateUserRole, ManualReview
  <2> QED  BY <1>6, <2>1, <2>2, <2>3, <2>4, <2>5 DEF Handle
<1>7. CASE Tick  BY <1>7 DEF Tick
<1>8. CASE UNCHANGED vars  BY <1>8 DEF vars
<1> QED  BY <1>5, <1>6, <1>7, <1>8 DEF Next

(* One request moves; the order of the others stands. *)
LEMMA OrderMoves ==
  ASSUME Sound, Ordered, [Next]_vars, NEW t \in Tx, \A w \in Tx \ {t} : tx'[w] = tx[w], LockOrder(t)'
  PROVE  Ordered'
<1> SUFFICES ASSUME NEW w \in Tx \ {t} PROVE LockOrder(w)'  BY DEF Ordered
<1>1. LockOrder(w) /\ ArgSound(w) /\ tx'[w] = tx[w]  BY DEF Ordered, Sound
<1>2. tx[w].op \in {"reset", "delete"} => tx[w].on \in User /\ tx[w].on # None
  BY <1>1, IdAssumption DEF ArgSound, OnUser
<1>3. \A s \in Session : tx[w].op \in {"reset", "delete"} /\ session[s].of = tx[w].on => session'[s].of = tx[w].on
  BY <1>2, OwnerStands
<1>4. Got(w)' = Got(w)  BY <1>1 DEF Got
<1>5. BodyOrder(w) => BodyOrder(w)'  BY <1>1 DEF BodyOrder
<1>6. WriteOrder(w) => WriteOrder(w)'  BY <1>1, <1>3, <1>4 DEF WriteOrder
<1> QED  BY <1>1, <1>3, <1>4, <1>5, <1>6 DEF LockOrder

(* A request that ends, and one that begins. *)
LEMMA EndOrder ==
  ASSUME Sound, NEW t \in Tx, tx' = [tx EXCEPT ![t] = Idle]
  PROVE  LockOrder(t)' /\ \A w \in Tx \ {t} : tx'[w] = tx[w]
<1>1. tx'[t] = Idle /\ \A w \in Tx \ {t} : tx'[w] = tx[w]  BY DEF Sound, Typed
<1> QED  BY <1>1, EmptyRows DEF LockOrder, Reading

LEMMA RequestOrder ==
  ASSUME Sound, NEW t \in Tx, Request(t)
  PROVE  LockOrder(t)' /\ \A w \in Tx \ {t} : tx'[w] = tx[w]
<1> DEFINE Goal == LockOrder(t)' /\ \A w \in Tx \ {t} : tx'[w] = tx[w]
<1>0. Typed /\ tx \in [Tx -> TxRow]  BY DEF Sound, Typed
<1>1. ASSUME NEW r, tx' = [tx EXCEPT ![t] = r], r.pc = "body", r.held = {},
             r.op \notin Revokers => UserFirst(r.plan), r.op \in {"role", "review"} => Range(r.plan) \subseteq User,
             r.op = "delete" => r.sid \in Session /\ session'[r.sid].of = r.on,
             r.op = "reset" => r.sid = None
      PROVE  Goal
  <2>1. tx'[t] = r /\ \A w \in Tx \ {t} : tx'[w] = tx[w]  BY <1>0, <1>1
  <2>2. r.op \notin Revokers => BodyOrder(t)'  BY <1>1, <2>1 DEF BodyOrder
  <2>3. r.op \notin Revokers /\ r.op \in OnActor => Got(t)' \subseteq User
    BY <1>1, <2>1 DEF Got, OnActor, Revokers
  <2> QED  BY <1>1, <2>1, <2>2, <2>3 DEF LockOrder
<1>2. /\ UserFirst(<<>>) /\ \A u \in User : UserFirst(<<u>>)
      /\ \A u \in User, n \in Name : UserFirst(<<u, n>>) /\ UserFirst(<<u>> \o <<n>>)
  <2>1. UserFirst(<<>>)  BY DEF UserFirst
  <2>2. ASSUME NEW u \in User PROVE UserFirst(<<u>>)  BY DEF UserFirst
  <2>3. ASSUME NEW u \in User, NEW n \in Name PROVE UserFirst(<<u, n>>)
    <3>1. DOMAIN <<u, n>> = {1, 2} /\ Len(<<u, n>>) = 2  OBVIOUS
    <3> QED  BY <3>1 DEF UserFirst
  <2>4. ASSUME NEW u \in User, NEW n \in Name PROVE UserFirst(<<u>> \o <<n>>)
    <3> DEFINE q == <<u>> \o <<n>>
    <3>1. <<u>> \in Seq({u, n}) /\ <<n>> \in Seq({u, n})  OBVIOUS
    <3>2. q \in Seq({u, n}) /\ Len(q) = 2 /\ q[1] = u /\ q[2] = n  BY <3>1
    <3> HIDE DEF q
    <3>3. DOMAIN q = {1, 2}  BY <3>2
    <3>4. UserFirst(q)  BY <3>2, <3>3 DEF UserFirst
    <3> QED  BY <3>4 DEF q
  <2> QED  BY <2>1, <2>2, <2>3, <2>4
<1>3. ASSUME NEW op, NEW u, NEW to, NEW pw, NEW plan, Anonymous(t, op, u, to, pw, plan), UserFirst(plan),
             op \notin {"delete", "role", "review"}
      PROVE  Goal
  <2> DEFINE r == [[Idle EXCEPT !.op = op, !.on = u, !.to = to, !.arg = pw, !.plan = plan] EXCEPT !.pc = "body"]
  <2>1. tx' = [tx EXCEPT ![t] = r]  BY <1>3 DEF Anonymous, Begin
  <2>2. r.pc = "body" /\ r.held = {} /\ r.op = op /\ r.plan = plan /\ r.sid = None  BY DEF Idle
  <2> HIDE DEF r
  <2> QED  BY <1>1, <1>3, <2>1, <2>2
<1>u. \A u \in User : Range(<<u>>) \subseteq User  BY PlanRange
<1>4. ASSUME NEW s \in Session, NEW op, NEW on, NEW to, NEW arg, NEW plan,
             RequireAuth(t, s, op, on, to, arg, plan), op \notin Revokers => UserFirst(plan),
             op \in {"role", "review"} => Range(plan) \subseteq User,
             op = "delete" => session[s].of = on, op # "reset"
      PROVE  Goal
  <2> DEFINE r == [[Idle EXCEPT !.op = op, !.sid = s, !.on = on, !.to = to, !.arg = arg,
                                !.at = clock, !.plan = plan] EXCEPT !.pc = "body"]
  <2>1. tx' = [tx EXCEPT ![t] = r] /\ session' = session
    BY <1>4 DEF RequireAuth, Begin, deferSessionTouch
  <2>2. r.pc = "body" /\ r.held = {} /\ r.op = op /\ r.plan = plan /\ r.sid = s /\ r.on = on  BY DEF Idle
  <2> HIDE DEF r
  <2> QED  BY <1>1, <1>4, <2>1, <2>2
<1>5. ASSUME NEW u \in User, NEW n \in Name, NEW pw \in Password, BeginRegister(t, u, n, pw) PROVE Goal
  <2>1. Anonymous(t, "register", u, n, pw, <<u, n>>)  BY <1>5 DEF BeginRegister
  <2>2. "register" \notin {"delete", "role", "review"} /\ UserFirst(<<u, n>>)  BY <1>2
  <2> QED  BY <1>3, <2>1, <2>2
<1>6. ASSUME NEW id \in User \cup Name, NEW pw \in Password, BeginLogin(t, id, pw) PROVE Goal
  <2>1. PICK u \in findLoginUser(id) : Anonymous(t, "login", u, id, pw, <<u>>)
    BY <1>6 DEF BeginLogin, LockByID
  <2>2. u \in User  BY DEF findLoginUser, FindByEmail, FindByUsername
  <2> QED  BY <1>2, <1>3, <2>1, <2>2
<1>7. ASSUME NEW u \in User, NEW pw \in Password, BeginReset(t, u, pw) PROVE Goal
  BY <1>2, <1>3, <1>7 DEF BeginReset, LockByID
<1> SUFFICES ASSUME NEW s \in Session, session[s].of # None,
                    \/ BeginUse(t, s) \/ BeginLogoutAll(t, s) \/ BeginDelete(t, s)
                    \/ \E other \in Session : BeginKick(t, s, other)
                    \/ \E n \in Name : BeginUpdate(t, s, n)
                    \/ \E u \in User, until \in normalizeAdminBan(clock) : BeginBan(t, s, u, until)
                    \/ \E u \in User, r \in Role, action \in {"grant", "revoke"} :
                           BeginRole(t, s, u, r, action)
                    \/ \E r \in DOMAIN review, v \in {"pass", "block"} : BeginReview(t, s, r, v)
             PROVE  Goal
  BY <1>5, <1>6, <1>7 DEF Request
<1>8. session[s].of \in User  BY <1>0 DEF Typed, SessionRow
<1>9. CASE BeginUse(t, s)
  <2>1. CASE RequireAuth(t, s, "use", None, None, None, <<>>)  BY <1>2, <1>4, <2>1
  <2>2. CASE Begin(t, [Idle EXCEPT !.op = "use", !.sid = s, !.at = clock])
    <3> DEFINE r == [[Idle EXCEPT !.op = "use", !.sid = s, !.at = clock] EXCEPT !.pc = "body"]
    <3>1. tx' = [tx EXCEPT ![t] = r]  BY <2>2 DEF Begin
    <3>2. r.pc = "body" /\ r.held = {} /\ r.op = "use" /\ r.plan = <<>>  BY DEF Idle
    <3> HIDE DEF r
    <3> QED  BY <1>1, <1>2, <3>1, <3>2
  <2> QED  BY <1>9, <2>1, <2>2 DEF BeginUse
<1>10. CASE BeginLogoutAll(t, s)  BY <1>4, <1>10 DEF BeginLogoutAll, Revokers
<1>11. CASE BeginDelete(t, s)  BY <1>2, <1>4, <1>8, <1>11 DEF BeginDelete, LockByID
<1>12. ASSUME NEW other \in Session, BeginKick(t, s, other) PROVE Goal
  BY <1>4, <1>12 DEF BeginKick, Revokers
<1>13. ASSUME NEW n \in Name, BeginUpdate(t, s, n) PROVE Goal
  <2>1. \/ RequireAuth(t, s, "update", session[s].of, n, None, <<session[s].of>> \o <<n>>)
        \/ RequireAuth(t, s, "submit", session[s].of, n, None, <<session[s].of>>)
    BY <1>13 DEF BeginUpdate, LockByID
  <2>2. UserFirst(<<session[s].of>> \o <<n>>) /\ UserFirst(<<session[s].of>>)  BY <1>2, <1>8
  <2> QED  BY <1>4, <2>1, <2>2
<1>14. ASSUME NEW u \in User, NEW until, BeginBan(t, s, u, until) PROVE Goal
  BY <1>4, <1>14 DEF BeginBan, Revokers
<1>15. ASSUME NEW u \in User, NEW r, NEW action, BeginRole(t, s, u, r, action) PROVE Goal
  BY <1>2, <1>4, <1>15, <1>u DEF BeginRole, LockUserByID
<1>16. ASSUME NEW r \in DOMAIN review, NEW v, BeginReview(t, s, r, v) PROVE Goal
  <2>1. review \in Seq(ReviewRow)  BY <1>0 DEF Typed
  <2>2. review[r] \in ReviewRow  BY <2>1
  <2>3. review[r].of \in User  BY <2>2 DEF ReviewRow
  <2>4. UserFirst(LockManualTarget(r)) /\ Range(LockManualTarget(r)) \subseteq User
    BY <1>2, <1>u, <2>3 DEF LockManualTarget
  <2>5. RequireAuth(t, s, "review", review[r].of, r, v, LockManualTarget(r))
    BY <1>16 DEF BeginReview
  <2> QED  BY <1>4, <2>4, <2>5
<1> QED  BY <1>9, <1>10, <1>11, <1>12, <1>13, <1>14, <1>15, <1>16

LEMMA LockOrders ==
  ASSUME Sound, Ordered, NEW t \in Tx, Lock(t)
  PROVE  LockOrder(t)' /\ \A w \in Tx \ {t} : tx'[w] = tx[w]
<1>0. Typed /\ tx[t] \in TxRow /\ tx[t].plan \in Seq(Row) /\ Len(tx[t].plan) > 1
  BY DEF Sound, Typed, TxRow, Lock
<1>1. /\ Head(tx[t].plan) \in Row /\ Tail(tx[t].plan) \in Seq(Row)
      /\ Range(tx[t].plan) = {Head(tx[t].plan)} \cup Range(Tail(tx[t].plan))
  BY <1>0, PlanStep
<1> DEFINE q == [tx[t] EXCEPT !.held = tx[t].held \cup {Head(tx[t].plan)}, !.plan = Tail(tx[t].plan)]
<1>2. tx' = [tx EXCEPT ![t] = q]  BY <1>0 DEF Lock
<1>3. /\ q.op = tx[t].op /\ q.on = tx[t].on /\ q.sid = tx[t].sid /\ q.pc = tx[t].pc
      /\ q.held = tx[t].held \cup {Head(tx[t].plan)} /\ q.plan = Tail(tx[t].plan)
  BY <1>0 DEF TxRow
<1> HIDE DEF q
<1>4. tx'[t] = q /\ \A w \in Tx \ {t} : tx'[w] = tx[w]  BY <1>0, <1>2 DEF Typed
<1>5. session' = session /\ LockOrder(t)  BY DEF Lock, Ordered
<1>6. Got(t)' = Got(t)  BY <1>1, <1>3, <1>4 DEF Got
<1> SUFFICES ASSUME tx[t].op \notin Revokers PROVE LockOrder(t)'  BY <1>3, <1>4 DEF LockOrder
<1>7. CASE tx[t].pc \in Reading
  <2>1. BodyOrder(t)  BY <1>5, <1>7 DEF LockOrder
  <2>2. tx[t].held = {} /\ UserFirst(tx[t].plan)
    <3>1. ~(Len(tx[t].plan) <= 1)  BY <1>0
    <3> QED  BY <2>1, <3>1 DEF BodyOrder
  <2>3. Len(tx[t].plan) = 2
    <3> DEFINE n == Len(tx[t].plan)
    <3>1. n <= 2  BY <2>2 DEF UserFirst
    <3>2. n \in Nat /\ n > 1  BY <1>0
    <3> HIDE DEF n
    <3>3. n = 2  BY <3>1, <3>2
    <3> QED  BY <3>3 DEF n
  <2>4. /\ 1 \in DOMAIN tx[t].plan /\ 2 \in DOMAIN tx[t].plan /\ Head(tx[t].plan) = tx[t].plan[1]
        /\ Len(Tail(tx[t].plan)) = 1 /\ Tail(tx[t].plan)[1] = tx[t].plan[2]
    BY <1>0, <2>3
  <2>5. Head(tx[t].plan) \in User /\ tx[t].plan[2] \in Name  BY <2>2, <2>4 DEF UserFirst
  <2>6. DOMAIN Tail(tx[t].plan) = {1} /\ Len(Tail(tx[t].plan)) <= 1
    <3> DEFINE p == Tail(tx[t].plan)
    <3>1. p \in Seq(Row) /\ Len(p) = 1  BY <1>1, <2>4
    <3> HIDE DEF p
    <3>2. DOMAIN p = {1} /\ Len(p) <= 1  BY <3>1
    <3> QED  BY <3>2 DEF p
  <2>7. Range(Tail(tx[t].plan)) \subseteq Name  BY <2>4, <2>5, <2>6 DEF Range
  <2>8. q.held \subseteq User /\ q.held # {} /\ Len(q.plan) <= 1 /\ Range(q.plan) \subseteq Name
    BY <1>3, <2>2, <2>5, <2>6, <2>7
  <2>9. BodyOrder(t)'  BY <1>4, <2>8 DEF BodyOrder
  <2>10. tx[t].pc \in {"body", "record"} /\ tx[t].op \in OnActor => Got(t)' \subseteq User
    BY <1>5, <1>6 DEF LockOrder
  <2> QED  BY <1>3, <1>4, <1>5, <1>7, <2>9, <2>10 DEF LockOrder, Reading
<1>8. CASE tx[t].pc = "write"
  <2>1. WriteOrder(t)  BY <1>5, <1>8 DEF LockOrder
  <2>2. WriteOrder(t)'  BY <1>1, <1>3, <1>4, <1>5, <1>6, <1>8, <2>1 DEF WriteOrder
  <2> QED  BY <1>3, <1>4, <1>5, <1>8, <2>2 DEF LockOrder, Reading
<1>9. CASE tx[t].pc = "commit"
  <2>1. Len(tx[t].plan) <= 1  BY <1>5, <1>9 DEF LockOrder, WriteOrder
  <2> QED  BY <1>0, <2>1
<1>10. CASE tx[t].pc = "idle"
  <2>1. tx[t].plan = <<>>  BY <1>5, <1>10 DEF LockOrder
  <2> QED  BY <1>0, <2>1
<1>11. tx[t].pc \in Reading \cup {"idle", "write", "commit"}  BY <1>0 DEF TxRow, Reading
<1> QED  BY <1>4, <1>7, <1>8, <1>9, <1>10, <1>11

(* Where the rows of a request in its body lie: users and names. *)
LEMMA BodyRows ==
  ASSUME NEW t \in Tx, Typed, BodyOrder(t)
  PROVE  Got(t) \cap Session = {}
<1>1. tx[t].plan \in Seq(Row)  BY DEF Typed, TxRow
<1>2. Range(tx[t].plan) \subseteq User \cup Name
  <2>1. CASE tx[t].held = {}
    <3>1. \A i \in DOMAIN tx[t].plan : tx[t].plan[i] \in User \cup Name
      BY <2>1 DEF BodyOrder, UserFirst
    <3> QED  BY <3>1 DEF Range
  <2>2. CASE tx[t].held # {}  BY <2>2 DEF BodyOrder
  <2> QED  BY <2>1, <2>2
<1>3. tx[t].held \subseteq User  BY DEF BodyOrder
<1> QED  BY <1>2, <1>3, RowAssumption DEF Got

(* A request that has decided or revoked locks at most its session. *)
LEMMA CommitOrder ==
  ASSUME Sound, Ordered, NEW t \in Tx, tx[t].pc \in Reading \cup {"write"},
         \A w \in Tx \ {t} : tx'[w] = tx[w], session' = session,
         tx'[t].op = tx[t].op, tx'[t].on = tx[t].on, tx'[t].sid = tx[t].sid, tx'[t].pc = "commit",
         tx'[t].held = Got(t), tx'[t].plan = BeforeCommit(t)
  PROVE  LockOrder(t)'
<1>0. Typed /\ LockOrder(t)  BY DEF Sound, Ordered
<1> SUFFICES ASSUME tx[t].op \notin Revokers PROVE LockOrder(t)'  BY DEF LockOrder
<1>1. tx[t].sid \in Session \cup {None}  BY <1>0 DEF Typed, TxRow
<1>2. \/ BeforeCommit(t) = <<>>
      \/ BeforeCommit(t) = <<tx[t].sid>> /\ tx[t].sid \in Session
  BY <1>1 DEF BeforeCommit, TouchMatches
<1>3. Len(BeforeCommit(t)) <= 1 /\ Range(BeforeCommit(t)) \subseteq {tx[t].sid} \cap Session
  <2>1. Range(<<>>) = {} /\ Range(<<tx[t].sid>>) = {tx[t].sid}  BY PlanRange
  <2>2. Len(<<>>) <= 1 /\ Len(<<tx[t].sid>>) <= 1  OBVIOUS
  <2>3. CASE BeforeCommit(t) = <<>>  BY <2>1, <2>2, <2>3
  <2>4. CASE BeforeCommit(t) = <<tx[t].sid>> /\ tx[t].sid \in Session  BY <2>1, <2>2, <2>4
  <2> QED  BY <1>2, <2>3, <2>4
<1>4. Got(t)' = Got(t) \cup Range(BeforeCommit(t))  BY DEF Got
<1>5. Got(t) \cap Session # {} => tx[t].op \in {"reset", "delete"}
  <2>1. CASE tx[t].pc \in Reading  BY <1>0, <2>1, BodyRows DEF LockOrder
  <2>2. CASE tx[t].pc = "write"  BY <1>0, <2>2 DEF LockOrder, WriteOrder
  <2> QED  BY <2>1, <2>2
<1>6. tx[t].op \in {"reset", "delete"} => \A s \in Got(t) \cap Session : session[s].of = tx[t].on
  <2>1. CASE tx[t].pc \in Reading  BY <1>0, <2>1, BodyRows DEF LockOrder
  <2>2. CASE tx[t].pc = "write"  BY <1>0, <2>2 DEF LockOrder, WriteOrder
  <2> QED  BY <2>1, <2>2
<1>7. tx[t].op \in {"reset", "delete"} => \A s \in {tx[t].sid} \cap Session : session[s].of = tx[t].on
  BY <1>0, IdAssumption DEF LockOrder
<1>8. WriteOrder(t)'  BY <1>3, <1>4, <1>5, <1>6, <1>7 DEF WriteOrder
<1> QED  BY <1>0, <1>8 DEF LockOrder, Reading

LEMMA DecidedOrder ==
  ASSUME Sound, Ordered, NEW t \in Tx, NEW op, NEW pc \in Reading, At(t, op, pc), NEW now, Decided(t, now)
  PROVE  LockOrder(t)' /\ \A w \in Tx \ {t} : tx'[w] = tx[w]
<1>0. Typed /\ tx[t] \in TxRow  BY DEF Sound, Typed
<1> DEFINE q == [tx[t] EXCEPT !.pc = "commit", !.now = now, !.held = Got(t), !.keys = Keys(t),
                              !.plan = BeforeCommit(t)]
<1>1. tx' = [tx EXCEPT ![t] = q] /\ session' = session  BY <1>0 DEF Decided
<1>2. /\ q.op = tx[t].op /\ q.on = tx[t].on /\ q.sid = tx[t].sid /\ q.pc = "commit"
      /\ q.held = Got(t) /\ q.plan = BeforeCommit(t)
  BY <1>0 DEF TxRow
<1> HIDE DEF q
<1>3. tx'[t] = q /\ \A w \in Tx \ {t} : tx'[w] = tx[w]  BY <1>0, <1>1 DEF Typed
<1>4. tx[t].pc \in Reading  BY DEF At
<1> QED  BY <1>1, <1>2, <1>3, <1>4, CommitOrder

(* A role change or a review that writes its record has its target and no other row. *)
LEMMA RecordingOrder ==
  ASSUME Sound, Ordered, NEW t \in Tx, NEW op \in OnActor, InBody(t, op), Recording(t)
  PROVE  LockOrder(t)' /\ \A w \in Tx \ {t} : tx'[w] = tx[w]
<1>0. Typed /\ tx[t] \in TxRow /\ LockOrder(t)  BY DEF Sound, Typed, Ordered
<1> DEFINE q == [tx[t] EXCEPT !.pc = "record", !.held = Got(t), !.plan = <<>>]
<1>1. tx' = [tx EXCEPT ![t] = q] /\ session' = session  BY <1>0 DEF Recording
<1>2. /\ q.op = tx[t].op /\ q.on = tx[t].on /\ q.sid = tx[t].sid /\ q.pc = "record"
      /\ q.held = Got(t) /\ q.plan = <<>>
  BY <1>0 DEF TxRow
<1> HIDE DEF q
<1>3. tx'[t] = q /\ \A w \in Tx \ {t} : tx'[w] = tx[w]  BY <1>0, <1>1 DEF Typed
<1>4. tx[t].pc = "body" /\ tx[t].op \in OnActor  BY DEF InBody, At
<1> SUFFICES ASSUME tx[t].op \notin Revokers PROVE LockOrder(t)'  BY <1>2, <1>3 DEF LockOrder
<1>5. Got(t) \subseteq User  BY <1>0, <1>4 DEF LockOrder
<1>6. Range(<<>>) = {} /\ UserFirst(<<>>) /\ Len(<<>>) <= 1  BY PlanRange DEF UserFirst
<1>7. Got(t)' = Got(t)  BY <1>2, <1>3, <1>6 DEF Got
<1>8. BodyOrder(t)'  BY <1>2, <1>3, <1>5, <1>6 DEF BodyOrder
<1> QED  BY <1>0, <1>1, <1>2, <1>3, <1>5, <1>7, <1>8 DEF LockOrder, OnActor

(* ... and then claims the name. *)
LEMMA ClaimingOrder ==
  ASSUME Sound, Ordered, NEW t \in Tx, At(t, "review", "record"), NEW n \in Name, Claiming(t, n)
  PROVE  LockOrder(t)' /\ \A w \in Tx \ {t} : tx'[w] = tx[w]
<1>0. Typed /\ tx[t] \in TxRow /\ LockOrder(t) /\ LockSound(t)  BY DEF Sound, Typed, Ordered
<1> DEFINE q == [tx[t] EXCEPT !.pc = "claim", !.held = Got(t), !.keys = Keys(t), !.plan = <<n>>]
<1>1. tx' = [tx EXCEPT ![t] = q] /\ session' = session  BY <1>0 DEF Claiming
<1>2. /\ q.op = tx[t].op /\ q.on = tx[t].on /\ q.sid = tx[t].sid /\ q.pc = "claim"
      /\ q.held = Got(t) /\ q.plan = <<n>>
  BY <1>0 DEF TxRow
<1> HIDE DEF q
<1>3. tx'[t] = q /\ \A w \in Tx \ {t} : tx'[w] = tx[w]  BY <1>0, <1>1 DEF Typed
<1>4. tx[t].pc = "record" /\ tx[t].op = "review"  BY DEF At
<1>5. Got(t) \subseteq User  BY <1>0, <1>4 DEF LockOrder, Revokers, OnActor
<1>6. Range(<<n>>) = {n} /\ Len(<<n>>) <= 1  BY PlanRange
<1>7. Got(t) # {}  BY <1>0, <1>4 DEF LockSound, MyUser, OnUser
<1>8. BodyOrder(t)'  BY <1>2, <1>3, <1>5, <1>6, <1>7 DEF BodyOrder
<1> QED  BY <1>0, <1>1, <1>2, <1>3, <1>4, <1>8 DEF LockOrder

LEMMA RevokedOrder ==
  ASSUME Sound, Ordered, NEW t \in Tx, Revoked(t)
  PROVE  LockOrder(t)' /\ \A w \in Tx \ {t} : tx'[w] = tx[w]
<1>0. Typed /\ tx[t] \in TxRow  BY DEF Sound, Typed
<1> DEFINE q == [tx[t] EXCEPT !.pc = "commit", !.held = Got(t), !.plan = BeforeCommit(t)]
<1>1. tx' = [tx EXCEPT ![t] = q] /\ session' = session /\ tx[t].pc = "write"  BY <1>0 DEF Revoked
<1>2. /\ q.op = tx[t].op /\ q.on = tx[t].on /\ q.sid = tx[t].sid /\ q.pc = "commit"
      /\ q.held = Got(t) /\ q.plan = BeforeCommit(t)
  BY <1>0 DEF TxRow
<1> HIDE DEF q
<1>3. tx'[t] = q /\ \A w \in Tx \ {t} : tx'[w] = tx[w]  BY <1>0, <1>1 DEF Typed
<1> QED  BY <1>1, <1>2, <1>3, CommitOrder

(* reset and delete revoke sessions of the user they hold. *)
LEMMA RevokingOrder ==
  ASSUME Sound, Ordered, NEW t \in Tx, NEW op, NEW pc \in Reading, At(t, op, pc),
         NEW rows \in SUBSET Session, NEW times,
         Revoking(t, rows, times),
         op \notin Revokers => op \in {"reset", "delete"} /\ \A s \in rows : session[s].of = tx[t].on
  PROVE  LockOrder(t)' /\ \A w \in Tx \ {t} : tx'[w] = tx[w]
<1>0. Typed /\ tx[t] \in TxRow /\ LockOrder(t)  BY DEF Sound, Typed, Ordered
<1>1. PICK now \in times, order \in SetToSeqs(rows \ Got(t)) :
         tx' = [tx EXCEPT ![t].pc = "write", ![t].now = now, ![t].held = Got(t), ![t].keys = Keys(t),
                          ![t].plan = order]
  BY DEF Revoking
<1>2. Range(order) = rows \ Got(t)  BY OrderRange
<1> DEFINE q == [tx[t] EXCEPT !.pc = "write", !.now = now, !.held = Got(t), !.keys = Keys(t), !.plan = order]
<1>3. tx' = [tx EXCEPT ![t] = q] /\ session' = session  BY <1>0, <1>1 DEF Revoking
<1>4. /\ q.op = tx[t].op /\ q.on = tx[t].on /\ q.sid = tx[t].sid /\ q.pc = "write"
      /\ q.held = Got(t) /\ q.plan = order
  BY <1>0 DEF TxRow
<1> HIDE DEF q
<1>5. tx'[t] = q /\ \A w \in Tx \ {t} : tx'[w] = tx[w]  BY <1>0, <1>3 DEF Typed
<1> SUFFICES ASSUME tx[t].op \notin Revokers PROVE LockOrder(t)'  BY <1>4, <1>5 DEF LockOrder
<1>6. tx[t].pc \in Reading /\ tx[t].op = op /\ op \in {"reset", "delete"}  BY DEF At
<1>7. Got(t) \cap Session = {}  BY <1>0, <1>6, BodyRows DEF LockOrder
<1>8. Got(t)' = Got(t) \cup Range(order)  BY <1>4, <1>5 DEF Got
<1>9. \A s \in Range(order) : s \in Session /\ session[s].of = tx[t].on  BY <1>2, <1>6
<1>10. WriteOrder(t)'
  BY <1>3, <1>4, <1>5, <1>6, <1>7, <1>8, <1>9 DEF WriteOrder
<1> QED  BY <1>0, <1>3, <1>4, <1>5, <1>10 DEF LockOrder, Reading

LEMMA HandleOrder ==
  ASSUME Sound, Ordered, NEW t \in Tx, Handle(t)
  PROVE  LockOrder(t)' /\ \A w \in Tx \ {t} : tx'[w] = tx[w]
<1> DEFINE Goal == LockOrder(t)' /\ \A w \in Tx \ {t} : tx'[w] = tx[w]
<1>1. ASSUME NEW op, NEW table, Commit(t, op, table) PROVE Goal  BY <1>1, EndOrder DEF Commit
<1>2. ASSUME NEW op, NEW pc \in Reading, NEW now, At(t, op, pc), Decided(t, now) PROVE Goal
  BY <1>2, DecidedOrder
<1>3. ASSUME NEW op \in {"reset", "delete"}, NEW times, InBody(t, op), Revoking(t, RevokeAll(tx[t].on), times)
      PROVE  Goal
  <2>1. RevokeAll(tx[t].on) \in SUBSET Session /\ \A s \in RevokeAll(tx[t].on) : session[s].of = tx[t].on
    BY DEF RevokeAll
  <2>2. "body" \in Reading /\ At(t, op, "body")  BY <1>3 DEF Reading, InBody
  <2> QED  BY <1>3, <2>1, <2>2, RevokingOrder
<1>4. ASSUME NEW op \in Revokers, NEW pc \in Reading, NEW rows \in SUBSET Session, NEW times, At(t, op, pc),
             Revoking(t, rows, times)
      PROVE  Goal
  BY <1>4, RevokingOrder
<1>r. ASSUME NEW op \in OnActor, InBody(t, op), Recording(t) PROVE Goal  BY <1>r, RecordingOrder
<1>b. "body" \in Reading /\ "record" \in Reading /\ "claim" \in Reading  BY DEF Reading
<1>5. CASE Register(t) \/ Login(t) \/ Use(t)  BY <1>1, <1>2, <1>5, <1>b DEF Register, Login, Use, InBody
<1>6. CASE ResetPassword(t) \/ Delete(t)  BY <1>1, <1>3, <1>6 DEF ResetPassword, Delete
<1>7. CASE KickSession(t)
  <2>1. InBody(t, "kick") => {tx[t].to} \in SUBSET Session
    <3>1. ArgSound(t)  BY DEF Sound
    <3> QED  BY <3>1 DEF InBody, At, ArgSound
  <2> QED  BY <1>1, <1>4, <1>7, <1>b, <2>1 DEF KickSession, Revokers, InBody
<1>8. CASE LogoutAll(t)
  <2>1. RevokeAll(session[tx[t].sid].of) \in SUBSET Session  BY DEF RevokeAll
  <2> QED  BY <1>1, <1>4, <1>8, <1>b, <2>1 DEF LogoutAll, Revokers, InBody
<1>9. CASE UpdateUserStatus(t)
  <2>1. RevokeAll(tx[t].on) \in SUBSET Session  BY DEF RevokeAll
  <2>2. InBody(t, "ban") /\ Recording(t) => Goal  BY <1>r DEF OnActor
  <2>3. Recorded(t, "ban") /\ Decided(t, 0) => Goal  BY <1>2, <1>b DEF Recorded
  <2>4. Recorded(t, "ban") /\ Revoking(t, RevokeAll(tx[t].on), tx[t].at .. clock) => Goal
    BY <1>4, <1>b, <2>1 DEF Recorded, Revokers
  <2> QED  BY <1>1, <1>9, <2>2, <2>3, <2>4 DEF UpdateUserStatus
<1>10. CASE reviewUserField(t) \/ Update(t)
  BY <1>1, <1>2, <1>10, <1>b DEF reviewUserField, Update, InBody
<1>11. CASE UpdateUserRole(t)
  <2>1. InBody(t, "role") /\ Recording(t) => Goal  BY <1>r DEF OnActor
  <2>2. (InBody(t, "role") \/ Recorded(t, "role")) /\ Decided(t, 0) => Goal
    BY <1>2, <1>b DEF InBody, Recorded
  <2> QED  BY <1>1, <1>11, <2>1, <2>2 DEF UpdateUserRole
<1>12. CASE ManualReview(t)
  <2>1. InBody(t, "review") /\ Recording(t) => Goal  BY <1>r DEF OnActor
  <2>2. (Recorded(t, "review") \/ At(t, "review", "claim")) /\ Decided(t, 0) => Goal
    BY <1>2, <1>b DEF Recorded
  <2>3. Recorded(t, "review") /\ Claiming(t, review[tx[t].to].cand) => Goal
    <3>1. SUFFICES ASSUME Recorded(t, "review"), Claiming(t, review[tx[t].to].cand) PROVE Goal  OBVIOUS
    <3>2. ArgSound(t) /\ review \in Seq(ReviewRow)  BY DEF Sound, Typed
    <3>3. tx[t].to \in DOMAIN review  BY <3>1, <3>2 DEF Recorded, At, ArgSound
    <3>4. review[tx[t].to] \in ReviewRow  BY <3>2, <3>3
    <3>5. review[tx[t].to].cand \in Name  BY <3>4 DEF ReviewRow
    <3> QED  BY <3>1, <3>5, ClaimingOrder DEF Recorded
  <2> QED  BY <1>1, <1>12, <2>1, <2>2, <2>3 DEF ManualReview
<1> QED  BY <1>5, <1>6, <1>7, <1>8, <1>9, <1>10, <1>11, <1>12 DEF Handle

LEMMA NextOrdered == ASSUME Sound, Ordered, [Next]_vars PROVE Ordered'
<1>1. ASSUME NEW t \in Tx, Request(t) \/ Lock(t) \/ Handle(t) \/ Revoked(t) \/ Rollback(t) PROVE Ordered'
  <2>1. Rollback(t) => tx' = [tx EXCEPT ![t] = Idle]  BY DEF Rollback
  <2>2. LockOrder(t)' /\ \A w \in Tx \ {t} : tx'[w] = tx[w]
    BY <1>1, <2>1, RequestOrder, LockOrders, HandleOrder, RevokedOrder, EndOrder
  <2> QED  BY <2>2, OrderMoves
<1>2. CASE Tick \/ UNCHANGED vars
  <2>1. tx' = tx /\ session' = session  BY <1>2 DEF Tick, vars
  <2> QED  BY <2>1 DEF Ordered, LockOrder, BodyOrder, WriteOrder, Got
<1> QED  BY <1>1, <1>2 DEF Next

(* Requests wait in a circle only if one of them kicks, logs everything out or  *)
(* bans, or is a role change or a review that waits for the row of its own      *)
(* actor: deferSessionTouch locks the session of a request after all else.      *)
THEOREM WaitSafety == Spec => []CirclesNeedActorOrRevocation
<1>1. Init => Ordered
  <2> SUFFICES ASSUME Init, NEW t \in Tx PROVE LockOrder(t)  BY DEF Ordered
  <2>1. tx[t] = Idle  BY DEF Init
  <2> QED  BY <2>1, EmptyRows DEF LockOrder, Reading
<1>2. Sound /\ Ordered /\ [Next]_vars => Ordered'  BY NextOrdered
<1>3. Sound /\ Ordered => CirclesNeedActorOrRevocation  BY OrderedCircles
<1> QED  BY <1>1, <1>2, <1>3, AlwaysSound, PTL DEF Spec

=============================================================================
