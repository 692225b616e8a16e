------------------------------ MODULE Accounts ------------------------------
(***************************************************************************)
(* Accounts: registration, login, sessions, password reset, user names and *)
(* their reviews, bans, roles and deletion.  A request is one database      *)
(* transaction (PostgreSQL, READ COMMITTED): it is authenticated from a     *)
(* snapshot, locks rows in the order of its statements, decides on what it  *)
(* reads under the locks, records the activity of its session last and      *)
(* becomes visible with its commit.                                         *)
(***************************************************************************)
EXTENDS Integers, Sequences, FiniteSets, SequencesExt

CONSTANTS
    User,         \* ids of accounts, each with its e-mail address
    Admin,        \* the account an operator made super_admin,
    AdminName,    \* its name
    AdminPassword,
    Session,      \* ids of device sessions
    Name,         \* user names, up to case and width
    Password,
    Role,         \* the managed roles that are granted and revoked
    Tx,           \* requests that run at the same time
    SessionTTL,   \* RefreshTokenTTL
    TouchEvery,   \* sessionTouchThreshold
    Cooldown,     \* 720 hours
    MaxTime,      \* bound: the clock
    MaxReviews,   \* bound: records on user names that await a reviewer
    MaxRequests,  \* bound: requests begun and not rolled back
    None

ASSUME IdAssumption == /\ Admin \in User /\ AdminName \in Name /\ AdminPassword \in Password
                       /\ Session # {}
                       /\ None \notin User \cup Session \cup Name \cup Password
                       /\ None \notin Nat
ASSUME RowAssumption == User \cap Session = {} /\ User \cap Name = {} /\ Session \cap Name = {}
ASSUME FiniteAssumption == IsFiniteSet(Session) /\ IsFiniteSet(Tx)
ASSUME TimeAssumption == /\ SessionTTL \in Nat \ {0} /\ TouchEvery \in Nat \ {0}
                         /\ Cooldown \in Nat /\ MaxTime \in Nat /\ MaxTime >= TouchEvery
                         /\ MaxReviews \in Nat /\ MaxRequests \in Nat
ASSUME RoleAssumption == Role \subseteq {"dict_reviewer", "moderator", "super_admin"}

VARIABLES
    user,     \* users and user_roles
    session,  \* user_sessions
    claim,    \* user_name_claims: the account a name belongs to
    change,   \* user_name_change_records: how many, and when the latest
    review,   \* moderation_records on user names that the machine did not pass
    tx,       \* the open transactions
    clock,
    begun

vars == <<user, session, claim, change, review, tx, clock, begun>>

Time == 0 .. MaxTime
Forever == MaxTime + 1
Row == User \cup Session \cup Name

(* until: the end of the ban, 0 for none, Forever for a permanent one. *)
UserRow == [st : {"none", "live", "gone"}, pw : Password \cup {None},
            name : Name \cup {None}, until : 0 .. Forever, roles : SUBSET Role]
NoUser == [st |-> "none", pw |-> None, name |-> None, until |-> 0, roles |-> {}]

(* proof: the password whose check let the session in. *)
SessionRow == [of : User \cup {None}, seen : Time, expires : 0 .. MaxTime + SessionTTL,
               revoked : Time \cup {None}, proof : Password \cup {None}]
NoSession == [of |-> None, seen |-> 0, expires |-> 0, revoked |-> None, proof |-> None]

(* was: the name of the user when the candidate was submitted. *)
ReviewRow == [of : User, cand : Name, rev : Nat, was : Name, open : BOOLEAN]

Operation == {"register", "login", "reset", "use", "kick", "logoutAll", "update", "submit",
              "delete", "ban", "role", "review"}

(* on: the user it is about; to, arg: its other arguments; at: when it was  *)
(* authenticated; now: the time the handler writes, if any; plan: the rows it still *)
(* has to lock; held: the rows it has locked FOR UPDATE; keys: the users whose rows *)
(* its foreign keys have locked FOR KEY SHARE.                              *)
Idle == [op |-> "idle", sid |-> None, on |-> None, to |-> None, arg |-> None,
         at |-> 0, now |-> 0, pc |-> "idle", plan |-> <<>>, held |-> {}, keys |-> {}]

-----------------------------------------------------------------------------
(* Roles and capabilities. *)

roleCapabilities ==
    [r \in {"user", "dict_reviewer", "moderator", "super_admin"} |->
        CASE r = "user" -> {"use_app"}
          [] r = "dict_reviewer" -> {"use_app", "manage_dictionary"}
          [] r = "moderator" -> {"use_app", "review_content", "ban_user"}
          [] r = "super_admin" -> {"use_app", "manage_dictionary", "review_content",
                                   "ban_user", "manage_user_roles"}]

HasCapability(roles, capability) ==
    IF roles = {} THEN capability \in roleCapabilities["user"]
    ELSE \E r \in roles : capability \in roleCapabilities[r]

(* RequireCapability on the route of an operation. *)
RequireCapability(op) ==
    CASE op = "ban" -> "ban_user"
      [] op = "role" -> "manage_user_roles"
      [] op = "review" -> "review_content"
      [] OTHER -> "use_app"

-----------------------------------------------------------------------------
(* Tokens and the sessions they name. *)

banned(u, now) == user[u].until > now

(* The two tokens of a session carry its id and its user; nobody else can sign one. *)
SignAt(s, typ) == [type |-> typ, sid |-> s, sub |-> session[s].of]

Parse(token, want) == token.type = want

claimIDs(token) == token.sid \in Session /\ token.sub \in User

FindActiveIdentity(s, u, now) ==
    /\ session[s].of = u /\ session[s].revoked = None /\ session[s].expires > now
    /\ user[u].st = "live" /\ ~banned(u, now)

Authenticate(token, now) ==
    /\ Parse(token, "access")
    /\ claimIDs(token)
    /\ FindActiveIdentity(token.sid, token.sub, now)

FindRefreshIdentity(token, now) ==
    token = SignAt(token.sid, "refresh") /\ FindActiveIdentity(token.sid, token.sub, now)

(* Refresh hands out an access token and leaves the session as it is. *)
Refresh(token, now) ==
    /\ Parse(token, "refresh")
    /\ claimIDs(token)
    /\ FindRefreshIdentity(token, now)

newSession(u, pw, now) ==
    [of |-> u, seen |-> now, expires |-> now + SessionTTL, revoked |-> None, proof |-> pw]

(* UPDATE ... SET revoked_at = GREATEST(now, last_seen_at) on the rows still open. *)
Revoke(table, rows, now) ==
    [s \in Session |-> IF s \in rows /\ table[s].revoked = None
                       THEN [table[s] EXCEPT !.revoked = IF now > table[s].seen
                                                         THEN now ELSE table[s].seen]
                       ELSE table[s]]

(* The rows a RevokeAll statement finds. *)
RevokeAll(u) == {s \in Session : session[s].of = u /\ session[s].revoked = None}

TouchMatches(table, s, now) ==
    /\ s # None
    /\ table[s].revoked = None /\ table[s].expires > now /\ table[s].seen + TouchEvery <= now

Touch(table, s, now) ==
    IF TouchMatches(table, s, now) THEN [table EXCEPT ![s].seen = now] ELSE table

-----------------------------------------------------------------------------
(* Users and names. *)

FindByUsername(n) == {u \in User : user[u].st = "live" /\ user[u].name = n}

FindByEmail(u) == {v \in {u} : user[v].st = "live"}

(* A login identifier is an e-mail address or a user name. *)
findLoginUser(id) == IF id \in User THEN FindByEmail(id) ELSE FindByUsername(id)

(* SELECT ... FOR UPDATE of a user that is not deleted. *)
LockByID_Mutant(u) == <<>>
LockByID(u) == <<u>>

(* LockUserByID of the admin service. *)
LockUserByID(u) == <<u>>

UsernameRevision_Mutant(u) == 0
UsernameRevision(u) == change[u].count

HasRecentUsernameChange(u) == change[u].count > 0 /\ change[u].last + Cooldown > clock

(* INSERT ... ON CONFLICT DO NOTHING, then the owner. *)
ClaimUsername(u, n) == claim[n] \in {None, u}

(* UpdateProfile with a new name: the triggers claim the name and record the change. *)
UpdateProfile(u, n) ==
    /\ user' = [user EXCEPT ![u].name = n]
    /\ claim' = [claim EXCEPT ![n] = u]
    /\ change' = [change EXCEPT ![u] = [count |-> @.count + 1, last |-> clock]]

-----------------------------------------------------------------------------
(* The unit of work. *)

Blocked_Mutant(t, row) == FALSE
Blocked(t, row) == \E w \in Tx \ {t} : row \in tx[w].held \cup tx[w].keys

(* UnitOfWork begins the transaction of a request. *)
Begin(t, request) ==
    /\ tx[t].pc = "idle" /\ begun < MaxRequests
    /\ tx' = [tx EXCEPT ![t] = [request EXCEPT !.pc = "body"]]
    /\ begun' = begun + 1
    /\ UNCHANGED <<user, session, claim, change, review, clock>>

(* A statement locks its next row, or waits for the transaction that holds it. *)
(* The last row is locked by the step that reads under it.                     *)
Lock(t) ==
    /\ Len(tx[t].plan) > 1
    /\ ~Blocked(t, Head(tx[t].plan))
    /\ tx' = [tx EXCEPT ![t].held = @ \cup {Head(tx[t].plan)}, ![t].plan = Tail(@)]
    /\ UNCHANGED <<user, session, claim, change, review, clock, begun>>

(* An error, a panic, a crash of the server or the victim of a deadlock. *)
Rollback(t) ==
    /\ tx[t].pc # "idle"
    /\ tx' = [tx EXCEPT ![t] = Idle]
    /\ begun' = begun - 1
    /\ UNCHANGED <<user, session, claim, change, review, clock>>

(* The administrator or reviewer a request acts for. *)
Actor(t) == session[tx[t].sid].of

(* A row that names its actor (banned_by, granted_by, actor_id, reviewer_id) waits for *)
(* whoever has the actor's row FOR UPDATE, and shares it with other such rows.         *)
KeyWaits(t) == tx[t].pc = "record" /\ \E w \in Tx \ {t} : Actor(t) \in tx[w].held

Keys(t) == IF tx[t].pc = "record" THEN tx[t].keys \cup {Actor(t)} ELSE tx[t].keys

Ready(t) == /\ Len(tx[t].plan) < 2 /\ \A row \in Range(tx[t].plan) : ~Blocked(t, row)
            /\ ~KeyWaits(t)

Got(t) == tx[t].held \cup Range(tx[t].plan)

(* BeforeCommitQueue.Run: what deferSessionTouch locks after the statements of the handler. *)
BeforeCommit(t) ==
    IF tx[t].op # "logoutAll" /\ TouchMatches(session, tx[t].sid, tx[t].at)
       /\ tx[t].sid \notin Got(t)
    THEN <<tx[t].sid>> ELSE <<>>

(* The handler's locks are held and it reads. *)
At(t, op, pc) == tx[t].pc = pc /\ tx[t].op = op /\ Ready(t)

InBody(t, op) == At(t, op, "body")

(* Its next statement writes a row that names the actor. *)
Recording(t) ==
    /\ tx' = [tx EXCEPT ![t].pc = "record", ![t].held = Got(t), ![t].plan = <<>>]
    /\ UNCHANGED <<user, session, claim, change, review, clock, begun>>

(* That row is written. *)
Recorded(t, op) == At(t, op, "record")

(* The handler has decided, and no statement of it locks another row.  now: the *)
(* time of the session it issues, if it does.                                  *)
Decided(t, now) ==
    /\ tx' = [tx EXCEPT ![t].pc = "commit", ![t].now = now, ![t].held = Got(t),
                        ![t].keys = Keys(t), ![t].plan = BeforeCommit(t)]
    /\ UNCHANGED <<user, session, claim, change, review, clock, begun>>

(* Its next statement claims a name. *)
Claiming(t, n) ==
    /\ tx' = [tx EXCEPT ![t].pc = "claim", ![t].held = Got(t), ![t].keys = Keys(t),
                        ![t].plan = <<n>>]
    /\ UNCHANGED <<user, session, claim, change, review, clock, begun>>

(* It has decided to revoke these sessions as of one of these times, and locks *)
(* them in any order.                                                          *)
Revoking(t, rows, times) ==
    /\ \E now \in times, order \in SetToSeqs(rows \ Got(t)) :
          tx' = [tx EXCEPT ![t].pc = "write", ![t].now = now, ![t].held = Got(t),
                           ![t].keys = Keys(t), ![t].plan = order]
    /\ UNCHANGED <<user, session, claim, change, review, clock, begun>>

Revoked(t) ==
    /\ tx[t].pc = "write" /\ Ready(t)
    /\ tx' = [tx EXCEPT ![t].pc = "commit", ![t].held = Got(t), ![t].plan = BeforeCommit(t)]
    /\ UNCHANGED <<user, session, claim, change, review, clock, begun>>

(* The commit of an operation whose writes leave the session table as table. *)
Commit(t, op, table) ==
    /\ tx[t].pc = "commit" /\ Ready(t) /\ tx[t].op = op
    /\ session' = Touch(table, tx[t].sid, tx[t].at)
    /\ tx' = [tx EXCEPT ![t] = Idle]
    /\ UNCHANGED <<clock, begun>>

Held(t) == tx[t].held \cap Session

-----------------------------------------------------------------------------
(* The requests.  RequireAuth authenticates one from the snapshot of its     *)
(* first statement; the activity of the session waits for the commit.        *)

deferSessionTouch_Mutant(s, rows) == <<s>> \o rows
deferSessionTouch(s, rows) == rows

RequireAuth(t, s, op, on, to, arg, rows) ==
    /\ Authenticate(SignAt(s, "access"), clock)
    /\ HasCapability(user[session[s].of].roles, RequireCapability(op))
    /\ Begin(t, [Idle EXCEPT !.op = op, !.sid = s, !.on = on, !.to = to, !.arg = arg,
                             !.at = clock, !.plan = deferSessionTouch(s, rows)])

Anonymous(t, op, on, to, arg, rows) ==
    Begin(t, [Idle EXCEPT !.op = op, !.on = on, !.to = to, !.arg = arg, !.plan = rows])

(* The unique indexes on the address and on the name make a registration wait. *)
BeginRegister(t, u, n, pw) ==
    user[u].st = "none" /\ Anonymous(t, "register", u, n, pw, <<u, n>>)

BeginLogin(t, id, pw) ==
    \E u \in findLoginUser(id) : Anonymous(t, "login", u, id, pw, LockByID(u))

BeginReset(t, u, pw) ==
    u \in FindByEmail(u) /\ Anonymous(t, "reset", u, None, pw, LockByID(u))

(* Refresh, and every request whose handler writes no row of this module. *)
BeginUse(t, s) ==
    \/ RequireAuth(t, s, "use", None, None, None, <<>>)
    \/ /\ Refresh(SignAt(s, "refresh"), clock)
       /\ Begin(t, [Idle EXCEPT !.op = "use", !.sid = s, !.at = clock])

(* Logout revokes the session of the request, KickSession another one of the user. *)
BeginKick(t, s, other) ==
    /\ session[other].of = session[s].of /\ session[other].revoked = None
    /\ session[other].expires > clock
    /\ RequireAuth(t, s, "kick", None, other, None, <<other>>)

BeginLogoutAll(t, s) == RequireAuth(t, s, "logoutAll", None, None, None, <<>>)

(* Update with a new name: "update" when the verdict on it is pass, else "submit", *)
(* which records the candidate.                                                   *)
BeginUpdate(t, s, n) ==
    /\ user[session[s].of].name # n
    /\ \/ RequireAuth(t, s, "update", session[s].of, n, None, LockByID(session[s].of) \o <<n>>)
       \/ RequireAuth(t, s, "submit", session[s].of, n, None, LockByID(session[s].of))

BeginDelete(t, s) == RequireAuth(t, s, "delete", session[s].of, None, None, LockByID(session[s].of))

(* A permanent ban, one that ends, or none. *)
normalizeAdminBan(now) == {0, Forever} \cup {until \in Time : until = now + 1}

(* A user that is not there is not found, and nothing is locked. *)
BeginBan(t, s, u, until) ==
    user[u].st = "live" /\ RequireAuth(t, s, "ban", u, None, until, LockUserByID(u))

BeginRole(t, s, u, r, action) ==
    user[u].st = "live" /\ RequireAuth(t, s, "role", u, r, action, LockUserByID(u))

LockManualTarget(r) == <<review[r].of>>

BeginReview(t, s, r, verdict) ==
    RequireAuth(t, s, "review", review[r].of, r, verdict, LockManualTarget(r))

-----------------------------------------------------------------------------
(* The handlers, from the rows they read under their locks to the commit.    *)

issueSession(t) ==
    {[session EXCEPT ![s] = newSession(tx[t].on, tx[t].arg, tx[t].now)] :
        s \in {CHOOSE s \in Session : session[s].of = None}}

CanIssue == \E s \in Session : session[s].of = None

Register(t) ==
    \/ /\ InBody(t, "register")
       /\ user[tx[t].on].st = "none" /\ claim[tx[t].to] = None
       /\ Decided(t, clock)
    \/ /\ CanIssue
       /\ \E table \in issueSession(t) : Commit(t, "register", table)
       /\ user' = [user EXCEPT ![tx[t].on] = [NoUser EXCEPT !.st = "live", !.pw = tx[t].arg,
                                                            !.name = tx[t].to]]
       /\ claim' = [claim EXCEPT ![tx[t].to] = tx[t].on]
       /\ UNCHANGED <<change, review>>

Login(t) ==
    \/ /\ InBody(t, "login")
       /\ user[tx[t].on].st = "live"
       /\ findLoginUser(tx[t].to) = {tx[t].on}
       /\ tx[t].arg = user[tx[t].on].pw
       /\ ~banned(tx[t].on, clock)
       /\ Decided(t, clock)
    \/ /\ CanIssue
       /\ \E table \in issueSession(t) : Commit(t, "login", table)
       /\ UNCHANGED <<user, claim, change, review>>

ResetPassword(t) ==
    \/ /\ InBody(t, "reset")
       /\ user[tx[t].on].st = "live"
       /\ Revoking(t, RevokeAll(tx[t].on), {clock})
    \/ /\ Commit(t, "reset", Revoke(session, Held(t), tx[t].now))
       /\ user' = [user EXCEPT ![tx[t].on].pw = tx[t].arg]
       /\ UNCHANGED <<claim, change, review>>

Use(t) ==
    \/ InBody(t, "use") /\ Decided(t, 0)
    \/ Commit(t, "use", session) /\ UNCHANGED <<user, claim, change, review>>

KickSession(t) ==
    \/ /\ InBody(t, "kick")
       /\ session[tx[t].to].revoked = None /\ session[tx[t].to].expires > tx[t].at
       /\ Revoking(t, {tx[t].to}, tx[t].at .. clock)
    \/ /\ Commit(t, "kick", Revoke(session, {tx[t].to}, tx[t].now))
       /\ UNCHANGED <<user, claim, change, review>>

LogoutAll(t) ==
    \/ InBody(t, "logoutAll") /\ Revoking(t, RevokeAll(session[tx[t].sid].of), tx[t].at .. clock)
    \/ /\ Commit(t, "logoutAll", Revoke(session, Held(t), tx[t].now))
       /\ UNCHANGED <<user, claim, change, review>>

(* reviewUserField: a candidate that did not pass is recorded and the error committed. *)
reviewUserField(t) ==
    \/ /\ InBody(t, "submit")
       /\ user[tx[t].on].st = "live" /\ user[tx[t].on].name # tx[t].to
       /\ ~HasRecentUsernameChange(tx[t].on)
       /\ Len(review) < MaxReviews
       /\ Decided(t, 0)
    \/ /\ Commit(t, "submit", session)
       /\ Len(review) < MaxReviews
       /\ review' = Append(review, [of |-> tx[t].on, cand |-> tx[t].to, open |-> TRUE,
                                    rev |-> UsernameRevision(tx[t].on),
                                    was |-> user[tx[t].on].name])
       /\ UNCHANGED <<user, claim, change>>

Update(t) ==
    \/ /\ InBody(t, "update")
       /\ user[tx[t].on].st = "live" /\ user[tx[t].on].name # tx[t].to
       /\ ~HasRecentUsernameChange(tx[t].on)
       /\ ClaimUsername(tx[t].on, tx[t].to)
       /\ Decided(t, 0)
    \/ /\ Commit(t, "update", session)
       /\ UpdateProfile(tx[t].on, tx[t].to)
       /\ UNCHANGED review

Delete(t) ==
    \/ /\ InBody(t, "delete")
       /\ user[tx[t].on].st = "live"
       /\ Revoking(t, RevokeAll(tx[t].on), {clock})
    \/ /\ Commit(t, "delete", Revoke(session, Held(t), tx[t].now))
       /\ user' = [user EXCEPT ![tx[t].on].st = "gone"]
       /\ UNCHANGED <<claim, change, review>>

(* banned_by and the ban record name the actor before the sessions are revoked. *)
UpdateUserStatus(t) ==
    \/ /\ InBody(t, "ban")
       /\ user[tx[t].on].st = "live"
       /\ Recording(t)
    \/ /\ Recorded(t, "ban")
       /\ IF tx[t].arg = 0 THEN Decided(t, 0) ELSE Revoking(t, RevokeAll(tx[t].on), tx[t].at .. clock)
    \/ /\ Commit(t, "ban", Revoke(session, Held(t), tx[t].now))
       /\ user' = [user EXCEPT ![tx[t].on].until = tx[t].arg]
       /\ UNCHANGED <<claim, change, review>>

(* GrantUserRole and RevokeUserRole report whether the binding was not there or was; *)
(* only then is there a record, and a grant names its actor in the binding too.      *)
Changed(t) == (tx[t].to \in user[tx[t].on].roles) # (tx[t].arg = "grant")

UpdateUserRole(t) ==
    \/ /\ InBody(t, "role")
       /\ user[tx[t].on].st = "live"
       /\ IF Changed(t) THEN Recording(t) ELSE Decided(t, 0)
    \/ Recorded(t, "role") /\ Decided(t, 0)
    \/ /\ Commit(t, "role", session)
       /\ user' = [user EXCEPT ![tx[t].on].roles = IF tx[t].arg = "grant" THEN @ \cup {tx[t].to}
                                                   ELSE @ \ {tx[t].to}]
       /\ UNCHANGED <<claim, change, review>>

(* A pass must meet the conditions of a rename again; a block only closes the record. *)
Renames(r, verdict) == verdict = "pass" /\ review[r].cand # user[review[r].of].name

(* CreateManualRecord, which no record gets twice and which names the reviewer; the *)
(* conditions of a rename; the claim of the name, which waits for whoever claims it. *)
ManualReview(t) ==
    \/ /\ InBody(t, "review")
       /\ review[tx[t].to].open
       /\ Recording(t)
    \/ /\ Recorded(t, "review")
       /\ tx[t].arg = "pass" => /\ user[tx[t].on].st = "live"
                                /\ UsernameRevision(tx[t].on) = review[tx[t].to].rev
       /\ IF Renames(tx[t].to, tx[t].arg)
          THEN ~HasRecentUsernameChange(tx[t].on) /\ Claiming(t, review[tx[t].to].cand)
          ELSE Decided(t, 0)
    \/ /\ At(t, "review", "claim")
       /\ ClaimUsername(tx[t].on, review[tx[t].to].cand)
       /\ Decided(t, 0)
    \/ /\ Commit(t, "review", session)
       /\ review' = [review EXCEPT ![tx[t].to].open = FALSE]
       /\ IF Renames(tx[t].to, tx[t].arg) THEN UpdateProfile(tx[t].on, review[tx[t].to].cand)
          ELSE UNCHANGED <<user, claim, change>>

Tick == /\ clock < MaxTime
        /\ clock' = clock + 1
        /\ UNCHANGED <<user, session, claim, change, review, tx, begun>>

-----------------------------------------------------------------------------
(* The operator's account, and a session of it whose activity is due to be *)
(* recorded.                                                               *)
Init ==
    LET s == CHOOSE s \in Session : TRUE IN
        /\ user = [u \in User |-> IF u = Admin
                      THEN [NoUser EXCEPT !.st = "live", !.pw = AdminPassword,
                                         !.name = AdminName, !.roles = Role]
                      ELSE NoUser]
        /\ session = [x \in Session |-> IF x = s
                         THEN [of |-> Admin, seen |-> 0, expires |-> SessionTTL,
                               revoked |-> None, proof |-> AdminPassword]
                         ELSE NoSession]
        /\ claim = [m \in Name |-> IF m = AdminName THEN Admin ELSE None]
        /\ change = [u \in User |-> [count |-> 0, last |-> 0]]
        /\ review = <<>>
        /\ tx = [t \in Tx |-> Idle]
        /\ clock = TouchEvery /\ begun = 0

Request(t) ==
    \/ \E u \in User, n \in Name, pw \in Password : BeginRegister(t, u, n, pw)
    \/ \E id \in User \cup Name, pw \in Password : BeginLogin(t, id, pw)
    \/ \E u \in User, pw \in Password : BeginReset(t, u, pw)
    \/ \E s \in Session : session[s].of # None /\
          \/ BeginUse(t, s) \/ BeginLogoutAll(t, s) \/ BeginDelete(t, s)
          \/ \E other \in Session : BeginKick(t, s, other)
          \/ \E n \in Name : BeginUpdate(t, s, n)
          \/ \E u \in User, until \in normalizeAdminBan(clock) : BeginBan(t, s, u, until)
          \/ \E u \in User, r \in Role, action \in {"grant", "revoke"} :
                 BeginRole(t, s, u, r, action)
          \/ \E r \in DOMAIN review, v \in {"pass", "block"} : BeginReview(t, s, r, v)

Handle(t) ==
    \/ Register(t) \/ Login(t) \/ ResetPassword(t) \/ Use(t) \/ KickSession(t) \/ LogoutAll(t)
    \/ reviewUserField(t) \/ Update(t) \/ Delete(t) \/ UpdateUserStatus(t)
    \/ UpdateUserRole(t) \/ ManualReview(t)

Next == \/ \E t \in Tx : Request(t) \/ Lock(t) \/ Handle(t) \/ Revoked(t) \/ Rollback(t)
        \/ Tick

Spec == Init /\ [][Next]_vars

-----------------------------------------------------------------------------
TypeOK ==
    /\ user \in [User -> UserRow]
    /\ session \in [Session -> SessionRow]
    /\ claim \in [Name -> User \cup {None}]
    /\ \A u \in User : change[u].count \in Nat /\ change[u].last \in Time
    /\ \A r \in DOMAIN review : review[r] \in ReviewRow
    /\ Len(review) <= MaxReviews
    /\ \A t \in Tx : /\ tx[t].op \in Operation \cup {"idle"}
                     /\ tx[t].held \subseteq Row /\ Range(tx[t].plan) \subseteq Row
                     /\ tx[t].keys \subseteq User
                     /\ \A w \in Tx \ {t} : tx[t].held \cap (tx[w].held \cup tx[w].keys) = {}
    /\ clock \in Time /\ begun \in 0 .. MaxRequests

(* ResetPassword revokes every session let in by the old password, and a Login *)
(* that is checking the old one at the same time (LockByID before the check)   *)
(* leaves none behind.                                                         *)
SessionProvesPassword ==
    \A s \in Session : session[s].of # None /\ session[s].revoked = None =>
        session[s].proof = user[session[s].of].pw

(* While an account is banned or deleted none of its sessions is open, whatever *)
(* logins were under way when UpdateUserStatus or Delete committed.             *)
BannedHasNoSession ==
    \A s \in Session : session[s].of # None /\ session[s].revoked = None =>
        user[session[s].of].st = "live" /\ ~banned(session[s].of, clock)

(* A name once claimed belongs to its first owner for good: nobody else can be  *)
(* found under it, after a rename, a review, a deletion or two at the same time; *)
(* and a reviewer's pass renames only the account that still has the name it had *)
(* when the candidate was submitted (ClaimUsername, applyManualUsernameVerdict).  *)
NamesStand ==
    [][/\ \A n \in Name : claim[n] # None =>
             claim'[n] = claim[n] /\ FindByUsername(n)' \subseteq {claim[n]}
       /\ \A r \in DOMAIN review : LET u == review[r].of IN
             review'[r] # review[r] /\ user'[u].name # user[u].name =>
                 user[u].name = review[r].was /\ user'[u].name = review[r].cand]_vars

WaitsFor(t, w) ==
    \/ tx[t].plan # <<>> /\ Head(tx[t].plan) \in tx[w].held \cup tx[w].keys
    \/ tx[t].pc = "record" /\ Actor(t) \in tx[w].held

(* Touching the session last (deferSessionTouch) keeps the lock order user,     *)
(* name, session: requests wait in a circle only when one of them revokes       *)
(* sessions of others or several at once (KickSession, LogoutAll, a ban), or is *)
(* a role change or a review that has its target and waits for the row of its   *)
(* own actor (granted_by, actor_id, reviewer_id).                               *)
CirclesNeedActorOrRevocation ==
    \A S \in (SUBSET Tx) \ {{}} :
        (\A t \in S : \E w \in S \ {t} : WaitsFor(t, w)) =>
            \E t \in S :
                \/ tx[t].op \in {"kick", "logoutAll", "ban"}
                \/ tx[t].op \in {"role", "review"} /\ tx[t].pc = "record"

=============================================================================
