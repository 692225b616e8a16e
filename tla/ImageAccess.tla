----------------------------- MODULE ImageAccess -----------------------------
(***************************************************************************)
(* Delivery of image moderation verdicts to the object store and the CDN.  *)
(* A verdict commits an intent and projects it on the image's single row   *)
(* of image_access_deliveries.  Batch workers claim due rows under a lease,*)
(* set the COS ACL, and where purge_required holds create an EdgeOne purge *)
(* job and follow it until the cache is known to be clean or the delivery  *)
(* is dead-lettered.  Every write of a worker is fenced by generation and  *)
(* lease token; no network call holds a database transaction.              *)
(*                                                                         *)
(* Instants are count-down timers moved by Tick (one tick is one second of *)
(* the code, scaled down): nextIn stands for next_attempt_at, leaseIn for  *)
(* lease_until, age for the time since submission_started_at.              *)
(***************************************************************************)
EXTENDS Naturals, FiniteSets

CONSTANTS
    Image,            \* image assets
    Worker,           \* goroutines that process one claim; also their lease tokens
    Job,              \* EdgeOne purge jobs that can ever be created (bound)
    None,             \* SQL NULL
    Orphan,           \* the token of a worker that died holding the lease
    Lease,            \* LeaseDuration
    ACLWindow,        \* latest return of the ACL call, counted from the claim
    UnknownGrace, PendingTimeout,
    MaxACLAttempts, MaxSubmissions, MaxPollFailures, MaxUnknownChecks,
    FixedDelay,       \* the fixed 5 s and 2 s delays after a submission
    BackoffBase, BackoffCap,
    LateACL,          \* may COS apply a request whose caller has given up?
    Issued,           \* bound: the verdicts that occur (the code tells only pass apart)
    MaxGen,           \* bound: moderation facts per image
    MaxCrashes        \* bound: crashes and failed database writes of workers

(***************************************************************************)
(* The ACL call ends before the lease does: 15 s of ACLTimeout against a   *)
(* lease of 60 s, claims of a batch running in parallel.                   *)
(***************************************************************************)
ASSUME LeaseAssumption ==
    /\ Lease \in Nat /\ ACLWindow \in Nat /\ ACLWindow < Lease
ASSUME BudgetAssumption ==
    /\ {UnknownGrace, PendingTimeout, FixedDelay, BackoffBase, BackoffCap} \subseteq Nat
    /\ {MaxACLAttempts, MaxSubmissions, MaxPollFailures, MaxUnknownChecks} \subseteq Nat
    /\ MaxGen \in Nat /\ MaxCrashes \in Nat /\ LateACL \in BOOLEAN
    /\ Issued \subseteq {"pass", "review", "block"}
ASSUME NullAssumption ==
    /\ None \notin Worker \cup Job \cup Image
    /\ Orphan \notin Worker \cup {None}

VARIABLES
    mod,      \* image_assets.moderation
    row,      \* image_access_deliveries, one row per image
    wk,       \* what each worker goroutine is doing
    acl,      \* COS: is the object public-read?
    late,     \* COS: abandoned ACL requests still under way, by the value they set
    cache,    \* CDN: what the edge answers for the canonical URL
    jobs,     \* EdgeOne: purge jobs
    crashes   \* crashes so far

vars == <<mod, row, wk, acl, late, cache, jobs, crashes>>

Verdict == {"pass", "review", "block"}
Terminal == {"succeeded", "dead_letter"}
PastACL == {"pending_submit", "submitting", "submitted", "succeeded"}
State == {"none", "pending_acl", "dead_letter"} \cup PastACL
ErrorCode ==
    {"none", "acl_retryable", "acl_exhausted", "submit_retryable", "submit_unknown",
     "submit_permanent", "submit_exhausted", "discover_retryable", "discover_permanent",
     "discover_exhausted", "poll_retryable", "poll_permanent", "poll_exhausted",
     "provider_failed", "provider_pending_timeout"}

(***************************************************************************)
(* create and seen are history, not columns: how the last Create request   *)
(* of this generation ended, and what the last reconciliation found.       *)
(***************************************************************************)
Delivery ==
    [gen : Nat, desired : BOOLEAN, purge : BOOLEAN, state : State,
     acls : Nat, submits : Nat, polls : Nat, unknown : Nat,
     job : Job \cup {None}, age : Nat, nextIn : Nat,
     token : Worker \cup {None, Orphan}, leaseIn : Nat, err : ErrorCode,
     create : {"none", "open", "rejected", "failed", "timeout"},
     seen : {"none", "empty", "other"}]

Claimed ==
    [pc : {"idle", "acl", "submit", "create", "recover", "poll", "release"},
     img : Image \cup {None}, gen : Nat, desired : BOOLEAN,
     left : Nat, applied : BOOLEAN, job : Job \cup {None}]

PurgeJob ==
    [img : Image \cup {None},
     status : {"unused", "processing", "partial", "success", "failed"},
     young : BOOLEAN, fresh : BOOLEAN]

TypeOK ==
    /\ mod \in [Image -> Verdict \cup {"pending"}]
    /\ row \in [Image -> Delivery]
    /\ wk \in [Worker -> Claimed]
    /\ \A w \in Worker : wk[w].pc # "idle" => wk[w].img \in Image
    /\ acl \in [Image -> BOOLEAN]
    /\ late \in [Image -> SUBSET BOOLEAN]
    /\ cache \in [Image -> {"none", "public", "denied"}]
    /\ jobs \in [Job -> PurgeJob]
    /\ crashes \in Nat

NoDelivery ==
    [gen |-> 0, desired |-> FALSE, purge |-> FALSE, state |-> "none",
     acls |-> 0, submits |-> 0, polls |-> 0, unknown |-> 0, job |-> None, age |-> 0,
     nextIn |-> 0, token |-> None, leaseIn |-> 0, err |-> "none",
     create |-> "none", seen |-> "none"]

Idle ==
    [pc |-> "idle", img |-> None, gen |-> 0, desired |-> FALSE, left |-> 0,
     applied |-> FALSE, job |-> None]

Init ==
    /\ mod = [i \in Image |-> "pending"]
    /\ row = [i \in Image |-> NoDelivery]
    /\ wk = [w \in Worker |-> Idle]
    /\ acl = [i \in Image |-> FALSE]
    /\ late = [i \in Image |-> {}]
    /\ cache = [i \in Image |-> "none"]
    /\ jobs = [j \in Job |-> [img |-> None, status |-> "unused", young |-> FALSE, fresh |-> FALSE]]
    /\ crashes = 0

-----------------------------------------------------------------------------
(* A moderation fact commits and re-projects the delivery row. *)

(* fault: turning private does not purge *)
imageAccessPurgeRequired_Mutant(public, previous) == previous \in {"block", "review"}

imageAccessPurgeRequired(public, previous) ==
    ~public \/ previous \in {"block", "review"}

(* fault: the upsert also clears the lease *)
Enqueue_Mutant(r, public, purge) ==
    [r EXCEPT !.gen = @ + 1, !.desired = public, !.purge = purge, !.state = "pending_acl",
              !.acls = 0, !.submits = 0, !.polls = 0, !.unknown = 0, !.job = None, !.age = 0,
              !.nextIn = 0, !.err = "none", !.create = "none", !.seen = "none",
              !.token = None, !.leaseIn = 0]

(* The upsert leaves the lease columns alone: a worker that still runs keeps *)
(* its lease, and nobody else starts before it returns.                      *)
Enqueue(r, public, purge) ==
    [r EXCEPT !.gen = @ + 1, !.desired = public, !.purge = purge, !.state = "pending_acl",
              !.acls = 0, !.submits = 0, !.polls = 0, !.unknown = 0, !.job = None, !.age = 0,
              !.nextIn = 0, !.err = "none", !.create = "none", !.seen = "none"]

Moderate(i, v) ==
    /\ row[i].gen < MaxGen
    /\ mod' = [mod EXCEPT ![i] = v]
    /\ row' = [row EXCEPT ![i] =
                  Enqueue(row[i], v = "pass", imageAccessPurgeRequired(v = "pass", mod[i]))]
    /\ UNCHANGED <<wk, acl, late, cache, jobs, crashes>>

-----------------------------------------------------------------------------
(* Claims and fenced writes. *)

Due(i) ==
    /\ row[i].state \notin Terminal \cup {"none"}
    /\ row[i].nextIn = 0
    /\ row[i].leaseIn = 0

(* fault: an interrupted submission is submitted again *)
StepFor_Mutant(state) ==
    CASE state = "pending_acl" -> "acl"
      [] state \in {"pending_submit", "submitting"} -> "submit"
      [] state = "submitted" -> "poll"

StepFor(state) ==
    CASE state = "pending_acl" -> "acl"
      [] state = "pending_submit" -> "submit"
      [] state = "submitting" -> "recover"
      [] state = "submitted" -> "poll"

NewClaim(i) ==
    [Idle EXCEPT !.pc = StepFor(row[i].state), !.img = i, !.gen = row[i].gen,
                 !.desired = row[i].desired, !.left = ACLWindow]

ClaimDue(w, i) ==
    /\ wk[w].pc = "idle"
    /\ Due(i)
    /\ row' = [row EXCEPT ![i].token = w, ![i].leaseIn = Lease]
    /\ wk' = [wk EXCEPT ![w] = NewClaim(i)]
    /\ UNCHANGED <<mod, acl, late, cache, jobs, crashes>>

(* fault: the token alone fences *)
Fenced_Mutant(w) == row[wk[w].img].token = w

(* WHERE generation = claim.Generation AND lease_token = claim.LeaseToken.  *)
(* When it holds nothing but w has written the row since the claim, so the  *)
(* claim's copy of the other columns equals the row.                        *)
Fenced(w) ==
    /\ row[wk[w].img].gen = wk[w].gen
    /\ row[wk[w].img].token = w

(* One short transaction: write r and go on as k, or find the claim superseded. *)
UpdateClaim(w, r, k) ==
    \/ /\ Fenced(w)
       /\ row' = [row EXCEPT ![wk[w].img] = r]
       /\ wk' = [wk EXCEPT ![w] = k]
    \/ /\ ~Fenced(w)
       /\ row' = row
       /\ wk' = [wk EXCEPT ![w].pc = "release"]

Unleased(r) == [r EXCEPT !.token = None, !.leaseIn = 0]

schedule(r, state, delay, code) ==
    [Unleased(r) EXCEPT !.state = state, !.nextIn = delay, !.err = code]

succeed(r) == [Unleased(r) EXCEPT !.state = "succeeded", !.nextIn = 0, !.err = "none"]

(* fault: last_error_code outside the migration's whitelist *)
dead_Mutant(r, code) == [Unleased(r) EXCEPT !.state = "dead_letter", !.nextIn = 0, !.err = "dead"]

dead(r, code) == [Unleased(r) EXCEPT !.state = "dead_letter", !.nextIn = 0, !.err = code]

(* Doubling from BackoffBase, capped.  The code's four base and cap pairs   *)
(* differ only in their numbers.                                            *)
Doubling[n \in Nat] == IF n = 0 THEN 1 ELSE 2 * Doubling[n - 1]

retryBackoff(attempt) ==
    LET delay == BackoffBase * Doubling[IF attempt < 1 THEN 0 ELSE attempt - 1]
    IN  IF delay \in 0 .. BackoffCap THEN delay ELSE BackoffCap

retrySubmission(r, code, how) ==
    IF r.submits >= MaxSubmissions
    THEN dead(r, "submit_exhausted")
    ELSE [schedule(r, "pending_submit", retryBackoff(r.submits), code)
            EXCEPT !.job = None, !.age = 0, !.polls = 0, !.unknown = 0,
                   !.create = how]

(* After an update that hit no row: give back a lease that is still ours. *)
ReleaseSuperseded(w) ==
    LET i == wk[w].img IN
    /\ wk[w].pc = "release"
    /\ row' = IF row[i].token = w
              THEN [row EXCEPT ![i] = [Unleased(@) EXCEPT !.nextIn = 0]]
              ELSE row
    /\ wk' = [wk EXCEPT ![w] = Idle]
    /\ UNCHANGED <<mod, acl, late, cache, jobs, crashes>>

-----------------------------------------------------------------------------
(* applyACL: the request takes effect at some moment before the call returns. *)

SetObjectPublicAccess(w) ==
    /\ wk[w].pc = "acl"
    /\ ~wk[w].applied
    /\ acl' = [acl EXCEPT ![wk[w].img] = wk[w].desired]
    /\ wk' = [wk EXCEPT ![w].applied = TRUE]
    /\ UNCHANGED <<mod, row, late, cache, jobs, crashes>>

applyACL_ok(w) ==
    LET r == row[wk[w].img] IN
    /\ wk[w].pc = "acl"
    /\ wk[w].applied
    /\ IF r.purge
       THEN UpdateClaim(w, [r EXCEPT !.state = "pending_submit", !.nextIn = 0, !.err = "none"],
                        [wk[w] EXCEPT !.pc = "submit"])
       ELSE UpdateClaim(w, succeed(r), Idle)
    /\ UNCHANGED <<mod, acl, late, cache, jobs, crashes>>

ACLFailed(r) ==
    IF r.acls + 1 >= MaxACLAttempts
    THEN dead(r, "acl_exhausted")
    ELSE [schedule(r, "pending_acl", retryBackoff(r.acls + 1), "acl_retryable")
            EXCEPT !.acls = r.acls + 1]

(* An error or the 15 s timeout.  A request that was given up may have been  *)
(* applied, and under LateACL may still be.                                  *)
applyACL_error(w) ==
    LET i == wk[w].img IN
    /\ wk[w].pc = "acl"
    /\ UpdateClaim(w, ACLFailed(row[i]), Idle)
    /\ late' = IF LateACL /\ ~wk[w].applied
               THEN [late EXCEPT ![i] = @ \cup {wk[w].desired}]
               ELSE late
    /\ UNCHANGED <<mod, acl, cache, jobs, crashes>>

LateEffect(i, b) ==
    /\ b \in late[i]
    /\ acl' = [acl EXCEPT ![i] = b]
    /\ late' = [late EXCEPT ![i] = @ \ {b}]
    /\ UNCHANGED <<mod, row, wk, cache, jobs, crashes>>

-----------------------------------------------------------------------------
(* submit: persist "submitting", then send exactly one CreatePurgeTask. *)

Started(r) ==
    [r EXCEPT !.state = "submitting", !.submits = @ + 1, !.age = 0, !.nextIn = FixedDelay,
              !.err = "none", !.create = "open", !.seen = "none"]

(* The reconciliation window starts at submission_started_at, cut to whole   *)
(* seconds: a job made earlier in the same second (young) stays inside it.   *)
OpenWindow(i) ==
    [j \in Job |-> IF jobs[j].img = i THEN [jobs[j] EXCEPT !.fresh = @ /\ jobs[j].young] ELSE jobs[j]]

submit(w) ==
    LET i == wk[w].img IN
    /\ wk[w].pc = "submit"
    /\ IF row[i].submits >= MaxSubmissions
       THEN /\ UpdateClaim(w, dead(row[i], "submit_exhausted"), Idle)
            /\ jobs' = jobs
       ELSE /\ UpdateClaim(w, Started(row[i]), [wk[w] EXCEPT !.pc = "create"])
            /\ jobs' = IF Fenced(w) THEN OpenWindow(i) ELSE jobs
    /\ UNCHANGED <<mod, acl, late, cache, crashes>>

(* EdgeOne accepts the request: wholly, or with a FailedList (partial). *)
CreatePurgeTask(w, j, status) ==
    /\ wk[w].pc = "create"
    /\ wk[w].job = None
    /\ jobs[j].status = "unused"
    /\ jobs' = [jobs EXCEPT ![j] = [img |-> wk[w].img, status |-> status,
                                    young |-> TRUE, fresh |-> TRUE]]
    /\ wk' = [wk EXCEPT ![w].job = j]
    /\ UNCHANGED <<mod, row, acl, late, cache, crashes>>

Accepted(r, j) ==
    [schedule(r, "submitted", FixedDelay,
              IF jobs[j].status = "partial" THEN "provider_failed" ELSE "none")
       EXCEPT !.job = j]

Submit_ok(w) ==
    /\ wk[w].pc = "create"
    /\ wk[w].job # None
    /\ UpdateClaim(w, Accepted(row[wk[w].img], wk[w].job), Idle)
    /\ UNCHANGED <<mod, acl, late, cache, jobs, crashes>>

(* classifiedCreateError: a permanent refusal, a structured refusal that may *)
(* be retried, or no usable answer at all.  The last two keep "submitting".  *)
Refused(r, kind) ==
    CASE kind = "permanent" -> dead(r, "submit_permanent")
      [] kind = "unknown" -> schedule(r, "submitting", FixedDelay, "submit_unknown")
      [] kind = "retryable" ->
            [schedule(r, "submitting", FixedDelay, "submit_retryable") EXCEPT !.create = "rejected"]

Submit_error(w, kind) ==
    /\ wk[w].pc = "create"
    /\ UpdateClaim(w, Refused(row[wk[w].img], kind), Idle)
    /\ UNCHANGED <<mod, acl, late, cache, jobs, crashes>>

-----------------------------------------------------------------------------
(* recoverSubmission: a read-only reconciliation of an unknown Create. *)

(* fault: unknown_checks is not persisted *)
scheduleUnknown_Mutant(r, code) ==
    IF r.unknown + 1 >= MaxUnknownChecks
    THEN dead(r, "discover_exhausted")
    ELSE schedule(r, "submitting", retryBackoff(r.unknown + 1), code)

scheduleUnknown(r, code) ==
    IF r.unknown + 1 >= MaxUnknownChecks
    THEN dead(r, "discover_exhausted")
    ELSE [schedule(r, "submitting", retryBackoff(r.unknown + 1), code)
            EXCEPT !.unknown = @ + 1]

Candidates(i) == {j \in Job : jobs[j].img = i /\ jobs[j].fresh}

(* Recover: what the listing and the Describe calls behind it conclude from  *)
(* the candidates they see; uncertain is a listing that is too long or holds *)
(* a malformed task.                                                         *)
Recover(seen, uncertain) ==
    [effect |-> ~uncertain /\ \E j \in seen : jobs[j].status = "success",
     found |-> ~uncertain /\ Cardinality(seen) = 1,
     ambiguous |-> uncertain \/ Cardinality(seen) > 1]

Recovered(r, seen, uncertain) ==
    LET recovery == Recover(seen, uncertain)
        job == CHOOSE j \in seen : TRUE
        saw == [r EXCEPT !.seen = IF seen = {} /\ ~uncertain THEN "empty" ELSE "other"]
    IN  CASE recovery.effect -> succeed(saw)
          [] ~recovery.effect /\ recovery.found /\ jobs[job].status = "failed" ->
                retrySubmission(saw, "provider_failed", "failed")
          [] ~recovery.effect /\ recovery.found /\ jobs[job].status # "failed" ->
                [schedule(saw, "submitted", FixedDelay, "none") EXCEPT !.job = job]
          [] ~recovery.effect /\ ~recovery.found /\ r.age < UnknownGrace ->
                scheduleUnknown(saw, IF recovery.ambiguous
                                     THEN "discover_retryable" ELSE "submit_unknown")
          [] ~recovery.effect /\ ~recovery.found /\ r.age >= UnknownGrace ->
                IF /\ r.err = "submit_retryable"
                   /\ r.submits < MaxSubmissions
                   /\ ~recovery.ambiguous
                THEN retrySubmission(saw, "submit_retryable", r.create)
                ELSE dead(saw, "discover_exhausted")

recoverSubmission(w, seen, uncertain) ==
    LET r == row[wk[w].img] IN
    /\ wk[w].pc = "recover"
    /\ seen \subseteq Candidates(wk[w].img)
    /\ UpdateClaim(w, Recovered(r, seen, uncertain), Idle)
    /\ UNCHANGED <<mod, acl, late, cache, jobs, crashes>>

recoverSubmission_error(w, permanent) ==
    LET r == row[wk[w].img] IN
    /\ wk[w].pc = "recover"
    /\ UpdateClaim(w, IF permanent THEN dead(r, "discover_permanent")
                      ELSE scheduleUnknown(r, "discover_retryable"), Idle)
    /\ UNCHANGED <<mod, acl, late, cache, jobs, crashes>>

-----------------------------------------------------------------------------
(* poll: follow a known job. *)

(* aggregatePurgeTasks: a listing that lags, or that misses a target, reads  *)
(* as processing.                                                            *)
Describe(j) ==
    {"processing"} \cup ({jobs[j].status} \cap {"success", "failed"})

Polled(r, state) ==
    CASE state = "success" -> succeed(r)
      [] state = "failed" -> retrySubmission(r, "provider_failed", "failed")
      [] state = "processing" /\ r.age >= PendingTimeout ->
            retrySubmission(r, "provider_pending_timeout", "timeout")
      [] state = "processing" /\ r.age < PendingTimeout ->
            [schedule(r, "submitted", retryBackoff(r.polls + 1), "none") EXCEPT !.polls = @ + 1]

poll(w, state) ==
    LET r == row[wk[w].img] IN
    /\ wk[w].pc = "poll"
    /\ IF r.job = None
       THEN UpdateClaim(w, dead(r, "poll_permanent"), Idle)
       ELSE /\ state \in Describe(r.job)
            /\ UpdateClaim(w, Polled(r, state), Idle)
    /\ UNCHANGED <<mod, acl, late, cache, jobs, crashes>>

PollFailed(r) ==
    IF r.polls + 1 >= MaxPollFailures
    THEN dead(r, "poll_exhausted")
    ELSE [schedule(r, "submitted", retryBackoff(r.polls + 1), "poll_retryable")
            EXCEPT !.polls = @ + 1]

poll_error(w, permanent) ==
    LET r == row[wk[w].img] IN
    /\ wk[w].pc = "poll"
    /\ UpdateClaim(w, IF permanent THEN dead(r, "poll_permanent") ELSE PollFailed(r), Idle)
    /\ UNCHANGED <<mod, acl, late, cache, jobs, crashes>>

-----------------------------------------------------------------------------
(* Crashes, the CDN, and time. *)

(* The process dies, or a write of the worker fails: the row keeps a lease   *)
(* that nobody will give back.                                               *)
Crash(w) ==
    LET i == wk[w].img IN
    /\ wk[w].pc # "idle"
    /\ crashes < MaxCrashes
    /\ crashes' = crashes + 1
    /\ row' = IF row[i].token = w THEN [row EXCEPT ![i].token = Orphan] ELSE row
    /\ wk' = [wk EXCEPT ![w] = Idle]
    /\ UNCHANGED <<mod, acl, late, cache, jobs>>

(* A reader's request goes through to the origin and its answer is cached;   *)
(* the URL is handed out once the image has a verdict.                       *)
CacheFill(i) ==
    /\ mod[i] # "pending"
    /\ cache[i] = "none"
    /\ cache' = [cache EXCEPT ![i] = IF acl[i] THEN "public" ELSE "denied"]
    /\ UNCHANGED <<mod, row, wk, acl, late, jobs, crashes>>

(* EdgeOne works a job off, not in the second that created it. *)
PurgeEnds(j, status) ==
    /\ \/ jobs[j].status = "processing"
       \/ jobs[j].status = "partial" /\ status = "failed"
    /\ ~jobs[j].young
    /\ jobs' = [jobs EXCEPT ![j].status = status]
    /\ cache' = IF status = "success" THEN [cache EXCEPT ![jobs[j].img] = "none"] ELSE cache
    /\ UNCHANGED <<mod, row, wk, acl, late, crashes>>

Down(n) == IF n > 0 THEN n - 1 ELSE 0

MaxAge == IF UnknownGrace > PendingTimeout THEN UnknownGrace ELSE PendingTimeout

(* One second.  No ACL call outlives its window. *)
Tick ==
    /\ \A w \in Worker : wk[w].pc = "acl" => wk[w].left > 0
    /\ row' = [i \in Image |->
                  [row[i] EXCEPT !.nextIn = Down(@), !.leaseIn = Down(@),
                                 !.age = IF row[i].state \in {"submitting", "submitted"} /\ @ < MaxAge
                                         THEN @ + 1 ELSE @]]
    /\ wk' = [w \in Worker |->
                  [wk[w] EXCEPT !.left = IF wk[w].pc = "acl" THEN Down(@) ELSE 0]]
    /\ jobs' = [j \in Job |-> [jobs[j] EXCEPT !.young = FALSE]]
    /\ UNCHANGED <<mod, acl, late, cache, crashes>>

-----------------------------------------------------------------------------
Return(w) ==
    \/ applyACL_ok(w)
    \/ applyACL_error(w)
    \/ submit(w)
    \/ Submit_ok(w)
    \/ \E kind \in {"permanent", "retryable", "unknown"} : Submit_error(w, kind)
    \/ \E seen \in SUBSET Job, uncertain \in BOOLEAN : recoverSubmission(w, seen, uncertain)
    \/ \E permanent \in BOOLEAN : recoverSubmission_error(w, permanent)
    \/ \E state \in {"processing", "success", "failed"} : poll(w, state)
    \/ \E permanent \in BOOLEAN : poll_error(w, permanent)
    \/ ReleaseSuperseded(w)

Next ==
    \/ \E i \in Image, v \in Issued : Moderate(i, v)
    \/ \E w \in Worker, i \in Image : ClaimDue(w, i)
    \/ \E w \in Worker : Return(w)
    \/ \E w \in Worker : SetObjectPublicAccess(w)
    \/ \E w \in Worker, j \in Job, s \in {"processing", "partial"} : CreatePurgeTask(w, j, s)
    \/ \E w \in Worker : Crash(w)
    \/ \E i \in Image, b \in BOOLEAN : LateEffect(i, b)
    \/ \E i \in Image : CacheFill(i)
    \/ \E j \in Job, s \in {"success", "failed"} : PurgeEnds(j, s)
    \/ Tick

Spec == Init /\ [][Next]_vars

(***************************************************************************)
(* The jobs command runs again and again (a due row is eventually claimed  *)
(* by some worker), every external call returns within its timeout, and    *)
(* time passes.  Nothing is assumed of what the calls return, of EdgeOne   *)
(* finishing a job, or of verdicts and crashes other than their bounds.    *)
(***************************************************************************)
FairSpec ==
    /\ Spec
    /\ \A i \in Image : WF_vars(\E w \in Worker : ClaimDue(w, i))
    /\ \A w \in Worker : WF_vars(Return(w))
    /\ WF_vars(Tick)

-----------------------------------------------------------------------------
(* Once a delivery of the current generation is past its ACL stage, the      *)
(* object's ACL is the one the latest moderation fact asks for, whatever     *)
(* workers of older generations still have in hand                           *)
(* (applyACL, UpdateClaim, ReleaseSuperseded, Enqueue's untouched lease).    *)
ACLConverged ==
    \A i \in Image : row[i].state \in PastACL => acl[i] = row[i].desired

(* A delivery that succeeded for a review or block verdict leaves no public  *)
(* copy behind: the object is private and the edge does not answer with a    *)
(* cached public response (submit, recoverSubmission, poll).                 *)
BlockedNotServed ==
    \A i \in Image : row[i].state = "succeeded" /\ mod[i] # "pass" =>
        ~acl[i] /\ cache[i] # "public"

(* CreatePurgeTask has no idempotency token: within one generation a second  *)
(* request is made only after the previous one was refused in a structured   *)
(* answer or its job was seen to fail or to time out, never on an unknown    *)
(* outcome, a crash included (recoverSubmission never replays).              *)
NoBlindReplay ==
    [][\A i \in Image :
          (row'[i].gen = row[i].gen /\ row'[i].submits > row[i].submits /\ row[i].submits > 0)
              => row[i].create \in {"rejected", "failed", "timeout"}]_vars

(* A worker's write never touches a generation it did not claim: whenever a  *)
(* row changes its state without a new moderation fact, the worker holding   *)
(* the row's lease claimed this very generation (UpdateClaim's WHERE).       *)
OnlyClaimantMoves ==
    [][\A i \in Image :
          (row'[i].gen = row[i].gen /\ row'[i].state # row[i].state)
              => \E w \in Worker : row[i].token = w /\ wk[w].img = i /\ wk[w].gen = row[i].gen]_vars

(* A verdict of an image is a task of its own: a later one withdraws it.     *)
InHand(w, i, g) == wk[w].pc # "idle" /\ wk[w].img = i /\ wk[w].gen = g

Holds(w, i, g) == row[i].token = w /\ row[i].gen = g /\ InHand(w, i, g)

Phase(i, g) == IF row[i].gen = g THEN row[i].state ELSE "none"

Owner(i, g) == IF \E w \in Worker : Holds(w, i, g) THEN row[i].token ELSE None

Hands(i, g) == {w \in Worker : InHand(w, i, g)}

Generation == Image \X (1 .. MaxGen)

Queue == INSTANCE TaskQueue WITH
    Task <- Generation,
    Open <- {"pending_acl", "pending_submit", "submitting", "submitted"},
    Closed <- Terminal,
    state <- [t \in Generation |-> Phase(t[1], t[2])],
    owner <- [t \in Generation |-> Owner(t[1], t[2])],
    busy <- [t \in Generation |-> Hands(t[1], t[2])],
    decided <- {t \in Generation : t[2] < row[t[1]].gen}

(* Enqueue, ClaimDue, UpdateClaim, ReleaseSuperseded: the generations of the *)
(* deliveries are tasks of the abstract queue: none is moved to another      *)
(* stage, given back or finished but by the worker that claimed this very    *)
(* generation and claimed it last, none is taken up again once it was        *)
(* finished or superseded, whatever workers of superseded generations still  *)
(* have in hand.                                                             *)
DeliveryIsQueue == Queue!Spec

(* Every delivery reaches succeeded or dead_letter: no budget, lease or      *)
(* backoff leaves it undecided for ever (RunBatch and its callers).          *)
Settles ==
    \A i \in Image : (row[i].gen > 0) ~> (row[i].state \in Terminal)
=============================================================================
