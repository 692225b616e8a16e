---------------------------- MODULE ImageUpload ----------------------------
(***************************************************************************)
(* The life of an uploaded image before and beside its review: presigned   *)
(* upload, completion (which submits the image to the provider while the   *)
(* row is locked), the queue of submissions to be tried again, the         *)
(* references of posts and avatars, and the sweep that deletes what nobody *)
(* refers to.  Servers run requests and both workers; they may die.        *)
(***************************************************************************)
EXTENDS Integers, FiniteSets

CONSTANTS
    Image,          \* ids of image_assets
    MaxJobs,        \* bound: jobs the provider creates for an image
    Server,         \* processes of danshi-server, each with a retry worker
    MaxImageBytes,  \* the limit on the size of an image
    MaxAttempts,    \* submissions before an image is given up
    MaxFaults,      \* bound: deaths of a server and leases that are outlived
    None

ASSUME SizeAssumption == MaxImageBytes \in Nat \ {0}
ASSUME AttemptAssumption == MaxAttempts \in Nat \ {0, 1}
ASSUME BoundAssumption == MaxJobs \in Nat /\ MaxFaults \in Nat
ASSUME NoneAssumption == None \notin Server \cup Image /\ None \notin Nat

VARIABLES
    asset,   \* image_assets, and whether a post or an avatar refers to them
    obj,     \* COS: the size of the stored object
    job,     \* the provider's jobs and whether moderation_records knows them
    retry,   \* image_moderation_retries
    req,     \* the request of the uploader that is under way
    sweep,   \* the batch of the expiration worker that is under way
    srv,     \* the servers: running or not, and the claims of their retry workers
    lost,    \* history: objects deleted by a sweep that did not record it
    faults

vars == <<asset, obj, job, retry, req, sweep, srv, lost, faults>>

Verdict == {"pass", "review", "block"}
Job == 1 .. MaxJobs
Size == 0 .. MaxImageBytes + 1

AssetRow == [st : {"none", "pending", "ready", "retired"}, purpose : {"post", "avatar"},
             url : {"", "live", "purged"}, size : Size, mod : Verdict \cup {"pending"},
             old : BOOLEAN, used : BOOLEAN]

(* due: next_attempt_at has passed.  leased: lease_until has not. *)
RetryRow == [st : {"none", "pending", "dead_letter"}, att : 0 .. MaxAttempts, due : BOOLEAN,
             tok : Server \cup {None}, leased : BOOLEAN]

Answer == {"accepted", "failed", "blank", "immediate"}

(* A request of a user; a claim of the retry worker; a batch of the sweep. *)
RequestState == [pc : {"idle", "submit", "commit", "bind"}, i : Image \cup {None},
                 ans : Answer \cup {None}]
ClaimState == [pc : {"none", "claimed"} \cup Answer, att : 0 .. MaxAttempts,
               mod : Verdict \cup {"pending"}]
SweepState == [todo : SUBSET Image, gone : SUBSET Image]

NoAsset == [st |-> "none", purpose |-> "post", url |-> "", size |-> 0, mod |-> "pending",
            old |-> FALSE, used |-> FALSE]
NoRetry == [st |-> "none", att |-> 0, due |-> FALSE, tok |-> None, leased |-> FALSE]
NoRequest == [pc |-> "idle", i |-> None, ans |-> None]
NoClaim == [pc |-> "none", att |-> 0, mod |-> "pending"]
NoSweep == [todo |-> {}, gone |-> {}]
NoClaims == [i \in Image |-> NoClaim]

TypeOK ==
    /\ asset \in [Image -> AssetRow]
    /\ obj \in [Image -> Size \cup {None}]
    /\ job \in [Image -> [Job -> {"free", "open", "heard", "dropped"}]]
    /\ retry \in [Image -> RetryRow]
    /\ req \in RequestState
    /\ sweep \in SweepState
    /\ srv \in [Server -> [up : BOOLEAN, claim : [Image -> ClaimState]]]
    /\ lost \in SUBSET Image
    /\ faults \in 0 .. MaxFaults

Init ==
    /\ asset = [i \in Image |-> NoAsset]
    /\ obj = [i \in Image |-> None]
    /\ job = [i \in Image |-> [j \in Job |-> "free"]]
    /\ retry = [i \in Image |-> NoRetry]
    /\ req = NoRequest
    /\ sweep = NoSweep
    /\ srv = [s \in Server |-> [up |-> TRUE, claim |-> NoClaims]]
    /\ lost = {}
    /\ faults = 0

(* fault: complete reads the asset without FOR UPDATE *)
LockByID_Mutant == {}

(* A completion keeps its lock while it asks COS and the provider. *)
LockByID == IF req.pc \in {"submit", "commit"} THEN {req.i} ELSE {}

Free(i) == i \notin LockByID \cup sweep.todo \cup sweep.gone

-----------------------------------------------------------------------------
(* Upload. *)

validatePresign(size) == size > 0 /\ size <= MaxImageBytes

Presign(i, purpose, size) ==
    /\ asset[i].st = "none"
    /\ validatePresign(size)
    /\ asset' = [asset EXCEPT ![i] = [NoAsset EXCEPT !.st = "pending", !.purpose = purpose,
                                                     !.size = size]]
    /\ UNCHANGED <<obj, job, retry, req, sweep, srv, lost, faults>>

(* The client uploads while its ticket is valid, long before retention ends. *)
PutObject(i, size) ==
    /\ asset[i].st = "pending" /\ asset[i].url = "" /\ ~asset[i].old
    /\ obj[i] # size
    /\ obj' = [obj EXCEPT ![i] = size]
    /\ UNCHANGED <<asset, job, retry, req, sweep, srv, lost, faults>>

Age(i) ==
    /\ asset[i].st # "none" /\ ~asset[i].old
    /\ asset' = [asset EXCEPT ![i].old = TRUE]
    /\ UNCHANGED <<obj, job, retry, req, sweep, srv, lost, faults>>

-----------------------------------------------------------------------------
(* Requests. *)

validateStoredObject(i) ==
    /\ obj[i] > 0 /\ obj[i] <= MaxImageBytes
    /\ obj[i] = asset[i].size

HeadObject(i) == obj[i] # None

(* Under the lock COS is asked for the object: one of the wrong size is       *)
(* deleted, and the request refused.                                          *)
Complete(i) ==
    /\ req = NoRequest /\ Free(i)
    /\ asset[i].st = "pending" /\ asset[i].url = ""
    /\ IF HeadObject(i) /\ validateStoredObject(i)
       THEN /\ req' = [NoRequest EXCEPT !.pc = "submit", !.i = i]
            /\ UNCHANGED obj
       ELSE /\ obj' = [obj EXCEPT ![i] = None]
            /\ UNCHANGED req
    /\ UNCHANGED <<asset, job, retry, sweep, srv, lost, faults>>

(* The provider accepts the image under a new job id.  A call that timed out  *)
(* may have created the job all the same.                                     *)
SubmitImage(i, ans) ==
    \/ /\ ans # "accepted"
       /\ UNCHANGED job
    \/ /\ ans \in {"accepted", "failed"}
       /\ \E j \in Job :
             /\ \A k \in Job : (job[i][k] = "free") <=> (k >= j)
             /\ job' = [job EXCEPT ![i][j] = "open"]

Complete_submit(ans) ==
    /\ req.pc = "submit"
    /\ SubmitImage(req.i, ans)
    /\ req' = [req EXCEPT !.pc = "commit", !.ans = ans]
    /\ UNCHANGED <<asset, obj, retry, sweep, srv, lost, faults>>

Enqueue(row) ==
    IF row.st = "none" THEN [NoRetry EXCEPT !.st = "pending", !.att = 1] ELSE row

enqueueModerationRetry(row, ans) == IF ans \in {"failed", "blank"} THEN Enqueue(row) ELSE row

MarkComplete(row) == [row EXCEPT !.url = "live"]

Complete_commit(v) ==
    LET i == req.i
        now == req.ans = "immediate"
    IN  /\ req.pc = "commit"
        /\ asset' = [asset EXCEPT ![i] = IF now THEN [MarkComplete(@) EXCEPT !.mod = v]
                                         ELSE MarkComplete(@)]
        /\ retry' = [retry EXCEPT ![i] = IF now THEN NoRetry
                                         ELSE enqueueModerationRetry(@, req.ans)]
        /\ req' = NoRequest
        /\ UNCHANGED <<obj, job, sweep, srv, lost, faults>>

(* The transaction of a request fails: what COS and the provider did stays. *)
Rollback ==
    /\ req.pc # "idle"
    /\ req' = NoRequest
    /\ UNCHANGED <<asset, obj, job, retry, sweep, srv, lost, faults>>

(* A reference is looked up by its public URL before the row is locked. *)
FindImagesByURLs(i) ==
    /\ req = NoRequest
    /\ asset[i].url = "live"
    /\ req' = [NoRequest EXCEPT !.pc = "bind", !.i = i]
    /\ UNCHANGED <<asset, obj, job, retry, sweep, srv, lost, faults>>

(* fault: the row is used as the lookup by URL had found it *)
resolveAvatar_Mutant(i) == asset[i].purpose = "avatar" => asset[i].mod = "pass"

(* The locked row must still be usable: a post may show an image under        *)
(* review, an avatar may not.                                                 *)
resolveAvatar(i) ==
    /\ asset[i].url = "live" /\ asset[i].st \in {"pending", "ready"}
    /\ IF asset[i].purpose = "avatar" THEN asset[i].mod = "pass" ELSE asset[i].mod # "block"

Bind ==
    LET i == req.i IN
    /\ req.pc = "bind"
    /\ Free(i)
    /\ asset' = [asset EXCEPT ![i] = IF resolveAvatar(i)
                                     THEN [@ EXCEPT !.st = "ready", !.used = TRUE] ELSE @]
    /\ req' = NoRequest
    /\ UNCHANGED <<obj, job, retry, sweep, srv, lost, faults>>

(* The last reference goes: the trigger retires the asset. *)
Unbind(i) ==
    /\ asset[i].used /\ Free(i)
    /\ asset' = [asset EXCEPT ![i].used = FALSE, ![i].st = "retired"]
    /\ UNCHANGED <<obj, job, retry, req, sweep, srv, lost, faults>>

(* The deletion of the post that shows an image blocks it, reviewed or not. *)
applyAdminPostDeleteImage(i) ==
    /\ asset[i].used /\ asset[i].purpose = "post" /\ asset[i].mod # "block" /\ Free(i)
    /\ asset' = [asset EXCEPT ![i].mod = "block"]
    /\ UNCHANGED <<obj, job, retry, req, sweep, srv, lost, faults>>

-----------------------------------------------------------------------------
(* The provider's callback, once, again or never. *)

verdictFromResult(n) ==
    CASE n = 0 -> "pass" [] n = 1 -> "block" [] n = 2 -> "review" [] OTHER -> "invalid"

Message == [state : {"Success", "Failed", "other"}, result : 0 .. 3]

(* A job that failed at the provider is left to a human. *)
DecodeImageCallback(m) ==
    CASE m.state = "Success" -> verdictFromResult(m.result)
      [] m.state = "Failed" -> "review"
      [] OTHER -> "invalid"

(* The verdicts messages of the provider carry; any other is refused. *)
Delivered == {DecodeImageCallback(m) : m \in Message} \ {"invalid"}

validateCallbackAsset(i) == asset[i].url = "live"

(* Refused for its target: the provider may try again or give up.  That it    *)
(* ends a job with nothing but unreadable messages is left out.               *)
RefuseCallback(i, j) ==
    /\ job[i][j] = "open" /\ Free(i)
    /\ ~validateCallbackAsset(i)
    /\ job' = [job EXCEPT ![i][j] = "dropped"]
    /\ UNCHANGED <<asset, obj, retry, req, sweep, srv, lost, faults>>

DeleteForAsset(i) == retry' = [retry EXCEPT ![i] = NoRetry]

(* A repeated callback changes no verdict. *)
ApplyImageCallback(i, j, v) ==
    /\ job[i][j] \in {"open", "heard"} /\ Free(i)
    /\ validateCallbackAsset(i)
    /\ asset' = [asset EXCEPT ![i].mod = IF job[i][j] = "heard" THEN @ ELSE v]
    /\ job' = [job EXCEPT ![i][j] = "heard"]
    /\ DeleteForAsset(i)
    /\ UNCHANGED <<obj, req, sweep, srv, lost, faults>>

-----------------------------------------------------------------------------
(* The sweep of expired uploads. *)

LockExpiredPending ==
    {i \in Image : asset[i].st = "pending" /\ asset[i].old /\ ~asset[i].used /\ Free(i)}

ExpirePending ==
    /\ sweep = NoSweep
    /\ LockExpiredPending # {}
    /\ sweep' = [NoSweep EXCEPT !.todo = LockExpiredPending]
    /\ UNCHANGED <<asset, obj, job, retry, req, srv, lost, faults>>

(* A failed call may have deleted the object; the asset is left for later. *)
DeleteObject(i, ok) ==
    /\ i \in sweep.todo
    /\ sweep' = [todo |-> sweep.todo \ {i},
                 gone |-> IF ok THEN sweep.gone \cup {i} ELSE sweep.gone]
    /\ \/ obj' = [obj EXCEPT ![i] = None] /\ lost' = IF ok THEN lost ELSE lost \cup {i}
       \/ ~ok /\ UNCHANGED <<obj, lost>>
    /\ UNCHANGED <<asset, job, retry, req, srv, faults>>

RetirePurged(row) == [row EXCEPT !.st = "retired", !.url = "purged"]

ExpirePending_commit ==
    /\ sweep.todo = {} /\ sweep.gone # {}
    /\ asset' = [i \in Image |-> IF i \in sweep.gone THEN RetirePurged(asset[i])
                                 ELSE asset[i]]
    /\ sweep' = NoSweep
    /\ UNCHANGED <<obj, job, retry, req, srv, lost, faults>>

(* One transaction spans the batch: an error undoes all of it but in COS. *)
ExpirePending_rollback ==
    /\ sweep # NoSweep
    /\ lost' = lost \cup sweep.gone
    /\ sweep' = NoSweep
    /\ UNCHANGED <<asset, obj, job, retry, req, srv, faults>>

-----------------------------------------------------------------------------
(* The retry worker. *)

Due(i) == retry[i].st = "pending" /\ retry[i].due /\ ~retry[i].leased

Working(s) == \E i \in Image : srv[s].claim[i].pc # "none"

ClaimDue(s) ==
    LET S == {i \in Image : Due(i)} IN
    /\ srv[s].up /\ ~Working(s) /\ S # {}
    /\ retry' = [i \in Image |-> IF i \in S THEN [retry[i] EXCEPT !.tok = s, !.leased = TRUE]
                                 ELSE retry[i]]
    /\ srv' = [srv EXCEPT ![s].claim =
                  [i \in Image |-> IF i \in S
                                   THEN [pc |-> "claimed", att |-> retry[i].att, mod |-> asset[i].mod]
                                   ELSE NoClaim]]
    /\ UNCHANGED <<asset, obj, job, req, sweep, lost, faults>>

(* fault: the row is updated by its image alone *)
Fenced_Mutant(s, i) == retry[i].st = "pending"

(* WHERE state = 'pending' AND lease_token = ? *)
Fenced(s, i) == retry[i].st = "pending" /\ retry[i].tok = s

UpdateClaim(s, i, row) ==
    /\ retry' = [retry EXCEPT ![i] = IF Fenced(s, i) THEN row ELSE @]
    /\ srv' = [srv EXCEPT ![s].claim[i] = NoClaim]
    /\ UNCHANGED <<asset, obj, job, req, sweep, lost, faults>>

(* The image is submitted again, unless it was decided when it was claimed. *)
processClaim(s, i, ans) ==
    /\ srv[s].claim[i].pc = "claimed" /\ srv[s].claim[i].mod = "pending"
    /\ SubmitImage(i, ans)
    /\ srv' = [srv EXCEPT ![s].claim[i].pc = ans]
    /\ UNCHANGED <<asset, obj, retry, req, sweep, lost, faults>>

deleteClaim(s, i) ==
    /\ \/ srv[s].claim[i].pc = "accepted"
       \/ srv[s].claim[i].pc = "claimed" /\ srv[s].claim[i].mod # "pending"
    /\ UpdateClaim(s, i, NoRetry)

RescheduleClaim(row, n) == [row EXCEPT !.att = n, !.due = FALSE, !.tok = None, !.leased = FALSE]
DeadLetterClaim(row, n) == [RescheduleClaim(row, n) EXCEPT !.st = "dead_letter"]

(* fault: an answer without a job id does not count as an attempt *)
failed_Mutant(s, i) ==
    LET n == srv[s].claim[i].att + 1 IN
    \/ /\ srv[s].claim[i].pc = "failed"
       /\ UpdateClaim(s, i, IF n >= MaxAttempts THEN DeadLetterClaim(retry[i], n)
                            ELSE RescheduleClaim(retry[i], n))
    \/ /\ srv[s].claim[i].pc = "blank"
       /\ UpdateClaim(s, i, RescheduleClaim(retry[i], srv[s].claim[i].att))

(* fault: the budget is not looked at *)
failed_NoLimit(s, i) ==
    /\ srv[s].claim[i].pc \in {"failed", "blank"}
    /\ UpdateClaim(s, i, RescheduleClaim(retry[i], srv[s].claim[i].att + 1))

failed(s, i) ==
    LET n == srv[s].claim[i].att + 1 IN
    /\ srv[s].claim[i].pc \in {"failed", "blank"}
    /\ UpdateClaim(s, i, IF n >= MaxAttempts THEN DeadLetterClaim(retry[i], n)
                         ELSE RescheduleClaim(retry[i], n))

(* A verdict given at once is applied like a callback.  When it is refused    *)
(* the claim ends and the row keeps its lease.                                *)
applyImmediate(s, i, v) ==
    /\ srv[s].claim[i].pc = "immediate" /\ Free(i)
    /\ IF validateCallbackAsset(i)
       THEN asset' = [asset EXCEPT ![i].mod = v] /\ DeleteForAsset(i)
       ELSE UNCHANGED <<asset, retry>>
    /\ srv' = [srv EXCEPT ![s].claim[i] = NoClaim]
    /\ UNCHANGED <<obj, job, req, sweep, lost, faults>>

-----------------------------------------------------------------------------
(* Time and failures. *)

BackoffEnds(i) ==
    /\ retry[i].st = "pending" /\ ~retry[i].due
    /\ retry' = [retry EXCEPT ![i].due = TRUE]
    /\ UNCHANGED <<asset, obj, job, req, sweep, srv, lost, faults>>

(* A lease is longer than a submission may take, so to outlive it is a fault. *)
LeaseEnds(i) ==
    LET held == \E s \in Server : srv[s].claim[i].pc # "none" /\ Fenced(s, i) IN
    /\ retry[i].leased
    /\ held => faults < MaxFaults
    /\ faults' = IF held THEN faults + 1 ELSE faults
    /\ retry' = [retry EXCEPT ![i].leased = FALSE]
    /\ UNCHANGED <<asset, obj, job, req, sweep, srv, lost>>

(* The process dies: requests and the sweep roll back, claims are forgotten.  *)
Crash(s) ==
    /\ srv[s].up /\ faults < MaxFaults
    /\ faults' = faults + 1
    /\ srv' = [srv EXCEPT ![s] = [up |-> FALSE, claim |-> NoClaims]]
    /\ UNCHANGED <<asset, obj, job, retry, req, sweep, lost>>

(* A server starts when the provider answers, or fails in a way that may pass. *)
ClassifyImageModerationProbeError == {"none", "transient", "authorization", "configuration"}

assertImageModerationAvailable(probe) == probe \notin {"authorization", "configuration"}

Start(s, probe) ==
    /\ ~srv[s].up
    /\ assertImageModerationAvailable(probe)
    /\ srv' = [srv EXCEPT ![s].up = TRUE]
    /\ UNCHANGED <<asset, obj, job, retry, req, sweep, lost, faults>>

-----------------------------------------------------------------------------
Claim(s, i) ==
    \/ \E ans \in Answer : processClaim(s, i, ans)
    \/ deleteClaim(s, i)
    \/ failed(s, i)
    \/ \E v \in Verdict : applyImmediate(s, i, v)

Next ==
    \/ \E i \in Image :
          \/ \E p \in {"post", "avatar"}, n \in Size : Presign(i, p, n)
          \/ \E n \in Size : PutObject(i, n)
          \/ Age(i)
          \/ Complete(i) \/ FindImagesByURLs(i)
          \/ Unbind(i) \/ applyAdminPostDeleteImage(i)
          \/ \E j \in Job : RefuseCallback(i, j)
          \/ \E j \in Job, v \in Delivered : ApplyImageCallback(i, j, v)
          \/ \E ok \in BOOLEAN : DeleteObject(i, ok)
          \/ BackoffEnds(i) \/ LeaseEnds(i)
    \/ \E ans \in Answer : Complete_submit(ans)
    \/ \E v \in Verdict : Complete_commit(v)
    \/ Rollback \/ Bind
    \/ ExpirePending \/ ExpirePending_commit \/ ExpirePending_rollback
    \/ \E s \in Server :
          \/ ClaimDue(s)
          \/ \E i \in Image : Claim(s, i)
          \/ Crash(s)
          \/ \E probe \in ClassifyImageModerationProbeError : Start(s, probe)

Spec == Init /\ [][Next]_vars

(* Servers restart and scan again and again, calls return, time passes. *)
Fairness ==
    /\ \A s \in Server :
          /\ WF_vars(Start(s, "none"))
          /\ WF_vars(ClaimDue(s))
          /\ \A i \in Image : SF_vars(Claim(s, i))
    /\ WF_vars(Rollback) /\ WF_vars(ExpirePending_commit \/ ExpirePending_rollback)
    /\ \A i \in Image : WF_vars(BackoffEnds(i)) /\ WF_vars(LeaseEnds(i))

FairSpec == Spec /\ Fairness

-----------------------------------------------------------------------------
(* Complete, the retry worker and the callback: an image that was completed   *)
(* and has no verdict is never forgotten.  The provider still has a job for   *)
(* it, or it is in the retry queue (possibly given up, where it can be seen). *)
PendingWatched ==
    \A i \in Image : asset[i].url = "live" /\ asset[i].mod = "pending" =>
        \/ \E j \in Job : job[i][j] = "open"
        \/ retry[i].st # "none"

(* ExpirePending against references: the object of an asset in use is in COS, *)
(* unless an earlier sweep deleted it and did not get to record that.         *)
ReferencedStored ==
    \A i \in Image : asset[i].used =>
        /\ asset[i].url = "live"
        /\ obj[i] = None => i \in lost

Queue == INSTANCE TaskQueue WITH
    Task <- Image,
    Worker <- Server,
    Open <- {"pending"},
    Closed <- {"dead_letter"},
    state <- [i \in Image |-> retry[i].st],
    owner <- [i \in Image |-> retry[i].tok],
    busy <- [i \in Image |-> {s \in Server : srv[s].claim[i].pc # "none"}],
    decided <- {i \in Image : asset[i].mod # "pending"}

(* ClaimDue, RescheduleClaim, DeadLetterClaim, DeleteClaim, DeleteForAsset:   *)
(* the retry rows are tasks of the abstract queue, also when leases are       *)
(* outlived and servers die with claims in hand.                              *)
RetryIsQueue == Queue!Spec

(* RunBatch: an image in the retry queue is decided, handed over to the       *)
(* provider or given up, unless its object has been purged meanwhile.         *)
RetrySettles ==
    \A i \in Image :
        (retry[i].st = "pending") ~> (retry[i].st # "pending" \/ asset[i].url = "purged")

=============================================================================
