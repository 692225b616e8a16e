# danshi-backend in TLA+

danshi-backend is the Go server of a campus food community: posts with images, comments, users,
an admin console, and the workers that carry decisions to Tencent Cloud (COS, CI, EdgeOne, SES).
One PostgreSQL database holds all state. What makes it hard is not any single handler but what
happens *between* them: request transactions that wait for each other's row locks, workers that
call external services without a transaction, leases that run out, callbacks that come twice, late
or never. This directory models those parts, checks the models with TLC and proves the central
safety properties with TLAPS. Line numbers and symbols behind every definition are in
`PROJECT.json` ("map"); the hazards the properties are aimed at are listed there, too.

## 1. Inventory

| Component | State it keeps | Operations | Hard parts | Status |
|---|---|---|---|---|
| Image access outbox and worker | `image_access_deliveries` (one row per image: generation, stage, budgets, lease) | `Enqueue` by every verdict; `RunBatch`: claim, ACL, submit, reconcile, poll, dead letter | leases and fencing, crashes around a call without idempotency token, unknown outcomes | `ImageAccess`, proofs, refines `TaskQueue` |
| EdgeOne purge adapter | none; jobs live at the provider | Create, Describe, reconciliation listing | second-granular window, lagging listings | inside `ImageAccess` |
| Verification codes | `email_verification_codes` | send, resend, consume, wrong code, send rate | failed requests that must still commit; lookups before locks | `VerificationEmail`, proofs |
| Verification email outbox and worker | `verification_email_deliveries` with plaintext codes | enqueue, clear, claim a batch, refresh, send, retry | one lease for a batch sent one by one; plaintext that must vanish | `VerificationEmail`, proofs |
| Posts and revisions | `posts`, `post_histories`, `post_images` | create, update, delete, restore a revision | slow text review while locks are held; shared images | `PostModeration` |
| Moderation verdicts, publication | `moderation_records`, `image_assets.moderation`, `posts.status` | image callback (also repeated), manual review of an image or of a post, re-evaluation of pending posts | READ COMMITTED snapshots, selection before lock, lock order | `PostModeration` |
| Admin content actions | the same rows | delete and restore a post | blocks written by a deletion and undone by a restoration | `PostModeration` |
| Image asset references | `image_assets.status` | retire and activate triggers, avatars | "last reference" decided under concurrency | `PostModeration`, `ImageUpload` |
| Image upload, pending expiration | `image_assets`, objects in COS | presign, complete, bind, expire, purge | a provider call under a row lock; objects deleted inside a transaction that may roll back | `ImageUpload` |
| Image moderation retry worker | `image_moderation_retries` | claim, submit, reschedule, dead letter | leases outlived; resubmission after a timeout that reached the provider | `ImageUpload`, refines `TaskQueue` |
| Sessions and login | `user_sessions` | login, refresh, logout, kick, reset | login against a concurrent reset or ban | `Accounts` |
| User names | `user_name_claims`, `user_name_change_records`, candidates in review | change, review, claim, delete | verdict on an outdated candidate; two claims at once | `Accounts` |
| Admin users, bans, roles | roles, bans | ban, unban, grant, revoke | revocation against logins under way | `Accounts` |
| Comments, counters, reactions | `comments`, `comment_histories`, likes, favorites, follows, counters | write, delete, restore, review, react; lists by cursor | counter triggers under concurrency; lock order; lists that change under a cursor | `Comments` |
| Notifications | `notifications` | written with comments, likes, follows; read marks | duplicates | `Comments` |
| Dictionaries, suggestions, tags | dictionary tables, `dictionary_suggestions`, `tags`, `post_histories` | dictionary changes, suggestion, approval, rejection, rename, merge, review | revisions of posts written by others than their authors; lock order | `Catalog` |
| Legacy importer | the target tables and their identity sequences | import, verify | a check outside the writing transaction; sequences that do not roll back; inferred reply parents | `LegacyImport` |
| Unit of work | none | begin, work before the commit, commit, roll back, `CommitError` | a refusal that commits | its effect is in every module |
| Moderation backlog alerting, after-commit alerts, search, money/time/password helpers, HTTP layer, configuration, metrics, adapters, processes, migrations, OpenAPI tooling | little or none of their own | | | not modelled, see 8 |

How they interact. A request runs in one transaction (`middleware.UnitOfWork`): it commits when
the handler succeeded, and rolls back otherwise, with the one exception of an error that asks to be
committed (a wrong verification code). A verdict on an image changes `image_assets.moderation`,
re-evaluates the pending posts that show the image and projects an access intent on the outbox row
of the image, all in that transaction. The outbox workers then run outside any request: a short
transaction claims due rows under a lease, the external call is made without a transaction, and a
second short transaction writes the outcome, fenced by the lease token (and the generation).

What makes each modelled component correct:

- image access: the object's ACL and the CDN end up as the *latest* verdict asks for, a purge is
  never replayed blindly, no delivery stays undecided for ever;
- verification mail: a plaintext code never outlives the code, five wrong guesses end a code, only
  the lease holder sends and decides, every mail is decided;
- posts: only what passed becomes public, an image is blocked by a deletion only when nobody else
  shows it, an image in use is never retired, a reviewer's block survives deletions and
  restorations, transactions do not deadlock;
- uploads: a completed image that waits for a verdict is not forgotten, the object of an image in use
  is in COS, a retry row is decided by the worker that took it last;
- accounts: no session of an old password, a banned or a deleted account stays open, a name belongs to
  its first owner for good, a verdict renames only the account it was about;
- comments: counters equal a recount, the state of a comment is the verdict on the text it shows, a
  reader who follows the cursors misses and repeats nothing;
- catalog: rows refer to rows that exist, the snapshot of a revision names what the post is filed under;
- importer: threads arrive as they were, nothing the application wrote before or between the commands is
  overwritten or blocked, but for a cuisine under a historical name and identity.

## 2. Modules

| Module | Models |
|---|---|
| `ImageAccess` | the image access outbox with its workers, COS, EdgeOne and the edge cache |
| `ImageAccessProofs` | type correctness, ACL convergence, fencing, replay and purge safety of `ImageAccess`, and its refinement of `TaskQueue` |
| `VerificationEmail` | verification codes, their outbox, the mail workers |
| `VerificationEmailProofs` | type correctness, plaintext hygiene, lease exclusivity, fencing and guess budget of `VerificationEmail`, and its refinement of `TaskQueue` |
| `PostModeration` | concurrent transactions on posts, images and verdicts |
| `PostModerationProofs` | type correctness, references, deletions, blocks, publication and lock order of `PostModeration` |
| `ImageUpload` | uploads, their submission and its retry queue, references, the expiration sweep |
| `ImageUploadProofs` | type correctness, watched and referenced images, and the refinement of `TaskQueue` |
| `TaskQueue` | the abstract leased queue that the retry queue of `ImageUpload` and the outboxes of `ImageAccess` and `VerificationEmail` implement |
| `Accounts` | registration, sessions, passwords, user names, bans, roles |
| `AccountsProofs` | type correctness, sessions, bans, names and lock order of `Accounts` |
| `RowLocks` | the row locks of PostgreSQL, shared by `Comments` and `Catalog` |
| `Comments` | comments, verdicts, reactions, notifications, counters, paging |
| `CommentsProofs` | type correctness, counters, verdicts, lock order and paging of `Comments` |
| `Catalog` | dictionaries, suggestions, tags and the revisions of posts they touch |
| `CatalogProofs` | type correctness, snapshots and lock order of `Catalog` |
| `LegacyImport` | the import command beside a running application |
| `LegacyImportProofs` | type correctness, threads and the application's rows of `LegacyImport` |
| `MC...` | one per component: symmetry sets for TLC; the constants' values are in the cfg files |

Operators that end in `_Mutant` (and the few other operators under a "fault" comment) are plausible
slips of the code. They are used by nothing in the specifications; `PROJECT.json` pairs each with
the definition it can replace and the property which must then fail.

### ImageAccess

`row` is `image_access_deliveries`; `mod` is `image_assets.moderation`; `wk` is what a worker
goroutine holds in memory (its copy of the claim and the call it is in); `acl`, `cache` and `jobs`
are COS, the edge and EdgeOne. Instants are timers: `nextIn` for `next_attempt_at`, `leaseIn` for
`lease_until`, `age` for the time since `submission_started_at`, all moved by `Tick`. The fields
`create` and `seen` of a row are history for the properties.

| Action | Code |
|---|---|
| `Moderate` | `enqueueImageAccess` and `Enqueue`: a fact commits and re-projects the row, lease untouched |
| `ClaimDue` | `ImageAccessRepository.ClaimDue` |
| `SetObjectPublicAccess`, `applyACL_ok`, `applyACL_error` | `applyACL`; the request takes effect at some moment before the call returns |
| `submit`, `CreatePurgeTask`, `Submit_ok`, `Submit_error` | `submit`: persist "submitting", send one Create, store the outcome |
| `recoverSubmission`, `recoverSubmission_error` | reconciliation of a Create with unknown outcome |
| `poll`, `poll_error` | `poll` and `aggregatePurgeTasks` |
| `ReleaseSuperseded` | after an update that hit no row |
| `Crash` | the process dies or a write fails: the lease stays until it expires |
| `CacheFill`, `PurgeEnds`, `LateEffect` | external: readers, EdgeOne, COS applying an abandoned request |

Everything a worker writes goes through `UpdateClaim`, whose two branches are the `WHERE generation
= ? AND lease_token = ?` hitting one row or none.

`DeliveryIsQueue` maps the outbox to `TaskQueue` (see below) with a generation of an image as the task
(`Generation`): a verdict puts its own generation in and withdraws the earlier ones, the stages of the
delivery before `Terminal` are the open states (`Phase`), it is in the hands of the workers whose claim names
it (`InHand`, `Hands`), and its owner is the one of them whose token the row carries while it is the row's
generation (`Owner`). So the lease that `Enqueue` leaves to the worker of an earlier verdict makes that
worker no owner of the new generation; all it may do is give the lease back.

Assumptions about the outside: the ACL call returns before its lease ends (`ACLWindow < Lease`; 15 s
against 60 s); a reader's request and the caching of its answer are one step; EdgeOne does not finish
a purge within the second it was created in (the reconciliation window is cut to whole seconds, so a
job of that very second made before the ACL changed would be taken for the new one); a successful
purge empties the cache for the URL. `LateACL` says whether COS may still apply a request whose
caller has given up.

### VerificationEmail

`chal` is `email_verification_codes` by purpose and address, `dl` the outbox, `account` the users,
`wk` the batch workers. `asked` is what a `SendVerificationCode` under way has read: the account is
looked up before the challenge is locked, so this is two actions (`FindByEmail`,
`SendVerificationCode`); every other request is one locked transaction and one action. A digest is
identified with the code it belongs to. `dl[d].code` says whether the row still holds the plaintext.
`RunBatch` clears invalid plaintexts and claims a batch; `RefreshClaim` re-reads row, challenge and
account before each mail; `Sent`, `SendFailed` and `Cancel` are the fenced outcomes; `Crash` gives a
batch up. A provider failure may or may not have sent the mail. The deployment is taken with
`EmailVerificationRequired` on. `BatchWindow` bounds how long a batch takes; the code does not bound
it by the lease (danshi-jobs may send 100 mails one after another under one 60 s lease), so the
properties that do not need `BatchWindow < Lease` are checked without it.

`OutboxIsQueue` maps the outbox to `TaskQueue` (see below): a row is pending while it may be sent and
closed once it is sent, canceled or given up (`Phase`, `Final`); it is in the hands of the workers whose batch
still has it (`InHand`, `Hands`), and its owner is the one of them whose token it carries (`Owner`). A
worker that finds its lease over when the row's turn comes gives the row back if nobody has taken it,
and forgets it otherwise. Decisions made elsewhere do not touch the row: they clear its plaintext,
and the owner cancels it.

### PostModeration

Each request is a transaction in `tx`, with a program counter over its lock waits: `scope` (a
callback selects the pending posts), `posts`, `images`, `work`, and for the review of a whole post
`reject` and `approve`, its two UPDATE statements. `post`, `hist`, `text`, `img` and `jobs` are the
committed rows. The modelled database is PostgreSQL at READ COMMITTED: a statement sees the rows
committed when it began; a row lock is held to the end of the transaction; an UPDATE that had to wait
looks at the new version of the *row* and at everything else as its snapshot had it (`Chosen`,
`Rechecked`); a commit makes all writes visible at once, so a transaction's writes are in the action
that commits it. Rows of one kind are locked in ascending id order, hence one step per kind. `read` is
what the transaction saw when it had its locks; the slow text review of `Create` and `Update` runs
between that and the commit. `Abort` is a refusal, an error or a deadlock victim.

| Action | Code |
|---|---|
| `Begin` | the request up to its first lock, with the checks made before it |
| `LockPendingPostsForImage`, `LockPosts`, `LockImages` | the lock order of all write paths |
| `Create`, `Update` | `PostService.Create`, `Update`: validate images, review the text, write the version, triggers |
| `Delete` | `deletePostWithHistoryAndImages`, by the author or an admin |
| `RestoreHistory`, `RestorePost` | a revision restored by the author or admin; a deleted post restored by an admin |
| `applyImageResult`, `reconcileDuplicateImageResult` | the image callback, first and repeated |
| `ManualReview` | manual review of one image record |
| `ManualReviewPost`, `RejectPosts`, `ApprovePosts` | manual review of a whole post and its two statements |

An image is the triple of its verdict, the writer of its latest record and the verdict a machine or
reviewer last gave (`said`), with the number of records still open to a review; a text record is its
verdict and writer. `Operation` says which operations clients call in an instance ("draft" and
"repeat" add drafts and repeated callbacks), so that each run spends its states on its question.
`Init` starts with uploads already judged, or not yet judged, under a first provider job.

### ImageUpload and TaskQueue

`asset` is `image_assets` with a flag for "a post or an avatar refers to it", `obj` the object in COS,
`job` what the provider works on and whether `moderation_records` knows it, `retry` the row of
`image_moderation_retries`, `req` the uploader's request, `sweep` the batch of the expiration worker,
`srv` the servers with the claims of their retry workers.

| Action | Code |
|---|---|
| `Presign`, `PutObject` | a ticket for a size and a purpose; the client's PUT (external) |
| `Complete`, `Complete_submit`, `Complete_commit`, `Rollback` | `Complete`: lock, look at the object, submit, record; an immediate verdict is applied at once |
| `FindImagesByURLs`, `Bind`, `Unbind` | a post or a profile refers to the image, or lets it go |
| `ApplyImageCallback`, `RefuseCallback` | the provider's verdict; an unreadable one leaves the job open |
| `applyAdminPostDeleteImage` | a verdict written by a deletion |
| `ExpirePending`, `DeleteObject`, `ExpirePending_commit`, `ExpirePending_rollback` | the sweep: rows locked with SKIP LOCKED, objects deleted one by one, then one commit |
| `ClaimDue`, `Claim`, `BackoffEnds`, `LeaseEnds` | `RunBatch` of the retry worker; time |
| `Crash`, `Start` | a server dies and comes back, with the probe of the provider it makes at start |

One uploader's request and one sweep run at a time (SKIP LOCKED makes sweeps disjoint). A ticket lives
600 s, an unused upload is kept for 24 h: `Age` orders the two. A worker that outlives its lease (45 s
against a 15 s submit timeout) is a counted fault, as is a death. `lost` remembers objects a sweep deleted
before it rolled back; `docs/image-hosting.md`, section 4, accepts that.

`TaskQueue` says what any leased queue of this system promises: a task is taken under a lease, only the
last taker may move it to another stage, give it back or settle it, a decision made elsewhere withdraws it,
and a decided task is never queued again. Its states are parameters: `Open` while there is something left to
do, `Closed` when nothing is. The retry queue, the mail outbox and the access outbox implement it.
`RetryIsQueue` maps the retry row to the task's state, its lease token to the owner and the claims in the
servers' memory to the workers that believe they have it; a dead letter is closed.

### Accounts

A request is authenticated from a snapshot (`RequireAuth`), then locks rows in the order of its statements
(`plan`, `held`), decides on what it reads under the locks and becomes visible with its commit; the touch of
its own session comes last (`deferSessionTouch`). The rows are users, user names (the unique key of a claim)
and sessions. Requests in flight keep the principal they were authenticated as. A role change and a review
write a row that names their actor (`granted_by`, 00003_rbac.sql:7 and :29; `actor_id`, :65; `reviewer_id`,
00001_init.sql:1255) while they hold their target's row FOR UPDATE: a step of its own (`record`, `Recorded`)
that waits while another request holds the actor's row, and leaves the FOR KEY SHARE lock of the foreign key
(`keys`); a review that passes then goes on to claim the name (`claim`). The ban's reference to its actor
(`banned_by`, 00001_init.sql:340) is there too. Other foreign keys to `users` (authors, followers, ...) only
share rows, and who waits for them here holds nothing another request of this module waits for. Codes belong
to `VerificationEmail`: a registration or reset here has its code accepted. The instance begins one touch
interval after an operator made the first administrator and logged in; no code protects the last
`super_admin`, and nothing is claimed about it.

### Comments and Catalog

Both use `RowLocks`: modes `update`, `noKeyUpdate` and `keyShare` with PostgreSQL's conflicts, taken
one after the other along a plan (a row that a transaction has locked never makes it wait again); effects are
applied by the commit. Statements that take no lock read what
is committed. A refused request, an error and the victim of a deadlock are `Rollback`.

`Comments` has the trigger `danshi_sync_comment_counts` as part of every write, with the locks it takes on
root and post (`Count`), and one reader who walks the list (`latest`, `hot`) or the replies of a comment by
cursors, pages of one comment. Notifications are a set, so equal ones collapse. A mention in a comment that
passes only on review is never notified, as in the code.

`Catalog` has all changes of the four dictionaries, suggestions (also a window below a suggested canteen),
approval (creates the item and files the post under it), tags with rename, merge, deletion and review, and the
writes of posts as far as they concern tags, items and revisions. Renaming and deleting an item are
transactions of several steps: both lock the row of the item (`RenameDictionary`, `BeginDelete`) and then its
entry in the unique index (`HoldName`), and hold them while the rename waits for its new name and the deletion
for its windows and, one after the other, for the rows its RESTRICT checks find (`Referring`;
00001_init.sql:522, :524, :661, :1465, :1480-1482). The order of those checks is left open, and of a flavor
the check locks the row that says a post has it, which only an author's write touches besides. `CreateWindow`
is one step although it waits for its canteen with the entry of its own name in hand: entries come before
items in the order of section 5, so a circle through it has an exception of `OrderedNeverCircle` in it, too.
Users as proposers and reviewers have no row here. Names a request looks up are looked up in one step. Floors,
codes, sort order, stance and proposer are left out. `put` marks a post whose current revision was written
with a new snapshot; restoring an old revision takes none, and flavor renames append no revision.

### LegacyImport

A table of the source is the sequence of its rows in (created_at, id) order; a row's place is its `ROW_NUMBER`
and so its target id. Each table's transformation is a predicate (what the code refuses) and the rows it
yields. `Expected` is the set of decision counts the command accepts: the code lists the one of the owner's
dump, the instance one for each kind of dump it considers. A command is `Import` or `Verify`, then `Check`
(are there business rows, outside a transaction), `Compare` or `CompareAndReport`, `Begin` (SERIALIZABLE; the
snapshot is taken by the statement that waits for the advisory lock), `Write`, `Advance` (setval, which no
rollback undoes), `Commit`, with `Fail` at any point. The application hands out identities (`NextVal`),
inserts (`Register`, `CreateCuisine`), changes a profile and requests a code. A process that has ended keeps
nothing. Rows without an identity in the source (records of roles and bans, tags) are numbered in the order
the code meets them (`InOrder`), and `Over` is ON CONFLICT: DO UPDATE puts the new rows over those of the
target, DO NOTHING the other way round. `by` says whose values the other columns of a user or a dictionary
entry have: `writeHistoricalDictionaries` rewrites is_active, sort_order and created_at of a row under a
historical identity, and `writeUsers` the whole user, so a row of the application becomes one of the import.
`harmed` collects what that does to the application (`Overwritten`: the row before and after) and the inserts
an identity refused. The application creates cuisines only (flavors go the same way) and does not edit them.

## 3. Runs

| Run | Shows |
|---|---|
| `image_access` | `ACLConverged`, `BlockedNotServed`, `NoBlindReplay` and the refinement `DeliveryIsQueue` with two workers, two generations, two jobs, a crash |
| `image_access_settles` | `TypeOK`, and liveness: every delivery ends in `succeeded` or `dead_letter`, also when COS applies abandoned requests |
| `verification_email` | `TypeOK`, `PlaintextCurrent` and the refinement `OutboxIsQueue`: both purposes, two workers, batches of two mails that outlive their lease, a crash |
| `verification_email_settles` | `SingleSender`, `GuessBudget` (two guesses), and liveness: every mail decided, every plaintext erased |
| `post_images` | all operations, two posts sharing an image: `DeletionBlocksOrphans`, `ReadyWhileReferenced`, `BlockedStaysBlocked` |
| `post_publish` | two posts, two images: `PublishedPassed`, `NoWaitCycle` |
| `image_upload` | one image, two servers, two jobs, one fault: `PendingWatched`, `ReferencedStored`, the refinement `RetryIsQueue`, and liveness `RetrySettles` |
| `accounts` | two accounts, two sessions, two requests at a time: `SessionProvesPassword`, `BannedHasNoSession`, `CirclesNeedActorOrRevocation`, `NamesStand` |
| `comments` | three comments, two overlapping requests and a reader: `CountsExact`, `VerdictCurrent`, `CirclesNeedReply`, `PagesExact` |
| `catalog` | two tags, three items, three suggestions, two posts, two overlapping requests: referential integrity in `TypeOK`, `SnapshotCurrent`, `OrderedNeverCircle` |
| `legacy_import` | 61 dumps, two processes, two commands, two writes of the application: `ThreadsKept`, `ApplicationIntact` |
| `legacy_reimport` | violation: an import cannot be repeated or verified, see 6 |

Bounds and why they are enough. Two workers or two transactions are what every race here needs: an
overtaken and an overtaking one (more of them only repeat the pair; the proofs cover any number for
the two outboxes). Two generations are an old and a superseding verdict. Budgets are 1 or 2, so
that "not yet exhausted" and "exhausted" both occur in some run (`MaxACLAttempts`, `MaxPollFailures`
and `MaxUnknownChecks` are 1 in `image_access` and 2 in `image_access_settles`; `MaxAttempts` and
`MaxFailed` likewise in the mail runs). Timers are scaled so that each order of the instants the code
compares occurs: a reconciliation inside `UnknownGrace` and a poll before `PendingTimeout` in
`image_access_settles`, with 2 for both, and later ones also in `image_access`, with 1; a lease that
ends before and after its batch, a resend while the old code is still valid. `MaxGen`, `MaxCrashes`,
`MaxDeliveries`, `MaxRev`, `MaxTx` and the size of `Job` bound what would be unbounded. Four
transactions over a run are two that set the scene and two that race. The post runs say
`CHECK_DEADLOCK FALSE` because a history whose `MaxTx` transactions have ended may stop; circular
waits are the property `NoWaitCycle`, not TLC's deadlock. Symmetry is used in safety runs only.

The later runs say so for the same reason. In `accounts`, `comments` and `catalog` two requests that commit
(three in `accounts`) overlap in every way, and rolled back ones do not count, so that refused and repeated
attempts come on top; the initial states already hold what a longer history would prepare (a thread with a
verdict of each kind, a post under review with a pending suggestion, a logged-in administrator). Names are up
to case and width. Two requests make circles of two only: the longer ones that `OrderedNeverCircle` and the
invariants of `accounts` and `comments` speak of are left to the proofs, which bound no number. The circle of
two administrators who change each other's roles takes four requests in `accounts` (a registration, a grant and then the two
changes), one more than the run has: with four TLC finds it, in 2 million states. `MaxTime = 2` with
`SessionTTL = 2`, `TouchEvery = 1` and `Cooldown = 1` reaches an expired session, a due touch and both sides
of a cool-down and a ban. In `image_upload` sizes run from 0 to one past the limit, `MaxAttempts = 2` gives a
retry and a dead letter, and two jobs are a submission and its repetition. In `legacy_import` the dumps vary
the cases of the transformation of comments (nested replies, a parent that must be inferred, two candidates of
one age, a parent in another post, a given or a missing addressee) over posts and users that meet the other
rules (a placeholder image, folded tags, seed, alias and historical cuisines, likes and notifications of rows
that are gone), and one dump without posts, the only kind after which a repeated import is accepted.

## 4. Fairness

`ImageAccess!FairSpec`: a due row is eventually claimed by some worker (the jobs command is run
again and again by the scheduler), every call returns (each has a timeout), time passes. Nothing is
assumed of the answers, of EdgeOne finishing a job, or of COS. `VerificationEmail!FairSpec`: every
worker scans again and again (`Run` wakes at least every second), every step of a batch returns,
time passes; nothing is assumed of the provider or of the users. The mail run has `BatchWindow <
Lease`: workers slower than their lease could take a row from each other for ever. `ImageUpload!FairSpec`: a
server restarts, its retry worker scans, every claim it holds is worked off (strongly fair, since a claim
is disabled while its server is down or another transaction holds the row's lock), requests and sweeps end,
backoff and leases run out; `RetrySettles` excludes an image whose object was purged meanwhile, because an
immediate verdict on it counts no attempt. Verdicts, requests, crashes and readers are never fair.

## 5. Proofs

All theorems hold for every value of the constants that satisfies the `ASSUME`s of the module.

`ImageAccessProofs`
- `TypeCorrect`: `Spec => []TypeOK`. Lemmas show for each outcome operator (`retrySubmission`,
  `Recovered`, `Polled`, `Refused`, ...) that it keeps type, generation and wish of the row
  (`Kept`, `Advanced`); every return of a worker is then one `UpdateClaim` (`ReturnIsUpdate`).
- `ACLSafety`: `Spec => []ACLConverged` under `~LateACL`. `ACLConverged` is not inductive: nothing in
  it forbids a second worker in the ACL call. `LeaseInv` adds that a worker in the ACL call holds the
  row's token, that the row is still before its ACL stage, that the lease outlasts the call, that the
  claim's wish is the row's when the generations agree and that the ACL is the claim's once applied;
  that no claim is of a later generation than its row; and that a fenced worker in a later stage sees
  a row past the ACL stage. The untouched lease in `Enqueue` and `ACLWindow < Lease` are what carries it.
- `ClaimantSafety`: `Spec => OnlyClaimantMoves`, from types alone: every return is fenced by token and
  generation. No run checks it by itself: the queue below says more of the same steps.
- `ReplaySafety`: `Spec => NoBlindReplay`. What a second Create rests on was written one or more claims
  earlier, so the proof needs `StageInv` (`StagesHold`): a fenced claim finds its row in the state it was
  claimed for, a row waits for a second submission only when the provider's answer on the first is
  known, and `submit_retryable` on a row in `submitting` means that the Create was refused.
- `PurgeSafety`: `Spec => []BlockedNotServed` under `~LateACL`. `PurgeInv` on top of `LeaseInv` and
  `StageInv` ties the job a row or a claim names to a purge made since the ACL of this generation was
  applied, and says that after a success of such a job the edge has no public copy. A job that merely
  falls into the reconciliation window is excluded by `young`: it cannot have ended.
- `DeliveryRefinement`: `Spec => DeliveryIsQueue`, with no assumption on leases or abandoned requests.
  `TaskStep` says the actions of `TaskQueue` of one generation; every step of the workers is a `TaskStep` of
  every generation of every image at once, and generations only grow (`TasksStep`). A fenced write is an
  `Advance` or a `Release` (`WriteTasks`). Besides `StageInv` (a
  claim is never of a later generation than its row, so a new one is in nobody's hands) it needs `LeaseOpen`:
  a worker's lease is on an open delivery only, so that giving one back never reopens a delivery. That
  rests on every write that ends a claim giving the lease back (`RetryGivesBack`, `AnswerGivesBack`,
  `RecoveredGivesBack`).

`VerificationEmailProofs`
- `TypeCorrect`.
- `PlaintextSafety`: `Spec => []PlaintextCurrent`, leases outlived included. With types it is
  inductive: each step either leaves challenge and plaintexts, or rewrites the challenge and clears
  its plaintexts (`SaveState`), or only clears and moves rows.
- `SingleSenderSafety`: `Spec => []SingleSender` for `BatchWindow < Lease`. `LeaseInv`: a worker holds,
  for longer than its batch may still take, the lease of every claim it has not decided yet, and rows
  not enqueued yet are untouched.
- `GuessSafety`: `Spec => []GuessBudget`. `GuessInv`: the persisted count equals the guesses made; the
  budget alone is not inductive, since a lost count would allow one guess more.
- `HolderSafety`: `Spec => OnlyHolderDecides`, with `RowsFresh` (rows not enqueued are untouched), and
  without any assumption on leases: the token decides, not the time. No run checks it by itself:
  `OutboxIsQueue` says more of the same steps.
- `OutboxRefinement`: `Spec => OutboxIsQueue`, again without assumptions on leases. `TaskStep` says the
  actions of `TaskQueue` of one row; each action of the outbox is a `TaskStep` of every row at once, since
  a batch is taken, and dropped by a crash, as a whole. `HandInv`: a token stands on rows being sent only
  (so that a row that is not fenced has another owner), a worker between batches has nothing in hand,
  and the row being worked on has left the batch (so that writing its outcome lets it go).

`PostModerationProofs`, from `Sound`, for any number of transactions, posts and images
- `Sound` says that locks exclude (`Apart`); that a transaction past its post locks has locked, or is
  waiting for, every image its posts show or will show (`Scoped`); that what it read of those images is still
  so: the rows, the references and the deletions (`Stable`); and that the row of an image and the posts
  that show it agree (`Agrees`). Two lemmas carry every action: `TxStep` for steps nobody else sees, and
  `CommitStep` for commits that are `Confined` to the images and posts locked. None of the properties
  below is inductive alone: each commit writes rows computed from an earlier read.
- `TypeCorrect`; `ReferenceSafety`, `DeletionSafety`, `BlockSafety`: `ReadyWhileReferenced`,
  `DeletionBlocksOrphans`, `BlockedStaysBlocked`, whatever operations are called.
- `WaitSafety`, `PublicationSafety`: `NoWaitCycle` and `PublishedPassed` when the review of a whole post is
  not among the operations. With it both fail (section 6), so the hypothesis is needed.

`ImageUploadProofs`, from `Sound`, for any images, servers, jobs and faults
- `Sound` relates image, object, retry row and sweep (`ImageSound`), the request under way
  (`RequestSound`) and what the servers hold in memory (`ClaimSound`): a claim goes back to a row that had
  attempts left, believes no verdict that is not there, and an accepted submission is an open job.
- `TypeCorrect`; `NeverForgotten`: `PendingWatched`; `ReferencesStand`: `ReferencedStored`.
- `RetryRefinement`: `Spec => RetryIsQueue`, the step simulation of `TaskQueue`: each action is a step of
  the queue or leaves its state alone.

`AccountsProofs`, from `Sound`, for any accounts, sessions, names and concurrent requests
- `Sound`: locks exclude, a request has locked what it decides on, and what it decided (`DecidedOn`: the
  password is the account's, the name is free, every open session is among the rows it revokes, ...) holds
  until it commits, because whoever could change it has to lock the same row.
- `TypeCorrect`; `SessionSafety`, `BanSafety`: `SessionProvesPassword`, `BannedHasNoSession`; `NameSafety`:
  the action property `NamesStand`.
- `WaitSafety`: `Spec => []CirclesNeedActorOrRevocation`, for circles of any length. `Ordered` adds to `Sound`
  in which order requests take their locks (`LockOrder`): user, then name, then session by id; a request that
  has yet to write the record of its decision has its target's row and no more (`RecordingOrder`), and whoever
  shares a user's row by a foreign key has a row already (`ClaimingOrder`). In a circle without a revocation
  or a waiting record, somebody waits for a row that nothing in the circle comes after.
- Assumptions: sessions and transactions are finite sets, the rows of different tables differ.

`CommentsProofs`, from `Sound`, for any comments and users and any number of overlapping requests
- `Sound`: locks exclude (`Exclusive`); a request that rewrites a comment holds its lock from the decision to
  the commit (`LockSound`), so that what it decided about stands (`DecisionSound`); a comment has a record for
  each revision, shows the latest verdict and answers a root that is no reply (`RowSound`); an id is drawn once
  (`Drawn`); the counters equal a recount; of what kept its place the reader has seen exactly what is not after
  its cursor (`WalkSound`). `begun` also bounds the requests under way, which a rollback needs.
- `TypeCorrect`; `VerdictSafety`: `VerdictCurrent`.
- `CountSafety`: `Spec => []CountsExact`. A write moves one comment, or a root with its whole floor, into or
  out of the sets a recount counts (`ReplyCounts`, `RootCounts`, with cardinalities from `FiniteSetTheorems`);
  the clamp at zero of the trigger (`Greatest`) is shown never to be needed. A reaction moves one row
  (`ReactionCommit`).
- `WaitSafety`: `Spec => []CirclesNeedReply`, for circles of any length: a rewriter waits with a lock in
  hand only for the root of its reply, then for the post, and a root has no root.
- `PageSafety`: `Spec => []PagesExact`. The keys are in a strict total order (`KeyOrder`), so a list that is
  not empty has exactly one first comment (`FirstExists`, by well-founded induction on finite subsets), and
  all that kept its place and is not past the new cursor was delivered (`DeliverSound`).
- Assumptions: the rows of users, comments and the post differ, `None` is no row and no cursor.

`CatalogProofs`, from `Sound`, for any names, ids and concurrent requests
- `TypeCorrect`; `SnapshotSafety`: `Spec => []SnapshotCurrent`: the snapshot of the current revision names the
  tags and items the post has. It is not inductive: a rename writes the snapshots of the posts it found when
  it had the tag, and a restored revision is resolved against rows read earlier. `Sound` adds, for each kind
  of request, what it read and may still rely on because it holds the lock (`SuggestSound`, `ApproveSound`
  with `CanteenSound`, `TagSound` with `NamesSound`, `WriteSound`): a rename knows every post that shows its
  tag, a write has locked against deletion and renaming what it refers to. It also has the foreign keys
  (`KeysSound`), that locks exclude (`Exclusive`) and that two submissions never have one id (`Drawn`).
  `OthersStand` frames the steps of one request against the others; `PostWritten` and `TagCommit` carry the
  commits.
- `WaitSafety`: `Spec => []OrderedNeverCircle`, for circles of any length. Approvals, merges, renames of tags
  up to their last lock and suggestions without a parent take their locks in one order (`Rank`, `Before`,
  `InOrder`: kinds of rows, then ids, a window before its canteen), so each waits only for what comes after
  all it holds (`WaitsInOrder`). If somebody in the circle waits for the name of a tag, the one who holds it
  is a rename that waits for its own new name (`RenameWaits`), and so on: names go round (`RenamesGoRound`).
  Otherwise one of the rows waited for has none after it among them (`NoEndlessOrder`), and the one who holds
  it waits for a later one. What the statement excepts can wait in a circle (section 6): an author's write, a
  window below a suggested canteen, the renaming or deletion of an item (`HeldRow`, `ItemHeld` say what those
  hold).
- Assumptions: ids are naturals, the bounds are, `None` is none of the names and rows.

`LegacyImportProofs`, from `Sound`, for any dumps, any number of commands and any writes of the application
- `ThreadSafety`: `Spec => []ThreadsKept`. The threads come from recursive functions (`findOriginalRoot`,
  `transformComments`). That functions with these equations exist is proved by adding one argument at a time
  (`ClimbExists`, `CommentsExist`, from `Naturally`, an induction over a *set* of naturals, since a theorem
  cannot take the induction hypothesis as an operator). Then the root of a comment is the one comment without
  parent above it (`RootSound`, `RootUnique`), an accepted reply answers an earlier one of the same thread
  (`ChosenSound`), and a thread counts what is under its root (`ThreadsArrive`).
- `ApplicationSafety`: `Spec => []ApplicationIntact`. The invariant says nothing about why. `Sound` says that,
  as long as nobody overlapped: the plan of a command is what its source and the dictionaries of the target
  say *now*, and stays so when another command commits the same historical names (`HistoricalSame`); past its
  checks it meets no user of the application, because it found none, or only planned ones; a transaction that
  writes has the target in its snapshot, because a commit since fails it (`SnapSound`, `WriteSound`); and the
  sequences are past every row and every row about to be inserted (`SequenceSound`). The exception (`Adopted`)
  is the cuisine an administrator created under the historical name and identity: the plan has the same name
  for it (`Agree`), so name and identity stay and the other columns do not.
- `TypeCorrect`: with `Counted` (every command under way is a run not yet counted as an import).
- Assumptions: the tables of a dump and the lists of names are sequences, there are finitely many processes, and
  `None` is no process, no name and no row.

Only model-checked:
- liveness (`Settles`, `PlaintextGone`, `RetrySettles`): it needs fairness and ENABLED, beyond the prover;
- `ReimportAccepted` is false (section 6);
- `ACLConverged` and `SingleSender` beyond the stated assumptions are false, not unproved.

## 6. Where code and documents disagree

`legacy_reimport` is a run that TLC must find violated; its trace is the story: an import with posts writes the
initial versions into `post_histories` and `comment_histories` (`writeInitialContentVersions`), and
`verifyUntouchedTables` demands that these tables are empty, so `verify` and a repeated import always refuse a
target that was just imported. `docs/operations/legacy-data-import.md:10` says it may be repeated, and the
integration test (`import_integration_test.go:80`, `:87`) expects it.

The models reach further stories that the documents speak against. They have no run of their own; each is what
is left of a property that had to be narrowed or dropped:

- image access: an empty reconciliation inside the grace period overwrites `submit_retryable` with
  `submit_unknown` (`image_access_worker.go:311`), so that a refused Create is dead-lettered though submissions
  are left; `docs/image-hosting.md:167` promises a retry after a confirmed refusal.
- verification codes: `SendVerificationCode` looks the account up (`auth.go:200`) before it locks the
  challenge; a `Register` in between leaves a deliverable code for a registered address, against
  `docs/architecture.md:593`.
- posts: the review of a whole post publishes *other* pending posts on images it has read and not locked
  (`repository/moderation.go:342`); a callback that blocks one of them meanwhile is overlooked. Add
  `reviewPost` to the operations of `post_publish` and `PublishedPassed` fails.
- posts: a callback selects the pending posts (`moderation_callback.go:488`) before it waits for the image; a
  post created meanwhile is not re-evaluated and stays pending although everything passed (an edit by its author
  still frees it), against `docs/image-hosting.md:152`.
- posts: a deletion blocks a not yet reviewed image, and restoring a revision turns that block into a pass and
  publishes the post (`admin_content.go:206`), against `docs/image-hosting.md:150`. The record of `RestorePost`
  (`admin_content.go:288`) does the same for a text in review, and hides an open text record without any
  concurrency.
- comments: a reviewer's verdict clears `deleted_at` whatever the reason (`repository/moderation.go:411`), so
  a comment its author or an administrator deleted comes back; `admin_content.go:147` restores only what
  moderation removed.
- catalog: a rename, merge or approved suggestion gives a pending post a revision without a moderation record
  (`admin_tags.go:275`, `dictionary.go:560`); the post is then out of the queue and can be neither approved nor
  rejected until its author edits it, against `docs/product-requirements.md:298-300`. A merge also drops a tag
  that an author attaches at the same moment (`:191`).
- lock order: `docs/architecture.md:489` asks for one order on all editing paths, `auth.go:553` for business
  rows before session rows. `CirclesNeedReply`, `CirclesNeedActorOrRevocation` and `OrderedNeverCircle` say
  where circles are still possible. PostgreSQL aborts a victim (`Rollback`); nothing is lost. They are:
  - the creation of a reply, which has the post before the comment;
  - kicks, logouts of all devices and mutual bans;
  - two super administrators who change each other's roles, two reviewers who judge each other's names, or one
    of each (also with a ban): each holds its target FOR UPDATE and its record needs the row of its actor;
  - an author's write against tag changes, since it locks its tags last, and against nested suggestions;
  - the deletion of an item against an approval: the DELETE (`repository/dictionary.go:199`) holds the canteen
    while its checks wait for the suggestion or the post, which the approval holds (`:165`, `:180`) while it
    inserts a window there;
  - renames of dictionary items that swap names, and two or more renames of tags that hand their names on in a
    circle.
- images: `docs/image-hosting.md:198-200` has the author's deletion of a post release its images and the
  administrator's keep them; both keep them and block those no undeleted post shows (`post_write.go:344`). It
  also says that `deleted_reason=admin` cannot be restored, as does `docs/product-requirements.md:393`;
  `isRestorablePostDeletion` (`admin_content.go:172`) accepts all three reasons.
- importer: the check for business rows precedes the writing transaction and setval does not roll back, so
  nothing protects an application that writes while the command runs (`ApplicationIntact` says so). Without
  any overlap, too, a cuisine that an administrator made under a historical name and the expected id is
  overwritten: `is_active`, `sort_order` and `created_at` are the import's afterwards (`import.go:150-154`),
  since the dictionaries are not among the business rows the command looks for. Name and id stay; this is the
  one exception `ApplicationIntact` makes.

Two more are reached by changing constants: `ACLConverged` fails with `LateACL = TRUE` (a timed-out ACL
request gives its lease back and may still be applied after the next generation's; `docs/image-hosting.md:161`
claims convergence), and `NoWaitCycle` fails when `reviewPost` is among the operations, since
`applyPostManualVerdict` updates other posts after it locked images (`post_relations.go:190`). Two behaviours of
the image worker have no property: healthy polls use up the budget of failed ones
(`image_access_worker.go:341`), and a 403 cached between a first pass and the ACL change outlives the delivery,
since only a previous block or review asks for a purge.

## 7. Plan

Modelled in the order of value: publication and access, the two outboxes, uploads, identity, discussion,
catalog, import. What is left is the composition of `ImageUpload` with the verdict actions of
`PostModeration`, which now share the callback by its effect on an image only.

## 8. Not modelled, and why

Reading sides (lists other than comments, search, views, statistics) are queries over committed rows. Backlog
alerting decides one comparison under one locked row; after-commit alerts are a list of callbacks without
state of their own. Money, time and password helpers are stateless and unit-tested. Handlers, router, error
envelopes and the in-flight limit decode and refuse; configuration is read once; metrics and traces observe.
The Tencent adapters are I/O: what the code relies on appears as external actions. Server and job processes
appear as crashes and fairness. Migrations run before the server starts (their triggers and constraints are
part of the actions); OpenAPI tooling runs at build time.

Within modelled components: URL checks, paging and rate gates of the EdgeOne adapter, view counts of posts,
bios and other profile fields with their verdicts, the lifetime of access tokens, the cursors' encoding and
signature, and in the importer prices, view counts, the decoding of JSON columns, JavaScript-safe ids,
source-flavor comparison, reports and DSN checks are left out. A share post with `preferences` that are there
but empty is refused by the importer and accepted by the model, which has flavors only. `Complete` of
`ImageUpload` has one refusal where the code has two (no object, an object that does not pass and is deleted):
there is none afterwards in either case.
