-------------------------- MODULE VerificationEmail --------------------------
(***************************************************************************)
(* Verification codes and their delivery by mail.  A request issues a code:*)
(* it rewrites the challenge of (purpose, email) and appends a row to the  *)
(* outbox in one transaction.  Workers claim due rows in batches under a   *)
(* lease, re-read the challenge before each mail, call the provider outside*)
(* any transaction and write the outcome fenced by state and lease token.  *)
(* Register and ResetPassword consume the code; a wrong code is counted in *)
(* a transaction that commits although its request fails.                  *)
(*                                                                         *)
(* Instants are count-down timers.  A digest is the code it is the HMAC of,*)
(* or None where it matches no code (the zero digest of a new row, the     *)
(* random digest of a request that is answered but not served), and a row's*)
(* code column holds either the code of its digest or NULL.  Requests that *)
(* are refused or rolled back change nothing and are not actions.          *)
(***************************************************************************)
EXTENDS Naturals, FiniteSets

CONSTANTS
    Email, Code, None,
    Purpose,          \* bound: the purposes that occur
    Worker,           \* processes that run batches; also their lease tokens
    Orphan,           \* the token of a batch that was given up
    TTL, Cooldown, Window,    \* verificationCodeTTL, SendCooldown, SendWindow
    MaxSends, MaxFailed,      \* maxSendsPerWindow, maxFailedAttempts
    Batch, Lease, MaxAttempts, RetryBase, RetryCap,
    BatchWindow,      \* latest end of a batch, counted from its claim
    MaxDeliveries,    \* bound: rows of the outbox
    MaxCrashes        \* bound: batches given up half-way

ASSUME NumbersAssumption ==
    /\ {TTL, Cooldown, Window, MaxSends, MaxFailed} \subseteq Nat
    /\ {Batch, Lease, MaxAttempts, RetryBase, RetryCap, BatchWindow} \subseteq Nat
    /\ MaxDeliveries \in Nat /\ MaxCrashes \in Nat
    /\ MaxFailed > 0
ASSUME PurposeAssumption == Purpose \subseteq {"registration", "password_reset"}
ASSUME NullAssumption == None \notin Worker \cup Code /\ Orphan \notin Worker \cup {None}

VARIABLES
    account,  \* users, by email
    asked,    \* what a SendVerificationCode under way has read about the account
    chal,     \* email_verification_codes
    dl,       \* verification_email_deliveries
    count,    \* rows of the outbox so far
    wk,       \* batch workers
    crashes

vars == <<account, asked, chal, dl, count, wk, crashes>>

Key == Purpose \X Email
Registration(e) == <<"registration", e>>
Reset(e) == <<"password_reset", e>>
Id == 1 .. MaxDeliveries
Final == {"sent", "canceled", "dead_letter"}

(* guesses is history: wrong codes tried against the code now issued. *)
Challenge ==
    [digest : Code \cup {None}, ttl : Nat, cool : Nat, window : Nat, sends : Nat,
     failed : Nat, consumed : BOOLEAN, guesses : Nat]

Delivery ==
    [key : Key \cup {None}, digest : Code \cup {None}, code : BOOLEAN,
     state : {"none", "pending", "sending"} \cup Final, attempts : Nat,
     nextIn : Nat, token : Worker \cup {None, Orphan}, leaseIn : Nat,
     err : {"none", "stale_challenge", "provider_error", "delivery_exhausted"}]

Busy == [pc : {"idle", "batch", "cancel", "send"}, batch : SUBSET Id, cur : Id \cup {None}, left : Nat]

TypeOK ==
    /\ account \in [Email -> {"none", "active", "deleted"}]
    /\ asked \in [Email -> {"no", "free", "taken"}]
    /\ chal \in [Key -> Challenge]
    /\ dl \in [Id -> Delivery]
    /\ count \in 0 .. MaxDeliveries
    /\ \A d \in Id : dl[d].state # "none" \/ dl[d].code => dl[d].key \in Key
    /\ wk \in [Worker -> Busy]
    /\ \A w \in Worker : wk[w].pc \in {"cancel", "send"} => wk[w].cur \in Id
    /\ crashes \in Nat

NoChallenge ==
    [digest |-> None, ttl |-> 0, cool |-> 0, window |-> 0, sends |-> 0,
     failed |-> 0, consumed |-> FALSE, guesses |-> 0]

NoDelivery ==
    [key |-> None, digest |-> None, code |-> FALSE, state |-> "none", attempts |-> 0,
     nextIn |-> 0, token |-> None, leaseIn |-> 0, err |-> "none"]

Idle == [pc |-> "idle", batch |-> {}, cur |-> None, left |-> 0]

Init ==
    /\ account \in [Email -> {"none", "active"}]
    /\ asked = [e \in Email |-> "no"]
    /\ chal = [k \in Key |-> NoChallenge]
    /\ dl = [d \in Id |-> NoDelivery]
    /\ count = 0
    /\ wk = [w \in Worker |-> Idle]
    /\ crashes = 0

-----------------------------------------------------------------------------
(* Issuing a code. *)

enforceSendRate(c) == c.cool = 0 /\ (c.window = 0 \/ c.sends < MaxSends)

Issued(c, digest) ==
    [digest |-> digest, ttl |-> TTL, cool |-> Cooldown,
     window |-> IF c.window = 0 THEN Window ELSE c.window,
     sends |-> IF c.window = 0 THEN 1 ELSE c.sends + 1,
     failed |-> 0, consumed |-> FALSE, guesses |-> 0]

Usable(c) == ~c.consumed /\ c.ttl > 0 /\ c.failed < MaxFailed

(* fault: only a replaced code is cleared, not a consumed or exhausted one *)
Cleared_Mutant(k, c) ==
    [d \in Id |-> IF dl[d].key = k /\ dl[d].digest # c.digest
                  THEN [dl[d] EXCEPT !.code = FALSE] ELSE dl[d]]

(* What SaveState leaves of the plaintext codes of challenge k, now c. *)
Cleared(k, c) ==
    [d \in Id |-> IF dl[d].key = k /\ (Usable(c) => dl[d].digest # c.digest)
                  THEN [dl[d] EXCEPT !.code = FALSE] ELSE dl[d]]

SaveState(k, c) ==
    /\ chal' = [chal EXCEPT ![k] = c]
    /\ dl' = Cleared(k, c)

Enqueued(k, code) ==
    [NoDelivery EXCEPT !.key = k, !.digest = code, !.code = TRUE, !.state = "pending"]

(* Rewrite the challenge and, where the request is served, append the mail. *)
Issue(k, code, served) ==
    /\ enforceSendRate(chal[k])
    /\ IF served
       THEN /\ count < MaxDeliveries
            /\ count' = count + 1
            /\ chal' = [chal EXCEPT ![k] = Issued(chal[k], code)]
            /\ dl' = [Cleared(k, Issued(chal[k], code)) EXCEPT ![count + 1] = Enqueued(k, code)]
       ELSE /\ SaveState(k, Issued(chal[k], None))
            /\ count' = count
    /\ UNCHANGED <<account, wk, crashes>>

(* SendVerificationCode looks the account up before it locks the challenge. *)
FindByEmail(e) ==
    /\ Registration(e) \in Key
    /\ asked[e] = "no"
    /\ asked' = [asked EXCEPT ![e] = IF account[e] = "none" THEN "free" ELSE "taken"]
    /\ UNCHANGED <<account, chal, dl, count, wk, crashes>>

SendVerificationCode(e, code) ==
    /\ Registration(e) \in Key
    /\ asked[e] # "no"
    /\ asked' = [asked EXCEPT ![e] = "no"]
    /\ \/ Issue(Registration(e), code, asked[e] = "free")
       \/ /\ ~enforceSendRate(chal[Registration(e)])
          /\ UNCHANGED <<account, chal, dl, count, wk, crashes>>

(* The account row stays locked until the commit. *)
SendPasswordResetCode(e, code) ==
    /\ Reset(e) \in Key
    /\ Issue(Reset(e), code, account[e] = "active")
    /\ UNCHANGED asked

-----------------------------------------------------------------------------
(* Using a code. *)

(* fault: the failure is rolled back with the request *)
Missed_Mutant(c) == [c EXCEPT !.guesses = @ + 1]

Missed(c) == [c EXCEPT !.failed = @ + 1, !.guesses = @ + 1]

Reachable(k) ==
    IF k[1] = "registration" THEN account[k[2]] = "none" ELSE account[k[2]] = "active"

consumeVerification_wrong(k) ==
    /\ Reachable(k)
    /\ Usable(chal[k])
    /\ SaveState(k, Missed(chal[k]))
    /\ UNCHANGED <<account, asked, count, wk, crashes>>

consumeVerification(k) ==
    /\ k \in Key
    /\ Reachable(k)
    /\ Usable(chal[k])
    /\ chal[k].digest # None
    /\ SaveState(k, [chal[k] EXCEPT !.consumed = TRUE])

Register(e) ==
    /\ consumeVerification(Registration(e))
    /\ account' = [account EXCEPT ![e] = "active"]
    /\ UNCHANGED <<asked, count, wk, crashes>>

ResetPassword(e) ==
    /\ consumeVerification(Reset(e))
    /\ UNCHANGED <<account, asked, count, wk, crashes>>

Delete(e) ==
    /\ account[e] = "active"
    /\ account' = [account EXCEPT ![e] = "deleted"]
    /\ UNCHANGED <<asked, chal, dl, count, wk, crashes>>

-----------------------------------------------------------------------------
(* The batch worker. *)

(* fault: a row left in sending is not taken up again *)
Due_Mutant(d) == dl[d].state = "pending" /\ dl[d].nextIn = 0 /\ dl[d].leaseIn = 0

(* fault: a running lease does not keep the row from a second batch *)
Due_Unleased(d) == dl[d].state \in {"pending", "sending"} /\ dl[d].nextIn = 0

Due(d) == dl[d].state \in {"pending", "sending"} /\ dl[d].nextIn = 0 /\ dl[d].leaseIn = 0

(* fault: the mails already sent keep their code *)
Invalid_Mutant(d) ==
    LET c == chal[dl[d].key] IN
    dl[d].code /\ dl[d].state # "sent" /\ (~Usable(c) \/ c.digest # dl[d].digest)

Invalid(d) ==
    LET c == chal[dl[d].key] IN
    dl[d].code /\ (~Usable(c) \/ c.digest # dl[d].digest)

(* The oldest 10 * Batch invalid codes. *)
ClearInvalidCodes(d) ==
    Invalid(d) /\ Cardinality({x \in Id : x < d /\ Invalid(x)}) < 10 * Batch

Claimed(r, w) == [r EXCEPT !.state = "sending", !.token = w, !.leaseIn = Lease]

RunBatch(w, claims) ==
    /\ wk[w].pc = "idle"
    /\ claims \subseteq {d \in Id : Due(d)}
    /\ \/ Cardinality(claims) = Batch
       \/ Cardinality(claims) < Batch /\ claims = {d \in Id : Due(d)}
    /\ dl' = [d \in Id |->
                 LET r == IF ClearInvalidCodes(d) THEN [dl[d] EXCEPT !.code = FALSE] ELSE dl[d]
                 IN  IF d \in claims THEN Claimed(r, w) ELSE r]
    /\ wk' = IF claims = {} THEN wk
             ELSE [wk EXCEPT ![w] = [pc |-> "batch", batch |-> claims, cur |-> None,
                                     left |-> BatchWindow]]
    /\ UNCHANGED <<account, asked, chal, count, crashes>>

Current(d) ==
    LET k == dl[d].key IN
    /\ dl[d].code
    /\ chal[k].digest = dl[d].digest
    /\ Usable(chal[k])
    /\ k[1] = "password_reset" => account[k[2]] = "active"

Owned(w, d) == dl[d].state = "sending" /\ dl[d].token = w /\ dl[d].leaseIn > 0

(* Re-read the row, the challenge and the account; decide what to do with the row. *)
RefreshClaim(w, d) ==
    /\ wk[w].pc = "batch"
    /\ d \in wk[w].batch
    /\ wk' = [wk EXCEPT ![w].batch = @ \ {d}, ![w].cur = d,
                        ![w].pc = IF ~Owned(w, d) THEN "batch"
                                  ELSE IF Current(d) THEN "send" ELSE "cancel"]
    /\ UNCHANGED <<account, asked, chal, dl, count, crashes>>

EndBatch(w) ==
    /\ wk[w].pc = "batch"
    /\ wk[w].batch = {}
    /\ wk' = [wk EXCEPT ![w] = Idle]
    /\ UNCHANGED <<account, asked, chal, dl, count, crashes>>

(* fault: the lease token is not compared *)
Fenced_Mutant(w) == dl[wk[w].cur].state = "sending"

Fenced(w) == dl[wk[w].cur].state = "sending" /\ dl[wk[w].cur].token = w

(* One short transaction; an update that hits no row is skipped. *)
UpdateClaim(w, r) ==
    /\ dl' = IF Fenced(w) THEN [dl EXCEPT ![wk[w].cur] = r] ELSE dl
    /\ wk' = [wk EXCEPT ![w].pc = "batch"]
    /\ UNCHANGED <<account, asked, chal, count, crashes>>

Ended(r, state, code) ==
    [r EXCEPT !.state = state, !.token = None, !.leaseIn = 0, !.nextIn = 0, !.err = code]

Cancel(w) ==
    /\ wk[w].pc = "cancel"
    /\ UpdateClaim(w, [Ended(dl[wk[w].cur], "canceled", "stale_challenge") EXCEPT !.code = FALSE])

Sent(w) ==
    /\ wk[w].pc = "send"
    /\ UpdateClaim(w, Ended(dl[wk[w].cur], "sent", "none"))

Doubling[n \in Nat] == IF n = 0 THEN 1 ELSE 2 * Doubling[n - 1]

retryDelay(attempts) ==
    LET delay == RetryBase * Doubling[IF attempts < 1 THEN 0 ELSE attempts - 1]
    IN  IF delay \in 0 .. RetryCap THEN delay ELSE RetryCap

(* fault: last_error_code outside the migration's whitelist *)
deadLetter_Mutant(r) ==
    [Ended(r, "dead_letter", "dead") EXCEPT !.attempts = @ + 1, !.code = FALSE]

deadLetter(r) ==
    [Ended(r, "dead_letter", "delivery_exhausted") EXCEPT !.attempts = @ + 1, !.code = FALSE]

Failed(r) ==
    IF r.attempts + 1 >= MaxAttempts
    THEN deadLetter(r)
    ELSE [Ended(r, "pending", "provider_error")
            EXCEPT !.attempts = @ + 1, !.nextIn = retryDelay(r.attempts + 1)]

(* The provider refused, or did not answer in time: it may have sent the mail. *)
SendFailed(w) ==
    /\ wk[w].pc = "send"
    /\ UpdateClaim(w, Failed(dl[wk[w].cur]))

(* The process dies, or a transaction of the batch fails: the claims keep   *)
(* their lease.                                                              *)
Crash(w) ==
    /\ wk[w].pc # "idle"
    /\ crashes < MaxCrashes
    /\ crashes' = crashes + 1
    /\ dl' = [d \in Id |-> IF dl[d].token = w THEN [dl[d] EXCEPT !.token = Orphan] ELSE dl[d]]
    /\ wk' = [wk EXCEPT ![w] = Idle]
    /\ UNCHANGED <<account, asked, chal, count>>

Down(n) == IF n > 0 THEN n - 1 ELSE 0

Tick ==
    /\ \A w \in Worker : wk[w].pc # "idle" => wk[w].left > 0
    /\ chal' = [k \in Key |-> [chal[k] EXCEPT !.ttl = Down(@), !.cool = Down(@), !.window = Down(@)]]
    /\ dl' = [d \in Id |-> [dl[d] EXCEPT !.nextIn = Down(@), !.leaseIn = Down(@)]]
    /\ wk' = [w \in Worker |-> [wk[w] EXCEPT !.left = Down(@)]]
    /\ UNCHANGED <<account, asked, count, crashes>>

-----------------------------------------------------------------------------
Step(w) ==
    \/ \E d \in Id : RefreshClaim(w, d)
    \/ EndBatch(w)
    \/ Cancel(w)
    \/ Sent(w)
    \/ SendFailed(w)

Next ==
    \/ \E e \in Email : FindByEmail(e)
    \/ \E e \in Email, code \in Code : SendVerificationCode(e, code)
    \/ \E e \in Email, code \in Code : SendPasswordResetCode(e, code)
    \/ \E k \in Key : consumeVerification_wrong(k)
    \/ \E e \in Email : Register(e)
    \/ \E e \in Email : ResetPassword(e)
    \/ \E e \in Email : Delete(e)
    \/ \E w \in Worker, claims \in SUBSET Id : RunBatch(w, claims)
    \/ \E w \in Worker : Step(w)
    \/ \E w \in Worker : Crash(w)
    \/ Tick

Spec == Init /\ [][Next]_vars

(***************************************************************************)
(* Run wakes up every second and scans, every step of a batch returns (the *)
(* provider call within its timeout), and time passes.  Nothing is assumed *)
(* of the provider's answers or of the users.                              *)
(***************************************************************************)
FairSpec ==
    /\ Spec
    /\ \A w \in Worker : WF_vars(\E claims \in SUBSET Id : RunBatch(w, claims))
    /\ \A w \in Worker : WF_vars(Step(w))
    /\ WF_vars(Tick)

-----------------------------------------------------------------------------
(* A plaintext code in the outbox is the code its challenge now accepts, the *)
(* passing of its ten minutes apart: a replaced, consumed or exhausted code  *)
(* is cleared in the transaction that ends it (SaveState, Enqueue).          *)
PlaintextCurrent ==
    \A d \in Id : dl[d].code =>
        LET c == chal[dl[d].key] IN
        c.digest = dl[d].digest /\ ~c.consumed /\ c.failed < MaxFailed

(* Whoever calls the provider for a row holds the row's lease: no two workers *)
(* send the same mail at once and a finished row is not sent again, as long  *)
(* as a batch ends within its lease (ClaimDue, RefreshClaim, UpdateClaim).   *)
SingleSender ==
    \A w \in Worker : wk[w].pc = "send" => Fenced(w)

(* Only the worker that holds a row's lease decides the row, even when its   *)
(* batch outlives the lease and another worker takes over (UpdateClaim).     *)
OnlyHolderDecides ==
    [][\A d \in Id :
          dl[d].state = "sending" /\ dl'[d].state # "sending"
              => \E w \in Worker : dl[d].token = w /\ wk[w].cur = d /\ wk[w].pc \in {"cancel", "send"}]_vars

(* A row is in a worker's hand from the claim until its outcome is written or *)
(* the worker drops it.                                                      *)
InHand(w, d) ==
    \/ d \in wk[w].batch
    \/ wk[w].cur = d /\ wk[w].pc \in {"cancel", "send"}

Holds(w, d) == dl[d].token = w /\ InHand(w, d)

(* A row as a task of the abstract queue. *)
Phase(d) == IF dl[d].state = "sending" THEN "pending" ELSE dl[d].state

Owner(d) == IF \E w \in Worker : Holds(w, d) THEN dl[d].token ELSE None

Hands(d) == {w \in Worker : InHand(w, d)}

Queue == INSTANCE TaskQueue WITH
    Task <- Id,
    Open <- {"pending"},
    Closed <- Final,
    state <- [d \in Id |-> Phase(d)],
    owner <- [d \in Id |-> Owner(d)],
    busy <- [d \in Id |-> Hands(d)],
    decided <- {}

(* ClaimDue, RefreshClaim, UpdateClaim: the rows of the outbox are tasks of   *)
(* the abstract queue: no row is given back or finished but by the worker     *)
(* that claimed it last, none is taken by a worker that still has it in hand, *)
(* and none is taken up again once it was finished, also when batches outlive *)
(* their leases and workers die.                                             *)
OutboxIsQueue == Queue!Spec

(* No code is compared with more than MaxFailed wrong guesses, though the    *)
(* requests that made them failed (persistedError, UnitOfWork).              *)
GuessBudget == \A k \in Key : chal[k].guesses <= MaxFailed

(* No plaintext stays for ever, of mails already sent included               *)
(* (ClearInvalidCodes).                                                      *)
PlaintextGone == \A d \in Id : dl[d].code ~> ~dl[d].code

(* Every mail is sent, canceled or dead-lettered, whatever crashes and the   *)
(* provider do (RunBatch).                                                   *)
Settles == \A d \in Id : dl[d].state \in {"pending", "sending"} ~> dl[d].state \in Final
=============================================================================
