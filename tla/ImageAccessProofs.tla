-------------------------- MODULE ImageAccessProofs --------------------------
(***************************************************************************)
(* Proofs about ImageAccess for every set of images, workers and jobs and  *)
(* every value of the budgets and timers.                                  *)
(***************************************************************************)
EXTENDS ImageAccess, FiniteSetTheorems, TLAPS

-----------------------------------------------------------------------------
(* What the row updates return. *)

(* The row writes of the worker keep the row well typed. *)
LEMMA BackoffType == \A n \in Nat : retryBackoff(n) \in Nat
  BY BudgetAssumption DEF retryBackoff

(* schedule rewrites only state, timer, lease and error code. *)
LEMMA ScheduleType ==
  ASSUME NEW r \in Delivery, NEW st \in State, NEW d \in Nat, NEW c \in ErrorCode
  PROVE  /\ schedule(r, st, d, c) \in Delivery
         /\ schedule(r, st, d, c).gen = r.gen
         /\ schedule(r, st, d, c).desired = r.desired
         /\ schedule(r, st, d, c).state = st
         /\ schedule(r, st, d, c).token = None
  BY DEF schedule, Unleased, Delivery

(* succeed and dead rewrite only state, timer, lease and error code. *)
LEMMA FinalType ==
  ASSUME NEW r \in Delivery, NEW c \in ErrorCode
  PROVE  /\ succeed(r) \in Delivery
         /\ succeed(r).gen = r.gen /\ succeed(r).desired = r.desired
         /\ succeed(r).state = "succeeded" /\ succeed(r).token = None
         /\ dead(r, c) \in Delivery
         /\ dead(r, c).gen = r.gen /\ dead(r, c).desired = r.desired
         /\ dead(r, c).state = "dead_letter" /\ dead(r, c).token = None
<1>1. "none" \in ErrorCode /\ "succeeded" \in State /\ "dead_letter" \in State
  BY DEF ErrorCode, State, PastACL
<1>2. /\ succeed(r) \in Delivery
      /\ succeed(r).gen = r.gen /\ succeed(r).desired = r.desired
      /\ succeed(r).state = "succeeded" /\ succeed(r).token = None
  BY <1>1 DEF succeed, Unleased, Delivery
<1>3. /\ dead(r, c) \in Delivery
      /\ dead(r, c).gen = r.gen /\ dead(r, c).desired = r.desired
      /\ dead(r, c).state = "dead_letter" /\ dead(r, c).token = None
  BY <1>1 DEF dead, Unleased, Delivery
<1> QED  BY <1>2, <1>3

(* A row r2 written by the holder of r keeps generation and wish, and keeps  *)
(* or gives back the lease.                                                  *)
Kept(r, r2) ==
    /\ r2 \in Delivery
    /\ r2.gen = r.gen /\ r2.desired = r.desired
    /\ r2.token \in {None, r.token}

(* ... and its state is past the ACL stage or dead_letter. *)
Advanced(r, r2) == Kept(r, r2) /\ r2.state \in PastACL \cup {"dead_letter"}

(* A retry of the submission keeps generation and wish. *)
LEMMA RetryAdvances ==
  ASSUME NEW r \in Delivery, NEW c \in ErrorCode,
         NEW how \in {"none", "open", "rejected", "failed", "timeout"}
  PROVE  Advanced(r, retrySubmission(r, c, how))
<1>1. CASE r.submits >= MaxSubmissions
  <2>1. retrySubmission(r, c, how) = dead(r, "submit_exhausted")
    BY <1>1 DEF retrySubmission
  <2>2. "submit_exhausted" \in ErrorCode  BY DEF ErrorCode
  <2> QED  BY <2>1, <2>2, FinalType DEF Kept, Advanced
<1>2. CASE ~(r.submits >= MaxSubmissions)
  <2> DEFINE d == retryBackoff(r.submits)
             s == schedule(r, "pending_submit", d, c)
  <2>1. d \in Nat  BY BackoffType DEF Delivery
  <2>2. s \in Delivery /\ s.gen = r.gen /\ s.desired = r.desired /\ s.state = "pending_submit" /\ s.token = None
    <3> HIDE DEF d
    <3> QED  BY <2>1, ScheduleType DEF State, PastACL
  <2>3. retrySubmission(r, c, how) =
          [s EXCEPT !.job = None, !.age = 0, !.polls = 0, !.unknown = 0,
                    !.create = how]
    BY <1>2 DEF retrySubmission
  <2> DEFINE t == retrySubmission(r, c, how)
  <2> HIDE DEF s
  <2>4. t \in Delivery
    <3> DEFINE u == [s EXCEPT !.job = None, !.age = 0, !.polls = 0]
    <3>1. u \in Delivery
      BY <2>2 DEF Delivery
    <3>2. t = [u EXCEPT !.unknown = 0, !.create = how]
      BY <2>3
    <3> HIDE DEF u, t
    <3>3. [u EXCEPT !.unknown = 0, !.create = how] \in Delivery
      BY <3>1 DEF Delivery
    <3> QED  BY <3>2, <3>3
  <2>5. t.gen = s.gen /\ t.desired = s.desired /\ t.state = s.state /\ t.token = s.token
    BY <2>2, <2>3 DEF Delivery
  <2> QED  BY <2>2, <2>4, <2>5 DEF Kept, Advanced, PastACL
<1> QED  BY <1>1, <1>2

(* A reconciliation that found nothing keeps generation and wish. *)
LEMMA UnknownAdvances ==
  ASSUME NEW r \in Delivery, NEW c \in ErrorCode
  PROVE  Advanced(r, scheduleUnknown(r, c))
<1>1. CASE r.unknown + 1 >= MaxUnknownChecks
  <2>1. scheduleUnknown(r, c) = dead(r, "discover_exhausted")
    BY <1>1 DEF scheduleUnknown
  <2>2. "discover_exhausted" \in ErrorCode  BY DEF ErrorCode
  <2> QED  BY <2>1, <2>2, FinalType DEF Kept, Advanced
<1>2. CASE ~(r.unknown + 1 >= MaxUnknownChecks)
  <2> DEFINE d == retryBackoff(r.unknown + 1)
             s == schedule(r, "submitting", d, c)
  <2>1. d \in Nat  BY BackoffType DEF Delivery
  <2>2. s \in Delivery /\ s.gen = r.gen /\ s.desired = r.desired /\ s.state = "submitting" /\ s.token = None
    <3> HIDE DEF d
    <3> QED  BY <2>1, ScheduleType DEF State, PastACL
  <2>3. scheduleUnknown(r, c) = [s EXCEPT !.unknown = @ + 1]
    BY <1>2 DEF scheduleUnknown
  <2> HIDE DEF s
  <2> QED  BY <2>2, <2>3 DEF Kept, Advanced, Delivery, PastACL
<1> QED  BY <1>1, <1>2

(* Starting a submission. *)
LEMMA StartAdvances ==
  ASSUME NEW r \in Delivery
  PROVE  Advanced(r, Started(r)) /\ Started(r).state \in PastACL
<1>1. Advanced(r, Started(r)) /\ Started(r).state \in PastACL
  <2> DEFINE u == [r EXCEPT !.state = "submitting", !.submits = @ + 1, !.age = 0, !.nextIn = FixedDelay]
  <2>1. "submitting" \in State /\ "none" \in ErrorCode  BY DEF State, PastACL, ErrorCode
  <2>2. FixedDelay \in Nat /\ r.submits + 1 \in Nat  BY BudgetAssumption DEF Delivery
  <2>3. u \in Delivery  BY <2>1, <2>2 DEF Delivery
  <2>4. u.gen = r.gen /\ u.desired = r.desired /\ u.state = "submitting" /\ u.token = r.token
    BY DEF Delivery
  <2>5. Started(r) = [u EXCEPT !.err = "none", !.create = "open", !.seen = "none"]
    BY DEF Started
  <2> HIDE DEF u
  <2>6. Started(r) \in Delivery
    <3>1. [u EXCEPT !.err = "none", !.create = "open", !.seen = "none"] \in Delivery
      BY <2>1, <2>3 DEF Delivery
    <3> QED  BY <2>5, <3>1
  <2>7. Started(r).gen = u.gen /\ Started(r).desired = u.desired
        /\ Started(r).state = u.state /\ Started(r).token = u.token
    BY <2>3, <2>5 DEF Delivery
  <2> QED  BY <2>4, <2>6, <2>7 DEF Kept, Advanced, PastACL
<1> QED  BY <1>1

(* Learning the job that a submission created. *)
LEMMA SubmitAdvances ==
  ASSUME TypeOK, NEW r \in Delivery, NEW j \in Job
  PROVE  Advanced(r, Accepted(r, j))
<1>2. Advanced(r, Accepted(r, j))
  <2> DEFINE c == IF jobs[j].status = "partial" THEN "provider_failed" ELSE "none"
             s == schedule(r, "submitted", FixedDelay, c)
  <2>1. c \in ErrorCode /\ FixedDelay \in Nat /\ "submitted" \in State
    BY BudgetAssumption DEF ErrorCode, State, PastACL
  <2>2. s \in Delivery /\ s.gen = r.gen /\ s.desired = r.desired
        /\ s.state = "submitted" /\ s.token = None
    <3> HIDE DEF c
    <3> QED  BY <2>1, ScheduleType
  <2>3. Accepted(r, j) = [s EXCEPT !.job = j]  BY DEF Accepted
  <2> HIDE DEF s
  <2> QED  BY <2>2, <2>3 DEF Kept, Advanced, Delivery, PastACL
<1> QED  BY <1>2

(* Whatever a reconciliation concludes. *)
LEMMA RecoveredAdvances ==
  ASSUME TypeOK, NEW r \in Delivery, NEW seen \in SUBSET Job, NEW uncertain \in BOOLEAN
  PROVE  Advanced(r, Recovered(r, seen, uncertain))
<1> DEFINE recovery == Recover(seen, uncertain)
           job == CHOOSE j \in seen : TRUE
           saw == [r EXCEPT !.seen = IF seen = {} /\ ~uncertain THEN "empty" ELSE "other"]
           R == Recovered(r, seen, uncertain)
<1>1. saw \in Delivery /\ saw.gen = r.gen /\ saw.desired = r.desired /\ saw.token = r.token
  BY DEF Delivery
<1>2. \A r2 : Advanced(saw, r2) => Advanced(r, r2)
  <2> HIDE DEF saw
  <2> QED  BY <1>1 DEF Kept, Advanced
<1>3. recovery.effect \in BOOLEAN /\ recovery.found \in BOOLEAN
  BY DEF Recover
<1>4. recovery.found => job \in Job
  <2> SUFFICES ASSUME recovery.found PROVE job \in Job  OBVIOUS
  <2>1. Cardinality(seen) = 1  BY DEF Recover
  <2>2. seen # {}  BY <2>1, FS_EmptySet
  <2> QED  BY <2>2
<1>5. /\ "provider_failed" \in ErrorCode /\ "none" \in ErrorCode /\ "submit_unknown" \in ErrorCode
      /\ "discover_retryable" \in ErrorCode /\ "submit_retryable" \in ErrorCode
      /\ "discover_exhausted" \in ErrorCode /\ "submitted" \in State
  BY DEF ErrorCode, State, PastACL
<1>6. r.age \in Nat /\ UnknownGrace \in Nat /\ FixedDelay \in Nat
      /\ r.create \in {"none", "open", "rejected", "failed", "timeout"}
  BY BudgetAssumption DEF Delivery
<1>7. R = CASE recovery.effect -> succeed(saw)
          [] ~recovery.effect /\ recovery.found /\ jobs[job].status = "failed" ->
                retrySubmission(saw, "provider_failed", "failed")
          [] ~recovery.effect /\ recovery.found /\ jobs[job].status # "failed" ->
                [schedule(saw, "submitted", FixedDelay, "none") EXCEPT !.job = job]
          [] ~recovery.effect /\ ~recovery.found /\ r.age < UnknownGrace ->
                scheduleUnknown(saw, IF recovery.ambiguous
                                     THEN "discover_retryable" ELSE "submit_unknown")
          [] ~recovery.effect /\ ~recovery.found /\ r.age >= UnknownGrace ->
                IF /\ r.err = "submit_retryable"
                   /\ r.submits < MaxSubmissions
                   /\ ~recovery.ambiguous
                THEN retrySubmission(saw, "submit_retryable", r.create)
                ELSE dead(saw, "discover_exhausted")
  BY DEF Recovered
<1> HIDE DEF recovery, job, saw, R
<1>8. Advanced(saw, R)
  <2>1. CASE recovery.effect
    <3>1. R = succeed(saw)  BY <1>7, <2>1
    <3> QED  BY <1>1, <1>5, <3>1, FinalType DEF Kept, Advanced, PastACL
  <2>2. CASE ~recovery.effect /\ recovery.found /\ jobs[job].status = "failed"
    <3>1. R = retrySubmission(saw, "provider_failed", "failed")  BY <1>7, <2>2
    <3> QED  BY <1>1, <1>5, <3>1, RetryAdvances
  <2>3. CASE ~recovery.effect /\ recovery.found /\ jobs[job].status # "failed"
    <3> DEFINE s == schedule(saw, "submitted", FixedDelay, "none")
    <3>1. R = [s EXCEPT !.job = job]  BY <1>7, <2>3
    <3>2. s \in Delivery /\ s.gen = saw.gen /\ s.desired = saw.desired
          /\ s.state = "submitted" /\ s.token = None
      BY <1>1, <1>5, <1>6, ScheduleType
    <3>3. job \in Job  BY <1>4, <2>3
    <3> HIDE DEF s
    <3> QED  BY <3>1, <3>2, <3>3 DEF Kept, Advanced, Delivery, PastACL
  <2>4. CASE ~recovery.effect /\ ~recovery.found /\ r.age < UnknownGrace
    <3> DEFINE c == IF recovery.ambiguous THEN "discover_retryable" ELSE "submit_unknown"
    <3>1. R = scheduleUnknown(saw, c)  BY <1>6, <1>7, <2>4
    <3>2. c \in ErrorCode  BY <1>5
    <3> HIDE DEF c
    <3> QED  BY <1>1, <3>1, <3>2, UnknownAdvances
  <2>5. CASE ~recovery.effect /\ ~recovery.found /\ r.age >= UnknownGrace
    <3>1. R = retrySubmission(saw, "submit_retryable", r.create) \/ R = dead(saw, "discover_exhausted")
      BY <1>6, <1>7, <2>5
    <3>2. Advanced(saw, retrySubmission(saw, "submit_retryable", r.create))
      BY <1>1, <1>5, <1>6, RetryAdvances
    <3>3. Advanced(saw, dead(saw, "discover_exhausted"))
      BY <1>1, <1>5, FinalType DEF Kept, Advanced
    <3> QED  BY <3>1, <3>2, <3>3
  <2> QED  BY <1>3, <1>6, <2>1, <2>2, <2>3, <2>4, <2>5
<1> QED  BY <1>2, <1>8 DEF R

(* Whatever a poll concludes. *)
LEMMA PolledAdvances ==
  ASSUME NEW r \in Delivery, NEW st \in {"processing", "success", "failed"}
  PROVE  /\ Advanced(r, Polled(r, st))
         /\ Advanced(r, PollFailed(r))
<1>1. /\ "provider_failed" \in ErrorCode /\ "none" \in ErrorCode
      /\ "provider_pending_timeout" \in ErrorCode /\ "poll_exhausted" \in ErrorCode
      /\ "poll_retryable" \in ErrorCode /\ "submitted" \in State
  BY DEF ErrorCode, State, PastACL
<1>2. r.age \in Nat /\ r.polls \in Nat /\ PendingTimeout \in Nat
      /\ MaxPollFailures \in Nat
  BY BudgetAssumption DEF Delivery
<1> DEFINE d == retryBackoff(r.polls + 1)
<1>3. d \in Nat  BY <1>2, BackoffType
<1>4. Advanced(r, Polled(r, st))
  <2>1. CASE st = "success"
    <3>1. Polled(r, st) = succeed(r)  BY <2>1 DEF Polled
    <3> QED  BY <1>1, <3>1, FinalType DEF Kept, Advanced, PastACL
  <2>2. CASE st = "failed"
    <3>1. Polled(r, st) = retrySubmission(r, "provider_failed", "failed")  BY <2>2 DEF Polled
    <3> QED  BY <1>1, <3>1, RetryAdvances
  <2>3. CASE st = "processing" /\ r.age >= PendingTimeout
    <3>1. Polled(r, st) = retrySubmission(r, "provider_pending_timeout", "timeout")
      BY <1>2, <2>3 DEF Polled
    <3> QED  BY <1>1, <3>1, RetryAdvances
  <2>4. CASE st = "processing" /\ r.age < PendingTimeout
    <3> DEFINE s == schedule(r, "submitted", d, "none")
    <3>1. Polled(r, st) = [s EXCEPT !.polls = @ + 1]  BY <1>2, <2>4 DEF Polled
    <3> HIDE DEF d
    <3>2. s \in Delivery /\ s.gen = r.gen /\ s.desired = r.desired
          /\ s.state = "submitted" /\ s.token = None
      BY <1>1, <1>3, ScheduleType
    <3> HIDE DEF s
    <3> QED  BY <3>1, <3>2 DEF Kept, Advanced, Delivery, PastACL
  <2> QED  BY <1>2, <2>1, <2>2, <2>3, <2>4
<1>5. Advanced(r, PollFailed(r))
  <2>1. CASE r.polls + 1 >= MaxPollFailures
    <3>1. PollFailed(r) = dead(r, "poll_exhausted")  BY <2>1 DEF PollFailed
    <3> QED  BY <1>1, <3>1, FinalType DEF Kept, Advanced
  <2>2. CASE ~(r.polls + 1 >= MaxPollFailures)
    <3> DEFINE s == schedule(r, "submitted", d, "poll_retryable")
    <3>1. PollFailed(r) = [s EXCEPT !.polls = @ + 1]  BY <2>2 DEF PollFailed
    <3> HIDE DEF d
    <3>2. s \in Delivery /\ s.gen = r.gen /\ s.desired = r.desired
          /\ s.state = "submitted" /\ s.token = None
      BY <1>1, <1>3, ScheduleType
    <3> HIDE DEF s
    <3>3. s.polls + 1 \in Nat  BY <3>2 DEF Delivery
    <3> QED  BY <3>1, <3>2, <3>3 DEF Kept, Advanced, Delivery, PastACL
  <2> QED  BY <2>1, <2>2
<1> QED  BY <1>4, <1>5

(* A refused or unanswered Create keeps generation and wish. *)
LEMMA RefusedAdvances ==
  ASSUME NEW r \in Delivery, NEW kind \in {"permanent", "retryable", "unknown"}
  PROVE  Advanced(r, Refused(r, kind))
<1>1. /\ "submit_permanent" \in ErrorCode /\ "submit_unknown" \in ErrorCode
      /\ "submit_retryable" \in ErrorCode /\ "submitting" \in State /\ FixedDelay \in Nat
  BY BudgetAssumption DEF ErrorCode, State, PastACL
<1>2. CASE kind = "permanent"
  BY <1>1, <1>2, FinalType DEF Refused, Kept, Advanced
<1>3. CASE kind = "unknown"
  BY <1>1, <1>3, ScheduleType DEF Refused, Kept, Advanced, PastACL
<1>4. CASE kind = "retryable"
  <2> DEFINE s == schedule(r, "submitting", FixedDelay, "submit_retryable")
  <2>1. Refused(r, kind) = [s EXCEPT !.create = "rejected"]  BY <1>4 DEF Refused
  <2>2. s \in Delivery /\ s.gen = r.gen /\ s.desired = r.desired
        /\ s.state = "submitting" /\ s.token = None
    BY <1>1, ScheduleType
  <2> HIDE DEF s
  <2> QED  BY <2>1, <2>2 DEF Kept, Advanced, Delivery, PastACL
<1> QED  BY <1>2, <1>3, <1>4

(* A failed ACL call keeps generation and wish and does not pass the stage. *)
LEMMA ACLFailedKeeps ==
  ASSUME NEW r \in Delivery
  PROVE  Kept(r, ACLFailed(r)) /\ ACLFailed(r).state \in {"pending_acl", "dead_letter"}
<1>1. "acl_exhausted" \in ErrorCode /\ "acl_retryable" \in ErrorCode /\ "pending_acl" \in State
      /\ r.acls + 1 \in Nat
  BY DEF ErrorCode, State, Delivery
<1>2. CASE r.acls + 1 >= MaxACLAttempts
  BY <1>1, <1>2, FinalType DEF ACLFailed, Kept
<1>3. CASE ~(r.acls + 1 >= MaxACLAttempts)
  <2> DEFINE d == retryBackoff(r.acls + 1)
             s == schedule(r, "pending_acl", d, "acl_retryable")
  <2>1. ACLFailed(r) = [s EXCEPT !.acls = r.acls + 1]  BY <1>3 DEF ACLFailed
  <2>2. d \in Nat  BY <1>1, BackoffType
  <2> HIDE DEF d
  <2>3. s \in Delivery /\ s.gen = r.gen /\ s.desired = r.desired
        /\ s.state = "pending_acl" /\ s.token = None
    BY <1>1, <2>2, ScheduleType
  <2> HIDE DEF s
  <2> QED  BY <1>1, <2>1, <2>3 DEF Kept, Delivery
<1> QED  BY <1>2, <1>3

-----------------------------------------------------------------------------
(* Type correctness. *)

(* A fenced write of a well-typed row keeps rows and claims well typed. *)
LEMMA UpdateType ==
  ASSUME TypeOK, NEW w \in Worker, wk[w].pc # "idle",
         NEW r \in Delivery, NEW k \in Claimed, k.pc # "idle" => k.img \in Image,
         UpdateClaim(w, r, k)
  PROVE  /\ row' \in [Image -> Delivery]
         /\ wk' \in [Worker -> Claimed]
         /\ \A v \in Worker : wk'[v].pc # "idle" => wk'[v].img \in Image
<1>1. wk[w].img \in Image  BY DEF TypeOK
<1>2. row' = row \/ row' = [row EXCEPT ![wk[w].img] = r]  BY DEF UpdateClaim
<1>3. wk' = [wk EXCEPT ![w] = k] \/ wk' = [wk EXCEPT ![w].pc = "release"]  BY DEF UpdateClaim
<1>4. row' \in [Image -> Delivery]  BY <1>1, <1>2 DEF TypeOK
<1>5. wk' \in [Worker -> Claimed] /\ \A v \in Worker : wk'[v].pc # "idle" => wk'[v].img \in Image
  <2>1. CASE wk' = [wk EXCEPT ![w] = k]
    BY <2>1 DEF TypeOK
  <2>2. CASE wk' = [wk EXCEPT ![w].pc = "release"]
    BY <1>1, <2>2 DEF TypeOK, Claimed
  <2> QED  BY <1>3, <2>1, <2>2
<1> QED  BY <1>4, <1>5

(* The initial claim of a worker is well typed. *)
LEMMA IdleType == Idle \in Claimed /\ Idle.pc = "idle"
  BY DEF Idle, Claimed

(* What the intermediate writes of a claim return. *)
LEMMA ACLDone ==
  ASSUME NEW r \in Delivery
  PROVE  Advanced(r, [r EXCEPT !.state = "pending_submit", !.nextIn = 0, !.err = "none"])
<1>1. "none" \in ErrorCode /\ "pending_submit" \in State  BY DEF ErrorCode, State, PastACL
<1> DEFINE s == [r EXCEPT !.state = "pending_submit", !.nextIn = 0, !.err = "none"]
<1>2. s \in Delivery  BY <1>1 DEF Delivery
<1>3. s.gen = r.gen /\ s.desired = r.desired /\ s.token = r.token /\ s.state = "pending_submit"
  BY DEF Delivery
<1> QED  BY <1>2, <1>3 DEF Kept, Advanced, PastACL

(* The state machine of a claim: every way a worker writes back is one       *)
(* UpdateClaim with a row that keeps generation and wish.                    *)
LEMMA ReturnIsUpdate ==
  ASSUME TypeOK, NEW w \in Worker, Return(w)
  PROVE  \/ ReleaseSuperseded(w)
         \/ \E r \in Delivery, k \in Claimed :
              /\ wk[w].pc \in {"acl", "submit", "create", "recover", "poll"}
              /\ UpdateClaim(w, r, k)
              /\ Kept(row[wk[w].img], r)
              /\ r.state \in PastACL => (wk[w].pc = "acl" => wk[w].applied)
              /\ \/ k = Idle
                 \/ /\ k.pc \in {"submit", "create"} /\ k.img = wk[w].img /\ k.gen = wk[w].gen
                    /\ r.state \in PastACL
              /\ acl' = acl
              /\ ~LateACL => late' = late
              /\ late' = late \/ late' = [late EXCEPT ![wk[w].img] = @ \cup {wk[w].desired}]
              /\ mod' = mod /\ cache' = cache /\ crashes' = crashes
              /\ jobs' = jobs \/ jobs' = OpenWindow(wk[w].img)
<1> DEFINE i == wk[w].img
           r0 == row[i]
           Goal(r, k) ==
              /\ wk[w].pc \in {"acl", "submit", "create", "recover", "poll"}
              /\ UpdateClaim(w, r, k)
              /\ Kept(row[wk[w].img], r)
              /\ r.state \in PastACL => (wk[w].pc = "acl" => wk[w].applied)
              /\ \/ k = Idle
                 \/ /\ k.pc \in {"submit", "create"} /\ k.img = wk[w].img /\ k.gen = wk[w].gen
                    /\ r.state \in PastACL
              /\ acl' = acl
              /\ ~LateACL => late' = late
              /\ late' = late \/ late' = [late EXCEPT ![wk[w].img] = @ \cup {wk[w].desired}]
              /\ mod' = mod /\ cache' = cache /\ crashes' = crashes
              /\ jobs' = jobs \/ jobs' = OpenWindow(wk[w].img)
<1>1. SUFFICES ReleaseSuperseded(w) \/ \E r \in Delivery, k \in Claimed : Goal(r, k)
  OBVIOUS
<1>2. wk[w].pc # "idle" => r0 \in Delivery  BY DEF TypeOK
<1>3. Idle \in Claimed  BY IdleType
<1>4. wk[w] \in Claimed  BY DEF TypeOK
<1>5. CASE applyACL_ok(w)
  <2>1. r0 \in Delivery  BY <1>2, <1>5 DEF applyACL_ok
  <2>2. CASE r0.purge
    <3> DEFINE r == [r0 EXCEPT !.state = "pending_submit", !.nextIn = 0, !.err = "none"]
               k == [wk[w] EXCEPT !.pc = "submit"]
    <3>1. Advanced(r0, r) /\ r.state = "pending_submit"  BY <2>1, ACLDone DEF Delivery
    <3>2. k \in Claimed /\ k.pc = "submit" /\ k.img = i /\ k.gen = wk[w].gen  BY <1>4 DEF Claimed
    <3>3. UpdateClaim(w, r, k)  BY <1>5, <2>2 DEF applyACL_ok
    <3> HIDE DEF r, k
    <3>4. Goal(r, k)
      BY <1>5, <3>1, <3>2, <3>3 DEF applyACL_ok, Advanced, Kept, PastACL
    <3>5. r \in Delivery  BY <3>1 DEF Advanced, Kept
    <3> HIDE DEF Goal
    <3> QED  BY <3>2, <3>4, <3>5
  <2>3. CASE ~r0.purge
    <3>1. "none" \in ErrorCode  BY DEF ErrorCode
    <3>2. Kept(r0, succeed(r0)) /\ succeed(r0) \in Delivery  BY <2>1, <3>1, FinalType DEF Kept
    <3>3. Goal(succeed(r0), Idle)
      BY <1>5, <2>3, <3>2 DEF applyACL_ok
    <3> HIDE DEF Goal
    <3> QED  BY <1>3, <3>2, <3>3
  <2> QED  BY <2>2, <2>3
<1>6. CASE applyACL_error(w)
  <2>1. r0 \in Delivery  BY <1>2, <1>6 DEF applyACL_error
  <2>2. Kept(r0, ACLFailed(r0)) /\ ACLFailed(r0).state \in {"pending_acl", "dead_letter"}
    BY <2>1, ACLFailedKeeps
  <2>3. Goal(ACLFailed(r0), Idle)
    BY <1>6, <2>2 DEF applyACL_error, PastACL
  <2>4. ACLFailed(r0) \in Delivery  BY <2>2 DEF Kept
  <2> HIDE DEF Goal
  <2> QED  BY <1>3, <2>3, <2>4
<1>7. CASE submit(w)
  <2>1. r0 \in Delivery  BY <1>2, <1>7 DEF submit
  <2>2. CASE r0.submits >= MaxSubmissions
    <3>1. "submit_exhausted" \in ErrorCode  BY DEF ErrorCode
    <3>2. Kept(r0, dead(r0, "submit_exhausted")) /\ dead(r0, "submit_exhausted") \in Delivery
      BY <2>1, <3>1, FinalType DEF Kept
    <3>3. Goal(dead(r0, "submit_exhausted"), Idle)
      BY <1>7, <2>2, <3>2 DEF submit
    <3> HIDE DEF Goal
    <3> QED  BY <1>3, <3>2, <3>3
  <2>3. CASE ~(r0.submits >= MaxSubmissions)
    <3> DEFINE k == [wk[w] EXCEPT !.pc = "create"]
    <3>1. Advanced(r0, Started(r0)) /\ Started(r0).state \in PastACL
      <4> QED  BY <2>1, StartAdvances
    <3>2. k \in Claimed /\ k.pc = "create" /\ k.img = i /\ k.gen = wk[w].gen  BY <1>4 DEF Claimed
    <3>3. UpdateClaim(w, Started(r0), k)  BY <1>7, <2>3 DEF submit
    <3>4. wk[w].pc = "submit" /\ acl' = acl /\ late' = late /\ mod' = mod /\ cache' = cache
          /\ crashes' = crashes /\ (jobs' = jobs \/ jobs' = OpenWindow(i))
      BY <1>7, <2>3 DEF submit
    <3> HIDE DEF k
    <3>5. Goal(Started(r0), k)
      BY <3>1, <3>2, <3>3, <3>4 DEF Advanced
    <3>6. Started(r0) \in Delivery  BY <3>1 DEF Advanced, Kept
    <3> HIDE DEF Goal
    <3> QED  BY <3>2, <3>5, <3>6
  <2> QED  BY <2>2, <2>3
<1>8. ASSUME NEW r, Advanced(r0, r), wk[w].pc \in {"create", "recover", "poll"},
             UpdateClaim(w, r, Idle), UNCHANGED <<mod, acl, late, cache, jobs, crashes>>
      PROVE  \E r2 \in Delivery, k \in Claimed : Goal(r2, k)
  <2>1. Goal(r, Idle)  BY <1>8 DEF Advanced
  <2>2. r \in Delivery  BY <1>8 DEF Advanced, Kept
  <2> HIDE DEF Goal
  <2> QED  BY <1>3, <2>1, <2>2
<1> HIDE DEF Goal
<1>9. CASE Submit_ok(w)
  <2>1. r0 \in Delivery /\ wk[w].job \in Job  BY <1>2, <1>4, <1>9 DEF Submit_ok, Claimed
  <2>2. Advanced(r0, Accepted(r0, wk[w].job))  BY <2>1, SubmitAdvances
  <2> QED  BY <1>8, <1>9, <2>2 DEF Submit_ok
<1>10. CASE \E kind \in {"permanent", "retryable", "unknown"} : Submit_error(w, kind)
  <2>1. PICK kind \in {"permanent", "retryable", "unknown"} : Submit_error(w, kind)  BY <1>10
  <2>2. Advanced(r0, Refused(r0, kind))  BY <1>2, <2>1, RefusedAdvances DEF Submit_error
  <2> QED  BY <1>8, <2>1, <2>2 DEF Submit_error
<1>11. CASE \E seen \in SUBSET Job, uncertain \in BOOLEAN : recoverSubmission(w, seen, uncertain)
  <2>1. PICK seen \in SUBSET Job, uncertain \in BOOLEAN : recoverSubmission(w, seen, uncertain)
    BY <1>11
  <2>2. Advanced(r0, Recovered(r0, seen, uncertain))
    BY <1>2, <2>1, RecoveredAdvances DEF recoverSubmission
  <2> QED  BY <1>8, <2>1, <2>2 DEF recoverSubmission
<1>12. CASE \E permanent \in BOOLEAN : recoverSubmission_error(w, permanent)
  <2>1. PICK permanent \in BOOLEAN : recoverSubmission_error(w, permanent)  BY <1>12
  <2>2. "discover_permanent" \in ErrorCode /\ "discover_retryable" \in ErrorCode  BY DEF ErrorCode
  <2>3. r0 \in Delivery  BY <1>2, <2>1 DEF recoverSubmission_error
  <2>4. Advanced(r0, dead(r0, "discover_permanent"))  BY <2>2, <2>3, FinalType DEF Kept, Advanced
  <2>5. Advanced(r0, scheduleUnknown(r0, "discover_retryable"))  BY <2>2, <2>3, UnknownAdvances
  <2> QED  BY <1>8, <2>1, <2>4, <2>5 DEF recoverSubmission_error
<1>13. CASE \E state \in {"processing", "success", "failed"} : poll(w, state)
  <2>1. PICK state \in {"processing", "success", "failed"} : poll(w, state)  BY <1>13
  <2>2. "poll_permanent" \in ErrorCode  BY DEF ErrorCode
  <2>3. r0 \in Delivery  BY <1>2, <2>1 DEF poll
  <2>4. Advanced(r0, dead(r0, "poll_permanent"))  BY <2>2, <2>3, FinalType DEF Kept, Advanced
  <2>5. Advanced(r0, Polled(r0, state))  BY <2>3, PolledAdvances
  <2> QED  BY <1>8, <2>1, <2>4, <2>5 DEF poll
<1>14. CASE \E permanent \in BOOLEAN : poll_error(w, permanent)
  <2>1. PICK permanent \in BOOLEAN : poll_error(w, permanent)  BY <1>14
  <2>2. "poll_permanent" \in ErrorCode  BY DEF ErrorCode
  <2>3. r0 \in Delivery  BY <1>2, <2>1 DEF poll_error
  <2>4. Advanced(r0, dead(r0, "poll_permanent"))  BY <2>2, <2>3, FinalType DEF Kept, Advanced
  <2>5. Advanced(r0, PollFailed(r0))  BY <2>3, PolledAdvances
  <2> QED  BY <1>8, <2>1, <2>4, <2>5 DEF poll_error
<1> QED
  BY <1>5, <1>6, <1>7, <1>9, <1>10, <1>11, <1>12, <1>13, <1>14 DEF Return

(* Enqueue resets a well-typed row to a well-typed row of the next generation. *)
LEMMA EnqueueType ==
  ASSUME NEW r \in Delivery, NEW public \in BOOLEAN, NEW purge \in BOOLEAN
  PROVE  /\ Enqueue(r, public, purge) \in Delivery
         /\ Enqueue(r, public, purge).gen = r.gen + 1
         /\ Enqueue(r, public, purge).state = "pending_acl"
         /\ Enqueue(r, public, purge).token = r.token
         /\ Enqueue(r, public, purge).leaseIn = r.leaseIn
<1> DEFINE E == Enqueue(r, public, purge)
           a == [r EXCEPT !.gen = @ + 1, !.desired = public, !.purge = purge, !.state = "pending_acl"]
           b == [a EXCEPT !.acls = 0, !.submits = 0, !.polls = 0]
           c == [b EXCEPT !.unknown = 0, !.job = None, !.age = 0]
           d == [c EXCEPT !.nextIn = 0, !.err = "none", !.create = "none"]
<1>1. "pending_acl" \in State /\ "none" \in ErrorCode /\ r.gen + 1 \in Nat
  BY DEF State, ErrorCode, Delivery
<1>2. a \in Delivery /\ a.gen = r.gen + 1 /\ a.state = "pending_acl"
      /\ a.token = r.token /\ a.leaseIn = r.leaseIn
  <2>1. a \in Delivery  BY <1>1 DEF Delivery
  <2>2. a.gen = r.gen + 1 /\ a.state = "pending_acl" /\ a.token = r.token /\ a.leaseIn = r.leaseIn
    BY DEF Delivery
  <2> QED  BY <2>1, <2>2
<1>3. E = [d EXCEPT !.seen = "none"]  BY DEF Enqueue
<1> HIDE DEF a
<1>4. b \in Delivery /\ b.gen = a.gen /\ b.state = a.state /\ b.token = a.token /\ b.leaseIn = a.leaseIn
  BY <1>2 DEF Delivery
<1> HIDE DEF b
<1>5. c \in Delivery /\ c.gen = b.gen /\ c.state = b.state /\ c.token = b.token /\ c.leaseIn = b.leaseIn
  BY <1>4 DEF Delivery
<1> HIDE DEF c
<1>6. d \in Delivery /\ d.gen = c.gen /\ d.state = c.state /\ d.token = c.token /\ d.leaseIn = c.leaseIn
  BY <1>1, <1>5 DEF Delivery
<1> HIDE DEF d
<1>7. E \in Delivery /\ E.gen = d.gen /\ E.state = d.state /\ E.token = d.token /\ E.leaseIn = d.leaseIn
  <2> DEFINE e == [d EXCEPT !.seen = "none"]
  <2>1. e \in Delivery /\ e.gen = d.gen /\ e.state = d.state /\ e.token = d.token /\ e.leaseIn = d.leaseIn
    BY <1>6 DEF Delivery
  <2> QED  BY <1>3, <2>1
<1> QED  BY <1>2, <1>4, <1>5, <1>6, <1>7

(* Down never leaves the naturals. *)
LEMMA DownType == \A n \in Nat : Down(n) \in Nat /\ (n > 0 => Down(n) = n - 1)
  BY DEF Down

(* What Tick does to a row. *)
LEMMA TickRow ==
  ASSUME TypeOK, Tick, NEW i \in Image
  PROVE  /\ row'[i] \in Delivery
         /\ row'[i].gen = row[i].gen /\ row'[i].desired = row[i].desired
         /\ row'[i].state = row[i].state /\ row'[i].token = row[i].token
         /\ row'[i].leaseIn = Down(row[i].leaseIn)
<1> DEFINE r == row[i]
           n == Down(r.nextIn)
           l == Down(r.leaseIn)
           a == IF r.state \in {"submitting", "submitted"} /\ r.age < MaxAge THEN r.age + 1 ELSE r.age
<1>1. r \in Delivery  BY DEF TypeOK
<1>2. n \in Nat /\ l \in Nat /\ a \in Nat  BY <1>1, DownType DEF Delivery
<1>3. row'[i] = [r EXCEPT !.nextIn = n, !.leaseIn = l, !.age = a]  BY DEF Tick
<1> HIDE DEF n, l, a, r
<1>4. [r EXCEPT !.nextIn = n, !.leaseIn = l, !.age = a] \in Delivery
  BY <1>1, <1>2 DEF Delivery
<1>5. /\ row'[i].gen = r.gen /\ row'[i].desired = r.desired
      /\ row'[i].state = r.state /\ row'[i].token = r.token /\ row'[i].leaseIn = l
  BY <1>1, <1>3 DEF Delivery
<1> QED  BY <1>3, <1>4, <1>5 DEF r, l

(* What Tick does to a claim. *)
LEMMA TickClaim ==
  ASSUME TypeOK, Tick, NEW w \in Worker
  PROVE  /\ wk'[w] \in Claimed
         /\ wk'[w].pc = wk[w].pc /\ wk'[w].img = wk[w].img /\ wk'[w].gen = wk[w].gen
         /\ wk'[w].desired = wk[w].desired /\ wk'[w].applied = wk[w].applied
         /\ wk[w].pc = "acl" => wk[w].left > 0 /\ wk'[w].left = wk[w].left - 1
<1> DEFINE n == IF wk[w].pc = "acl" THEN Down(wk[w].left) ELSE 0
<1>1. wk[w] \in Claimed  BY DEF TypeOK
<1>2. n \in Nat /\ (wk[w].pc = "acl" => wk[w].left > 0 /\ n = wk[w].left - 1)
  BY <1>1, DownType DEF Claimed, Tick
<1>3. wk'[w] = [wk[w] EXCEPT !.left = n]  BY DEF Tick
<1> HIDE DEF n
<1> QED  BY <1>1, <1>2, <1>3 DEF Claimed

(* A claim of a due row. *)
LEMMA ClaimStep ==
  ASSUME TypeOK, NEW w \in Worker, NEW i \in Image, ClaimDue(w, i)
  PROVE  /\ row' = [row EXCEPT ![i] = [row[i] EXCEPT !.token = w, !.leaseIn = Lease]]
         /\ [row[i] EXCEPT !.token = w, !.leaseIn = Lease] \in Delivery
         /\ wk' = [wk EXCEPT ![w] = NewClaim(i)]
         /\ NewClaim(i) \in Claimed
         /\ NewClaim(i).img = i /\ NewClaim(i).gen = row[i].gen
         /\ NewClaim(i).desired = row[i].desired
         /\ NewClaim(i).left = ACLWindow /\ NewClaim(i).applied = FALSE
         /\ NewClaim(i).pc \in {"acl", "submit", "recover", "poll"}
         /\ NewClaim(i).pc = "acl" => row[i].state = "pending_acl"
         /\ NewClaim(i).pc # "acl" => row[i].state \in PastACL
<1>1. row[i] \in Delivery  BY DEF TypeOK
<1>2. row' = [row EXCEPT ![i] = [row[i] EXCEPT !.token = w, !.leaseIn = Lease]]
  BY <1>1 DEF ClaimDue, TypeOK, Delivery
<1>3. [row[i] EXCEPT !.token = w, !.leaseIn = Lease] \in Delivery
  BY <1>1, LeaseAssumption DEF Delivery
<1> DEFINE p == StepFor(row[i].state)
           k == NewClaim(i)
<1>4. row[i].state \in {"pending_acl", "pending_submit", "submitting", "submitted"}
  BY <1>1 DEF ClaimDue, Due, Terminal, Delivery, State, PastACL
<1>5. /\ p \in {"acl", "submit", "recover", "poll"}
      /\ p = "acl" => row[i].state = "pending_acl"
      /\ p # "acl" => row[i].state \in PastACL
  BY <1>4 DEF StepFor, PastACL
<1>6. wk' = [wk EXCEPT ![w] = k]  BY DEF ClaimDue
<1>7. row[i].gen \in Nat /\ row[i].desired \in BOOLEAN  BY <1>1 DEF Delivery
<1>8. /\ k \in Claimed
      /\ k.img = i /\ k.gen = row[i].gen /\ k.desired = row[i].desired
      /\ k.left = ACLWindow /\ k.applied = FALSE /\ k.pc = p
  <2>1. k = [Idle EXCEPT !.pc = p, !.img = i, !.gen = row[i].gen,
                         !.desired = row[i].desired, !.left = ACLWindow]
    BY DEF NewClaim
  <2> HIDE DEF p, k
  <2> QED  BY <1>5, <1>7, <2>1, LeaseAssumption DEF Idle, Claimed
<1> QED  BY <1>2, <1>3, <1>5, <1>6, <1>8

(* Giving back a lease. *)
LEMMA ReleaseStep ==
  ASSUME TypeOK, NEW w \in Worker, wk[w].pc # "idle"
  PROVE  /\ [Unleased(row[wk[w].img]) EXCEPT !.nextIn = 0] \in Delivery
         /\ Kept(row[wk[w].img], [Unleased(row[wk[w].img]) EXCEPT !.nextIn = 0])
         /\ [Unleased(row[wk[w].img]) EXCEPT !.nextIn = 0].state = row[wk[w].img].state
         /\ [Unleased(row[wk[w].img]) EXCEPT !.nextIn = 0].token = None
         /\ [row[wk[w].img] EXCEPT !.token = Orphan] \in Delivery
<1> DEFINE r == row[wk[w].img]
           s == [Unleased(r) EXCEPT !.nextIn = 0]
<1>1. r \in Delivery  BY DEF TypeOK
<1> HIDE DEF r
<1>2. s \in Delivery  BY <1>1 DEF Delivery, Unleased
<1>3. s.gen = r.gen /\ s.desired = r.desired /\ s.state = r.state /\ s.token = None
  BY <1>1 DEF Delivery, Unleased
<1>4. [r EXCEPT !.token = Orphan] \in Delivery  BY <1>1 DEF Delivery
<1> QED  BY <1>2, <1>3, <1>4 DEF r, Kept

-----------------------------------------------------------------------------
(* Every row, claim and job keeps its type through every action; in          *)
(* particular last_error_code stays inside the migration's whitelist.        *)
THEOREM TypeCorrect == Spec => []TypeOK
<1>1. Init => TypeOK
  <2> SUFFICES ASSUME Init PROVE TypeOK  OBVIOUS
  <2>1. NoDelivery \in Delivery
    BY DEF NoDelivery, Delivery, State, ErrorCode
  <2> QED  BY <2>1, IdleType DEF Init, TypeOK, PurgeJob
<1>2. TypeOK /\ [Next]_vars => TypeOK'
  <2> SUFFICES ASSUME TypeOK, [Next]_vars PROVE TypeOK'  OBVIOUS
  <2>1. ASSUME NEW i \in Image, NEW v \in Issued, Moderate(i, v) PROVE TypeOK'
    <3> DEFINE p == imageAccessPurgeRequired(v = "pass", mod[i])
    <3>1. row[i] \in Delivery /\ v \in Verdict /\ (v = "pass") \in BOOLEAN
      BY BudgetAssumption DEF TypeOK, Verdict
    <3>2. p \in BOOLEAN  BY DEF imageAccessPurgeRequired
    <3> HIDE DEF p
    <3>3. Enqueue(row[i], v = "pass", p) \in Delivery  BY <3>1, <3>2, EnqueueType
    <3>4. row' = [row EXCEPT ![i] = Enqueue(row[i], v = "pass", p)]  BY <2>1 DEF Moderate, p
    <3> QED  BY <2>1, <3>1, <3>3, <3>4 DEF TypeOK, Moderate
  <2>2. ASSUME NEW w \in Worker, NEW i \in Image, ClaimDue(w, i) PROVE TypeOK'
    <3>1. row' \in [Image -> Delivery]
      <4>1. row' = [row EXCEPT ![i] = [row[i] EXCEPT !.token = w, !.leaseIn = Lease]]
            /\ [row[i] EXCEPT !.token = w, !.leaseIn = Lease] \in Delivery
        BY <2>2, ClaimStep
      <4> QED  BY <4>1 DEF TypeOK
    <3>2. wk' = [wk EXCEPT ![w] = NewClaim(i)] /\ NewClaim(i) \in Claimed /\ NewClaim(i).img = i
      BY <2>2, ClaimStep
    <3>3. wk' \in [Worker -> Claimed] /\ \A v \in Worker : wk'[v].pc # "idle" => wk'[v].img \in Image
      BY <3>2 DEF TypeOK
    <3> QED  BY <2>2, <3>1, <3>3 DEF TypeOK, ClaimDue
  <2>3. ASSUME NEW w \in Worker, Return(w) PROVE TypeOK'
    <3>1. CASE ReleaseSuperseded(w)
      BY <3>1, ReleaseStep, IdleType DEF TypeOK, ReleaseSuperseded
    <3>2. ASSUME NEW r \in Delivery, NEW k \in Claimed, wk[w].pc # "idle", UpdateClaim(w, r, k),
                 k = Idle \/ k.img = wk[w].img,
                 acl' = acl, mod' = mod, cache' = cache, crashes' = crashes,
                 late' = late \/ late' = [late EXCEPT ![wk[w].img] = @ \cup {wk[w].desired}],
                 jobs' = jobs \/ jobs' = OpenWindow(wk[w].img)
          PROVE  TypeOK'
      <4>1. wk[w].img \in Image /\ wk[w].desired \in BOOLEAN  BY <3>2 DEF TypeOK, Claimed
      <4>2. k.pc # "idle" => k.img \in Image  BY <3>2, <4>1, IdleType
      <4>3. /\ row' \in [Image -> Delivery]
            /\ wk' \in [Worker -> Claimed]
            /\ \A v \in Worker : wk'[v].pc # "idle" => wk'[v].img \in Image
        BY <3>2, <4>2, UpdateType
      <4>4. late' \in [Image -> SUBSET BOOLEAN]  BY <3>2, <4>1 DEF TypeOK
      <4>5. jobs' \in [Job -> PurgeJob]  BY <3>2, <4>1 DEF TypeOK, OpenWindow, PurgeJob
      <4> QED  BY <3>2, <4>3, <4>4, <4>5 DEF TypeOK
    <3> QED  BY <2>3, <3>1, <3>2, ReturnIsUpdate
  <2>4. ASSUME NEW w \in Worker, SetObjectPublicAccess(w) PROVE TypeOK'
    <3>1. wk[w] \in Claimed /\ wk[w].img \in Image  BY <2>4 DEF TypeOK, SetObjectPublicAccess
    <3>2. [wk[w] EXCEPT !.applied = TRUE] \in Claimed
          /\ [wk[w] EXCEPT !.applied = TRUE].img = wk[w].img
          /\ wk[w].desired \in BOOLEAN
      BY <3>1 DEF Claimed
    <3>3. acl' \in [Image -> BOOLEAN]  BY <2>4, <3>1, <3>2 DEF TypeOK, SetObjectPublicAccess
    <3>4. wk' \in [Worker -> Claimed] /\ \A v \in Worker : wk'[v].pc # "idle" => wk'[v].img \in Image
      BY <2>4, <3>1, <3>2 DEF TypeOK, SetObjectPublicAccess
    <3> QED  BY <2>4, <3>3, <3>4 DEF TypeOK, SetObjectPublicAccess
  <2>5. ASSUME NEW w \in Worker, NEW j \in Job, NEW st \in {"processing", "partial"},
               CreatePurgeTask(w, j, st) PROVE TypeOK'
    BY <2>5 DEF TypeOK, CreatePurgeTask, Claimed, PurgeJob
  <2>6. ASSUME NEW w \in Worker, Crash(w) PROVE TypeOK'
    <3>1. row' \in [Image -> Delivery]
      <4>1. row' = row \/ row' = [row EXCEPT ![wk[w].img] = [row[wk[w].img] EXCEPT !.token = Orphan]]
        BY <2>6 DEF Crash, TypeOK, Delivery
      <4> QED  BY <2>6, <4>1, ReleaseStep DEF TypeOK, Crash
    <3> QED  BY <2>6, <3>1, IdleType DEF TypeOK, Crash
  <2>7. ASSUME NEW i \in Image, NEW b \in BOOLEAN, LateEffect(i, b) PROVE TypeOK'
    BY <2>7 DEF TypeOK, LateEffect
  <2>8. ASSUME NEW i \in Image, CacheFill(i) PROVE TypeOK'
    BY <2>8 DEF TypeOK, CacheFill
  <2>9. ASSUME NEW j \in Job, NEW st \in {"success", "failed"}, PurgeEnds(j, st) PROVE TypeOK'
    <3>1. jobs' \in [Job -> PurgeJob]  BY <2>9 DEF TypeOK, PurgeEnds, PurgeJob
    <3>2. cache' \in [Image -> {"none", "public", "denied"}]
      <4>1. cache' = cache \/ cache' = [cache EXCEPT ![jobs[j].img] = "none"]
        BY <2>9 DEF PurgeEnds
      <4> QED  BY <4>1 DEF TypeOK
    <3> QED  BY <2>9, <3>1, <3>2 DEF TypeOK, PurgeEnds
  <2>10. CASE Tick
    <3>1. row' \in [Image -> Delivery]  BY <2>10, TickRow DEF Tick
    <3>2. wk' \in [Worker -> Claimed] /\ \A w \in Worker : wk'[w].pc # "idle" => wk'[w].img \in Image
      BY <2>10, TickClaim DEF Tick, TypeOK
    <3>3. jobs' \in [Job -> PurgeJob]  BY <2>10, ZenonT(60) DEF Tick, TypeOK, PurgeJob
    <3> QED  BY <2>10, <3>1, <3>2, <3>3 DEF Tick, TypeOK
  <2>11. CASE UNCHANGED vars
    BY <2>11 DEF TypeOK, vars
  <2> QED
    BY <2>1, <2>2, <2>3, <2>4, <2>5, <2>6, <2>7, <2>8, <2>9, <2>10, <2>11 DEF Next
<1> QED  BY <1>1, <1>2, PTL DEF Spec

-----------------------------------------------------------------------------
(***************************************************************************)
(* Why the ACL converges.  While a worker has an ACL request in hand it    *)
(* holds the lease of the image's row, for longer than the request can     *)
(* last; so nobody else starts one, the row does not leave the ACL stage,  *)
(* and what the request did is still in force when the worker reports.  A  *)
(* report that matches the row's generation was made for the row's wish;   *)
(* later stages of a claim only ever write rows already past the stage.    *)
(***************************************************************************)
HoldsACL(w) ==
    /\ row[wk[w].img].token = w
    /\ row[wk[w].img].state = "pending_acl"
    /\ wk[w].left < row[wk[w].img].leaseIn
    /\ row[wk[w].img].gen = wk[w].gen => row[wk[w].img].desired = wk[w].desired
    /\ wk[w].applied => acl[wk[w].img] = wk[w].desired

Later == {"submit", "create", "recover", "poll"}

LeaseInv ==
    /\ \A i \in Image : late[i] = {}
    /\ \A w \in Worker : wk[w].pc # "idle" => wk[w].gen <= row[wk[w].img].gen
    /\ \A w \in Worker : wk[w].pc = "acl" => HoldsACL(w)
    /\ \A w \in Worker : wk[w].pc \in Later /\ Fenced(w) => row[wk[w].img].state \in PastACL
    /\ ACLConverged

(* A fenced write of a row that keeps generation and wish, and passes the    *)
(* ACL stage only on an applied request, keeps the invariant.                *)
LEMMA UpdateKeepsLease ==
  ASSUME TypeOK, LeaseInv, NEW w \in Worker,
         wk[w].pc \in {"acl", "submit", "create", "recover", "poll"},
         NEW r \in Delivery, NEW k \in Claimed,
         UpdateClaim(w, r, k), Kept(row[wk[w].img], r),
         r.state \in PastACL => (wk[w].pc = "acl" => wk[w].applied),
         \/ k = Idle
         \/ /\ k.pc \in {"submit", "create"} /\ k.img = wk[w].img /\ k.gen = wk[w].gen
            /\ r.state \in PastACL,
         acl' = acl, late' = late
  PROVE  LeaseInv'
<1> DEFINE i == wk[w].img
<1>1. i \in Image /\ row[i] \in Delivery /\ wk[w] \in Claimed  BY DEF TypeOK
<1>2. CASE ~Fenced(w)
  <2>1. row' = row /\ wk' = [wk EXCEPT ![w].pc = "release"]  BY <1>2 DEF UpdateClaim
  <2>2. \A v \in Worker : /\ v # w => wk'[v] = wk[v]
                          /\ v = w => wk'[v].pc = "release" /\ wk'[v].img = i /\ wk'[v].gen = wk[w].gen
    BY <2>1 DEF TypeOK, Claimed
  <2> QED  BY <2>1, <2>2 DEF LeaseInv, HoldsACL, Fenced, Later, ACLConverged
<1>3. CASE Fenced(w)
  <2>1. row' = [row EXCEPT ![i] = r] /\ wk' = [wk EXCEPT ![w] = k]  BY <1>3 DEF UpdateClaim
  <2>2. r.gen = row[i].gen /\ r.desired = row[i].desired /\ r.token \in {None, w}
    BY <1>3 DEF Fenced, Kept
  <2>3. r.state \in PastACL => acl[i] = r.desired
    <3>1. CASE wk[w].pc = "acl"
      BY <1>3, <2>2, <3>1 DEF LeaseInv, HoldsACL, Fenced
    <3>2. CASE wk[w].pc # "acl"
      <4>1. row[i].state \in PastACL  BY <1>3, <3>2 DEF LeaseInv, Later
      <4> QED  BY <1>1, <2>2, <4>1 DEF LeaseInv, ACLConverged
    <3> QED  BY <3>1, <3>2
  <2>4. /\ row'[i] = r
        /\ \A x \in Image : x # i => row'[x] = row[x]
        /\ wk'[w] = k
        /\ \A v \in Worker : v # w => wk'[v] = wk[v]
    BY <1>1, <2>1 DEF TypeOK
  <2>5. \A v \in Worker : v # w => r.token # v  BY <2>2, NullAssumption
  <2>6. \A v \in Worker : v # w /\ wk[v].img = i => wk[v].pc # "acl"
    BY <1>3 DEF LeaseInv, HoldsACL, Fenced
  <2>7. \A v \in Worker : wk'[v].pc # "idle" => wk'[v].gen <= row'[wk'[v].img].gen
    BY <1>1, <2>2, <2>4, IdleType DEF LeaseInv, TypeOK
  <2>8. \A v \in Worker : wk'[v].pc = "acl" => HoldsACL(v)'
    <3> SUFFICES ASSUME NEW v \in Worker, wk'[v].pc = "acl" PROVE HoldsACL(v)'  OBVIOUS
    <3>1. v # w  BY <2>4, IdleType
    <3>2. wk'[v] = wk[v] /\ wk[v].img # i /\ wk[v].img \in Image  BY <2>4, <2>6, <3>1 DEF TypeOK
    <3> QED  BY <2>4, <3>2 DEF LeaseInv, HoldsACL
  <2>9. \A v \in Worker : wk'[v].pc \in Later /\ Fenced(v)' => row'[wk'[v].img].state \in PastACL
    <3> SUFFICES ASSUME NEW v \in Worker, wk'[v].pc \in Later, Fenced(v)'
                 PROVE  row'[wk'[v].img].state \in PastACL
      OBVIOUS
    <3>1. CASE v = w
      BY <2>4, <3>1, IdleType DEF Later
    <3>2. CASE v # w
      <4>1. wk'[v] = wk[v] /\ wk[v].img \in Image  BY <2>4, <3>2 DEF TypeOK, Later
      <4>2. wk[v].img # i  BY <2>4, <2>5, <3>2, <4>1 DEF Fenced
      <4> QED  BY <2>4, <4>1, <4>2 DEF LeaseInv, Fenced
    <3> QED  BY <3>1, <3>2
  <2>10. ACLConverged'
    BY <1>1, <2>3, <2>4 DEF LeaseInv, ACLConverged
  <2> QED  BY <2>7, <2>8, <2>9, <2>10 DEF LeaseInv
<1> QED  BY <1>2, <1>3

(* No step of the system breaks the invariant when COS never applies a       *)
(* request after its caller has given up.                                    *)
LEMMA LeaseStep ==
  ASSUME ~LateACL, TypeOK, LeaseInv, [Next]_vars
  PROVE  LeaseInv'
<1>1. ASSUME NEW i \in Image, NEW v \in Issued, Moderate(i, v) PROVE LeaseInv'
  <2> DEFINE r == row'[i]
  <2>1. row[i] \in Delivery /\ (v = "pass") \in BOOLEAN
        /\ imageAccessPurgeRequired(v = "pass", mod[i]) \in BOOLEAN
    BY DEF TypeOK, imageAccessPurgeRequired
  <2>2. /\ r.gen = row[i].gen + 1 /\ r.state = "pending_acl"
        /\ r.token = row[i].token /\ r.leaseIn = row[i].leaseIn
    <3>1. r = Enqueue(row[i], v = "pass", imageAccessPurgeRequired(v = "pass", mod[i]))
      BY <1>1 DEF Moderate, TypeOK
    <3> HIDE DEF r
    <3> QED  BY <2>1, <3>1, EnqueueType
  <2>3. /\ \A x \in Image : x # i => row'[x] = row[x]
        /\ wk' = wk /\ acl' = acl /\ late' = late
    BY <1>1 DEF Moderate, TypeOK
  <2> HIDE DEF r
  <2>4. \A w \in Worker : wk[w].pc # "idle" =>
            wk[w].img \in Image /\ wk[w].gen \in Nat /\ wk[w].gen <= row[wk[w].img].gen
    BY DEF LeaseInv, TypeOK, Claimed
  <2>5. row[i].gen \in Nat  BY <2>1 DEF Delivery
  <2>6. \A w \in Worker : wk[w].pc # "idle" => wk[w].gen <= row'[wk[w].img].gen
    BY <2>2, <2>3, <2>4, <2>5 DEF r
  <2>7. \A w \in Worker : wk[w].pc = "acl" => HoldsACL(w)'
    <3> SUFFICES ASSUME NEW w \in Worker, wk[w].pc = "acl" PROVE HoldsACL(w)'  OBVIOUS
    <3>1. HoldsACL(w)  BY DEF LeaseInv
    <3>2. CASE wk[w].img = i
      <4>1. row'[i].gen # wk[w].gen  BY <2>2, <2>4, <2>5, <3>2 DEF r
      <4> QED  BY <2>2, <2>3, <3>1, <3>2, <4>1 DEF HoldsACL, r
    <3>3. CASE wk[w].img # i
      BY <2>3, <2>4, <3>1, <3>3 DEF HoldsACL
    <3> QED  BY <3>2, <3>3
  <2>8. \A w \in Worker : wk[w].pc \in Later /\ Fenced(w)' => row'[wk[w].img].state \in PastACL
    <3> SUFFICES ASSUME NEW w \in Worker, wk[w].pc \in Later, Fenced(w)'
                 PROVE  row'[wk[w].img].state \in PastACL
      OBVIOUS
    <3>1. wk[w].pc # "idle"  BY DEF Later
    <3>2. wk[w].img # i  BY <2>2, <2>3, <2>4, <2>5, <3>1 DEF Fenced, r
    <3> QED  BY <2>3, <2>4, <3>1, <3>2 DEF LeaseInv, Fenced
  <2>9. ACLConverged'  BY <2>2, <2>3 DEF LeaseInv, ACLConverged, PastACL, r
  <2> QED  BY <2>3, <2>6, <2>7, <2>8, <2>9 DEF LeaseInv
<1>2. ASSUME NEW w \in Worker, NEW i \in Image, ClaimDue(w, i) PROVE LeaseInv'
  <2> DEFINE k == NewClaim(i)
  <2>1. /\ wk' = [wk EXCEPT ![w] = k]
        /\ k.img = i /\ k.gen = row[i].gen /\ k.desired = row[i].desired
        /\ k.left = ACLWindow /\ k.applied = FALSE
        /\ k.pc \in {"acl", "submit", "recover", "poll"}
        /\ k.pc = "acl" => row[i].state = "pending_acl"
        /\ k.pc # "acl" => row[i].state \in PastACL
    BY <1>2, ClaimStep, ZenonT(60)
  <2>2. row' = [row EXCEPT ![i] = [row[i] EXCEPT !.token = w, !.leaseIn = Lease]]
    BY <1>2, ClaimStep
  <2>3. row[i] \in Delivery /\ row[i].leaseIn = 0 /\ acl' = acl /\ late' = late
    BY <1>2 DEF ClaimDue, Due, TypeOK
  <2> HIDE DEF k
  <2>4. /\ row'[i].gen = row[i].gen /\ row'[i].desired = row[i].desired
        /\ row'[i].state = row[i].state /\ row'[i].token = w /\ row'[i].leaseIn = Lease
        /\ \A x \in Image : x # i => row'[x] = row[x]
        /\ wk'[w] = k /\ \A v \in Worker : v # w => wk'[v] = wk[v]
    BY <2>1, <2>2, <2>3 DEF TypeOK, Delivery
  <2>5. \A v \in Worker : wk[v].pc = "acl" => wk[v].img # i
    BY <2>3 DEF LeaseInv, HoldsACL, TypeOK, Claimed
  <2>6. \A v \in Worker : wk'[v].pc # "idle" => wk'[v].gen <= row'[wk'[v].img].gen
    BY <2>1, <2>3, <2>4 DEF LeaseInv, TypeOK, Delivery
  <2>7. \A v \in Worker : wk'[v].pc = "acl" => HoldsACL(v)'
    <3> SUFFICES ASSUME NEW v \in Worker, wk'[v].pc = "acl" PROVE HoldsACL(v)'  OBVIOUS
    <3>1. CASE v = w
      BY <2>1, <2>4, <3>1, LeaseAssumption DEF HoldsACL
    <3>2. CASE v # w
      <4>1. wk'[v] = wk[v] /\ wk[v].img # i /\ wk[v].img \in Image  BY <2>4, <2>5, <3>2 DEF TypeOK
      <4> QED  BY <2>3, <2>4, <4>1 DEF LeaseInv, HoldsACL
    <3> QED  BY <3>1, <3>2
  <2>8. \A v \in Worker : wk'[v].pc \in Later /\ Fenced(v)' => row'[wk'[v].img].state \in PastACL
    <3> SUFFICES ASSUME NEW v \in Worker, wk'[v].pc \in Later, Fenced(v)'
                 PROVE  row'[wk'[v].img].state \in PastACL
      OBVIOUS
    <3>1. CASE v = w
      BY <2>1, <2>4, <3>1 DEF Later
    <3>2. CASE v # w
      <4>1. wk'[v] = wk[v] /\ wk[v].img \in Image  BY <2>4, <3>2 DEF TypeOK, Later
      <4>2. wk[v].img # i  BY <2>4, <3>2, <4>1 DEF Fenced
      <4> QED  BY <2>4, <4>1, <4>2 DEF LeaseInv, Fenced
    <3> QED  BY <3>1, <3>2
  <2>9. ACLConverged'  BY <2>3, <2>4 DEF LeaseInv, ACLConverged
  <2> QED  BY <2>3, <2>6, <2>7, <2>8, <2>9 DEF LeaseInv
<1>3. ASSUME NEW w \in Worker, Return(w) PROVE LeaseInv'
  <2>1. CASE ReleaseSuperseded(w)
    <3> DEFINE i == wk[w].img
    <3>1. wk[w].pc = "release" /\ i \in Image /\ row[i] \in Delivery
      BY <2>1 DEF ReleaseSuperseded, TypeOK
    <3>2. /\ wk'[w] = Idle /\ \A v \in Worker : v # w => wk'[v] = wk[v]
          /\ acl' = acl /\ late' = late
      BY <2>1 DEF ReleaseSuperseded, TypeOK
    <3>3. CASE row[i].token # w
      <4>1. row' = row  BY <2>1, <3>3 DEF ReleaseSuperseded
      <4> QED  BY <3>2, <4>1, IdleType DEF LeaseInv, HoldsACL, Fenced, Later, ACLConverged
    <3>4. CASE row[i].token = w
      <4>1. /\ row'[i].gen = row[i].gen /\ row'[i].desired = row[i].desired
            /\ row'[i].state = row[i].state /\ row'[i].token = None
            /\ \A x \in Image : x # i => row'[x] = row[x]
        <5>1. row' = [row EXCEPT ![i] = [Unleased(row[i]) EXCEPT !.nextIn = 0]]
          BY <2>1, <3>4 DEF ReleaseSuperseded
        <5> QED  BY <3>1, <5>1, ReleaseStep DEF TypeOK, Kept
      <4>2. \A v \in Worker : wk[v].pc = "acl" => wk[v].img # i
        BY <3>1, <3>4 DEF LeaseInv, HoldsACL
      <4>3. \A v \in Worker : wk'[v].pc # "idle" => wk'[v].gen <= row'[wk'[v].img].gen
        BY <3>1, <3>2, <4>1, IdleType DEF LeaseInv, TypeOK
      <4>4. \A v \in Worker : wk'[v].pc = "acl" => HoldsACL(v)'
        <5> SUFFICES ASSUME NEW v \in Worker, wk'[v].pc = "acl" PROVE HoldsACL(v)'  OBVIOUS
        <5>1. wk'[v] = wk[v] /\ wk[v].img # i /\ wk[v].img \in Image
          BY <3>2, <4>2, IdleType DEF TypeOK
        <5> QED  BY <3>2, <4>1, <5>1 DEF LeaseInv, HoldsACL
      <4>5. \A v \in Worker : wk'[v].pc \in Later /\ Fenced(v)' => row'[wk'[v].img].state \in PastACL
        <5> SUFFICES ASSUME NEW v \in Worker, wk'[v].pc \in Later, Fenced(v)'
                     PROVE  row'[wk'[v].img].state \in PastACL
          OBVIOUS
        <5>1. wk'[v] = wk[v] /\ wk[v].img \in Image  BY <3>2, IdleType DEF TypeOK, Later
        <5>2. wk[v].img # i  BY <4>1, <5>1, NullAssumption DEF Fenced
        <5> QED  BY <4>1, <5>1, <5>2 DEF LeaseInv, Fenced
      <4>6. ACLConverged'  BY <3>2, <4>1 DEF LeaseInv, ACLConverged
      <4> QED  BY <3>2, <4>3, <4>4, <4>5, <4>6 DEF LeaseInv
    <3> QED  BY <3>3, <3>4
  <2>2. CASE ~ReleaseSuperseded(w)
    <3>1. PICK r \in Delivery, k \in Claimed :
              /\ wk[w].pc \in {"acl", "submit", "create", "recover", "poll"}
              /\ UpdateClaim(w, r, k)
              /\ Kept(row[wk[w].img], r)
              /\ r.state \in PastACL => (wk[w].pc = "acl" => wk[w].applied)
              /\ \/ k = Idle
                 \/ /\ k.pc \in {"submit", "create"} /\ k.img = wk[w].img /\ k.gen = wk[w].gen
                    /\ r.state \in PastACL
              /\ acl' = acl
              /\ ~LateACL => late' = late
      BY <1>3, <2>2, ReturnIsUpdate
    <3> QED  BY <3>1, UpdateKeepsLease
  <2> QED  BY <2>1, <2>2
<1>4. ASSUME NEW w \in Worker, SetObjectPublicAccess(w) PROVE LeaseInv'
  <2> DEFINE i == wk[w].img
  <2>1. /\ wk[w].pc = "acl" /\ i \in Image /\ wk[w] \in Claimed
        /\ row' = row /\ late' = late /\ acl' = [acl EXCEPT ![i] = wk[w].desired]
    BY <1>4 DEF SetObjectPublicAccess, TypeOK
  <2>2. /\ wk'[w].pc = "acl" /\ wk'[w].img = i /\ wk'[w].gen = wk[w].gen /\ wk'[w].applied
        /\ wk'[w].desired = wk[w].desired /\ wk'[w].left = wk[w].left
        /\ \A v \in Worker : v # w => wk'[v] = wk[v]
    BY <1>4 DEF SetObjectPublicAccess, TypeOK, Claimed
  <2>3. acl'[i] = wk[w].desired /\ \A x \in Image : x # i => acl'[x] = acl[x]
    BY <2>1 DEF TypeOK
  <2>4. row[i].token = w /\ row[i].state = "pending_acl"  BY <2>1 DEF LeaseInv, HoldsACL
  <2>5. \A v \in Worker : v # w /\ wk[v].pc = "acl" => wk[v].img # i
    BY <2>4 DEF LeaseInv, HoldsACL
  <2>6. \A v \in Worker : wk'[v].pc = "acl" => HoldsACL(v)'
    <3> SUFFICES ASSUME NEW v \in Worker, wk'[v].pc = "acl" PROVE HoldsACL(v)'  OBVIOUS
    <3>1. CASE v = w
      BY <2>1, <2>2, <2>3, <3>1 DEF LeaseInv, HoldsACL
    <3>2. CASE v # w
      <4>1. wk'[v] = wk[v] /\ wk[v].img # i /\ wk[v].img \in Image  BY <2>2, <2>5, <3>2 DEF TypeOK
      <4> QED  BY <2>1, <2>3, <4>1 DEF LeaseInv, HoldsACL
    <3> QED  BY <3>1, <3>2
  <2>7. ACLConverged'
    BY <2>1, <2>3, <2>4 DEF LeaseInv, ACLConverged, PastACL
  <2>8. \A v \in Worker : wk'[v].pc # "idle" => wk'[v].gen <= row'[wk'[v].img].gen
    BY <2>1, <2>2 DEF LeaseInv
  <2>9. \A v \in Worker : wk'[v].pc \in Later /\ Fenced(v)' => row'[wk'[v].img].state \in PastACL
    BY <2>1, <2>2 DEF LeaseInv, Later, Fenced
  <2> QED  BY <2>1, <2>6, <2>7, <2>8, <2>9 DEF LeaseInv
<1>5. ASSUME NEW w \in Worker, NEW j \in Job, NEW st \in {"processing", "partial"},
             CreatePurgeTask(w, j, st) PROVE LeaseInv'
  <2>1. /\ wk[w].pc = "create" /\ row' = row /\ acl' = acl /\ late' = late
        /\ wk'[w].pc = "create" /\ wk'[w].img = wk[w].img /\ wk'[w].gen = wk[w].gen
        /\ \A v \in Worker : v # w => wk'[v] = wk[v]
    BY <1>5 DEF CreatePurgeTask, TypeOK, Claimed
  <2> QED  BY <2>1 DEF LeaseInv, HoldsACL, Fenced, Later, ACLConverged
<1>6. ASSUME NEW w \in Worker, Crash(w) PROVE LeaseInv'
  <2> DEFINE i == wk[w].img
  <2>1. /\ i \in Image /\ wk'[w] = Idle /\ \A v \in Worker : v # w => wk'[v] = wk[v]
        /\ acl' = acl /\ late' = late
    BY <1>6 DEF Crash, TypeOK
  <2>2. CASE row' = row
    BY <2>1, <2>2, IdleType DEF LeaseInv, HoldsACL, Fenced, Later, ACLConverged
  <2>3. CASE row' # row
    <3>1. row[i].token = w /\ row' = [row EXCEPT ![i].token = Orphan]  BY <1>6, <2>3 DEF Crash
    <3>2. /\ row'[i].gen = row[i].gen /\ row'[i].desired = row[i].desired
          /\ row'[i].state = row[i].state /\ row'[i].token = Orphan
          /\ \A x \in Image : x # i => row'[x] = row[x]
      BY <2>1, <3>1 DEF TypeOK, Delivery
    <3>3. \A v \in Worker : v # w /\ wk[v].pc = "acl" => wk[v].img # i
      BY <3>1 DEF LeaseInv, HoldsACL
    <3>4. \A v \in Worker : wk'[v].pc # "idle" => wk'[v].gen <= row'[wk'[v].img].gen
      BY <2>1, <3>2, IdleType DEF LeaseInv, TypeOK
    <3>5. \A v \in Worker : wk'[v].pc = "acl" => HoldsACL(v)'
      <4> SUFFICES ASSUME NEW v \in Worker, wk'[v].pc = "acl" PROVE HoldsACL(v)'  OBVIOUS
      <4>1. wk'[v] = wk[v] /\ wk[v].img # i /\ wk[v].img \in Image
        BY <2>1, <3>3, IdleType DEF TypeOK
      <4> QED  BY <2>1, <3>2, <4>1 DEF LeaseInv, HoldsACL
    <3>6. \A v \in Worker : wk'[v].pc \in Later /\ Fenced(v)' => row'[wk'[v].img].state \in PastACL
      <4> SUFFICES ASSUME NEW v \in Worker, wk'[v].pc \in Later, Fenced(v)'
                   PROVE  row'[wk'[v].img].state \in PastACL
        OBVIOUS
      <4>1. wk'[v] = wk[v] /\ wk[v].img \in Image  BY <2>1, IdleType DEF TypeOK, Later
      <4>2. wk[v].img # i  BY <3>2, <4>1, NullAssumption DEF Fenced
      <4> QED  BY <3>2, <4>1, <4>2 DEF LeaseInv, Fenced
    <3>7. ACLConverged'  BY <2>1, <3>2 DEF LeaseInv, ACLConverged
    <3> QED  BY <2>1, <3>4, <3>5, <3>6, <3>7 DEF LeaseInv
  <2> QED  BY <2>2, <2>3
<1>7. ASSUME NEW i \in Image, NEW b \in BOOLEAN, LateEffect(i, b) PROVE LeaseInv'
  BY <1>7 DEF LateEffect, LeaseInv
<1>8. ASSUME NEW i \in Image, CacheFill(i) PROVE LeaseInv'
  BY <1>8 DEF CacheFill, LeaseInv, HoldsACL, Fenced, ACLConverged
<1>9. ASSUME NEW j \in Job, NEW st \in {"success", "failed"}, PurgeEnds(j, st) PROVE LeaseInv'
  BY <1>9 DEF PurgeEnds, LeaseInv, HoldsACL, Fenced, ACLConverged
<1>10. CASE Tick
  <2>1. acl' = acl /\ late' = late  BY <1>10 DEF Tick
  <2>2. \A i \in Image : /\ row'[i].gen = row[i].gen /\ row'[i].desired = row[i].desired
                         /\ row'[i].state = row[i].state /\ row'[i].token = row[i].token
                         /\ row'[i].leaseIn = Down(row[i].leaseIn)
    BY <1>10, TickRow
  <2>3. \A w \in Worker :
            /\ wk'[w].pc = wk[w].pc /\ wk'[w].img = wk[w].img /\ wk'[w].gen = wk[w].gen
            /\ wk'[w].desired = wk[w].desired /\ wk'[w].applied = wk[w].applied
            /\ wk[w].pc = "acl" => wk[w].left > 0 /\ wk'[w].left = wk[w].left - 1
    BY <1>10, TickClaim
  <2>4. \A w \in Worker : wk'[w].pc = "acl" => HoldsACL(w)'
    <3> SUFFICES ASSUME NEW w \in Worker, wk'[w].pc = "acl" PROVE HoldsACL(w)'  OBVIOUS
    <3>1. wk[w].pc = "acl" /\ HoldsACL(w) /\ wk[w].img \in Image
      BY <2>3 DEF LeaseInv, TypeOK
    <3>2. row[wk[w].img].leaseIn \in Nat /\ wk[w].left \in Nat  BY <3>1 DEF TypeOK, Delivery, Claimed
    <3>3. wk'[w].left < Down(row[wk[w].img].leaseIn)
      BY <2>3, <3>1, <3>2 DEF HoldsACL, Down
    <3> QED  BY <2>1, <2>2, <2>3, <3>1, <3>3 DEF HoldsACL
  <2>5. \A w \in Worker : wk'[w].pc # "idle" => wk'[w].gen <= row'[wk'[w].img].gen
    BY <2>2, <2>3 DEF LeaseInv, TypeOK
  <2>6. \A w \in Worker : wk'[w].pc \in Later /\ Fenced(w)' => row'[wk'[w].img].state \in PastACL
    <3> SUFFICES ASSUME NEW w \in Worker, wk'[w].pc \in Later, Fenced(w)'
                 PROVE  row'[wk'[w].img].state \in PastACL
      OBVIOUS
    <3>1. wk[w].img \in Image /\ wk[w].pc \in Later  BY <2>3 DEF TypeOK, Later
    <3>2. Fenced(w)  BY <2>2, <2>3, <3>1 DEF Fenced
    <3> QED  BY <2>2, <2>3, <3>1, <3>2 DEF LeaseInv
  <2>7. ACLConverged'  BY <2>1, <2>2 DEF LeaseInv, ACLConverged
  <2> QED  BY <2>1, <2>4, <2>5, <2>6, <2>7 DEF LeaseInv
<1>11. CASE UNCHANGED vars
  BY <1>11 DEF vars, LeaseInv, HoldsACL, Fenced, ACLConverged
<1> QED
  BY <1>1, <1>2, <1>3, <1>4, <1>5, <1>6, <1>7, <1>8, <1>9, <1>10, <1>11 DEF Next

(* The ACL of every image whose delivery is past the ACL stage is the one    *)
(* its latest moderation fact asks for, for any number of images, workers,   *)
(* crashes and superseding facts, as long as the ACL call returns within the *)
(* lease and COS drops requests whose caller has given up.                   *)
THEOREM ACLSafety ==
  ASSUME ~LateACL
  PROVE  Spec => []ACLConverged
<1>1. Init => LeaseInv
  <2> SUFFICES ASSUME Init PROVE LeaseInv  OBVIOUS
  <2>1. \A i \in Image : late[i] = {} /\ row[i] = NoDelivery  BY DEF Init
  <2>2. \A w \in Worker : wk[w].pc = "idle"  BY IdleType DEF Init
  <2>3. NoDelivery.state = "none"  BY DEF NoDelivery
  <2>4. ACLConverged  BY <2>1, <2>3 DEF ACLConverged, PastACL
  <2> QED  BY <2>1, <2>2, <2>4 DEF LeaseInv, Later
<1>2. TypeOK /\ LeaseInv /\ [Next]_vars => LeaseInv'
  BY LeaseStep
<1>3. LeaseInv => ACLConverged
  BY DEF LeaseInv
<1> QED  BY <1>1, <1>2, <1>3, TypeCorrect, PTL DEF Spec

-----------------------------------------------------------------------------
(* The other columns that the row updates leave alone or set. *)

(* schedule leaves the wish to purge and the counters alone. *)
LEMMA ScheduleFields ==
  ASSUME NEW r \in Delivery, NEW st \in State, NEW d \in Nat, NEW c \in ErrorCode
  PROVE  /\ schedule(r, st, d, c).purge = r.purge /\ schedule(r, st, d, c).submits = r.submits
         /\ schedule(r, st, d, c).create = r.create /\ schedule(r, st, d, c).err = c
         /\ schedule(r, st, d, c).job = r.job
  BY DEF schedule, Unleased, Delivery

(* So do succeed and dead. *)
LEMMA FinalFields ==
  ASSUME NEW r \in Delivery, NEW c \in ErrorCode
  PROVE  /\ succeed(r).purge = r.purge /\ succeed(r).submits = r.submits
         /\ dead(r, c).purge = r.purge /\ dead(r, c).submits = r.submits
<1>1. succeed(r).purge = r.purge /\ succeed(r).submits = r.submits
  BY DEF succeed, Unleased, Delivery
<1>2. dead(r, c).purge = r.purge /\ dead(r, c).submits = r.submits
  BY DEF dead, Unleased, Delivery
<1> QED  BY <1>1, <1>2

(* A retry goes back to "pending_submit" and records why. *)
LEMMA RetryFields ==
  ASSUME NEW r \in Delivery, NEW c \in ErrorCode,
         NEW how \in {"none", "open", "rejected", "failed", "timeout"}
  PROVE  LET t == retrySubmission(r, c, how) IN
         /\ t.purge = r.purge /\ t.submits = r.submits
         /\ t.state = "dead_letter" \/ (t.state = "pending_submit" /\ t.create = how)
<1>1. CASE r.submits >= MaxSubmissions
  <2>1. retrySubmission(r, c, how) = dead(r, "submit_exhausted")
    BY <1>1 DEF retrySubmission
  <2>2. "submit_exhausted" \in ErrorCode  BY DEF ErrorCode
  <2> DEFINE q == dead(r, "submit_exhausted")
  <2>3. q.state = "dead_letter"  BY <2>2, FinalType
  <2>4. q.purge = r.purge /\ q.submits = r.submits  BY <2>2, FinalFields
  <2> QED  BY <2>1, <2>3, <2>4
<1>2. CASE ~(r.submits >= MaxSubmissions)
  <2> DEFINE d == retryBackoff(r.submits)
             s == schedule(r, "pending_submit", d, c)
  <2>1. d \in Nat /\ "pending_submit" \in State  BY BackoffType DEF Delivery, State, PastACL
  <2> HIDE DEF d
  <2>2. s \in Delivery /\ s.state = "pending_submit"  BY <2>1, ScheduleType
  <2>3. s.purge = r.purge /\ s.submits = r.submits  BY <2>1, ScheduleFields
  <2>4. retrySubmission(r, c, how) =
          [s EXCEPT !.job = None, !.age = 0, !.polls = 0, !.unknown = 0, !.create = how]
    BY <1>2 DEF retrySubmission, d
  <2> HIDE DEF s
  <2> QED  BY <2>2, <2>3, <2>4 DEF Delivery
<1> QED  BY <1>1, <1>2

(* An inconclusive reconciliation stays in "submitting" under its own code. *)
LEMMA UnknownFields ==
  ASSUME NEW r \in Delivery, NEW c \in ErrorCode
  PROVE  LET t == scheduleUnknown(r, c) IN
         /\ t.purge = r.purge /\ t.submits = r.submits
         /\ t.state = "dead_letter" \/ (t.state = "submitting" /\ t.err = c)
<1>1. CASE r.unknown + 1 >= MaxUnknownChecks
  <2>1. scheduleUnknown(r, c) = dead(r, "discover_exhausted")
    BY <1>1 DEF scheduleUnknown
  <2>2. "discover_exhausted" \in ErrorCode  BY DEF ErrorCode
  <2> DEFINE q == dead(r, "discover_exhausted")
  <2>3. q.state = "dead_letter"  BY <2>2, FinalType
  <2>4. q.purge = r.purge /\ q.submits = r.submits  BY <2>2, FinalFields
  <2> QED  BY <2>1, <2>3, <2>4
<1>2. CASE ~(r.unknown + 1 >= MaxUnknownChecks)
  <2> DEFINE d == retryBackoff(r.unknown + 1)
             s == schedule(r, "submitting", d, c)
  <2>1. d \in Nat /\ "submitting" \in State  BY BackoffType DEF Delivery, State, PastACL
  <2> HIDE DEF d
  <2>2. s \in Delivery /\ s.state = "submitting"  BY <2>1, ScheduleType
  <2>3. s.purge = r.purge /\ s.submits = r.submits /\ s.err = c  BY <2>1, ScheduleFields
  <2>4. scheduleUnknown(r, c) = [s EXCEPT !.unknown = @ + 1]
    BY <1>2 DEF scheduleUnknown, d
  <2> HIDE DEF s
  <2> QED  BY <2>2, <2>3, <2>4 DEF Delivery
<1> QED  BY <1>1, <1>2

(* What a reconciliation writes, by the evidence it has: it succeeds on a    *)
(* listed job that succeeded, adopts a listed job, retries a failed job or a *)
(* structured refusal, and otherwise waits or gives up.                      *)
LEMMA RecoveredFields ==
  ASSUME NEW r \in Delivery, NEW seen \in SUBSET Job, NEW uncertain \in BOOLEAN
  PROVE  LET R == Recovered(r, seen, uncertain) IN
         /\ R.purge = r.purge /\ R.submits = r.submits
         /\ \/ R.state = "dead_letter"
            \/ R.state = "succeeded" /\ \E j \in seen : jobs[j].status = "success"
            \/ R.state = "pending_submit" /\ R.create = "failed"
            \/ R.state = "pending_submit" /\ R.create = r.create /\ r.err = "submit_retryable"
            \/ R.state = "submitted" /\ R.job \in seen
            \/ R.state = "submitting" /\ R.err # "submit_retryable"
<1> DEFINE recovery == Recover(seen, uncertain)
           job == CHOOSE j \in seen : TRUE
           saw == [r EXCEPT !.seen = IF seen = {} /\ ~uncertain THEN "empty" ELSE "other"]
           R == Recovered(r, seen, uncertain)
<1>1. saw \in Delivery /\ saw.purge = r.purge /\ saw.submits = r.submits
  BY DEF Delivery
<1>2. recovery.effect \in BOOLEAN /\ recovery.found \in BOOLEAN
  BY DEF Recover
<1>3. recovery.found => job \in seen
  <2> SUFFICES ASSUME recovery.found PROVE job \in seen  OBVIOUS
  <2>1. Cardinality(seen) = 1  BY DEF Recover
  <2>2. seen # {}  BY <2>1, FS_EmptySet
  <2> QED  BY <2>2
<1>4. recovery.effect => \E j \in seen : jobs[j].status = "success"
  BY DEF Recover
<1>5. /\ "provider_failed" \in ErrorCode /\ "none" \in ErrorCode /\ "submit_unknown" \in ErrorCode
      /\ "discover_retryable" \in ErrorCode /\ "submit_retryable" \in ErrorCode
      /\ "discover_exhausted" \in ErrorCode /\ "submitted" \in State
  BY DEF ErrorCode, State, PastACL
<1>6. r.age \in Nat /\ UnknownGrace \in Nat /\ FixedDelay \in Nat
      /\ r.create \in {"none", "open", "rejected", "failed", "timeout"}
  BY BudgetAssumption DEF Delivery
<1>7. R = CASE recovery.effect -> succeed(saw)
          [] ~recovery.effect /\ recovery.found /\ jobs[job].status = "failed" ->
                retrySubmission(saw, "provider_failed", "failed")
          [] ~recovery.effect /\ recovery.found /\ jobs[job].status # "failed" ->
                [schedule(saw, "submitted", FixedDelay, "none") EXCEPT !.job = job]
          [] ~recovery.effect /\ ~recovery.found /\ r.age < UnknownGrace ->
                scheduleUnknown(saw, IF recovery.ambiguous
                                     THEN "discover_retryable" ELSE "submit_unknown")
          [] ~recovery.effect /\ ~recovery.found /\ r.age >= UnknownGrace ->
                IF /\ r.err = "submit_retryable"
                   /\ r.submits < MaxSubmissions
                   /\ ~recovery.ambiguous
                THEN retrySubmission(saw, "submit_retryable", r.create)
                ELSE dead(saw, "discover_exhausted")
  BY DEF Recovered
<1> HIDE DEF recovery, job, saw, R
<1> SUFFICES /\ R.purge = r.purge /\ R.submits = r.submits
             /\ \/ R.state = "dead_letter"
                \/ R.state = "succeeded" /\ \E j \in seen : jobs[j].status = "success"
                \/ R.state = "pending_submit" /\ R.create = "failed"
                \/ R.state = "pending_submit" /\ R.create = r.create /\ r.err = "submit_retryable"
                \/ R.state = "submitted" /\ R.job \in seen
                \/ R.state = "submitting" /\ R.err # "submit_retryable"
  BY DEF R
<1>8. CASE recovery.effect
  <2>1. R = succeed(saw)  BY <1>7, <1>8
  <2> QED  BY <1>1, <1>4, <1>5, <1>8, <2>1, FinalType, FinalFields
<1>9. CASE ~recovery.effect /\ recovery.found /\ jobs[job].status = "failed"
  <2>1. R = retrySubmission(saw, "provider_failed", "failed")  BY <1>7, <1>9
  <2> QED  BY <1>1, <1>5, <2>1, RetryFields
<1>10. CASE ~recovery.effect /\ recovery.found /\ jobs[job].status # "failed"
  <2> DEFINE s == schedule(saw, "submitted", FixedDelay, "none")
  <2>1. R = [s EXCEPT !.job = job]  BY <1>7, <1>10
  <2>2. s \in Delivery /\ s.state = "submitted"  BY <1>1, <1>5, <1>6, ScheduleType
  <2>3. s.purge = saw.purge /\ s.submits = saw.submits  BY <1>1, <1>5, <1>6, ScheduleFields
  <2> HIDE DEF s
  <2>4. R.purge = s.purge /\ R.submits = s.submits /\ R.state = s.state /\ R.job = job
    BY <2>1, <2>2 DEF Delivery
  <2> QED  BY <1>1, <1>3, <1>10, <2>2, <2>3, <2>4
<1>11. CASE ~recovery.effect /\ ~recovery.found /\ r.age < UnknownGrace
  <2> DEFINE c == IF recovery.ambiguous THEN "discover_retryable" ELSE "submit_unknown"
  <2>1. R = scheduleUnknown(saw, c)  BY <1>6, <1>7, <1>11
  <2>2. c \in ErrorCode /\ c # "submit_retryable"  BY <1>5
  <2> HIDE DEF c
  <2> QED  BY <1>1, <2>1, <2>2, UnknownFields
<1>12. CASE ~recovery.effect /\ ~recovery.found /\ r.age >= UnknownGrace
  <2>1. CASE r.err = "submit_retryable" /\ r.submits < MaxSubmissions /\ ~recovery.ambiguous
    <3>1. R = retrySubmission(saw, "submit_retryable", r.create)  BY <1>6, <1>7, <1>12, <2>1
    <3> QED  BY <1>1, <1>5, <1>6, <2>1, <3>1, RetryFields
  <2>2. CASE ~(r.err = "submit_retryable" /\ r.submits < MaxSubmissions /\ ~recovery.ambiguous)
    <3>1. R = dead(saw, "discover_exhausted")  BY <1>6, <1>7, <1>12, <2>2
    <3> QED  BY <1>1, <1>5, <3>1, FinalType, FinalFields
  <2> QED  BY <2>1, <2>2
<1> QED  BY <1>2, <1>6, <1>8, <1>9, <1>10, <1>11, <1>12

(* What a poll writes. *)
LEMMA PolledFields ==
  ASSUME NEW r \in Delivery, NEW st \in {"processing", "success", "failed"}
  PROVE  /\ Polled(r, st).purge = r.purge /\ Polled(r, st).submits = r.submits
         /\ \/ Polled(r, st).state = "dead_letter"
            \/ Polled(r, st).state = "succeeded" /\ st = "success"
            \/ Polled(r, st).state = "pending_submit" /\ Polled(r, st).create \in {"failed", "timeout"}
            \/ Polled(r, st).state = "submitted" /\ Polled(r, st).job = r.job
         /\ PollFailed(r).purge = r.purge /\ PollFailed(r).submits = r.submits
         /\ \/ PollFailed(r).state = "dead_letter"
            \/ PollFailed(r).state = "submitted" /\ PollFailed(r).job = r.job
<1>1. /\ "provider_failed" \in ErrorCode /\ "none" \in ErrorCode
      /\ "provider_pending_timeout" \in ErrorCode /\ "poll_exhausted" \in ErrorCode
      /\ "poll_retryable" \in ErrorCode /\ "submitted" \in State
  BY DEF ErrorCode, State, PastACL
<1>2. r.age \in Nat /\ r.polls \in Nat /\ PendingTimeout \in Nat /\ MaxPollFailures \in Nat
  BY BudgetAssumption DEF Delivery
<1> DEFINE d == retryBackoff(r.polls + 1)
<1>3. d \in Nat  BY <1>2, BackoffType
<1>4. /\ Polled(r, st).purge = r.purge /\ Polled(r, st).submits = r.submits
      /\ \/ Polled(r, st).state = "dead_letter"
         \/ Polled(r, st).state = "succeeded" /\ st = "success"
         \/ Polled(r, st).state = "pending_submit" /\ Polled(r, st).create \in {"failed", "timeout"}
         \/ Polled(r, st).state = "submitted" /\ Polled(r, st).job = r.job
  <2>1. CASE st = "success"
    <3>1. Polled(r, st) = succeed(r)  BY <2>1 DEF Polled
    <3> QED  BY <1>1, <2>1, <3>1, FinalType, FinalFields
  <2>2. CASE st = "failed"
    <3>1. Polled(r, st) = retrySubmission(r, "provider_failed", "failed")  BY <2>2 DEF Polled
    <3> QED  BY <1>1, <3>1, RetryFields
  <2>3. CASE st = "processing" /\ r.age >= PendingTimeout
    <3>1. Polled(r, st) = retrySubmission(r, "provider_pending_timeout", "timeout")
      BY <1>2, <2>3 DEF Polled
    <3> QED  BY <1>1, <3>1, RetryFields
  <2>4. CASE st = "processing" /\ r.age < PendingTimeout
    <3> DEFINE s == schedule(r, "submitted", d, "none")
    <3>1. Polled(r, st) = [s EXCEPT !.polls = @ + 1]  BY <1>2, <2>4 DEF Polled
    <3> HIDE DEF d
    <3>2. s \in Delivery /\ s.state = "submitted"  BY <1>1, <1>3, ScheduleType
    <3>3. s.purge = r.purge /\ s.submits = r.submits /\ s.job = r.job  BY <1>1, <1>3, ScheduleFields
    <3> HIDE DEF s
    <3> QED  BY <3>1, <3>2, <3>3 DEF Delivery
  <2> QED  BY <1>2, <2>1, <2>2, <2>3, <2>4
<1>5. /\ PollFailed(r).purge = r.purge /\ PollFailed(r).submits = r.submits
      /\ \/ PollFailed(r).state = "dead_letter"
         \/ PollFailed(r).state = "submitted" /\ PollFailed(r).job = r.job
  <2>1. CASE r.polls + 1 >= MaxPollFailures
    <3>1. PollFailed(r) = dead(r, "poll_exhausted")  BY <2>1 DEF PollFailed
    <3> QED  BY <1>1, <3>1, FinalType, FinalFields
  <2>2. CASE ~(r.polls + 1 >= MaxPollFailures)
    <3> DEFINE s == schedule(r, "submitted", d, "poll_retryable")
    <3>1. PollFailed(r) = [s EXCEPT !.polls = @ + 1]  BY <2>2 DEF PollFailed
    <3> HIDE DEF d
    <3>2. s \in Delivery /\ s.state = "submitted"  BY <1>1, <1>3, ScheduleType
    <3>3. s.purge = r.purge /\ s.submits = r.submits /\ s.job = r.job  BY <1>1, <1>3, ScheduleFields
    <3> HIDE DEF s
    <3> QED  BY <3>1, <3>2, <3>3 DEF Delivery
  <2> QED  BY <2>1, <2>2
<1> QED  BY <1>4, <1>5

(* What a refused Create writes. *)
LEMMA RefusedFields ==
  ASSUME NEW r \in Delivery, NEW kind \in {"permanent", "retryable", "unknown"}
  PROVE  /\ Refused(r, kind).purge = r.purge /\ Refused(r, kind).submits = r.submits
         /\ \/ Refused(r, kind).state = "dead_letter"
            \/ /\ Refused(r, kind).state = "submitting"
               /\ Refused(r, kind).err = "submit_retryable" => Refused(r, kind).create = "rejected"
<1>1. /\ "submit_permanent" \in ErrorCode /\ "submit_unknown" \in ErrorCode
      /\ "submit_retryable" \in ErrorCode /\ "submitting" \in State /\ FixedDelay \in Nat
  BY BudgetAssumption DEF ErrorCode, State, PastACL
<1>2. CASE kind = "permanent"
  <2>1. Refused(r, kind) = dead(r, "submit_permanent")  BY <1>2 DEF Refused
  <2>2. dead(r, "submit_permanent").state = "dead_letter"  BY <1>1, FinalType
  <2> QED  BY <1>1, <2>1, <2>2, FinalFields
<1>3. CASE kind = "unknown"
  <2> DEFINE s == schedule(r, "submitting", FixedDelay, "submit_unknown")
  <2>1. Refused(r, kind) = s  BY <1>3 DEF Refused
  <2>2. s.state = "submitting"  BY <1>1, ScheduleType
  <2>3. s.purge = r.purge /\ s.submits = r.submits /\ s.err = "submit_unknown"
    BY <1>1, ScheduleFields
  <2> HIDE DEF s
  <2> QED  BY <2>1, <2>2, <2>3
<1>4. CASE kind = "retryable"
  <2> DEFINE s == schedule(r, "submitting", FixedDelay, "submit_retryable")
  <2>1. Refused(r, kind) = [s EXCEPT !.create = "rejected"]  BY <1>4 DEF Refused
  <2>2. s \in Delivery /\ s.state = "submitting"  BY <1>1, ScheduleType
  <2>3. s.purge = r.purge /\ s.submits = r.submits  BY <1>1, ScheduleFields
  <2> HIDE DEF s
  <2> QED  BY <2>1, <2>2, <2>3 DEF Delivery
<1> QED  BY <1>2, <1>3, <1>4

(* What an accepted Create writes. *)
LEMMA AnswerFields ==
  ASSUME NEW r \in Delivery, NEW j \in Job
  PROVE  /\ Accepted(r, j).purge = r.purge /\ Accepted(r, j).submits = r.submits
         /\ Accepted(r, j).state = "submitted" /\ Accepted(r, j).job = j
<1> DEFINE c == IF jobs[j].status = "partial" THEN "provider_failed" ELSE "none"
           s == schedule(r, "submitted", FixedDelay, c)
<1>1. c \in ErrorCode /\ "submitted" \in State /\ FixedDelay \in Nat
  BY BudgetAssumption DEF ErrorCode, State, PastACL
<1>2. Accepted(r, j) = [s EXCEPT !.job = j]  BY DEF Accepted
<1> HIDE DEF c
<1>3. s \in Delivery /\ s.state = "submitted"  BY <1>1, ScheduleType
<1>4. s.purge = r.purge /\ s.submits = r.submits  BY <1>1, ScheduleFields
<1> HIDE DEF s
<1> QED  BY <1>2, <1>3, <1>4 DEF Delivery

(* What the end of an ACL call and the start of a submission write. *)
LEMMA StageFields ==
  ASSUME NEW r \in Delivery
  PROVE  /\ ACLFailed(r).purge = r.purge /\ ACLFailed(r).submits = r.submits
         /\ LET s == [r EXCEPT !.state = "pending_submit", !.nextIn = 0, !.err = "none"] IN
              s.purge = r.purge /\ s.submits = r.submits /\ s.state = "pending_submit"
         /\ Started(r).purge = r.purge /\ Started(r).state = "submitting" /\ Started(r).err = "none"
<1>1. "acl_exhausted" \in ErrorCode /\ "acl_retryable" \in ErrorCode /\ "pending_acl" \in State
      /\ r.acls + 1 \in Nat
  BY DEF ErrorCode, State, Delivery
<1>2. ACLFailed(r).purge = r.purge /\ ACLFailed(r).submits = r.submits
  <2>1. CASE r.acls + 1 >= MaxACLAttempts
    BY <1>1, <2>1, FinalFields DEF ACLFailed
  <2>2. CASE ~(r.acls + 1 >= MaxACLAttempts)
    <3> DEFINE d == retryBackoff(r.acls + 1)
               s == schedule(r, "pending_acl", d, "acl_retryable")
    <3>1. ACLFailed(r) = [s EXCEPT !.acls = r.acls + 1]  BY <2>2 DEF ACLFailed
    <3>2. d \in Nat  BY <1>1, BackoffType
    <3> HIDE DEF d
    <3>3. s \in Delivery  BY <1>1, <3>2, ScheduleType
    <3>4. s.purge = r.purge /\ s.submits = r.submits  BY <1>1, <3>2, ScheduleFields
    <3> HIDE DEF s
    <3> QED  BY <3>1, <3>3, <3>4 DEF Delivery
  <2> QED  BY <2>1, <2>2
<1>3. LET s == [r EXCEPT !.state = "pending_submit", !.nextIn = 0, !.err = "none"] IN
        s.purge = r.purge /\ s.submits = r.submits /\ s.state = "pending_submit"
  BY DEF Delivery
<1>4. Started(r).purge = r.purge /\ Started(r).state = "submitting" /\ Started(r).err = "none"
  BY DEF Started, Delivery
<1> QED  BY <1>2, <1>3, <1>4

(* Every outcome of a claim gives the lease back. *)
LEMMA RetryGivesBack ==
  ASSUME NEW r \in Delivery, NEW c, NEW how
  PROVE  /\ succeed(r).token = None /\ dead(r, c).token = None
         /\ retrySubmission(r, c, how).token = None
         /\ scheduleUnknown(r, c).token = None
<1>1. succeed(r).token = None /\ dead(r, c).token = None
  BY DEF succeed, dead, Unleased, Delivery
<1>2. retrySubmission(r, c, how).token = None
  BY DEF retrySubmission, dead, schedule, Unleased, Delivery
<1>3. scheduleUnknown(r, c).token = None
  BY DEF scheduleUnknown, dead, schedule, Unleased, Delivery
<1> QED  BY <1>1, <1>2, <1>3

(* So do the answers of the provider and the failures of the ACL call. *)
LEMMA AnswerGivesBack ==
  ASSUME NEW r \in Delivery
  PROVE  /\ ACLFailed(r).token = None
         /\ \A j : Accepted(r, j).token = None
         /\ \A kind \in {"permanent", "retryable", "unknown"} : Refused(r, kind).token = None
         /\ \A st \in {"processing", "success", "failed"} : Polled(r, st).token = None
         /\ PollFailed(r).token = None
<1>1. r.age \in Nat /\ PendingTimeout \in Nat  BY BudgetAssumption DEF Delivery
<1>2. ACLFailed(r).token = None
  BY DEF ACLFailed, dead, schedule, Unleased, Delivery
<1>3. \A j : Accepted(r, j).token = None
  BY DEF Accepted, schedule, Unleased, Delivery
<1>4. \A kind \in {"permanent", "retryable", "unknown"} : Refused(r, kind).token = None
  BY DEF Refused, dead, schedule, Unleased, Delivery
<1>5. ASSUME NEW st \in {"processing", "success", "failed"} PROVE Polled(r, st).token = None
  <2>1. CASE st = "success"
    <3>1. Polled(r, st) = succeed(r)  BY <2>1 DEF Polled
    <3> QED  BY <3>1, RetryGivesBack
  <2>2. CASE st = "failed"
    <3>1. Polled(r, st) = retrySubmission(r, "provider_failed", "failed")  BY <2>2 DEF Polled
    <3> QED  BY <3>1, RetryGivesBack
  <2>3. CASE st = "processing" /\ r.age >= PendingTimeout
    <3>1. Polled(r, st) = retrySubmission(r, "provider_pending_timeout", "timeout")
      BY <1>1, <2>3 DEF Polled
    <3> QED  BY <3>1, RetryGivesBack
  <2>4. CASE st = "processing" /\ r.age < PendingTimeout
    <3>1. Polled(r, st) = [schedule(r, "submitted", retryBackoff(r.polls + 1), "none")
                             EXCEPT !.polls = @ + 1]
      BY <1>1, <2>4 DEF Polled
    <3> QED  BY <3>1 DEF schedule, Unleased, Delivery
  <2> QED  BY <1>1, <2>1, <2>2, <2>3, <2>4
<1>6. PollFailed(r).token = None
  BY DEF PollFailed, dead, schedule, Unleased, Delivery
<1> QED  BY <1>2, <1>3, <1>4, <1>5, <1>6

(* And whatever a reconciliation concludes. *)
LEMMA RecoveredGivesBack ==
  ASSUME NEW r \in Delivery, NEW seen \in SUBSET Job, NEW uncertain \in BOOLEAN
  PROVE  Recovered(r, seen, uncertain).token = None
<1> DEFINE recovery == Recover(seen, uncertain)
           job == CHOOSE j \in seen : TRUE
           saw == [r EXCEPT !.seen = IF seen = {} /\ ~uncertain THEN "empty" ELSE "other"]
           R == Recovered(r, seen, uncertain)
<1>1. saw \in Delivery  BY DEF Delivery
<1>2. recovery.effect \in BOOLEAN /\ recovery.found \in BOOLEAN  BY DEF Recover
<1>3. r.age \in Nat /\ UnknownGrace \in Nat  BY BudgetAssumption DEF Delivery
<1>4. R = CASE recovery.effect -> succeed(saw)
          [] ~recovery.effect /\ recovery.found /\ jobs[job].status = "failed" ->
                retrySubmission(saw, "provider_failed", "failed")
          [] ~recovery.effect /\ recovery.found /\ jobs[job].status # "failed" ->
                [schedule(saw, "submitted", FixedDelay, "none") EXCEPT !.job = job]
          [] ~recovery.effect /\ ~recovery.found /\ r.age < UnknownGrace ->
                scheduleUnknown(saw, IF recovery.ambiguous
                                     THEN "discover_retryable" ELSE "submit_unknown")
          [] ~recovery.effect /\ ~recovery.found /\ r.age >= UnknownGrace ->
                IF /\ r.err = "submit_retryable"
                   /\ r.submits < MaxSubmissions
                   /\ ~recovery.ambiguous
                THEN retrySubmission(saw, "submit_retryable", r.create)
                ELSE dead(saw, "discover_exhausted")
  BY DEF Recovered
<1> DEFINE code == IF recovery.ambiguous THEN "discover_retryable" ELSE "submit_unknown"
           found == [schedule(saw, "submitted", FixedDelay, "none") EXCEPT !.job = job]
<1>5. found.token = None  BY <1>1 DEF schedule, Unleased, Delivery
<1> HIDE DEF recovery, job, saw, R, found, code
<1>6. \/ R = succeed(saw) \/ R = dead(saw, "discover_exhausted")
      \/ R = retrySubmission(saw, "provider_failed", "failed")
      \/ R = retrySubmission(saw, "submit_retryable", r.create)
      \/ R = scheduleUnknown(saw, code)
      \/ R = found
  BY <1>2, <1>3, <1>4 DEF found, code
<1>7. R.token = None  BY <1>1, <1>5, <1>6, RetryGivesBack
<1> QED  BY <1>7 DEF R

-----------------------------------------------------------------------------
(***************************************************************************)
(* What a claim may still write.  While a claim's fence holds, the row is  *)
(* in the very state the claim was taken for; a second submission of the   *)
(* same generation can only start from "pending_submit", and every write   *)
(* of that state records how the request before it ended.                  *)
(***************************************************************************)
AtStage(pc, state) ==
    \/ pc = "acl" /\ state = "pending_acl"
    \/ pc = "submit" /\ state = "pending_submit"
    \/ pc \in {"create", "recover"} /\ state = "submitting"
    \/ pc = "poll" /\ state = "submitted"

Stages == {"acl", "submit", "create", "recover", "poll"}

Told == {"rejected", "failed", "timeout"}

ReplayRow(q) ==
    /\ q.state = "pending_acl" => q.submits = 0
    /\ q.state = "pending_submit" /\ q.submits > 0 => q.create \in Told
    /\ q.state = "submitting" /\ q.err = "submit_retryable" => q.create = "rejected"

StageInv ==
    /\ \A w \in Worker : wk[w].pc # "idle" => wk[w].gen <= row[wk[w].img].gen
    /\ \A w \in Worker : wk[w].pc \in Stages /\ Fenced(w) => AtStage(wk[w].pc, row[wk[w].img].state)
    /\ \A i \in Image : ReplayRow(row[i])

(* What a worker's return writes, stage by stage, with the evidence each     *)
(* outcome rests on.                                                         *)
Outcome(w, r, k) ==
    LET i == wk[w].img
        r0 == row[i]
    IN  \/ k = Idle /\ r.state = "dead_letter"
        \/ /\ wk[w].pc = "acl"
           /\ \/ r.state = "pending_submit" /\ k = [wk[w] EXCEPT !.pc = "submit"]
              \/ k = Idle /\ r.state = "pending_acl"
              \/ k = Idle /\ r.state = "succeeded" /\ ~r0.purge
        \/ /\ wk[w].pc = "create" /\ k = Idle
           /\ \/ r.state = "submitted" /\ r.job = wk[w].job
              \/ /\ r.state = "submitting"
                 /\ r.err = "submit_retryable" => r.create = "rejected"
        \/ /\ wk[w].pc = "recover" /\ k = Idle
           /\ \/ r.state = "succeeded" /\ \E j \in Candidates(i) : jobs[j].status = "success"
              \/ r.state = "pending_submit" /\ r.create = "failed"
              \/ r.state = "pending_submit" /\ r.create = r0.create /\ r0.err = "submit_retryable"
              \/ r.state = "submitted" /\ r.job \in Candidates(i)
              \/ r.state = "submitting" /\ r.err # "submit_retryable"
        \/ /\ wk[w].pc = "poll" /\ k = Idle
           /\ \/ r.state = "succeeded" /\ r0.job # None /\ jobs[r0.job].status = "success"
              \/ r.state = "pending_submit" /\ r.create \in {"failed", "timeout"}
              \/ r.state = "submitted" /\ r.job = r0.job

Writes(w, r, k) ==
    LET r0 == row[wk[w].img] IN
    /\ wk[w].pc \in Stages
    /\ UpdateClaim(w, r, k)
    /\ Kept(r0, r) /\ r.purge = r0.purge
    /\ r.token = IF k.pc = "idle" THEN None ELSE r0.token
    /\ mod' = mod /\ acl' = acl /\ cache' = cache
    /\ \/ r.submits = r0.submits /\ jobs' = jobs /\ Outcome(w, r, k)
       \/ /\ wk[w].pc = "submit" /\ k = [wk[w] EXCEPT !.pc = "create"]
          /\ r.state = "submitting" /\ r.err = "none"
          /\ jobs' = IF Fenced(w) THEN OpenWindow(wk[w].img) ELSE jobs

(* Every return of a worker is one such write, or the release of a lease.    *)
LEMMA ReturnWrites ==
  ASSUME TypeOK, NEW w \in Worker, Return(w)
  PROVE  ReleaseSuperseded(w) \/ \E r, k : Writes(w, r, k)
<1> DEFINE i == wk[w].img
           r0 == row[i]
<1>1. wk[w].pc # "idle" => r0 \in Delivery  BY DEF TypeOK
<1>2. /\ "none" \in ErrorCode /\ "submit_exhausted" \in ErrorCode
      /\ "discover_permanent" \in ErrorCode /\ "discover_retryable" \in ErrorCode
      /\ "poll_permanent" \in ErrorCode
  BY DEF ErrorCode
<1>3. CASE applyACL_ok(w)
  <2>1. /\ wk[w].pc = "acl" /\ r0 \in Delivery
        /\ mod' = mod /\ acl' = acl /\ cache' = cache /\ jobs' = jobs
    BY <1>1, <1>3 DEF applyACL_ok
  <2>2. CASE r0.purge
    <3> DEFINE r == [r0 EXCEPT !.state = "pending_submit", !.nextIn = 0, !.err = "none"]
               k == [wk[w] EXCEPT !.pc = "submit"]
    <3>1. UpdateClaim(w, r, k)  BY <1>3, <2>2 DEF applyACL_ok
    <3>2. Kept(r0, r)  BY <2>1, ACLDone DEF Advanced
    <3>3. r.purge = r0.purge /\ r.submits = r0.submits /\ r.state = "pending_submit"
      BY <2>1, StageFields
    <3>4. k.pc = "submit" /\ r.token = r0.token  BY <2>1 DEF TypeOK, Claimed, Delivery
    <3> HIDE DEF r
    <3>5. Writes(w, r, k)  BY <2>1, <3>1, <3>2, <3>3, <3>4 DEF Writes, Outcome, Stages
    <3> QED  BY <3>5
  <2>3. CASE ~r0.purge
    <3> DEFINE r == succeed(r0)
    <3>1. UpdateClaim(w, r, Idle)  BY <1>3, <2>3 DEF applyACL_ok
    <3>2. Kept(r0, r) /\ r.state = "succeeded"  BY <1>2, <2>1, FinalType DEF Kept
    <3>3. r.purge = r0.purge /\ r.submits = r0.submits  BY <1>2, <2>1, FinalFields
    <3>4. r.token = None /\ Idle.pc = "idle"  BY <2>1, RetryGivesBack, IdleType
    <3> HIDE DEF r
    <3>5. Writes(w, r, Idle)  BY <2>1, <2>3, <3>1, <3>2, <3>3, <3>4 DEF Writes, Outcome, Stages
    <3> QED  BY <3>5
  <2> QED  BY <2>2, <2>3
<1>4. CASE applyACL_error(w)
  <2> DEFINE r == ACLFailed(r0)
  <2>1. /\ wk[w].pc = "acl" /\ r0 \in Delivery /\ UpdateClaim(w, r, Idle)
        /\ mod' = mod /\ acl' = acl /\ cache' = cache /\ jobs' = jobs
    BY <1>1, <1>4 DEF applyACL_error
  <2>2. Kept(r0, r) /\ r.state \in {"pending_acl", "dead_letter"}  BY <2>1, ACLFailedKeeps
  <2>3. r.purge = r0.purge /\ r.submits = r0.submits  BY <2>1, StageFields
  <2>4. r.token = None /\ Idle.pc = "idle"  BY <2>1, AnswerGivesBack, IdleType
  <2> HIDE DEF r
  <2>5. Writes(w, r, Idle)  BY <2>1, <2>2, <2>3, <2>4 DEF Writes, Outcome, Stages
  <2> QED  BY <2>5
<1>5. CASE submit(w)
  <2>1. /\ wk[w].pc = "submit" /\ r0 \in Delivery
        /\ mod' = mod /\ acl' = acl /\ cache' = cache
    BY <1>1, <1>5 DEF submit
  <2>2. CASE r0.submits >= MaxSubmissions
    <3> DEFINE r == dead(r0, "submit_exhausted")
    <3>1. UpdateClaim(w, r, Idle) /\ jobs' = jobs  BY <1>5, <2>2 DEF submit
    <3>2. Kept(r0, r) /\ r.state = "dead_letter"  BY <1>2, <2>1, FinalType DEF Kept
    <3>3. r.purge = r0.purge /\ r.submits = r0.submits  BY <1>2, <2>1, FinalFields
    <3>4. r.token = None /\ Idle.pc = "idle"  BY <2>1, RetryGivesBack, IdleType
    <3> HIDE DEF r
    <3>5. Writes(w, r, Idle)  BY <2>1, <3>1, <3>2, <3>3, <3>4 DEF Writes, Outcome, Stages
    <3> QED  BY <3>5
  <2>3. CASE ~(r0.submits >= MaxSubmissions)
    <3> DEFINE r == Started(r0)
               k == [wk[w] EXCEPT !.pc = "create"]
    <3>1. UpdateClaim(w, r, k) /\ jobs' = IF Fenced(w) THEN OpenWindow(i) ELSE jobs
      BY <1>5, <2>3 DEF submit
    <3>2. Kept(r0, r)  BY <2>1, StartAdvances DEF Advanced
    <3>3. r.purge = r0.purge /\ r.state = "submitting" /\ r.err = "none"  BY <2>1, StageFields
    <3>4. k.pc = "create" /\ r.token = r0.token
      BY <2>1 DEF Started, TypeOK, Claimed, Delivery
    <3> HIDE DEF r
    <3>5. Writes(w, r, k)  BY <2>1, <3>1, <3>2, <3>3, <3>4 DEF Writes, Stages
    <3> QED  BY <3>5
  <2> QED  BY <2>2, <2>3
<1>6. CASE Submit_ok(w)
  <2> DEFINE r == Accepted(r0, wk[w].job)
  <2>1. /\ wk[w].pc = "create" /\ r0 \in Delivery /\ UpdateClaim(w, r, Idle)
        /\ mod' = mod /\ acl' = acl /\ cache' = cache /\ jobs' = jobs
    BY <1>1, <1>6 DEF Submit_ok
  <2>2. wk[w].job \in Job  BY <1>6 DEF Submit_ok, TypeOK, Claimed
  <2>3. Kept(r0, r)  BY <2>1, <2>2, SubmitAdvances DEF Advanced
  <2>4. /\ r.purge = r0.purge /\ r.submits = r0.submits
        /\ r.state = "submitted" /\ r.job = wk[w].job
    BY <2>1, <2>2, AnswerFields
  <2>5. r.token = None /\ Idle.pc = "idle"  BY <2>1, AnswerGivesBack, IdleType
  <2> HIDE DEF r
  <2>6. Writes(w, r, Idle)  BY <2>1, <2>3, <2>4, <2>5 DEF Writes, Outcome, Stages
  <2> QED  BY <2>6
<1>7. ASSUME NEW kind \in {"permanent", "retryable", "unknown"}, Submit_error(w, kind)
      PROVE  \E r, k : Writes(w, r, k)
  <2> DEFINE r == Refused(r0, kind)
  <2>1. /\ wk[w].pc = "create" /\ r0 \in Delivery /\ UpdateClaim(w, r, Idle)
        /\ mod' = mod /\ acl' = acl /\ cache' = cache /\ jobs' = jobs
    BY <1>1, <1>7 DEF Submit_error
  <2>2. Kept(r0, r)  BY <2>1, RefusedAdvances DEF Advanced
  <2>3. /\ r.purge = r0.purge /\ r.submits = r0.submits
        /\ \/ r.state = "dead_letter"
           \/ r.state = "submitting" /\ (r.err = "submit_retryable" => r.create = "rejected")
    BY <2>1, RefusedFields
  <2>4. r.token = None /\ Idle.pc = "idle"  BY <2>1, AnswerGivesBack, IdleType
  <2> HIDE DEF r
  <2>5. Writes(w, r, Idle)  BY <2>1, <2>2, <2>3, <2>4 DEF Writes, Outcome, Stages
  <2> QED  BY <2>5
<1>8. ASSUME NEW seen \in SUBSET Job, NEW uncertain \in BOOLEAN,
             recoverSubmission(w, seen, uncertain)
      PROVE  \E r, k : Writes(w, r, k)
  <2> DEFINE r == Recovered(r0, seen, uncertain)
  <2>1. /\ wk[w].pc = "recover" /\ r0 \in Delivery /\ UpdateClaim(w, r, Idle)
        /\ seen \subseteq Candidates(i)
        /\ mod' = mod /\ acl' = acl /\ cache' = cache /\ jobs' = jobs
    BY <1>1, <1>8 DEF recoverSubmission
  <2>2. Kept(r0, r)  BY <2>1, RecoveredAdvances DEF Advanced
  <2>3. /\ r.purge = r0.purge /\ r.submits = r0.submits
        /\ \/ r.state = "dead_letter"
           \/ r.state = "succeeded" /\ \E j \in seen : jobs[j].status = "success"
           \/ r.state = "pending_submit" /\ r.create = "failed"
           \/ r.state = "pending_submit" /\ r.create = r0.create /\ r0.err = "submit_retryable"
           \/ r.state = "submitted" /\ r.job \in seen
           \/ r.state = "submitting" /\ r.err # "submit_retryable"
    BY <2>1, RecoveredFields
  <2>4. r.token = None /\ Idle.pc = "idle"  BY <2>1, RecoveredGivesBack, IdleType
  <2> HIDE DEF r
  <2>5. Outcome(w, r, Idle)  BY <2>1, <2>3 DEF Outcome
  <2>6. Writes(w, r, Idle)  BY <2>1, <2>2, <2>3, <2>4, <2>5 DEF Writes, Stages
  <2> QED  BY <2>6
<1>9. ASSUME NEW permanent \in BOOLEAN, recoverSubmission_error(w, permanent)
      PROVE  \E r, k : Writes(w, r, k)
  <2> DEFINE r == IF permanent THEN dead(r0, "discover_permanent")
                  ELSE scheduleUnknown(r0, "discover_retryable")
  <2>1. /\ wk[w].pc = "recover" /\ r0 \in Delivery /\ UpdateClaim(w, r, Idle)
        /\ mod' = mod /\ acl' = acl /\ cache' = cache /\ jobs' = jobs
    BY <1>1, <1>9 DEF recoverSubmission_error
  <2>2. /\ Kept(r0, r) /\ r.purge = r0.purge /\ r.submits = r0.submits
        /\ r.state = "dead_letter" \/ (r.state = "submitting" /\ r.err # "submit_retryable")
    <3>1. CASE permanent
      <4> DEFINE q == dead(r0, "discover_permanent")
      <4>1. r = q  BY <3>1
      <4>2. Kept(r0, q) /\ q.state = "dead_letter"  BY <1>2, <2>1, FinalType DEF Kept
      <4>3. q.purge = r0.purge /\ q.submits = r0.submits  BY <1>2, <2>1, FinalFields
      <4> QED  BY <4>1, <4>2, <4>3
    <3>2. CASE ~permanent
      <4>1. r = scheduleUnknown(r0, "discover_retryable")  BY <3>2
      <4>2. Kept(r0, r)  BY <1>2, <2>1, <4>1, UnknownAdvances DEF Advanced
      <4>3. /\ r.purge = r0.purge /\ r.submits = r0.submits
            /\ r.state = "dead_letter" \/ (r.state = "submitting" /\ r.err = "discover_retryable")
        BY <1>2, <2>1, <4>1, UnknownFields
      <4> QED  BY <4>2, <4>3
    <3> QED  BY <3>1, <3>2
  <2>3. r.token = None /\ Idle.pc = "idle"  BY <2>1, RetryGivesBack, AnswerGivesBack, IdleType
  <2> HIDE DEF r
  <2>4. Writes(w, r, Idle)  BY <2>1, <2>2, <2>3 DEF Writes, Outcome, Stages
  <2> QED  BY <2>4
<1>10. ASSUME NEW st \in {"processing", "success", "failed"}, poll(w, st)
       PROVE  \E r, k : Writes(w, r, k)
  <2>1. /\ wk[w].pc = "poll" /\ r0 \in Delivery
        /\ mod' = mod /\ acl' = acl /\ cache' = cache /\ jobs' = jobs
    BY <1>1, <1>10 DEF poll
  <2>2. CASE r0.job = None
    <3> DEFINE r == dead(r0, "poll_permanent")
    <3>1. UpdateClaim(w, r, Idle)  BY <1>10, <2>2 DEF poll
    <3>2. Kept(r0, r) /\ r.state = "dead_letter"  BY <1>2, <2>1, FinalType DEF Kept
    <3>3. r.purge = r0.purge /\ r.submits = r0.submits  BY <1>2, <2>1, FinalFields
    <3>4. r.token = None /\ Idle.pc = "idle"  BY <2>1, RetryGivesBack, IdleType
    <3> HIDE DEF r
    <3>5. Writes(w, r, Idle)  BY <2>1, <3>1, <3>2, <3>3, <3>4 DEF Writes, Outcome, Stages
    <3> QED  BY <3>5
  <2>3. CASE r0.job # None
    <3> DEFINE r == Polled(r0, st)
    <3>1. UpdateClaim(w, r, Idle) /\ st \in Describe(r0.job)  BY <1>10, <2>3 DEF poll
    <3>2. st = "success" => jobs[r0.job].status = "success"  BY <3>1 DEF Describe
    <3>3. Kept(r0, r)  BY <2>1, PolledAdvances DEF Advanced
    <3>4. /\ r.purge = r0.purge /\ r.submits = r0.submits
          /\ \/ r.state = "dead_letter"
             \/ r.state = "succeeded" /\ st = "success"
             \/ r.state = "pending_submit" /\ r.create \in {"failed", "timeout"}
             \/ r.state = "submitted" /\ r.job = r0.job
      BY <2>1, PolledFields
    <3>5. r.token = None /\ Idle.pc = "idle"  BY <2>1, AnswerGivesBack, IdleType
    <3> HIDE DEF r
    <3>6. Writes(w, r, Idle)
      BY <2>1, <2>3, <3>1, <3>2, <3>3, <3>4, <3>5 DEF Writes, Outcome, Stages
    <3> QED  BY <3>6
  <2> QED  BY <2>2, <2>3
<1>11. ASSUME NEW permanent \in BOOLEAN, poll_error(w, permanent)
       PROVE  \E r, k : Writes(w, r, k)
  <2> DEFINE r == IF permanent THEN dead(r0, "poll_permanent") ELSE PollFailed(r0)
  <2>1. /\ wk[w].pc = "poll" /\ r0 \in Delivery /\ UpdateClaim(w, r, Idle)
        /\ mod' = mod /\ acl' = acl /\ cache' = cache /\ jobs' = jobs
    BY <1>1, <1>11 DEF poll_error
  <2>2. /\ Kept(r0, r) /\ r.purge = r0.purge /\ r.submits = r0.submits
        /\ r.state = "dead_letter" \/ (r.state = "submitted" /\ r.job = r0.job)
    <3>1. CASE permanent
      <4> DEFINE q == dead(r0, "poll_permanent")
      <4>1. r = q  BY <3>1
      <4>2. Kept(r0, q) /\ q.state = "dead_letter"  BY <1>2, <2>1, FinalType DEF Kept
      <4>3. q.purge = r0.purge /\ q.submits = r0.submits  BY <1>2, <2>1, FinalFields
      <4> QED  BY <4>1, <4>2, <4>3
    <3>2. CASE ~permanent
      <4>1. r = PollFailed(r0)  BY <3>2
      <4>2. Kept(r0, r)  BY <2>1, <4>1, PolledAdvances DEF Advanced
      <4>3. /\ r.purge = r0.purge /\ r.submits = r0.submits
            /\ r.state = "dead_letter" \/ (r.state = "submitted" /\ r.job = r0.job)
        BY <2>1, <4>1, PolledFields
      <4> QED  BY <4>2, <4>3
    <3> QED  BY <3>1, <3>2
  <2>3. r.token = None /\ Idle.pc = "idle"  BY <2>1, RetryGivesBack, AnswerGivesBack, IdleType
  <2> HIDE DEF r
  <2>4. Writes(w, r, Idle)  BY <2>1, <2>2, <2>3 DEF Writes, Outcome, Stages
  <2> QED  BY <2>4
<1> QED
  BY <1>3, <1>4, <1>5, <1>6, <1>7, <1>8, <1>9, <1>10, <1>11 DEF Return

-----------------------------------------------------------------------------
(* Steps that do not write a delivery. *)

(* Only timers and the lease of the row may have changed. *)
Untouched(q, q2) ==
    /\ q2.gen = q.gen /\ q2.desired = q.desired /\ q2.purge = q.purge /\ q2.state = q.state
    /\ q2.submits = q.submits /\ q2.create = q.create /\ q2.err = q.err /\ q2.job = q.job

(* A claim that ended, was superseded, or goes on with no new lease. *)
GoesOn(w) ==
    \/ wk'[w].pc = "idle"
    \/ /\ wk[w].pc # "idle" /\ wk'[w].img = wk[w].img /\ wk'[w].gen = wk[w].gen
       /\ \/ wk'[w].pc = "release"
          \/ /\ wk'[w].pc = wk[w].pc
             /\ row'[wk[w].img].token = w => row[wk[w].img].token = w

(* Time leaves the delivery of a row alone. *)
LEMMA TickMoves ==
  ASSUME TypeOK, Tick, NEW x \in Image
  PROVE  Untouched(row[x], row'[x])
<1> DEFINE r == row[x]
           n == Down(r.nextIn)
           l == Down(r.leaseIn)
           a == IF r.state \in {"submitting", "submitted"} /\ r.age < MaxAge THEN r.age + 1 ELSE r.age
<1>1. row'[x] = [r EXCEPT !.nextIn = n, !.leaseIn = l, !.age = a]  BY DEF Tick
<1>2. r \in Delivery  BY DEF TypeOK
<1> HIDE DEF n, l, a, r
<1>3. Untouched(r, [r EXCEPT !.nextIn = n, !.leaseIn = l, !.age = a])
  BY <1>2 DEF Untouched, Delivery
<1> QED  BY <1>1, <1>3 DEF r

(* So do claims, releases and crashes. *)
LEMMA LeaseMoves ==
  ASSUME TypeOK, NEW w \in Worker, NEW i \in Image,
         ClaimDue(w, i) \/ ReleaseSuperseded(w) \/ Crash(w)
  PROVE  \A x \in Image : Untouched(row[x], row'[x])
<1>1. \A x \in Image : row[x] \in Delivery  BY DEF TypeOK
<1>2. CASE ClaimDue(w, i)
  <2>1. row' = [row EXCEPT ![i] = [row[i] EXCEPT !.token = w, !.leaseIn = Lease]]
    BY <1>2, ClaimStep
  <2> DEFINE q == [row[i] EXCEPT !.token = w, !.leaseIn = Lease]
  <2>2. Untouched(row[i], q)  BY <1>1 DEF Untouched, Delivery
  <2>3. \A x \in Image : row'[x] = row[x] \/ (x = i /\ row'[x] = q)  BY <2>1 DEF TypeOK
  <2> HIDE DEF q
  <2> QED  BY <2>2, <2>3 DEF Untouched
<1>3. CASE ReleaseSuperseded(w)
  <2> DEFINE n == wk[w].img
             q == [Unleased(row[n]) EXCEPT !.nextIn = 0]
  <2>1. n \in Image /\ (row' = row \/ row' = [row EXCEPT ![n] = q])
    BY <1>3 DEF ReleaseSuperseded, TypeOK
  <2>2. Untouched(row[n], q)  BY <1>1, <2>1 DEF Untouched, Unleased, Delivery
  <2> HIDE DEF q
  <2>3. \A x \in Image : row'[x] = row[x] \/ (x = n /\ row'[x] = q)  BY <2>1 DEF TypeOK
  <2> QED  BY <2>2, <2>3 DEF Untouched
<1>4. CASE Crash(w)
  <2> DEFINE n == wk[w].img
             q == [row[n] EXCEPT !.token = Orphan]
  <2>1. n \in Image /\ (row' = row \/ row' = [row EXCEPT ![n] = q])
    <3>1. n \in Image /\ (row' = row \/ row' = [row EXCEPT ![n].token = Orphan])
      BY <1>4 DEF Crash, TypeOK
    <3> QED  BY <1>1, <3>1 DEF TypeOK
  <2>2. Untouched(row[n], q)  BY <1>1, <2>1 DEF Untouched, Delivery
  <2> HIDE DEF q
  <2>3. \A x \in Image : row'[x] = row[x] \/ (x = n /\ row'[x] = q)  BY <2>1 DEF TypeOK
  <2> QED  BY <2>2, <2>3 DEF Untouched
<1> QED  BY <1>2, <1>3, <1>4

(* The steps that take no new claim and write no delivery. *)
Quiet ==
    /\ \A x \in Image : Untouched(row[x], row'[x])
    /\ \A v \in Worker : GoesOn(v)

(* Releases, crashes, time, and what the outside world does are quiet. *)
LEMMA QuietSteps ==
  ASSUME TypeOK,
         \/ \E w \in Worker : ReleaseSuperseded(w) \/ Crash(w) \/ SetObjectPublicAccess(w)
         \/ \E w \in Worker, j \in Job, s \in {"processing", "partial"} : CreatePurgeTask(w, j, s)
         \/ \E i \in Image, b \in BOOLEAN : LateEffect(i, b)
         \/ \E i \in Image : CacheFill(i)
         \/ \E j \in Job, s \in {"success", "failed"} : PurgeEnds(j, s)
         \/ Tick
         \/ UNCHANGED vars
  PROVE  Quiet
<1>1. CASE row' = row /\ wk' = wk
  BY <1>1 DEF Quiet, Untouched, GoesOn
<1>2. ASSUME NEW w \in Worker, ReleaseSuperseded(w) \/ Crash(w) PROVE Quiet
  <2> DEFINE i == wk[w].img
  <2>1. i \in Image  BY <1>2 DEF ReleaseSuperseded, Crash, TypeOK
  <2>2. \A x \in Image : Untouched(row[x], row'[x])  BY <1>2, <2>1, LeaseMoves
  <2>3. wk' = [wk EXCEPT ![w] = Idle]  BY <1>2 DEF ReleaseSuperseded, Crash
  <2>4. wk'[w] = Idle /\ \A v \in Worker : v # w => wk'[v] = wk[v]  BY <2>3 DEF TypeOK
  <2>5. \A x \in Image : row'[x].token = row[x].token \/ row'[x].token \in {None, Orphan}
    <3> DEFINE q == [Unleased(row[i]) EXCEPT !.nextIn = 0]
    <3>1. row[i] \in Delivery  BY <2>1 DEF TypeOK
    <3>2. q.token = None  BY <1>2, ReleaseStep DEF ReleaseSuperseded, Crash
    <3> HIDE DEF q
    <3>3. row' = row \/ row' = [row EXCEPT ![i] = q] \/ row' = [row EXCEPT ![i].token = Orphan]
      BY <1>2 DEF ReleaseSuperseded, Crash, q
    <3>4. CASE row' = [row EXCEPT ![i] = q]
      BY <2>1, <3>2, <3>4 DEF TypeOK
    <3>5. CASE row' = [row EXCEPT ![i].token = Orphan]
      <4>1. row'[i].token = Orphan /\ \A x \in Image : x # i => row'[x] = row[x]
        BY <2>1, <3>1, <3>5 DEF TypeOK, Delivery
      <4> QED  BY <4>1
    <3> QED  BY <3>3, <3>4, <3>5
  <2>6. \A v \in Worker : GoesOn(v)
    <3> SUFFICES ASSUME NEW v \in Worker, wk'[v].pc # "idle" PROVE GoesOn(v)  BY DEF GoesOn
    <3>1. v # w /\ wk'[v] = wk[v]  BY <2>4, IdleType
    <3>2. wk[v].img \in Image  BY <3>1 DEF TypeOK
    <3> QED  BY <2>5, <3>1, <3>2, NullAssumption DEF GoesOn
  <2> QED  BY <2>2, <2>6 DEF Quiet
<1>3. ASSUME NEW w \in Worker, row' = row, wk[w].pc # "idle",
             \/ wk' = [wk EXCEPT ![w].applied = TRUE]
             \/ \E j \in Job : wk' = [wk EXCEPT ![w].job = j]
      PROVE  Quiet
  <2>1. \A v \in Worker : wk'[v].pc = wk[v].pc /\ wk'[v].img = wk[v].img /\ wk'[v].gen = wk[v].gen
    BY <1>3 DEF TypeOK, Claimed
  <2> QED  BY <1>3, <2>1 DEF Quiet, Untouched, GoesOn
<1>4. CASE Tick
  <2>1. \A x \in Image : row'[x].token = row[x].token  BY <1>4, TickRow
  <2>2. \A x \in Image : Untouched(row[x], row'[x])  BY <1>4, TickMoves
  <2>3. \A v \in Worker : wk'[v].pc = wk[v].pc /\ wk'[v].img = wk[v].img /\ wk'[v].gen = wk[v].gen
    BY <1>4, TickClaim
  <2>4. \A v \in Worker : wk[v].pc # "idle" => wk[v].img \in Image  BY DEF TypeOK
  <2> QED  BY <2>1, <2>2, <2>3, <2>4 DEF Quiet, GoesOn
<1> QED
  BY <1>1, <1>2, <1>3, <1>4
  DEF SetObjectPublicAccess, CreatePurgeTask, LateEffect, CacheFill, PurgeEnds, vars

-----------------------------------------------------------------------------
(* Enqueue starts the counters of a generation at zero. *)
LEMMA EnqueueFields ==
  ASSUME NEW r \in Delivery, NEW public \in BOOLEAN, NEW purge \in BOOLEAN
  PROVE  /\ Enqueue(r, public, purge).desired = public
         /\ Enqueue(r, public, purge).purge = purge
         /\ Enqueue(r, public, purge).submits = 0
  BY DEF Enqueue, Delivery

(* What a moderation fact does to the rows. *)
LEMMA ModerateStep ==
  ASSUME TypeOK, NEW i \in Image, NEW v \in Issued, Moderate(i, v)
  PROVE  /\ row'[i].gen = row[i].gen + 1 /\ row'[i].state = "pending_acl" /\ row'[i].submits = 0
         /\ row'[i].desired = (v = "pass") /\ (~row'[i].desired => row'[i].purge)
         /\ row[i].gen \in Nat
         /\ \A x \in Image : x # i => row'[x] = row[x]
         /\ mod'[i] = v /\ \A x \in Image : x # i => mod'[x] = mod[x]
         /\ wk' = wk /\ acl' = acl /\ cache' = cache /\ jobs' = jobs
<1> DEFINE b == v = "pass"
           p == imageAccessPurgeRequired(b, mod[i])
<1>1. row[i] \in Delivery /\ row[i].gen \in Nat /\ b \in BOOLEAN  BY DEF TypeOK, Delivery
<1>2. p \in BOOLEAN /\ (~b => p)  BY DEF imageAccessPurgeRequired
<1>3. row' = [row EXCEPT ![i] = Enqueue(row[i], b, p)]  BY DEF Moderate
<1> HIDE DEF b, p
<1>4. row'[i] = Enqueue(row[i], b, p) /\ \A x \in Image : x # i => row'[x] = row[x]
  BY <1>3 DEF TypeOK
<1>5. row'[i].gen = row[i].gen + 1 /\ row'[i].state = "pending_acl"
  BY <1>1, <1>2, <1>4, EnqueueType
<1>6. row'[i].desired = b /\ row'[i].purge = p /\ row'[i].submits = 0
  BY <1>1, <1>2, <1>4, EnqueueFields
<1>7. /\ mod'[i] = v /\ \A x \in Image : x # i => mod'[x] = mod[x]
      /\ wk' = wk /\ acl' = acl /\ cache' = cache /\ jobs' = jobs
  BY DEF Moderate, TypeOK
<1> QED  BY <1>1, <1>2, <1>4, <1>5, <1>6, <1>7 DEF b

(* What a claim does. *)
LEMMA ClaimTakes ==
  ASSUME TypeOK, NEW w \in Worker, NEW i \in Image, ClaimDue(w, i)
  PROVE  /\ wk'[w].img = i /\ wk'[w].gen = row[i].gen /\ wk'[w].job = None
         /\ wk'[w].pc \in {"acl", "submit", "recover", "poll"} /\ AtStage(wk'[w].pc, row[i].state)
         /\ row'[i].token = w
         /\ \A x \in Image : x # i => row'[x] = row[x]
         /\ \A v \in Worker : v # w => wk'[v] = wk[v]
<1>1. row[i] \in Delivery  BY DEF TypeOK
<1>2. row[i].state \in {"pending_acl", "pending_submit", "submitting", "submitted"}
  BY <1>1 DEF ClaimDue, Due, Terminal, Delivery, State, PastACL
<1> DEFINE p == StepFor(row[i].state)
           k == NewClaim(i)
<1>3. p \in {"acl", "submit", "recover", "poll"} /\ AtStage(p, row[i].state)
  BY <1>2 DEF StepFor, AtStage
<1>4. k = [Idle EXCEPT !.pc = p, !.img = i, !.gen = row[i].gen,
                       !.desired = row[i].desired, !.left = ACLWindow]
  BY DEF NewClaim
<1>5. wk'[w] = k /\ \A v \in Worker : v # w => wk'[v] = wk[v]  BY DEF ClaimDue, TypeOK
<1> HIDE DEF p, k
<1>6. k.pc = p /\ k.img = i /\ k.gen = row[i].gen /\ k.job = None  BY <1>4 DEF Idle
<1>7. row'[i].token = w /\ \A x \in Image : x # i => row'[x] = row[x]
  BY <1>1 DEF ClaimDue, TypeOK, Delivery
<1> QED  BY <1>3, <1>5, <1>6, <1>7

(* What a fenced write does, and what a superseded one does. *)
LEMMA WriteStep ==
  ASSUME TypeOK, NEW w \in Worker, NEW r, NEW k, Writes(w, r, k)
  PROVE  /\ wk[w].img \in Image /\ row[wk[w].img] \in Delivery /\ wk[w] \in Claimed
         /\ \A v \in Worker : v # w => wk'[v] = wk[v]
         /\ \/ /\ ~Fenced(w) /\ row' = row /\ jobs' = jobs
               /\ wk'[w].pc = "release" /\ wk'[w].img = wk[w].img /\ wk'[w].gen = wk[w].gen
            \/ /\ Fenced(w) /\ row'[wk[w].img] = r /\ wk'[w] = k
               /\ r.gen = row[wk[w].img].gen /\ r.desired = row[wk[w].img].desired
               /\ r.token \in {None, w} /\ r.token = IF k.pc = "idle" THEN None ELSE w
               /\ \A x \in Image : x # wk[w].img => row'[x] = row[x]
<1> DEFINE i == wk[w].img
<1>1. i \in Image /\ row[i] \in Delivery /\ wk[w] \in Claimed
  BY DEF TypeOK, Writes, Stages
<1>2. CASE Fenced(w)
  <2>1. row' = [row EXCEPT ![i] = r] /\ wk' = [wk EXCEPT ![w] = k]
    BY <1>2 DEF Writes, UpdateClaim
  <2>2. /\ r.gen = row[i].gen /\ r.desired = row[i].desired
        /\ r.token \in {None, w} /\ r.token = IF k.pc = "idle" THEN None ELSE w
    BY <1>2 DEF Writes, Kept, Fenced
  <2>3. /\ row'[i] = r /\ \A x \in Image : x # i => row'[x] = row[x]
        /\ wk'[w] = k /\ \A v \in Worker : v # w => wk'[v] = wk[v]
    BY <1>1, <2>1 DEF TypeOK
  <2> QED  BY <1>1, <1>2, <2>2, <2>3
<1>3. CASE ~Fenced(w)
  <2>1. row' = row /\ wk' = [wk EXCEPT ![w].pc = "release"]
    BY <1>3 DEF Writes, UpdateClaim
  <2>2. jobs' = jobs  BY <1>3 DEF Writes
  <2>3. /\ wk'[w].pc = "release" /\ wk'[w].img = wk[w].img /\ wk'[w].gen = wk[w].gen
        /\ \A v \in Worker : v # w => wk'[v] = wk[v]
    BY <1>1, <2>1 DEF TypeOK, Claimed
  <2> QED  BY <1>1, <1>3, <2>1, <2>2, <2>3
<1> QED  BY <1>2, <1>3

(* A quiet step keeps the stages. *)
LEMMA StageFrame ==
  ASSUME TypeOK, StageInv, Quiet
  PROVE  StageInv'
<1>1. \A v \in Worker : wk'[v].pc # "idle" =>
        /\ wk[v].pc # "idle" /\ wk'[v].img = wk[v].img /\ wk'[v].gen = wk[v].gen /\ wk[v].img \in Image
        /\ wk'[v].pc \in Stages => /\ wk'[v].pc = wk[v].pc
                                   /\ row'[wk[v].img].token = v => row[wk[v].img].token = v
  BY DEF Quiet, GoesOn, TypeOK, Stages
<1>2. \A x \in Image : Untouched(row[x], row'[x])  BY DEF Quiet
<1>3. \A v \in Worker : wk'[v].pc # "idle" => wk'[v].gen <= row'[wk'[v].img].gen
  BY <1>1, <1>2 DEF StageInv, Untouched
<1>4. \A v \in Worker : wk'[v].pc \in Stages /\ Fenced(v)' => AtStage(wk'[v].pc, row'[wk'[v].img].state)
  <2> SUFFICES ASSUME NEW v \in Worker, wk'[v].pc \in Stages, Fenced(v)'
               PROVE  AtStage(wk'[v].pc, row'[wk'[v].img].state)
    OBVIOUS
  <2> DEFINE x == wk[v].img
  <2>1. wk'[v].pc = wk[v].pc /\ wk'[v].img = x /\ wk'[v].gen = wk[v].gen /\ x \in Image
        /\ (row'[x].token = v => row[x].token = v)
    BY <1>1 DEF Stages
  <2>2. row'[x].gen = row[x].gen /\ row'[x].state = row[x].state  BY <1>2, <2>1 DEF Untouched
  <2>3. Fenced(v)  BY <2>1, <2>2 DEF Fenced
  <2> QED  BY <2>1, <2>2, <2>3 DEF StageInv
<1>5. \A x \in Image : ReplayRow(row'[x])
  BY <1>2 DEF StageInv, ReplayRow, Untouched
<1> QED  BY <1>3, <1>4, <1>5 DEF StageInv

(* What a worker writes keeps the evidence for a replay. *)
LEMMA WriteKeepsReplay ==
  ASSUME TypeOK, StageInv, NEW w \in Worker, NEW r, NEW k, Writes(w, r, k), Fenced(w)
  PROVE  /\ ReplayRow(r)
         /\ k.pc = "idle" \/ (k.pc \in Stages /\ AtStage(k.pc, r.state) /\ k.img = wk[w].img /\ k.gen = wk[w].gen)
<1> DEFINE r0 == row[wk[w].img]
<1>1. wk[w].img \in Image /\ wk[w] \in Claimed /\ wk[w].pc \in Stages  BY DEF TypeOK, Writes, Stages
<1>2. ReplayRow(r0) /\ AtStage(wk[w].pc, r0.state)  BY <1>1 DEF StageInv
<1>3. CASE wk[w].pc = "submit" /\ k = [wk[w] EXCEPT !.pc = "create"]
           /\ r.state = "submitting" /\ r.err = "none"
  <2>1. ReplayRow(r)  BY <1>3 DEF ReplayRow
  <2>2. k.pc = "create" /\ k.img = wk[w].img /\ k.gen = wk[w].gen  BY <1>1, <1>3 DEF Claimed
  <2> QED  BY <1>3, <2>1, <2>2 DEF AtStage, Stages
<1>4. CASE r.submits = r0.submits /\ Outcome(w, r, k)
  <2>1. CASE k = Idle /\ r.state = "dead_letter"
    BY <2>1, IdleType DEF ReplayRow
  <2>2. CASE wk[w].pc = "acl" /\ ~(k = Idle /\ r.state = "dead_letter")
    <3>1. r0.state = "pending_acl"  BY <1>2, <2>2 DEF AtStage
    <3>2. r0.submits = 0  BY <1>2, <3>1 DEF ReplayRow
    <3>3. CASE r.state = "pending_submit" /\ k = [wk[w] EXCEPT !.pc = "submit"]
      <4>1. k.pc = "submit" /\ k.img = wk[w].img /\ k.gen = wk[w].gen  BY <1>1, <3>3 DEF Claimed
      <4>2. ReplayRow(r)  BY <1>4, <3>2, <3>3 DEF ReplayRow
      <4> QED  BY <3>3, <4>1, <4>2 DEF AtStage, Stages
    <3>4. CASE k = Idle /\ r.state \in {"pending_acl", "succeeded"}
      BY <1>4, <3>2, <3>4, IdleType DEF ReplayRow
    <3> QED  BY <1>4, <2>2, <3>3, <3>4 DEF Outcome
  <2>3. CASE wk[w].pc = "create" /\ ~(k = Idle /\ r.state = "dead_letter")
    <3>1. /\ k = Idle
          /\ \/ r.state = "submitted"
             \/ r.state = "submitting" /\ (r.err = "submit_retryable" => r.create = "rejected")
      BY <1>4, <2>3 DEF Outcome
    <3> QED  BY <3>1, IdleType DEF ReplayRow
  <2>4. CASE wk[w].pc = "recover" /\ ~(k = Idle /\ r.state = "dead_letter")
    <3>1. /\ k = Idle
          /\ \/ r.state \in {"succeeded", "submitted"}
             \/ r.state = "pending_submit" /\ r.create = "failed"
             \/ r.state = "pending_submit" /\ r.create = r0.create /\ r0.err = "submit_retryable"
             \/ r.state = "submitting" /\ r.err # "submit_retryable"
      BY <1>4, <2>4 DEF Outcome
    <3>2. r0.state = "submitting"  BY <1>2, <2>4 DEF AtStage
    <3>3. r0.err = "submit_retryable" => r0.create = "rejected"  BY <1>2, <3>2 DEF ReplayRow
    <3> QED  BY <3>1, <3>3, IdleType DEF ReplayRow, Told
  <2>5. CASE wk[w].pc = "poll" /\ ~(k = Idle /\ r.state = "dead_letter")
    <3>1. /\ k = Idle
          /\ \/ r.state \in {"succeeded", "submitted"}
             \/ r.state = "pending_submit" /\ r.create \in {"failed", "timeout"}
      BY <1>4, <2>5 DEF Outcome
    <3> QED  BY <3>1, IdleType DEF ReplayRow, Told
  <2> QED  BY <1>4, <2>1, <2>2, <2>3, <2>4, <2>5 DEF Outcome
<1> QED  BY <1>3, <1>4 DEF Writes

(* No step of the system breaks the stages. *)
LEMMA StageStep ==
  ASSUME TypeOK, StageInv, [Next]_vars
  PROVE  StageInv'
<1>1. \A w \in Worker : wk[w].pc # "idle" =>
          wk[w].img \in Image /\ wk[w].gen \in Nat /\ wk[w].gen <= row[wk[w].img].gen
  BY DEF StageInv, TypeOK, Claimed
<1>2. ASSUME NEW i \in Image, NEW v \in Issued, Moderate(i, v) PROVE StageInv'
  <2>1. /\ row'[i].gen = row[i].gen + 1 /\ row'[i].state = "pending_acl" /\ row'[i].submits = 0
        /\ row[i].gen \in Nat
        /\ \A x \in Image : x # i => row'[x] = row[x]
        /\ wk' = wk
    BY <1>2, ModerateStep
  <2>2. \A w \in Worker : wk[w].pc # "idle" => wk[w].gen <= row'[wk[w].img].gen
    BY <1>1, <2>1
  <2>3. \A w \in Worker : wk[w].pc \in Stages /\ Fenced(w)' => AtStage(wk[w].pc, row'[wk[w].img].state)
    <3> SUFFICES ASSUME NEW w \in Worker, wk[w].pc \in Stages, Fenced(w)'
                 PROVE  AtStage(wk[w].pc, row'[wk[w].img].state)
      OBVIOUS
    <3>1. wk[w].pc # "idle"  BY DEF Stages
    <3>2. wk[w].img # i  BY <1>1, <2>1, <3>1 DEF Fenced
    <3> QED  BY <1>1, <2>1, <3>1, <3>2 DEF StageInv, Fenced
  <2>4. \A x \in Image : ReplayRow(row'[x])  BY <2>1 DEF StageInv, ReplayRow
  <2> QED  BY <2>1, <2>2, <2>3, <2>4 DEF StageInv
<1>3. ASSUME NEW w \in Worker, NEW i \in Image, ClaimDue(w, i) PROVE StageInv'
  <2>1. /\ wk'[w].img = i /\ wk'[w].gen = row[i].gen
        /\ AtStage(wk'[w].pc, row[i].state)
        /\ row'[i].token = w
        /\ \A x \in Image : x # i => row'[x] = row[x]
        /\ \A v \in Worker : v # w => wk'[v] = wk[v]
    BY <1>3, ClaimTakes
  <2>2. \A x \in Image : Untouched(row[x], row'[x])  BY <1>3, LeaseMoves
  <2>3. row'[i].gen = row[i].gen /\ row'[i].state = row[i].state /\ row[i].gen \in Nat
    BY <2>2 DEF Untouched, TypeOK, Delivery
  <2>4. \A v \in Worker : wk'[v].pc # "idle" => wk'[v].gen <= row'[wk'[v].img].gen
    BY <1>1, <2>1, <2>3
  <2>5. \A v \in Worker : wk'[v].pc \in Stages /\ Fenced(v)' => AtStage(wk'[v].pc, row'[wk'[v].img].state)
    <3> SUFFICES ASSUME NEW v \in Worker, wk'[v].pc \in Stages, Fenced(v)'
                 PROVE  AtStage(wk'[v].pc, row'[wk'[v].img].state)
      OBVIOUS
    <3>1. CASE v = w
      BY <2>1, <2>3, <3>1
    <3>2. CASE v # w
      <4>1. wk'[v] = wk[v] /\ wk[v].img \in Image  BY <1>1, <2>1, <3>2 DEF Stages
      <4>2. wk[v].img # i  BY <2>1, <3>2, <4>1 DEF Fenced
      <4> QED  BY <2>1, <4>1, <4>2 DEF StageInv, Fenced
    <3> QED  BY <3>1, <3>2
  <2>6. \A x \in Image : ReplayRow(row'[x])  BY <2>2 DEF StageInv, ReplayRow, Untouched
  <2> QED  BY <2>4, <2>5, <2>6 DEF StageInv
<1>4. ASSUME NEW w \in Worker, NEW r, NEW k, Writes(w, r, k) PROVE StageInv'
  <2> DEFINE i == wk[w].img
  <2>1. /\ i \in Image
        /\ \A v \in Worker : v # w => wk'[v] = wk[v]
    BY <1>4, WriteStep
  <2>2. CASE ~Fenced(w)
    <3>1. row' = row /\ wk'[w].pc = "release" /\ wk'[w].img = i /\ wk'[w].gen = wk[w].gen
          /\ wk[w].pc # "idle"
      BY <1>4, <2>2, WriteStep DEF Writes, Stages
    <3>2. Quiet  BY <2>1, <3>1 DEF Quiet, Untouched, GoesOn
    <3> QED  BY <3>2, StageFrame
  <2>3. CASE Fenced(w)
    <3>1. /\ row'[i] = r /\ wk'[w] = k /\ r.gen = row[i].gen /\ r.token \in {None, w}
          /\ \A x \in Image : x # i => row'[x] = row[x]
      BY <1>4, <2>3, WriteStep
    <3>2. ReplayRow(r)  BY <1>4, <2>3, WriteKeepsReplay
    <3>3. k.pc = "idle" \/ (k.pc \in Stages /\ AtStage(k.pc, r.state) /\ k.img = i /\ k.gen = wk[w].gen)
      BY <1>4, <2>3, WriteKeepsReplay
    <3>4. wk[w].pc # "idle"  BY <1>4 DEF Writes, Stages
    <3>5. \A v \in Worker : wk'[v].pc # "idle" => wk'[v].gen <= row'[wk'[v].img].gen
      BY <1>1, <2>1, <3>1, <3>3, <3>4
    <3>6. \A v \in Worker : wk'[v].pc \in Stages /\ Fenced(v)' => AtStage(wk'[v].pc, row'[wk'[v].img].state)
      <4> SUFFICES ASSUME NEW v \in Worker, wk'[v].pc \in Stages, Fenced(v)'
                   PROVE  AtStage(wk'[v].pc, row'[wk'[v].img].state)
        OBVIOUS
      <4>1. CASE v = w
        BY <3>1, <3>3, <4>1 DEF Stages
      <4>2. CASE v # w
        <5>1. wk'[v] = wk[v] /\ wk[v].img \in Image  BY <1>1, <2>1, <4>2 DEF Stages
        <5>2. wk[v].img # i  BY <3>1, <4>2, <5>1, NullAssumption DEF Fenced
        <5> QED  BY <3>1, <5>1, <5>2 DEF StageInv, Fenced
      <4> QED  BY <4>1, <4>2
    <3>7. \A x \in Image : ReplayRow(row'[x])  BY <3>1, <3>2 DEF StageInv
    <3> QED  BY <3>5, <3>6, <3>7 DEF StageInv
  <2> QED  BY <2>2, <2>3
<1> QED  BY <1>2, <1>3, <1>4, QuietSteps, StageFrame, ReturnWrites DEF Next

(* A step either leaves the deliveries alone, or is a new moderation fact,   *)
(* or a fenced write.                                                        *)
LEMMA StepKinds ==
  ASSUME TypeOK, [Next]_vars, NEW i \in Image
  PROVE  \/ Untouched(row[i], row'[i])
         \/ row'[i].gen # row[i].gen
         \/ \E w \in Worker : \E r, k :
               Writes(w, r, k) /\ Fenced(w) /\ wk[w].img = i /\ row'[i] = r
<1>1. ASSUME NEW x \in Image, NEW v \in Issued, Moderate(x, v)
      PROVE  Untouched(row[i], row'[i]) \/ row'[i].gen # row[i].gen
  <2>1. /\ row'[x].gen = row[x].gen + 1 /\ row[x].gen \in Nat
        /\ \A y \in Image : y # x => row'[y] = row[y]
    BY <1>1, ModerateStep
  <2> QED  BY <2>1 DEF Untouched
<1>2. ASSUME NEW w \in Worker, NEW x \in Image, ClaimDue(w, x) PROVE Untouched(row[i], row'[i])
  BY <1>2, LeaseMoves
<1>3. ASSUME NEW w \in Worker, NEW r, NEW k, Writes(w, r, k)
      PROVE  \/ Untouched(row[i], row'[i])
             \/ Writes(w, r, k) /\ Fenced(w) /\ wk[w].img = i /\ row'[i] = r
  <2>1. CASE ~Fenced(w)
    <3>1. row' = row  BY <1>3, <2>1, WriteStep
    <3> QED  BY <3>1 DEF Untouched
  <2>2. CASE Fenced(w)
    <3>1. row'[wk[w].img] = r /\ \A x \in Image : x # wk[w].img => row'[x] = row[x]
      BY <1>3, <2>2, WriteStep
    <3> QED  BY <1>3, <2>2, <3>1 DEF Untouched
  <2> QED  BY <2>1, <2>2
<1>4. CASE Quiet
  BY <1>4 DEF Quiet
<1> QED  BY <1>1, <1>2, <1>3, <1>4, QuietSteps, ReturnWrites DEF Next

(* For any number of images and workers, a delivery moves only by the hand   *)
(* of the worker that claimed this generation and still holds its lease.     *)
THEOREM ClaimantSafety == Spec => OnlyClaimantMoves
<1> DEFINE Step ==
      \A i \in Image :
          (row'[i].gen = row[i].gen /\ row'[i].state # row[i].state)
              => \E w \in Worker : row[i].token = w /\ wk[w].img = i /\ wk[w].gen = row[i].gen
<1>1. TypeOK /\ [Next]_vars => [Step]_vars
  <2> SUFFICES ASSUME TypeOK, [Next]_vars, NEW i \in Image,
                      row'[i].gen = row[i].gen, row'[i].state # row[i].state
               PROVE  \E w \in Worker : row[i].token = w /\ wk[w].img = i /\ wk[w].gen = row[i].gen
    OBVIOUS
  <2>1. PICK w \in Worker : Fenced(w) /\ wk[w].img = i
    BY StepKinds DEF Untouched
  <2> QED  BY <2>1 DEF Fenced
<1> QED  BY <1>1, TypeCorrect, PTL DEF Spec, OnlyClaimantMoves

(* Initially nothing is claimed and nothing submitted. *)
LEMMA StageInit == Init => StageInv
<1> SUFFICES ASSUME Init PROVE StageInv  OBVIOUS
<1>1. \A i \in Image : row[i] = NoDelivery  BY DEF Init
<1>2. \A w \in Worker : wk[w].pc = "idle"  BY IdleType DEF Init
<1>3. NoDelivery.state = "none"  BY DEF NoDelivery
<1> QED  BY <1>1, <1>2, <1>3 DEF StageInv, ReplayRow, Stages

(* The stages hold in every reachable state. *)
THEOREM StagesHold == Spec => []StageInv
<1>1. TypeOK /\ StageInv /\ [Next]_vars => StageInv'  BY StageStep
<1> QED  BY <1>1, StageInit, TypeCorrect, PTL DEF Spec

(* No crash, timeout, superseded claim or lost answer ever makes the workers *)
(* send a second CreatePurgeTask of a generation on an unknown outcome: the  *)
(* request before it was refused, or its job was seen to fail or time out.   *)
THEOREM ReplaySafety == Spec => NoBlindReplay
<1> DEFINE Step ==
      \A i \in Image :
          (row'[i].gen = row[i].gen /\ row'[i].submits > row[i].submits /\ row[i].submits > 0)
              => row[i].create \in {"rejected", "failed", "timeout"}
<1>1. TypeOK /\ StageInv /\ [Next]_vars => [Step]_vars
  <2> SUFFICES ASSUME TypeOK, StageInv, [Next]_vars, NEW i \in Image, row'[i].gen = row[i].gen,
                      row'[i].submits > row[i].submits, row[i].submits > 0
               PROVE  row[i].create \in Told
    BY DEF Told
  <2>1. row[i].submits \in Nat  BY DEF TypeOK, Delivery
  <2>2. PICK w \in Worker :
          \E r, k : Writes(w, r, k) /\ Fenced(w) /\ wk[w].img = i /\ row'[i] = r
    BY <2>1, StepKinds DEF Untouched
  <2>3. PICK r, k : Writes(w, r, k) /\ Fenced(w) /\ wk[w].img = i /\ row'[i] = r
    BY <2>2
  <2>4. wk[w].pc = "submit"  BY <2>1, <2>3 DEF Writes
  <2>5. row[i].state = "pending_submit"  BY <2>3, <2>4 DEF StageInv, Stages, AtStage
  <2> QED  BY <2>5 DEF StageInv, ReplayRow
<1> QED  BY <1>1, StagesHold, TypeCorrect, PTL DEF Spec, NoBlindReplay

-----------------------------------------------------------------------------
(***************************************************************************)
(* Why a finished purge is a purge of this verdict.  A job is current when *)
(* the reconciliation window of the row's submission contains it: it was   *)
(* created after the window opened, or in the same second and so has not   *)
(* ended yet.  The window of a submission opens after the ACL is private;  *)
(* so a current job that succeeded did so with the object private already, *)
(* and nothing public has been cached since.                               *)
(***************************************************************************)
Current(j, i) == jobs[j].img = i /\ jobs[j].fresh

Wish(i) ==
    row[i].state # "none" =>
        row[i].desired = (mod[i] = "pass") /\ (~row[i].desired => row[i].purge)

KnownJob(i) ==
    row[i].state = "submitted" /\ row[i].job # None => Current(row[i].job, i)

OwnJob(w) ==
    /\ wk[w].pc \in {"acl", "submit"} => wk[w].job = None
    /\ wk[w].pc = "create" /\ Fenced(w) /\ wk[w].job # None => Current(wk[w].job, wk[w].img)

Clean(i) ==
    ~row[i].desired =>
        /\ row[i].state \in {"submitting", "submitted"} =>
              \A j \in Job : Current(j, i) /\ jobs[j].status = "success" => cache[i] # "public"
        /\ row[i].state = "succeeded" => cache[i] # "public"

PurgeInv ==
    /\ \A i \in Image : Wish(i) /\ KnownJob(i) /\ Clean(i)
    /\ \A w \in Worker : OwnJob(w)
    /\ \A j \in Job : /\ jobs[j].young => jobs[j].status \in {"processing", "partial"}
                      /\ jobs[j].fresh => jobs[j].status # "unused"

(* Jobs at most grow older. *)
JobsKept ==
    \A j \in Job : /\ jobs'[j].img = jobs[j].img /\ jobs'[j].fresh = jobs[j].fresh
                   /\ jobs'[j].status = jobs[j].status
                   /\ jobs'[j].young => jobs[j].young

(* A claim has no job yet, or goes on with the one it has. *)
JobGoesOn(w) ==
    \/ wk'[w].job = None
    \/ GoesOn(w) /\ (wk'[w].pc # "idle" => wk'[w].job = wk[w].job)

(* Steps that write no delivery and leave mod, jobs and cache alone, new      *)
(* claims included, keep the invariant.                                      *)
LEMMA PurgeFrame ==
  ASSUME TypeOK, PurgeInv, mod' = mod, cache' = cache, JobsKept,
         \A x \in Image : Untouched(row[x], row'[x]),
         \A w \in Worker : JobGoesOn(w)
  PROVE  PurgeInv'
<1>1. \A x \in Image : Untouched(row[x], row'[x]) /\ row[x] \in Delivery
  BY DEF TypeOK
<1>2. \A j \in Job : jobs'[j].img = jobs[j].img /\ jobs'[j].fresh = jobs[j].fresh  BY DEF JobsKept
<1>3. \A x \in Image : Wish(x)'  BY <1>1 DEF PurgeInv, Wish, Untouched
<1>4. \A x \in Image : KnownJob(x)'
  <2> SUFFICES ASSUME NEW x \in Image, row'[x].state = "submitted", row'[x].job # None
               PROVE  jobs'[row'[x].job].img = x /\ jobs'[row'[x].job].fresh
    BY DEF KnownJob, Current
  <2>1. row'[x].job = row[x].job /\ row[x].state = "submitted" /\ row[x].job \in Job
    BY <1>1 DEF Untouched, Delivery
  <2>2. jobs[row[x].job].img = x /\ jobs[row[x].job].fresh
    BY <2>1 DEF PurgeInv, KnownJob, Current
  <2> QED  BY <1>2, <2>1, <2>2
<1>5. \A x \in Image : Clean(x)'
  BY <1>1, <1>2 DEF PurgeInv, Clean, Untouched, JobsKept, Current
<1>6. \A w \in Worker : OwnJob(w)'
  <2> SUFFICES ASSUME NEW w \in Worker, wk'[w].pc \in {"acl", "submit", "create"},
                      wk'[w].job # None
               PROVE  OwnJob(w)'
    BY DEF OwnJob
  <2> DEFINE x == wk[w].img
  <2>1. /\ wk'[w].pc = wk[w].pc /\ wk'[w].img = x /\ wk'[w].gen = wk[w].gen
        /\ wk'[w].job = wk[w].job /\ x \in Image /\ wk[w] \in Claimed
        /\ row'[x].token = w => row[x].token = w
    BY DEF JobGoesOn, GoesOn, TypeOK
  <2>2. Fenced(w)' => Fenced(w)  BY <1>1, <2>1 DEF Fenced, Untouched
  <2>3. OwnJob(w)  BY DEF PurgeInv
  <2>4. wk[w].job # None => wk[w].job \in Job  BY <2>1 DEF Claimed
  <2>5. ASSUME wk'[w].pc = "create", Fenced(w)', wk'[w].job # None
        PROVE  jobs'[wk'[w].job].img = wk'[w].img /\ jobs'[wk'[w].job].fresh
    <3>1. jobs[wk[w].job].img = x /\ jobs[wk[w].job].fresh
      BY <2>1, <2>2, <2>3, <2>5 DEF OwnJob, Current
    <3> QED  BY <1>2, <2>1, <2>4, <2>5, <3>1
  <2>6. wk'[w].pc \in {"acl", "submit"} => wk'[w].job = None  BY <2>1, <2>3 DEF OwnJob
  <2> QED  BY <2>5, <2>6 DEF OwnJob, Current
<1>7. \A j \in Job : /\ jobs'[j].young => jobs'[j].status \in {"processing", "partial"}
                     /\ jobs'[j].fresh => jobs'[j].status # "unused"
  BY DEF PurgeInv, JobsKept
<1> QED  BY <1>3, <1>4, <1>5, <1>6, <1>7 DEF PurgeInv

(* What opening the window does to a job. *)
LEMMA WindowOpens ==
  ASSUME TypeOK, NEW i \in Image, jobs' = OpenWindow(i), NEW j \in Job
  PROVE  /\ jobs'[j].img = jobs[j].img /\ jobs'[j].status = jobs[j].status
         /\ jobs'[j].young = jobs[j].young
         /\ jobs[j].img # i => jobs'[j].fresh = jobs[j].fresh
         /\ jobs[j].img = i /\ jobs'[j].fresh => jobs[j].young
<1>1. jobs[j] \in PurgeJob  BY DEF TypeOK
<1>2. jobs'[j] = IF jobs[j].img = i THEN [jobs[j] EXCEPT !.fresh = jobs[j].fresh /\ jobs[j].young] ELSE jobs[j]
  BY DEF OpenWindow
<1> QED  BY <1>1, <1>2 DEF PurgeJob

(* A fenced write keeps the invariant: it succeeds only on a current job     *)
(* that succeeded, and adopts only current jobs.                             *)
LEMMA WriteKeepsPurge ==
  ASSUME TypeOK, StageInv, PurgeInv, NEW w \in Worker, NEW r, NEW k, Writes(w, r, k), Fenced(w)
  PROVE  PurgeInv'
<1> DEFINE i == wk[w].img
           r0 == row[i]
<1>1. /\ i \in Image /\ r0 \in Delivery /\ wk[w] \in Claimed
      /\ \A v \in Worker : v # w => wk'[v] = wk[v]
      /\ row'[i] = r /\ wk'[w] = k
      /\ r.desired = r0.desired /\ r.token \in {None, w}
      /\ \A x \in Image : x # i => row'[x] = row[x]
  BY WriteStep
<1>2. wk[w].pc \in Stages /\ r.purge = r0.purge /\ mod' = mod /\ cache' = cache
  BY DEF Writes
<1>3. AtStage(wk[w].pc, r0.state)  BY <1>2 DEF StageInv
<1>4. Wish(i) /\ KnownJob(i) /\ Clean(i) /\ OwnJob(w)  BY <1>1 DEF PurgeInv
<1>5. \/ /\ r.submits = r0.submits /\ jobs' = jobs /\ Outcome(w, r, k)
      \/ /\ wk[w].pc = "submit" /\ k = [wk[w] EXCEPT !.pc = "create"]
         /\ r.state = "submitting" /\ jobs' = OpenWindow(i)
  BY DEF Writes
<1>6. \A j \in Job : /\ jobs'[j].img = jobs[j].img /\ jobs'[j].status = jobs[j].status
                     /\ jobs'[j].young = jobs[j].young
                     /\ jobs[j].img # i => jobs'[j].fresh = jobs[j].fresh
                     /\ jobs'[j].fresh => jobs[j].fresh \/ jobs[j].young
  BY <1>1, <1>5, WindowOpens
<1>7. \A x \in Image : Wish(x)'
  <2>1. row'[i].desired = (mod'[i] = "pass") /\ (~row'[i].desired => row'[i].purge)
    BY <1>1, <1>2, <1>3, <1>4 DEF Wish, AtStage
  <2> QED  BY <1>1, <1>2, <2>1 DEF PurgeInv, Wish
<1>8. \A x \in Image : KnownJob(x)'
  <2> SUFFICES ASSUME NEW x \in Image, row'[x].state = "submitted", row'[x].job # None
               PROVE  jobs'[row'[x].job].img = x /\ jobs'[row'[x].job].fresh
    BY DEF KnownJob, Current
  <2>1. CASE x # i
    <3>1. row'[x] = row[x] /\ row[x].job \in Job  BY <1>1, <2>1 DEF TypeOK, Delivery
    <3>2. jobs[row[x].job].img = x /\ jobs[row[x].job].fresh
      BY <3>1 DEF PurgeInv, KnownJob, Current
    <3> QED  BY <1>6, <2>1, <3>1, <3>2
  <2>2. CASE x = i
    <3>1. r.state = "submitted" /\ r.job # None  BY <1>1, <2>2
    <3>2. jobs' = jobs /\ Outcome(w, r, k)  BY <1>5, <3>1
    <3>3. CASE wk[w].pc = "create" /\ r.job = wk[w].job
      BY <1>1, <1>4, <2>2, <3>1, <3>2, <3>3 DEF OwnJob, Current
    <3>4. CASE r.job \in Candidates(i)
      BY <1>1, <2>2, <3>2, <3>4 DEF Candidates
    <3>5. CASE wk[w].pc = "poll" /\ r.job = r0.job
      <4>1. r0.state = "submitted"  BY <1>3, <3>5 DEF AtStage
      <4> QED  BY <1>1, <1>4, <2>2, <3>1, <3>2, <3>5, <4>1 DEF KnownJob, Current
    <3> QED  BY <3>1, <3>2, <3>3, <3>4, <3>5 DEF Outcome
  <2> QED  BY <2>1, <2>2
<1>9. \A x \in Image : Clean(x)'
  <2>1. ASSUME NEW x \in Image, x # i PROVE Clean(x)'
    <3>1. row'[x] = row[x] /\ Clean(x)  BY <1>1, <2>1 DEF PurgeInv
    <3> QED  BY <1>2, <1>6, <2>1, <3>1 DEF Clean, Current
  <2>2. ASSUME ~r.desired
        PROVE  /\ r.state \in {"submitting", "submitted"} =>
                    \A j \in Job : jobs'[j].img = i /\ jobs'[j].fresh /\ jobs'[j].status = "success"
                                     => cache'[i] # "public"
               /\ r.state = "succeeded" => cache'[i] # "public"
    <3>1. r0.state # "none" /\ ~r0.desired /\ r0.purge  BY <1>1, <1>3, <2>2, <1>4 DEF AtStage, Wish
    <3>2. /\ r0.state \in {"submitting", "submitted"} =>
                \A j \in Job : jobs[j].img = i /\ jobs[j].fresh /\ jobs[j].status = "success"
                                  => cache[i] # "public"
      BY <1>4, <3>1 DEF Clean, Current
    <3>3. CASE wk[w].pc = "submit" /\ r.state = "submitting" /\ jobs' = OpenWindow(i)
      <4>1. \A j \in Job : jobs'[j].img = i /\ jobs'[j].fresh => jobs'[j].status # "success"
        <5> SUFFICES ASSUME NEW j \in Job, jobs'[j].img = i, jobs'[j].fresh PROVE jobs'[j].status # "success"
          OBVIOUS
        <5>1. jobs[j].young /\ jobs'[j].status = jobs[j].status  BY <1>1, <3>3, WindowOpens
        <5> QED  BY <5>1 DEF PurgeInv
      <4> QED  BY <3>3, <4>1
    <3>4. CASE jobs' = jobs /\ Outcome(w, r, k)
      <4>1. CASE r.state = "dead_letter" \/ wk[w].pc = "acl"
        BY <3>1, <3>4, <4>1 DEF Outcome
      <4>2. CASE r.state # "dead_letter" /\ wk[w].pc = "create"
        <5>1. r0.state = "submitting"  BY <1>3, <4>2 DEF AtStage
        <5>2. r.state # "succeeded"  BY <3>4, <4>2 DEF Outcome
        <5> QED  BY <1>2, <3>2, <3>4, <5>1, <5>2
      <4>3. CASE r.state # "dead_letter" /\ wk[w].pc = "recover"
        <5>1. r0.state = "submitting"  BY <1>3, <4>3 DEF AtStage
        <5>2. ASSUME r.state = "succeeded" PROVE cache[i] # "public"
          <6>1. PICK j \in Candidates(i) : jobs[j].status = "success"  BY <3>4, <4>3, <5>2 DEF Outcome
          <6> QED  BY <3>2, <5>1, <6>1 DEF Candidates
        <5> QED  BY <1>2, <3>2, <3>4, <5>1, <5>2
      <4>4. CASE r.state # "dead_letter" /\ wk[w].pc = "poll"
        <5>1. r0.state = "submitted"  BY <1>3, <4>4 DEF AtStage
        <5>2. ASSUME r.state = "succeeded" PROVE cache[i] # "public"
          <6>1. r0.job # None /\ jobs[r0.job].status = "success"  BY <3>4, <4>4, <5>2 DEF Outcome
          <6>2. r0.job \in Job  BY <1>1, <6>1 DEF Delivery
          <6>3. jobs[r0.job].img = i /\ jobs[r0.job].fresh  BY <1>4, <5>1, <6>1 DEF KnownJob, Current
          <6> QED  BY <3>2, <5>1, <6>1, <6>2, <6>3
        <5> QED  BY <1>2, <3>2, <3>4, <5>1, <5>2
      <4>5. CASE r.state # "dead_letter" /\ wk[w].pc = "submit"
        BY <3>4, <4>5 DEF Outcome
      <4> QED  BY <1>2, <4>1, <4>2, <4>3, <4>4, <4>5 DEF Stages
    <3> QED  BY <1>5, <3>3, <3>4
  <2>3. ASSUME NEW x \in Image, x = i PROVE Clean(x)'
    BY <1>1, <2>2, <2>3 DEF Clean, Current
  <2> QED  BY <2>1, <2>3
<1>10. \A v \in Worker : OwnJob(v)'
  <2>1. k.pc = "idle" \/ k.job = None
    <3>1. CASE k = Idle  BY <3>1, IdleType
    <3>2. CASE k = [wk[w] EXCEPT !.pc = "submit"] /\ wk[w].pc = "acl"
      BY <1>1, <1>4, <3>2 DEF OwnJob, Claimed
    <3>3. CASE k = [wk[w] EXCEPT !.pc = "create"] /\ wk[w].pc = "submit"
      BY <1>1, <1>4, <3>3 DEF OwnJob, Claimed
    <3> QED  BY <1>5, <3>1, <3>2, <3>3 DEF Outcome
  <2>2. OwnJob(w)'  BY <1>1, <2>1 DEF OwnJob
  <2>3. ASSUME NEW v \in Worker, v # w PROVE OwnJob(v)'
    <3>1. wk'[v] = wk[v] /\ OwnJob(v) /\ wk[v] \in Claimed  BY <1>1, <2>3 DEF PurgeInv, TypeOK
    <3>2. ASSUME wk[v].pc = "create", Fenced(v)', wk[v].job # None
          PROVE  jobs'[wk[v].job].img = wk[v].img /\ jobs'[wk[v].job].fresh
      <4>1. wk[v].img \in Image /\ wk[v].job \in Job  BY <3>1, <3>2 DEF TypeOK, Claimed
      <4>2. wk[v].img # i  BY <1>1, <2>3, <3>1, <3>2, NullAssumption DEF Fenced
      <4>3. Fenced(v)  BY <1>1, <3>1, <3>2, <4>1, <4>2 DEF Fenced
      <4>4. jobs[wk[v].job].img = wk[v].img /\ jobs[wk[v].job].fresh
        BY <3>1, <3>2, <4>3 DEF OwnJob, Current
      <4> QED  BY <1>6, <4>1, <4>2, <4>4
    <3> QED  BY <3>1, <3>2 DEF OwnJob, Current
  <2> QED  BY <2>2, <2>3
<1>11. \A j \in Job : /\ jobs'[j].young => jobs'[j].status \in {"processing", "partial"}
                      /\ jobs'[j].fresh => jobs'[j].status # "unused"
  BY <1>6 DEF PurgeInv
<1> QED  BY <1>7, <1>8, <1>9, <1>10, <1>11 DEF PurgeInv

(* No step of the system breaks the invariant. *)
LEMMA PurgeStep ==
  ASSUME TypeOK, StageInv, ACLConverged, PurgeInv, [Next]_vars
  PROVE  PurgeInv'
<1>1. ASSUME NEW i \in Image, NEW v \in Issued, Moderate(i, v) PROVE PurgeInv'
  <2>1. /\ row'[i].gen = row[i].gen + 1 /\ row'[i].state = "pending_acl"
        /\ row'[i].desired = (v = "pass") /\ (~row'[i].desired => row'[i].purge)
        /\ row[i].gen \in Nat
        /\ \A x \in Image : x # i => row'[x] = row[x]
        /\ mod'[i] = v /\ \A x \in Image : x # i => mod'[x] = mod[x]
        /\ wk' = wk /\ cache' = cache /\ jobs' = jobs
    BY <1>1, ModerateStep
  <2>2. \A x \in Image : Wish(x)' /\ KnownJob(x)' /\ Clean(x)'
    <3> SUFFICES ASSUME NEW x \in Image PROVE Wish(x)' /\ KnownJob(x)' /\ Clean(x)'  OBVIOUS
    <3>1. CASE x = i
      BY <2>1, <3>1 DEF Wish, KnownJob, Clean
    <3>2. CASE x # i
      BY <2>1, <3>2 DEF PurgeInv, Wish, KnownJob, Clean, Current
    <3> QED  BY <3>1, <3>2
  <2>3. \A w \in Worker : OwnJob(w)'
    <3> SUFFICES ASSUME NEW w \in Worker PROVE OwnJob(w)'  OBVIOUS
    <3>1. OwnJob(w)  BY DEF PurgeInv
    <3>2. ASSUME wk[w].pc = "create", Fenced(w)' PROVE Fenced(w)
      <4>1. wk[w].img \in Image /\ wk[w].gen \in Nat /\ wk[w].gen <= row[wk[w].img].gen
        BY <3>2 DEF TypeOK, Claimed, StageInv
      <4>2. wk[w].img # i  BY <2>1, <3>2, <4>1 DEF Fenced
      <4> QED  BY <2>1, <3>2, <4>1, <4>2 DEF Fenced
    <3> QED  BY <2>1, <3>1, <3>2 DEF OwnJob, Current
  <2> QED  BY <2>1, <2>2, <2>3 DEF PurgeInv
<1>2. ASSUME NEW w \in Worker, NEW i \in Image, ClaimDue(w, i) PROVE PurgeInv'
  <2>1. /\ wk'[w].job = None /\ row'[i].token = w
        /\ \A x \in Image : x # i => row'[x] = row[x]
        /\ \A v \in Worker : v # w => wk'[v] = wk[v]
    BY <1>2, ClaimTakes
  <2>2. \A x \in Image : Untouched(row[x], row'[x])  BY <1>2, LeaseMoves
  <2>3. mod' = mod /\ cache' = cache /\ jobs' = jobs  BY <1>2 DEF ClaimDue
  <2>4. \A v \in Worker : v # w => GoesOn(v)
    <3> SUFFICES ASSUME NEW v \in Worker, v # w, wk'[v].pc # "idle" PROVE GoesOn(v)  BY DEF GoesOn
    <3>1. wk'[v] = wk[v] /\ wk[v].img \in Image  BY <2>1 DEF TypeOK
    <3> QED  BY <2>1, <3>1 DEF GoesOn
  <2>5. \A v \in Worker : JobGoesOn(v)  BY <2>1, <2>4 DEF JobGoesOn
  <2>6. JobsKept  BY <2>3 DEF JobsKept
  <2> QED  BY <2>2, <2>3, <2>5, <2>6, PurgeFrame
<1>3. ASSUME NEW w \in Worker, NEW r, NEW k, Writes(w, r, k) PROVE PurgeInv'
  <2>1. CASE Fenced(w)
    BY <1>3, <2>1, WriteKeepsPurge
  <2>2. CASE ~Fenced(w)
    <3>1. /\ row' = row /\ jobs' = jobs /\ wk'[w].pc = "release"
          /\ \A v \in Worker : v # w => wk'[v] = wk[v]
      BY <1>3, <2>2, WriteStep
    <3>2. mod' = mod /\ cache' = cache  BY <1>3 DEF Writes
    <3>3. \A v \in Worker : OwnJob(v)'
      BY <3>1 DEF PurgeInv, OwnJob, Fenced, Current
    <3> QED  BY <3>1, <3>2, <3>3 DEF PurgeInv, Wish, KnownJob, Clean, Current
  <2> QED  BY <2>1, <2>2
<1>4. ASSUME NEW w \in Worker, ReleaseSuperseded(w) \/ Crash(w) \/ SetObjectPublicAccess(w)
      PROVE  PurgeInv'
  <2>1. Quiet  BY <1>4, QuietSteps
  <2>2. mod' = mod /\ cache' = cache /\ jobs' = jobs
    BY <1>4 DEF ReleaseSuperseded, Crash, SetObjectPublicAccess
  <2>3. \A v \in Worker : wk'[v].pc # "idle" => wk'[v].job = wk[v].job
    <3>1. wk' = [wk EXCEPT ![w] = Idle] \/ wk' = [wk EXCEPT ![w].applied = TRUE]
      BY <1>4 DEF ReleaseSuperseded, Crash, SetObjectPublicAccess
    <3> QED  BY <3>1, IdleType DEF TypeOK, Claimed
  <2>4. JobsKept  BY <2>2 DEF JobsKept
  <2> QED  BY <2>1, <2>2, <2>3, <2>4, PurgeFrame DEF Quiet, JobGoesOn
<1>5. ASSUME NEW w \in Worker, NEW j \in Job, NEW s \in {"processing", "partial"},
             CreatePurgeTask(w, j, s)
      PROVE  PurgeInv'
  <2> DEFINE i == wk[w].img
  <2>1. /\ wk[w].pc = "create" /\ jobs[j].status = "unused" /\ row' = row
        /\ mod' = mod /\ cache' = cache /\ i \in Image
    BY <1>5 DEF CreatePurgeTask, TypeOK
  <2>2. /\ jobs'[j].img = i /\ jobs'[j].status = s /\ jobs'[j].fresh
        /\ \A l \in Job : l # j => jobs'[l] = jobs[l]
    BY <1>5 DEF CreatePurgeTask, TypeOK
  <2>3. /\ wk'[w].job = j /\ wk'[w].pc = "create" /\ wk'[w].img = i
        /\ \A v \in Worker : v # w => wk'[v] = wk[v]
    BY <1>5 DEF CreatePurgeTask, TypeOK, Claimed
  <2>4. ~jobs[j].fresh  BY <2>1 DEF PurgeInv
  <2>5. \A x \in Image : Wish(x)' /\ KnownJob(x)'
    <3> SUFFICES ASSUME NEW x \in Image PROVE Wish(x)' /\ KnownJob(x)'  OBVIOUS
    <3>1. Wish(x) /\ KnownJob(x)  BY DEF PurgeInv
    <3>2. row[x].job # None => row[x].job \in Job  BY DEF TypeOK, Delivery
    <3> QED  BY <2>1, <2>2, <2>4, <3>1, <3>2 DEF Wish, KnownJob, Current
  <2>6. \A x \in Image : Clean(x)'
    <3> SUFFICES ASSUME NEW x \in Image PROVE Clean(x)'  OBVIOUS
    <3>1. Clean(x)  BY DEF PurgeInv
    <3> QED  BY <2>1, <2>2, <3>1 DEF Clean, Current
  <2>7. \A v \in Worker : OwnJob(v)'
    <3>1. OwnJob(w)'  BY <2>2, <2>3 DEF OwnJob, Current
    <3>2. ASSUME NEW v \in Worker, v # w PROVE OwnJob(v)'
      <4>1. wk'[v] = wk[v] /\ OwnJob(v)  BY <2>3, <3>2 DEF PurgeInv
      <4>2. wk[v].job # None => wk[v].job \in Job  BY DEF TypeOK, Claimed
      <4> QED  BY <2>1, <2>2, <2>4, <4>1, <4>2 DEF OwnJob, Current, Fenced
    <3> QED  BY <3>1, <3>2
  <2>8. \A l \in Job : /\ jobs'[l].young => jobs'[l].status \in {"processing", "partial"}
                       /\ jobs'[l].fresh => jobs'[l].status # "unused"
    BY <2>2 DEF PurgeInv
  <2> QED  BY <2>5, <2>6, <2>7, <2>8 DEF PurgeInv
<1>6. ASSUME NEW i \in Image, CacheFill(i) PROVE PurgeInv'
  <2>1. /\ mod' = mod /\ row' = row /\ wk' = wk /\ jobs' = jobs
        /\ cache'[i] = IF acl[i] THEN "public" ELSE "denied"
        /\ \A x \in Image : x # i => cache'[x] = cache[x]
    BY <1>6 DEF CacheFill, TypeOK
  <2>2. \A x \in Image : Clean(x)'
    <3>1. Clean(i)'
      <4>1. ~row[i].desired /\ row[i].state \in PastACL => ~acl[i]  BY DEF ACLConverged
      <4> QED  BY <2>1, <4>1 DEF Clean, PastACL
    <3>2. ASSUME NEW x \in Image, x # i PROVE Clean(x)'
      BY <2>1, <3>2 DEF PurgeInv, Clean, Current
    <3> QED  BY <3>1, <3>2
  <2>3. \A x \in Image : Wish(x)' /\ KnownJob(x)'
    BY <2>1 DEF PurgeInv, Wish, KnownJob, Current
  <2>4. \A w \in Worker : OwnJob(w)'
    BY <2>1 DEF PurgeInv, OwnJob, Current, Fenced
  <2> QED  BY <2>1, <2>2, <2>3, <2>4 DEF PurgeInv
<1>7. ASSUME NEW j \in Job, NEW s \in {"success", "failed"}, PurgeEnds(j, s) PROVE PurgeInv'
  <2>1. /\ mod' = mod /\ row' = row /\ wk' = wk /\ ~jobs[j].young
        /\ jobs'[j].img = jobs[j].img /\ jobs'[j].fresh = jobs[j].fresh
        /\ jobs'[j].young = jobs[j].young /\ jobs'[j].status = s
        /\ \A l \in Job : l # j => jobs'[l] = jobs[l]
    BY <1>7 DEF PurgeEnds, TypeOK, PurgeJob
  <2>2. /\ \A x \in Image : cache'[x] = "none" \/ cache'[x] = cache[x]
        /\ s = "success" => \A x \in Image : jobs[j].img = x => cache'[x] = "none"
    BY <1>7 DEF PurgeEnds, TypeOK
  <2>3. \A x \in Image : Clean(x)'
    <3> SUFFICES ASSUME NEW x \in Image PROVE Clean(x)'  OBVIOUS
    <3>1. Clean(x)  BY DEF PurgeInv
    <3>2. \A l \in Job : Current(l, x)' <=> Current(l, x)  BY <2>1 DEF Current
    <3>3. cache'[x] = "none" \/ (cache'[x] = cache[x] /\ (s = "success" => ~Current(j, x)))
      BY <2>2 DEF Current
    <3> QED  BY <2>1, <3>1, <3>2, <3>3 DEF Clean
  <2>4. \A x \in Image : Wish(x)' /\ KnownJob(x)'
    <3> SUFFICES ASSUME NEW x \in Image PROVE Wish(x)' /\ KnownJob(x)'  OBVIOUS
    <3>1. Wish(x) /\ KnownJob(x)  BY DEF PurgeInv
    <3>2. row[x].job # None => row[x].job \in Job  BY DEF TypeOK, Delivery
    <3> QED  BY <2>1, <3>1, <3>2 DEF Wish, KnownJob, Current
  <2>5. \A w \in Worker : OwnJob(w)'
    <3> SUFFICES ASSUME NEW w \in Worker PROVE OwnJob(w)'  OBVIOUS
    <3>1. OwnJob(w)  BY DEF PurgeInv
    <3>2. wk[w].job # None => wk[w].job \in Job  BY DEF TypeOK, Claimed
    <3> QED  BY <2>1, <3>1, <3>2 DEF OwnJob, Current, Fenced
  <2>6. \A l \in Job : /\ jobs'[l].young => jobs'[l].status \in {"processing", "partial"}
                       /\ jobs'[l].fresh => jobs'[l].status # "unused"
    BY <2>1 DEF PurgeInv
  <2> QED  BY <2>3, <2>4, <2>5, <2>6 DEF PurgeInv
<1>8. CASE Tick
  <2>1. Quiet  BY <1>8, QuietSteps
  <2>2. mod' = mod /\ cache' = cache  BY <1>8 DEF Tick
  <2>3. JobsKept
    <3> SUFFICES ASSUME NEW j \in Job
                 PROVE  /\ jobs'[j].img = jobs[j].img /\ jobs'[j].fresh = jobs[j].fresh
                        /\ jobs'[j].status = jobs[j].status /\ ~jobs'[j].young
      BY DEF JobsKept
    <3>1. jobs'[j] = [jobs[j] EXCEPT !.young = FALSE]  BY <1>8 DEF Tick
    <3>2. jobs[j] \in PurgeJob  BY DEF TypeOK
    <3> QED  BY <3>1, <3>2 DEF PurgeJob
  <2>4. \A w \in Worker : wk'[w].job = wk[w].job
    <3> SUFFICES ASSUME NEW w \in Worker PROVE wk'[w].job = wk[w].job  OBVIOUS
    <3> DEFINE n == IF wk[w].pc = "acl" THEN Down(wk[w].left) ELSE 0
    <3>1. wk'[w] = [wk[w] EXCEPT !.left = n]  BY <1>8 DEF Tick
    <3> HIDE DEF n
    <3> QED  BY <3>1 DEF TypeOK, Claimed
  <2> QED  BY <2>1, <2>2, <2>3, <2>4, PurgeFrame DEF Quiet, JobGoesOn
<1>9. CASE (\E i \in Image, b \in BOOLEAN : LateEffect(i, b)) \/ UNCHANGED vars
  <2>1. mod' = mod /\ row' = row /\ wk' = wk /\ cache' = cache /\ jobs' = jobs
    BY <1>9 DEF LateEffect, vars
  <2> QED  BY <2>1 DEF PurgeInv, Wish, KnownJob, Clean, OwnJob, Current, Fenced
<1> QED
  BY <1>1, <1>2, <1>3, <1>4, <1>5, <1>6, <1>7, <1>8, <1>9, ReturnWrites DEF Next

(* Once a delivery of a blocked or reviewed image is reported as succeeded,  *)
(* its object is private and the edge holds no public copy of it: for any    *)
(* number of images, workers and purge jobs, of crashes, of lost answers and *)
(* of jobs that other generations left behind, as long as COS drops requests *)
(* whose caller has given up.                                                *)
THEOREM PurgeSafety ==
  ASSUME ~LateACL
  PROVE  Spec => []BlockedNotServed
<1>1. Init => PurgeInv
  <2> SUFFICES ASSUME Init PROVE PurgeInv  OBVIOUS
  <2>1. \A i \in Image : row[i] = NoDelivery  BY DEF Init
  <2>2. \A w \in Worker : wk[w].pc = "idle"  BY IdleType DEF Init
  <2>3. NoDelivery.state = "none"  BY DEF NoDelivery
  <2>4. \A j \in Job : jobs[j].young = FALSE /\ jobs[j].fresh = FALSE  BY DEF Init
  <2> QED  BY <2>1, <2>2, <2>3, <2>4 DEF PurgeInv, Wish, KnownJob, Clean, OwnJob
<1>2. TypeOK /\ StageInv /\ ACLConverged /\ PurgeInv /\ [Next]_vars => PurgeInv'
  BY PurgeStep
<1>3. TypeOK /\ ACLConverged /\ PurgeInv => BlockedNotServed
  <2> SUFFICES ASSUME TypeOK, ACLConverged, PurgeInv, NEW i \in Image,
                      row[i].state = "succeeded", mod[i] # "pass"
               PROVE  ~acl[i] /\ cache[i] # "public"
    BY DEF BlockedNotServed
  <2>1. ~row[i].desired  BY DEF PurgeInv, Wish
  <2> QED  BY <2>1 DEF PurgeInv, Clean, ACLConverged, PastACL
<1> QED  BY <1>1, <1>2, <1>3, TypeCorrect, StagesHold, ACLSafety, PTL DEF Spec
-----------------------------------------------------------------------------
(***************************************************************************)
(* The delivery as a queue.  A task is a generation of an image.  A worker *)
(* whose claim was superseded still has the old generation in hand, and    *)
(* may even hold the row's lease; but it does not own the new generation,  *)
(* and the old one has been withdrawn.  A worker's lease is never on a     *)
(* delivery that is over, so giving the lease back never reopens one.      *)
(***************************************************************************)
Open == {"pending_acl", "pending_submit", "submitting", "submitted"}

LeaseOpen == \A i \in Image : row[i].token \in Worker => row[i].state \in Open

LEMMA States == State = Open \cup Terminal \cup {"none"} /\ "none" \notin Open \cup Terminal
  BY DEF State, Open, Terminal, PastACL

(* What a step may do to a generation as a task: the actions of TaskQueue. *)
TaskStep(i, g) ==
    \/ /\ ~(g < row[i].gen)
       /\ Phase(i, g) = "none" /\ Phase(i, g)' \in Open
       /\ Owner(i, g)' = None /\ Hands(i, g)' = Hands(i, g)
    \/ \E w \in Worker :
          \/ /\ Phase(i, g) \in Open /\ Phase(i, g)' = Phase(i, g) /\ Owner(i, g)' = w
             /\ w \notin Hands(i, g) /\ Hands(i, g)' = Hands(i, g) \cup {w}
          \/ /\ Phase(i, g) \in Open /\ Phase(i, g)' \in Open
             /\ Owner(i, g) = w /\ Owner(i, g)' = w
             /\ w \in Hands(i, g) /\ Hands(i, g)' = Hands(i, g)
          \/ /\ Phase(i, g) \in Open /\ Phase(i, g)' \in Open \cup Terminal
             /\ Owner(i, g) = w /\ Owner(i, g)' = None
             /\ w \in Hands(i, g) /\ Hands(i, g)' = Hands(i, g) \ {w}
          \/ /\ Phase(i, g)' = Phase(i, g) /\ Owner(i, g)' = Owner(i, g)
             /\ w \in Hands(i, g) /\ Hands(i, g)' = Hands(i, g) \ {w}
    \/ /\ g < row'[i].gen
       /\ Phase(i, g)' = "none" /\ Owner(i, g)' = None /\ Hands(i, g)' = Hands(i, g)
    \/ /\ Phase(i, g)' = Phase(i, g) /\ Owner(i, g)' = Owner(i, g)
       /\ Hands(i, g)' = Hands(i, g)

(* Generations only grow, and each is a task that takes a step of its own. *)
TasksStep ==
    /\ \A i \in Image : row[i].gen \in Nat /\ row'[i].gen \in Nat /\ row[i].gen <= row'[i].gen
    /\ \A i \in Image, g \in 1 .. MaxGen : TaskStep(i, g)

(* Steps of the generations make a step of the queue. *)
LEMMA StepOfQueue ==
  ASSUME TasksStep
  PROVE  Queue!Next
<1> DEFINE done == {t \in Generation : t[2] < row[t[1]].gen}
<1>1. \A t \in Generation : t[1] \in Image /\ t[2] \in 1 .. MaxGen /\ t[2] \in Nat
  BY BudgetAssumption DEF Generation
<1>2. done \subseteq done'
  <2> SUFFICES ASSUME NEW t \in Generation, t[2] < row[t[1]].gen PROVE t[2] < row'[t[1]].gen
    BY DEF Generation
  <2>1. /\ t[1] \in Image /\ t[2] \in Nat /\ row[t[1]].gen \in Nat /\ row'[t[1]].gen \in Nat
        /\ row[t[1]].gen <= row'[t[1]].gen
    BY <1>1 DEF TasksStep
  <2> QED  BY <2>1
<1>3. ASSUME NEW t \in Generation
      PROVE  \/ t \notin done /\ Queue!Put(t)
             \/ \E w \in Worker : \/ Queue!Take(t, w) \/ Queue!Advance(t, w)
                                \/ Queue!Release(t, w) \/ Queue!Forget(t, w)
             \/ Queue!Decide(t)
             \/ Queue!Same(t)
  <2>1. TaskStep(t[1], t[2])  BY <1>1 DEF TasksStep
  <2>2. t[2] < row'[t[1]].gen => t \in done'  BY DEF Generation
  <2>3. t \in done => t[2] < row[t[1]].gen  OBVIOUS
  <2> QED
    BY <2>1, <2>2, <2>3
    DEF TaskStep, Open, Queue!Put, Queue!Take, Queue!Advance, Queue!Release, Queue!Forget,
        Queue!Decide, Queue!Same
<1> QED  BY <1>2, <1>3 DEF Queue!Next

(* The owner of a generation is the worker that has it in hand under the     *)
(* row's token while it is the row's generation.                             *)
LEMMA OwnerIs ==
  ASSUME NEW i \in Image, NEW g \in Nat
  PROVE  /\ \A w \in Worker : Holds(w, i, g) => Owner(i, g) = w
         /\ \A w \in Worker : Holds(w, i, g)' => Owner(i, g)' = w
         /\ (\A w \in Worker : ~Holds(w, i, g)) => Owner(i, g) = None
         /\ (\A w \in Worker : ~Holds(w, i, g)') => Owner(i, g)' = None
  BY DEF Owner, Holds

(* A generation that is not the row's has no phase and no owner. *)
LEMMA NotCurrent ==
  ASSUME NEW i \in Image, NEW g \in Nat
  PROVE  /\ row[i].gen # g => Phase(i, g) = "none" /\ Owner(i, g) = None
         /\ row'[i].gen # g => Phase(i, g)' = "none" /\ Owner(i, g)' = None
  BY OwnerIs DEF Phase, Holds

(* A step that changes neither a generation's state nor its token nor the    *)
(* hands it is in.                                                           *)
LEMMA KeptTask ==
  ASSUME NEW i \in Image, NEW g \in Nat, row'[i].gen = row[i].gen,
         \/ row[i].gen # g
         \/ row'[i].state = row[i].state /\ row'[i].token = row[i].token,
         \A w \in Worker : InHand(w, i, g)' <=> InHand(w, i, g)
  PROVE  TaskStep(i, g)
<1>1. Hands(i, g)' = Hands(i, g)  BY DEF Hands
<1>2. CASE row[i].gen # g  BY <1>1, <1>2, NotCurrent DEF TaskStep
<1>3. CASE row[i].gen = g
  <2>1. Phase(i, g)' = Phase(i, g)  BY <1>3 DEF Phase
  <2>2. Owner(i, g)' = Owner(i, g)  BY <1>3 DEF Owner, Holds
  <2> QED  BY <1>1, <2>1, <2>2 DEF TaskStep
<1> QED  BY <1>2, <1>3

(* A worker that stops, without an outcome, gives back what is still its own *)
(* and forgets the rest.                                                     *)
LEMMA DroppedTask ==
  ASSUME LeaseOpen, NEW w \in Worker, NEW i \in Image, NEW g \in Nat,
         \A v \in Worker : InHand(v, i, g)' <=> v # w /\ InHand(v, i, g),
         row'[i].gen = row[i].gen, row'[i].state = row[i].state,
         \/ row'[i].token = row[i].token
         \/ row[i].token = w /\ row'[i].token \notin Worker
  PROVE  TaskStep(i, g)
<1>1. Phase(i, g)' = Phase(i, g)  BY DEF Phase
<1>2. CASE ~InHand(w, i, g)
  <2>1. Hands(i, g)' = Hands(i, g)  BY <1>2 DEF Hands
  <2>2. \A v \in Worker : Holds(v, i, g)' <=> Holds(v, i, g)  BY <1>2 DEF Holds
  <2>3. Owner(i, g)' = Owner(i, g)
    <3>1. CASE \E v \in Worker : Holds(v, i, g)
      <4>1. PICK v \in Worker : Holds(v, i, g)  BY <3>1
      <4> QED  BY <2>2, <4>1, OwnerIs
    <3>2. CASE ~\E v \in Worker : Holds(v, i, g)  BY <2>2, <3>2, OwnerIs
    <3> QED  BY <3>1, <3>2
  <2> QED  BY <1>1, <2>1, <2>3 DEF TaskStep
<1>3. CASE InHand(w, i, g)
  <2>1. w \in Hands(i, g) /\ Hands(i, g)' = Hands(i, g) \ {w}  BY <1>3 DEF Hands
  <2>2. CASE row[i].token = w /\ row[i].gen = g
    <3>1. Phase(i, g) \in Open  BY <2>2 DEF Phase, LeaseOpen
    <3>2. Owner(i, g) = w  BY <1>3, <2>2, OwnerIs DEF Holds
    <3>3. \A v \in Worker : ~Holds(v, i, g)'  BY <2>2 DEF Holds
    <3>4. Owner(i, g)' = None  BY <3>3, OwnerIs
    <3> QED  BY <1>1, <2>1, <3>1, <3>2, <3>4 DEF TaskStep
  <2>3. CASE row[i].gen # g  BY <1>1, <2>1, <2>3, NotCurrent DEF TaskStep
  <2>4. CASE row[i].token # w
    <3>1. row'[i].token = row[i].token  BY <2>4
    <3>2. \A v \in Worker : Holds(v, i, g)' <=> Holds(v, i, g)  BY <2>4, <3>1 DEF Holds
    <3>3. Owner(i, g)' = Owner(i, g)  BY <3>1, <3>2 DEF Owner
    <3> QED  BY <1>1, <2>1, <3>3 DEF TaskStep
  <2> QED  BY <2>2, <2>3, <2>4
<1> QED  BY <1>2, <1>3

(* A moderation fact withdraws the generations before it and puts in a new   *)
(* one that nobody has in hand.                                              *)
LEMMA ModerateTasks ==
  ASSUME TypeOK, StageInv, LeaseOpen, NEW i \in Image, NEW v \in Issued, Moderate(i, v)
  PROVE  LeaseOpen' /\ TasksStep
<1>1. PICK n \in Nat : n = row[i].gen  BY ModerateStep
<1>2. /\ row'[i].gen = n + 1 /\ row'[i].state = "pending_acl"
      /\ \A x \in Image : x # i => row'[x] = row[x]
      /\ wk' = wk
  BY <1>1, ModerateStep
<1>3. LeaseOpen'  BY <1>2 DEF LeaseOpen, Open
<1>4. \A x \in Image, g \in Nat : Hands(x, g)' = Hands(x, g)  BY <1>2 DEF Hands, InHand
<1>5. ASSUME NEW g \in Nat PROVE TaskStep(i, g)
  <2>1. CASE g = n + 1
    <3>1. ~(g < row[i].gen) /\ Phase(i, g) = "none"  BY <1>1, <2>1 DEF Phase
    <3>2. Phase(i, g)' \in Open  BY <1>2, <2>1 DEF Phase, Open
    <3>3. \A w \in Worker : ~InHand(w, i, g)'
      <4> SUFFICES ASSUME NEW w \in Worker, wk[w].pc # "idle", wk[w].img = i PROVE wk[w].gen # g
        BY <1>2 DEF InHand
      <4>1. wk[w].gen \in Nat /\ wk[w].gen <= n  BY <1>1 DEF StageInv, TypeOK, Claimed
      <4> QED  BY <2>1, <4>1
    <3>4. Owner(i, g)' = None
      <4>1. \A w \in Worker : ~Holds(w, i, g)'  BY <3>3 DEF Holds
      <4> QED  BY <4>1, OwnerIs
    <3> QED  BY <1>4, <3>1, <3>2, <3>4 DEF TaskStep
  <2>2. CASE g < n + 1
    <3>1. g < row'[i].gen /\ row'[i].gen # g  BY <1>2, <2>2
    <3> QED  BY <1>4, <3>1, NotCurrent DEF TaskStep
  <2>3. CASE g > n + 1
    <3>1. row[i].gen # g /\ row'[i].gen # g  BY <1>1, <1>2, <2>3
    <3> QED  BY <1>4, <3>1, NotCurrent DEF TaskStep
  <2> QED  BY <2>1, <2>2, <2>3
<1>6. ASSUME NEW x \in Image, x # i, NEW g \in Nat PROVE TaskStep(x, g)
  <2>1. \A w \in Worker : InHand(w, x, g)' <=> InHand(w, x, g)  BY <1>2 DEF InHand
  <2> QED  BY <1>2, <1>6, <2>1, KeptTask
<1>7. \A x \in Image : row[x].gen \in Nat /\ row'[x].gen \in Nat /\ row[x].gen <= row'[x].gen
  BY <1>1, <1>2 DEF TypeOK, Delivery
<1>8. \A g \in 1 .. MaxGen : g \in Nat  OBVIOUS
<1> QED  BY <1>3, <1>5, <1>6, <1>7, <1>8 DEF TasksStep

(* Where no delivery is written, generations stay as they are. *)
LEMMA SameGenerations ==
  ASSUME TypeOK, \A x \in Image : row'[x].gen = row[x].gen,
         \A x \in Image, g \in Nat : TaskStep(x, g)
  PROVE  TasksStep
<1>1. \A x \in Image : row[x].gen \in Nat  BY DEF TypeOK, Delivery
<1>2. \A g \in 1 .. MaxGen : g \in Nat  OBVIOUS
<1> QED  BY <1>1, <1>2 DEF TasksStep

(* A claim takes the row's generation. *)
LEMMA ClaimTasks ==
  ASSUME TypeOK, LeaseOpen, NEW w \in Worker, NEW i \in Image, ClaimDue(w, i)
  PROVE  LeaseOpen' /\ TasksStep
<1>1. PICK n \in Nat : n = row[i].gen  BY DEF TypeOK, Delivery
<1>0. row[i].state \in Open
  <2>1. row[i].state \in State  BY DEF TypeOK, Delivery
  <2> QED  BY <2>1, States DEF ClaimDue, Due
<1>2. /\ wk[w].pc = "idle"
      /\ wk'[w].pc # "idle" /\ wk'[w].img = i /\ wk'[w].gen = n
      /\ row'[i].token = w
      /\ \A x \in Image : x # i => row'[x] = row[x]
      /\ \A v \in Worker : v # w => wk'[v] = wk[v]
  BY <1>1, ClaimTakes DEF ClaimDue
<1>3. \A x \in Image : row'[x].gen = row[x].gen /\ row'[x].state = row[x].state
  BY LeaseMoves DEF Untouched
<1>4. LeaseOpen'  BY <1>0, <1>2, <1>3 DEF LeaseOpen
<1>5. \A x \in Image, g \in Nat, v \in Worker :
         InHand(v, x, g)' <=> IF v = w THEN x = i /\ g = n ELSE InHand(v, x, g)
  BY <1>2 DEF InHand
<1>6. \A x \in Image, g \in Nat : ~InHand(w, x, g)  BY <1>2 DEF InHand
<1>7. TaskStep(i, n)
  <2>1. Phase(i, n) \in Open /\ Phase(i, n)' = Phase(i, n)  BY <1>0, <1>1, <1>3 DEF Phase
  <2>2. Owner(i, n)' = w
    <3>1. Holds(w, i, n)'  BY <1>1, <1>2, <1>3, <1>5 DEF Holds
    <3> QED  BY <3>1, OwnerIs
  <2>3. w \notin Hands(i, n) /\ Hands(i, n)' = Hands(i, n) \cup {w}  BY <1>5, <1>6 DEF Hands
  <2> QED  BY <2>1, <2>2, <2>3 DEF TaskStep
<1>8. ASSUME NEW x \in Image, NEW g \in Nat, x # i \/ g # n PROVE TaskStep(x, g)
  <2>1. \A v \in Worker : InHand(v, x, g)' <=> InHand(v, x, g)  BY <1>5, <1>6, <1>8
  <2>2. row[x].gen # g \/ row'[x].token = row[x].token  BY <1>1, <1>2, <1>8
  <2> QED  BY <1>3, <2>1, <2>2, KeptTask
<1> QED  BY <1>3, <1>4, <1>7, <1>8, SameGenerations

(* Whatever a worker writes, the delivery is open or over.                   *)
LEMMA WriteStates ==
  ASSUME NEW w \in Worker, NEW r, NEW k, Writes(w, r, k)
  PROVE  r.state \in Open \cup Terminal
  BY DEF Writes, Outcome, Open, Terminal

(* A fenced write releases the generation or keeps it in hand; a superseded  *)
(* one changes nothing.                                                      *)
LEMMA WriteTasks ==
  ASSUME TypeOK, StageInv, LeaseOpen, NEW w \in Worker, NEW r, NEW k, Writes(w, r, k)
  PROVE  LeaseOpen' /\ TasksStep
<1>1. PICK x \in Image : x = wk[w].img  BY WriteStep
<1>2. PICK n \in Nat : n = wk[w].gen  BY DEF TypeOK, Claimed
<1>3. wk[w].pc \in Stages /\ wk[w].pc # "idle" /\ \A v \in Worker : v # w => wk'[v] = wk[v]
  BY WriteStep DEF Writes, Stages
<1>4. CASE ~Fenced(w)
  <2>1. row' = row /\ wk'[w].pc # "idle" /\ wk'[w].img = wk[w].img /\ wk'[w].gen = wk[w].gen
    BY <1>4, WriteStep
  <2>2. \A y \in Image, g \in Nat, v \in Worker : InHand(v, y, g)' <=> InHand(v, y, g)
    BY <1>3, <2>1 DEF InHand
  <2>3. LeaseOpen'  BY <2>1 DEF LeaseOpen
  <2>4. \A y \in Image, g \in Nat : TaskStep(y, g)  BY <2>1, <2>2, KeptTask
  <2> QED  BY <2>1, <2>3, <2>4, SameGenerations
<1>5. CASE Fenced(w)
  <2>1. /\ row[x].gen = n /\ row[x].token = w /\ row'[x] = r /\ r.gen = n /\ wk'[w] = k
        /\ r.token = IF k.pc = "idle" THEN None ELSE w
        /\ \A y \in Image : y # x => row'[y] = row[y]
    BY <1>1, <1>2, <1>5, WriteStep DEF Fenced
  <2>2. k.pc # "idle" => AtStage(k.pc, r.state) /\ k.img = x /\ k.gen = n
    BY <1>1, <1>2, <1>5, WriteKeepsReplay
  <2>3. row[x].state \in Open  BY <2>1 DEF LeaseOpen
  <2>4. k.pc # "idle" => r.state \in Open  BY <2>2 DEF AtStage, Open
  <2>5. LeaseOpen'  BY <2>1, <2>4, NullAssumption DEF LeaseOpen
  <2>6. \A y \in Image : row'[y].gen = row[y].gen  BY <2>1
  <2>7. InHand(w, x, n)  BY <1>1, <1>2, <1>3 DEF InHand
  <2>8. \A y \in Image, g \in Nat, v \in Worker : v # w => (InHand(v, y, g)' <=> InHand(v, y, g))
    BY <1>3 DEF InHand
  <2>9. \A y \in Image, g \in Nat : y # x \/ g # n => ~InHand(w, y, g) /\ ~InHand(w, y, g)'
    BY <1>1, <1>2, <2>1, <2>2 DEF InHand
  <2>10. ASSUME NEW y \in Image, NEW g \in Nat, y # x \/ g # n PROVE TaskStep(y, g)
    <3>1. \A v \in Worker : InHand(v, y, g)' <=> InHand(v, y, g)  BY <2>8, <2>9, <2>10
    <3>2. row[y].gen # g \/ row'[y] = row[y]  BY <2>1, <2>10
    <3> QED  BY <2>6, <3>1, <3>2, KeptTask
  <2>11. TaskStep(x, n)
    <3>1. CASE k.pc = "idle"
      <4>1. Phase(x, n) \in Open /\ Phase(x, n)' \in Open \cup Terminal
        BY <2>1, <2>3, WriteStates DEF Phase
      <4>2. Owner(x, n) = w  BY <2>1, <2>7, OwnerIs DEF Holds
      <4>3. Owner(x, n)' = None  BY <2>1, <3>1, NullAssumption, OwnerIs DEF Holds
      <4>4. ~InHand(w, x, n)'  BY <2>1, <3>1 DEF InHand
      <4>5. w \in Hands(x, n) /\ Hands(x, n)' = Hands(x, n) \ {w}  BY <2>7, <2>8, <4>4 DEF Hands
      <4> QED  BY <4>1, <4>2, <4>3, <4>5 DEF TaskStep
    <3>2. CASE k.pc # "idle"
      <4>1. InHand(w, x, n)'  BY <2>1, <2>2, <3>2 DEF InHand
      <4>2. Hands(x, n)' = Hands(x, n) /\ w \in Hands(x, n)  BY <2>7, <2>8, <4>1 DEF Hands
      <4>3. Owner(x, n) = w  BY <2>1, <2>7, OwnerIs DEF Holds
      <4>4. Owner(x, n)' = w  BY <2>1, <3>2, <4>1, OwnerIs DEF Holds
      <4>5. Phase(x, n) \in Open /\ Phase(x, n)' \in Open  BY <2>1, <2>3, <2>4, <3>2 DEF Phase
      <4> QED  BY <4>2, <4>3, <4>4, <4>5 DEF TaskStep
    <3> QED  BY <3>1, <3>2
  <2> QED  BY <2>5, <2>6, <2>10, <2>11, SameGenerations
<1> QED  BY <1>4, <1>5

(* A worker that stops, because it was superseded or died, drops its claim. *)
LEMMA StopTasks ==
  ASSUME TypeOK, LeaseOpen, NEW w \in Worker, ReleaseSuperseded(w) \/ Crash(w)
  PROVE  LeaseOpen' /\ TasksStep
<1> DEFINE i == wk[w].img
           q == [Unleased(row[i]) EXCEPT !.nextIn = 0]
<1>1. i \in Image /\ wk' = [wk EXCEPT ![w] = Idle]
  BY DEF ReleaseSuperseded, Crash, TypeOK
<1>2. wk'[w].pc = "idle" /\ \A v \in Worker : v # w => wk'[v] = wk[v]
  BY <1>1, IdleType DEF TypeOK
<1>3. \A y \in Image : row'[y].gen = row[y].gen /\ row'[y].state = row[y].state
  BY <1>1, LeaseMoves DEF Untouched
<1>4. \A y \in Image : \/ row'[y].token = row[y].token
                       \/ row[y].token = w /\ row'[y].token \notin Worker
  <2>1. q.token = None /\ row[i] \in Delivery  BY <1>1, ReleaseStep DEF ReleaseSuperseded, Crash, TypeOK
  <2>2. \/ row' = row
        \/ row[i].token = w /\ (row' = [row EXCEPT ![i] = q] \/ row' = [row EXCEPT ![i].token = Orphan])
    BY DEF ReleaseSuperseded, Crash
  <2> HIDE DEF q
  <2>3. CASE row' = row  BY <2>3
  <2>4. CASE row[i].token = w /\ row' = [row EXCEPT ![i] = q]
    <3>1. row'[i] = q /\ \A y \in Image : y # i => row'[y] = row[y]  BY <1>1, <2>4 DEF TypeOK
    <3> QED  BY <2>1, <2>4, <3>1, NullAssumption
  <2>5. CASE row[i].token = w /\ row' = [row EXCEPT ![i].token = Orphan]
    <3>1. row'[i].token = Orphan /\ \A y \in Image : y # i => row'[y] = row[y]
      BY <1>1, <2>1, <2>5 DEF TypeOK, Delivery
    <3> QED  BY <2>5, <3>1, NullAssumption
  <2> QED  BY <2>2, <2>3, <2>4, <2>5
<1>5. LeaseOpen'  BY <1>3, <1>4 DEF LeaseOpen
<1>6. \A y \in Image, g \in Nat, v \in Worker : InHand(v, y, g)' <=> v # w /\ InHand(v, y, g)
  BY <1>2 DEF InHand
<1>7. \A y \in Image, g \in Nat : TaskStep(y, g)  BY <1>3, <1>4, <1>6, DroppedTask
<1> QED  BY <1>3, <1>5, <1>7, SameGenerations

(* Every step keeps the invariant and is a step of each generation. *)
LEMMA NextTasks ==
  ASSUME TypeOK, StageInv, LeaseOpen, [Next]_vars
  PROVE  LeaseOpen' /\ TasksStep
<1>1. ASSUME \A x \in Image : /\ row'[x].gen = row[x].gen /\ row'[x].state = row[x].state
                              /\ row'[x].token = row[x].token,
             \A v \in Worker : wk'[v].pc = wk[v].pc /\ wk'[v].img = wk[v].img /\ wk'[v].gen = wk[v].gen
      PROVE  LeaseOpen' /\ TasksStep
  <2>1. LeaseOpen'  BY <1>1 DEF LeaseOpen
  <2>2. \A x \in Image, g \in Nat, v \in Worker : InHand(v, x, g)' <=> InHand(v, x, g)  BY <1>1 DEF InHand
  <2>3. \A x \in Image, g \in Nat : TaskStep(x, g)  BY <1>1, <2>2, KeptTask
  <2> QED  BY <1>1, <2>1, <2>3, SameGenerations
<1>2. ASSUME NEW w \in Worker,
             \/ SetObjectPublicAccess(w)
             \/ \E j \in Job, s \in {"processing", "partial"} : CreatePurgeTask(w, j, s)
      PROVE  LeaseOpen' /\ TasksStep
  <2>1. row' = row /\ (wk' = [wk EXCEPT ![w].applied = TRUE] \/ \E j \in Job : wk' = [wk EXCEPT ![w].job = j])
    BY <1>2 DEF SetObjectPublicAccess, CreatePurgeTask
  <2>2. \A v \in Worker : wk'[v].pc = wk[v].pc /\ wk'[v].img = wk[v].img /\ wk'[v].gen = wk[v].gen
    BY <2>1 DEF TypeOK, Claimed
  <2> QED  BY <1>1, <2>1, <2>2
<1>3. CASE \/ \E i \in Image, b \in BOOLEAN : LateEffect(i, b)
           \/ \E i \in Image : CacheFill(i)
           \/ \E j \in Job, s \in {"success", "failed"} : PurgeEnds(j, s)
           \/ UNCHANGED vars
  <2>1. row' = row /\ wk' = wk  BY <1>3 DEF LateEffect, CacheFill, PurgeEnds, vars
  <2> QED  BY <1>1, <2>1
<1>4. CASE Tick  BY <1>1, <1>4, TickRow, TickClaim
<1>5. ASSUME NEW w \in Worker, Return(w) PROVE LeaseOpen' /\ TasksStep
  <2>1. CASE ReleaseSuperseded(w)  BY <2>1, StopTasks
  <2>2. ASSUME NEW r, NEW k, Writes(w, r, k) PROVE LeaseOpen' /\ TasksStep  BY <2>2, WriteTasks
  <2> QED  BY <1>5, <2>1, <2>2, ReturnWrites
<1> QED  BY <1>2, <1>3, <1>4, <1>5, ModerateTasks, ClaimTasks, StopTasks DEF Next

(* The delivery outbox implements the abstract queue, for any number of      *)
(* images, workers, verdicts and crashes: Enqueue, ClaimDue, UpdateClaim and *)
(* ReleaseSuperseded move, give back or finish a generation only by the hand *)
(* of the worker that claimed it last, never take up one that was finished   *)
(* or superseded, and let no worker that still has an older generation in    *)
(* hand, the row's lease included, touch a newer one.                        *)
THEOREM DeliveryRefinement == Spec => DeliveryIsQueue
<1>1. Init => LeaseOpen /\ Queue!Init
  <2> SUFFICES ASSUME Init PROVE LeaseOpen /\ Queue!Init  OBVIOUS
  <2>1. \A i \in Image : row[i].gen = 0 /\ row[i].token = None  BY DEF Init, NoDelivery
  <2>2. \A w \in Worker : wk[w].pc = "idle"  BY IdleType DEF Init
  <2>3. LeaseOpen  BY <2>1, NullAssumption DEF LeaseOpen
  <2>4. ASSUME NEW t \in Generation
        PROVE  /\ Phase(t[1], t[2]) = "none" /\ Owner(t[1], t[2]) = None /\ Hands(t[1], t[2]) = {}
               /\ ~(t[2] < row[t[1]].gen)
    <3>1. t[1] \in Image /\ t[2] \in 1 .. MaxGen  BY DEF Generation
    <3>2. row[t[1]].gen = 0 /\ t[2] \in Nat /\ t[2] > 0  BY <2>1, <3>1, BudgetAssumption
    <3>3. Hands(t[1], t[2]) = {}  BY <2>2 DEF Hands, InHand
    <3> QED  BY <3>1, <3>2, <3>3, NotCurrent
  <2>5. Queue!Init
    <3>1. [t \in Generation |-> Phase(t[1], t[2])] = [t \in Generation |-> "none"]  BY <2>4
    <3>2. [t \in Generation |-> Owner(t[1], t[2])] = [t \in Generation |-> None]  BY <2>4
    <3>3. [t \in Generation |-> Hands(t[1], t[2])] = [t \in Generation |-> {}]  BY <2>4
    <3>4. {t \in Generation : t[2] < row[t[1]].gen} = {}  BY <2>4
    <3> QED  BY <3>1, <3>2, <3>3, <3>4 DEF Queue!Init
  <2> QED  BY <2>3, <2>5
<1>2. TypeOK /\ StageInv /\ LeaseOpen /\ [Next]_vars => LeaseOpen' /\ Queue!Next
  BY NextTasks, StepOfQueue
<1> QED  BY <1>1, <1>2, TypeCorrect, StagesHold, PTL DEF Spec, DeliveryIsQueue, Queue!Spec
=============================================================================
