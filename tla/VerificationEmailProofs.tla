----------------------- MODULE VerificationEmailProofs -----------------------
(***************************************************************************)
(* Proofs about VerificationEmail for any addresses, codes, workers, batch *)
(* sizes, timers and budgets.                                              *)
(***************************************************************************)
EXTENDS VerificationEmail, FiniteSetTheorems, TLAPS

(* r2 is r with at most its code cleared and its progress changed. *)
Kept(r, r2) ==
    /\ r2 \in Delivery
    /\ r2.key = r.key /\ r2.digest = r.digest
    /\ r2.code => r.code
    /\ r2.state # "none" => r.state # "none"

(* ... and not its progress either. *)
SameProgress(r, r2) ==
    r2.state = r.state /\ r2.token = r.token /\ r2.leaseIn = r.leaseIn

(* A retry delay is a number, whatever the doubling computes. *)
LEMMA DelayType == \A n \in Nat : retryDelay(n) \in Nat
  BY NumbersAssumption DEF retryDelay

(* Ending an attempt rewrites state, lease, timer and error code only. *)
LEMMA EndedType ==
  ASSUME NEW r \in Delivery, NEW st \in {"pending"} \cup Final,
         NEW c \in {"none", "stale_challenge", "provider_error", "delivery_exhausted"}
  PROVE  /\ Ended(r, st, c) \in Delivery
         /\ Ended(r, st, c).key = r.key /\ Ended(r, st, c).digest = r.digest
         /\ Ended(r, st, c).code = r.code /\ Ended(r, st, c).attempts = r.attempts
         /\ Ended(r, st, c).state = st /\ Ended(r, st, c).token = None
  BY ZenonT(60) DEF Ended, Delivery, Final

(* A failed attempt keeps key and digest, sets no code and gives the lease back. *)
LEMMA FailedType ==
  ASSUME NEW r \in Delivery
  PROVE  /\ Failed(r) \in Delivery
         /\ Failed(r).key = r.key /\ Failed(r).digest = r.digest
         /\ Failed(r).code => r.code
         /\ Failed(r).state \in {"pending", "dead_letter"} /\ Failed(r).token = None
<1>0. r.attempts + 1 \in Nat  BY DEF Delivery
<1>1. CASE r.attempts + 1 >= MaxAttempts
  <2> DEFINE t == Ended(r, "dead_letter", "delivery_exhausted")
  <2>1. /\ t \in Delivery /\ t.key = r.key /\ t.digest = r.digest /\ t.attempts = r.attempts
        /\ t.state = "dead_letter" /\ t.token = None
    BY EndedType DEF Final
  <2>2. Failed(r) = [t EXCEPT !.attempts = @ + 1, !.code = FALSE]
    BY <1>1 DEF Failed, deadLetter
  <2> HIDE DEF t
  <2> DEFINE u == [t EXCEPT !.attempts = @ + 1, !.code = FALSE]
  <2>3. u \in Delivery /\ u.key = t.key /\ u.digest = t.digest /\ ~u.code
        /\ u.state = t.state /\ u.token = t.token
    BY <1>0, <2>1 DEF Delivery
  <2>4. Failed(r) = u  BY <2>2
  <2> HIDE DEF u
  <2> QED  BY <2>1, <2>3, <2>4
<1>2. CASE ~(r.attempts + 1 >= MaxAttempts)
  <2> DEFINE t == Ended(r, "pending", "provider_error")
             n == retryDelay(r.attempts + 1)
  <2>1. /\ t \in Delivery /\ t.key = r.key /\ t.digest = r.digest /\ t.attempts = r.attempts /\ t.code = r.code
        /\ t.state = "pending" /\ t.token = None
    BY EndedType
  <2>2. Failed(r) = [t EXCEPT !.attempts = @ + 1, !.nextIn = n]
    BY <1>2 DEF Failed
  <2>3. n \in Nat  BY <1>0, DelayType
  <2> HIDE DEF t, n
  <2> DEFINE u == [t EXCEPT !.attempts = @ + 1, !.nextIn = n]
  <2>4. u \in Delivery /\ u.key = t.key /\ u.digest = t.digest /\ u.code = t.code
        /\ u.state = t.state /\ u.token = t.token
    BY <1>0, <2>1, <2>3 DEF Delivery
  <2>5. Failed(r) = u  BY <2>2
  <2> HIDE DEF u
  <2> QED  BY <2>1, <2>4, <2>5
<1> QED  BY <1>1, <1>2

(* SaveState's clearing touches codes only, and what it leaves of k's is      *)
(* the code that c accepts.                                                  *)
LEMMA ClearedType ==
  ASSUME TypeOK, NEW k \in Key, NEW c \in Challenge
  PROVE  /\ Cleared(k, c) \in [Id -> Delivery]
         /\ \A d \in Id : /\ Kept(dl[d], Cleared(k, c)[d])
                          /\ SameProgress(dl[d], Cleared(k, c)[d])
                          /\ Cleared(k, c)[d].code /\ dl[d].key = k => Usable(c) /\ dl[d].digest = c.digest
<1>1. \A d \in Id : dl[d] \in Delivery  BY DEF TypeOK
<1>2. ASSUME NEW d \in Id
      PROVE  /\ Cleared(k, c)[d] \in Delivery
             /\ Kept(dl[d], Cleared(k, c)[d])
             /\ SameProgress(dl[d], Cleared(k, c)[d])
             /\ Cleared(k, c)[d].code /\ dl[d].key = k => Usable(c) /\ dl[d].digest = c.digest
  <2>1. CASE dl[d].key = k /\ (Usable(c) => dl[d].digest # c.digest)
    <3>1. Cleared(k, c)[d] = [dl[d] EXCEPT !.code = FALSE]  BY <2>1 DEF Cleared
    <3> QED  BY <1>1, <2>1, <3>1 DEF Kept, SameProgress, Delivery
  <2>2. CASE ~(dl[d].key = k /\ (Usable(c) => dl[d].digest # c.digest))
    <3>1. Cleared(k, c)[d] = dl[d]  BY <2>2 DEF Cleared
    <3> QED  BY <1>1, <2>2, <3>1 DEF Kept, SameProgress
  <2> QED  BY <2>1, <2>2
<1>3. Cleared(k, c) \in [Id -> Delivery]
  <2>1. Cleared(k, c) = [d \in Id |-> Cleared(k, c)[d]]  BY DEF Cleared
  <2> QED  BY <1>2, <2>1
<1> QED  BY <1>2, <1>3

(* The challenge of an issued code starts afresh. *)
LEMMA IssuedType ==
  ASSUME NEW c \in Challenge, NEW g \in Code \cup {None}
  PROVE  /\ Issued(c, g) \in Challenge
         /\ Issued(c, g).digest = g /\ Issued(c, g).failed = 0
         /\ Issued(c, g).consumed = FALSE
<1>1. TTL \in Nat /\ Cooldown \in Nat /\ Window \in Nat  BY NumbersAssumption
<1> QED  BY <1>1 DEF Issued, Challenge

(* The challenges that a missed and a consumed code leave. *)
LEMMA ChallengeType ==
  ASSUME NEW c \in Challenge
  PROVE  /\ Missed(c) \in Challenge
         /\ [c EXCEPT !.consumed = TRUE] \in Challenge
<1>1. c.failed + 1 \in Nat /\ c.guesses + 1 \in Nat  BY DEF Challenge
<1>2. Missed(c) = [c EXCEPT !.failed = c.failed + 1, !.guesses = c.guesses + 1]
  BY DEF Missed, Challenge
<1>3. [c EXCEPT !.failed = c.failed + 1, !.guesses = c.guesses + 1] \in Challenge
  BY <1>1 DEF Challenge
<1>4. [c EXCEPT !.consumed = TRUE] \in Challenge  BY DEF Challenge
<1> QED  BY <1>2, <1>3, <1>4

(* The new row of an issued code. *)
LEMMA EnqueuedType ==
  ASSUME NEW k \in Key, NEW code \in Code
  PROVE  /\ Enqueued(k, code) \in Delivery
         /\ Enqueued(k, code).key = k /\ Enqueued(k, code).digest = code
         /\ Enqueued(k, code).state = "pending" /\ Enqueued(k, code).token = None
  BY DEF Enqueued, NoDelivery, Delivery, Final

-----------------------------------------------------------------------------
(* Each kind of step, by what it does to the two tables. *)

(* A step that rewrites challenge k as c and clears codes. *)
Saves(k, c) ==
    /\ k \in Key /\ c \in Challenge
    /\ chal' = [chal EXCEPT ![k] = c]
    /\ dl' = Cleared(k, c)
    /\ wk' = wk /\ count' = count

(* A step that issues code for k and enqueues its mail. *)
Serves(k, code) ==
    /\ k \in Key /\ code \in Code /\ count < MaxDeliveries
    /\ chal' = [chal EXCEPT ![k] = Issued(chal[k], code)]
    /\ dl' = [Cleared(k, Issued(chal[k], code)) EXCEPT ![count + 1] = Enqueued(k, code)]
    /\ wk' = wk /\ count' = count + 1

(* A step of a worker or of time: no challenge gets another code. *)
Works ==
    /\ chal' \in [Key -> Challenge]
    /\ \A k \in Key : /\ chal'[k].digest = chal[k].digest /\ chal'[k].failed = chal[k].failed
                      /\ chal'[k].consumed = chal[k].consumed
    /\ dl' \in [Id -> Delivery]
    /\ \A d \in Id : Kept(dl[d], dl'[d])
    /\ count' = count

(* UpdateClaim writes one row, if any. *)
LEMMA UpdateWorks ==
  ASSUME TypeOK, NEW w \in Worker, wk[w].pc \in {"cancel", "send"}, NEW r \in Delivery,
         r.key = dl[wk[w].cur].key, r.digest = dl[wk[w].cur].digest,
         r.code => dl[wk[w].cur].code, UpdateClaim(w, r)
  PROVE  Works
<1>1. wk[w].cur \in Id /\ \A d \in Id : dl[d] \in Delivery  BY DEF TypeOK
<1>2. chal' = chal /\ count' = count  BY DEF UpdateClaim
<1>3. dl' \in [Id -> Delivery] /\ \A d \in Id : Kept(dl[d], dl'[d])
  <2>1. CASE Fenced(w)
    <3>1. dl' = [dl EXCEPT ![wk[w].cur] = r] /\ dl[wk[w].cur].state = "sending"
      BY <2>1 DEF UpdateClaim, Fenced
    <3>2. dl' \in [Id -> Delivery]  BY <1>1, <3>1 DEF TypeOK
    <3>3. dl'[wk[w].cur] = r /\ \A d \in Id : d # wk[w].cur => dl'[d] = dl[d]
      BY <1>1, <3>1 DEF TypeOK
    <3> QED  BY <1>1, <3>1, <3>2, <3>3 DEF Kept
  <2>2. CASE ~Fenced(w)
    BY <1>1, <2>2 DEF UpdateClaim, Kept, TypeOK
  <2> QED  BY <2>1, <2>2
<1>4. chal \in [Key -> Challenge]  BY DEF TypeOK
<1> QED  BY <1>2, <1>3, <1>4 DEF Works

(* What Step does. *)
LEMMA StepWorks ==
  ASSUME TypeOK, NEW w \in Worker, Step(w)
  PROVE  Works /\ wk' \in [Worker -> Busy]
         /\ \A v \in Worker : wk'[v].pc \in {"cancel", "send"} => wk'[v].cur \in Id
<1>0. /\ wk[w] \in Busy /\ \A d \in Id : dl[d] \in Delivery
      /\ chal \in [Key -> Challenge] /\ dl \in [Id -> Delivery]
  BY DEF TypeOK
<1>1. ASSUME NEW d \in Id, RefreshClaim(w, d)
      PROVE  Works /\ wk' \in [Worker -> Busy]
             /\ \A v \in Worker : wk'[v].pc \in {"cancel", "send"} => wk'[v].cur \in Id
  <2>1. chal' = chal /\ dl' = dl /\ count' = count  BY <1>1 DEF RefreshClaim
  <2>2. Works  BY <1>0, <2>1 DEF Works, Kept
  <2> DEFINE p == IF ~Owned(w, d) THEN "batch" ELSE IF Current(d) THEN "send" ELSE "cancel"
             b == [wk[w] EXCEPT !.batch = @ \ {d}, !.cur = d, !.pc = p]
  <2>3. p \in {"batch", "send", "cancel"}  OBVIOUS
  <2>4. wk' = [wk EXCEPT ![w] = b]  BY <1>1 DEF RefreshClaim, TypeOK
  <2> HIDE DEF p
  <2>5. b \in Busy /\ b.cur = d  BY <1>0, <1>1, <2>3 DEF Busy
  <2> HIDE DEF b
  <2> QED  BY <2>2, <2>4, <2>5 DEF TypeOK
<1>2. CASE EndBatch(w)
  <2>1. chal' = chal /\ dl' = dl /\ count' = count /\ wk' = [wk EXCEPT ![w] = Idle]
    BY <1>2 DEF EndBatch
  <2>2. Works  BY <1>0, <2>1 DEF Works, Kept
  <2>3. Idle \in Busy /\ Idle.pc = "idle"  BY DEF Idle, Busy
  <2> QED  BY <2>1, <2>2, <2>3 DEF TypeOK
<1>3. ASSUME NEW r, UpdateClaim(w, r)
      PROVE  wk' \in [Worker -> Busy]
             /\ \A v \in Worker : wk'[v].pc \in {"cancel", "send"} => wk'[v].cur \in Id
  <2> DEFINE b == [wk[w] EXCEPT !.pc = "batch"]
  <2>1. b \in Busy /\ b.pc = "batch"  BY <1>0 DEF Busy
  <2>2. wk' = [wk EXCEPT ![w] = b]  BY <1>3 DEF UpdateClaim, TypeOK
  <2> HIDE DEF b
  <2> QED  BY <2>1, <2>2 DEF TypeOK
<1>4. CASE Cancel(w)
  <2> DEFINE u == Ended(dl[wk[w].cur], "canceled", "stale_challenge")
             r == [u EXCEPT !.code = FALSE]
  <2>1. wk[w].pc = "cancel" /\ wk[w].cur \in Id /\ UpdateClaim(w, r)  BY <1>4 DEF Cancel, TypeOK
  <2>2. u \in Delivery /\ u.key = dl[wk[w].cur].key /\ u.digest = dl[wk[w].cur].digest
    BY <1>0, <2>1, EndedType DEF Final
  <2> HIDE DEF u
  <2>3. r \in Delivery /\ r.key = u.key /\ r.digest = u.digest /\ ~r.code  BY <2>2 DEF Delivery
  <2> HIDE DEF r
  <2> QED  BY <1>3, <2>1, <2>2, <2>3, UpdateWorks
<1>5. CASE Sent(w)
  <2> DEFINE r == Ended(dl[wk[w].cur], "sent", "none")
  <2>1. wk[w].pc = "send" /\ wk[w].cur \in Id /\ UpdateClaim(w, r)  BY <1>5 DEF Sent, TypeOK
  <2>2. /\ r \in Delivery /\ r.key = dl[wk[w].cur].key /\ r.digest = dl[wk[w].cur].digest
        /\ r.code = dl[wk[w].cur].code
    BY <1>0, <2>1, EndedType DEF Final
  <2> HIDE DEF r
  <2> QED  BY <1>3, <2>1, <2>2, UpdateWorks
<1>6. CASE SendFailed(w)
  <2> DEFINE r == Failed(dl[wk[w].cur])
  <2>1. wk[w].pc = "send" /\ wk[w].cur \in Id /\ UpdateClaim(w, r)  BY <1>6 DEF SendFailed, TypeOK
  <2>2. /\ r \in Delivery /\ r.key = dl[wk[w].cur].key /\ r.digest = dl[wk[w].cur].digest
        /\ r.code => dl[wk[w].cur].code
    BY <1>0, <2>1, FailedType
  <2> HIDE DEF r
  <2> QED  BY <1>3, <2>1, <2>2, UpdateWorks
<1> QED  BY <1>1, <1>2, <1>4, <1>5, <1>6 DEF Step

(* What the claim of a batch does to the rows. *)
LEMMA BatchWorks ==
  ASSUME TypeOK, NEW w \in Worker, NEW claims \in SUBSET Id, RunBatch(w, claims)
  PROVE  /\ Works /\ wk' \in [Worker -> Busy]
         /\ \A v \in Worker : wk'[v].pc \in {"cancel", "send"} => wk'[v].cur \in Id
         /\ \A d \in Id \ claims : SameProgress(dl[d], dl'[d])
         /\ \A d \in claims : /\ Due(d)
                              /\ dl'[d].state = "sending" /\ dl'[d].token = w /\ dl'[d].leaseIn = Lease
<1>0. /\ \A d \in Id : dl[d] \in Delivery
      /\ Lease \in Nat /\ BatchWindow \in Nat
  BY NumbersAssumption DEF TypeOK
<1> DEFINE r(d) == IF ClearInvalidCodes(d) THEN [dl[d] EXCEPT !.code = FALSE] ELSE dl[d]
<1>1. ASSUME NEW d \in Id
      PROVE  r(d) \in Delivery /\ Kept(dl[d], r(d)) /\ SameProgress(dl[d], r(d))
  <2>1. CASE ClearInvalidCodes(d)
    <3>1. r(d) = [dl[d] EXCEPT !.code = FALSE]  BY <2>1
    <3> QED  BY <1>0, <3>1 DEF Kept, SameProgress, Delivery
  <2>2. CASE ~ClearInvalidCodes(d)
    BY <1>0, <2>2 DEF Kept, SameProgress
  <2> QED  BY <2>1, <2>2
<1>2. dl' = [d \in Id |-> IF d \in claims THEN Claimed(r(d), w) ELSE r(d)]
  BY DEF RunBatch
<1>3. \A d \in claims : Due(d) /\ d \in Id  BY DEF RunBatch
<1> HIDE DEF r
<1>4. ASSUME NEW d \in claims
      PROVE  /\ dl'[d] \in Delivery /\ Kept(dl[d], dl'[d])
             /\ dl'[d].state = "sending" /\ dl'[d].token = w /\ dl'[d].leaseIn = Lease
  <2>1. d \in Id /\ dl[d].state # "none"  BY <1>3 DEF Due
  <2>2. dl'[d] = Claimed(r(d), w)  BY <1>2, <2>1
  <2>3. r(d) \in Delivery /\ Kept(dl[d], r(d))  BY <1>1, <2>1
  <2>4. /\ Claimed(r(d), w) \in Delivery
        /\ Claimed(r(d), w).key = r(d).key /\ Claimed(r(d), w).digest = r(d).digest
        /\ Claimed(r(d), w).code = r(d).code
        /\ Claimed(r(d), w).state = "sending" /\ Claimed(r(d), w).token = w
        /\ Claimed(r(d), w).leaseIn = Lease
    BY <1>0, <2>3 DEF Claimed, Delivery
  <2> QED  BY <2>1, <2>2, <2>3, <2>4 DEF Kept
<1>5. ASSUME NEW d \in Id \ claims
      PROVE  dl'[d] \in Delivery /\ Kept(dl[d], dl'[d]) /\ SameProgress(dl[d], dl'[d])
  BY <1>1, <1>2, <1>5
<1>6. Works
  <2>1. dl' \in [Id -> Delivery]
    <3>1. dl' = [d \in Id |-> dl'[d]]  BY <1>2
    <3> QED  BY <1>4, <1>5, <3>1
  <2>2. chal' = chal /\ count' = count  BY DEF RunBatch
  <2> QED  BY <1>4, <1>5, <2>1, <2>2 DEF Works, TypeOK
<1>7. wk' \in [Worker -> Busy]
      /\ \A v \in Worker : wk'[v].pc \in {"cancel", "send"} => wk'[v].cur \in Id
  <2> DEFINE b == [pc |-> "batch", batch |-> claims, cur |-> None, left |-> BatchWindow]
  <2>1. b \in Busy /\ b.pc = "batch"  BY <1>0 DEF Busy
  <2>2. wk' = wk \/ wk' = [wk EXCEPT ![w] = b]  BY DEF RunBatch
  <2> HIDE DEF b
  <2> QED  BY <2>1, <2>2 DEF TypeOK
<1> QED  BY <1>3, <1>4, <1>5, <1>6, <1>7

(* A crash only hands the leases to nobody. *)
LEMMA CrashWorks ==
  ASSUME TypeOK, NEW w \in Worker, Crash(w)
  PROVE  /\ Works /\ wk' = [wk EXCEPT ![w] = Idle] /\ Idle \in Busy /\ Idle.pc = "idle"
         /\ \A d \in Id : dl[d].token # w => dl'[d] = dl[d]
         /\ \A d \in Id : dl'[d].state = dl[d].state
         /\ \A d \in Id : dl[d].token = w => dl'[d].token = Orphan
<1>0. \A d \in Id : dl[d] \in Delivery  BY DEF TypeOK
<1>1. ASSUME NEW d \in Id
      PROVE  dl'[d] \in Delivery /\ Kept(dl[d], dl'[d])
             /\ (dl[d].token # w => dl'[d] = dl[d]) /\ dl'[d].state = dl[d].state
             /\ (dl[d].token = w => dl'[d].token = Orphan)
  <2>1. CASE dl[d].token = w
    <3>1. dl'[d] = [dl[d] EXCEPT !.token = Orphan]  BY <2>1 DEF Crash
    <3> QED  BY <1>0, <2>1, <3>1 DEF Kept, Delivery
  <2>2. CASE dl[d].token # w
    BY <1>0, <2>2 DEF Kept, Crash
  <2> QED  BY <2>1, <2>2
<1>2. dl' \in [Id -> Delivery]
  <2>1. dl' = [d \in Id |-> dl'[d]]  BY DEF Crash
  <2> QED  BY <1>1, <2>1
<1>3. chal' = chal /\ count' = count /\ wk' = [wk EXCEPT ![w] = Idle]  BY DEF Crash
<1>4. Idle \in Busy /\ Idle.pc = "idle"  BY DEF Idle, Busy
<1> QED  BY <1>1, <1>2, <1>3, <1>4 DEF Works, TypeOK

(* A tick counts the timers down. *)
LEMMA TickWorks ==
  ASSUME TypeOK, Tick
  PROVE  /\ Works /\ wk' \in [Worker -> Busy]
         /\ \A w \in Worker : /\ wk'[w].pc = wk[w].pc /\ wk'[w].cur = wk[w].cur
                              /\ wk'[w].batch = wk[w].batch /\ wk'[w].left = Down(wk[w].left)
         /\ \A d \in Id : /\ dl'[d].state = dl[d].state /\ dl'[d].token = dl[d].token
                          /\ dl'[d].leaseIn = Down(dl[d].leaseIn)
<1>0. \A n \in Nat : Down(n) \in Nat  BY DEF Down
<1>1. ASSUME NEW d \in Id
      PROVE  /\ dl'[d] \in Delivery /\ Kept(dl[d], dl'[d])
             /\ dl'[d].state = dl[d].state /\ dl'[d].token = dl[d].token
             /\ dl'[d].leaseIn = Down(dl[d].leaseIn)
  <2>1. dl[d] \in Delivery /\ Down(dl[d].nextIn) \in Nat /\ Down(dl[d].leaseIn) \in Nat
    BY <1>0 DEF TypeOK, Delivery
  <2>2. dl'[d] = [dl[d] EXCEPT !.nextIn = Down(dl[d].nextIn), !.leaseIn = Down(dl[d].leaseIn)]
    BY <2>1 DEF Tick, Delivery
  <2> QED  BY <2>1, <2>2 DEF Kept, Delivery
<1>2. dl' \in [Id -> Delivery]
  <2>1. dl' = [d \in Id |-> dl'[d]]  BY DEF Tick
  <2> QED  BY <1>1, <2>1
<1>3. ASSUME NEW k \in Key
      PROVE  /\ chal'[k] \in Challenge
             /\ chal'[k].digest = chal[k].digest /\ chal'[k].failed = chal[k].failed
             /\ chal'[k].consumed = chal[k].consumed
  <2>1. chal[k] \in Challenge  BY DEF TypeOK
  <2>2. Down(chal[k].ttl) \in Nat /\ Down(chal[k].cool) \in Nat /\ Down(chal[k].window) \in Nat
    BY <1>0, <2>1 DEF Challenge
  <2>3. chal'[k] = [chal[k] EXCEPT !.ttl = Down(chal[k].ttl), !.cool = Down(chal[k].cool),
                                   !.window = Down(chal[k].window)]
    BY <2>1 DEF Tick, Challenge
  <2> QED  BY <2>1, <2>2, <2>3 DEF Challenge
<1>4. chal' \in [Key -> Challenge]
  <2>1. chal' = [k \in Key |-> chal'[k]]  BY DEF Tick
  <2> QED  BY <1>3, <2>1
<1>5. ASSUME NEW w \in Worker
      PROVE  /\ wk'[w] \in Busy /\ wk'[w].pc = wk[w].pc /\ wk'[w].cur = wk[w].cur
             /\ wk'[w].batch = wk[w].batch /\ wk'[w].left = Down(wk[w].left)
  <2>1. wk[w] \in Busy /\ Down(wk[w].left) \in Nat  BY <1>0 DEF TypeOK, Busy
  <2>2. wk'[w] = [wk[w] EXCEPT !.left = Down(wk[w].left)]  BY <2>1 DEF Tick, Busy
  <2> QED  BY <2>1, <2>2 DEF Busy
<1>6. wk' \in [Worker -> Busy]
  <2>1. wk' = [w \in Worker |-> wk'[w]]  BY DEF Tick
  <2> QED  BY <1>5, <2>1
<1>7. count' = count  BY DEF Tick
<1> QED  BY <1>1, <1>2, <1>3, <1>4, <1>5, <1>6, <1>7 DEF Works

-----------------------------------------------------------------------------
(* Requests. *)

Request ==
    \/ \E e \in Email : FindByEmail(e) \/ Register(e) \/ ResetPassword(e) \/ Delete(e)
    \/ \E e \in Email, code \in Code : SendVerificationCode(e, code) \/ SendPasswordResetCode(e, code)
    \/ \E k \in Key : consumeVerification_wrong(k)

(* The step is one of the three kinds. *)
Kinds ==
    \/ chal' = chal /\ dl' = dl /\ wk' = wk /\ count' = count
    \/ \E k \in Key, c \in Challenge : Saves(k, c)
    \/ \E k \in Key, code \in Code : Serves(k, code)

(* Issuing either serves a code or saves a digest that no code matches. *)
LEMMA IssueKinds ==
  ASSUME TypeOK, NEW k \in Key, NEW code \in Code, NEW served \in BOOLEAN, Issue(k, code, served)
  PROVE  Kinds /\ account' = account /\ crashes' = crashes
<1>1. account' = account /\ crashes' = crashes /\ wk' = wk  BY DEF Issue
<1>2. chal[k] \in Challenge  BY DEF TypeOK
<1>3. CASE served
  BY <1>1, <1>3 DEF Issue, Serves, Kinds
<1>4. CASE ~served
  <2>1. Issued(chal[k], None) \in Challenge  BY <1>2, IssuedType
  <2>2. Saves(k, Issued(chal[k], None))  BY <1>1, <1>4, <2>1 DEF Issue, SaveState, Saves
  <2> QED  BY <1>1, <2>1, <2>2 DEF Kinds
<1> QED  BY <1>3, <1>4

(* Every request is of one of the kinds and keeps the other tables typed. *)
LEMMA RequestKinds ==
  ASSUME TypeOK, Request
  PROVE  /\ Kinds
         /\ account' \in [Email -> {"none", "active", "deleted"}]
         /\ asked' \in [Email -> {"no", "free", "taken"}]
         /\ crashes' = crashes
<1>0. \A k \in Key : chal[k] \in Challenge  BY DEF TypeOK
<1> DEFINE Goal == /\ Kinds
                   /\ account' \in [Email -> {"none", "active", "deleted"}]
                   /\ asked' \in [Email -> {"no", "free", "taken"}]
                   /\ crashes' = crashes
<1>1. ASSUME NEW e \in Email, FindByEmail(e) PROVE Goal
  BY <1>1 DEF FindByEmail, Kinds, TypeOK
<1>2. ASSUME NEW e \in Email, Delete(e) PROVE Goal
  BY <1>2 DEF Delete, Kinds, TypeOK
<1>3. ASSUME NEW k, consumeVerification(k), wk' = wk, count' = count PROVE Kinds
  <2>1. k \in Key /\ SaveState(k, [chal[k] EXCEPT !.consumed = TRUE])  BY <1>3 DEF consumeVerification
  <2>2. [chal[k] EXCEPT !.consumed = TRUE] \in Challenge
    BY <1>0, <2>1, ChallengeType
  <2>3. Saves(k, [chal[k] EXCEPT !.consumed = TRUE])
    BY <1>3, <2>1, <2>2 DEF SaveState, Saves
  <2> QED  BY <2>1, <2>2, <2>3 DEF Kinds
<1>4. ASSUME NEW e \in Email, Register(e) PROVE Goal
  <2>1. Kinds  BY <1>3, <1>4 DEF Register
  <2> QED  BY <1>4, <2>1 DEF Register, TypeOK
<1>5. ASSUME NEW e \in Email, ResetPassword(e) PROVE Goal
  <2>1. Kinds  BY <1>3, <1>5 DEF ResetPassword
  <2> QED  BY <1>5, <2>1 DEF ResetPassword, TypeOK
<1>6. ASSUME NEW k \in Key, consumeVerification_wrong(k) PROVE Goal
  <2>1. Missed(chal[k]) \in Challenge
    BY <1>0, ChallengeType
  <2>2. Saves(k, Missed(chal[k]))  BY <1>6, <2>1 DEF consumeVerification_wrong, SaveState, Saves
  <2>3. Kinds  BY <2>1, <2>2 DEF Kinds
  <2> QED  BY <1>6, <2>3 DEF consumeVerification_wrong, TypeOK
<1>7. ASSUME NEW e \in Email, NEW code \in Code, SendPasswordResetCode(e, code) PROVE Goal
  <2>1. Reset(e) \in Key /\ Issue(Reset(e), code, account[e] = "active") /\ asked' = asked
    BY <1>7 DEF SendPasswordResetCode
  <2>2. Kinds /\ account' = account /\ crashes' = crashes
    BY <2>1, IssueKinds
  <2> QED  BY <2>1, <2>2 DEF TypeOK
<1>8. ASSUME NEW e \in Email, NEW code \in Code, SendVerificationCode(e, code) PROVE Goal
  <2>1. Registration(e) \in Key /\ asked' = [asked EXCEPT ![e] = "no"]
    BY <1>8 DEF SendVerificationCode
  <2>2. asked' \in [Email -> {"no", "free", "taken"}]  BY <2>1 DEF TypeOK
  <2>3. CASE Issue(Registration(e), code, asked[e] = "free")
    <3>1. Kinds /\ account' = account /\ crashes' = crashes  BY <2>1, <2>3, IssueKinds
    <3> QED  BY <2>2, <3>1 DEF TypeOK
  <2>4. CASE UNCHANGED <<account, chal, dl, count, wk, crashes>>
    BY <2>2, <2>4 DEF TypeOK, Kinds
  <2> QED  BY <1>8, <2>3, <2>4 DEF SendVerificationCode
<1> QED  BY <1>1, <1>2, <1>4, <1>5, <1>6, <1>7, <1>8 DEF Request

(* Next is a request or a step of Works. *)
LEMMA NextSplit ==
  ASSUME Next
  PROVE  \/ Request
         \/ \E w \in Worker, claims \in SUBSET Id : RunBatch(w, claims)
         \/ \E w \in Worker : Step(w)
         \/ \E w \in Worker : Crash(w)
         \/ Tick
  BY DEF Next, Request

(* What Saves does. *)
LEMMA SavesRows ==
  ASSUME TypeOK, NEW k \in Key, NEW c \in Challenge, Saves(k, c)
  PROVE  /\ chal' \in [Key -> Challenge] /\ dl' \in [Id -> Delivery]
         /\ chal'[k] = c /\ \A x \in Key : x # k => chal'[x] = chal[x]
         /\ \A d \in Id : /\ Kept(dl[d], dl'[d]) /\ SameProgress(dl[d], dl'[d])
                          /\ dl'[d].code /\ dl[d].key = k => Usable(c) /\ dl[d].digest = c.digest
<1>1. chal' = [chal EXCEPT ![k] = c] /\ dl' = Cleared(k, c)  BY DEF Saves
<1>2. /\ dl' \in [Id -> Delivery]
      /\ \A d \in Id : /\ Kept(dl[d], dl'[d]) /\ SameProgress(dl[d], dl'[d])
                       /\ dl'[d].code /\ dl[d].key = k => Usable(c) /\ dl[d].digest = c.digest
  BY <1>1, ClearedType
<1>3. /\ chal' \in [Key -> Challenge]
      /\ chal'[k] = c /\ \A x \in Key : x # k => chal'[x] = chal[x]
  BY <1>1 DEF TypeOK
<1> QED  BY <1>2, <1>3

(* What Serves does. *)
LEMMA ServesRows ==
  ASSUME TypeOK, NEW k \in Key, NEW g \in Code, Serves(k, g)
  PROVE  /\ chal' \in [Key -> Challenge] /\ dl' \in [Id -> Delivery]
         /\ count + 1 \in Id
         /\ chal'[k].digest = g /\ chal'[k].failed = 0 /\ ~chal'[k].consumed
         /\ \A x \in Key : x # k => chal'[x] = chal[x]
         /\ dl'[count + 1] = Enqueued(k, g)
         /\ \A d \in Id : d # count + 1 =>
               /\ Kept(dl[d], dl'[d]) /\ SameProgress(dl[d], dl'[d])
               /\ dl'[d].code /\ dl[d].key = k => dl[d].digest = g
<1>0. /\ Issued(chal[k], g) \in Challenge
      /\ Issued(chal[k], g).digest = g /\ Issued(chal[k], g).failed = 0
      /\ ~Issued(chal[k], g).consumed
  <2>1. chal[k] \in Challenge /\ g \in Code \cup {None}  BY DEF TypeOK
  <2> QED  BY <2>1, IssuedType
<1> DEFINE c == Issued(chal[k], g)
<1>1. c \in Challenge /\ c.digest = g /\ c.failed = 0 /\ ~c.consumed
  BY <1>0
<1>2. count + 1 \in Id  BY NumbersAssumption DEF Serves, TypeOK, Id
<1>3. chal' = [chal EXCEPT ![k] = c] /\ dl' = [Cleared(k, c) EXCEPT ![count + 1] = Enqueued(k, g)]
  BY DEF Serves
<1> HIDE DEF c
<1>4. /\ Cleared(k, c) \in [Id -> Delivery]
      /\ \A d \in Id : /\ Kept(dl[d], Cleared(k, c)[d])
                       /\ SameProgress(dl[d], Cleared(k, c)[d])
                       /\ Cleared(k, c)[d].code /\ dl[d].key = k => dl[d].digest = c.digest
  BY <1>1, ClearedType
<1>5. Enqueued(k, g) \in Delivery  BY EnqueuedType
<1> QED  BY <1>1, <1>2, <1>3, <1>4, <1>5 DEF TypeOK

(* The rows, the challenges, the accounts and the workers stay well typed:   *)
(* in particular last_error_code stays in the migration's whitelist and every *)
(* row in use belongs to a challenge.                                        *)
THEOREM TypeCorrect == Spec => []TypeOK
<1>1. Init => TypeOK
  <2> SUFFICES ASSUME Init PROVE TypeOK  OBVIOUS
  <2>1. NoChallenge \in Challenge  BY DEF NoChallenge, Challenge
  <2>2. NoDelivery \in Delivery /\ NoDelivery.state = "none" /\ ~NoDelivery.code
    BY DEF NoDelivery, Delivery
  <2>3. Idle \in Busy /\ Idle.pc = "idle"  BY DEF Idle, Busy
  <2> QED  BY <2>1, <2>2, <2>3, NumbersAssumption DEF Init, TypeOK
<1>2. TypeOK /\ [Next]_vars => TypeOK'
  <2> SUFFICES ASSUME TypeOK, [Next]_vars PROVE TypeOK'  OBVIOUS
  <2> DEFINE Workers == /\ wk' \in [Worker -> Busy]
                        /\ \A v \in Worker : wk'[v].pc \in {"cancel", "send"} => wk'[v].cur \in Id
  <2>1. ASSUME Works, Workers, account' = account, asked' = asked, crashes' \in Nat PROVE TypeOK'
    BY <2>1 DEF Works, Kept, TypeOK
  <2>2. CASE Request
    <3>1. /\ Kinds
          /\ account' \in [Email -> {"none", "active", "deleted"}]
          /\ asked' \in [Email -> {"no", "free", "taken"}]
          /\ crashes' = crashes
      BY <2>2, RequestKinds
    <3>2. CASE chal' = chal /\ dl' = dl /\ wk' = wk /\ count' = count
      BY <3>1, <3>2 DEF TypeOK
    <3>3. ASSUME NEW k \in Key, NEW c \in Challenge, Saves(k, c) PROVE TypeOK'
      <4>1. /\ chal' \in [Key -> Challenge] /\ dl' \in [Id -> Delivery]
            /\ \A d \in Id : Kept(dl[d], dl'[d])
        BY <3>3, SavesRows
      <4>2. wk' = wk /\ count' = count  BY <3>3 DEF Saves
      <4> QED  BY <3>1, <4>1, <4>2 DEF TypeOK, Kept
    <3>4. ASSUME NEW k \in Key, NEW code \in Code, Serves(k, code) PROVE TypeOK'
      <4>1. /\ chal' \in [Key -> Challenge] /\ dl' \in [Id -> Delivery]
            /\ dl'[count + 1] = Enqueued(k, code)
            /\ \A d \in Id : d # count + 1 => Kept(dl[d], dl'[d])
        BY <3>4, ServesRows
      <4>2. wk' = wk /\ count' \in 0 .. MaxDeliveries
        BY <3>4, NumbersAssumption DEF Serves, TypeOK
      <4>3. Enqueued(k, code).key \in Key  BY EnqueuedType
      <4> QED  BY <3>1, <4>1, <4>2, <4>3 DEF TypeOK, Kept
    <3> QED  BY <3>1, <3>2, <3>3, <3>4 DEF Kinds
  <2>3. ASSUME NEW w \in Worker, NEW claims \in SUBSET Id, RunBatch(w, claims) PROVE TypeOK'
    <3>1. Works /\ Workers  BY <2>3, BatchWorks
    <3>2. account' = account /\ asked' = asked /\ crashes' \in Nat  BY <2>3 DEF RunBatch, TypeOK
    <3> QED  BY <2>1, <3>1, <3>2
  <2>4. ASSUME NEW w \in Worker, Step(w) PROVE TypeOK'
    <3>1. Works /\ Workers  BY <2>4, StepWorks
    <3>2. account' = account /\ asked' = asked /\ crashes' \in Nat
      BY <2>4 DEF Step, RefreshClaim, EndBatch, Cancel, Sent, SendFailed, UpdateClaim, TypeOK
    <3> QED  BY <2>1, <3>1, <3>2
  <2>5. ASSUME NEW w \in Worker, Crash(w) PROVE TypeOK'
    <3>1. Works /\ wk' = [wk EXCEPT ![w] = Idle] /\ Idle \in Busy /\ Idle.pc = "idle"
      BY <2>5, CrashWorks
    <3>2. Workers  BY <3>1 DEF TypeOK
    <3>3. account' = account /\ asked' = asked /\ crashes' \in Nat  BY <2>5 DEF Crash, TypeOK
    <3> QED  BY <2>1, <3>1, <3>2, <3>3
  <2>6. CASE Tick
    <3>1. /\ Works /\ wk' \in [Worker -> Busy]
          /\ \A v \in Worker : wk'[v].pc = wk[v].pc /\ wk'[v].cur = wk[v].cur
      BY <2>6, TickWorks
    <3>2. Workers  BY <3>1 DEF TypeOK
    <3>3. account' = account /\ asked' = asked /\ crashes' \in Nat  BY <2>6 DEF Tick, TypeOK
    <3> QED  BY <2>1, <3>1, <3>2, <3>3
  <2>7. CASE UNCHANGED vars
    BY <2>7 DEF vars, TypeOK
  <2> QED  BY <2>2, <2>3, <2>4, <2>5, <2>6, <2>7, NextSplit
<1> QED  BY <1>1, <1>2, PTL DEF Spec

(* Whatever is replayed, lost or interleaved, a plaintext code in the outbox *)
(* is the code its challenge now accepts, unless its time has passed:        *)
(* replacing, consuming or exhausting a code clears it in the same           *)
(* transaction.                                                              *)
THEOREM PlaintextSafety == Spec => []PlaintextCurrent
<1>1. Init => PlaintextCurrent
  BY DEF Init, PlaintextCurrent, NoDelivery
<1>2. TypeOK /\ PlaintextCurrent /\ [Next]_vars => PlaintextCurrent'
  <2> SUFFICES ASSUME TypeOK, PlaintextCurrent, [Next]_vars,
                      NEW d \in Id, dl'[d].code
               PROVE  LET c == chal'[dl'[d].key] IN
                      c.digest = dl'[d].digest /\ ~c.consumed /\ c.failed < MaxFailed
    BY DEF PlaintextCurrent
  <2> DEFINE k0 == dl[d].key
  <2>1. ASSUME Kept(dl[d], dl'[d])
        PROVE  /\ dl'[d].key = k0 /\ dl'[d].digest = dl[d].digest /\ k0 \in Key
               /\ chal[k0].digest = dl[d].digest /\ ~chal[k0].consumed /\ chal[k0].failed < MaxFailed
    BY <2>1 DEF Kept, TypeOK, PlaintextCurrent
  <2>2. CASE Works
    BY <2>1, <2>2 DEF Works
  <2>3. CASE Request
    <3>1. CASE chal' = chal /\ dl' = dl
      BY <3>1 DEF PlaintextCurrent
    <3>2. ASSUME NEW k \in Key, NEW c \in Challenge, Saves(k, c)
          PROVE  LET x == chal'[dl'[d].key] IN
                 x.digest = dl'[d].digest /\ ~x.consumed /\ x.failed < MaxFailed
      <4>1. /\ chal'[k] = c /\ \A x \in Key : x # k => chal'[x] = chal[x]
            /\ Kept(dl[d], dl'[d])
            /\ dl'[d].code /\ k0 = k => Usable(c) /\ dl[d].digest = c.digest
        BY <3>2, SavesRows
      <4> QED  BY <2>1, <4>1 DEF Usable
    <3>3. ASSUME NEW k \in Key, NEW g \in Code, Serves(k, g)
          PROVE  LET x == chal'[dl'[d].key] IN
                 x.digest = dl'[d].digest /\ ~x.consumed /\ x.failed < MaxFailed
      <4>1. /\ chal'[k].digest = g /\ chal'[k].failed = 0 /\ ~chal'[k].consumed
            /\ \A x \in Key : x # k => chal'[x] = chal[x]
            /\ dl'[count + 1] = Enqueued(k, g)
            /\ d # count + 1 => /\ Kept(dl[d], dl'[d])
                                /\ dl'[d].code /\ k0 = k => dl[d].digest = g
        BY <3>3, ServesRows
      <4>2. MaxFailed > 0  BY NumbersAssumption
      <4>3. CASE d = count + 1
        BY <4>1, <4>2, <4>3, EnqueuedType
      <4>4. CASE d # count + 1
        <5>1. /\ dl'[d].key = k0 /\ dl'[d].digest = dl[d].digest /\ k0 \in Key
              /\ chal[k0].digest = dl[d].digest /\ ~chal[k0].consumed /\ chal[k0].failed < MaxFailed
          BY <2>1, <4>1, <4>4
        <5>2. CASE k0 = k
          <6>1. dl[d].digest = g  BY <4>1, <4>4, <5>2
          <6>2. chal'[dl'[d].key] = chal'[k]  BY <5>1, <5>2
          <6> QED  BY <4>1, <4>2, <5>1, <6>1, <6>2
        <5>3. CASE k0 # k
          BY <4>1, <5>1, <5>3
        <5> QED  BY <5>2, <5>3
      <4> QED  BY <4>3, <4>4
    <3> QED  BY <2>3, <3>1, <3>2, <3>3, RequestKinds DEF Kinds
  <2>4. CASE UNCHANGED vars
    BY <2>4 DEF vars, PlaintextCurrent
  <2>5. ASSUME NEW w \in Worker, NEW claims \in SUBSET Id, RunBatch(w, claims) PROVE Works
    BY <2>5, BatchWorks
  <2>6. ASSUME NEW w \in Worker, Step(w) PROVE Works
    BY <2>6, StepWorks
  <2>7. ASSUME NEW w \in Worker, Crash(w) PROVE Works
    BY <2>7, CrashWorks
  <2>8. CASE Tick
    BY <2>2, <2>8, TickWorks
  <2>9. CASE Next
    BY <2>2, <2>3, <2>5, <2>6, <2>7, <2>8, <2>9, NextSplit
  <2> QED  BY <2>4, <2>9
<1> QED  BY <1>1, <1>2, TypeCorrect, PTL DEF Spec

-----------------------------------------------------------------------------
(* Leases. *)

(* Worker w, in state b, holds row r for longer than its batch can still take. *)
Has(w, b, r) == r.state = "sending" /\ r.token = w /\ b.left < r.leaseIn

(* A worker holds, for longer than its batch may still take, the lease of    *)
(* every claim it has not decided yet; rows not enqueued yet are untouched.  *)
LeaseInv ==
    /\ \A d \in Id : d > count => dl[d].state = "none"
    /\ \A w \in Worker : wk[w].pc # "idle" => \A d \in wk[w].batch : Has(w, wk[w], dl[d])
    /\ \A w \in Worker : wk[w].pc \in {"cancel", "send"} =>
                         Has(w, wk[w], dl[wk[w].cur]) /\ wk[w].cur \notin wk[w].batch

(* A step that changes no worker and no lease keeps the invariant. *)
LEMMA SameLeases ==
  ASSUME TypeOK, LeaseInv, wk' = wk, count' \in Nat, count' >= count,
         \A d \in Id : d > count' \/ dl[d].state # "none" => SameProgress(dl[d], dl'[d])
  PROVE  LeaseInv'
<1>1. \A d \in Id : d > count' => dl'[d].state = "none"
  <2> SUFFICES ASSUME NEW d \in Id, d > count' PROVE dl'[d].state = "none"  OBVIOUS
  <2>1. d > count  BY DEF TypeOK, Id
  <2> QED  BY <2>1 DEF LeaseInv, SameProgress
<1>2. ASSUME NEW w \in Worker, NEW d \in Id, Has(w, wk[w], dl[d]) PROVE Has(w, wk'[w], dl'[d])
  BY <1>2 DEF Has, SameProgress
<1>3. \A w \in Worker : wk[w].batch \subseteq Id  BY DEF TypeOK, Busy
<1>4. \A w \in Worker : wk[w].pc \in {"cancel", "send"} => wk[w].cur \in Id  BY DEF TypeOK
<1>5. \A w \in Worker : wk'[w].pc # "idle" => \A d \in wk'[w].batch : Has(w, wk'[w], dl'[d])
  BY <1>2, <1>3 DEF LeaseInv
<1>6. \A w \in Worker : wk'[w].pc \in {"cancel", "send"} =>
                       Has(w, wk'[w], dl'[wk'[w].cur]) /\ wk'[w].cur \notin wk'[w].batch
  <2> SUFFICES ASSUME NEW w \in Worker, wk[w].pc \in {"cancel", "send"}
               PROVE  Has(w, wk'[w], dl'[wk'[w].cur]) /\ wk'[w].cur \notin wk'[w].batch
    OBVIOUS
  <2>1. wk[w].cur \in Id /\ Has(w, wk[w], dl[wk[w].cur]) /\ wk[w].cur \notin wk[w].batch
    BY <1>4 DEF LeaseInv
  <2>2. Has(w, wk'[w], dl'[wk[w].cur])  BY <1>2, <2>1
  <2>3. wk'[w].cur = wk[w].cur /\ wk'[w].batch = wk[w].batch  OBVIOUS
  <2> QED  BY <2>1, <2>2, <2>3 DEF Has
<1> QED  BY <1>1, <1>5, <1>6 DEF LeaseInv

(* The invariant is inductive. *)
LEMMA LeaseStep ==
  ASSUME BatchWindow < Lease, TypeOK, LeaseInv, [Next]_vars
  PROVE  LeaseInv'
<1>0. /\ BatchWindow \in Nat /\ Lease \in Nat /\ count \in Nat
      /\ \A d \in Id : dl[d] \in Delivery /\ dl[d].leaseIn \in Nat
      /\ \A w \in Worker : wk[w] \in Busy /\ wk[w].left \in Nat /\ wk[w].batch \subseteq Id
      /\ \A w \in Worker : wk[w].pc \in {"cancel", "send"} => wk[w].cur \in Id
  BY NumbersAssumption DEF TypeOK, Delivery, Busy
<1>1. CASE Request
  <2>1. CASE chal' = chal /\ dl' = dl /\ wk' = wk /\ count' = count
    BY <1>0, <2>1, SameLeases DEF SameProgress
  <2>2. ASSUME NEW k \in Key, NEW c \in Challenge, Saves(k, c) PROVE LeaseInv'
    <3>1. \A d \in Id : SameProgress(dl[d], dl'[d])  BY <2>2, SavesRows
    <3>2. wk' = wk /\ count' = count  BY <2>2 DEF Saves
    <3> QED  BY <1>0, <3>1, <3>2, SameLeases
  <2>3. ASSUME NEW k \in Key, NEW g \in Code, Serves(k, g) PROVE LeaseInv'
    <3>1. \A d \in Id : d # count + 1 => SameProgress(dl[d], dl'[d])  BY <2>3, ServesRows
    <3>2. wk' = wk /\ count' = count + 1  BY <2>3 DEF Serves
    <3>3. \A d \in Id : d > count' \/ dl[d].state # "none" => d # count + 1
      BY <1>0, <3>2 DEF LeaseInv, Id
    <3> QED  BY <1>0, <3>1, <3>2, <3>3, SameLeases
  <2> QED  BY <1>1, <2>1, <2>2, <2>3, RequestKinds DEF Kinds
<1>2. ASSUME NEW w \in Worker, NEW claims \in SUBSET Id, RunBatch(w, claims) PROVE LeaseInv'
  <2>1. /\ count' = count
        /\ \A d \in Id \ claims : SameProgress(dl[d], dl'[d])
        /\ \A d \in claims : Due(d) /\ dl'[d].state = "sending" /\ dl'[d].token = w /\ dl'[d].leaseIn = Lease
    BY <1>2, BatchWorks DEF Works
  <2>2. wk[w].pc = "idle"  BY <1>2 DEF RunBatch
  <2>3. ASSUME NEW v \in Worker, NEW d \in Id, Has(v, wk[v], dl[d]) PROVE d \notin claims
    BY <1>0, <2>1, <2>3 DEF Has, Due
  <2>4. \A d \in Id : d > count' => dl'[d].state = "none"
    <3> SUFFICES ASSUME NEW d \in Id, d > count PROVE dl'[d].state = "none"  BY <2>1
    <3>1. dl[d].state = "none"  BY DEF LeaseInv
    <3>2. d \notin claims  BY <2>1, <3>1 DEF Due
    <3> QED  BY <2>1, <3>1, <3>2 DEF SameProgress
  <2>5. ASSUME NEW v \in Worker, wk'[v] = wk[v], NEW d \in Id, Has(v, wk[v], dl[d]) PROVE Has(v, wk'[v], dl'[d])
    <3>1. SameProgress(dl[d], dl'[d])  BY <2>1, <2>3, <2>5
    <3> QED  BY <2>5, <3>1 DEF Has, SameProgress
  <2>6. ASSUME NEW v \in Worker, wk'[v] = wk[v]
        PROVE  /\ wk'[v].pc # "idle" => \A d \in wk'[v].batch : Has(v, wk'[v], dl'[d])
               /\ wk'[v].pc \in {"cancel", "send"} => Has(v, wk'[v], dl'[wk'[v].cur]) /\ wk'[v].cur \notin wk'[v].batch
    <3>1. wk'[v].pc # "idle" => \A d \in wk'[v].batch : Has(v, wk'[v], dl'[d])
      BY <1>0, <2>5, <2>6 DEF LeaseInv
    <3>2. ASSUME wk'[v].pc \in {"cancel", "send"}
          PROVE  Has(v, wk'[v], dl'[wk'[v].cur]) /\ wk'[v].cur \notin wk'[v].batch
      <4>1. wk[v].cur \in Id /\ Has(v, wk[v], dl[wk[v].cur]) /\ wk[v].cur \notin wk[v].batch
        BY <1>0, <2>6, <3>2 DEF LeaseInv
      <4>2. Has(v, wk'[v], dl'[wk[v].cur])  BY <2>5, <2>6, <4>1
      <4> QED  BY <2>6, <4>1, <4>2 DEF Has
    <3> QED  BY <3>1, <3>2
  <2>7. CASE claims = {}
    <3>1. \A v \in Worker : wk'[v] = wk[v]  BY <1>2, <2>7 DEF RunBatch
    <3> QED  BY <2>4, <2>6, <3>1 DEF LeaseInv
  <2>8. CASE claims # {}
    <3> DEFINE b == [pc |-> "batch", batch |-> claims, cur |-> None, left |-> BatchWindow]
    <3>1. wk' = [wk EXCEPT ![w] = b]  BY <1>2, <2>8 DEF RunBatch
    <3>2. \A v \in Worker : v # w => wk'[v] = wk[v]  BY <3>1 DEF TypeOK
    <3>3. wk'[w].pc = "batch" /\ wk'[w].batch = claims /\ wk'[w].left = BatchWindow
      BY <3>1 DEF TypeOK
    <3>4. \A d \in wk'[w].batch : Has(w, wk'[w], dl'[d])  BY <1>0, <2>1, <3>3 DEF Has
    <3> QED  BY <2>4, <2>6, <3>2, <3>3, <3>4 DEF LeaseInv
  <2> QED  BY <2>7, <2>8
<1>3. ASSUME NEW w \in Worker, Step(w) PROVE LeaseInv'
  <2>1. ASSUME NEW d \in Id, RefreshClaim(w, d) PROVE LeaseInv'
    <3> DEFINE p == IF ~Owned(w, d) THEN "batch" ELSE IF Current(d) THEN "send" ELSE "cancel"
    <3>1. /\ wk[w].pc = "batch" /\ d \in wk[w].batch /\ dl' = dl /\ count' = count
          /\ wk' = [wk EXCEPT ![w] = [wk[w] EXCEPT !.batch = @ \ {d}, !.cur = d, !.pc = p]]
      BY <2>1 DEF RefreshClaim, TypeOK
    <3> HIDE DEF p
    <3>2. /\ wk'[w].batch = wk[w].batch \ {d} /\ wk'[w].cur = d /\ wk'[w].left = wk[w].left
          /\ \A v \in Worker : v # w => wk'[v] = wk[v]
      BY <1>0, <3>1 DEF TypeOK, Busy
    <3>3. Has(w, wk[w], dl[d]) /\ \A x \in wk[w].batch : Has(w, wk[w], dl[x])  BY <3>1 DEF LeaseInv
    <3> QED  BY <3>1, <3>2, <3>3 DEF LeaseInv, Has
  <2>2. CASE EndBatch(w)
    <3>1. dl' = dl /\ count' = count /\ wk' = [wk EXCEPT ![w] = Idle]  BY <2>2 DEF EndBatch
    <3>2. wk'[w].pc = "idle" /\ \A v \in Worker : v # w => wk'[v] = wk[v]
      BY <3>1 DEF TypeOK, Idle
    <3> QED  BY <3>1, <3>2 DEF LeaseInv, Has
  <2>3. ASSUME NEW r, wk[w].pc \in {"cancel", "send"}, UpdateClaim(w, r) PROVE LeaseInv'
    <3>1. wk[w].cur \in Id /\ Has(w, wk[w], dl[wk[w].cur]) /\ wk[w].cur \notin wk[w].batch
      BY <1>0, <2>3 DEF LeaseInv
    <3>2. Fenced(w)  BY <3>1 DEF Has, Fenced
    <3>3. dl' = [dl EXCEPT ![wk[w].cur] = r] /\ count' = count  BY <2>3, <3>2 DEF UpdateClaim
    <3>4. \A d \in Id : d # wk[w].cur => dl'[d] = dl[d]  BY <3>3 DEF TypeOK
    <3>5. wk' = [wk EXCEPT ![w] = [wk[w] EXCEPT !.pc = "batch"]]  BY <2>3 DEF UpdateClaim, TypeOK
    <3>6. /\ wk'[w].pc = "batch" /\ wk'[w].batch = wk[w].batch /\ wk'[w].left = wk[w].left
          /\ \A v \in Worker : v # w => wk'[v] = wk[v]
      BY <1>0, <3>5 DEF TypeOK, Busy
    <3>7. ~(wk[w].cur > count)  BY <3>1 DEF LeaseInv, Has
    <3>8. \A d \in Id : d > count' => dl'[d].state = "none"  BY <3>3, <3>4, <3>7 DEF LeaseInv
    <3>9. \A d \in wk'[w].batch : Has(w, wk'[w], dl'[d])
      <4>1. wk[w].pc # "idle"  BY <2>3
      <4>2. \A d \in wk[w].batch : d \in Id /\ d # wk[w].cur /\ Has(w, wk[w], dl[d])
        BY <1>0, <3>1, <4>1 DEF LeaseInv
      <4> QED  BY <3>4, <3>6, <4>2 DEF Has
    <3>10. ASSUME NEW v \in Worker, v # w
           PROVE  /\ wk'[v].pc # "idle" => \A d \in wk'[v].batch : Has(v, wk'[v], dl'[d])
                  /\ wk'[v].pc \in {"cancel", "send"} => Has(v, wk'[v], dl'[wk'[v].cur]) /\ wk'[v].cur \notin wk'[v].batch
      <4>1. wk'[v] = wk[v]  BY <3>6, <3>10
      <4>2. \A d \in Id : Has(v, wk[v], dl[d]) => d # wk[w].cur  BY <3>1, <3>10 DEF Has
      <4>3. \A d \in Id : Has(v, wk[v], dl[d]) => Has(v, wk'[v], dl'[d])  BY <3>4, <4>1, <4>2 DEF Has
      <4>4. wk'[v].pc # "idle" => \A d \in wk'[v].batch : Has(v, wk'[v], dl'[d])
        BY <1>0, <4>1, <4>3 DEF LeaseInv
      <4>5. ASSUME wk[v].pc \in {"cancel", "send"}
            PROVE  Has(v, wk'[v], dl'[wk'[v].cur]) /\ wk'[v].cur \notin wk'[v].batch
        <5>1. wk[v].cur \in Id /\ Has(v, wk[v], dl[wk[v].cur]) /\ wk[v].cur \notin wk[v].batch
          BY <1>0, <4>5 DEF LeaseInv
        <5>2. Has(v, wk'[v], dl'[wk[v].cur])  BY <4>3, <5>1
        <5> QED  BY <4>1, <5>1, <5>2 DEF Has
      <4> QED  BY <4>1, <4>4, <4>5
    <3> QED  BY <3>6, <3>8, <3>9, <3>10 DEF LeaseInv
  <2> QED  BY <1>3, <2>1, <2>2, <2>3 DEF Step, Cancel, Sent, SendFailed
<1>4. ASSUME NEW w \in Worker, Crash(w) PROVE LeaseInv'
  <2>1. /\ count' = count /\ wk' = [wk EXCEPT ![w] = Idle] /\ Idle.pc = "idle"
        /\ \A d \in Id : dl[d].token # w => dl'[d] = dl[d]
        /\ \A d \in Id : dl'[d].state = dl[d].state
    BY <1>4, CrashWorks DEF Works
  <2>2. wk'[w].pc = "idle" /\ \A v \in Worker : v # w => wk'[v] = wk[v]  BY <2>1 DEF TypeOK
  <2>3. ASSUME NEW v \in Worker, v # w, NEW d \in Id, Has(v, wk[v], dl[d]) PROVE Has(v, wk'[v], dl'[d])
    BY <2>1, <2>2, <2>3 DEF Has
  <2>4. ASSUME NEW v \in Worker, v # w
        PROVE  /\ wk'[v].pc # "idle" => \A d \in wk'[v].batch : Has(v, wk'[v], dl'[d])
               /\ wk'[v].pc \in {"cancel", "send"} => Has(v, wk'[v], dl'[wk'[v].cur]) /\ wk'[v].cur \notin wk'[v].batch
    <3>1. wk'[v] = wk[v]  BY <2>2, <2>4
    <3>2. wk'[v].pc # "idle" => \A d \in wk'[v].batch : Has(v, wk'[v], dl'[d])
      BY <1>0, <2>3, <2>4, <3>1 DEF LeaseInv
    <3>3. ASSUME wk[v].pc \in {"cancel", "send"}
          PROVE  Has(v, wk'[v], dl'[wk'[v].cur]) /\ wk'[v].cur \notin wk'[v].batch
      <4>1. wk[v].cur \in Id /\ Has(v, wk[v], dl[wk[v].cur]) /\ wk[v].cur \notin wk[v].batch
        BY <1>0, <3>3 DEF LeaseInv
      <4>2. Has(v, wk'[v], dl'[wk[v].cur])  BY <2>3, <2>4, <4>1
      <4> QED  BY <3>1, <4>1, <4>2 DEF Has
    <3> QED  BY <3>1, <3>2, <3>3
  <2>5. \A d \in Id : d > count' => dl'[d].state = "none"  BY <2>1 DEF LeaseInv
  <2> QED  BY <2>2, <2>4, <2>5 DEF LeaseInv
<1>5. CASE Tick
  <2>1. /\ count' = count
        /\ \A w \in Worker : /\ wk'[w].pc = wk[w].pc /\ wk'[w].cur = wk[w].cur
                             /\ wk'[w].batch = wk[w].batch /\ wk'[w].left = Down(wk[w].left)
        /\ \A d \in Id : /\ dl'[d].state = dl[d].state /\ dl'[d].token = dl[d].token
                         /\ dl'[d].leaseIn = Down(dl[d].leaseIn)
    BY <1>5, TickWorks DEF Works
  <2>2. ASSUME NEW w \in Worker, wk[w].pc # "idle", NEW d \in Id, Has(w, wk[w], dl[d]) PROVE Has(w, wk'[w], dl'[d])
    <3>1. wk[w].left > 0  BY <1>5, <2>2 DEF Tick
    <3>2. Down(wk[w].left) < Down(dl[d].leaseIn)  BY <1>0, <2>2, <3>1 DEF Has, Down
    <3> QED  BY <2>1, <2>2, <3>2 DEF Has
  <2>3. ASSUME NEW w \in Worker
        PROVE  /\ wk'[w].pc # "idle" => \A d \in wk'[w].batch : Has(w, wk'[w], dl'[d])
               /\ wk'[w].pc \in {"cancel", "send"} => Has(w, wk'[w], dl'[wk'[w].cur]) /\ wk'[w].cur \notin wk'[w].batch
    <3>1. wk'[w].pc # "idle" => \A d \in wk'[w].batch : Has(w, wk'[w], dl'[d])
      BY <1>0, <2>1, <2>2 DEF LeaseInv
    <3>2. ASSUME wk[w].pc \in {"cancel", "send"}
          PROVE  Has(w, wk'[w], dl'[wk'[w].cur]) /\ wk'[w].cur \notin wk'[w].batch
      <4>1. wk[w].cur \in Id /\ Has(w, wk[w], dl[wk[w].cur]) /\ wk[w].cur \notin wk[w].batch /\ wk[w].pc # "idle"
        BY <1>0, <3>2 DEF LeaseInv
      <4>2. Has(w, wk'[w], dl'[wk[w].cur])  BY <2>2, <4>1
      <4> QED  BY <2>1, <4>1, <4>2 DEF Has
    <3> QED  BY <2>1, <3>1, <3>2
  <2>4. \A d \in Id : d > count' => dl'[d].state = "none"  BY <2>1 DEF LeaseInv
  <2> QED  BY <2>3, <2>4 DEF LeaseInv
<1>6. CASE UNCHANGED vars
  BY <1>6 DEF vars, LeaseInv, Has
<1> QED  BY <1>1, <1>2, <1>3, <1>4, <1>5, <1>6, NextSplit

(* When a batch ends within its lease, whoever calls the provider for a row  *)
(* holds the row's lease: no mail is sent by two workers at once, and none   *)
(* after its row was decided, for any number of workers, batch sizes,        *)
(* crashes and challenges.                                                   *)
THEOREM SingleSenderSafety ==
  ASSUME BatchWindow < Lease
  PROVE  Spec => []SingleSender
<1>1. Init => LeaseInv
  <2>1. NoDelivery.state = "none" /\ Idle.pc = "idle"  BY DEF NoDelivery, Idle
  <2> QED  BY <2>1 DEF Init, LeaseInv
<1>2. TypeOK /\ LeaseInv /\ [Next]_vars => LeaseInv'
  BY LeaseStep
<1>3. LeaseInv => SingleSender
  BY DEF LeaseInv, Has, SingleSender, Fenced
<1> QED  BY <1>1, <1>2, <1>3, TypeCorrect, PTL DEF Spec

-----------------------------------------------------------------------------
(* Guesses. *)

(* Every wrong code tried against a challenge is counted, and none is tried  *)
(* once the budget is spent.                                                 *)
Counted(c) == c.guesses = c.failed /\ c.failed <= MaxFailed

GuessInv == \A k \in Key : Counted(chal[k])

(* An issued code starts with its whole budget, a consumed one keeps its count. *)
LEMMA CountedSteps ==
  ASSUME NEW c \in Challenge
  PROVE  /\ \A g \in Code \cup {None} : Counted(Issued(c, g))
         /\ Counted(c) => Counted([c EXCEPT !.consumed = TRUE])
         /\ Counted(c) /\ Usable(c) => Counted(Missed(c))
<1>0. MaxFailed \in Nat /\ 0 <= MaxFailed  BY NumbersAssumption
<1>1. \A g \in Code \cup {None} : Counted(Issued(c, g))
  <2> SUFFICES ASSUME NEW g \in Code \cup {None} PROVE Counted(Issued(c, g))  OBVIOUS
  <2>1. Issued(c, g).guesses = 0 /\ Issued(c, g).failed = 0  BY DEF Issued
  <2> QED  BY <1>0, <2>1 DEF Counted
<1>2. Counted(c) => Counted([c EXCEPT !.consumed = TRUE])
  <2> DEFINE q == [c EXCEPT !.consumed = TRUE]
  <2>1. q.guesses = c.guesses /\ q.failed = c.failed  BY DEF Challenge
  <2> HIDE DEF q
  <2>2. Counted(c) => Counted(q)  BY <2>1 DEF Counted
  <2> QED  BY <2>2 DEF q
<1>3. ASSUME Counted(c), Usable(c) PROVE Counted(Missed(c))
  <2>1. c.failed \in Nat /\ c.guesses \in Nat  BY DEF Challenge
  <2> DEFINE q == [c EXCEPT !.failed = c.failed + 1, !.guesses = c.guesses + 1]
  <2>2. Missed(c) = q  BY DEF Missed, Challenge
  <2>3. q.failed = c.failed + 1 /\ q.guesses = c.guesses + 1  BY DEF Challenge
  <2> HIDE DEF q
  <2>4. c.failed < MaxFailed /\ c.guesses = c.failed  BY <1>3 DEF Usable, Counted
  <2>5. q.guesses = q.failed /\ q.failed <= MaxFailed  BY <1>0, <2>1, <2>3, <2>4
  <2> QED  BY <2>2, <2>5 DEF Counted
<1> QED  BY <1>1, <1>2, <1>3

LEMMA GuessStep == ASSUME TypeOK, GuessInv, [Next]_vars PROVE GuessInv'
<1>0. chal \in [Key -> Challenge] /\ \A k \in Key : chal[k] \in Challenge /\ Counted(chal[k])
  BY DEF TypeOK, GuessInv
<1>1. ASSUME NEW k \in Key, NEW c, chal' = [chal EXCEPT ![k] = c], Counted(c) PROVE GuessInv'
  <2>1. \A x \in Key : chal'[x] = IF x = k THEN c ELSE chal[x]  BY <1>0, <1>1
  <2> QED  BY <1>0, <1>1, <2>1 DEF GuessInv
<1>2. ASSUME chal' = chal PROVE GuessInv'  BY <1>2 DEF GuessInv
<1>3. ASSUME NEW k \in Key, NEW code \in Code, NEW served, Issue(k, code, served) PROVE GuessInv'
  <2>1. Counted(Issued(chal[k], code)) /\ Counted(Issued(chal[k], None))  BY <1>0, CountedSteps
  <2>2. chal' = [chal EXCEPT ![k] = Issued(chal[k], code)] \/ chal' = [chal EXCEPT ![k] = Issued(chal[k], None)]
    BY <1>3 DEF Issue, SaveState
  <2> QED  BY <1>1, <2>1, <2>2
<1>4. ASSUME NEW k, consumeVerification(k) PROVE GuessInv'
  <2>1. k \in Key /\ chal' = [chal EXCEPT ![k] = [chal[k] EXCEPT !.consumed = TRUE]]
    BY <1>4 DEF consumeVerification, SaveState
  <2>2. Counted([chal[k] EXCEPT !.consumed = TRUE])  BY <1>0, <2>1, CountedSteps
  <2> QED  BY <1>1, <2>1, <2>2
<1>5. ASSUME NEW k \in Key, consumeVerification_wrong(k) PROVE GuessInv'
  <2>1. chal' = [chal EXCEPT ![k] = Missed(chal[k])] /\ Usable(chal[k])
    BY <1>5 DEF consumeVerification_wrong, SaveState
  <2>2. Counted(Missed(chal[k]))  BY <1>0, <2>1, CountedSteps
  <2> QED  BY <1>1, <2>1, <2>2
<1>6. CASE Request
  <2>1. ASSUME NEW e \in Email, FindByEmail(e) \/ Register(e) \/ ResetPassword(e) \/ Delete(e) PROVE GuessInv'
    BY <1>2, <1>4, <2>1 DEF FindByEmail, Register, ResetPassword, Delete
  <2>2. ASSUME NEW e \in Email, NEW code \in Code, SendVerificationCode(e, code) \/ SendPasswordResetCode(e, code)
        PROVE  GuessInv'
    BY <1>2, <1>3, <2>2 DEF SendVerificationCode, SendPasswordResetCode
  <2> QED  BY <1>5, <1>6, <2>1, <2>2 DEF Request
<1>7. ASSUME NEW w \in Worker, (\E claims \in SUBSET Id : RunBatch(w, claims)) \/ Step(w) \/ Crash(w)
      PROVE  GuessInv'
  <2>1. chal' = chal
    BY <1>7 DEF RunBatch, Step, Crash, RefreshClaim, EndBatch, Cancel, Sent, SendFailed, UpdateClaim
  <2> QED  BY <1>2, <2>1
<1>8. CASE Tick
  <2> SUFFICES ASSUME NEW k \in Key PROVE Counted(chal'[k])  BY DEF GuessInv
  <2>1. chal'[k] = [chal[k] EXCEPT !.ttl = Down(chal[k].ttl), !.cool = Down(chal[k].cool),
                                   !.window = Down(chal[k].window)]
    BY <1>0, <1>8 DEF Tick, Challenge
  <2>2. chal[k] \in Challenge /\ Counted(chal[k])  BY <1>0
  <2>3. chal'[k].guesses = chal[k].guesses /\ chal'[k].failed = chal[k].failed  BY <2>1, <2>2 DEF Challenge
  <2> QED  BY <2>2, <2>3 DEF Counted
<1>9. CASE UNCHANGED vars  BY <1>2, <1>9 DEF vars
<1> QED  BY <1>6, <1>7, <1>8, <1>9, NextSplit

(* No code is tried with more than MaxFailed wrong guesses, though each of the *)
(* requests that made them failed: the count commits (persistedError).         *)
THEOREM GuessSafety == Spec => []GuessBudget
<1>1. Init => GuessInv
  <2>1. NoChallenge.guesses = 0 /\ NoChallenge.failed = 0  BY DEF NoChallenge
  <2>2. Counted(NoChallenge)  BY <2>1, NumbersAssumption DEF Counted
  <2> QED  BY <2>2 DEF Init, GuessInv
<1>2. TypeOK /\ GuessInv /\ [Next]_vars => GuessInv'  BY GuessStep
<1>3. GuessInv => GuessBudget  BY DEF GuessInv, GuessBudget, Counted
<1> QED  BY <1>1, <1>2, <1>3, TypeCorrect, PTL DEF Spec

-----------------------------------------------------------------------------
(* Decisions. *)

(* Rows not enqueued yet are untouched. *)
RowsFresh == \A d \in Id : d > count => dl[d].state = "none"

LEMMA FreshStep == ASSUME TypeOK, RowsFresh, [Next]_vars PROVE RowsFresh'
<1>0. count \in Nat /\ Id \subseteq Nat  BY DEF TypeOK, Id
<1>1. CASE Works
  <2>1. count' = count /\ \A d \in Id : dl'[d].state # "none" => dl[d].state # "none"
    BY <1>1 DEF Works, Kept
  <2> QED  BY <2>1 DEF RowsFresh
<1>2. CASE Request
  <2>1. CASE chal' = chal /\ dl' = dl /\ wk' = wk /\ count' = count  BY <2>1 DEF RowsFresh
  <2>2. ASSUME NEW k \in Key, NEW c \in Challenge, Saves(k, c) PROVE RowsFresh'
    <3>1. \A d \in Id : SameProgress(dl[d], dl'[d])  BY <2>2, SavesRows
    <3>2. count' = count  BY <2>2 DEF Saves
    <3> QED  BY <3>1, <3>2 DEF RowsFresh, SameProgress
  <2>3. ASSUME NEW k \in Key, NEW g \in Code, Serves(k, g) PROVE RowsFresh'
    <3>1. \A d \in Id : d # count + 1 => SameProgress(dl[d], dl'[d])  BY <2>3, ServesRows
    <3>2. count' = count + 1  BY <2>3 DEF Serves
    <3>3. \A d \in Id : d > count' => d # count + 1 /\ d > count  BY <1>0, <3>2
    <3> QED  BY <3>1, <3>3 DEF RowsFresh, SameProgress
  <2> QED  BY <1>2, <2>1, <2>2, <2>3, RequestKinds DEF Kinds
<1>3. CASE UNCHANGED vars  BY <1>3 DEF vars, RowsFresh
<1> QED  BY <1>1, <1>2, <1>3, NextSplit, BatchWorks, StepWorks, CrashWorks, TickWorks

(* A row leaves "sending" only by an outcome that its holder writes. *)
LEMMA HolderStep ==
  ASSUME TypeOK, RowsFresh, [Next]_vars, NEW d \in Id, dl[d].state = "sending", dl'[d].state # "sending"
  PROVE  \E w \in Worker : dl[d].token = w /\ wk[w].cur = d /\ wk[w].pc \in {"cancel", "send"}
<1> DEFINE Goal == \E w \in Worker : dl[d].token = w /\ wk[w].cur = d /\ wk[w].pc \in {"cancel", "send"}
<1>1. CASE Request
  <2>1. CASE chal' = chal /\ dl' = dl /\ wk' = wk /\ count' = count  BY <2>1
  <2>2. ASSUME NEW k \in Key, NEW c \in Challenge, Saves(k, c) PROVE FALSE
    BY <2>2, SavesRows DEF SameProgress
  <2>3. ASSUME NEW k \in Key, NEW g \in Code, Serves(k, g) PROVE FALSE
    <3>1. d # count + 1 => SameProgress(dl[d], dl'[d])  BY <2>3, ServesRows
    <3>2. d = count + 1  BY <3>1 DEF SameProgress
    <3>3. d > count  BY <3>2 DEF TypeOK
    <3> QED  BY <3>3 DEF RowsFresh
  <2> QED  BY <1>1, <2>1, <2>2, <2>3, RequestKinds DEF Kinds
<1>2. ASSUME NEW w \in Worker, NEW claims \in SUBSET Id, RunBatch(w, claims) PROVE FALSE
  <2>1. /\ \A x \in Id \ claims : SameProgress(dl[x], dl'[x])
        /\ \A x \in claims : dl'[x].state = "sending"
    BY <1>2, BatchWorks
  <2> QED  BY <2>1 DEF SameProgress
<1>3. ASSUME NEW w \in Worker, Step(w) PROVE Goal
  <2>1. PICK r : UpdateClaim(w, r) /\ wk[w].pc \in {"cancel", "send"}
    BY <1>3 DEF Step, RefreshClaim, EndBatch, Cancel, Sent, SendFailed
  <2>2. Fenced(w) /\ dl' = [dl EXCEPT ![wk[w].cur] = r]  BY <2>1 DEF UpdateClaim
  <2>3. wk[w].cur = d  BY <2>2 DEF TypeOK
  <2> QED  BY <2>1, <2>2, <2>3 DEF Fenced
<1>4. ASSUME NEW w \in Worker, Crash(w) PROVE FALSE  BY <1>4, CrashWorks
<1>5. CASE Tick  BY <1>5, TickWorks
<1>6. CASE UNCHANGED vars  BY <1>6 DEF vars
<1> QED  BY <1>1, <1>2, <1>3, <1>4, <1>5, <1>6, NextSplit

(* Only the worker that holds a row's lease decides the row, however far its *)
(* batch outlives the lease (UpdateClaim); no bound on a batch is assumed.   *)
THEOREM HolderSafety == Spec => OnlyHolderDecides
<1> DEFINE Move == \A d \in Id :
        dl[d].state = "sending" /\ dl'[d].state # "sending"
            => \E w \in Worker : dl[d].token = w /\ wk[w].cur = d /\ wk[w].pc \in {"cancel", "send"}
<1>1. Init => RowsFresh
  <2>1. NoDelivery.state = "none"  BY DEF NoDelivery
  <2> QED  BY <2>1 DEF Init, RowsFresh
<1>2. TypeOK /\ RowsFresh /\ [Next]_vars => RowsFresh'  BY FreshStep
<1>3. TypeOK /\ RowsFresh /\ [Next]_vars => [Move]_vars  BY HolderStep
<1> QED  BY <1>1, <1>2, <1>3, TypeCorrect, PTL DEF Spec, OnlyHolderDecides

-----------------------------------------------------------------------------
(* The outbox as an implementation of the abstract queue. *)

(* A lease token stands on rows being sent only; a worker has nothing in hand *)
(* between its batches, and has taken the row it works on out of its batch.  *)
HandInv ==
    /\ RowsFresh
    /\ \A d \in Id : dl[d].token \in Worker => dl[d].state = "sending"
    /\ \A w \in Worker : /\ wk[w].pc = "idle" => wk[w].batch = {}
                         /\ wk[w].pc \in {"cancel", "send"} => wk[w].cur \notin wk[w].batch

(* The phases, said of the states. *)
LEMMA PhaseIs ==
  ASSUME NEW d \in Id
  PROVE  /\ dl[d].state = "none" => Phase(d) = "none"
         /\ dl[d].state \in {"pending", "sending"} => Phase(d) = "pending"
         /\ dl'[d].state \in {"pending", "sending"} => Phase(d)' = "pending"
         /\ dl'[d].state \in Final => Phase(d)' \in Final
  BY DEF Phase, Final

(* What a step may do to a row as a task: the actions of TaskQueue. *)
TaskStep(d) ==
    \/ /\ Phase(d) = "none" /\ Phase(d)' = "pending"
       /\ Owner(d)' = None /\ Hands(d)' = Hands(d)
    \/ \E w \in Worker :
          \/ /\ Phase(d) = "pending" /\ Phase(d)' = "pending" /\ Owner(d)' = w
             /\ w \notin Hands(d) /\ Hands(d)' = Hands(d) \cup {w}
          \/ /\ Phase(d) = "pending" /\ Phase(d)' \in {"pending"} \cup Final
             /\ Owner(d) = w /\ Owner(d)' = None
             /\ w \in Hands(d) /\ Hands(d)' = Hands(d) \ {w}
          \/ /\ Phase(d)' = Phase(d) /\ Owner(d)' = Owner(d)
             /\ w \in Hands(d) /\ Hands(d)' = Hands(d) \ {w}
    \/ Phase(d)' = Phase(d) /\ Owner(d)' = Owner(d) /\ Hands(d)' = Hands(d)

(* Steps of the rows make a step of the queue. *)
LEMMA StepOfQueue ==
  ASSUME \A d \in Id : TaskStep(d)
  PROVE  Queue!Next
<1>1. ASSUME NEW d \in Id
      PROVE  \/ d \notin {} /\ Queue!Put(d)
             \/ \E w \in Worker : Queue!Take(d, w) \/ Queue!Release(d, w) \/ Queue!Forget(d, w)
             \/ Queue!Same(d)
  <2>1. TaskStep(d)  OBVIOUS
  <2> QED  BY <2>1 DEF TaskStep, Queue!Put, Queue!Take, Queue!Release, Queue!Forget, Queue!Same
<1> QED  BY <1>1 DEF Queue!Next

(* The owner is the worker that has the row in hand under the row's token. *)
LEMMA OwnerIs ==
  ASSUME NEW d \in Id
  PROVE  /\ \A w \in Worker : Holds(w, d) => Owner(d) = w
         /\ \A w \in Worker : Holds(w, d)' => Owner(d)' = w
         /\ (\A w \in Worker : ~Holds(w, d)) => Owner(d) = None
         /\ (\A w \in Worker : ~Holds(w, d)') => Owner(d)' = None
  BY DEF Owner, Holds

(* A step that changes neither a row's progress nor the hands it is in. *)
LEMMA KeptTask ==
  ASSUME NEW d \in Id, dl'[d].state = dl[d].state, dl'[d].token = dl[d].token,
         \A w \in Worker : InHand(w, d)' <=> InHand(w, d)
  PROVE  TaskStep(d)
<1>1. Phase(d)' = Phase(d)  BY DEF Phase
<1>2. Hands(d)' = Hands(d)  BY DEF Hands
<1>3. Owner(d)' = Owner(d)  BY DEF Owner, Holds
<1> QED  BY <1>1, <1>2, <1>3 DEF TaskStep

(* A worker that lets go of a row it has in hand without deciding it gives it *)
(* back if the row is still its own, and forgets it otherwise.               *)
LEMMA DroppedTask ==
  ASSUME HandInv, NEW w \in Worker, NEW d \in Id, InHand(w, d),
         \A v \in Worker : InHand(v, d)' <=> v # w /\ InHand(v, d),
         dl'[d].state = dl[d].state,
         \/ dl'[d].token = dl[d].token
         \/ dl[d].token = w /\ dl'[d].token \notin Worker
  PROVE  TaskStep(d)
<1>1. w \in Hands(d) /\ Hands(d)' = Hands(d) \ {w}  BY DEF Hands
<1>2. Phase(d)' = Phase(d)  BY DEF Phase
<1>3. CASE dl[d].token = w
  <2>1. Phase(d) = "pending"
    <3>1. dl[d].state = "sending"  BY <1>3 DEF HandInv
    <3> QED  BY <3>1, PhaseIs
  <2>2. Owner(d) = w  BY <1>3, OwnerIs DEF Holds
  <2>3. Owner(d)' = None  BY <1>3, OwnerIs DEF Holds
  <2> QED  BY <1>1, <1>2, <2>1, <2>2, <2>3 DEF TaskStep
<1>4. CASE dl[d].token # w
  <2>1. dl'[d].token = dl[d].token  BY <1>4
  <2>2. \A v \in Worker : Holds(v, d)' <=> Holds(v, d)  BY <1>4, <2>1 DEF Holds
  <2>3. Owner(d)' = Owner(d)  BY <2>1, <2>2 DEF Owner
  <2> QED  BY <1>1, <1>2, <2>3 DEF TaskStep
<1> QED  BY <1>3, <1>4

(* An outcome rewrites the row a worker has in hand and gives the lease back. *)
LEMMA Outcome ==
  ASSUME TypeOK, NEW w \in Worker, Cancel(w) \/ Sent(w) \/ SendFailed(w)
  PROVE  /\ wk[w].pc \in {"cancel", "send"} /\ wk[w].cur \in Id
         /\ \E r : UpdateClaim(w, r) /\ r.state \in {"pending"} \cup Final /\ r.token = None
<1>1. wk[w].pc \in {"cancel", "send"} /\ wk[w].cur \in Id
  BY DEF Cancel, Sent, SendFailed, TypeOK
<1> DEFINE q == dl[wk[w].cur]
<1>2. q \in Delivery  BY <1>1 DEF TypeOK
<1> HIDE DEF q
<1>3. CASE Cancel(w)
  <2> DEFINE u == Ended(q, "canceled", "stale_challenge")
             r == [u EXCEPT !.code = FALSE]
  <2>1. u \in Delivery /\ u.state = "canceled" /\ u.token = None  BY <1>2, EndedType DEF Final
  <2>2. UpdateClaim(w, r)  BY <1>3 DEF Cancel, q
  <2> HIDE DEF u
  <2>3. r.state = u.state /\ r.token = u.token  BY <2>1 DEF Delivery
  <2> HIDE DEF r
  <2> QED  BY <1>1, <2>1, <2>2, <2>3 DEF Final
<1>4. CASE Sent(w)
  <2> DEFINE r == Ended(q, "sent", "none")
  <2>1. r.state = "sent" /\ r.token = None  BY <1>2, EndedType DEF Final
  <2>2. UpdateClaim(w, r)  BY <1>4 DEF Sent, q
  <2> HIDE DEF r
  <2> QED  BY <1>1, <2>1, <2>2 DEF Final
<1>5. CASE SendFailed(w)
  <2>1. Failed(q).state \in {"pending", "dead_letter"} /\ Failed(q).token = None  BY <1>2, FailedType
  <2>2. UpdateClaim(w, Failed(q))  BY <1>5 DEF SendFailed, q
  <2> QED  BY <1>1, <2>1, <2>2 DEF Final
<1> QED  BY <1>3, <1>4, <1>5

(* What a request does to the rows: a new one is put into the queue. *)
LEMMA RequestTasks ==
  ASSUME TypeOK, HandInv, Request
  PROVE  HandInv' /\ \A d \in Id : TaskStep(d)
<1>0. count \in Nat /\ \A d \in Id : d \in Nat  BY DEF TypeOK, Id
<1>1. ASSUME wk' = wk, NEW d \in Id, dl'[d].state = dl[d].state, dl'[d].token = dl[d].token
      PROVE  TaskStep(d)
  <2>1. \A w \in Worker : InHand(w, d)' <=> InHand(w, d)  BY <1>1 DEF InHand
  <2> QED  BY <1>1, <2>1, KeptTask
<1>2. RowsFresh'
  <2>1. Next  BY DEF Request, Next
  <2> QED  BY <2>1, FreshStep DEF HandInv
<1>3. CASE chal' = chal /\ dl' = dl /\ wk' = wk /\ count' = count
  <2>1. HandInv'  BY <1>3 DEF HandInv, RowsFresh
  <2>2. \A d \in Id : TaskStep(d)  BY <1>1, <1>3
  <2> QED  BY <2>1, <2>2
<1>4. ASSUME NEW k \in Key, NEW c \in Challenge, Saves(k, c) PROVE HandInv' /\ \A d \in Id : TaskStep(d)
  <2>1. /\ wk' = wk
        /\ \A d \in Id : dl'[d].state = dl[d].state /\ dl'[d].token = dl[d].token
    BY <1>4, SavesRows DEF Saves, SameProgress
  <2>2. HandInv'  BY <1>2, <2>1 DEF HandInv
  <2>3. \A d \in Id : TaskStep(d)  BY <1>1, <2>1
  <2> QED  BY <2>2, <2>3
<1>5. ASSUME NEW k \in Key, NEW g \in Code, Serves(k, g) PROVE HandInv' /\ \A d \in Id : TaskStep(d)
  <2>0. PICK x \in Id : x = count + 1  BY <1>5, ServesRows
  <2>1. /\ wk' = wk /\ dl'[x] = Enqueued(k, g)
        /\ \A d \in Id : d # x => dl'[d].state = dl[d].state /\ dl'[d].token = dl[d].token
    BY <1>5, <2>0, ServesRows DEF Serves, SameProgress
  <2>2. dl'[x].state = "pending" /\ dl'[x].token = None  BY <2>1, EnqueuedType
  <2>3. dl[x].state = "none"  BY <1>0, <2>0 DEF HandInv, RowsFresh
  <2>4. HandInv'
    <3>1. \A d \in Id : dl'[d].token \in Worker => dl'[d].state = "sending"
      BY <2>1, <2>2, NullAssumption DEF HandInv
    <3> QED  BY <1>2, <2>1, <3>1 DEF HandInv
  <2>5. TaskStep(x)
    <3>1. Phase(x) = "none" /\ Phase(x)' = "pending"  BY <2>2, <2>3, PhaseIs
    <3>2. Hands(x)' = Hands(x)  BY <2>1 DEF Hands, InHand
    <3>3. Owner(x)' = None  BY <2>2, NullAssumption, OwnerIs DEF Holds
    <3> QED  BY <3>1, <3>2, <3>3 DEF TaskStep
  <2> QED  BY <1>1, <2>1, <2>4, <2>5
<1> QED  BY <1>3, <1>4, <1>5, RequestKinds DEF Kinds

(* A worker takes its batch into its hands. *)
LEMMA BatchTasks ==
  ASSUME TypeOK, HandInv, NEW w \in Worker, NEW claims \in SUBSET Id, RunBatch(w, claims)
  PROVE  HandInv' /\ \A d \in Id : TaskStep(d)
<1>1. /\ count' = count /\ wk[w].pc = "idle" /\ wk[w].batch = {}
      /\ \A d \in Id \ claims : dl'[d].state = dl[d].state /\ dl'[d].token = dl[d].token
      /\ \A d \in claims : Due(d) /\ dl'[d].state = "sending" /\ dl'[d].token = w
  <2>1. /\ count' = count
        /\ \A d \in Id \ claims : SameProgress(dl[d], dl'[d])
        /\ \A d \in claims : Due(d) /\ dl'[d].state = "sending" /\ dl'[d].token = w
    BY BatchWorks DEF Works
  <2>2. wk[w].pc = "idle" /\ wk[w].batch = {}  BY DEF RunBatch, HandInv
  <2> QED  BY <2>1, <2>2 DEF SameProgress
<1>2. /\ \A v \in Worker : v # w => wk'[v] = wk[v]
      /\ wk'[w].batch = claims
      /\ wk'[w].pc = "batch" \/ (wk'[w].pc = "idle" /\ claims = {})
  <2>1. CASE claims = {}
    <3>1. wk' = wk  BY <2>1 DEF RunBatch
    <3> QED  BY <1>1, <2>1, <3>1
  <2>2. CASE claims # {}
    <3> DEFINE b == [pc |-> "batch", batch |-> claims, cur |-> None, left |-> BatchWindow]
    <3>1. wk' = [wk EXCEPT ![w] = b]  BY <2>2 DEF RunBatch
    <3>2. b.pc = "batch" /\ b.batch = claims  OBVIOUS
    <3> HIDE DEF b
    <3> QED  BY <3>1, <3>2 DEF TypeOK
  <2> QED  BY <2>1, <2>2
<1>3. HandInv'
  <2>1. RowsFresh'
    <3> SUFFICES ASSUME NEW d \in Id, d > count PROVE dl'[d].state = "none"  BY <1>1 DEF RowsFresh
    <3>1. dl[d].state = "none"  BY DEF HandInv, RowsFresh
    <3>2. d \notin claims  BY <1>1, <3>1 DEF Due
    <3> QED  BY <1>1, <3>1, <3>2
  <2>2. \A d \in Id : dl'[d].token \in Worker => dl'[d].state = "sending"  BY <1>1 DEF HandInv
  <2>3. \A v \in Worker : /\ wk'[v].pc = "idle" => wk'[v].batch = {}
                          /\ wk'[v].pc \in {"cancel", "send"} => wk'[v].cur \notin wk'[v].batch
    BY <1>2 DEF HandInv
  <2> QED  BY <2>1, <2>2, <2>3 DEF HandInv
<1>4. \A v \in Worker, d \in Id : InHand(v, d)' <=> IF v = w THEN d \in claims ELSE InHand(v, d)
  BY <1>2 DEF InHand
<1>5. \A d \in Id : ~InHand(w, d)  BY <1>1 DEF InHand
<1>6. ASSUME NEW d \in claims PROVE TaskStep(d)
  <2>0. d \in Id  OBVIOUS
  <2>1. Phase(d) = "pending"
    <3>1. dl[d].state \in {"pending", "sending"}  BY <1>1 DEF Due
    <3> QED  BY <2>0, <3>1, PhaseIs
  <2>2. Phase(d)' = "pending"  BY <1>1, <2>0, PhaseIs
  <2>3. Owner(d)' = w
    <3>1. Holds(w, d)'  BY <1>1, <1>4, <2>0 DEF Holds
    <3> QED  BY <2>0, <3>1, OwnerIs
  <2>4. w \notin Hands(d) /\ Hands(d)' = Hands(d) \cup {w}  BY <1>4, <1>5, <2>0 DEF Hands
  <2> QED  BY <2>1, <2>2, <2>3, <2>4 DEF TaskStep
<1>7. ASSUME NEW d \in Id \ claims PROVE TaskStep(d)
  <2>1. \A v \in Worker : InHand(v, d)' <=> InHand(v, d)  BY <1>4, <1>5, <1>7
  <2> QED  BY <1>1, <2>1, KeptTask
<1> QED  BY <1>3, <1>6, <1>7

(* A worker drops a claim it no longer owns, keeps one it does. *)
LEMMA RefreshTasks ==
  ASSUME TypeOK, HandInv, NEW w \in Worker, NEW x \in Id, RefreshClaim(w, x)
  PROVE  HandInv' /\ \A d \in Id : TaskStep(d)
<1>1. /\ dl' = dl /\ count' = count /\ wk[w].pc = "batch" /\ x \in wk[w].batch
      /\ \A v \in Worker : v # w => wk'[v] = wk[v]
      /\ wk'[w].batch = wk[w].batch \ {x} /\ wk'[w].cur = x
      /\ wk'[w].pc = IF ~Owned(w, x) THEN "batch" ELSE IF Current(x) THEN "send" ELSE "cancel"
  BY DEF RefreshClaim, TypeOK, Busy
<1>2. wk'[w].pc \in {"batch", "cancel", "send"}  BY <1>1
<1>3. HandInv'
  <2>1. RowsFresh'  BY <1>1 DEF HandInv, RowsFresh
  <2> QED  BY <1>1, <1>2, <2>1 DEF HandInv
<1>4. \A v \in Worker, d \in Id : v # w \/ d # x => (InHand(v, d)' <=> InHand(v, d))
  BY <1>1 DEF InHand
<1>5. InHand(w, x)  BY <1>1 DEF InHand
<1>6. ASSUME NEW d \in Id, d # x PROVE TaskStep(d)  BY <1>1, <1>4, <1>6, KeptTask
<1>7. TaskStep(x)
  <2>1. CASE Owned(w, x)
    <3>1. InHand(w, x)'  BY <1>1, <2>1 DEF InHand
    <3> QED  BY <1>1, <1>4, <1>5, <3>1, KeptTask
  <2>2. CASE ~Owned(w, x)
    <3>1. ~InHand(w, x)'  BY <1>1, <2>2 DEF InHand
    <3>2. \A v \in Worker : InHand(v, x)' <=> v # w /\ InHand(v, x)  BY <1>4, <3>1
    <3> QED  BY <1>1, <1>5, <3>2, DroppedTask
  <2> QED  BY <2>1, <2>2
<1> QED  BY <1>3, <1>6, <1>7

(* An outcome is written by the owner only; any other worker forgets the row. *)
LEMMA OutcomeTasks ==
  ASSUME TypeOK, HandInv, NEW w \in Worker, Cancel(w) \/ Sent(w) \/ SendFailed(w)
  PROVE  HandInv' /\ \A d \in Id : TaskStep(d)
<1>1. PICK r : UpdateClaim(w, r) /\ r.state \in {"pending"} \cup Final /\ r.token = None
  BY Outcome
<1>2. PICK x \in Id : x = wk[w].cur  BY Outcome
<1>3. wk[w].pc \in {"cancel", "send"} /\ x \notin wk[w].batch  BY <1>2, Outcome DEF HandInv
<1>4. /\ count' = count
      /\ dl' = IF Fenced(w) THEN [dl EXCEPT ![x] = r] ELSE dl
      /\ \A v \in Worker : v # w => wk'[v] = wk[v]
      /\ wk'[w].pc = "batch" /\ wk'[w].batch = wk[w].batch
  BY <1>1, <1>2 DEF UpdateClaim, TypeOK, Busy
<1>5. \A d \in Id : d # x \/ ~Fenced(w) => dl'[d] = dl[d]  BY <1>4 DEF TypeOK
<1>6. Fenced(w) => dl'[x] = r /\ dl[x].state = "sending" /\ dl[x].token = w
  BY <1>2, <1>4 DEF Fenced, TypeOK
<1>7. HandInv'
  <2>1. RowsFresh'
    <3>1. \A d \in Id : d > count' => dl'[d] = dl[d]  BY <1>4, <1>5, <1>6 DEF HandInv, RowsFresh
    <3> QED  BY <1>4, <3>1 DEF HandInv, RowsFresh
  <2>2. \A d \in Id : dl'[d].token \in Worker => dl'[d].state = "sending"
    BY <1>1, <1>5, <1>6, NullAssumption DEF HandInv
  <2> QED  BY <1>4, <2>1, <2>2 DEF HandInv
<1>8. \A v \in Worker, d \in Id : v # w \/ d # x => (InHand(v, d)' <=> InHand(v, d))
  BY <1>2, <1>3, <1>4 DEF InHand
<1>9. InHand(w, x) /\ ~InHand(w, x)'  BY <1>2, <1>3, <1>4 DEF InHand
<1>10. ASSUME NEW d \in Id, d # x PROVE TaskStep(d)  BY <1>5, <1>8, <1>10, KeptTask
<1>11. TaskStep(x)
  <2>1. \A v \in Worker : InHand(v, x)' <=> v # w /\ InHand(v, x)  BY <1>8, <1>9
  <2>2. CASE ~Fenced(w)  BY <1>5, <1>9, <2>1, <2>2, DroppedTask
  <2>3. CASE Fenced(w)
    <3>1. Phase(x) = "pending"  BY <1>6, <2>3, PhaseIs
    <3>2. Phase(x)' \in {"pending"} \cup Final  BY <1>1, <1>6, <2>3, PhaseIs
    <3>3. Owner(x) = w  BY <1>6, <1>9, <2>3, OwnerIs DEF Holds
    <3>4. Owner(x)' = None  BY <1>1, <1>6, <2>3, NullAssumption, OwnerIs DEF Holds
    <3>5. w \in Hands(x) /\ Hands(x)' = Hands(x) \ {w}  BY <1>9, <2>1 DEF Hands
    <3> QED  BY <3>1, <3>2, <3>3, <3>4, <3>5 DEF TaskStep
  <2> QED  BY <2>2, <2>3
<1> QED  BY <1>7, <1>10, <1>11

(* A worker that dies drops everything it has in hand. *)
LEMMA CrashTasks ==
  ASSUME TypeOK, HandInv, NEW w \in Worker, Crash(w)
  PROVE  HandInv' /\ \A d \in Id : TaskStep(d)
<1>1. /\ count' = count /\ wk' = [wk EXCEPT ![w] = Idle]
      /\ \A d \in Id : /\ dl'[d].state = dl[d].state
                       /\ dl[d].token # w => dl'[d].token = dl[d].token
                       /\ dl[d].token = w => dl'[d].token = Orphan
  BY CrashWorks DEF Works
<1>2. wk'[w] = Idle /\ \A v \in Worker : v # w => wk'[v] = wk[v]  BY <1>1 DEF TypeOK
<1>3. Idle.pc = "idle" /\ Idle.batch = {}  BY DEF Idle
<1>4. HandInv'
  <2>1. RowsFresh'  BY <1>1 DEF HandInv, RowsFresh
  <2>2. \A d \in Id : dl'[d].token \in Worker => dl'[d].state = "sending"
    BY <1>1, NullAssumption DEF HandInv
  <2> QED  BY <1>2, <1>3, <2>1, <2>2 DEF HandInv
<1>5. \A v \in Worker, d \in Id : InHand(v, d)' <=> v # w /\ InHand(v, d)
  BY <1>2, <1>3 DEF InHand
<1>6. ASSUME NEW d \in Id PROVE TaskStep(d)
  <2>1. CASE InHand(w, d)  BY <1>1, <1>5, <2>1, NullAssumption, DroppedTask
  <2>2. CASE ~InHand(w, d)
    <3>1. \A v \in Worker : InHand(v, d)' <=> InHand(v, d)  BY <1>5, <2>2
    <3>2. CASE dl[d].token # w  BY <1>1, <3>1, <3>2, KeptTask
    <3>3. CASE dl[d].token = w
      <4>1. Owner(d) = None  BY <2>2, <3>3, OwnerIs DEF Holds
      <4>2. Owner(d)' = None  BY <1>1, <3>3, NullAssumption, OwnerIs DEF Holds
      <4>3. Phase(d)' = Phase(d)  BY <1>1 DEF Phase
      <4>4. Hands(d)' = Hands(d)  BY <3>1 DEF Hands
      <4> QED  BY <4>1, <4>2, <4>3, <4>4 DEF TaskStep
    <3> QED  BY <3>2, <3>3
  <2> QED  BY <2>1, <2>2
<1> QED  BY <1>4, <1>6

(* Every step keeps the invariant and is a step of each row as a task. *)
LEMMA NextTasks ==
  ASSUME TypeOK, HandInv, Next
  PROVE  HandInv' /\ \A d \in Id : TaskStep(d)
<1>1. ASSUME NEW w \in Worker, EndBatch(w) PROVE HandInv' /\ \A d \in Id : TaskStep(d)
  <2>1. /\ dl' = dl /\ count' = count /\ wk[w].pc = "batch" /\ wk[w].batch = {}
        /\ wk'[w] = Idle /\ \A v \in Worker : v # w => wk'[v] = wk[v]
    BY <1>1 DEF EndBatch, TypeOK
  <2>2. Idle.pc = "idle" /\ Idle.batch = {}  BY DEF Idle
  <2>3. HandInv'
    <3>1. RowsFresh'  BY <2>1 DEF HandInv, RowsFresh
    <3> QED  BY <2>1, <2>2, <3>1 DEF HandInv
  <2>4. \A v \in Worker, d \in Id : InHand(v, d)' <=> InHand(v, d)  BY <2>1, <2>2 DEF InHand
  <2> QED  BY <2>1, <2>3, <2>4, KeptTask
<1>2. ASSUME Tick PROVE HandInv' /\ \A d \in Id : TaskStep(d)
  <2>1. /\ count' = count
        /\ \A w \in Worker : wk'[w].pc = wk[w].pc /\ wk'[w].cur = wk[w].cur /\ wk'[w].batch = wk[w].batch
        /\ \A d \in Id : dl'[d].state = dl[d].state /\ dl'[d].token = dl[d].token
    BY <1>2, TickWorks DEF Works
  <2>2. HandInv'
    <3>1. RowsFresh'  BY <2>1 DEF HandInv, RowsFresh
    <3> QED  BY <2>1, <3>1 DEF HandInv
  <2>3. \A v \in Worker, d \in Id : InHand(v, d)' <=> InHand(v, d)  BY <2>1 DEF InHand
  <2> QED  BY <2>1, <2>2, <2>3, KeptTask
<1>3. ASSUME NEW w \in Worker, Step(w) PROVE HandInv' /\ \A d \in Id : TaskStep(d)
  <2>1. ASSUME NEW x \in Id, RefreshClaim(w, x) PROVE HandInv' /\ \A d \in Id : TaskStep(d)
    BY <2>1, RefreshTasks
  <2>2. CASE Cancel(w) \/ Sent(w) \/ SendFailed(w)  BY <2>2, OutcomeTasks
  <2> QED  BY <1>1, <1>3, <2>1, <2>2 DEF Step
<1> QED  BY <1>2, <1>3, NextSplit, RequestTasks, BatchTasks, CrashTasks

(* The outbox implements the abstract queue, for any number of workers, mails *)
(* and batch sizes: ClaimDue, RefreshClaim and UpdateClaim give no row back    *)
(* and finish none but for the worker that claimed it last, and take none up   *)
(* again after it was finished, whatever batches outlive their leases (no     *)
(* bound on a batch is assumed) and whichever workers die.                    *)
THEOREM OutboxRefinement == Spec => OutboxIsQueue
<1>1. Init => HandInv /\ Queue!Init
  <2> SUFFICES ASSUME Init PROVE HandInv /\ Queue!Init  OBVIOUS
  <2>1. /\ NoDelivery.state = "none" /\ NoDelivery.token = None
        /\ Idle.pc = "idle" /\ Idle.batch = {}
    BY DEF NoDelivery, Idle
  <2>2. \A d \in Id : dl[d].state = "none" /\ dl[d].token = None  BY <2>1 DEF Init
  <2>3. \A w \in Worker : wk[w].pc = "idle" /\ wk[w].batch = {}  BY <2>1 DEF Init
  <2>4. HandInv  BY <2>2, <2>3, NullAssumption DEF HandInv, RowsFresh
  <2>5. ASSUME NEW d \in Id PROVE Phase(d) = "none" /\ Owner(d) = None /\ Hands(d) = {}
    <3>1. \A w \in Worker : ~InHand(w, d)  BY <2>3 DEF InHand
    <3>2. Owner(d) = None  BY <3>1, OwnerIs DEF Holds
    <3>3. Hands(d) = {}  BY <3>1 DEF Hands
    <3> QED  BY <2>2, <3>2, <3>3, PhaseIs
  <2>6. Queue!Init
    <3>1. [d \in Id |-> Phase(d)] = [d \in Id |-> "none"]  BY <2>5
    <3>2. [d \in Id |-> Owner(d)] = [d \in Id |-> None]  BY <2>5
    <3>3. [d \in Id |-> Hands(d)] = [d \in Id |-> {}]  BY <2>5
    <3> QED  BY <3>1, <3>2, <3>3 DEF Queue!Init
  <2> QED  BY <2>4, <2>6
<1>2. TypeOK /\ HandInv /\ [Next]_vars => HandInv' /\ [Queue!Next]_(Queue!vars)
  <2> SUFFICES ASSUME TypeOK, HandInv, [Next]_vars PROVE HandInv' /\ [Queue!Next]_(Queue!vars)  OBVIOUS
  <2>1. CASE Next  BY <2>1, NextTasks, StepOfQueue
  <2>2. CASE UNCHANGED vars
    <3>1. dl' = dl /\ wk' = wk /\ count' = count  BY <2>2 DEF vars
    <3>2. HandInv'  BY <3>1 DEF HandInv, RowsFresh
    <3>3. UNCHANGED Queue!vars
      BY <3>1 DEF Queue!vars, Phase, Owner, Holds, Hands, InHand
    <3> QED  BY <3>2, <3>3
  <2> QED  BY <2>1, <2>2
<1> QED  BY <1>1, <1>2, TypeCorrect, PTL DEF Spec, OutboxIsQueue, Queue!Spec
=============================================================================
