------------------------------ MODULE RowLocks ------------------------------
(***************************************************************************)
(* The row locks of PostgreSQL, as the transactions of this service take   *)
(* them: one after the other, each held until the transaction ends.  A     *)
(* transaction has a plan, the locks its next statements will take, and    *)
(* the ones it holds; a lock is a row and a mode.                          *)
(***************************************************************************)
EXTENDS Sequences, SequencesExt

CONSTANT Tx   \* transactions under way at the same time

VARIABLE tx

(* SELECT FOR UPDATE, UPDATE of other columns than a key, foreign key check *)
Mode == {"update", "noKeyUpdate", "keyShare"}

Conflicts(m, n) == "update" \in {m, n} \/ (m = "noKeyUpdate" /\ n = "noKeyUpdate")

HeldAgainst(w, k) == \E h \in tx[w].held : h[1] = k[1] /\ Conflicts(h[2], k[2])
Blocked(t, k) == \E w \in Tx \ {t} : HeldAgainst(w, k)

(* Nobody stands in the way of a transaction of one statement. *)
Free(k) == \A w \in Tx : ~HeldAgainst(w, k)

(* The last lock of a plan is taken by the step that reads under it. *)
CanLock(t) == Len(tx[t].plan) > 1 /\ ~Blocked(t, Head(tx[t].plan))
Ready(t) == Len(tx[t].plan) < 2 /\ \A k \in Range(tx[t].plan) : ~Blocked(t, k)
Got(t) == tx[t].held \cup Range(tx[t].plan)

Locked(t) ==
    [tx EXCEPT ![t].held = @ \cup {Head(tx[t].plan)}, ![t].plan = Tail(@)]

WaitsFor(t, w) == tx[t].plan # <<>> /\ t # w /\ HeldAgainst(w, Head(tx[t].plan))

(* Each waits for another one of them. *)
Ring(S) == S # {} /\ \A t \in S : \E w \in S : WaitsFor(t, w)

=============================================================================
