----------------------------- MODULE TaskQueue -----------------------------
(***************************************************************************)
(* What the leased queues of the system promise of their tasks: a worker    *)
(* takes a task under a lease of its own; of all workers that believe they  *)
(* have it, only the last one that took it may move it, give it back or     *)
(* settle it; a decision made elsewhere withdraws it.  Workers take tasks   *)
(* in batches, so one step may concern several tasks.                       *)
(***************************************************************************)
CONSTANTS
    Task, Worker, None,
    Open, Closed    \* the states in which a task waits, and in which it is settled

VARIABLES
    state,    \* of every task: "none", an open or a closed one
    owner,    \* the worker whose lease the queue has recorded last
    busy,     \* the workers that have the task in hand
    decided   \* the tasks whose subject has been decided, by whomever

vars == <<state, owner, busy, decided>>

Init ==
    /\ state = [t \in Task |-> "none"]
    /\ owner = [t \in Task |-> None]
    /\ busy = [t \in Task |-> {}]
    /\ decided = {}

Put(t) ==
    /\ state[t] = "none" /\ state'[t] \in Open
    /\ owner'[t] = None /\ busy'[t] = busy[t]

Take(t, w) ==
    /\ state[t] \in Open /\ state'[t] = state[t]
    /\ w \notin busy[t] /\ busy'[t] = busy[t] \cup {w}
    /\ owner'[t] = w

(* Only the owner: a stage of the task is done, and the next one begun. *)
Advance(t, w) ==
    /\ state[t] \in Open /\ state'[t] \in Open
    /\ w \in busy[t] /\ busy'[t] = busy[t]
    /\ owner[t] = w /\ owner'[t] = w

(* Only the owner: to try again later, or for good, as done or given up. *)
Release(t, w) ==
    /\ state[t] \in Open /\ state'[t] \in Open \cup Closed \cup {"none"}
    /\ w \in busy[t] /\ busy'[t] = busy[t] \ {w}
    /\ owner[t] = w /\ owner'[t] = None

(* The worker dies, or finds that the task is no longer its own. *)
Forget(t, w) ==
    /\ w \in busy[t] /\ busy'[t] = busy[t] \ {w}
    /\ state'[t] = state[t] /\ owner'[t] = owner[t]

(* A decision, perhaps brought by a worker, ends the task. *)
Decide(t) ==
    /\ t \in decided'
    /\ \/ state'[t] = "none" /\ owner'[t] = None
       \/ state'[t] = state[t] /\ owner'[t] = owner[t]
    /\ \/ busy'[t] = busy[t]
       \/ \E w \in busy[t] : busy'[t] = busy[t] \ {w}

Same(t) == state'[t] = state[t] /\ owner'[t] = owner[t] /\ busy'[t] = busy[t]

Next ==
    /\ decided \subseteq decided'
    /\ \A t \in Task :
          \/ Same(t)
          \/ t \notin decided /\ Put(t)
          \/ \E w \in Worker : Take(t, w) \/ Advance(t, w) \/ Release(t, w) \/ Forget(t, w)
          \/ Decide(t)

Spec == Init /\ [][Next]_vars

=============================================================================
