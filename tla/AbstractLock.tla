---------------------------- MODULE AbstractLock ----------------------------
(***************************************************************************)
(* What an exclusive lock promises to the calls that use it: a call waits, *)
(* is refused or given the lock, and at most one call has it.              *)
(***************************************************************************)
CONSTANT Calls

VARIABLE status

Init == status = [c \in Calls |-> "idle"]

Free == \A c \in Calls : status[c] # "held"

Become(c, s) == status' = [status EXCEPT ![c] = s]

Wait(c) == status[c] = "idle" /\ Become(c, "waiting")

Acquire(c) == status[c] \in {"idle", "waiting"} /\ Free /\ Become(c, "held")

\* try_lock would block, or the waiting call is cancelled.
Refuse(c) == status[c] \in {"idle", "waiting"} /\ Become(c, "gone")

Release(c) == status[c] = "held" /\ Become(c, "gone")

Next == \E c \in Calls : Wait(c) \/ Acquire(c) \/ Refuse(c) \/ Release(c)

Spec == Init /\ [][Next]_status
=============================================================================
