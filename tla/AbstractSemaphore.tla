------------------------- MODULE AbstractSemaphore -------------------------
(***************************************************************************)
(* What a counting semaphore promises: a wait takes a unit that is there,  *)
(* a post adds one, and a wait that fails takes nothing.                   *)
(***************************************************************************)
EXTENDS Naturals

CONSTANTS Calls, InitVal

VARIABLES value, status

Init ==
    /\ value = InitVal
    /\ status = [c \in Calls |-> "idle"]

Become(c, s) == status' = [status EXCEPT ![c] = s]

Wait(c) ==
    /\ status[c] = "idle"
    /\ Become(c, "waiting")
    /\ UNCHANGED value

Take(c) ==
    /\ status[c] \in {"idle", "waiting"}
    /\ value > 0
    /\ value' = value - 1
    /\ Become(c, "got")

\* try_wait would block, or the wait times out or is cancelled.
Fail(c) ==
    /\ status[c] \in {"idle", "waiting"}
    /\ Become(c, "failed")
    /\ UNCHANGED value

Post(c) ==
    /\ status[c] = "idle"
    /\ value' = value + 1
    /\ Become(c, "posted")

Next == \E c \in Calls : Wait(c) \/ Take(c) \/ Fail(c) \/ Post(c)

Spec == Init /\ [][Next]_<<value, status>>
=============================================================================
