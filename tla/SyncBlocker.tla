---------------------------- MODULE SyncBlocker ----------------------------
(***************************************************************************)
(* std/sync/blocking.rs: the blocker every synchronisation primitive of    *)
(* the library waits on.  A blocking call creates one SyncBlocker          *)
(* (SyncBlocker::current) and never shares it with another call, so a call *)
(* names its blocker.  The blocker is a park token plus two flags:         *)
(*   token     the Park (coroutine) or ThreadPark (thread) has been        *)
(*             unparked and the unpark has not been consumed;              *)
(*   unparked  the waker has published that it unparked this blocker;      *)
(*   release   the waiter gave up and asks the waker to give the unit back.*)
(* The modules that EXTEND this one put these steps into their own actions.*)
(* The Park behind the token is the subject of module Park; here parking   *)
(* is its contract: park returns Ok by consuming the token, or an error,   *)
(* and then the token is cleared as well (park.rs:197, blocking.rs:40).    *)
(***************************************************************************)
CONSTANT Calls

VARIABLES token, unparked, release

blockerVars == <<token, unparked, release>>

BlockerTypeOK ==
    /\ token \in [Calls -> BOOLEAN]
    /\ unparked \in [Calls -> BOOLEAN]
    /\ release \in [Calls -> BOOLEAN]

\* SyncBlocker::current of every call.
BlockerInit ==
    /\ token = [c \in Calls |-> FALSE]
    /\ unparked = [c \in Calls |-> FALSE]
    /\ release = [c \in Calls |-> FALSE]

\* park(dur) returns Ok.
ParkOk(b) ==
    /\ token[b]
    /\ token' = [token EXCEPT ![b] = FALSE]
    /\ UNCHANGED <<unparked, release>>

\* park(dur) returns Err(Timeout) or Err(Canceled).  The waker of the error
\* and an unpark may race, so the token may or may not have been set; the
\* check_park after the yield clears it.
ParkErr(b) ==
    /\ token' = [token EXCEPT ![b] = FALSE]
    /\ UNCHANGED <<unparked, release>>

\* SyncBlocker::unpark, first half: unpark the Park or ThreadPark.
BlockerUnpark(b) ==
    /\ token' = [token EXCEPT ![b] = TRUE]
    /\ UNCHANGED <<unparked, release>>

\* SyncBlocker::unpark, second half: publish the unpark.
StoreUnparked(b) ==
    /\ unparked' = [unparked EXCEPT ![b] = TRUE]
    /\ UNCHANGED <<token, release>>

SetRelease(b) ==
    /\ release' = [release EXCEPT ![b] = TRUE]
    /\ UNCHANGED <<token, unparked>>

\* take_release: swap with FALSE; the caller looks at the old value.
TakeRelease(b) ==
    /\ release' = [release EXCEPT ![b] = FALSE]
    /\ UNCHANGED <<token, unparked>>
=============================================================================
