------------------------------- MODULE Ticker -------------------------------
(***************************************************************************)
(* std/time/tick.rs: a coroutine that locks the duration, sleeps for it    *)
(* and sends a tick before it unlocks, and calls of stop and reset.  The   *)
(* mutex is an exclusive lock, as module Mutex shows; the coroutine cannot *)
(* be cancelled, since nobody has its handle.                              *)
(***************************************************************************)
EXTENDS Integers

CONSTANTS Calls, Tick, Null,
          MaxTicks   \* bound: ticks that nobody has received

VARIABLES
    d,        \* Duration: 0 when stopped
    lock,     \* who holds the mutex of d
    tick,     \* where the coroutine is
    ticks,    \* messages in the channel
    call,     \* where each call of stop or reset is
    stopped   \* a call of stop has returned and no reset has begun since

vars == <<d, lock, tick, ticks, call, stopped>>

TypeOK ==
    /\ d \in 0 .. 1
    /\ lock \in Calls \cup {Tick, Null}
    /\ tick \in {"lock", "locked", "send", "ended"}
    /\ ticks \in 0 .. MaxTicks
    /\ call \in [Calls -> [at : {"idle", "lock", "locked"}, d : 0 .. 1]]
    /\ stopped \in BOOLEAN

Init ==
    /\ d \in 0 .. 1
    /\ lock = Null
    /\ tick = "lock"
    /\ ticks = 0
    /\ call = [c \in Calls |-> [at |-> "idle", d |-> 0]]
    /\ stopped = FALSE

Lock ==
    /\ tick = "lock" /\ lock = Null
    /\ lock' = Tick
    /\ tick' = "locked"
    /\ UNCHANGED <<d, ticks, call, stopped>>

\* Mutant: the coroutine sleeps for a copy of the duration, without the lock.
SleepUnlocked ==
    /\ tick = "locked"
    /\ tick' = IF d = 0 THEN "ended" ELSE "send"
    /\ lock' = Null
    /\ UNCHANGED <<d, ticks, call, stopped>>

\* A duration of zero ends the loop; else the coroutine sleeps with the lock held.
Sleep ==
    /\ tick = "locked"
    /\ IF d = 0
       THEN tick' = "ended" /\ lock' = Null
       ELSE tick' = "send" /\ UNCHANGED lock
    /\ UNCHANGED <<d, ticks, call, stopped>>

SendTick ==
    /\ tick = "send"
    /\ ticks < MaxTicks
    /\ ticks' = ticks + 1
    /\ lock' = Null
    /\ tick' = "lock"
    /\ UNCHANGED <<d, call, stopped>>

\* Iterator::next.
Receive ==
    /\ ticks > 0
    /\ ticks' = ticks - 1
    /\ UNCHANGED <<d, lock, tick, call, stopped>>

\* stop writes zero and reset its argument.
Begin(c) ==
    /\ call[c].at = "idle"
    /\ \E n \in 0 .. 1 :
          /\ call' = [call EXCEPT ![c] = [at |-> "lock", d |-> n]]
          /\ stopped' = (stopped /\ n = 0)
    /\ UNCHANGED <<d, lock, tick, ticks>>

Write(c) ==
    /\ call[c].at = "lock" /\ lock = Null
    /\ lock' = c
    /\ d' = call[c].d
    /\ call' = [call EXCEPT ![c].at = "locked"]
    /\ UNCHANGED <<tick, ticks, stopped>>

Return(c) ==
    /\ call[c].at = "locked"
    /\ lock' = Null
    /\ call' = [call EXCEPT ![c].at = "idle"]
    /\ stopped' = (stopped \/ (d = 0 /\ \A e \in Calls : call[e].at = "lock" => call[e].d = 0))
    /\ UNCHANGED <<d, tick, ticks>>

Next ==
    \/ Lock \/ Sleep \/ SendTick \/ Receive
    \/ \E c \in Calls : Begin(c) \/ Write(c) \/ Return(c)

Spec == Init /\ [][Next]_vars

-----------------------------------------------------------------------------
\* tick.rs:64: "After Stop, no more ticks will be sent."
NoTickAfterStop == stopped => tick # "send"
=============================================================================
