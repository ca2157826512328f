-------------------------------- MODULE Park --------------------------------
(***************************************************************************)
(* park.rs, with cancel.rs, yield_now.rs, run_coroutine and the timer      *)
(* entries it relies on: how one coroutine is suspended on a Park and who  *)
(* may wake it.                                                            *)
(*                                                                         *)
(* A suspended coroutine is one object, moved from owner to owner, so one  *)
(* variable (loc) says where it is.  Beside the coroutine there run:       *)
(*   - for each Park, the kernel part of park_timeout: Park::subscribe, on *)
(*     the worker thread the coroutine yielded to (a frame).  The frame    *)
(*     may go on after another thread has resumed the coroutine, and may   *)
(*     run the coroutine itself, nested in its own call stack;             *)
(*   - unparkers, cancellers, and the timer thread.                        *)
(* Each step is one access to shared memory; steps that touch nothing      *)
(* another actor can see are merged with it.                               *)
(***************************************************************************)
EXTENDS Naturals, FiniteSets

CONSTANTS
    Parks,        \* the Park objects the coroutine uses
    Unparkers,    \* calls of unpark
    Cancelers,    \* calls of cancel
    Timeouts,     \* BOOLEAN values: may park be called with (TRUE) a timeout
    MaxCalls,     \* bound on the calls of park_timeout
    None          \* no Park

ASSUME ParkAssumption ==
    /\ Timeouts \subseteq BOOLEAN
    /\ MaxCalls \in Nat
    /\ IsFiniteSet(Parks) /\ IsFiniteSet(Unparkers) /\ Unparkers \cap Cancelers = {}
    /\ Parks \cap {None, "run", "frame", "ready", "gone"} = {}
    /\ None \notin {"run", "frame", "ready", "gone"}

VARIABLES
    token, gen,   \* Park.state: bit 0, and bit 1 (the generation)
    wait_kernel,  \* Park.wait_kernel
    timeout,      \* Park.timeout is not zero
    handle,       \* Park.timeout_handle: number of the call that armed it, or 0
    check_cancel, \* Park.check_cancel: FALSE in the Park of a SyncBlocker
    freed,        \* Park::drop has finished
    loc,          \* where the coroutine is: see Places
    para,         \* the result set for the coroutine by who wakes it
    canceled,     \* bit 0 of Cancel.state
    cancel_co,    \* Cancel.co: the Park whose wait_co is registered
    pc, cur,      \* the coroutine: where it is, and on which Park
    calls,        \* calls of park_timeout so far
    host,         \* the frame the coroutine runs nested in
    frame,        \* where the kernel part of each Park is
    parent,       \* the frame this frame runs nested in
    apc,          \* where each unparker and canceller is
    atpark,       \* the Park an unparker unparks, or whose wait_co was taken
    timer,        \* the timer entry each call armed
    timer_of,     \* and the Park whose wait_co it holds
    sets, oks     \* unparks that set the token; calls that returned Ok

parkVars == <<token, gen, wait_kernel, timeout, handle, check_cancel, freed>>
coVars == <<loc, para, pc, cur, calls, host>>
cancelVars == <<canceled, cancel_co>>
frameVars == <<frame, parent>>
actorVars == <<apc, atpark>>
timerVars == <<timer, timer_of>>
vars == <<token, gen, wait_kernel, timeout, handle, check_cancel, freed, loc, para, pc, cur,
          calls, host, canceled, cancel_co, frame, parent, apc, atpark, timer, timer_of, sets,
          oks>>

Calls == 1..MaxCalls

\* Running, held by a frame that has not registered it yet, in the ready
\* queues, finished, or in the wait_co of a Park.
Places == {"run", "frame", "ready", "gone"} \cup Parks

TypeOK ==
    /\ token \in [Parks -> BOOLEAN] /\ gen \in [Parks -> BOOLEAN]
    /\ wait_kernel \in [Parks -> BOOLEAN] /\ timeout \in [Parks -> BOOLEAN]
    /\ handle \in [Parks -> 0..MaxCalls]
    /\ check_cancel \in [Parks -> BOOLEAN] /\ freed \in [Parks -> BOOLEAN]
    /\ loc \in Places /\ para \in {"none", "timeout", "canceled"}
    /\ canceled \in BOOLEAN /\ cancel_co \in Parks \cup {None}
    /\ pc \in {"user", "gate", "spin", "spinning", "spun", "yield", "suspended", "early",
               "resumed", "clear", "clear_token", "remove_timer", "ended"}
    /\ cur \in Parks /\ calls \in 0..MaxCalls /\ host \in Parks \cup {None}
    /\ frame \in [Parks -> {"none", "timer", "guard", "register", "check", "wake", "nested",
                            "set_co", "is_canceled", "cancel", "cancel_take", "drop"}]
    /\ parent \in [Parks -> Parks \cup {None}]
    /\ apc \in [Unparkers \cup Cancelers -> {"idle", "take_co", "wake", "done"}]
    /\ atpark \in [Unparkers \cup Cancelers \cup Parks -> Parks \cup {None}]
    /\ timer \in [Calls -> {"none", "armed", "removing", "firing"}]
    /\ timer_of \in [Calls -> Parks]
    /\ sets \in Nat /\ oks \in Nat

Init ==
    /\ token = [p \in Parks |-> FALSE] /\ gen = [p \in Parks |-> FALSE]
    /\ wait_kernel = [p \in Parks |-> FALSE] /\ timeout = [p \in Parks |-> FALSE]
    /\ handle = [p \in Parks |-> 0] /\ check_cancel \in [Parks -> BOOLEAN]
    /\ freed = [p \in Parks |-> FALSE]
    /\ loc = "run" /\ para = "none"
    /\ canceled = FALSE /\ cancel_co = None
    /\ pc = "user" /\ cur \in Parks /\ calls = 0 /\ host = None
    /\ frame = [p \in Parks |-> "none"] /\ parent = [p \in Parks |-> None]
    /\ apc = [a \in Unparkers \cup Cancelers |-> "idle"]
    /\ atpark = [a \in Unparkers \cup Cancelers \cup Parks |-> None]
    /\ timer = [n \in Calls |-> "none"] /\ timer_of = [n \in Calls |-> cur]
    /\ sets = 0 /\ oks = 0

Goto(l) == pc' = l
FrameGoto(p, l) == frame' = [frame EXCEPT ![p] = l]
ActorGoto(a, l) == apc' = [apc EXCEPT ![a] = l]

\* fetch_add(2) on Park.state, as far as bit 1 can tell.
FlipGen(p) == gen' = [gen EXCEPT ![p] = ~gen[p]]

\* The coroutine gives its thread back.  If it ran nested in a frame, that
\* frame's wake_up returns and its guard is next.
EndHost ==
    /\ frame' = IF host = None THEN frame ELSE [frame EXCEPT ![host] = "drop"]
    /\ host' = None

\* Whoever takes the coroutine out of the wait_co of p puts it into a ready
\* queue; a take that finds wait_co empty does nothing.
TakeAndSchedule(p, result) ==
    IF loc = p THEN loc' = "ready" /\ para' = result
               ELSE UNCHANGED <<loc, para>>

-----------------------------------------------------------------------------
(* The coroutine: park_timeout and the yield_with it calls.                *)

\* A token that is there is consumed without yielding.
ParkTimeout(p) ==
    /\ pc = "user" /\ calls < MaxCalls
    /\ calls' = calls + 1
    /\ cur' = p
    /\ \E timed \in Timeouts : timeout' = [timeout EXCEPT ![p] = timed]
    /\ IF token[p] THEN Goto("user") /\ oks' = oks + 1 ELSE Goto("gate") /\ UNCHANGED oks
    /\ token' = [token EXCEPT ![p] = FALSE]
    /\ UNCHANGED <<gen, wait_kernel, handle, check_cancel, freed, loc, para, host, cancelVars, frameVars,
                   actorVars, timerVars, sets>>

\* Mutant: the frame of the last call is not waited for.
GateNoWait ==
    /\ pc = "gate"
    /\ wait_kernel' = [wait_kernel EXCEPT ![cur] = FALSE]
    /\ gen' = [gen EXCEPT ![cur] = FALSE]
    /\ Goto("yield")
    /\ UNCHANGED <<token, timeout, handle, check_cancel, freed, loc, para, cur, calls, host, cancelVars,
                   frameVars, actorVars, timerVars, sets, oks>>

\* Before it yields again the coroutine waits for the frame of its last call.
Gate ==
    /\ pc = "gate"
    /\ wait_kernel' = [wait_kernel EXCEPT ![cur] = FALSE]
    /\ IF wait_kernel[cur]
       THEN Goto("spin") /\ UNCHANGED gen
       ELSE Goto("yield") /\ gen' = [gen EXCEPT ![cur] = FALSE]
    /\ UNCHANGED <<token, timeout, handle, check_cancel, freed, loc, para, cur, calls, host, cancelVars,
                   frameVars, actorVars, timerVars, sets, oks>>

\* The cancel panic unwinds the coroutine.
Unwind ==
    /\ Goto("ended")
    /\ loc' = "gone"
    /\ para' = "none"
    /\ EndHost

SpinDone ==
    /\ pc = "spin" /\ ~gen[cur]
    /\ Goto("yield")
    /\ UNCHANGED <<parkVars, loc, para, cur, calls, host, cancelVars, frameVars, actorVars,
                   timerVars, sets, oks>>

\* yield_now: a cancelled coroutine panics, others go through the ready queue.
Spin ==
    /\ pc = "spin" /\ gen[cur]
    /\ \/ canceled /\ Unwind
       \/ ~canceled /\ Goto("spinning") /\ loc' = "ready" /\ EndHost /\ UNCHANGED para
    /\ UNCHANGED <<parkVars, cur, calls, cancelVars, parent, actorVars, timerVars, sets, oks>>

\* Back from yield_now: Yield's yield_back, then cancel.clear.
Spun ==
    /\ pc = "spun"
    /\ \/ canceled /\ Unwind /\ UNCHANGED cancel_co
       \/ /\ ~canceled /\ Goto("spin") /\ cancel_co' = None
          /\ UNCHANGED <<loc, para, frame, host>>
    /\ UNCHANGED <<parkVars, cur, calls, canceled, parent, actorVars, timerVars, sets, oks>>

\* yield_with(self): a cancelled coroutine does not enter the kernel.
YieldCanceled ==
    /\ pc = "yield" /\ canceled
    /\ para' = "canceled"
    /\ Goto("early")
    /\ UNCHANGED <<parkVars, loc, cur, calls, host, cancelVars, frameVars, actorVars, timerVars,
                   sets, oks>>

Yield ==
    /\ pc = "yield" /\ ~canceled
    /\ loc' = "frame"
    /\ FrameGoto(cur, "timer")
    /\ parent' = [parent EXCEPT ![cur] = host]
    /\ host' = None
    /\ Goto("suspended")
    /\ UNCHANGED <<parkVars, para, cur, calls, cancelVars, actorVars, timerVars, sets, oks>>

\* Park::yield_back: the other half of the generation; then the cancel check,
\* and cancel.clear unless the kernel was not entered.
YieldBack ==
    /\ pc \in {"early", "resumed"}
    /\ FlipGen(cur)
    /\ \/ canceled /\ check_cancel[cur] /\ Unwind
       \/ /\ ~(canceled /\ check_cancel[cur])
          /\ Goto(IF pc = "early" THEN "clear_token" ELSE "clear")
          /\ UNCHANGED <<loc, para, frame, host>>
    /\ UNCHANGED <<token, wait_kernel, timeout, handle, check_cancel, freed, cur, calls, cancelVars, parent,
                   actorVars, timerVars, sets, oks>>

Clear ==
    /\ pc = "clear"
    /\ cancel_co' = None
    /\ Goto("clear_token")
    /\ UNCHANGED <<parkVars, loc, para, cur, calls, host, canceled, frameVars, actorVars,
                   timerVars, sets, oks>>

\* The second check_park.
ClearToken ==
    /\ pc = "clear_token"
    /\ token' = [token EXCEPT ![cur] = FALSE]
    /\ Goto("remove_timer")
    /\ UNCHANGED <<gen, wait_kernel, timeout, handle, check_cancel, freed, loc, para, cur, calls, host,
                   cancelVars, frameVars, actorVars, timerVars, sets, oks>>

\* A timer that is still linked is handed to the timer thread for removal;
\* then the call returns what get_co_para says.
RemoveTimer ==
    /\ pc = "remove_timer"
    /\ handle' = [handle EXCEPT ![cur] = 0]
    /\ timer' = [n \in Calls |->
                    IF n = handle[cur] /\ timer[n] = "armed" THEN "removing" ELSE timer[n]]
    /\ oks' = IF para = "none" THEN oks + 1 ELSE oks
    /\ para' = "none"
    /\ Goto("user")
    /\ UNCHANGED <<token, gen, wait_kernel, timeout, check_cancel, freed, loc, cur, calls, host, cancelVars,
                   frameVars, actorVars, timer_of, sets>>

\* The coroutine's function returns.
Return ==
    /\ pc = "user"
    /\ Unwind
    /\ UNCHANGED <<parkVars, cur, calls, cancelVars, parent, actorVars, timerVars, sets, oks>>

\* A worker takes the coroutine from a ready queue (run_coroutine).
Resume ==
    /\ loc = "ready"
    /\ loc' = "run"
    /\ Goto(IF pc = "suspended" THEN "resumed" ELSE "spun")
    /\ UNCHANGED <<parkVars, para, cur, calls, host, cancelVars, frameVars, actorVars, timerVars,
                   sets, oks>>

-----------------------------------------------------------------------------
(* The frame: Park::subscribe.                                             *)

SubscribeTimer(p) ==
    /\ frame[p] = "timer"
    /\ timeout' = [timeout EXCEPT ![p] = FALSE]
    /\ handle' = [handle EXCEPT ![p] = IF timeout[p] THEN calls ELSE 0]
    /\ timer' = IF timeout[p] THEN [timer EXCEPT ![calls] = "armed"] ELSE timer
    /\ timer_of' = IF timeout[p] THEN [timer_of EXCEPT ![calls] = p] ELSE timer_of
    /\ FrameGoto(p, "guard")
    /\ UNCHANGED <<token, gen, wait_kernel, check_cancel, freed, coVars, cancelVars, parent, actorVars,
                   sets, oks>>

\* delay_drop.
SubscribeGuard(p) ==
    /\ frame[p] = "guard"
    /\ wait_kernel' = [wait_kernel EXCEPT ![p] = TRUE]
    /\ FrameGoto(p, "register")
    /\ UNCHANGED <<token, gen, timeout, handle, check_cancel, freed, coVars, cancelVars, parent, actorVars,
                   timerVars, sets, oks>>

\* wait_co.swap(co).  From here on anyone may resume the coroutine.
SubscribeRegister(p) ==
    /\ frame[p] = "register"
    /\ loc' = p
    /\ FrameGoto(p, "check")
    /\ UNCHANGED <<parkVars, para, pc, cur, calls, host, cancelVars, parent, actorVars,
                   timerVars, sets, oks>>

\* Mutant: the token is not looked at again after the registration.
SubscribeNoCheck(p) ==
    /\ frame[p] = "check"
    /\ FrameGoto(p, "set_co")
    /\ UNCHANGED <<parkVars, coVars, cancelVars, parent, actorVars, timerVars, sets, oks>>

SubscribeCheck(p) ==
    /\ frame[p] = "check"
    /\ FrameGoto(p, IF token[p] THEN "wake" ELSE "set_co")
    /\ UNCHANGED <<parkVars, coVars, cancelVars, parent, actorVars, timerVars, sets, oks>>

\* wake_up(true) runs the coroutine inside the frame.
SubscribeWake(p) ==
    /\ frame[p] = "wake"
    /\ IF loc = p
       THEN loc' = "run" /\ host' = p /\ Goto("resumed") /\ FrameGoto(p, "nested")
       ELSE FrameGoto(p, "drop") /\ UNCHANGED <<loc, host, pc>>
    /\ UNCHANGED <<parkVars, para, cur, calls, cancelVars, parent, actorVars, timerVars,
                   sets, oks>>

SubscribeSetCo(p) ==
    /\ frame[p] = "set_co"
    /\ cancel_co' = p
    /\ FrameGoto(p, "is_canceled")
    /\ UNCHANGED <<parkVars, coVars, canceled, parent, actorVars, timerVars, sets, oks>>

\* Mutant: a cancel that came before the registration is not noticed.
SubscribeNoRecheck(p) ==
    /\ frame[p] = "is_canceled"
    /\ FrameGoto(p, "drop")
    /\ UNCHANGED <<parkVars, coVars, cancelVars, parent, actorVars, timerVars, sets, oks>>

SubscribeIsCanceled(p) ==
    /\ frame[p] = "is_canceled"
    /\ FrameGoto(p, IF canceled THEN "cancel" ELSE "drop")
    /\ UNCHANGED <<parkVars, coVars, cancelVars, parent, actorVars, timerVars, sets, oks>>

\* The frame's own cancel.cancel(): take the registration, then the coroutine.
SubscribeCancel(p) ==
    /\ frame[p] = "cancel"
    /\ atpark' = [atpark EXCEPT ![p] = cancel_co]
    /\ cancel_co' = None
    /\ FrameGoto(p, "cancel_take")
    /\ UNCHANGED <<parkVars, coVars, canceled, parent, apc, timerVars, sets, oks>>

SubscribeCancelTake(p) ==
    /\ frame[p] = "cancel_take"
    /\ TakeAndSchedule(atpark[p], "canceled")
    /\ FrameGoto(p, "drop")
    /\ UNCHANGED <<parkVars, pc, cur, calls, host, cancelVars, parent, actorVars, timerVars,
                   sets, oks>>

\* DropGuard::drop ends the frame, and the frame it was nested in goes on.
SubscribeDrop(p) ==
    /\ frame[p] = "drop"
    /\ FlipGen(p)
    /\ frame' = [q \in Parks |-> IF q = p THEN "none"
                                 ELSE IF q = parent[p] THEN "drop" ELSE frame[q]]
    /\ parent' = [parent EXCEPT ![p] = None]
    /\ UNCHANGED <<token, wait_kernel, timeout, handle, check_cancel, freed, coVars, cancelVars, actorVars,
                   timerVars, sets, oks>>

Subscribe(p) ==
    \/ SubscribeTimer(p) \/ SubscribeGuard(p) \/ SubscribeRegister(p) \/ SubscribeCheck(p)
    \/ SubscribeWake(p) \/ SubscribeSetCo(p) \/ SubscribeIsCanceled(p) \/ SubscribeCancel(p)
    \/ SubscribeCancelTake(p) \/ SubscribeDrop(p)

-----------------------------------------------------------------------------
(* Unparkers, cancellers, the timer thread, and the last owner of a Park.  *)

\* unpark_impl: nothing to do when the token is set already.
UnparkSet(u, p) ==
    /\ apc[u] = "idle" /\ ~freed[p]
    /\ atpark' = [atpark EXCEPT ![u] = p]
    /\ ActorGoto(u, IF token[p] THEN "done" ELSE "wake")
    /\ sets' = IF token[p] THEN sets ELSE sets + 1
    /\ token' = [token EXCEPT ![p] = TRUE]
    /\ UNCHANGED <<gen, wait_kernel, timeout, handle, check_cancel, freed, coVars, cancelVars, frameVars,
                   timerVars, oks>>

\* wake_up.
UnparkWake(u) ==
    /\ apc[u] = "wake"
    /\ TakeAndSchedule(atpark[u], para)
    /\ ActorGoto(u, "done")
    /\ UNCHANGED <<parkVars, pc, cur, calls, host, cancelVars, frameVars, atpark, timerVars,
                   sets, oks>>

CancelSet(k) ==
    /\ apc[k] = "idle"
    /\ canceled' = TRUE
    /\ ActorGoto(k, "take_co")
    /\ UNCHANGED <<parkVars, coVars, cancel_co, frameVars, atpark, timerVars, sets, oks>>

CancelTakeCo(k) ==
    /\ apc[k] = "take_co"
    /\ atpark' = [atpark EXCEPT ![k] = cancel_co]
    /\ cancel_co' = None
    /\ ActorGoto(k, "wake")
    /\ UNCHANGED <<parkVars, coVars, canceled, frameVars, timerVars, sets, oks>>

CancelWake(k) ==
    /\ apc[k] = "wake"
    /\ TakeAndSchedule(atpark[k], "canceled")
    /\ ActorGoto(k, "done")
    /\ UNCHANGED <<parkVars, pc, cur, calls, host, cancelVars, frameVars, atpark, timerVars,
                   sets, oks>>

\* The timer thread unlinks an entry whose time has come, also one whose
\* removal it has not got to yet.
TimerPop(n) ==
    /\ timer[n] \in {"armed", "removing"}
    /\ timer' = [timer EXCEPT ![n] = "firing"]
    /\ UNCHANGED <<parkVars, coVars, cancelVars, frameVars, actorVars, timer_of, sets, oks>>

\* Mutant: the timer wakes the coroutine and does not say why.
TimerFireSilent(n) ==
    /\ timer[n] = "firing"
    /\ timer' = [timer EXCEPT ![n] = "none"]
    /\ TakeAndSchedule(timer_of[n], para)
    /\ UNCHANGED <<parkVars, pc, cur, calls, host, cancelVars, frameVars, actorVars, timer_of,
                   sets, oks>>

TimerFire(n) ==
    /\ timer[n] = "firing"
    /\ timer' = [timer EXCEPT ![n] = "none"]
    /\ TakeAndSchedule(timer_of[n], "timeout")
    /\ UNCHANGED <<parkVars, pc, cur, calls, host, cancelVars, frameVars, actorVars, timer_of,
                   sets, oks>>

TimerRemove(n) ==
    /\ timer[n] = "removing"
    /\ timer' = [timer EXCEPT ![n] = "none"]
    /\ UNCHANGED <<parkVars, coVars, cancelVars, frameVars, actorVars, timer_of, sets, oks>>

\* Mutant: the Park is freed as soon as nobody refers to it.
DropNoWait(p) ==
    /\ pc = "ended" /\ ~freed[p]
    /\ \A u \in Unparkers : atpark[u] = p => apc[u] = "done"
    /\ freed' = [freed EXCEPT ![p] = TRUE]
    /\ UNCHANGED <<token, gen, wait_kernel, timeout, handle, check_cancel, coVars, cancelVars,
                   frameVars, actorVars, timerVars, sets, oks>>

\* Park::drop, in the last owner: nobody else refers to the Park but a frame.
Drop(p) ==
    /\ pc = "ended" /\ ~freed[p]
    /\ \A u \in Unparkers : atpark[u] = p => apc[u] = "done"
    /\ wait_kernel[p] => ~gen[p]
    /\ handle' = [handle EXCEPT ![p] = IF wait_kernel[p] THEN 0 ELSE handle[p]]
    /\ freed' = [freed EXCEPT ![p] = TRUE]
    /\ UNCHANGED <<token, gen, wait_kernel, timeout, check_cancel, coVars, cancelVars,
                   frameVars, actorVars, timerVars, sets, oks>>

-----------------------------------------------------------------------------
\* What the coroutine does once it has called park_timeout.
Coroutine ==
    \/ Gate \/ SpinDone \/ Spin \/ Spun \/ YieldCanceled \/ Yield \/ YieldBack \/ Clear
    \/ ClearToken \/ RemoveTimer \/ Resume

Unpark(u) == (\E p \in Parks : UnparkSet(u, p)) \/ UnparkWake(u)
Cancel(k) == CancelSet(k) \/ CancelTakeCo(k) \/ CancelWake(k)

\* The coroutine is over, or parked for good: nobody is left to wake it.
Quiet ==
    /\ \/ pc = "ended" /\ \A p \in Parks : freed[p]
       \/ loc \in Parks /\ ~token[loc] /\ ~canceled
    /\ UNCHANGED vars

Next ==
    \/ Coroutine \/ Return \/ Quiet
    \/ \E p \in Parks : ParkTimeout(p) \/ Subscribe(p) \/ Drop(p)
    \/ \E u \in Unparkers : Unpark(u)
    \/ \E k \in Cancelers : Cancel(k)
    \/ \E n \in Calls : TimerPop(n) \/ TimerFire(n) \/ TimerRemove(n)

Spec == Init /\ [][Next]_vars

\* Threads run, workers take coroutines from the ready queues, timers go off.
\* Nobody has to park, unpark or cancel.
FairSpec ==
    /\ Spec
    /\ WF_vars(Coroutine)
    /\ \A p \in Parks : WF_vars(Subscribe(p))
    /\ \A u \in Unparkers : WF_vars(UnparkWake(u))
    /\ \A k \in Cancelers : WF_vars(CancelTakeCo(k) \/ CancelWake(k))
    /\ \A n \in Calls : WF_vars(TimerPop(n) \/ TimerFire(n))

-----------------------------------------------------------------------------
\* park.rs:184-190, 215-226, 277.  The generation bit keeps the frames of one
\* Park apart: when the coroutine yields to a Park again, the frame of its
\* previous call on it has ended, whoever resumed the coroutine in between.
FramesApart == pc = "yield" => frame[cur] = "none"

\* park.rs:228-240 "wait the kernel finish".  A Park is not freed under a frame
\* that still runs, as long as no cancel panic interrupts the wait for it.
KernelLifetime == \A p \in Parks : freed[p] /\ ~canceled => frame[p] = "none"

\* park.rs:162-170, 201-210.  park returns Ok for a reason: an unpark accounts
\* for at most two of them (the token and the wake-up), so the first park on a
\* Park, which is all that SyncBlocker's users rely on, is never spurious.
OkHasUnpark == oks <= 2 * sets

\* park.rs:118-141, 259-264.  A coroutine parked on a Park whose token is set
\* does not stay parked.
UnparkWakes == \A p \in Parks : token[p] /\ loc = p ~> loc # p

\* cancel.rs:101-116, park.rs:266-271 and park.rs:174 "if cancellation detected,
\* return Err(ParkError::Canceled)".  A cancelled coroutine does not stay parked.
CancelWakes == canceled /\ loc \in Parks ~> loc \notin Parks

\* park.rs:172-173 "if timeout happens, return Err(ParkError::Timeout)".  A park
\* with a timeout ends.
TimedParkReturns ==
    \A p \in Parks : frame[p] = "timer" /\ timeout[p] ~> pc # "suspended"
=============================================================================
