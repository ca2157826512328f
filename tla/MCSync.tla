------------------------------- MODULE MCSync -------------------------------
(***************************************************************************)
(* The components whose properties are about what must happen in the end,  *)
(* in one run: the primitives that block on others (RwLock, Condvar,       *)
(* WaitGroup, SyncFlag), the coroutine scopes and event queues (Scoped,    *)
(* Cqueue) and what makes coroutines run (Scheduler, TimerList).  Init     *)
(* picks one of them, which, and only its actions are taken, so that the   *)
(* state space is the sum of theirs.  The variables of the chosen one live *)
(* in v1, v2, ...; the others are Off.  A variable of the same name is in  *)
(* the same place in all of them, but for Scheduler and TimerList.         *)
(***************************************************************************)
EXTENDS Integers, FiniteSets

CONSTANTS Calls,        \* calls, references or timers
          Coroutines,   \* those of them that may be cancelled, spawned or scheduled
          Failing,      \* the waits that may time out or be cancelled, the selects that panic
          Wakers,       \* the calls that notify or fire
          First,        \* the first reference of a wait group, the coroutine that sleeps
          IsizeMax,
          Off, Null,
          Lists,        \* queue objects of the timer lists
          MaxTime       \* where the clock of the timers stops

\* What the types and the names guarantee.
ASSUME SyncConstants ==
    /\ IsFiniteSet(Calls) /\ Coroutines \subseteq Calls /\ Wakers \subseteq Calls
    /\ First \in Calls /\ Null \notin Calls
    /\ IsizeMax \in Nat /\ Cardinality(Calls) < IsizeMax

VARIABLES which, v1, v2, v3, v4, v5, v6, v7, v8, v9, v10, v11, v12, v13, v14,
          v15, v16, v17, v18

\* The timers share one interval: their order in its queue is the point.
OneTick(t) == 1

RW == INSTANCE RwLock WITH Cancelable <- Coroutines, CanPanic <- {},
    pc <- v1, rlock <- v2, lock <- v3, readers <- v4, ret <- v5, poison <- v6, kind <- v7

CV == INSTANCE Condvar WITH Notifiers <- Wakers, CanFail <- Failing,
    pc <- v1, token <- v2, to_wake <- v3, target <- v4, ret <- v5, unparked <- v6, release <- v7,
    mutex <- v8, result <- v9, note <- v10

WG == INSTANCE WaitGroup WITH Notifiers <- Wakers, CanFail <- Failing,
    pc <- v1, token <- v2, to_wake <- v3, target <- v4, ret <- v5, unparked <- v6, release <- v7,
    mutex <- v8, result <- v9, note <- v10, count <- v11, op <- v12

FL == INSTANCE SyncFlag WITH Firers <- Wakers, CanFail <- Coroutines,
    pc <- v1, token <- v2, to_wake <- v3, target <- v4, ret <- v5, unparked <- v6, release <- v7,
    cnt <- v8, depth <- v9

SC == INSTANCE Scoped WITH Children <- Coroutines,
    pc <- v1, token <- v2, child <- v3, join <- v4, dtors <- v5, joined <- v6, cur <- v7,
    panicking <- v8, canceled <- v9

CQ == INSTANCE Cqueue WITH Selectors <- Coroutines, CanPanic <- Failing,
    pc <- v1, token <- v2, to_wake <- v3, ev_queue <- v4, sel <- v5, sent <- v6, handle <- v7,
    cnt <- v8, canceled <- v9, note <- v10, is_panicking <- v11, ev <- v12, timed <- v13,
    in_drop <- v14, unwinding <- v15, panicked <- v16, owner_canceled <- v17

SD == INSTANCE Scheduler WITH N <- 2, Sleepers <- {First},
    local <- v1, global <- v2, parked <- v3, evfd <- v4, wpc <- v5, cur <- v6, pin <- v7, st <- v8,
    pend <- v9, waker <- v10, found <- v11, raced <- v12

\* A small HASH_CAP lets the timer thread remove interval lists.
TL == INSTANCE TimerList WITH Timers <- Coroutines, Interval <- OneTick,
    Deleted <- Coroutines \ {First}, HashCap <- 0,
    clock <- v1, map <- v2, wlock <- v3, list <- v4, linked <- v5, heap <- v6, wakeup <- v7,
    token <- v8, remove_list <- v9, pc <- v10, time <- v11, my <- v12, prev <- v13,
    tpc <- v14, now <- v15, entry <- v16, until <- v17, fired <- v18

-----------------------------------------------------------------------------
from13 == <<v13, v14, v15, v16, v17, v18>>
from11 == <<v11, v12, from13>>
from10 == <<v10, from11>>
from8 == <<v8, v9, from10>>
vars == <<which, v1, v2, v3, v4, v5, v6, v7, from8>>

Off13 == v13 = Off /\ v14 = Off /\ v15 = Off /\ v16 = Off /\ v17 = Off /\ v18 = Off
Off11 == v11 = Off /\ v12 = Off /\ Off13
Off10 == v10 = Off /\ Off11
Off8 == v8 = Off /\ v9 = Off /\ Off10

Init ==
    \/ which = "rwlock" /\ RW!Init /\ Off8
    \/ which = "condvar" /\ CV!ClientInit /\ Off11
    \/ which = "wait_group" /\ WG!Init /\ Off13
    \/ which = "sync_flag" /\ FL!Init /\ Off10
    \/ which = "scoped" /\ SC!Init /\ Off10
    \/ which = "cqueue" /\ CQ!Init /\ v18 = Off
    \/ which = "scheduler" /\ SD!Init /\ Off13
    \/ which = "timer_list" /\ TL!Init

Next ==
    /\ UNCHANGED which
    /\ \/ which = "rwlock" /\ RW!Next /\ UNCHANGED from8
       \/ which = "condvar" /\ CV!ClientNext /\ UNCHANGED from11
       \/ which = "wait_group" /\ WG!Next /\ UNCHANGED from13
       \/ which = "sync_flag" /\ FL!Next /\ UNCHANGED from10
       \/ which = "scoped" /\ SC!Next /\ UNCHANGED from10
       \/ which = "cqueue" /\ CQ!Next /\ UNCHANGED v18
       \/ which = "scheduler" /\ SD!Next /\ UNCHANGED from13
       \/ which = "timer_list" /\ TL!Next

(* The fairness of the components, process by process: a behaviour has the *)
(* processes of one component only, so that one name stands for a process  *)
(* of each of them.                                                        *)

\* The steps of a call, a coroutine or a worker.
Call(c) ==
    /\ UNCHANGED which
    /\ \/ which = "rwlock" /\ RW!Step(c) /\ UNCHANGED from8
       \/ which = "condvar" /\ CV!ClientStep(c) /\ UNCHANGED from11
       \/ which = "wait_group" /\ WG!Step(c) /\ UNCHANGED from13
       \/ which = "sync_flag" /\ FL!Step(c) /\ UNCHANGED from10
       \/ c \in Coroutines /\ which = "scoped" /\ SC!Child(c) /\ UNCHANGED from10
       \/ c \in Coroutines /\ which = "cqueue" /\ CQ!Select(c) /\ UNCHANGED v18
       \/ c \in Coroutines /\ which = "timer_list" /\ TL!Call(c)
       \/ c \notin Coroutines /\ which = "timer_list" /\ TL!Tick
       \/ c = First /\ which = "scheduler" /\ SD!Worker(0) /\ UNCHANGED from13
       \/ c \in Wakers /\ which = "scheduler" /\ SD!Worker(1) /\ UNCHANGED from13
       \/ c \notin Wakers \cup {First} /\ which = "scheduler" /\ SD!WakeOne /\ UNCHANGED from13

\* The thread that is not a call: the timer thread, or whoever waits for the others.
Other ==
    /\ UNCHANGED which
    /\ \/ which = "rwlock" /\ RW!Repost /\ UNCHANGED from8
       \/ which = "wait_group" /\ WG!Repost /\ UNCHANGED from13
       \/ which = "scoped" /\ SC!Parent /\ UNCHANGED from10
       \/ which = "cqueue" /\ CQ!Owner /\ UNCHANGED v18
       \/ which = "scheduler" /\ SD!TimerThread /\ UNCHANGED from13
       \/ which = "timer_list" /\ TL!Thread

Fairness == WF_vars(Other) /\ \A c \in Calls : WF_vars(Call(c))

Spec == Init /\ [][Next]_vars /\ Fairness

-----------------------------------------------------------------------------
\* Every variable of every component keeps to its type.
TypeOK ==
    /\ which = "rwlock" => RW!TypeOK
    /\ which = "condvar" => CV!TypeOK
    /\ which = "wait_group" => WG!WgTypeOK
    /\ which = "sync_flag" => FL!TypeOK
    /\ which = "scoped" => SC!TypeOK
    /\ which = "cqueue" => CQ!TypeOK
    /\ which = "scheduler" => SD!TypeOK
    /\ which = "timer_list" => TL!TypeOK

\* rwlock.rs:150-204.  Whoever has a write guard has it alone: the first reader
\* locks for all of them and the last one unlocks, cancelled ones included.
Exclusion == which = "rwlock" => RW!Exclusion

\* rwlock.rs:93-105, 152-161, 190-196.  Every call of the RwLock comes to an end,
\* with cancelled readers and writers in between.
CallsEnd == []<>(which = "rwlock" => RW!AllEnded)

\* condvar.rs:68-83, 151-161.  A notification is not lost on a wait that timed out
\* or was cancelled, and not given to two waits.
NoLostNotify == which = "condvar" => CV!NoLostNotify

\* wait_group.rs:125-127, 136-138.  Every wait of a WaitGroup returns when the
\* other references are dropped, at whatever point of the wait that happens.
WaitEnds == []<>(which = "wait_group" => WG!AllReturned)

\* sync_flag.rs:69-92.  Once the flag is fired every wait comes back, those
\* included that looked at the flag before and registered after the fire.
FireWakesAll == []<>(which = "sync_flag" => FL!AllWoken)

\* wait_group.rs:116-128 and sync_flag.rs:85-104, 133.  No wait returns early: the
\* references are all dropped, and the flag is true exactly when fire has begun,
\* whatever the waits that time out or are cancelled do to its counter.
NoEarlyReturn ==
    /\ which = "wait_group" => WG!WaitsForAll
    /\ which = "sync_flag" => FL!FlagIsFire

\* scoped.rs:130-133.  When the scope is left none of its coroutines runs, also
\* when the body or a child panicked; a parent that was cancelled leaves at most
\* the one behind that it was joining and had marked as joined.  cqueue.rs:283-307:
\* none of the closures of an event queue runs when its drop has come to its end;
\* a panic of a closure or the cancellation of the owner may cut the drop short.
ScopeEncloses ==
    /\ which = "scoped" => SC!ScopeEncloses
    /\ which = "cqueue" => CQ!ClosuresOver

\* join.rs:41-63, cqueue.rs:133-147, 245-269.  A scope and the drop of an event
\* queue come to their end: no end of a coroutine and no event is missed, at
\* whatever point of the registration of the waiting parent it comes.
DropsEnd ==
    []<>/\ which = "scoped" => SC!ScopeLeft
        /\ which = "cqueue" => CQ!DropOver

\* scheduler.rs:71-87, 242-324.  While coroutines are ready the workers run one
\* again and again, although the parked mask names the wrong workers, wake-ups are
\* missed and an index into the global queue may be stale; except for a coroutine
\* that spawn_impl has pinned to a thread that is no worker (coroutine_impl.rs:326).
SomeReadyRuns == []<>(which = "scheduler" => SD!SomeRuns)

\* timeout_list.rs:144-261.  A timer that is added fires: its queue is on the heap,
\* or the call or the timer thread that saw it empty will put it there.
TimersFire == []<>(which = "timer_list" => TL!AllFired)
=============================================================================
