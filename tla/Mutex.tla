------------------------------- MODULE Mutex -------------------------------
(***************************************************************************)
(* std/sync/mutex.rs with the poison flag of std/sync/poison.rs.           *)
(*                                                                         *)
(* The mutex cannot tell its callers apart, so the processes of the model  *)
(* are calls: one call of lock or try_lock, the life of the guard it       *)
(* returns, and the guard's drop.  A coroutine that locks twice is two     *)
(* calls, which the model may also interleave more freely than the         *)
(* coroutine would.                                                        *)
(*                                                                         *)
(* Each step is one atomic operation on shared memory.  A compare_exchange *)
(* loop is one step; so is the load followed by compare_exchange of        *)
(* try_lock, because the call fails in the same way whether the load or    *)
(* the exchange saw the lock taken.  to_wake is the mpsc_list queue, push  *)
(* and pop being single steps.                                             *)
(***************************************************************************)
EXTENDS SyncBlocker, Integers, Sequences, FiniteSets, Functions

CONSTANTS Cancelable,  \* calls made by coroutines that may be cancelled
          Disabled     \* those whose coroutine disabled cancellation

ASSUME MutexAssumption ==
    /\ IsFiniteSet(Calls)
    /\ Cancelable \subseteq Calls
    /\ Disabled \subseteq Cancelable

VARIABLES
    cnt,       \* AtomicUsize: the holder and the registered waiters
    to_wake,   \* queue of the waiters' blockers
    failed,    \* the poison flag
    pc,        \* where each call is
    target,    \* the blocker a call has popped and is unparking
    ret,       \* where unlock returns to
    saw        \* the poison flag as MutexGuard::new read it

mutexVars == <<cnt, to_wake, failed>>
callVars == <<pc, target, ret, saw>>
vars == <<cnt, to_wake, failed, pc, target, ret, saw, token, unparked, release>>

\* States in which a call has returned for good.
Ended == {"done", "would_block", "canceled"}

Labels == Ended \cup
    {"idle", "push", "fetch_add", "pop", "unpark", "store_unparked",
     "take_release", "unlock", "park", "is_unparked", "set_release",
     "recheck", "retake", "guard", "held"}

TypeOK ==
    /\ cnt \in Nat
    /\ to_wake \in Seq(Calls)
    /\ failed \in BOOLEAN
    /\ pc \in [Calls -> Labels]
    /\ target \in [Calls -> Calls]
    /\ ret \in [Calls -> {"park", "done", "canceled"}]
    /\ saw \in [Calls -> BOOLEAN]
    /\ BlockerTypeOK

Init ==
    /\ cnt = 0
    /\ to_wake = <<>>
    /\ failed = FALSE
    /\ pc = [c \in Calls |-> "idle"]
    /\ target = [c \in Calls |-> c]
    /\ ret = [c \in Calls |-> "park"]
    /\ saw = [c \in Calls |-> FALSE]
    /\ BlockerInit

Goto(c, l) == pc' = [pc EXCEPT ![c] = l]

-----------------------------------------------------------------------------
(* Acquiring.                                                              *)

\* try_lock succeeds: in a call of try_lock, or as the first try of lock.
TryLockOk(c) ==
    /\ pc[c] = "idle"
    /\ cnt = 0
    /\ cnt' = 1
    /\ Goto(c, "guard")
    /\ UNCHANGED <<to_wake, failed, target, ret, saw, blockerVars>>

TryLockWouldBlock(c) ==
    /\ pc[c] = "idle"
    /\ cnt # 0
    /\ Goto(c, "would_block")
    /\ UNCHANGED <<mutexVars, target, ret, saw, blockerVars>>

\* lock whose try_lock said WouldBlock goes on to register its blocker.
LockSlow(c) ==
    /\ pc[c] = "idle"
    /\ cnt # 0
    /\ Goto(c, "push")
    /\ UNCHANGED <<mutexVars, target, ret, saw, blockerVars>>

Push(c) ==
    /\ pc[c] = "push"
    /\ to_wake' = Append(to_wake, c)
    /\ Goto(c, "fetch_add")
    /\ UNCHANGED <<cnt, failed, target, ret, saw, blockerVars>>

\* Mutant: the second to count itself also wakes a waiter.
FetchAddSecondWakes(c) ==
    /\ pc[c] = "fetch_add"
    /\ cnt' = cnt + 1
    /\ Goto(c, IF cnt <= 1 THEN "pop" ELSE "park")
    /\ UNCHANGED <<to_wake, failed, target, ret, saw, blockerVars>>

\* The first to count itself on a free lock wakes the first waiter.
FetchAdd(c) ==
    /\ pc[c] = "fetch_add"
    /\ cnt' = cnt + 1
    /\ Goto(c, IF cnt = 0 THEN "pop" ELSE "park")
    /\ UNCHANGED <<to_wake, failed, target, ret, saw, blockerVars>>

LockParkOk(c) ==
    /\ pc[c] = "park"
    /\ ParkOk(c)
    /\ Goto(c, "guard")
    /\ UNCHANGED <<mutexVars, target, ret, saw>>

LockParkCanceled(c) ==
    /\ pc[c] = "park"
    /\ c \in Cancelable
    /\ ParkErr(c)
    /\ Goto(c, "is_unparked")
    /\ UNCHANGED <<mutexVars, target, ret, saw>>

\* What a cancelled call does with the lock it was given: keep it when
\* cancellation is disabled (b_ignore), else unlock and panic.
GotWhileCanceled(c) ==
    /\ Goto(c, IF c \in Disabled THEN "guard" ELSE "unlock")
    /\ ret' = [ret EXCEPT ![c] = "canceled"]

\* What it does without the lock: park again, or panic.
NotGotWhileCanceled(c) ==
    /\ Goto(c, IF c \in Disabled THEN "park" ELSE "canceled")
    /\ UNCHANGED ret

IsUnparked(c) ==
    /\ pc[c] = "is_unparked"
    /\ IF unparked[c] THEN GotWhileCanceled(c)
                      ELSE Goto(c, "set_release") /\ UNCHANGED ret
    /\ UNCHANGED <<mutexVars, target, saw, blockerVars>>

\* Mutant: no second look at unparked after raising the release flag.
LockSetReleaseNoRecheck(c) ==
    /\ pc[c] = "set_release"
    /\ SetRelease(c)
    /\ Goto(c, "canceled")
    /\ UNCHANGED <<mutexVars, target, ret, saw>>

LockSetRelease(c) ==
    /\ pc[c] = "set_release"
    /\ SetRelease(c)
    /\ Goto(c, "recheck")
    /\ UNCHANGED <<mutexVars, target, ret, saw>>

Recheck(c) ==
    /\ pc[c] = "recheck"
    /\ IF unparked[c] THEN Goto(c, "retake") /\ UNCHANGED ret
                      ELSE NotGotWhileCanceled(c)
    /\ UNCHANGED <<mutexVars, target, saw, blockerVars>>

\* Mutant: a cancelled call that sees the late unpark goes on with the lock.
RetakeThenLock(c) ==
    /\ pc[c] = "retake"
    /\ TakeRelease(c)
    /\ Goto(c, "guard")
    /\ UNCHANGED <<mutexVars, target, ret, saw>>

Retake(c) ==
    /\ pc[c] = "retake"
    /\ TakeRelease(c)
    /\ IF release[c] THEN GotWhileCanceled(c) ELSE NotGotWhileCanceled(c)
    /\ UNCHANGED <<mutexVars, target, saw>>

\* Mutant: the guard does not look at the poison flag.
GuardNewUnchecked(c) ==
    /\ pc[c] = "guard"
    /\ Goto(c, "held")
    /\ UNCHANGED <<mutexVars, target, ret, saw, blockerVars>>

\* MutexGuard::new: the guard records whether the lock is poisoned.
GuardNew(c) ==
    /\ pc[c] = "guard"
    /\ saw' = [saw EXCEPT ![c] = failed]
    /\ Goto(c, "held")
    /\ UNCHANGED <<mutexVars, target, ret, blockerVars>>

-----------------------------------------------------------------------------
(* Releasing.  unlock, pop and unpark_one are also run by a first grabber  *)
(* and, through unpark_one, on behalf of a waiter that gave up.            *)

\* poison.done: the lock is poisoned when the holder began to panic while it
\* held the lock, for a reason other than cancellation.
PoisonDone == failed' \in {failed, TRUE}

\* Drop of the guard: first the poison flag, then unlock.
GuardDrop(c) ==
    /\ pc[c] = "held"
    /\ PoisonDone
    /\ ret' = [ret EXCEPT ![c] = "done"]
    /\ Goto(c, "unlock")
    /\ UNCHANGED <<cnt, to_wake, target, saw, blockerVars>>

\* Mutant: off by one in the test for waiters.
UnlockAlwaysPops(c) ==
    /\ pc[c] = "unlock"
    /\ cnt' = cnt - 1
    /\ Goto(c, IF cnt > 0 THEN "pop" ELSE ret[c])
    /\ UNCHANGED <<to_wake, failed, target, ret, saw, blockerVars>>

Unlock(c) ==
    /\ pc[c] = "unlock"
    /\ cnt' = cnt - 1
    /\ Goto(c, IF cnt > 1 THEN "pop" ELSE ret[c])
    /\ UNCHANGED <<to_wake, failed, target, ret, saw, blockerVars>>

Pop(c) ==
    /\ pc[c] = "pop"
    /\ to_wake # <<>>
    /\ target' = [target EXCEPT ![c] = Head(to_wake)]
    /\ to_wake' = Tail(to_wake)
    /\ Goto(c, "unpark")
    /\ UNCHANGED <<cnt, failed, ret, saw, blockerVars>>

Unpark(c) ==
    /\ pc[c] = "unpark"
    /\ BlockerUnpark(target[c])
    /\ Goto(c, "store_unparked")
    /\ UNCHANGED <<mutexVars, target, ret, saw>>

UnparkStore(c) ==
    /\ pc[c] = "store_unparked"
    /\ StoreUnparked(target[c])
    /\ Goto(c, "take_release")
    /\ UNCHANGED <<mutexVars, target, ret, saw>>

\* Mutant: the release flag is read, not taken.
UnparkReadRelease(c) ==
    /\ pc[c] = "take_release"
    /\ Goto(c, IF release[target[c]] THEN "unlock" ELSE ret[c])
    /\ UNCHANGED <<mutexVars, target, ret, saw, blockerVars>>

UnparkTakeRelease(c) ==
    /\ pc[c] = "take_release"
    /\ TakeRelease(target[c])
    /\ Goto(c, IF release[target[c]] THEN "unlock" ELSE ret[c])
    /\ UNCHANGED <<mutexVars, target, ret, saw>>

-----------------------------------------------------------------------------
Step(c) ==
    \/ TryLockOk(c) \/ TryLockWouldBlock(c) \/ LockSlow(c)
    \/ Push(c) \/ FetchAdd(c)
    \/ LockParkOk(c) \/ IsUnparked(c) \/ LockSetRelease(c) \/ Recheck(c)
    \/ Retake(c) \/ GuardNew(c) \/ GuardDrop(c)
    \/ Unlock(c) \/ Pop(c) \/ Unpark(c) \/ UnparkStore(c)
    \/ UnparkTakeRelease(c)

\* Every call has returned; nothing is left to do.
AllEnded ==
    /\ \A c \in Calls : pc[c] \in Ended
    /\ UNCHANGED vars

Next == (\E c \in Calls : Step(c) \/ LockParkCanceled(c)) \/ AllEnded

Spec == Init /\ [][Next]_vars

\* The scheduler runs every ready coroutine and every thread, and a holder
\* drops its guard.  Cancellation is not something anyone can count on.
FairSpec == Spec /\ \A c \in Calls : WF_vars(Step(c))

-----------------------------------------------------------------------------
Holders == {c \in Calls : pc[c] \in {"guard", "held"}}

\* mutex.rs:61-122, 146-150.  At most one call is between acquiring the lock
\* and its unlock, whatever the interleaving of lockers, unlockers and
\* cancelled waiters.
MutualExclusion ==
    \A c, d \in Holders : c = d

\* mutex.rs:73-79, 147-149 with mpsc_list.rs:22-24.  The waiter queue is
\* single-consumer: two calls never pop it at the same time.
OnePopper ==
    \A c, d \in Calls : pc[c] = "pop" /\ pc[d] = "pop" => c = d

\* mutex.rs:78.  A call that decided to wake a waiter finds one: the expect
\* "got null blocker!" does not panic, and unlock does not drop the lock
\* on the floor when pop returns None.
PopFindsBlocker ==
    \A c \in Calls : pc[c] = "pop" => to_wake # <<>>

\* poison.rs:20-45, mutex.rs:217-225.  A holder whose guard says the data is
\* not poisoned can rely on it: the flag was set before the unlock of the
\* holder that panicked, and nobody else sets it while the lock is held.
PoisonReported ==
    \A c \in Calls : pc[c] = "held" /\ ~saw[c] => ~failed

\* mutex.rs:61-122.  A registered lock call gets the lock or is cancelled:
\* no wake-up and no hand-off is lost.
LockReturns ==
    \A c \in Calls : pc[c] = "push" ~> pc[c] \in {"held", "canceled"}

\* What the lock promises, abstracting from queue, blockers and counters.
status ==
    [c \in Calls |->
        IF pc[c] = "idle" THEN "idle"
        ELSE IF c \in Holders THEN "held"
        ELSE IF pc[c] \in Ended \/ ret[c] # "park" THEN "gone"
        ELSE "waiting"]

Lock == INSTANCE AbstractLock WITH status <- status

\* mutex.rs:61-150 implements an exclusive lock: a call goes from idle to
\* waiting to held to gone, and becomes held only when no call is.
ImplementsLock == Lock!Spec

-----------------------------------------------------------------------------
(***************************************************************************)
(* The inductive invariant.  Whenever the lock is taken, exactly one call  *)
(* is responsible for it (has the baton): the holder, a call that is       *)
(* unlocking or looking for a waiter, or a waiter that has been unparked.  *)
(* A waiter that gave up keeps the baton only as long as its release flag  *)
(* is up: whoever takes the flag down, waiter or waker, takes the baton.   *)
(***************************************************************************)
Queued == Range(to_wake)

\* Waiters in the queue that have counted themselves.
Counted == {x \in Queued : pc[x] # "fetch_add"}

\* x has been unparked by an unlocker.
Handed(x) ==
    \/ unparked[x]
    \/ \E c \in Calls : pc[c] = "store_unparked" /\ target[c] = x

\* An unlocker has popped x and is about to unpark it.
Targeted(x) == \E c \in Calls : pc[c] = "unpark" /\ target[c] = x

Baton(x) ==
    \/ pc[x] \in {"guard", "held", "unlock", "pop", "unpark"}
    \/ /\ Handed(x)
       /\ \/ /\ ret[x] = "park"
             /\ pc[x] \in {"fetch_add", "store_unparked", "take_release",
                           "park", "is_unparked", "set_release"}
          \/ /\ release[x]
             /\ pc[x] \in {"recheck", "retake", "canceled"}

\* The baton's own unit of cnt has been given up (by an unlock that goes on
\* to pop) or not yet been taken (by a waiter that has not counted itself).
Owed(x) ==
    \/ pc[x] \in {"pop", "fetch_add"}
    \/ pc[x] = "unpark" /\ pc[target[x]] = "fetch_add"

OneBaton == \A x, y \in Calls : Baton(x) /\ Baton(y) => x = y

\* cnt counts the registered waiters and the baton.
CntOK ==
    /\ (\A x \in Calls : ~Baton(x)) => cnt = 0 /\ Counted = {}
    /\ \A x \in Calls :
          Baton(x) => IF Owed(x)
                      THEN cnt = Cardinality(Counted) /\ Counted # {}
                      ELSE cnt = Cardinality(Counted) + 1

\* A blocker is in the queue at most once, and not after it was unparked.
QueueOK ==
    /\ IsInjective(to_wake)
    /\ \A x \in Queued : ~Handed(x) /\ ~Targeted(x)

\* x is a waiter: its blocker has been pushed, and x still has to wait, or
\* gave up waiting.
Registered(x) ==
    \/ pc[x] \in {"fetch_add", "park", "is_unparked", "set_release",
                  "recheck", "retake", "canceled"}
    \/ /\ ret[x] = "park"
       /\ pc[x] \in {"pop", "unpark", "store_unparked", "take_release", "unlock"}

\* A waiter that was not unparked is in the queue, or was just popped.
RegisteredOK ==
    \A x \in Calls :
        Registered(x) /\ ~Handed(x) => x \in Queued \/ Targeted(x)

\* Where a waiter can be when it is unparked.
Unparkable(x) ==
    /\ ret[x] = "park"
    /\ pc[x] \in {"fetch_add", "store_unparked", "take_release", "park",
                  "is_unparked", "set_release", "recheck", "canceled"}

\* The call an unlocker is about to unpark is a waiter that was not unparked.
TargetOK ==
    \A c \in Calls :
        /\ pc[c] = "unpark" =>
              /\ ~Handed(target[c])
              /\ IF target[c] = c THEN ret[c] = "park" ELSE Unparkable(target[c])
        /\ pc[c] = "take_release" => unparked[target[c]]

\* Which flags go with which step of a call.
FlagsOK(x) ==
    /\ token[x] => Handed(x)
    /\ release[x] => pc[x] \in {"recheck", "retake", "canceled"}
    /\ pc[x] \in {"recheck", "canceled"} /\ ~Handed(x) => release[x]
    /\ pc[x] = "retake" \/ ret[x] = "canceled" => unparked[x]
    /\ pc[x] \in {"idle", "push"} => ~Handed(x) /\ ~Targeted(x)
    /\ pc[x] \in {"idle", "push", "fetch_add", "park", "is_unparked",
                  "set_release", "recheck", "retake"} => ret[x] = "park"
    /\ pc[x] \in {"pop", "unpark", "unlock"} /\ ret[x] = "park" => ~Handed(x)
    /\ x \in Queued =>
          /\ ret[x] = "park"
          /\ pc[x] \notin {"idle", "push", "guard", "held", "done", "would_block"}

CallOK == \A x \in Calls : FlagsOK(x)

\* mutex.rs:61-150.  The baton argument above, as one inductive invariant.
Inv ==
    /\ TypeOK
    /\ OneBaton
    /\ CntOK
    /\ QueueOK
    /\ RegisteredOK
    /\ TargetOK
    /\ CallOK
=============================================================================
