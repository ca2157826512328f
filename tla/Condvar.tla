------------------------------ MODULE Condvar ------------------------------
(***************************************************************************)
(* std/sync/condvar.rs.  A process is a call that holds the mutex and      *)
(* waits (wait, wait_timeout), or a call of notify_one or notify_all.  The *)
(* mutex is seen through SemphoreContract, as in module RwLock; inside     *)
(* wait_impl it is taken with cancellation disabled.  The actions that     *)
(* take a continuation are shared with the clients of the condition        *)
(* variable, of which WaitGroup is one.                                    *)
(***************************************************************************)
EXTENDS SyncBlocker, Integers, Sequences, FiniteSets

CONSTANTS Notifiers,   \* the calls of notify_one and notify_all; others wait
          CanFail      \* waits with a timeout, or made by a cancellable coroutine

VARIABLES
    mutex,     \* the mutex that belongs to the condition variable
    to_wake,   \* SegQueue of the waiters' blockers
    pc,
    target,    \* the blocker a notifier has popped
    result,    \* what park returned, for each wait
    ret,       \* where notify_one returns to
    note       \* history: what became of the notify_one each wait was given

cvVars == <<mutex, to_wake, pc, target, result, ret, note>>
vars == <<cvVars, blockerVars>>

Mutex == INSTANCE SemphoreContract WITH sem <- mutex, Waiters <- Calls, InitVal <- 1

Ended == {"returned", "timed_out", "canceled", "notified"}

\* The steps of wait_impl and of the notifies; clients add their own.
WaitLabels ==
    {"push", "unlock", "park", "lock", "lock_reg", "lock_park", "is_unparked",
     "set_release", "recheck", "retake", "cancel_unlock"}
NotifyLabels == {"pop", "unpark", "store_unparked", "take_release", "pop_all",
                 "unpark_all", "store_unparked_all"}

TypeOK ==
    /\ Mutex!TypeOK
    /\ to_wake \in Seq(Calls)
    /\ target \in [Calls -> Calls]
    /\ result \in [Calls -> {"ok", "timed_out", "canceled"}]
    /\ note \in [Calls -> {"none", "one", "passed", "twice"}]
    /\ BlockerTypeOK

CvInit ==
    /\ mutex = Mutex!New
    /\ to_wake = <<>>
    /\ target = [c \in Calls |-> c]
    /\ result = [c \in Calls |-> "ok"]
    /\ ret = [c \in Calls |-> "notified"]
    /\ note = [c \in Calls |-> "none"]
    /\ BlockerInit

Goto(c, l) == pc' = [pc EXCEPT ![c] = l]

-----------------------------------------------------------------------------
(* The mutex, for a call at label l.                                       *)

LockTry(c, from, got, wait) ==
    /\ pc[c] = from
    /\ \/ Mutex!TryWait /\ Goto(c, got)
       \/ Mutex!Value = 0 /\ Goto(c, wait) /\ UNCHANGED mutex
    /\ UNCHANGED <<to_wake, target, result, ret, note, blockerVars>>

LockRegister(c, from, wait) ==
    /\ pc[c] = from
    /\ Mutex!Register(c)
    /\ Goto(c, wait)
    /\ UNCHANGED <<to_wake, target, result, ret, note, blockerVars>>

LockReturn(c, from, got) ==
    /\ pc[c] = from
    /\ Mutex!Return(c)
    /\ Goto(c, got)
    /\ UNCHANGED <<to_wake, target, result, ret, note, blockerVars>>

Unlock(c, from, to) ==
    /\ pc[c] = from
    /\ Mutex!Post
    /\ Goto(c, to)
    /\ UNCHANGED <<to_wake, target, result, ret, note, blockerVars>>

-----------------------------------------------------------------------------
(* wait_impl.                                                              *)

\* SyncBlocker::current, then the registration, with the mutex held.
Push(c) ==
    /\ pc[c] = "push"
    /\ to_wake' = Append(to_wake, c)
    /\ token' = [token EXCEPT ![c] = FALSE]
    /\ unparked' = [unparked EXCEPT ![c] = FALSE]
    /\ release' = [release EXCEPT ![c] = FALSE]
    /\ Goto(c, "unlock")
    /\ UNCHANGED <<mutex, target, result, ret, note>>

ParkReturns(c) ==
    /\ pc[c] = "park"
    /\ ParkOk(c)
    /\ result' = [result EXCEPT ![c] = "ok"]
    /\ Goto(c, "lock")
    /\ UNCHANGED <<mutex, to_wake, target, ret, note>>

ParkFails(c, err) ==
    /\ pc[c] = "park"
    /\ ParkErr(c)
    /\ result' = [result EXCEPT ![c] = err]
    /\ Goto(c, "lock")
    /\ UNCHANGED <<mutex, to_wake, target, ret, note>>

\* Where a wait goes that has the mutex again and has settled its failure.
Settled(c) ==
    CASE result[c] = "ok" -> "returned"
      [] result[c] = "timed_out" -> "timed_out"
      [] OTHER -> "cancel_unlock"

Relocked(c) == IF result[c] = "ok" THEN "returned" ELSE "is_unparked"

Passed(x) == IF note[x] = "none" THEN "none" ELSE IF note[x] = "one" THEN "passed" ELSE "twice"

\* A failed wait that was notified passes the notification on.
PassOn(c, notified, other) ==
    /\ note' = IF notified THEN [note EXCEPT ![c] = Passed(c)] ELSE note
    /\ Goto(c, IF notified THEN "pop" ELSE other)
    /\ ret' = IF notified THEN [ret EXCEPT ![c] = Settled(c)] ELSE ret

IsUnparked(c) ==
    /\ pc[c] = "is_unparked"
    /\ PassOn(c, unparked[c], "set_release")
    /\ UNCHANGED <<mutex, to_wake, target, result, blockerVars>>

WaitSetRelease(c) ==
    /\ pc[c] = "set_release"
    /\ SetRelease(c)
    /\ Goto(c, "recheck")
    /\ UNCHANGED <<mutex, to_wake, target, result, ret, note>>

Recheck(c) ==
    /\ pc[c] = "recheck"
    /\ Goto(c, IF unparked[c] THEN "retake" ELSE Settled(c))
    /\ UNCHANGED <<mutex, to_wake, target, result, ret, note, blockerVars>>

\* Mutant: the waiter takes its flag back and does not notify.
RetakeForgets(c) ==
    /\ pc[c] = "retake"
    /\ TakeRelease(c)
    /\ PassOn(c, FALSE, Settled(c))
    /\ UNCHANGED <<mutex, to_wake, target, result>>

Retake(c) ==
    /\ pc[c] = "retake"
    /\ TakeRelease(c)
    /\ PassOn(c, release[c], Settled(c))
    /\ UNCHANGED <<mutex, to_wake, target, result>>

WaitImpl(c) ==
    \/ Push(c) \/ Unlock(c, "unlock", "park") \/ ParkReturns(c)
    \/ LockTry(c, "lock", Relocked(c), "lock_reg")
    \/ LockRegister(c, "lock_reg", "lock_park")
    \/ LockReturn(c, "lock_park", Relocked(c))
    \/ IsUnparked(c) \/ WaitSetRelease(c) \/ Recheck(c) \/ Retake(c)
    \/ Unlock(c, "cancel_unlock", "canceled")

-----------------------------------------------------------------------------
(* notify_one and notify_all.                                              *)

PopOne(c) ==
    /\ pc[c] = "pop"
    /\ IF to_wake = <<>>
       THEN Goto(c, ret[c]) /\ UNCHANGED <<target, to_wake, note>>
       ELSE /\ target' = [target EXCEPT ![c] = Head(to_wake)]
            /\ to_wake' = Tail(to_wake)
            /\ note' = [note EXCEPT ![Head(to_wake)] = "one"]
            /\ Goto(c, "unpark")
    /\ UNCHANGED <<mutex, result, ret, blockerVars>>

PopAll(c, done) ==
    /\ pc[c] = "pop_all"
    /\ IF to_wake = <<>>
       THEN Goto(c, done) /\ UNCHANGED <<target, to_wake>>
       ELSE /\ target' = [target EXCEPT ![c] = Head(to_wake)]
            /\ to_wake' = Tail(to_wake)
            /\ Goto(c, "unpark_all")
    /\ UNCHANGED <<mutex, result, ret, note, blockerVars>>

NotifyUnpark(c) ==
    /\ pc[c] \in {"unpark", "unpark_all"}
    /\ BlockerUnpark(target[c])
    /\ Goto(c, IF pc[c] = "unpark" THEN "store_unparked" ELSE "store_unparked_all")
    /\ UNCHANGED <<mutex, to_wake, target, result, ret, note>>

\* notify_all does not look at the release flag.
NotifyStore(c) ==
    /\ pc[c] \in {"store_unparked", "store_unparked_all"}
    /\ StoreUnparked(target[c])
    /\ Goto(c, IF pc[c] = "store_unparked" THEN "take_release" ELSE "pop_all")
    /\ UNCHANGED <<mutex, to_wake, target, result, ret, note>>

\* Mutant: the notification of a wait that gave up is dropped.
NotifyForgetsRelease(c) ==
    /\ pc[c] = "take_release"
    /\ TakeRelease(target[c])
    /\ Goto(c, ret[c])
    /\ UNCHANGED <<mutex, to_wake, target, result, ret, note>>

NotifyTakeRelease(c) ==
    /\ pc[c] = "take_release"
    /\ TakeRelease(target[c])
    /\ Goto(c, IF release[target[c]] THEN "pop" ELSE ret[c])
    /\ note' = IF release[target[c]] THEN [note EXCEPT ![target[c]] = Passed(target[c])] ELSE note
    /\ UNCHANGED <<mutex, to_wake, target, result, ret>>

Notify(c) == PopOne(c) \/ NotifyUnpark(c) \/ NotifyStore(c) \/ NotifyTakeRelease(c)

-----------------------------------------------------------------------------
(* A plain client: waiters that take the mutex, wait once and release it,  *)
(* and notifiers.                                                          *)

ClientEnded == {"woken", "gave_up", "canceled", "notified"}

ClientInit ==
    /\ CvInit
    /\ pc = [c \in Calls |-> "idle"]

ClientStep(c) ==
    \/ c \notin Notifiers /\ LockTry(c, "idle", "push", "first_reg")
    \/ LockRegister(c, "first_reg", "first_park")
    \/ LockReturn(c, "first_park", "push")
    \/ WaitImpl(c)
    \/ Unlock(c, "returned", "woken")
    \/ Unlock(c, "timed_out", "gave_up")
    \/ /\ c \in Notifiers /\ pc[c] = "idle"
       /\ \E l \in {"pop", "pop_all"} : Goto(c, l)
       /\ UNCHANGED <<mutex, to_wake, target, result, ret, note, blockerVars>>
    \/ Notify(c) \/ PopAll(c, "notified")

ClientFail(c) ==
    /\ c \in CanFail
    /\ \E err \in {"timed_out", "canceled"} : ParkFails(c, err)

\* Only waits are left that nobody notifies.
ClientQuiet ==
    \A c \in Calls : pc[c] \in ClientEnded \/ (pc[c] = "park" /\ ~token[c])

ClientNext ==
    \/ \E c \in Calls : ClientStep(c) \/ ClientFail(c)
    \/ ClientQuiet /\ UNCHANGED vars

ClientSpec ==
    ClientInit /\ [][ClientNext]_vars /\ \A c \in Calls : WF_vars(ClientStep(c))

\* condvar.rs:68-83, 151-161.  A notification is not lost on a wait that timed
\* out or was cancelled, and not multiplied: notify_one makes the wait it finds
\* return, or either that wait or the notifier notifies another one, not both.
NoLostNotify ==
    \A c \in Calls :
        /\ note[c] # "twice"
        /\ ClientQuiet /\ note[c] = "one" => pc[c] = "woken"
=============================================================================
