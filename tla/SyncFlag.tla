------------------------------ MODULE SyncFlag ------------------------------
(***************************************************************************)
(* std/sync/sync_flag.rs.  A process is one call of wait, wait_timeout or  *)
(* fire.  A wait that fails may call fire itself, and fire calls itself    *)
(* for every waiter that gave up: depth counts the calls of wakeup_all     *)
(* that are on the stack.                                                  *)
(***************************************************************************)
EXTENDS SyncBlocker, Integers, Sequences

CONSTANTS Firers,    \* the calls of fire; all others wait
          CanFail,   \* waits with a timeout, or made by a cancellable coroutine
          IsizeMax   \* isize::MAX, larger than the number of calls

VARIABLES
    cnt,       \* AtomicIsize: IsizeMax less the late waits, or minus the waits
    to_wake,   \* SegQueue of the waiters' blockers
    pc,
    target,    \* the blocker wakeup_all has popped
    ret,       \* where the outermost wakeup_all of a call returns to
    depth      \* nested calls of wakeup_all

flagVars == <<cnt, to_wake, pc, target, ret, depth>>
vars == <<flagVars, blockerVars>>

Ended == {"returned", "gave_up", "fired"}

TypeOK ==
    /\ cnt \in -IsizeMax .. IsizeMax
    /\ to_wake \in Seq(Calls)
    /\ target \in [Calls -> Calls]
    /\ ret \in [Calls -> Ended \cup {"park"}]
    /\ depth \in [Calls -> Nat]
    /\ pc \in [Calls -> Ended \cup {"idle", "push", "sub", "park", "is_unparked",
                   "set_release", "recheck", "retake", "fire", "pop", "unpark",
                   "store_unparked", "take_release"}]
    /\ BlockerTypeOK

Init ==
    /\ cnt = 0
    /\ to_wake = <<>>
    /\ target = [c \in Calls |-> c]
    /\ ret = [c \in Calls |-> "fired"]
    /\ depth = [c \in Calls |-> 0]
    /\ pc = [c \in Calls |-> IF c \in Firers THEN "fire" ELSE "idle"]
    /\ BlockerInit

Goto(c, l) == pc' = [pc EXCEPT ![c] = l]

\* Calls of fire and of wakeup_all that go on at l when they return.
Call(c, entry, l) ==
    /\ Goto(c, entry)
    /\ ret' = [ret EXCEPT ![c] = l]

IsFired == cnt > 0

-----------------------------------------------------------------------------
(* wait_timeout_impl.                                                      *)

TryFirst(c) ==
    /\ pc[c] = "idle"
    /\ Goto(c, IF IsFired THEN "returned" ELSE "push")
    /\ UNCHANGED <<cnt, to_wake, target, ret, depth, blockerVars>>

Push(c) ==
    /\ pc[c] = "push"
    /\ to_wake' = Append(to_wake, c)
    /\ Goto(c, "sub")
    /\ UNCHANGED <<cnt, target, ret, depth, blockerVars>>

\* Mutant: a wait that comes late relies on the fire it has missed.
FetchSubNoWake(c) ==
    /\ pc[c] = "sub"
    /\ cnt' = cnt - 1
    /\ Goto(c, "park")
    /\ UNCHANGED <<to_wake, target, ret, depth, blockerVars>>

\* A wait that finds the flag fired wakes all waiters, itself included.
FetchSub(c) ==
    /\ pc[c] = "sub"
    /\ cnt' = cnt - 1
    /\ IF IsFired
       THEN /\ Call(c, "pop", "park")
            /\ depth' = [depth EXCEPT ![c] = 1]
       ELSE Goto(c, "park") /\ UNCHANGED <<ret, depth>>
    /\ UNCHANGED <<to_wake, target, blockerVars>>

WaitParkOk(c) ==
    /\ pc[c] = "park"
    /\ ParkOk(c)
    /\ Goto(c, "returned")
    /\ UNCHANGED <<cnt, to_wake, target, ret, depth>>

WaitParkErr(c) ==
    /\ pc[c] = "park"
    /\ c \in CanFail
    /\ ParkErr(c)
    /\ Goto(c, "is_unparked")
    /\ UNCHANGED <<cnt, to_wake, target, ret, depth>>

IsUnparked(c) ==
    /\ pc[c] = "is_unparked"
    /\ IF unparked[c]
       THEN Call(c, "fire", "gave_up")
       ELSE Goto(c, "set_release") /\ UNCHANGED ret
    /\ UNCHANGED <<cnt, to_wake, target, depth, blockerVars>>

WaitSetRelease(c) ==
    /\ pc[c] = "set_release"
    /\ SetRelease(c)
    /\ Goto(c, "recheck")
    /\ UNCHANGED <<cnt, to_wake, target, ret, depth>>

\* Mutant: the failed wait always passes its wake-up on.
RecheckFires(c) ==
    /\ pc[c] = "recheck"
    /\ Goto(c, "retake")
    /\ UNCHANGED <<cnt, to_wake, target, ret, depth, blockerVars>>

Recheck(c) ==
    /\ pc[c] = "recheck"
    /\ Goto(c, IF unparked[c] THEN "retake" ELSE "gave_up")
    /\ UNCHANGED <<cnt, to_wake, target, ret, depth, blockerVars>>

Retake(c) ==
    /\ pc[c] = "retake"
    /\ TakeRelease(c)
    /\ IF release[c]
       THEN Call(c, "fire", "gave_up")
       ELSE Goto(c, "gave_up") /\ UNCHANGED ret
    /\ UNCHANGED <<cnt, to_wake, target, depth>>

-----------------------------------------------------------------------------
(* fire and wakeup_all.                                                    *)

Fire(c) ==
    /\ pc[c] = "fire"
    /\ cnt' = IsizeMax
    /\ depth' = [depth EXCEPT ![c] = @ + 1]
    /\ Goto(c, "pop")
    /\ UNCHANGED <<to_wake, target, ret, blockerVars>>

\* An empty queue ends the innermost wakeup_all.
Pop(c) ==
    /\ pc[c] = "pop"
    /\ IF to_wake = <<>>
       THEN /\ depth' = [depth EXCEPT ![c] = @ - 1]
            /\ Goto(c, IF depth[c] = 1 THEN ret[c] ELSE "pop")
            /\ UNCHANGED <<to_wake, target>>
       ELSE /\ target' = [target EXCEPT ![c] = Head(to_wake)]
            /\ to_wake' = Tail(to_wake)
            /\ Goto(c, "unpark")
            /\ UNCHANGED depth
    /\ UNCHANGED <<cnt, ret, blockerVars>>

Unpark(c) ==
    /\ pc[c] = "unpark"
    /\ BlockerUnpark(target[c])
    /\ Goto(c, "store_unparked")
    /\ UNCHANGED <<cnt, to_wake, target, ret, depth>>

UnparkStore(c) ==
    /\ pc[c] = "store_unparked"
    /\ StoreUnparked(target[c])
    /\ Goto(c, "take_release")
    /\ UNCHANGED <<cnt, to_wake, target, ret, depth>>

UnparkTakeRelease(c) ==
    /\ pc[c] = "take_release"
    /\ TakeRelease(target[c])
    /\ Goto(c, IF release[target[c]] THEN "fire" ELSE "pop")
    /\ UNCHANGED <<cnt, to_wake, target, ret, depth>>

Step(c) ==
    \/ TryFirst(c) \/ Push(c) \/ FetchSub(c) \/ WaitParkOk(c) \/ IsUnparked(c)
    \/ WaitSetRelease(c) \/ Recheck(c) \/ Retake(c) \/ Fire(c) \/ Pop(c)
    \/ Unpark(c) \/ UnparkStore(c) \/ UnparkTakeRelease(c)

Next == \E c \in Calls : Step(c) \/ WaitParkErr(c)

Fairness == \A c \in Calls : WF_vars(Step(c))

Spec == Init /\ [][Next]_vars /\ Fairness

-----------------------------------------------------------------------------
\* The code's fire has begun.
FireCalled == \E c \in Firers : pc[c] # "fire" \/ depth[c] > 0

\* sync_flag.rs:85, 87, 93-104, 133.  The flag is true exactly when some call
\* of fire has begun: waits that count themselves late do not reset it, and
\* waits that time out or are cancelled do not set it.
FlagIsFire == IsFired <=> FireCalled

\* Where every behaviour comes to: once fire is called no call is left waiting.
AllWoken == FireCalled => \A c \in Calls : pc[c] \in Ended
=============================================================================
