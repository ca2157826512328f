------------------------------ MODULE Semphore ------------------------------
(***************************************************************************)
(* std/sync/semphore.rs.  As in module Mutex the processes are calls: one  *)
(* call of wait, wait_timeout, try_wait or post.  to_wake is an mpmc       *)
(* queue, so that several calls may pop it at the same time.               *)
(***************************************************************************)
EXTENDS SyncBlocker, Integers, Sequences, FiniteSets, Functions

CONSTANTS Posters,   \* the calls of post; the others are waits
          CanFail,   \* waits with a timeout, or made by a cancellable coroutine
          InitVal    \* the argument of new

ASSUME SemphoreAssumption ==
    /\ IsFiniteSet(Calls)
    /\ Posters \subseteq Calls
    /\ CanFail \subseteq Calls \ Posters
    /\ InitVal \in Nat

VARIABLES
    cnt,       \* AtomicIsize: units available, or minus the waiting calls
    to_wake,   \* queue of the waiters' blockers
    pc,        \* where each call is
    target,    \* the blocker a call has popped and is unparking
    ret        \* where post and wakeup_one return to

vars == <<cnt, to_wake, pc, target, ret, token, unparked, release>>

\* States in which a call has returned: try_wait or the first try of wait
\* took a unit, park returned Ok, the wait failed, or the post is done.
Ended == {"taken", "granted", "would_block", "failed", "posted"}

Labels == Ended \cup
    {"idle", "push", "fetch_sub", "pop", "unpark", "store_unparked",
     "take_release", "post", "park", "is_unparked", "set_release",
     "recheck", "retake"}

TypeOK ==
    /\ cnt \in Int
    /\ to_wake \in Seq(Calls)
    /\ pc \in [Calls -> Labels]
    /\ target \in [Calls -> Calls]
    /\ ret \in [Calls -> {"park", "failed", "posted"}]
    /\ BlockerTypeOK

Init ==
    /\ cnt = InitVal
    /\ to_wake = <<>>
    /\ pc = [c \in Calls |-> "idle"]
    /\ target = [c \in Calls |-> c]
    /\ ret = [c \in Calls |-> IF c \in Posters THEN "posted" ELSE "park"]
    /\ BlockerInit

Goto(c, l) == pc' = [pc EXCEPT ![c] = l]

-----------------------------------------------------------------------------
(* Waiting.                                                                *)

\* Mutant: the unit is taken without looking at how many there are.
TryWaitUnchecked(c) ==
    /\ pc[c] = "idle" /\ c \notin Posters
    /\ cnt >= 0
    /\ cnt' = cnt - 1
    /\ Goto(c, "taken")
    /\ UNCHANGED <<to_wake, target, ret, blockerVars>>

\* try_wait takes a unit: in a call of try_wait, or as the first try of wait.
TryWaitOk(c) ==
    /\ pc[c] = "idle" /\ c \notin Posters
    /\ cnt > 0
    /\ cnt' = cnt - 1
    /\ Goto(c, "taken")
    /\ UNCHANGED <<to_wake, target, ret, blockerVars>>

\* try_wait finds no unit and returns false, or wait goes on to register.
TryWaitFails(c) ==
    /\ pc[c] = "idle" /\ c \notin Posters
    /\ cnt <= 0
    /\ \E l \in {"would_block", "push"} : Goto(c, l)
    /\ UNCHANGED <<cnt, to_wake, target, ret, blockerVars>>

Push(c) ==
    /\ pc[c] = "push"
    /\ to_wake' = Append(to_wake, c)
    /\ Goto(c, "fetch_sub")
    /\ UNCHANGED <<cnt, target, ret, blockerVars>>

\* Mutant: a unit that was posted after try_wait is not passed on.
FetchSubNoWake(c) ==
    /\ pc[c] = "fetch_sub"
    /\ cnt' = cnt - 1
    /\ Goto(c, "park")
    /\ UNCHANGED <<to_wake, target, ret, blockerVars>>

\* A waiter that counts itself and took a unit with it wakes one waiter.
FetchSub(c) ==
    /\ pc[c] = "fetch_sub"
    /\ cnt' = cnt - 1
    /\ Goto(c, IF cnt > 0 THEN "pop" ELSE "park")
    /\ UNCHANGED <<to_wake, target, ret, blockerVars>>

WaitParkOk(c) ==
    /\ pc[c] = "park"
    /\ ParkOk(c)
    /\ Goto(c, "granted")
    /\ UNCHANGED <<cnt, to_wake, target, ret>>

\* park returns Err(Timeout) or Err(Canceled); both leave without a unit.
WaitParkErr(c) ==
    /\ pc[c] = "park"
    /\ c \in CanFail
    /\ ParkErr(c)
    /\ Goto(c, "is_unparked")
    /\ UNCHANGED <<cnt, to_wake, target, ret>>

\* The failed wait was given a unit and posts it, or was not.
GiveBack(c, given, other) ==
    /\ Goto(c, IF given THEN "post" ELSE other)
    /\ ret' = IF given THEN [ret EXCEPT ![c] = "failed"] ELSE ret

IsUnparked(c) ==
    /\ pc[c] = "is_unparked"
    /\ GiveBack(c, unparked[c], "set_release")
    /\ UNCHANGED <<cnt, to_wake, target, blockerVars>>

WaitSetRelease(c) ==
    /\ pc[c] = "set_release"
    /\ SetRelease(c)
    /\ Goto(c, "recheck")
    /\ UNCHANGED <<cnt, to_wake, target, ret>>

Recheck(c) ==
    /\ pc[c] = "recheck"
    /\ Goto(c, IF unparked[c] THEN "retake" ELSE "failed")
    /\ UNCHANGED <<cnt, to_wake, target, ret, blockerVars>>

\* Mutant: the waiter posts without asking who owns the unit.
RetakeIgnoringRelease(c) ==
    /\ pc[c] = "retake"
    /\ TakeRelease(c)
    /\ GiveBack(c, TRUE, "failed")
    /\ UNCHANGED <<cnt, to_wake, target>>

Retake(c) ==
    /\ pc[c] = "retake"
    /\ TakeRelease(c)
    /\ GiveBack(c, release[c], "failed")
    /\ UNCHANGED <<cnt, to_wake, target>>

-----------------------------------------------------------------------------
(* Posting.  post and wakeup_one are also run by waiters: to pass on a     *)
(* unit, and to give one back.                                             *)

\* A call of post starts, or a call has a unit to give back.
AtPost(c) == pc[c] = "post" \/ (pc[c] = "idle" /\ c \in Posters)

\* Mutant: off by one in the test for waiters.
PostWakesAtZero(c) ==
    /\ AtPost(c)
    /\ cnt' = cnt + 1
    /\ Goto(c, IF cnt <= 0 THEN "pop" ELSE ret[c])
    /\ UNCHANGED <<to_wake, target, ret, blockerVars>>

Post(c) ==
    /\ AtPost(c)
    /\ cnt' = cnt + 1
    /\ Goto(c, IF cnt < 0 THEN "pop" ELSE ret[c])
    /\ UNCHANGED <<to_wake, target, ret, blockerVars>>

Pop(c) ==
    /\ pc[c] = "pop"
    /\ to_wake # <<>>
    /\ target' = [target EXCEPT ![c] = Head(to_wake)]
    /\ to_wake' = Tail(to_wake)
    /\ Goto(c, "unpark")
    /\ UNCHANGED <<cnt, ret, blockerVars>>

Unpark(c) ==
    /\ pc[c] = "unpark"
    /\ BlockerUnpark(target[c])
    /\ Goto(c, "store_unparked")
    /\ UNCHANGED <<cnt, to_wake, target, ret>>

UnparkStore(c) ==
    /\ pc[c] = "store_unparked"
    /\ StoreUnparked(target[c])
    /\ Goto(c, "take_release")
    /\ UNCHANGED <<cnt, to_wake, target, ret>>

\* Mutant: the waker does not give back the unit of a wait that failed.
UnparkForgetsRelease(c) ==
    /\ pc[c] = "take_release"
    /\ TakeRelease(target[c])
    /\ Goto(c, ret[c])
    /\ UNCHANGED <<cnt, to_wake, target, ret>>

UnparkTakeRelease(c) ==
    /\ pc[c] = "take_release"
    /\ TakeRelease(target[c])
    /\ Goto(c, IF release[target[c]] THEN "post" ELSE ret[c])
    /\ UNCHANGED <<cnt, to_wake, target, ret>>

-----------------------------------------------------------------------------
Step(c) ==
    \/ TryWaitOk(c) \/ TryWaitFails(c) \/ Push(c) \/ FetchSub(c)
    \/ WaitParkOk(c) \/ IsUnparked(c) \/ WaitSetRelease(c) \/ Recheck(c)
    \/ Retake(c) \/ Post(c) \/ Pop(c) \/ Unpark(c) \/ UnparkStore(c)
    \/ UnparkTakeRelease(c)

\* Nothing is left to do, or only waits that no post will ever wake.
Quiet ==
    /\ \A c \in Calls : pc[c] \in Ended \/ (pc[c] = "park" /\ ~token[c])
    /\ UNCHANGED vars

Next == (\E c \in Calls : Step(c) \/ WaitParkErr(c)) \/ Quiet

Spec == Init /\ [][Next]_vars

\* The scheduler runs every ready coroutine and every thread; a timeout or a
\* cancellation is not something a wait can count on.
FairSpec == Spec /\ \A c \in Calls : WF_vars(Step(c))

-----------------------------------------------------------------------------
Got == {c \in Calls : pc[c] \in {"taken", "granted"}}
Posted == {c \in Posters : pc[c] # "idle"}

\* Whoever decides to wake a waiter finds one in the queue, with any number of
\* calls popping it: the expect "got null blocker!" (semphore.rs:69) does not panic.
PopFindsBlocker ==
    Cardinality({c \in Calls : pc[c] = "pop"}) <= Len(to_wake)

\* Nothing is left to run: every call has returned or is parked for good.
Quiescent == \A c \in Calls : pc[c] \in Ended \/ (pc[c] = "park" /\ ~token[c])

\* Waits that gave up with their blocker still in the queue.
Abandoned == {c \in Calls : pc[c] = "failed" /\ release[c]}

\* semphore.rs:61-71, 80-109, 145-153.  A unit is owed to one call only: when a wait
\* fails while it is being woken, waiter and waker agree on who posts its unit.  And
\* none gets lost: when nothing is left to run, the units that were not taken are
\* available, and then no call is parked.  A wait that gave up stays in cnt until a
\* post finds its blocker.
UnitsBalance ==
    LET left == InitVal + Cardinality(Posted) - Cardinality(Got)
        waiting == {c \in Calls : pc[c] = "park"} \cup Abandoned
    IN  /\ left >= 0
        /\ Quiescent => cnt = left - Cardinality(waiting) /\ (left = 0 \/ waiting = {})

\* semphore.rs:112-117.  A wait that registered returns, or the other calls take
\* all the units there are.
WaitReturns ==
    \A c \in Calls :
        pc[c] = "push" ~>
            pc[c] \in Ended \/ Cardinality(Got) = InitVal + Cardinality(Posters)

\* What the semaphore promises, abstracting from queue, blockers and counter.
value == InitVal + Cardinality(Posted) - Cardinality(Got)

status ==
    [c \in Calls |->
        IF pc[c] = "idle" THEN "idle"
        ELSE IF c \in Got THEN "got"
        ELSE IF c \in Posters THEN "posted"
        ELSE IF pc[c] = "would_block" \/ pc[c] = "failed" \/ ret[c] = "failed" THEN "failed"
        ELSE "waiting"]

Semaphore == INSTANCE AbstractSemaphore WITH value <- value, status <- status

\* semphore.rs:74-153 implements a counting semaphore: every call takes effect
\* at once, at some moment between its start and its end.
ImplementsSemaphore == Semaphore!Spec

-----------------------------------------------------------------------------
(***************************************************************************)
(* The inductive invariant.  Units do not disappear and do not multiply:   *)
(* each one is available (counted by a positive cnt), taken, being moved   *)
(* by a call (which is about to post, to pop or to unpark), or handed to a *)
(* waiter that is still waiting, or that gave up and has its release flag  *)
(* up.                                                                     *)
(***************************************************************************)
Queued == Range(to_wake)

Handed(x) ==
    \/ unparked[x]
    \/ \E c \in Calls : pc[c] = "store_unparked" /\ target[c] = x

Targeted(x) == \E c \in Calls : pc[c] = "unpark" /\ target[c] = x

\* Waiters in the queue that have counted themselves, and waiters that were
\* popped before they did.
Counted == {x \in Queued : pc[x] # "fetch_sub"}
PoppedEarly == {x \in Calls : pc[x] = "fetch_sub" /\ (Handed(x) \/ Targeted(x))}

Popping == {c \in Calls : pc[c] = "pop"}
Moving == {c \in Calls : pc[c] \in {"post", "pop", "unpark"}}

Live(x) ==
    /\ Handed(x)
    /\ \/ /\ ret[x] = "park"
          /\ pc[x] \in {"fetch_sub", "pop", "unpark", "store_unparked", "take_release",
                        "post", "park", "is_unparked", "set_release"}
       \/ /\ release[x]
          /\ pc[x] \in {"recheck", "retake", "failed"}

Handovers == {x \in Calls : Live(x)}

Pos(n) == IF n > 0 THEN n ELSE 0

\* Every counted waiter in the queue is covered by a negative cnt, or by a pop
\* that is owed, or makes up for a waiter that was popped early.
QueueCount ==
    Cardinality(Counted) = Cardinality(PoppedEarly) + Cardinality(Popping) + Pos(-cnt)

UnitCount ==
    InitVal + Cardinality(Posted) =
        Cardinality(Got) + Pos(cnt) + Cardinality(Moving)
        + Cardinality(Handovers)

QueueOK ==
    /\ IsInjective(to_wake)
    /\ \A x \in Queued : ~Handed(x) /\ ~Targeted(x) /\ x \notin Posters

\* x has put its blocker into the queue and still waits, or gave up.
Registered(x) ==
    /\ x \notin Posters
    /\ \/ pc[x] \in {"fetch_sub", "park", "is_unparked", "set_release",
                     "recheck", "retake", "failed"}
       \/ /\ ret[x] = "park"
          /\ pc[x] \in {"pop", "unpark", "store_unparked", "take_release", "post"}

RegisteredOK ==
    \A x \in Calls :
        Registered(x) /\ ~Handed(x) => x \in Queued \/ Targeted(x)

\* A waiter is unparked once, and while it waits or after it gave up.
TargetOK ==
    \A c \in Calls :
        /\ pc[c] = "unpark" =>
              /\ ~Handed(target[c])
              /\ Registered(target[c])
              /\ \A d \in Calls : pc[d] = "unpark" /\ target[d] = target[c] => d = c
        /\ pc[c] = "take_release" => unparked[target[c]]

FlagsOK(x) ==
    /\ token[x] => Handed(x)
    /\ release[x] => pc[x] \in {"recheck", "retake", "failed"}
    /\ pc[x] \in {"recheck", "failed"} /\ ~Handed(x) => release[x]
    /\ pc[x] = "retake" \/ ret[x] = "failed" => unparked[x]
    /\ pc[x] \in {"idle", "push"} => ~Handed(x) /\ ~Targeted(x)
    /\ pc[x] \in {"push", "fetch_sub", "park", "is_unparked", "set_release",
                  "recheck", "retake"} => ret[x] = "park"
    /\ x \in Posters <=> ret[x] = "posted"
    /\ x \in Posters => pc[x] \in {"idle", "post", "pop", "unpark", "store_unparked",
                                   "take_release", "posted"}
    /\ x \in Queued => ret[x] = "park" /\ Registered(x)

\* The token of a waiter that was unparked stays until its park returns.
TokenOK(x) ==
    /\ Handed(x)
    /\ ret[x] = "park"
    /\ pc[x] \in {"fetch_sub", "pop", "unpark", "store_unparked", "take_release", "post", "park"}
    => token[x]

\* A wait that gave up before its waker published the unpark has a waker that
\* will look at the release flag.
ReleaseOK(x) ==
    pc[x] = "failed" /\ release[x] /\ unparked[x] =>
        \E c \in Calls : pc[c] = "take_release" /\ target[c] = x

CallOK == \A x \in Calls : FlagsOK(x) /\ TokenOK(x) /\ ReleaseOK(x)

\* The client's view: a unit that is being moved or was handed over is owed to
\* a registered call; a call about to post one again, or with its release flag
\* up, is a ghost.
Waiting ==
    {x \in Calls : /\ x \notin Posters
                   /\ ret[x] = "park"
                   /\ pc[x] \in {"pop", "unpark", "store_unparked", "take_release", "post",
                                "park", "is_unparked", "set_release"}}
Flagged == {x \in Calls : release[x]}
Posting == {c \in Calls : pc[c] = "post"}
Ghosts == Cardinality(Flagged) + Cardinality(Posting)
Owed == Cardinality(Moving) + Cardinality(Handovers)

contract ==
    [cnt |-> cnt,
     waiting |-> Waiting,
     ghosts |-> Ghosts,
     owed |-> Owed]

Contract == INSTANCE SemphoreContract WITH sem <- contract, Waiters <- Calls \ Posters

\* semphore.rs:61-163.  What Channel relies on: the counter, the registered
\* waits and the owed wake-ups change as the contract says, in every step.
ImplementsContract == Contract!Spec

\* semphore.rs:61-153.  The unit argument above, as one inductive invariant, with the
\* blocker that every pop finds.
Inv ==
    /\ TypeOK
    /\ PopFindsBlocker
    /\ QueueCount
    /\ UnitCount
    /\ QueueOK
    /\ RegisteredOK
    /\ TargetOK
    /\ CallOK
=============================================================================
