----------------------------- MODULE WaitGroup -----------------------------
(***************************************************************************)
(* std/sync/wait_group.rs on Condvar and its mutex.  The processes are the *)
(* references to one wait group: each is cloned, dropped, or consumed by   *)
(* wait, which drops it and waits until the count is zero.                 *)
(***************************************************************************)
EXTENDS Condvar

CONSTANT First   \* the reference WaitGroup::new returns

VARIABLE
    count,     \* usize, the value inside the mutex
    op         \* what each reference is doing

wgVars == <<vars, count, op>>

WgEnded == {"dropped", "woken", "canceled", "leaked"}

WgTypeOK ==
    /\ TypeOK
    /\ count \in Nat
    /\ op \in [Calls -> {"none", "clone", "peek", "drop", "wait", "loop"}]

Init ==
    /\ CvInit
    /\ count = 1
    /\ op = [c \in Calls |-> "none"]
    /\ pc = [c \in Calls |-> IF c = First THEN "idle" ELSE "unborn"]

\* Bound: there are no more references than Calls.
CanClone ==
    Cardinality({c \in Calls : op[c] = "clone" /\ pc[c] \notin {"release_idle", "idle"}})
        < Cardinality({c \in Calls : pc[c] = "unborn"})

\* The mutex is taken at the start of clone, of wait, of drop (which is also
\* part of wait) and again in wait.
Begin(c) ==
    /\ pc[c] = "idle"
    /\ \E o \in {"clone", "peek", "drop"} :
          /\ o = "clone" => CanClone
          /\ op' = [op EXCEPT ![c] = o]
    /\ Goto(c, "acquire")
    /\ UNCHANGED <<mutex, to_wake, target, result, ret, note, blockerVars, count>>

Acquire(c) ==
    /\ \/ LockTry(c, "acquire", "have", "acquire_reg")
       \/ LockRegister(c, "acquire_reg", "acquire_park")
       \/ LockReturn(c, "acquire_park", "have")
    /\ UNCHANGED <<count, op>>

\* The cancel panic of a lock() leaves clone and the first look of wait, and the
\* reference is dropped while unwinding; it leaves a drop without counting down
\* (in an unwinding coroutine this second panic aborts the process).
AcquireCanceled(c) ==
    /\ pc[c] = "acquire_park"
    /\ c \in CanFail
    /\ Mutex!GiveUp(c)
    /\ CASE op[c] \in {"drop", "wait"} -> Goto(c, "leaked") /\ op' = op
         [] op[c] \in {"clone", "peek"} -> Goto(c, "acquire") /\ op' = [op EXCEPT ![c] = "drop"]
         [] OTHER -> Goto(c, "canceled") /\ op' = op
    /\ UNCHANGED <<to_wake, target, result, ret, note, blockerVars, count>>

\* Mutant: a new reference is not counted.
CloneUncounted(c) ==
    /\ pc[c] = "have" /\ op[c] = "clone"
    /\ \E d \in Calls :
          /\ pc[d] = "unborn"
          /\ pc' = [pc EXCEPT ![c] = "release_idle", ![d] = "idle"]
    /\ UNCHANGED <<mutex, to_wake, target, result, ret, note, blockerVars, op, count>>

Clone(c) ==
    /\ pc[c] = "have" /\ op[c] = "clone"
    /\ \E d \in Calls :
          /\ pc[d] = "unborn"
          /\ pc' = [pc EXCEPT ![c] = "release_idle", ![d] = "idle"]
    /\ count' = count + 1
    /\ UNCHANGED <<mutex, to_wake, target, result, ret, note, blockerVars, op>>

\* wait looks whether its own reference is the only one, then drops it.
Peek(c) ==
    /\ pc[c] = "have" /\ op[c] = "peek"
    /\ op' = [op EXCEPT ![c] = IF count = 1 THEN "drop" ELSE "wait"]
    /\ Goto(c, "release_acquire")
    /\ UNCHANGED <<mutex, to_wake, target, result, ret, note, blockerVars, count>>

\* Mutant: a reference that is dropped inside wait does not notify.
DropRefSilently(c) ==
    /\ pc[c] = "have" /\ op[c] \in {"drop", "wait"}
    /\ count' = count - 1
    /\ Goto(c, IF count = 1 /\ op[c] = "drop" THEN "pop_all" ELSE "release_drop")
    /\ UNCHANGED <<mutex, to_wake, target, result, ret, note, blockerVars, op>>

\* Drop: count down and, at zero, notify_all with the mutex held.
DropRef(c) ==
    /\ pc[c] = "have" /\ op[c] \in {"drop", "wait"}
    /\ count' = count - 1
    /\ Goto(c, IF count = 1 THEN "pop_all" ELSE "release_drop")
    /\ UNCHANGED <<mutex, to_wake, target, result, ret, note, blockerVars, op>>

\* After the drop inside wait the mutex is taken again.
Dropped(c) ==
    /\ Unlock(c, "release_drop", IF op[c] = "wait" THEN "acquire" ELSE "dropped")
    /\ op' = IF op[c] = "wait" THEN [op EXCEPT ![c] = "loop"] ELSE op
    /\ UNCHANGED count

\* while *count > 0 { count = cvar.wait(count) }
Loop(c) ==
    /\ pc[c] \in {"have", "returned"} /\ op[c] = "loop"
    /\ Goto(c, IF count > 0 THEN "push" ELSE "release_woken")
    /\ UNCHANGED <<mutex, to_wake, target, result, ret, note, blockerVars, count, op>>

Waiting(c) ==
    /\ WaitImpl(c) \/ Notify(c) \/ PopAll(c, "release_drop")
    /\ UNCHANGED <<count, op>>

Release(c) ==
    /\ \/ Unlock(c, "release_idle", "idle")
       \/ Unlock(c, "release_acquire", "acquire")
       \/ Unlock(c, "release_woken", "woken")
    /\ UNCHANGED <<count, op>>

WaitCanceled(c) ==
    /\ c \in CanFail
    /\ ParkFails(c, "canceled")
    /\ UNCHANGED <<count, op>>

Repost ==
    /\ Mutex!Repost
    /\ UNCHANGED <<to_wake, pc, target, result, ret, note, blockerVars, count, op>>

Step(c) ==
    \/ Begin(c) \/ Acquire(c) \/ Clone(c) \/ Peek(c) \/ DropRef(c) \/ Dropped(c)
    \/ Loop(c) \/ Waiting(c) \/ Release(c)

Next == (\E c \in Calls : Step(c) \/ AcquireCanceled(c) \/ WaitCanceled(c)) \/ Repost

\* References are used and dropped by coroutines that run when they are ready.
Spec ==
    /\ Init /\ [][Next]_wgVars
    /\ WF_wgVars(Repost) /\ \A c \in Calls : WF_wgVars(Step(c))

-----------------------------------------------------------------------------
\* References that have not been dropped; a leaked one counts for ever.
Alive ==
    {c \in Calls : \/ op[c] \in {"none", "clone", "peek"} /\ pc[c] # "unborn"
                   \/ op[c] \in {"drop", "wait"} /\ pc[c] \in {"release_acquire", "acquire",
                        "acquire_reg", "acquire_park", "have", "leaked"}}

\* wait_group.rs:116-128.  wait returns only when all references are gone.
WaitsForAll ==
    /\ count = Cardinality(Alive)
    /\ \A c \in Calls : pc[c] \in {"release_woken", "woken"} => Alive = {}

\* Where every behaviour comes to: each wait has returned, unless the drop of a
\* reference was cancelled.
AllReturned ==
    \/ \E d \in Calls : pc[d] = "leaked"
    \/ \A c \in Calls : op[c] = "loop" => pc[c] \in WgEnded
=============================================================================
