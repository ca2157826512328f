------------------------------- MODULE RwLock -------------------------------
(***************************************************************************)
(* std/sync/rwlock.rs.  A process is one call of read, try_read, write or  *)
(* try_write, the life of the guard it returns and the guard's drop.       *)
(* rlock is a Mutex and the global lock repeats the code of Mutex; lock is *)
(* wait and unlock is post of a semaphore of one unit (the counter of a    *)
(* Mutex is one minus the counter of the semaphore), so that both are seen *)
(* through SemphoreContract.  rlock itself is never poisoned: no guard of  *)
(* it is dropped by a panic that began while it was held.                  *)
(***************************************************************************)
EXTENDS Integers, FiniteSets

CONSTANTS Calls,
          Cancelable,   \* calls made by coroutines that may be cancelled
          CanPanic      \* calls whose holder may panic with a write guard

VARIABLES
    rlock,    \* the reader mutex
    lock,     \* the global mutex: cnt and to_wake
    readers,  \* usize, the value inside rlock
    poison,   \* poison::Flag
    kind,     \* the operation of each call
    pc,       \* where each call is
    ret       \* where a call goes when it has released rlock

vars == <<rlock, lock, readers, poison, kind, pc, ret>>

RLock == INSTANCE SemphoreContract WITH sem <- rlock, Waiters <- Calls, InitVal <- 1
Lock == INSTANCE SemphoreContract WITH sem <- lock, Waiters <- Calls, InitVal <- 1

Kinds == {"read", "try_read", "write", "try_write"}
Reading(c) == kind[c] \in {"read", "try_read"}

Ended == {"done", "would_block", "canceled", "leaked"}

Labels == Ended \cup
    {"idle", "rlock", "rlock_reg", "rlock_park", "have_rlock", "load", "cas",
     "reg", "park", "count", "held", "drop", "drop_reg", "drop_park",
     "uncount", "unlock", "rlock_unlock"}

TypeOK ==
    /\ RLock!TypeOK /\ Lock!TypeOK
    /\ readers \in Nat
    /\ poison \in BOOLEAN
    /\ kind \in [Calls -> Kinds]
    /\ pc \in [Calls -> Labels]
    /\ ret \in [Calls -> Ended \cup {"held"}]

Init ==
    /\ rlock = RLock!New
    /\ lock = Lock!New
    /\ readers = 0
    /\ poison = FALSE
    /\ kind = [c \in Calls |-> "read"]
    /\ pc = [c \in Calls |-> "idle"]
    /\ ret = [c \in Calls |-> "done"]

\* usize arithmetic of a release build; UsizeMax stands for usize::MAX.
UsizeMax == 255
CountDown(n) == IF n = 0 THEN UsizeMax ELSE n - 1

Goto(c, l) == pc' = [pc EXCEPT ![c] = l]

ReleaseThen(c, l) ==
    /\ Goto(c, "rlock_unlock")
    /\ ret' = [ret EXCEPT ![c] = l]

Start(c) ==
    /\ pc[c] = "idle"
    /\ \E k \in Kinds :
          /\ kind' = [kind EXCEPT ![c] = k]
          /\ Goto(c, IF k \in {"read", "try_read"} THEN "rlock" ELSE "load")
    /\ UNCHANGED <<rlock, lock, readers, poison, ret>>

-----------------------------------------------------------------------------
(* rlock: lock() of a read and of the drop of a read guard, try_lock() of  *)
(* try_read.                                                               *)

RLockTry(c) ==
    /\ pc[c] \in {"rlock", "drop"}
    /\ \/ RLock!TryWait /\ Goto(c, IF pc[c] = "rlock" THEN "have_rlock" ELSE "uncount")
       \/ /\ RLock!Value = 0
          /\ Goto(c, IF pc[c] = "drop" THEN "drop_reg"
                     ELSE IF kind[c] = "read" THEN "rlock_reg" ELSE "would_block")
          /\ UNCHANGED rlock
    /\ UNCHANGED <<lock, readers, poison, kind, ret>>

RLockRegister(c) ==
    /\ pc[c] \in {"rlock_reg", "drop_reg"}
    /\ RLock!Register(c)
    /\ Goto(c, IF pc[c] = "rlock_reg" THEN "rlock_park" ELSE "drop_park")
    /\ UNCHANGED <<lock, readers, poison, kind, ret>>

RLockReturn(c) ==
    /\ pc[c] \in {"rlock_park", "drop_park"}
    /\ RLock!Return(c)
    /\ Goto(c, IF pc[c] = "rlock_park" THEN "have_rlock" ELSE "uncount")
    /\ UNCHANGED <<lock, readers, poison, kind, ret>>

\* The cancel panic leaves read, or the drop of a read guard: in the second
\* case the reader is never counted down.
RLockCanceled(c) ==
    /\ pc[c] \in {"rlock_park", "drop_park"}
    /\ c \in Cancelable
    /\ RLock!GiveUp(c)
    /\ Goto(c, IF pc[c] = "rlock_park" THEN "canceled" ELSE "leaked")
    /\ UNCHANGED <<lock, readers, poison, kind, ret>>

RLockUnlock(c) ==
    /\ pc[c] = "rlock_unlock"
    /\ RLock!Post
    /\ Goto(c, ret[c])
    /\ UNCHANGED <<lock, readers, poison, kind, ret>>

\* The first reader takes the global lock.
HaveRLock(c) ==
    /\ pc[c] = "have_rlock"
    /\ Goto(c, IF readers = 0 THEN "load" ELSE "count")
    /\ UNCHANGED <<rlock, lock, readers, poison, kind, ret>>

-----------------------------------------------------------------------------
(* The global lock: lock() of read and write, try_lock() of the others.    *)

Granted(c) == Goto(c, IF Reading(c) THEN "count" ELSE "held") /\ UNCHANGED ret

WouldBlock(c) ==
    \/ kind[c] \in {"read", "write"} /\ Goto(c, "reg") /\ UNCHANGED ret
    \/ kind[c] = "try_read" /\ ReleaseThen(c, "would_block")
    \/ kind[c] = "try_write" /\ Goto(c, "would_block") /\ UNCHANGED ret

LockLoad(c) ==
    /\ pc[c] = "load"
    /\ IF Lock!Value > 0 THEN Goto(c, "cas") /\ UNCHANGED ret ELSE WouldBlock(c)
    /\ UNCHANGED <<rlock, lock, readers, poison, kind>>

\* try_lock looks at the poison flag when its exchange fails.  The callers
\* take Poisoned (in lock: Err(Timeout)) for a lock they hold.
LockCas(c) ==
    /\ pc[c] = "cas"
    /\ \/ Lock!TryWait /\ Granted(c)
       \/ /\ Lock!Value = 0
          /\ IF poison THEN Granted(c) ELSE WouldBlock(c)
          /\ UNCHANGED lock
    /\ UNCHANGED <<rlock, readers, poison, kind>>

LockRegister(c) ==
    /\ pc[c] = "reg"
    /\ Lock!Register(c)
    /\ Goto(c, "park")
    /\ UNCHANGED <<rlock, readers, poison, kind, ret>>

LockReturn(c) ==
    /\ pc[c] = "park"
    /\ Lock!Return(c)
    /\ Granted(c)
    /\ UNCHANGED <<rlock, readers, poison, kind>>

\* Mutant: a cancelled reader panics without giving rlock back.
LockCanceledKeepsRLock(c) ==
    /\ pc[c] = "park"
    /\ c \in Cancelable
    /\ Lock!GiveUp(c)
    /\ Goto(c, "canceled") /\ UNCHANGED ret
    /\ UNCHANGED <<rlock, readers, poison, kind>>

\* A cancelled reader releases rlock before it panics.
LockCanceled(c) ==
    /\ pc[c] = "park"
    /\ c \in Cancelable
    /\ Lock!GiveUp(c)
    /\ IF Reading(c)
       THEN ReleaseThen(c, "canceled")
       ELSE Goto(c, "canceled") /\ UNCHANGED ret
    /\ UNCHANGED <<rlock, readers, poison, kind>>

\* read counts its guard in any case, try_read not when it reports poison.
Count(c) ==
    /\ pc[c] = "count"
    /\ readers' = IF poison /\ kind[c] = "try_read" THEN readers ELSE readers + 1
    /\ ReleaseThen(c, "held")
    /\ UNCHANGED <<rlock, lock, poison, kind>>

-----------------------------------------------------------------------------
(* The guards.                                                             *)

\* A panic of the holder sets the flag when its write guard is dropped.
Drop(c) ==
    /\ pc[c] = "held"
    /\ IF Reading(c)
       THEN Goto(c, "drop") /\ UNCHANGED poison
       ELSE /\ Goto(c, "unlock")
            /\ poison' \in {poison, poison \/ c \in CanPanic}
    /\ UNCHANGED <<rlock, lock, readers, kind, ret>>

\* Mutant: every reader releases the global lock.
UncountAlwaysUnlocks(c) ==
    /\ pc[c] = "uncount"
    /\ readers' = CountDown(readers)
    /\ Lock!Post
    /\ ReleaseThen(c, "done")
    /\ UNCHANGED <<rlock, poison, kind>>

\* read_unlock with rlock held: the last reader releases the global lock.
Uncount(c) ==
    /\ pc[c] = "uncount"
    /\ readers' = CountDown(readers)
    /\ IF readers = 1 THEN Lock!Post ELSE UNCHANGED lock
    /\ ReleaseThen(c, "done")
    /\ UNCHANGED <<rlock, poison, kind>>

WriteUnlock(c) ==
    /\ pc[c] = "unlock"
    /\ Lock!Post
    /\ Goto(c, "done")
    /\ UNCHANGED <<rlock, readers, poison, kind, ret>>

\* The waker of a wait that gave up releases the lock on its behalf.
Repost ==
    /\ \/ RLock!Repost /\ UNCHANGED lock
       \/ Lock!Repost /\ UNCHANGED rlock
    /\ UNCHANGED <<readers, poison, kind, pc, ret>>

-----------------------------------------------------------------------------
Step(c) ==
    \/ Start(c) \/ RLockTry(c) \/ RLockRegister(c) \/ RLockReturn(c) \/ RLockUnlock(c)
    \/ HaveRLock(c) \/ LockLoad(c) \/ LockCas(c) \/ LockRegister(c) \/ LockReturn(c)
    \/ Count(c) \/ Drop(c) \/ Uncount(c) \/ WriteUnlock(c)

Cancel(c) == RLockCanceled(c) \/ LockCanceled(c)

Next == (\E c \in Calls : Step(c) \/ Cancel(c)) \/ Repost

\* Ready coroutines run; a guard is dropped some day; cancels need not come.
Fairness == WF_vars(Repost) /\ \A c \in Calls : WF_vars(Step(c))

Spec == Init /\ [][Next]_vars /\ Fairness

-----------------------------------------------------------------------------
Holders == {c \in Calls : pc[c] = "held"}
Leaked == {c \in Calls : pc[c] = "leaked"}

\* rwlock.rs:150-204.  Whoever has a write guard has it alone: the first reader
\* locks for all of them and the last one unlocks, cancelled ones included.
Exclusion ==
    \A c, d \in Holders : c # d => Reading(c) /\ Reading(d)

\* Where every behaviour comes to: each call has ended, unless the drop of a read
\* guard was cancelled and the lock stays counted for it.
AllEnded == Leaked # {} \/ \A c \in Calls : pc[c] \in Ended
=============================================================================
