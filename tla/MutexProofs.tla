----------------------------- MODULE MutexProofs -----------------------------
(***************************************************************************)
(* The mutex of std/sync/mutex.rs keeps its promises for any number of     *)
(* calls, when no call that may be cancelled has cancellation disabled     *)
(* (module Mutex, run MutexIgnoreCancel, shows what happens otherwise).    *)
(***************************************************************************)
EXTENDS Mutex, CollectionLemmas

-----------------------------------------------------------------------------
(* Steps that unpark nobody.                                               *)

\* A call that neither starts nor ends an unpark leaves Handed and Targeted
\* alone.
LEMMA SameHanded ==
    ASSUME TypeOK, NEW c \in Calls, NEW l \in Labels,
           pc' = [pc EXCEPT ![c] = l],
           pc[c] \notin {"unpark", "store_unparked"},
           l \notin {"unpark", "store_unparked"},
           UNCHANGED <<target, unparked>>
    PROVE  \A x \in Calls : /\ Handed(x)' <=> Handed(x)
                            /\ Targeted(x)' <=> Targeted(x)
BY Zenon DEF TypeOK, Handed, Targeted

\* The counted waiters are finitely many calls.
LEMMA CountedFinite ==
    ASSUME CardinalityFacts, TypeOK
    PROVE  /\ Queued \subseteq Calls
           /\ Counted \subseteq Calls
           /\ IsFiniteSet(Counted)
           /\ Cardinality(Counted) \in Nat
           /\ (Cardinality(Counted) = 0) <=> (Counted = {})
<1>1. Queued \subseteq Calls
    BY DEF TypeOK, Queued, Range
<1>2. Counted \subseteq Calls
    BY Zenon, <1>1 DEF Counted
<1>. QED BY Zenon, <1>1, <1>2, MutexAssumption, CardSubset, CardType, CardEmpty

LEMMA InitInv == Init => Inv
<1>. SUFFICES ASSUME Init PROVE Inv
    BY Zenon
<1>1. TypeOK
  <2>1. BlockerTypeOK
      BY Zenon DEF Init, BlockerInit, BlockerTypeOK
  <2>2. failed \in BOOLEAN /\ saw \in [Calls -> BOOLEAN]
      BY Zenon DEF Init
  <2>. QED BY <2>1, <2>2 DEF Init, TypeOK, Labels
<1>2. Queued = {} /\ Counted = {} /\ IsInjective(to_wake)
    BY DEF Init, Queued, Counted, Range, IsInjective
<1>3. \A x \in Calls : ~Handed(x) /\ ~Targeted(x) /\ ~Baton(x)
    BY Zenon DEF Init, BlockerInit, Handed, Targeted, Baton
<1>. QED
    BY Zenon, <1>1, <1>2, <1>3
    DEF Init, BlockerInit, Inv, OneBaton, CntOK, QueueOK, RegisteredOK, Registered,
        TargetOK, CallOK, FlagsOK
-----------------------------------------------------------------------------
(* Each action preserves the invariant.                                    *)

\* A call that takes a free lock gets the baton: nobody had it.
LEMMA TryLockOkInv ==
    ASSUME CardinalityFacts, Inv, NEW c \in Calls, TryLockOk(c)
    PROVE  Inv'
<1>1. TypeOK'
    BY Zenon DEF Inv, TypeOK, TryLockOk, Goto, Labels, blockerVars, BlockerTypeOK
<1>2. \A x \in Calls : (Handed(x)' <=> Handed(x)) /\ (Targeted(x)' <=> Targeted(x))
    BY Zenon, SameHanded DEF Inv, TryLockOk, Goto, Labels, blockerVars
<1>3. Queued' = Queued /\ Counted' = Counted
    BY Zenon, CountedFinite DEF Inv, TypeOK, TryLockOk, Goto, Queued, Counted
<1>4. \A x \in Calls : ~Baton(x)
    BY CountedFinite DEF Inv, CntOK, TryLockOk
<1>5. \A x \in Calls : Baton(x)' <=> x = c
    BY Zenon, <1>2, <1>4 DEF Inv, TypeOK, TryLockOk, Goto, Baton, blockerVars
<1>6. OneBaton'
    BY Zenon, <1>5 DEF OneBaton
<1>7. CntOK'
    BY <1>3, <1>4, <1>5, CountedFinite, CardEmpty
    DEF Inv, TypeOK, CntOK, Owed, TryLockOk, Goto
<1>8. QueueOK'
    BY Zenon, <1>2, <1>3, CountedFinite DEF Inv, QueueOK, TryLockOk
<1>9. RegisteredOK'
    BY Zenon, <1>2, <1>3 DEF Inv, TypeOK, RegisteredOK, Registered, TryLockOk, Goto
<1>10. TargetOK'
    BY Zenon, <1>2 DEF Inv, TypeOK, TargetOK, Unparkable, TryLockOk, Goto, blockerVars
<1>11. CallOK'
    BY Zenon, <1>2, <1>3 DEF Inv, TypeOK, CallOK, FlagsOK, TryLockOk, Goto, blockerVars
<1>. QED BY Zenon, <1>1, <1>6, <1>7, <1>8, <1>9, <1>10, <1>11 DEF Inv

\* A step of one call that touches neither the queue nor cnt, unparks nobody
\* and moves no baton preserves the invariant if it keeps the facts about
\* that call.
LEMMA LocalStep ==
    ASSUME CardinalityFacts, Inv, TypeOK', NEW c \in Calls, NEW l \in Labels,
           pc' = [pc EXCEPT ![c] = l],
           pc[c] \notin {"fetch_add", "pop", "unpark", "store_unparked", "take_release"},
           l \notin {"fetch_add", "pop", "unpark", "store_unparked", "take_release"},
           UNCHANGED <<cnt, to_wake, target, unparked>>,
           \A x \in Calls \ {c} : /\ ret'[x] = ret[x]
                                  /\ token'[x] = token[x]
                                  /\ release'[x] = release[x],
           Baton(c)' <=> Baton(c),
           Registered(c)' => Registered(c) \/ Handed(c),
           Targeted(c) => Unparkable(c)',
           FlagsOK(c)'
    PROVE  Inv'
<1>1. \A x \in Calls : (Handed(x)' <=> Handed(x)) /\ (Targeted(x)' <=> Targeted(x))
    BY Zenon, SameHanded DEF Inv
<1>2. Queued' = Queued /\ Counted' = Counted
    BY CountedFinite DEF Inv, TypeOK, Queued, Counted
<1>3. \A x \in Calls : Baton(x)' <=> Baton(x)
    BY <1>1 DEF Inv, TypeOK, Baton
<1>4. OneBaton'
    BY Zenon, <1>3 DEF Inv, OneBaton
<1>5. CntOK'
  <2>1. \A x \in Calls : Baton(x) => (Owed(x)' <=> Owed(x))
      BY Zenon DEF Inv, TypeOK, Owed
  <2>. QED BY Zenon, <1>2, <1>3, <2>1 DEF Inv, CntOK
<1>6. QueueOK'
    BY Zenon, <1>1, <1>2, CountedFinite DEF Inv, QueueOK
<1>7. RegisteredOK'
    BY Zenon, <1>1, <1>2 DEF Inv, TypeOK, RegisteredOK, Registered
<1>8. TargetOK'
    BY <1>1 DEF Inv, TypeOK, TargetOK, Targeted, Unparkable
<1>9. CallOK'
    BY <1>1, <1>2 DEF Inv, TypeOK, CallOK, FlagsOK
<1>. QED BY Zenon, <1>4, <1>5, <1>6, <1>7, <1>8, <1>9 DEF Inv
\* A refused try_lock leaves without a trace.
LEMMA TryLockWouldBlockInv ==
    ASSUME CardinalityFacts, Inv, NEW c \in Calls, TryLockWouldBlock(c)
    PROVE  Inv'
<1>. DEFINE l == "would_block"
<1>1. pc' = [pc EXCEPT ![c] = l] /\ l \in Labels
    BY Zenon DEF TryLockWouldBlock, Goto, Labels, Ended
<1>2. TypeOK'
    BY Zenon, <1>1 DEF Inv, TypeOK, TryLockWouldBlock, blockerVars, mutexVars, BlockerTypeOK
<1>3. (Handed(c)' <=> Handed(c)) /\ (Targeted(c)' <=> Targeted(c)) /\ Queued' = Queued
    BY Zenon, <1>1, SameHanded DEF Inv, TryLockWouldBlock, Goto, blockerVars, mutexVars, Queued
<1>4. Baton(c)' <=> Baton(c)
    BY <1>1, <1>3
    DEF Inv, TypeOK, CallOK, FlagsOK, Handed, Baton, TryLockWouldBlock, Goto,
        blockerVars, mutexVars
<1>5. Registered(c)' => Registered(c) \/ Handed(c)
    BY Zenon, <1>1
    DEF Inv, TypeOK, Registered, CallOK, FlagsOK, TryLockWouldBlock, Goto, blockerVars,
        mutexVars
<1>6. Targeted(c) => Unparkable(c)'
    BY Zenon, <1>1
    DEF Inv, TypeOK, Targeted, TargetOK, CallOK, FlagsOK, Handed, Unparkable,
        TryLockWouldBlock, Goto, blockerVars, mutexVars
<1>7. FlagsOK(c)'
    BY <1>1, <1>3
    DEF Inv, TypeOK, QueueOK, CallOK, FlagsOK, Handed, TryLockWouldBlock, Goto,
        blockerVars, mutexVars
<1>. QED
    BY Zenon, <1>1, <1>2, <1>4, <1>5, <1>6, <1>7, LocalStep
    DEF Inv, TypeOK, BlockerTypeOK, TryLockWouldBlock, Goto, blockerVars, mutexVars

\* A refused lock call has not registered yet.
LEMMA LockSlowInv ==
    ASSUME CardinalityFacts, Inv, NEW c \in Calls, LockSlow(c)
    PROVE  Inv'
<1>. DEFINE l == "push"
<1>1. pc' = [pc EXCEPT ![c] = l] /\ l \in Labels
    BY Zenon DEF LockSlow, Goto, Labels, Ended
<1>2. TypeOK'
    BY Zenon, <1>1 DEF Inv, TypeOK, LockSlow, blockerVars, mutexVars, BlockerTypeOK
<1>3. (Handed(c)' <=> Handed(c)) /\ (Targeted(c)' <=> Targeted(c)) /\ Queued' = Queued
    BY Zenon, <1>1, SameHanded DEF Inv, LockSlow, Goto, blockerVars, mutexVars, Queued
<1>4. Baton(c)' <=> Baton(c)
    BY <1>1, <1>3
    DEF Inv, TypeOK, CallOK, FlagsOK, Handed, Baton, LockSlow, Goto, blockerVars,
        mutexVars
<1>5. Registered(c)' => Registered(c) \/ Handed(c)
    BY Zenon, <1>1
    DEF Inv, TypeOK, Registered, CallOK, FlagsOK, LockSlow, Goto, blockerVars, mutexVars
<1>6. Targeted(c) => Unparkable(c)'
    BY Zenon, <1>1
    DEF Inv, TypeOK, Targeted, TargetOK, CallOK, FlagsOK, Handed, Unparkable, LockSlow,
        Goto, blockerVars, mutexVars
<1>7. FlagsOK(c)'
    BY <1>1, <1>3
    DEF Inv, TypeOK, QueueOK, CallOK, FlagsOK, Handed, LockSlow, Goto, blockerVars,
        mutexVars
<1>. QED
    BY Zenon, <1>1, <1>2, <1>4, <1>5, <1>6, <1>7, LocalStep
    DEF Inv, TypeOK, BlockerTypeOK, LockSlow, Goto, blockerVars, mutexVars

\* A waiter whose park returns Ok was unparked, so it has the baton.
LEMMA LockParkOkInv ==
    ASSUME CardinalityFacts, Inv, NEW c \in Calls, LockParkOk(c)
    PROVE  Inv'
<1>. DEFINE l == "guard"
<1>1. pc' = [pc EXCEPT ![c] = l] /\ l \in Labels
    BY Zenon DEF LockParkOk, ParkOk, Goto, Labels, Ended
<1>2. TypeOK'
    BY Zenon, <1>1 DEF Inv, TypeOK, LockParkOk, ParkOk, blockerVars, mutexVars, BlockerTypeOK
<1>3. (Handed(c)' <=> Handed(c)) /\ (Targeted(c)' <=> Targeted(c)) /\ Queued' = Queued
    BY Zenon, <1>1, SameHanded
    DEF Inv, LockParkOk, ParkOk, Goto, blockerVars, mutexVars, Queued
<1>4. Baton(c)' <=> Baton(c)
    BY <1>1, <1>3
    DEF Inv, TypeOK, CallOK, FlagsOK, Handed, Baton, LockParkOk, ParkOk, Goto,
        blockerVars, mutexVars
<1>5. Registered(c)' => Registered(c) \/ Handed(c)
    BY Zenon, <1>1
    DEF Inv, TypeOK, Registered, CallOK, FlagsOK, LockParkOk, ParkOk, Goto,
        blockerVars, mutexVars
<1>6. Targeted(c) => Unparkable(c)'
    BY <1>1
    DEF Inv, TypeOK, Targeted, TargetOK, CallOK, FlagsOK, Handed, Unparkable,
        LockParkOk, ParkOk, Goto, blockerVars, mutexVars
<1>7. FlagsOK(c)'
    BY <1>1, <1>3
    DEF Inv, TypeOK, QueueOK, CallOK, FlagsOK, Handed, LockParkOk, ParkOk, Goto,
        blockerVars, mutexVars
<1>. QED
    BY Zenon, <1>1, <1>2, <1>4, <1>5, <1>6, <1>7, LocalStep
    DEF Inv, TypeOK, BlockerTypeOK, LockParkOk, ParkOk, Goto, blockerVars, mutexVars

\* A cancelled waiter keeps the baton if it was unparked already.
LEMMA LockParkCanceledInv ==
    ASSUME CardinalityFacts, Inv, NEW c \in Calls, LockParkCanceled(c)
    PROVE  Inv'
<1>. DEFINE l == "is_unparked"
<1>1. pc' = [pc EXCEPT ![c] = l] /\ l \in Labels
    BY Zenon DEF LockParkCanceled, ParkErr, Goto, Labels, Ended
<1>2. TypeOK'
    BY Zenon, <1>1
    DEF Inv, TypeOK, LockParkCanceled, ParkErr, blockerVars, mutexVars, BlockerTypeOK
<1>3. (Handed(c)' <=> Handed(c)) /\ (Targeted(c)' <=> Targeted(c)) /\ Queued' = Queued
    BY Zenon, <1>1, SameHanded
    DEF Inv, LockParkCanceled, ParkErr, Goto, blockerVars, mutexVars, Queued
<1>4. Baton(c)' <=> Baton(c)
    BY <1>1, <1>3
    DEF Inv, TypeOK, CallOK, FlagsOK, Handed, Baton, LockParkCanceled, ParkErr, Goto,
        blockerVars, mutexVars
<1>5. Registered(c)' => Registered(c) \/ Handed(c)
    BY Zenon, <1>1
    DEF Inv, TypeOK, Registered, CallOK, FlagsOK, LockParkCanceled, ParkErr, Goto,
        blockerVars, mutexVars
<1>6. Targeted(c) => Unparkable(c)'
    BY <1>1
    DEF Inv, TypeOK, Targeted, TargetOK, CallOK, FlagsOK, Handed, Unparkable,
        LockParkCanceled, ParkErr, Goto, blockerVars, mutexVars
<1>7. FlagsOK(c)'
    BY <1>1, <1>3
    DEF Inv, TypeOK, QueueOK, CallOK, FlagsOK, Handed, LockParkCanceled, ParkErr, Goto,
        blockerVars, mutexVars
<1>. QED
    BY Zenon, <1>1, <1>2, <1>4, <1>5, <1>6, <1>7, LocalStep
    DEF Inv, TypeOK, BlockerTypeOK, LockParkCanceled, ParkErr, Goto, blockerVars,
        mutexVars

\* A cancelled waiter that sees the unpark has the baton and unlocks.
LEMMA IsUnparkedInv ==
    ASSUME CardinalityFacts, Inv, NEW c \in Calls, IsUnparked(c), Disabled = {}
    PROVE  Inv'
<1>. DEFINE l == IF unparked[c] THEN "unlock" ELSE "set_release"
<1>1. pc' = [pc EXCEPT ![c] = l] /\ l \in Labels
    BY Zenon DEF IsUnparked, GotWhileCanceled, Goto, Labels, Ended
<1>2. TypeOK'
    BY Zenon, <1>1
    DEF Inv, TypeOK, IsUnparked, GotWhileCanceled, blockerVars, mutexVars, BlockerTypeOK
<1>3. (Handed(c)' <=> Handed(c)) /\ (Targeted(c)' <=> Targeted(c)) /\ Queued' = Queued
    BY Zenon, <1>1, SameHanded
    DEF Inv, IsUnparked, GotWhileCanceled, Goto, blockerVars, mutexVars, Queued
<1>4. Baton(c)' <=> Baton(c)
    BY <1>1, <1>3
    DEF Inv, TypeOK, CallOK, FlagsOK, Handed, Baton, IsUnparked, GotWhileCanceled,
        Goto, blockerVars, mutexVars
<1>5. Registered(c)' => Registered(c) \/ Handed(c)
    BY Zenon, <1>1
    DEF Inv, TypeOK, Registered, CallOK, FlagsOK, IsUnparked, GotWhileCanceled, Goto,
        blockerVars, mutexVars
<1>6. Targeted(c) => Unparkable(c)'
    BY <1>1
    DEF Inv, TypeOK, Targeted, TargetOK, CallOK, FlagsOK, Handed, Unparkable,
        IsUnparked, GotWhileCanceled, Goto, blockerVars, mutexVars
<1>7. FlagsOK(c)'
    BY <1>1, <1>3
    DEF Inv, TypeOK, QueueOK, CallOK, FlagsOK, Handed, IsUnparked, GotWhileCanceled,
        Goto, blockerVars, mutexVars
<1>. QED
    BY Zenon, <1>1, <1>2, <1>4, <1>5, <1>6, <1>7, LocalStep
    DEF Inv, TypeOK, BlockerTypeOK, IsUnparked, GotWhileCanceled, Goto, blockerVars,
        mutexVars

\* Raising the release flag keeps a baton that has just arrived.
LEMMA LockSetReleaseInv ==
    ASSUME CardinalityFacts, Inv, NEW c \in Calls, LockSetRelease(c)
    PROVE  Inv'
<1>. DEFINE l == "recheck"
<1>1. pc' = [pc EXCEPT ![c] = l] /\ l \in Labels
    BY Zenon DEF LockSetRelease, SetRelease, Goto, Labels, Ended
<1>2. TypeOK'
    BY Zenon, <1>1
    DEF Inv, TypeOK, LockSetRelease, SetRelease, blockerVars, mutexVars, BlockerTypeOK
<1>3. (Handed(c)' <=> Handed(c)) /\ (Targeted(c)' <=> Targeted(c)) /\ Queued' = Queued
    BY Zenon, <1>1, SameHanded
    DEF Inv, LockSetRelease, SetRelease, Goto, blockerVars, mutexVars, Queued
<1>4. Baton(c)' <=> Baton(c)
    BY <1>1, <1>3
    DEF Inv, TypeOK, CallOK, FlagsOK, Handed, Baton, BlockerTypeOK, LockSetRelease,
        SetRelease, Goto, blockerVars, mutexVars
<1>5. Registered(c)' => Registered(c) \/ Handed(c)
    BY Zenon, <1>1
    DEF Inv, TypeOK, Registered, CallOK, FlagsOK, LockSetRelease, SetRelease, Goto,
        blockerVars, mutexVars
<1>6. Targeted(c) => Unparkable(c)'
    BY <1>1
    DEF Inv, TypeOK, Targeted, TargetOK, CallOK, FlagsOK, Handed, Unparkable,
        LockSetRelease, SetRelease, Goto, blockerVars, mutexVars
<1>7. FlagsOK(c)'
    BY <1>1, <1>3
    DEF Inv, TypeOK, QueueOK, CallOK, FlagsOK, Handed, BlockerTypeOK, LockSetRelease,
        SetRelease, Goto, blockerVars, mutexVars
<1>. QED
    BY Zenon, <1>1, <1>2, <1>4, <1>5, <1>6, <1>7, LocalStep
    DEF Inv, TypeOK, BlockerTypeOK, LockSetRelease, SetRelease, Goto, blockerVars,
        mutexVars

\* A waiter that leaves unnoticed leaves its release flag up.
LEMMA RecheckInv ==
    ASSUME CardinalityFacts, Inv, NEW c \in Calls, Recheck(c), Disabled = {}
    PROVE  Inv'
<1>. DEFINE l == IF unparked[c] THEN "retake" ELSE "canceled"
<1>1. pc' = [pc EXCEPT ![c] = l] /\ l \in Labels
    BY Zenon DEF Recheck, NotGotWhileCanceled, Goto, Labels, Ended
<1>2. TypeOK'
    BY Zenon, <1>1
    DEF Inv, TypeOK, Recheck, NotGotWhileCanceled, blockerVars, mutexVars, BlockerTypeOK
<1>3. (Handed(c)' <=> Handed(c)) /\ (Targeted(c)' <=> Targeted(c)) /\ Queued' = Queued
    BY Zenon, <1>1, SameHanded
    DEF Inv, Recheck, NotGotWhileCanceled, Goto, blockerVars, mutexVars, Queued
<1>4. Baton(c)' <=> Baton(c)
    BY <1>1, <1>3
    DEF Inv, TypeOK, CallOK, FlagsOK, Handed, Baton, Recheck, NotGotWhileCanceled,
        Goto, blockerVars, mutexVars
<1>5. Registered(c)' => Registered(c) \/ Handed(c)
    BY Zenon, <1>1
    DEF Inv, TypeOK, Registered, CallOK, FlagsOK, Recheck, NotGotWhileCanceled, Goto,
        blockerVars, mutexVars
<1>6. Targeted(c) => Unparkable(c)'
    BY <1>1
    DEF Inv, TypeOK, Targeted, TargetOK, CallOK, FlagsOK, Handed, Unparkable, Recheck,
        NotGotWhileCanceled, Goto, blockerVars, mutexVars
<1>7. FlagsOK(c)'
    BY <1>1, <1>3
    DEF Inv, TypeOK, QueueOK, CallOK, FlagsOK, Handed, Recheck, NotGotWhileCanceled,
        Goto, blockerVars, mutexVars
<1>. QED
    BY Zenon, <1>1, <1>2, <1>4, <1>5, <1>6, <1>7, LocalStep
    DEF Inv, TypeOK, BlockerTypeOK, Recheck, NotGotWhileCanceled, Goto, blockerVars,
        mutexVars

\* A waiter that takes its release flag down takes the baton with it.
LEMMA RetakeInv ==
    ASSUME CardinalityFacts, Inv, NEW c \in Calls, Retake(c), Disabled = {}
    PROVE  Inv'
<1>. DEFINE l == IF release[c] THEN "unlock" ELSE "canceled"
<1>1. pc' = [pc EXCEPT ![c] = l] /\ l \in Labels
    BY
    DEF Retake, TakeRelease, GotWhileCanceled, NotGotWhileCanceled, Goto, Labels, Ended
<1>2. TypeOK'
    BY Zenon, <1>1
    DEF Inv, TypeOK, Retake, TakeRelease, GotWhileCanceled, NotGotWhileCanceled,
        blockerVars, mutexVars, BlockerTypeOK
<1>3. (Handed(c)' <=> Handed(c)) /\ (Targeted(c)' <=> Targeted(c)) /\ Queued' = Queued
    BY Zenon, <1>1, SameHanded
    DEF Inv, Retake, TakeRelease, GotWhileCanceled, NotGotWhileCanceled, Goto,
        blockerVars, mutexVars, Queued
<1>4. Baton(c)' <=> Baton(c)
    BY <1>1, <1>3
    DEF Inv, TypeOK, CallOK, FlagsOK, Handed, Baton, Retake, TakeRelease,
        GotWhileCanceled, NotGotWhileCanceled, Goto, blockerVars, mutexVars
<1>5. Registered(c)' => Registered(c) \/ Handed(c)
    BY Zenon, <1>1
    DEF Inv, TypeOK, Registered, CallOK, FlagsOK, Retake, TakeRelease,
        GotWhileCanceled, NotGotWhileCanceled, Goto, blockerVars, mutexVars
<1>6. Targeted(c) => Unparkable(c)'
    BY <1>1
    DEF Inv, TypeOK, Targeted, TargetOK, CallOK, FlagsOK, Handed, Unparkable, Retake,
        TakeRelease, GotWhileCanceled, NotGotWhileCanceled, Goto, blockerVars, mutexVars
<1>7. FlagsOK(c)'
    BY <1>1, <1>3
    DEF Inv, TypeOK, QueueOK, CallOK, FlagsOK, Handed, BlockerTypeOK, Retake,
        TakeRelease, GotWhileCanceled, NotGotWhileCanceled, Goto, blockerVars, mutexVars
<1>. QED
    BY Zenon, <1>1, <1>2, <1>4, <1>5, <1>6, <1>7, LocalStep
    DEF Inv, TypeOK, BlockerTypeOK, Retake, TakeRelease, GotWhileCanceled,
        NotGotWhileCanceled, Goto, blockerVars, mutexVars

\* Reading the poison flag moves nothing.
LEMMA GuardNewInv ==
    ASSUME CardinalityFacts, Inv, NEW c \in Calls, GuardNew(c)
    PROVE  Inv'
<1>. DEFINE l == "held"
<1>1. pc' = [pc EXCEPT ![c] = l] /\ l \in Labels
    BY Zenon DEF GuardNew, Goto, Labels, Ended
<1>2. TypeOK'
    BY Zenon, <1>1 DEF Inv, TypeOK, GuardNew, blockerVars, mutexVars, BlockerTypeOK
<1>3. (Handed(c)' <=> Handed(c)) /\ (Targeted(c)' <=> Targeted(c)) /\ Queued' = Queued
    BY Zenon, <1>1, SameHanded DEF Inv, GuardNew, Goto, blockerVars, mutexVars, Queued
<1>4. Baton(c)' <=> Baton(c)
    BY <1>1, <1>3
    DEF Inv, TypeOK, CallOK, FlagsOK, Handed, Baton, GuardNew, Goto, blockerVars,
        mutexVars
<1>5. Registered(c)' => Registered(c) \/ Handed(c)
    BY Zenon, <1>1
    DEF Inv, TypeOK, Registered, CallOK, FlagsOK, GuardNew, Goto, blockerVars, mutexVars
<1>6. Targeted(c) => Unparkable(c)'
    BY <1>1
    DEF Inv, TypeOK, Targeted, TargetOK, CallOK, FlagsOK, Handed, Unparkable, GuardNew,
        Goto, blockerVars, mutexVars
<1>7. FlagsOK(c)'
    BY <1>1, <1>3
    DEF Inv, TypeOK, QueueOK, CallOK, FlagsOK, Handed, GuardNew, Goto, blockerVars,
        mutexVars
<1>. QED
    BY Zenon, <1>1, <1>2, <1>4, <1>5, <1>6, <1>7, LocalStep
    DEF Inv, TypeOK, BlockerTypeOK, GuardNew, Goto, blockerVars, mutexVars

\* Dropping the guard turns the holder into an unlocker.
LEMMA GuardDropInv ==
    ASSUME CardinalityFacts, Inv, NEW c \in Calls, GuardDrop(c)
    PROVE  Inv'
<1>. DEFINE l == "unlock"
<1>1. pc' = [pc EXCEPT ![c] = l] /\ l \in Labels
    BY Zenon DEF GuardDrop, Goto, Labels, Ended
<1>2. TypeOK'
    BY Zenon, <1>1 DEF Inv, TypeOK, GuardDrop, PoisonDone, blockerVars, mutexVars, BlockerTypeOK
<1>3. (Handed(c)' <=> Handed(c)) /\ (Targeted(c)' <=> Targeted(c)) /\ Queued' = Queued
    BY Zenon, <1>1, SameHanded DEF Inv, GuardDrop, Goto, blockerVars, mutexVars, Queued
<1>4. Baton(c)' <=> Baton(c)
    BY <1>1, <1>3
    DEF Inv, TypeOK, CallOK, FlagsOK, Handed, Baton, GuardDrop, Goto, blockerVars,
        mutexVars
<1>5. Registered(c)' => Registered(c) \/ Handed(c)
    BY Zenon, <1>1
    DEF Inv, TypeOK, Registered, CallOK, FlagsOK, GuardDrop, Goto, blockerVars,
        mutexVars
<1>6. Targeted(c) => Unparkable(c)'
    BY <1>1
    DEF Inv, TypeOK, Targeted, TargetOK, CallOK, FlagsOK, Handed, Unparkable,
        GuardDrop, Goto, blockerVars, mutexVars
<1>7. FlagsOK(c)'
    BY <1>1, <1>3
    DEF Inv, TypeOK, QueueOK, CallOK, FlagsOK, Handed, GuardDrop, Goto, blockerVars,
        mutexVars
<1>. QED
    BY Zenon, <1>1, <1>2, <1>4, <1>5, <1>6, <1>7, LocalStep
    DEF Inv, TypeOK, BlockerTypeOK, GuardDrop, PoisonDone, Goto, blockerVars, mutexVars
\* A waiter that joins the queue is not counted yet.
LEMMA PushInv ==
    ASSUME CardinalityFacts, Inv, NEW c \in Calls, Push(c)
    PROVE  Inv'
<1>1. TypeOK'
    BY Zenon, QueueAppend DEF Inv, TypeOK, Push, Goto, Labels, blockerVars, BlockerTypeOK
<1>2. \A x \in Calls : (Handed(x)' <=> Handed(x)) /\ (Targeted(x)' <=> Targeted(x))
    BY Zenon, SameHanded DEF Inv, Push, Goto, Labels, blockerVars
<1>3. c \notin Queued /\ ~Handed(c) /\ ~Targeted(c)
    BY Zenon DEF Inv, CallOK, FlagsOK, Push
<1>4. Queued' = Queued \cup {c} /\ IsInjective(to_wake')
    BY <1>3, QueueAppend DEF Inv, TypeOK, QueueOK, Queued, Push
<1>5. Counted' = Counted
    BY Zenon, <1>3, <1>4, CountedFinite DEF Inv, TypeOK, Counted, Push, Goto
<1>6. \A x \in Calls : Baton(x)' <=> Baton(x)
    BY Zenon, <1>2, <1>3 DEF Inv, TypeOK, Push, Goto, Baton, blockerVars
<1>7. OneBaton'
    BY Zenon, <1>6 DEF Inv, OneBaton
<1>8. CntOK'
  <2>1. \A x \in Calls : Baton(x) => (Owed(x)' <=> Owed(x))
      BY Zenon, <1>3 DEF Inv, TypeOK, Owed, Baton, Targeted, Push, Goto
  <2>. QED BY Zenon, <1>5, <1>6, <2>1 DEF Inv, CntOK, Push
<1>9. QueueOK'
    BY Zenon, <1>2, <1>3, <1>4, CountedFinite DEF Inv, QueueOK
<1>10. RegisteredOK'
    BY Zenon, <1>2, <1>4 DEF Inv, TypeOK, RegisteredOK, Registered, Push, Goto
<1>11. TargetOK'
    BY Zenon, <1>2 DEF Inv, TypeOK, TargetOK, Unparkable, Push, Goto, blockerVars
<1>12. CallOK'
    BY Zenon, <1>2, <1>4 DEF Inv, TypeOK, CallOK, FlagsOK, Push, Goto, blockerVars
<1>. QED BY Zenon, <1>1, <1>7, <1>8, <1>9, <1>10, <1>11, <1>12 DEF Inv

\* A waiter that counts itself on a free lock takes the baton to wake the
\* first waiter; otherwise someone has the baton and accounts for it.
LEMMA FetchAddInv ==
    ASSUME CardinalityFacts, Inv, NEW c \in Calls, FetchAdd(c)
    PROVE  Inv'
<1>1. TypeOK'
    BY DEF Inv, TypeOK, FetchAdd, Goto, Labels, blockerVars, BlockerTypeOK
<1>2. \A x \in Calls : (Handed(x)' <=> Handed(x)) /\ (Targeted(x)' <=> Targeted(x))
  <2>. DEFINE l == IF cnt = 0 THEN "pop" ELSE "park"
  <2>1. pc' = [pc EXCEPT ![c] = l] /\ l \in Labels /\ l \notin {"unpark", "store_unparked"}
      BY Zenon DEF FetchAdd, Goto, Labels
  <2>2. pc[c] \notin {"unpark", "store_unparked"} /\ UNCHANGED <<target, unparked>> /\ TypeOK
      BY Zenon DEF Inv, FetchAdd, blockerVars
  <2>. HIDE DEF l
  <2>. QED BY Zenon, <2>1, <2>2, SameHanded
<1>3. Queued' = Queued /\ Queued \subseteq Calls /\ c \notin Counted
    BY Zenon, CountedFinite DEF Inv, FetchAdd, Queued, Counted
<1>4. Counted' = IF c \in Queued THEN Counted \cup {c} ELSE Counted
    BY Zenon, <1>3 DEF Inv, TypeOK, FetchAdd, Goto, Counted
<1>5. Cardinality(Counted') = IF c \in Queued THEN Cardinality(Counted) + 1
                                               ELSE Cardinality(Counted)
    BY Zenon, <1>3, <1>4, CountedFinite, CardAdd DEF Inv
<1>6. /\ c \in Queued \/ Targeted(c) \/ Handed(c)
      /\ c \in Queued => ~Handed(c) /\ ~Targeted(c)
      /\ Targeted(c) => ~Handed(c)
      /\ Handed(c) => Baton(c)
      /\ ret[c] = "park"
    BY DEF Inv, RegisteredOK, Registered, QueueOK, Targeted, TargetOK, CallOK, FlagsOK,
           Baton, FetchAdd
<1>7. CASE cnt = 0
  <2>1. \A x \in Calls : ~Baton(x)
      BY <1>7, CountedFinite DEF Inv, CntOK, FetchAdd
  <2>2. c \in Queued
      BY Zenon, <1>6, <2>1 DEF Targeted, Baton
  <2>3. \A x \in Calls : Baton(x)' <=> x = c
      BY Zenon, <1>2, <1>7, <2>1 DEF Inv, TypeOK, FetchAdd, Goto, Baton, blockerVars
  <2>4. OneBaton'
      BY Zenon, <2>3 DEF OneBaton
  <2>5. CntOK'
    <3>1. Counted = {} /\ Cardinality(Counted) = 0
        BY Zenon, <2>1, CardEmpty DEF Inv, CntOK
    <3>2. Owed(c)'
        BY Zenon, <1>7 DEF Inv, TypeOK, Owed, FetchAdd, Goto
    <3>. QED BY Zenon, <1>4, <1>5, <1>7, <2>2, <2>3, <3>1, <3>2 DEF CntOK, FetchAdd
  <2>6. QueueOK'
      BY Zenon, <1>2, <1>3 DEF Inv, QueueOK, FetchAdd
  <2>7. RegisteredOK'
      BY Zenon, <1>2, <1>3 DEF Inv, TypeOK, RegisteredOK, Registered, FetchAdd, Goto
  <2>8. TargetOK'
      BY Zenon, <1>2, <2>1
      DEF Inv, TypeOK, TargetOK, Baton, Unparkable, FetchAdd, Goto, blockerVars
  <2>9. CallOK'
      BY Zenon, <1>2, <1>3, <1>6, <1>7, <2>2
      DEF Inv, TypeOK, CallOK, FlagsOK, FetchAdd, Goto, blockerVars
  <2>. QED BY Zenon, <1>1, <2>4, <2>5, <2>6, <2>7, <2>8, <2>9 DEF Inv
<1>8. CASE cnt # 0
  <2>1. pc' = [pc EXCEPT ![c] = "park"]
      BY Zenon, <1>8 DEF FetchAdd, Goto
  <2>2. \A x \in Calls : Baton(x)' <=> Baton(x)
      BY Zenon, <1>2, <1>6, <2>1 DEF Inv, TypeOK, FetchAdd, Baton, blockerVars
  <2>3. OneBaton'
      BY Zenon, <2>2 DEF Inv, OneBaton
  <2>4. CntOK'
    <3>1. PICK b \in Calls : Baton(b)
        BY Zenon, <1>8 DEF Inv, CntOK
    <3>2. \A x \in Calls : Baton(x) <=> x = b
        BY Zenon, <3>1 DEF Inv, OneBaton
    <3>3. Targeted(c) => pc[b] = "unpark" /\ target[b] = c
        BY Zenon, <3>2 DEF Targeted, Baton
    <3>4. CASE c \in Queued
      <4>1. Owed(b)' <=> Owed(b)
          BY Zenon, <1>6, <2>1, <3>1, <3>4 DEF Inv, TypeOK, Owed, Baton, Targeted, FetchAdd
      <4>. QED
          BY Zenon, <1>4, <1>5, <2>2, <3>2, <3>4, <4>1, CountedFinite
          DEF Inv, TypeOK, CntOK, FetchAdd
    <3>5. CASE c \notin Queued
      <4>1. Owed(b) /\ ~Owed(b)'
          BY Zenon, <1>6, <2>1, <3>2, <3>3, <3>5 DEF Inv, TypeOK, Owed, FetchAdd
      <4>. QED
          BY Zenon, <1>4, <1>5, <2>2, <3>2, <3>5, <4>1, CountedFinite
          DEF Inv, TypeOK, CntOK, FetchAdd
    <3>. QED BY Zenon, <3>4, <3>5
  <2>5. QueueOK'
      BY Zenon, <1>2, <1>3 DEF Inv, QueueOK, FetchAdd
  <2>6. RegisteredOK'
      BY Zenon, <1>2, <1>3, <2>1 DEF Inv, TypeOK, RegisteredOK, Registered, FetchAdd
  <2>7. TargetOK'
      BY Zenon, <1>2, <2>1 DEF Inv, TypeOK, TargetOK, Unparkable, FetchAdd, blockerVars
  <2>8. CallOK'
      BY Zenon, <1>2, <1>3, <2>1 DEF Inv, TypeOK, CallOK, FlagsOK, FetchAdd, blockerVars
  <2>. QED BY Zenon, <1>1, <2>3, <2>4, <2>5, <2>6, <2>7, <2>8 DEF Inv
<1>. QED BY Zenon, <1>7, <1>8
\* An unlock either frees the lock, when no waiter is counted, or keeps the
\* baton to pass it on.  A waiter that unlocks on behalf of another is counted
\* itself, so it never frees the lock and parks.
LEMMA UnlockInv ==
    ASSUME CardinalityFacts, Inv, NEW c \in Calls, Unlock(c)
    PROVE  Inv'
<1>. DEFINE l == IF cnt > 1 THEN "pop" ELSE ret[c]
<1>1. Baton(c) /\ ~Owed(c) /\ \A x \in Calls : Baton(x) => x = c
    BY Zenon DEF Inv, OneBaton, Baton, Owed, Unlock
<1>2. cnt = Cardinality(Counted) + 1 /\ Cardinality(Counted) \in Nat
    BY Zenon, <1>1, CountedFinite DEF Inv, CntOK
<1>3. ret[c] = "park" => c \in Counted
  <2>1. ~Targeted(c)
      BY Zenon, <1>1 DEF Targeted, Baton, Unlock
  <2>. QED BY Zenon, <2>1 DEF Inv, RegisteredOK, Registered, CallOK, FlagsOK, Counted, Unlock
<1>4. l \in {"pop", "done", "canceled"} /\ (l = "pop" <=> Counted # {})
    BY <1>2, <1>3, CountedFinite DEF Inv, TypeOK
<1>5. pc' = [pc EXCEPT ![c] = l]
    BY Zenon DEF Unlock, Goto
<1>6. TypeOK'
    BY <1>2, <1>4, <1>5
    DEF Inv, TypeOK, Unlock, Labels, Ended, blockerVars, BlockerTypeOK
<1>7. \A x \in Calls : (Handed(x)' <=> Handed(x)) /\ (Targeted(x)' <=> Targeted(x))
    BY Zenon, <1>4, <1>5, SameHanded DEF Inv, Unlock, Labels, Ended, blockerVars
<1>8. Queued' = Queued /\ Counted' = Counted
    BY Zenon, <1>4, <1>5, CountedFinite DEF Inv, TypeOK, Unlock, Queued, Counted
<1>9. ~release[c]
    BY Zenon DEF Inv, CallOK, FlagsOK, Unlock
<1>10. \A x \in Calls : Baton(x)' <=> x = c /\ l = "pop"
    BY Zenon, <1>1, <1>4, <1>5, <1>7, <1>9 DEF Inv, TypeOK, Unlock, Baton, blockerVars
<1>11. OneBaton'
    BY Zenon, <1>10 DEF OneBaton
<1>12. CntOK'
  <2>1. l = "pop" => Owed(c)'
      BY Zenon, <1>5 DEF Inv, TypeOK, Owed
  <2>2. Counted = {} => cnt = 1
      BY <1>2, CardEmpty
  <2>. QED BY <1>2, <1>4, <1>8, <1>10, <2>1, <2>2 DEF CntOK, Unlock
<1>13. QueueOK'
    BY Zenon, <1>7, <1>8, CountedFinite DEF Inv, QueueOK, Unlock
<1>14. RegisteredOK'
  <2>1. l = "canceled" /\ ~Handed(c) => c \in Queued \/ Targeted(c)
      BY Zenon, <1>4, <1>9
      DEF Inv, TypeOK, RegisteredOK, Registered, CallOK, FlagsOK, Handed, Unlock
  <2>. QED
      BY Zenon, <1>4, <1>5, <1>7, <1>8, <2>1
      DEF Inv, TypeOK, RegisteredOK, Registered, Unlock
<1>15. TargetOK'
    BY ZenonT(40), <1>4, <1>5, <1>7 DEF Inv, TypeOK, TargetOK, Unparkable, Unlock, blockerVars
<1>16. CallOK'
    BY <1>4, <1>5, <1>7, <1>8, <1>9
    DEF Inv, TypeOK, CallOK, FlagsOK, Handed, Unlock, blockerVars
<1>. QED BY Zenon, <1>6, <1>11, <1>12, <1>13, <1>14, <1>15, <1>16 DEF Inv

\* A pop finds a waiter, takes it out of the queue and keeps the baton.
LEMMA PopInv ==
    ASSUME CardinalityFacts, Inv, NEW c \in Calls, Pop(c)
    PROVE  Inv'
<1>. DEFINE h == Head(to_wake)
<1>1. /\ h \in Calls /\ h \in Queued /\ Tail(to_wake) \in Seq(Calls)
      /\ Queued' = Queued \ {h} /\ IsInjective(to_wake')
    BY Zenon, QueueTail DEF Inv, TypeOK, QueueOK, Queued, Pop
<1>2. TypeOK'
    BY Zenon, <1>1 DEF Inv, TypeOK, Pop, Goto, Labels, blockerVars, BlockerTypeOK
<1>3. /\ ~Handed(h) /\ ~Targeted(h) /\ ret[h] = "park"
      /\ pc[h] \notin {"idle", "push", "guard", "held", "done", "would_block"}
    BY Zenon, <1>1 DEF Inv, QueueOK, CallOK, FlagsOK
<1>4. Baton(c) /\ Owed(c) /\ \A x \in Calls : Baton(x) => x = c
    BY Zenon DEF Inv, OneBaton, Baton, Owed, Pop
<1>5. \A x \in Calls : /\ Handed(x)' <=> Handed(x)
                       /\ Targeted(x)' <=> Targeted(x) \/ x = h
    BY Zenon DEF Inv, TypeOK, Handed, Targeted, Pop, Goto, blockerVars
<1>6. \A x \in Calls : Baton(x)' <=> x = c
    BY Zenon, <1>4, <1>5 DEF Inv, TypeOK, Baton, Pop, Goto, blockerVars
<1>7. OneBaton'
    BY Zenon, <1>6 DEF OneBaton
<1>8. CntOK'
  <2>1. Counted' = Counted \ {h}
      BY Zenon, <1>1, CountedFinite DEF Inv, TypeOK, Counted, Pop, Goto
  <2>2. cnt = Cardinality(Counted) /\ Counted # {}
      BY Zenon, <1>4 DEF Inv, CntOK
  <2>3. CASE pc[h] = "fetch_add"
    <3>1. Owed(c)' /\ Counted' = Counted
        BY Zenon, <1>1, <2>1, <2>3 DEF Inv, TypeOK, Owed, Counted, Pop, Goto
    <3>. QED BY Zenon, <1>6, <2>2, <3>1 DEF CntOK, Pop
  <2>4. CASE pc[h] # "fetch_add"
    <3>1. ~Owed(c)' /\ h \in Counted
        BY Zenon, <1>1, <2>4 DEF Inv, TypeOK, Owed, Counted, Pop, Goto
    <3>2. Cardinality(Counted \ {h}) = Cardinality(Counted) - 1
        BY Zenon, <3>1, CountedFinite, CardRemove DEF Inv
    <3>. QED BY <1>6, <2>1, <2>2, <3>1, <3>2, CountedFinite DEF Inv, CntOK, Pop
  <2>. QED BY Zenon, <2>3, <2>4
<1>9. QueueOK'
    BY Zenon, <1>1, <1>5, CountedFinite DEF Inv, QueueOK
<1>10. RegisteredOK'
    BY Zenon, <1>1, <1>5 DEF Inv, TypeOK, RegisteredOK, Registered, Pop, Goto
<1>11. TargetOK'
  <2>1. h = c \/ Unparkable(h)
    <3>1. h # c => pc[h] \notin {"guard", "held", "unlock", "pop", "unpark"}
        BY Zenon, <1>1, <1>4 DEF Baton
    <3>2. pc[h] # "retake"
        BY Zenon, <1>1, <1>3 DEF Inv, CallOK, FlagsOK, Handed
    <3>. QED BY Zenon, <1>1, <1>3, <3>1, <3>2 DEF Inv, TypeOK, Labels, Ended, Unparkable
  <2>2. \A x \in Calls : pc'[x] = "unpark" => x = c
      BY Zenon, <1>6 DEF Baton
  <2>. QED
      BY Zenon, <1>1, <1>3, <1>5, <2>1, <2>2
      DEF Inv, TypeOK, TargetOK, Unparkable, Pop, Goto, blockerVars
<1>12. CallOK'
    BY Zenon, <1>1, <1>3, <1>5 DEF Inv, TypeOK, CallOK, FlagsOK, Pop, Goto, blockerVars
<1>. QED BY Zenon, <1>2, <1>7, <1>8, <1>9, <1>10, <1>11, <1>12 DEF Inv
\* Unparking passes the baton from the unlocker to the waiter.
LEMMA UnparkInv ==
    ASSUME CardinalityFacts, Inv, NEW c \in Calls, Unpark(c)
    PROVE  Inv'
<1>. DEFINE t == target[c]
<1>1. /\ t \in Calls /\ ~Handed(t) /\ t \notin Queued /\ ret[t] = "park"
      /\ t = c \/ Unparkable(t)
    BY Zenon DEF Inv, TypeOK, TargetOK, QueueOK, Targeted, Unparkable, Unpark
<1>2. TypeOK'
    BY Zenon, <1>1
    DEF Inv, TypeOK, Unpark, BlockerUnpark, Goto, Labels, mutexVars, BlockerTypeOK
<1>3. Baton(c) /\ \A x \in Calls : Baton(x) => x = c
    BY Zenon DEF Inv, OneBaton, Baton, Unpark
<1>4. \A x \in Calls : pc[x] = "unpark" => x = c
    BY Zenon, <1>3 DEF Baton
<1>5. \A x \in Calls : Handed(x)' <=> Handed(x) \/ x = t
    BY Zenon, <1>1 DEF Inv, TypeOK, Handed, Unpark, BlockerUnpark, Goto, mutexVars
<1>6. \A x \in Calls : ~Targeted(x)'
    BY Zenon, <1>4 DEF Inv, TypeOK, Targeted, Unpark, Goto
<1>7. Queued' = Queued /\ Counted' = Counted
    BY Zenon, CountedFinite DEF Inv, TypeOK, Unpark, mutexVars, Queued, Counted, Goto
<1>8. \A x \in Calls : Baton(x)' <=> x = t
  <2>1. Baton(t)'
    <3>1. pc[t] \in {"recheck", "canceled"} => release[t]
        BY Zenon, <1>1 DEF Inv, CallOK, FlagsOK
    <3>. QED
        BY Zenon, <1>1, <1>5, <3>1
        DEF Inv, TypeOK, Baton, Unparkable, Unpark, BlockerUnpark, Goto
  <2>2. \A x \in Calls : x # t => ~Baton(x)'
    <3>1. c # t => ~(ret[c] = "park" /\ Handed(c))
        BY Zenon DEF Inv, CallOK, FlagsOK, Unpark
    <3>. QED
        BY Zenon, <1>3, <1>5, <3>1 DEF Inv, TypeOK, Baton, Unpark, BlockerUnpark, Goto
  <2>3. t' = t
      BY Zenon DEF Unpark
  <2>. QED BY Zenon, <1>1, <2>1, <2>2, <2>3
<1>9. OneBaton'
    BY Zenon, <1>8 DEF OneBaton
<1>10. CntOK'
  <2>1. Owed(t)' <=> Owed(c)
      BY Zenon, <1>1 DEF Inv, TypeOK, Owed, Unparkable, Unpark, Goto
  <2>. QED BY Zenon, <1>1, <1>3, <1>7, <1>8, <2>1 DEF Inv, CntOK, Unpark, mutexVars
<1>11. QueueOK'
    BY Zenon, <1>1, <1>5, <1>6, <1>7, CountedFinite DEF Inv, QueueOK, Unpark, mutexVars
<1>12. RegisteredOK'
  <2>1. \A x \in Calls : Targeted(x) => x = t
      BY Zenon, <1>4 DEF Targeted
  <2>. QED
      BY Zenon, <1>5, <1>7, <2>1
      DEF Inv, TypeOK, RegisteredOK, Registered, Unpark, Goto
<1>13. TargetOK'
    BY Zenon, <1>4 DEF Inv, TypeOK, TargetOK, Unpark, BlockerUnpark, Goto
<1>14. CallOK'
    BY <1>1, <1>5, <1>6, <1>7, <1>4
    DEF Inv, TypeOK, CallOK, FlagsOK, Unparkable, Unpark, BlockerUnpark, BlockerTypeOK,
        Goto
<1>. QED BY Zenon, <1>2, <1>9, <1>10, <1>11, <1>12, <1>13, <1>14 DEF Inv

\* Publishing the unpark changes nothing: the waiter was handed the lock
\* when it was unparked.
LEMMA UnparkStoreInv ==
    ASSUME CardinalityFacts, Inv, NEW c \in Calls, UnparkStore(c)
    PROVE  Inv'
<1>. DEFINE t == target[c]
<1>1. t \in Calls /\ Handed(t)
    BY Zenon DEF Inv, TypeOK, Handed, UnparkStore
<1>2. TypeOK'
    BY Zenon, <1>1
    DEF Inv, TypeOK, UnparkStore, StoreUnparked, Goto, Labels, mutexVars, BlockerTypeOK
<1>3. \A x \in Calls : unparked'[x] <=> unparked[x] \/ x = t
    BY Zenon, <1>1 DEF Inv, TypeOK, BlockerTypeOK, UnparkStore, StoreUnparked
<1>4. \A x \in Calls : Handed(x)' <=> Handed(x)
    BY Zenon, <1>1, <1>3 DEF Inv, TypeOK, Handed, UnparkStore, Goto
<1>5. \A x \in Calls : Targeted(x)' <=> Targeted(x)
    BY Zenon DEF Inv, TypeOK, Targeted, UnparkStore, Goto
<1>6. Queued' = Queued /\ Counted' = Counted
    BY Zenon, CountedFinite DEF Inv, TypeOK, UnparkStore, mutexVars, Queued, Counted, Goto
<1>7. \A x \in Calls : Baton(x)' <=> Baton(x)
    BY Zenon, <1>4 DEF Inv, TypeOK, Baton, UnparkStore, StoreUnparked, Goto
<1>8. OneBaton'
    BY Zenon, <1>7 DEF Inv, OneBaton
<1>9. CntOK'
  <2>1. \A x \in Calls : Owed(x)' <=> Owed(x)
      BY Zenon DEF Inv, TypeOK, Owed, UnparkStore, Goto
  <2>. QED BY Zenon, <1>6, <1>7, <2>1 DEF Inv, CntOK, UnparkStore, mutexVars
<1>10. QueueOK'
    BY Zenon, <1>4, <1>5, <1>6, CountedFinite DEF Inv, QueueOK, UnparkStore, mutexVars
<1>11. RegisteredOK'
    BY Zenon, <1>4, <1>5, <1>6 DEF Inv, TypeOK, RegisteredOK, Registered, UnparkStore, Goto
<1>12. TargetOK'
    BY ZenonT(40), <1>3, <1>4 DEF Inv, TypeOK, TargetOK, Unparkable, UnparkStore, Goto
<1>13. CallOK'
    BY Zenon, <1>3, <1>4, <1>5, <1>6
    DEF Inv, TypeOK, CallOK, FlagsOK, UnparkStore, StoreUnparked, Goto
<1>. QED BY Zenon, <1>2, <1>8, <1>9, <1>10, <1>11, <1>12, <1>13 DEF Inv

\* A waker that finds the release flag up takes the baton from the waiter
\* that gave up; one that finds it down returns without the baton.
LEMMA UnparkTakeReleaseInv ==
    ASSUME CardinalityFacts, Inv, NEW c \in Calls, UnparkTakeRelease(c)
    PROVE  Inv'
<1>. DEFINE t == target[c]
           l == IF release[t] THEN "unlock" ELSE ret[c]
<1>1. t \in Calls /\ Handed(t) /\ unparked[t]
    BY Zenon DEF Inv, TypeOK, TargetOK, Handed, UnparkTakeRelease
<1>2. pc' = [pc EXCEPT ![c] = l] /\ l \in {"unlock", "park", "done", "canceled"}
    BY Zenon DEF Inv, TypeOK, UnparkTakeRelease, Goto
<1>3. TypeOK'
    BY Zenon, <1>1, <1>2
    DEF Inv, TypeOK, UnparkTakeRelease, TakeRelease, Labels, Ended, mutexVars,
        BlockerTypeOK
<1>4. \A x \in Calls : (Handed(x)' <=> Handed(x)) /\ (Targeted(x)' <=> Targeted(x))
    BY Zenon, <1>2, SameHanded DEF Inv, UnparkTakeRelease, TakeRelease, Labels, Ended
<1>5. Queued' = Queued /\ Counted' = Counted
    BY Zenon, <1>2, CountedFinite
    DEF Inv, TypeOK, UnparkTakeRelease, mutexVars, Queued, Counted
<1>6. \A x \in Calls : release'[x] <=> release[x] /\ x # t
    BY Zenon, <1>1 DEF Inv, TypeOK, BlockerTypeOK, UnparkTakeRelease, TakeRelease
<1>7. ~release[c]
    BY Zenon DEF Inv, CallOK, FlagsOK, UnparkTakeRelease
<1>8. release[t] => Baton(t) /\ t # c
    BY Zenon, <1>1, <1>7 DEF Inv, CallOK, FlagsOK, Baton
<1>9. \A x \in Calls : Baton(x)' <=> IF release[t] THEN x = c ELSE Baton(x)
  <2>1. CASE release[t]
    <3>1. \A x \in Calls : Baton(x) => x = t
        BY Zenon, <1>1, <1>8, <2>1 DEF Inv, OneBaton
    <3>2. Baton(c)'
        BY Zenon, <1>2, <2>1 DEF Inv, TypeOK, Baton
    <3>3. \A x \in Calls : x # c => ~Baton(x)'
        BY Zenon, <1>1, <1>2, <1>4, <1>6, <2>1, <3>1
        DEF Inv, TypeOK, CallOK, FlagsOK, Baton, UnparkTakeRelease
    <3>. QED BY Zenon, <2>1, <3>2, <3>3
  <2>2. CASE ~release[t]
      BY Zenon, <1>1, <1>2, <1>4, <1>6, <1>7, <2>2
      DEF Inv, TypeOK, Baton, UnparkTakeRelease
  <2>. QED BY Zenon, <2>1, <2>2
<1>10. OneBaton'
    BY Zenon, <1>9 DEF Inv, OneBaton
<1>11. CntOK'
  <2>1. CASE release[t]
    <3>1. ~Owed(c)'
        BY Zenon, <1>2, <2>1 DEF Inv, TypeOK, Owed
    <3>2. ~Owed(t)
        BY Zenon, <1>1, <2>1 DEF Inv, CallOK, FlagsOK, Owed
    <3>. QED
        BY Zenon, <1>1, <1>5, <1>8, <1>9, <2>1, <3>1, <3>2
        DEF Inv, CntOK, UnparkTakeRelease, mutexVars
  <2>2. CASE ~release[t]
    <3>1. \A x \in Calls : Owed(x)' <=> Owed(x)
        BY Zenon, <1>2 DEF Inv, TypeOK, Owed, UnparkTakeRelease
    <3>. QED
        BY Zenon, <1>5, <1>9, <2>2, <3>1 DEF Inv, CntOK, UnparkTakeRelease, mutexVars
  <2>. QED BY Zenon, <2>1, <2>2
<1>12. QueueOK'
    BY Zenon, <1>4, <1>5, CountedFinite DEF Inv, QueueOK, UnparkTakeRelease, mutexVars
<1>13. RegisteredOK'
  <2>1. UNCHANGED ret /\ pc[c] = "take_release"
      BY Zenon DEF UnparkTakeRelease
  <2>2. \A x \in Calls : Registered(x)' /\ ~Handed(x) => Registered(x)
    <3>1. ASSUME NEW x \in Calls, x # c PROVE Registered(x)' => Registered(x)
      <4>1. pc'[x] = pc[x]
          BY Zenon, <1>2, <3>1 DEF Inv, TypeOK
      <4>. QED BY Zenon, <2>1, <4>1 DEF Registered
    <3>2. Registered(c)' /\ ~Handed(c) => Registered(c)
      <4>1. pc'[c] = l
          BY Zenon, <1>2 DEF Inv, TypeOK
      <4>2. ~Handed(c) => l # "canceled"
          BY Zenon, <2>1 DEF Inv, CallOK, FlagsOK, Handed
      <4>. QED BY Zenon, <1>2, <2>1, <4>1, <4>2 DEF Registered
    <3>. QED BY Zenon, <3>1, <3>2
  <2>. QED BY Zenon, <1>4, <1>5, <2>2 DEF Inv, RegisteredOK
<1>14. TargetOK'
  <2>1. release[t] => ~Targeted(c)
      BY Zenon, <1>1, <1>8 DEF Inv, OneBaton, Targeted, Baton, CallOK, FlagsOK
  <2>. QED
      BY <1>2, <1>4, <2>1
      DEF Inv, TypeOK, TargetOK, Targeted, Unparkable, UnparkTakeRelease, TakeRelease
<1>15. CallOK'
  <2>1. release[t] /\ ret[c] = "park" => ~Handed(c)
      BY Zenon, <1>1, <1>8 DEF Inv, OneBaton, Baton, UnparkTakeRelease
  <2>2. UNCHANGED <<token, unparked, ret>> /\ pc[c] = "take_release"
      BY Zenon DEF UnparkTakeRelease, TakeRelease
  <2>3. \A x \in Calls : FlagsOK(x)
      BY Zenon DEF Inv, CallOK
  <2>4. ASSUME NEW x \in Calls, x # c PROVE FlagsOK(x)'
    <3>1. pc'[x] = pc[x]
        BY Zenon, <1>2, <2>4 DEF Inv, TypeOK
    <3>2. pc[t] \in {"recheck", "canceled"} => Handed(t)
        BY Zenon, <1>1
    <3>. QED
        BY Zenon, <1>1, <1>4, <1>5, <1>6, <2>2, <2>3, <3>1, <3>2 DEF FlagsOK
  <2>5. FlagsOK(c)'
    <3>1. pc'[c] = l
        BY Zenon, <1>2 DEF Inv, TypeOK
    <3>2. ~release'[c]
        BY Zenon, <1>6, <1>7
    <3>3. ~Handed(c) => l # "canceled"
        BY Zenon, <2>2, <2>3 DEF FlagsOK, Handed
    <3>4. l = "park" => ret[c] = "park"
        BY Zenon, <1>2
    <3>. QED
        BY Zenon, <1>2, <1>4, <1>5, <2>1, <2>2, <2>3, <3>1, <3>2, <3>3, <3>4 DEF FlagsOK
  <2>. QED BY Zenon, <2>4, <2>5 DEF CallOK
<1>. QED BY Zenon, <1>3, <1>10, <1>11, <1>12, <1>13, <1>14, <1>15 DEF Inv
-----------------------------------------------------------------------------
\* The baton invariant is inductive: every step of every call keeps it.
LEMMA NextInv ==
    ASSUME CardinalityFacts, Disabled = {}, Inv, [Next]_vars
    PROVE  Inv'
<1>1. ASSUME NEW c \in Calls, Step(c) PROVE Inv'
    BY Zenon, <1>1, TryLockOkInv, TryLockWouldBlockInv, LockSlowInv, PushInv, FetchAddInv,
       LockParkOkInv, IsUnparkedInv, LockSetReleaseInv, RecheckInv, RetakeInv,
       GuardNewInv, GuardDropInv, UnlockInv, PopInv, UnparkInv, UnparkStoreInv,
       UnparkTakeReleaseInv
    DEF Step
<1>2. ASSUME NEW c \in Calls, LockParkCanceled(c) PROVE Inv'
    BY Zenon, <1>2, LockParkCanceledInv
<1>3. ASSUME UNCHANGED vars PROVE Inv'
  <2>1. TypeOK' /\ IsInjective(to_wake') = IsInjective(to_wake)
      BY Zenon, <1>3 DEF Inv, vars, TypeOK, BlockerTypeOK
  <2>2. Queued' = Queued /\ Counted' = Counted
      BY Zenon, <1>3 DEF vars, Queued, Counted
  <2>3. \A x : (Handed(x)' <=> Handed(x)) /\ (Targeted(x)' <=> Targeted(x))
      BY Zenon, <1>3 DEF vars, Handed, Targeted
  <2>4. \A x \in Calls : (Baton(x)' <=> Baton(x)) /\ (Owed(x)' <=> Owed(x))
      BY Zenon, <1>3, <2>3 DEF vars, Baton, Owed
  <2>5. OneBaton' /\ CntOK' /\ QueueOK'
      BY Zenon, <1>3, <2>1, <2>2, <2>3, <2>4 DEF Inv, vars, OneBaton, CntOK, QueueOK
  <2>6. RegisteredOK' /\ TargetOK' /\ CallOK'
      BY Zenon, <1>3, <2>2, <2>3
      DEF Inv, vars, RegisteredOK, Registered, TargetOK, Unparkable, CallOK, FlagsOK
  <2>. QED BY Zenon, <2>1, <2>5, <2>6 DEF Inv
<1>. QED BY Zenon, <1>1, <1>2, <1>3 DEF Next, AllEnded

\* A panic that ends a guard leaves the poison flag, and nobody holds the lock unnoticed.
LEMMA PoisonNext ==
    ASSUME Disabled = {}, Inv, PoisonReported, [Next]_vars
    PROVE  PoisonReported'
<1>1. ASSUME NEW c \in Calls, GuardDrop(c) PROVE PoisonReported'
  <2>1. \A d \in Calls : pc'[d] # "held"
    <3>1. \A d \in Calls : pc[d] = "held" => d = c
        BY Zenon, <1>1 DEF Inv, OneBaton, Baton, GuardDrop
    <3>. QED BY Zenon, <1>1, <3>1 DEF Inv, TypeOK, GuardDrop, Goto
  <2>. QED BY Zenon, <2>1 DEF PoisonReported
<1>2. ASSUME NEW c \in Calls, GuardNew(c) PROVE PoisonReported'
    BY Zenon, <1>2 DEF Inv, TypeOK, PoisonReported, GuardNew, Goto, mutexVars
<1>3. ASSUME UNCHANGED <<failed, saw>>, \A d \in Calls : pc'[d] = "held" => pc[d] = "held"
      PROVE  PoisonReported'
    BY Zenon, <1>3 DEF PoisonReported
<1>4. ASSUME NEW c \in Calls, Step(c) \/ LockParkCanceled(c), ~GuardDrop(c), ~GuardNew(c)
      PROVE  /\ UNCHANGED <<failed, saw>>
             /\ \A d \in Calls : pc'[d] = "held" => pc[d] = "held"
  <2>. DEFINE Quiet == /\ UNCHANGED <<failed, saw>>
                       /\ \A d \in Calls : pc'[d] = "held" => pc[d] = "held"
  <2>1. pc \in [Calls -> Labels]
      BY Zenon DEF Inv, TypeOK
  <2>2. ASSUME TryLockOk(c) \/ TryLockWouldBlock(c) \/ LockSlow(c) PROVE Quiet
      BY Zenon, <2>1, <2>2 DEF TryLockOk, TryLockWouldBlock, LockSlow, Goto, mutexVars
  <2>3. ASSUME Push(c) \/ FetchAdd(c) PROVE Quiet
      BY Zenon, <2>1, <2>3 DEF Push, FetchAdd, Goto
  <2>4. ASSUME LockParkOk(c) \/ LockParkCanceled(c) \/ LockSetRelease(c) PROVE Quiet
      BY Zenon, <2>1, <2>4 DEF LockParkOk, LockParkCanceled, LockSetRelease, Goto, mutexVars
  <2>5. ASSUME IsUnparked(c) \/ Recheck(c) \/ Retake(c) PROVE Quiet
      BY Zenon, <2>1, <2>5
      DEF IsUnparked, Recheck, Retake, GotWhileCanceled, NotGotWhileCanceled, Goto, mutexVars
  <2>6. ASSUME Unpark(c) \/ UnparkStore(c) \/ Pop(c) PROVE Quiet
      BY Zenon, <2>1, <2>6 DEF Unpark, UnparkStore, Pop, Goto, mutexVars
  <2>7. ASSUME Unlock(c) \/ UnparkTakeRelease(c) PROVE Quiet
      BY <2>1, <2>7 DEF Inv, TypeOK, Unlock, UnparkTakeRelease, Goto, mutexVars
  <2>. QED BY Zenon, <1>4, <2>2, <2>3, <2>4, <2>5, <2>6, <2>7 DEF Step
<1>5. ASSUME UNCHANGED vars PROVE PoisonReported'
    BY Zenon, <1>5 DEF vars, PoisonReported
<1>. QED BY Zenon, <1>1, <1>2, <1>3, <1>4, <1>5 DEF Next, AllEnded
-----------------------------------------------------------------------------
(* The mutex implements AbstractLock.                                      *)

\* A step of call c changes the status of c only.
LEMMA StatusStep ==
    ASSUME TypeOK, NEW c \in Calls, NEW l \in Labels, pc' = [pc EXCEPT ![c] = l],
           \A x \in Calls \ {c} : ret'[x] = ret[x]
    PROVE  status' = [status EXCEPT ![c] = status'[c]]
<1>1. \A x \in Calls \ {c} : status'[x] = status[x]
    BY Zenon DEF TypeOK, status, Holders
<1>2. /\ status = [x \in Calls |-> status[x]]
      /\ status' = [x \in Calls |-> status'[x]]
    BY Zenon DEF status
<1>. QED BY Zenon, <1>1, <1>2

\* A call becomes the holder only when no other call holds the lock.
LEMMA AcquireWhenFree ==
    ASSUME CardinalityFacts, Inv, NEW c \in Calls, TryLockOk(c) \/ LockParkOk(c)
    PROVE  Holders = {}
<1>1. CASE TryLockOk(c)
    BY <1>1, CountedFinite DEF Inv, CntOK, TryLockOk, Holders, Baton
<1>2. CASE LockParkOk(c)
  <2>1. Baton(c) /\ c \notin Holders
      BY Zenon, <1>2 DEF Inv, CallOK, FlagsOK, Baton, LockParkOk, ParkOk, Holders
  <2>. QED BY Zenon, <2>1 DEF Inv, OneBaton, Holders, Baton
<1>. QED BY Zenon, <1>1, <1>2

\* Every step is a step of AbstractLock or leaves its state alone.
LEMMA LockNext ==
    ASSUME CardinalityFacts, Disabled = {}, Inv, NEW c \in Calls, Step(c) \/ LockParkCanceled(c)
    PROVE  [Lock!Next]_status
<1>1. ASSUME NEW l \in Labels, pc' = [pc EXCEPT ![c] = l],
             \A x \in Calls \ {c} : ret'[x] = ret[x],
             <<status[c], status'[c]>> \in
                 {<<"idle", "waiting">>, <<"idle", "held">>, <<"idle", "gone">>,
                  <<"waiting", "held">>, <<"waiting", "gone">>, <<"held", "gone">>}
             \/ status'[c] = status[c],
             status'[c] = "held" /\ status[c] # "held" => Holders = {}
      PROVE  [Lock!Next]_status
  <2>1. status' = [status EXCEPT ![c] = status'[c]]
      BY Zenon, <1>1, StatusStep DEF Inv
  <2>2. CASE status'[c] = status[c]
    <3>1. status' = status
        BY Zenon, <2>1, <2>2 DEF status
    <3>. QED BY Zenon, <3>1
  <2>3. CASE status'[c] # status[c]
    <3>1. Holders = {} => Lock!Free
        BY Zenon DEF Lock!Free, status
    <3>2. Lock!Wait(c) \/ Lock!Acquire(c) \/ Lock!Refuse(c) \/ Lock!Release(c)
        BY Zenon, <1>1, <2>1, <2>3, <3>1
        DEF Lock!Wait, Lock!Acquire, Lock!Refuse, Lock!Release, Lock!Become
    <3>. QED BY Zenon, <3>2 DEF Lock!Next
  <2>. QED BY Zenon, <2>2, <2>3
<1>2. CASE TryLockOk(c)
  <2>1. Holders = {}
      BY Zenon, <1>2, AcquireWhenFree
  <2>2. status[c] = "idle" /\ status'[c] = "held"
      BY Zenon, <1>2 DEF Inv, TypeOK, status, Holders, TryLockOk, Goto
  <2>. QED BY Zenon, <1>1, <1>2, <2>1, <2>2 DEF TryLockOk, Goto, Labels
<1>3. CASE LockParkOk(c)
  <2>1. Holders = {}
      BY Zenon, <1>3, AcquireWhenFree
  <2>2. status[c] = "waiting" /\ status'[c] = "held"
      BY Zenon, <1>3
      DEF Inv, TypeOK, CallOK, FlagsOK, status, Holders, LockParkOk, Goto, Ended
  <2>. QED BY Zenon, <1>1, <1>3, <2>1, <2>2 DEF LockParkOk, Goto, Labels
<1>4. CASE TryLockWouldBlock(c)
  <2>1. status[c] = "idle" /\ status'[c] = "gone"
      BY Zenon, <1>4 DEF Inv, TypeOK, status, Holders, TryLockWouldBlock, Goto, Ended
  <2>. QED BY Zenon, <1>1, <1>4, <2>1 DEF TryLockWouldBlock, Goto, Labels, Ended
<1>5. CASE LockSlow(c)
  <2>1. status[c] = "idle" /\ status'[c] = "waiting"
      BY Zenon, <1>5
      DEF Inv, TypeOK, CallOK, FlagsOK, status, Holders, LockSlow, Goto, Ended
  <2>. QED BY Zenon, <1>1, <1>5, <2>1 DEF LockSlow, Goto, Labels
<1>6. CASE GuardDrop(c)
  <2>1. status[c] = "held" /\ status'[c] = "gone"
      BY Zenon, <1>6 DEF Inv, TypeOK, status, Holders, GuardDrop, Goto
  <2>2. \A x \in Calls \ {c} : ret'[x] = ret[x]
      BY Zenon, <1>6 DEF Inv, TypeOK, GuardDrop
  <2>. QED BY Zenon, <1>1, <1>6, <2>1, <2>2 DEF GuardDrop, Goto, Labels
<1>7. CASE IsUnparked(c) \/ Recheck(c) \/ Retake(c)
  <2>1. /\ status[c] = "waiting" /\ status'[c] \in {"waiting", "gone"}
        /\ \A x \in Calls \ {c} : ret'[x] = ret[x]
      BY Zenon, <1>7
      DEF Inv, TypeOK, CallOK, FlagsOK, status, Holders, IsUnparked, Recheck, Retake,
          GotWhileCanceled, NotGotWhileCanceled, Goto, Ended
  <2>2. \E l \in Labels : pc' = [pc EXCEPT ![c] = l]
      BY Zenon, <1>7
      DEF IsUnparked, Recheck, Retake, GotWhileCanceled, NotGotWhileCanceled, Goto,
          Labels, Ended
  <2>. QED BY Zenon, <1>1, <2>1, <2>2
<1>8. CASE Push(c) \/ FetchAdd(c) \/ LockParkCanceled(c) \/ LockSetRelease(c)
           \/ Pop(c) \/ Unpark(c) \/ UnparkStore(c)
  <2>1. status'[c] = status[c] /\ ret' = ret
      BY Zenon, <1>8
      DEF Inv, TypeOK, status, Holders, Push, FetchAdd, LockParkCanceled,
          LockSetRelease, Pop, Unpark, UnparkStore, Goto, Ended
  <2>2. \E l \in Labels : pc' = [pc EXCEPT ![c] = l]
      BY Zenon, <1>8
      DEF Push, FetchAdd, LockParkCanceled, LockSetRelease, Pop, Unpark, UnparkStore,
          Goto, Labels, Ended
  <2>. QED BY Zenon, <1>1, <2>1, <2>2
<1>9. CASE Unlock(c) \/ UnparkTakeRelease(c)
  <2>1. status'[c] = status[c] /\ ret' = ret
      BY Zenon, <1>9
      DEF Inv, TypeOK, status, Holders, Unlock, UnparkTakeRelease, Goto, Ended
  <2>2. \E l \in Labels : pc' = [pc EXCEPT ![c] = l]
      BY Zenon, <1>9 DEF Inv, TypeOK, Unlock, UnparkTakeRelease, Goto, Labels, Ended
  <2>. QED BY Zenon, <1>1, <2>1, <2>2
<1>10. CASE GuardNew(c)
  <2>1. status'[c] = status[c] /\ ret' = ret
      BY Zenon, <1>10 DEF Inv, TypeOK, status, Holders, GuardNew, Goto
  <2>. QED BY Zenon, <1>1, <1>10, <2>1 DEF GuardNew, Goto, Labels
<1>. QED BY Zenon, <1>2, <1>3, <1>4, <1>5, <1>6, <1>7, <1>8, <1>9, <1>10 DEF Step

-----------------------------------------------------------------------------
(* The theorems.                                                           *)

INSTANCE FiniteSetTheorems

\* The facts on finite sets that the lemmas above assume.
LEMMA CardinalityHolds == CardinalityFacts
<1>1. \A S : IsFiniteSet(S) => Cardinality(S) \in Nat
    BY Zenon, FS_CardinalityType
<1>2. \A n \in Nat : IsFiniteSet(1..n) /\ Cardinality(1..n) = n
    BY FS_Interval
<1>3. \A S, T : \A f \in Surjection(S, T) :
          IsFiniteSet(S) => IsFiniteSet(T) /\ Cardinality(T) <= Cardinality(S)
    BY Zenon, FS_Surjection
<1>4. \A S : \A T \in SUBSET S :
          IsFiniteSet(S) => /\ IsFiniteSet(T) /\ Cardinality(T) <= Cardinality(S)
                            /\ Cardinality(S) = Cardinality(T) => S = T
    BY Zenon, FS_Subset
<1>. QED
    BY Zenon, <1>1, <1>2, <1>3, <1>4, FS_EmptySet, FS_Singleton, FS_AddElement, FS_RemoveElement
    DEF CardinalityFacts

\* mutex.rs:61-150, any number of calls.  The baton invariant holds always.
THEOREM InvAlways ==
    ASSUME Disabled = {}
    PROVE  Spec => []Inv
<1>. USE CardinalityHolds
<1>1. Inv /\ [Next]_vars => Inv'
    BY NextInv
<1>. QED BY InitInv, <1>1, PTL DEF Spec

\* mutex.rs:41-46.  The fields keep their types; in particular the usize cnt
\* never goes below zero.
THEOREM TypeCorrect ==
    ASSUME Disabled = {}
    PROVE  Spec => []TypeOK
BY InvAlways, PTL DEF Inv

\* mutex.rs:61-122, 146-150.  At most one call holds the lock, for any number
\* of lockers, unlockers and cancelled waiters.
THEOREM Exclusion ==
    ASSUME Disabled = {}
    PROVE  Spec => []MutualExclusion
<1>1. Inv => MutualExclusion
    BY DEF Inv, OneBaton, Baton, MutualExclusion, Holders
<1>. QED BY InvAlways, <1>1, PTL

\* mpsc_list.rs:22-24.  The mutex keeps the queue's one-popper rule.
THEOREM SingleConsumer ==
    ASSUME Disabled = {}
    PROVE  Spec => []OnePopper
<1>1. Inv => OnePopper
    BY DEF Inv, OneBaton, Baton, OnePopper
<1>. QED BY InvAlways, <1>1, PTL

\* mutex.rs:78.  The expect "got null blocker!" never panics, and unlock never
\* loses the lock to an empty queue.
THEOREM NeverNullBlocker ==
    ASSUME Disabled = {}
    PROVE  Spec => []PopFindsBlocker
<1>1. Inv => PopFindsBlocker
  <2>. SUFFICES ASSUME Inv, NEW c \in Calls, pc[c] = "pop" PROVE to_wake # <<>>
      BY Zenon DEF PopFindsBlocker
  <2>1. Counted # {}
      BY Zenon DEF Inv, CntOK, Baton, Owed
  <2>2. to_wake = <<>> => Queued = {}
      BY DEF Queued, Range
  <2>. QED BY <2>1, <2>2 DEF Counted
<1>. QED BY InvAlways, <1>1, PTL

\* poison.rs:20-45, mutex.rs:217-225.  A guard that says "not poisoned" stays
\* right as long as it is held.
THEOREM PoisonSafe ==
    ASSUME Disabled = {}
    PROVE  Spec => []PoisonReported
<1>1. Init => PoisonReported
    BY Zenon DEF Init, PoisonReported
<1>2. Inv /\ PoisonReported /\ [Next]_vars => PoisonReported'
    BY PoisonNext
<1>. QED BY InvAlways, <1>1, <1>2, PTL DEF Spec

\* mutex.rs:61-150.  Every behaviour of the mutex is a behaviour of a lock.
THEOREM Refinement ==
    ASSUME Disabled = {}
    PROVE  Spec => ImplementsLock
<1>1. Init => Lock!Init
    BY Zenon DEF Init, Lock!Init, status
<1>2. ASSUME Inv, NEW c \in Calls, Step(c) \/ LockParkCanceled(c)
      PROVE  [Lock!Next]_status
    BY Zenon, CardinalityHolds, <1>2, LockNext
<1>3. ASSUME UNCHANGED vars PROVE status' = status
    BY Zenon, <1>3 DEF vars, status, Holders
<1>4. Inv /\ [Next]_vars => [Lock!Next]_status
    BY <1>2, <1>3 DEF Next, AllEnded
<1>. QED BY InvAlways, <1>1, <1>4, PTL DEF Spec, ImplementsLock, Lock!Spec
=============================================================================
