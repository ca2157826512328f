---------------------------- MODULE RwLockProofs ----------------------------
(***************************************************************************)
(* RwLock: a write guard is exclusive, for any number of readers and       *)
(* writers of which any may be cancelled while it waits or while it drops  *)
(* its guard, as long as the lock is not poisoned.                         *)
(***************************************************************************)
EXTENDS RwLock, CollectionLemmas

-----------------------------------------------------------------------------
(* The inductive invariant.                                                *)

\* The calls that have rlock: readers from the return of its lock() until they
\* release it, also while they wait for the global lock.
HasRLock(c) ==
    \/ pc[c] \in {"have_rlock", "count", "uncount", "rlock_unlock"}
    \/ Reading(c) /\ pc[c] \in {"load", "cas", "reg", "park"}

\* The read guards that are counted, those included that a cancelled drop leaked.
Counted ==
    {c \in Calls : /\ Reading(c)
                   /\ \/ pc[c] \in {"held", "drop", "drop_reg", "drop_park", "uncount", "leaked"}
                      \/ pc[c] = "rlock_unlock" /\ ret[c] = "held"}

\* The global lock belongs to a writer, or to the readers together.
HasLock(c) == ~Reading(c) /\ pc[c] \in {"held", "unlock"}
ReadersHaveLock == readers > 0 \/ \E c \in Calls : pc[c] = "count"

\* Readers and writers go their own ways.
KindInv ==
    \A c \in Calls :
        /\ pc[c] \in {"rlock", "rlock_reg", "rlock_park", "have_rlock", "count", "drop", "drop_reg",
                      "drop_park", "uncount", "rlock_unlock", "leaked"} => Reading(c)
        /\ pc[c] = "unlock" => ~Reading(c)
        /\ pc[c] = "rlock_unlock" => ret[c] # "leaked"

\* rlock is a mutex.
RLockInv ==
    /\ \A c, d \in Calls : HasRLock(c) /\ HasRLock(d) => c = d
    /\ (\E c \in Calls : HasRLock(c)) => Units(rlock) = 0
    /\ (\A c \in Calls : ~HasRLock(c)) => Units(rlock) = 1

\* The counter counts, and does not change while a reader waits for the lock.
CountInv ==
    /\ readers = Cardinality(Counted)
    /\ \A c \in Calls : Reading(c) /\ pc[c] \in {"load", "cas", "reg", "park"} => readers = 0

\* The global lock is a mutex between the writers and the readers.
LockInv ==
    /\ \A c, d \in Calls : HasLock(c) /\ HasLock(d) => c = d
    /\ \A c \in Calls : HasLock(c) => ~ReadersHaveLock
    /\ ReadersHaveLock \/ (\E c \in Calls : HasLock(c)) => Units(lock) = 0
    /\ ~ReadersHaveLock /\ (\A c \in Calls : ~HasLock(c)) => Units(lock) = 1

\* The types of the variables that are not mutexes.
LocalTypeOK ==
    /\ readers \in Nat
    /\ poison \in BOOLEAN
    /\ kind \in [Calls -> Kinds]
    /\ pc \in [Calls -> Labels]
    /\ ret \in [Calls -> Ended \cup {"held"}]

Inv == KindInv /\ RLockInv /\ CountInv /\ LockInv

-----------------------------------------------------------------------------
(* The two mutexes, seen through the contract.                             *)

\* What the operations of rlock do to its units.
LEMMA RLockOps ==
    ASSUME rlock \in SemType(Calls)
    PROVE  /\ RLock!TryWait =>
                 rlock' \in SemType(Calls) /\ Units(rlock) > 0 /\ Units(rlock') = Units(rlock) - 1
           /\ \A c \in Calls : RLock!Register(c) => rlock' \in SemType(Calls)
                /\ Units(rlock') = Units(rlock)
           /\ \A c \in Calls : RLock!Return(c) =>
                 rlock' \in SemType(Calls) /\ Units(rlock) > 0 /\ Units(rlock') = Units(rlock) - 1
           /\ \A c \in Calls : RLock!GiveUp(c) => rlock' \in SemType(Calls)
                /\ Units(rlock') = Units(rlock)
           /\ RLock!Post => rlock' \in SemType(Calls) /\ Units(rlock') = Units(rlock) + 1
           /\ RLock!Repost => rlock' \in SemType(Calls) /\ Units(rlock') = Units(rlock)
           /\ Units(rlock) \in Nat
<1>1. RLock!TryWait => rlock' \in SemType(Calls) /\ Units(rlock) > 0
          /\ Units(rlock') = Units(rlock) - 1
    BY Zenon, UnitsTryWait DEF RLock!TryWait, SemTryWait
<1>2. ASSUME NEW c \in Calls, RLock!Register(c)
      PROVE  rlock' \in SemType(Calls) /\ Units(rlock') = Units(rlock)
  <2>1. rlock' = SemRegister(rlock, c)
      BY Zenon, <1>2 DEF RLock!Register, SemRegister
  <2>. QED BY <2>1, UnitsRegister
<1>3. ASSUME NEW c \in Calls, RLock!Return(c)
      PROVE  rlock' \in SemType(Calls) /\ Units(rlock) > 0 /\ Units(rlock') = Units(rlock) - 1
  <2>1. rlock' = SemReturn(rlock, c)
      BY Zenon, <1>3 DEF RLock!Return, SemReturn
  <2>2. rlock.owed > 0
      BY Zenon, <1>3 DEF RLock!Return
  <2>. QED BY Zenon, <2>1, <2>2, UnitsReturn
<1>4. ASSUME NEW c \in Calls, RLock!GiveUp(c)
      PROVE  rlock' \in SemType(Calls) /\ Units(rlock') = Units(rlock)
  <2>1. rlock' = SemGiveUp(rlock, c)
      BY Zenon, <1>4 DEF RLock!GiveUp, SemGiveUp
  <2>. QED BY Zenon, <2>1, UnitsGiveUp
<1>5. ASSUME RLock!Post
      PROVE  rlock' \in SemType(Calls) /\ Units(rlock') = Units(rlock) + 1
  <2>1. rlock' = SemPost(rlock)
      BY Zenon, <1>5 DEF RLock!Post, SemPost
  <2>. QED BY Zenon, <2>1, UnitsPost
<1>6. ASSUME RLock!Repost
      PROVE  rlock' \in SemType(Calls) /\ Units(rlock') = Units(rlock)
  <2>1. rlock' = SemRepost(rlock)
      BY Zenon, <1>6 DEF RLock!Repost, SemRepost
  <2>2. rlock.ghosts > 0 /\ rlock.owed > 0
      BY Zenon, <1>6 DEF RLock!Repost
  <2>. QED BY Zenon, <2>1, <2>2, UnitsRepost
<1>7. Units(rlock) \in Nat
    BY DEF SemType, Units
<1>. QED BY Zenon, <1>1, <1>2, <1>3, <1>4, <1>5, <1>6, <1>7

\* What the operations of the global lock do to its units.
LEMMA LockOps ==
    ASSUME lock \in SemType(Calls)
    PROVE  /\ Lock!TryWait =>
                 lock' \in SemType(Calls) /\ Units(lock) > 0 /\ Units(lock') = Units(lock) - 1
           /\ \A c \in Calls : Lock!Register(c) => lock' \in SemType(Calls)
                /\ Units(lock') = Units(lock)
           /\ \A c \in Calls : Lock!Return(c) =>
                 lock' \in SemType(Calls) /\ Units(lock) > 0 /\ Units(lock') = Units(lock) - 1
           /\ \A c \in Calls : Lock!GiveUp(c) => lock' \in SemType(Calls)
                /\ Units(lock') = Units(lock)
           /\ Lock!Post => lock' \in SemType(Calls) /\ Units(lock') = Units(lock) + 1
           /\ Lock!Repost => lock' \in SemType(Calls) /\ Units(lock') = Units(lock)
           /\ Units(lock) \in Nat
<1>1. Lock!TryWait => lock' \in SemType(Calls) /\ Units(lock) > 0 /\ Units(lock') = Units(lock) - 1
    BY Zenon, UnitsTryWait DEF Lock!TryWait, SemTryWait
<1>2. ASSUME NEW c \in Calls, Lock!Register(c)
      PROVE  lock' \in SemType(Calls) /\ Units(lock') = Units(lock)
  <2>1. lock' = SemRegister(lock, c)
      BY Zenon, <1>2 DEF Lock!Register, SemRegister
  <2>. QED BY <2>1, UnitsRegister
<1>3. ASSUME NEW c \in Calls, Lock!Return(c)
      PROVE  lock' \in SemType(Calls) /\ Units(lock) > 0 /\ Units(lock') = Units(lock) - 1
  <2>1. lock' = SemReturn(lock, c)
      BY Zenon, <1>3 DEF Lock!Return, SemReturn
  <2>2. lock.owed > 0
      BY Zenon, <1>3 DEF Lock!Return
  <2>. QED BY Zenon, <2>1, <2>2, UnitsReturn
<1>4. ASSUME NEW c \in Calls, Lock!GiveUp(c)
      PROVE  lock' \in SemType(Calls) /\ Units(lock') = Units(lock)
  <2>1. lock' = SemGiveUp(lock, c)
      BY Zenon, <1>4 DEF Lock!GiveUp, SemGiveUp
  <2>. QED BY Zenon, <2>1, UnitsGiveUp
<1>5. ASSUME Lock!Post
      PROVE  lock' \in SemType(Calls) /\ Units(lock') = Units(lock) + 1
  <2>1. lock' = SemPost(lock)
      BY Zenon, <1>5 DEF Lock!Post, SemPost
  <2>. QED BY Zenon, <2>1, UnitsPost
<1>6. ASSUME Lock!Repost
      PROVE  lock' \in SemType(Calls) /\ Units(lock') = Units(lock)
  <2>1. lock' = SemRepost(lock)
      BY Zenon, <1>6 DEF Lock!Repost, SemRepost
  <2>2. lock.ghosts > 0 /\ lock.owed > 0
      BY Zenon, <1>6 DEF Lock!Repost
  <2>. QED BY Zenon, <2>1, <2>2, UnitsRepost
<1>7. Units(lock) \in Nat
    BY DEF SemType, Units
<1>. QED BY Zenon, <1>1, <1>2, <1>3, <1>4, <1>5, <1>6, <1>7

-----------------------------------------------------------------------------
(* Types.                                                                  *)

\* What the types of the two records say.
LEMMA SemTypes == TypeOK <=> /\ rlock \in SemType(Calls) /\ lock \in SemType(Calls)
                             /\ LocalTypeOK
BY Zenon DEF TypeOK, LocalTypeOK, SemType, RLock!TypeOK, Lock!TypeOK

\* Every step keeps the mutexes to their types.
LEMMA SemTypesNext ==
    ASSUME rlock \in SemType(Calls), lock \in SemType(Calls), [Next]_vars
    PROVE  rlock' \in SemType(Calls) /\ lock' \in SemType(Calls)
<1>. DEFINE Goal == rlock' \in SemType(Calls) /\ lock' \in SemType(Calls)
<1>1. ASSUME NEW c \in Calls, Start(c) PROVE Goal
    BY Zenon, <1>1 DEF Start
<1>2. ASSUME NEW c \in Calls, RLockTry(c) PROVE Goal
    BY Zenon, <1>2, RLockOps DEF RLockTry
<1>3. ASSUME NEW c \in Calls, RLockRegister(c) PROVE Goal
    BY Zenon, <1>3, RLockOps DEF RLockRegister
<1>4. ASSUME NEW c \in Calls, RLockReturn(c) PROVE Goal
    BY Zenon, <1>4, RLockOps DEF RLockReturn
<1>5. ASSUME NEW c \in Calls, RLockCanceled(c) PROVE Goal
    BY Zenon, <1>5, RLockOps DEF RLockCanceled
<1>6. ASSUME NEW c \in Calls, RLockUnlock(c) PROVE Goal
    BY Zenon, <1>6, RLockOps DEF RLockUnlock
<1>7. ASSUME NEW c \in Calls, HaveRLock(c) PROVE Goal
    BY Zenon, <1>7 DEF HaveRLock
<1>8. ASSUME NEW c \in Calls, LockLoad(c) PROVE Goal
    BY Zenon, <1>8 DEF LockLoad
<1>9. ASSUME NEW c \in Calls, LockCas(c) PROVE Goal
    BY Zenon, <1>9, LockOps DEF LockCas
<1>10. ASSUME NEW c \in Calls, LockRegister(c) PROVE Goal
    BY Zenon, <1>10, LockOps DEF LockRegister
<1>11. ASSUME NEW c \in Calls, LockReturn(c) PROVE Goal
    BY Zenon, <1>11, LockOps DEF LockReturn
<1>12. ASSUME NEW c \in Calls, LockCanceled(c) PROVE Goal
    BY Zenon, <1>12, LockOps DEF LockCanceled
<1>13. ASSUME NEW c \in Calls, Count(c) PROVE Goal
    BY Zenon, <1>13 DEF Count
<1>14. ASSUME NEW c \in Calls, Drop(c) PROVE Goal
    BY Zenon, <1>14 DEF Drop
<1>15. ASSUME NEW c \in Calls, Uncount(c) PROVE Goal
    BY Zenon, <1>15, LockOps DEF Uncount
<1>16. ASSUME NEW c \in Calls, WriteUnlock(c) PROVE Goal
    BY Zenon, <1>16, LockOps DEF WriteUnlock
<1>17. CASE Repost
    BY Zenon, <1>17, RLockOps, LockOps DEF Repost
<1>18. CASE UNCHANGED vars
    BY Zenon, <1>18 DEF vars
<1>. HIDE DEF Goal
<1>. QED
    BY Zenon, <1>1, <1>2, <1>3, <1>4, <1>5, <1>6, <1>7, <1>8, <1>9, <1>10, <1>11, <1>12, <1>13,
       <1>14,
       <1>15, <1>16, <1>17, <1>18 DEF Next, Step, Cancel, Goal

\* And the other variables.
LEMMA LocalTypeNext ==
    ASSUME LocalTypeOK, [Next]_vars
    PROVE  LocalTypeOK'
<1>. USE DEF LocalTypeOK, Labels, Ended, Kinds, Goto
<1>1. ASSUME NEW c \in Calls, Start(c) PROVE LocalTypeOK'
    BY <1>1 DEF Start
<1>2. ASSUME NEW c \in Calls, RLockTry(c) PROVE LocalTypeOK'
    BY Zenon, <1>2 DEF RLockTry
<1>3. ASSUME NEW c \in Calls, RLockRegister(c) PROVE LocalTypeOK'
    BY Zenon, <1>3 DEF RLockRegister
<1>4. ASSUME NEW c \in Calls, RLockReturn(c) PROVE LocalTypeOK'
    BY Zenon, <1>4 DEF RLockReturn
<1>5. ASSUME NEW c \in Calls, RLockCanceled(c) PROVE LocalTypeOK'
    BY Zenon, <1>5 DEF RLockCanceled
<1>6. ASSUME NEW c \in Calls, RLockUnlock(c) PROVE LocalTypeOK'
    BY Zenon, <1>6 DEF RLockUnlock
<1>7. ASSUME NEW c \in Calls, HaveRLock(c) PROVE LocalTypeOK'
    BY Zenon, <1>7 DEF HaveRLock
<1>8. ASSUME NEW c \in Calls, LockLoad(c) PROVE LocalTypeOK'
    BY <1>8 DEF LockLoad, WouldBlock, ReleaseThen
<1>9. ASSUME NEW c \in Calls, LockCas(c) PROVE LocalTypeOK'
    BY <1>9 DEF LockCas, WouldBlock, ReleaseThen, Granted
<1>10. ASSUME NEW c \in Calls, LockRegister(c) PROVE LocalTypeOK'
    BY Zenon, <1>10 DEF LockRegister
<1>11. ASSUME NEW c \in Calls, LockReturn(c) PROVE LocalTypeOK'
    BY Zenon, <1>11 DEF LockReturn, Granted
<1>12. ASSUME NEW c \in Calls, LockCanceled(c) PROVE LocalTypeOK'
    BY <1>12 DEF LockCanceled, ReleaseThen
<1>13. ASSUME NEW c \in Calls, Count(c) PROVE LocalTypeOK'
    BY <1>13 DEF Count, ReleaseThen
<1>14. ASSUME NEW c \in Calls, Drop(c) PROVE LocalTypeOK'
    BY Zenon, <1>14 DEF Drop
<1>15. ASSUME NEW c \in Calls, Uncount(c) PROVE LocalTypeOK'
    BY <1>15 DEF Uncount, ReleaseThen, CountDown, UsizeMax
<1>16. ASSUME NEW c \in Calls, WriteUnlock(c) PROVE LocalTypeOK'
    BY Zenon, <1>16 DEF WriteUnlock
<1>17. CASE Repost
    BY Zenon, <1>17 DEF Repost
<1>18. CASE UNCHANGED vars
    BY Zenon, <1>18 DEF vars
<1>. HIDE DEF LocalTypeOK, Labels, Ended, Kinds, Goto
<1>. QED
    BY Zenon, <1>1, <1>2, <1>3, <1>4, <1>5, <1>6, <1>7, <1>8, <1>9, <1>10, <1>11, <1>12, <1>13,
       <1>14,
       <1>15, <1>16, <1>17, <1>18 DEF Next, Step, Cancel

-----------------------------------------------------------------------------
(* The invariant.                                                          *)

\* The first states.
LEMMA InitInv ==
    ASSUME CardinalityFacts, Init, IsFiniteSet(Calls)
    PROVE  TypeOK /\ Inv
<1>. USE DEF Init
<1>1. rlock \in SemType(Calls) /\ lock \in SemType(Calls) /\ Units(rlock) = 1 /\ Units(lock) = 1
    BY DEF RLock!New, Lock!New, SemType, Units
<1>2. LocalTypeOK
    BY Zenon DEF LocalTypeOK, Labels, Ended, Kinds
<1>3. Counted = {}
    BY Zenon DEF Counted
<1>4. CountInv
    BY Zenon, <1>3, CardEmpty DEF CountInv
<1>5. KindInv /\ RLockInv /\ LockInv
    BY <1>1 DEF KindInv, RLockInv, LockInv, HasRLock, HasLock, ReadersHaveLock
<1>. QED BY Zenon, <1>1, <1>2, <1>4, <1>5, SemTypes DEF Inv

\* Most steps leave the count alone.
LEMMA CountSame ==
    ASSUME CountInv, Counted' = Counted, readers' = readers,
           \A c \in Calls : Reading(c)' /\ pc'[c] \in {"load", "cas", "reg", "park"} => readers = 0
    PROVE  CountInv'
BY Zenon DEF CountInv

\* The counted guards are finitely many.
LEMMA CountedFinite ==
    ASSUME CardinalityFacts, IsFiniteSet(Calls)
    PROVE  IsFiniteSet(Counted) /\ Cardinality(Counted) \in Nat
<1>1. Counted \subseteq Calls
    BY Zenon DEF Counted
<1>. QED BY Zenon, <1>1, CardSubset, CardType

\* The steps of one call, on a lock that is not poisoned.
LEMMA StepInv ==
    ASSUME CardinalityFacts, TypeOK, Inv, IsFiniteSet(Calls), ~poison, NEW c \in Calls, Step(c)
        \/ Cancel(c)
    PROVE  Inv'
<1>0. rlock \in SemType(Calls) /\ lock \in SemType(Calls) /\ LocalTypeOK
    BY Zenon, SemTypes
<1>. USE DEF LocalTypeOK, Reading, Goto
<1>1. CASE Start(c)
  <2>1. KindInv'
      BY <1>0, <1>1 DEF Inv, KindInv, Start, Kinds
  <2>2. RLockInv'
      BY <1>0, <1>1 DEF Inv, KindInv, RLockInv, HasRLock, Start, Kinds
  <2>3. CountInv'
    <3>1. Counted' = Counted
        BY <1>0, <1>1 DEF Inv, KindInv, Counted, Start, Kinds
    <3>2. readers' = readers
        BY Zenon, <1>1 DEF Start
    <3>3. \A d \in Calls : Reading(d)' /\ pc'[d] \in {"load", "cas", "reg", "park"} => readers = 0
        BY <1>0, <1>1 DEF Inv, KindInv, CountInv, Start, Kinds
    <3>. QED BY Zenon, <3>1, <3>2, <3>3, CountSame DEF Inv
  <2>4. LockInv'
      BY <1>0, <1>1 DEF Inv, KindInv, LockInv, CountInv, RLockInv, HasRLock, HasLock,
         ReadersHaveLock, Start, Kinds
  <2>. QED BY Zenon, <2>1, <2>2, <2>3, <2>4 DEF Inv
<1>2. CASE RLockTry(c)
  <2>1. KindInv'
      BY <1>0, <1>2 DEF Inv, KindInv, RLockTry, Kinds
  <2>2. RLockInv'
      BY <1>0, <1>2, RLockOps DEF Inv, KindInv, RLockInv, HasRLock, RLockTry, Kinds
  <2>3. CountInv'
    <3>1. Counted' = Counted
        BY <1>0, <1>2 DEF Inv, KindInv, Counted, RLockTry, Kinds
    <3>2. readers' = readers
        BY Zenon, <1>2 DEF RLockTry
    <3>3. \A d \in Calls : Reading(d)' /\ pc'[d] \in {"load", "cas", "reg", "park"} => readers = 0
        BY <1>0, <1>2 DEF Inv, KindInv, CountInv, RLockTry, Kinds
    <3>. QED BY Zenon, <3>1, <3>2, <3>3, CountSame DEF Inv
  <2>4. LockInv'
      BY <1>0, <1>2 DEF Inv, KindInv, LockInv, CountInv, RLockInv, HasRLock, HasLock,
         ReadersHaveLock, RLockTry, Kinds
  <2>. QED BY Zenon, <2>1, <2>2, <2>3, <2>4 DEF Inv
<1>3. CASE RLockRegister(c)
  <2>1. KindInv'
      BY Zenon, <1>0, <1>3 DEF Inv, KindInv, RLockRegister, Kinds
  <2>2. RLockInv'
      BY <1>0, <1>3, RLockOps DEF Inv, KindInv, RLockInv, HasRLock, RLockRegister, Kinds
  <2>3. CountInv'
    <3>1. Counted' = Counted
        BY Zenon, <1>0, <1>3 DEF Inv, KindInv, Counted, RLockRegister, Kinds
    <3>2. readers' = readers
        BY Zenon, <1>3 DEF RLockRegister
    <3>3. \A d \in Calls : Reading(d)' /\ pc'[d] \in {"load", "cas", "reg", "park"} => readers = 0
        BY Zenon, <1>0, <1>3 DEF Inv, KindInv, CountInv, RLockRegister, Kinds
    <3>. QED BY Zenon, <3>1, <3>2, <3>3, CountSame DEF Inv
  <2>4. LockInv'
      BY <1>0, <1>3 DEF Inv, KindInv, LockInv, CountInv, RLockInv, HasRLock, HasLock,
         ReadersHaveLock, RLockRegister, Kinds
  <2>. QED BY Zenon, <2>1, <2>2, <2>3, <2>4 DEF Inv
<1>4. CASE RLockReturn(c)
  <2>1. KindInv'
      BY Zenon, <1>0, <1>4 DEF Inv, KindInv, RLockReturn, Kinds
  <2>2. RLockInv'
      BY <1>0, <1>4, RLockOps DEF Inv, KindInv, RLockInv, HasRLock, RLockReturn, Kinds
  <2>3. CountInv'
    <3>1. Counted' = Counted
        BY Zenon, <1>0, <1>4 DEF Inv, KindInv, Counted, RLockReturn, Kinds
    <3>2. readers' = readers
        BY Zenon, <1>4 DEF RLockReturn
    <3>3. \A d \in Calls : Reading(d)' /\ pc'[d] \in {"load", "cas", "reg", "park"} => readers = 0
        BY Zenon, <1>0, <1>4 DEF Inv, KindInv, CountInv, RLockReturn, Kinds
    <3>. QED BY Zenon, <3>1, <3>2, <3>3, CountSame DEF Inv
  <2>4. LockInv'
      BY <1>0, <1>4 DEF Inv, KindInv, LockInv, CountInv, RLockInv, HasRLock, HasLock,
         ReadersHaveLock, RLockReturn, Kinds
  <2>. QED BY Zenon, <2>1, <2>2, <2>3, <2>4 DEF Inv
<1>5. CASE RLockCanceled(c)
  <2>1. KindInv'
      BY Zenon, <1>0, <1>5 DEF Inv, KindInv, RLockCanceled, Kinds
  <2>2. RLockInv'
      BY <1>0, <1>5, RLockOps DEF Inv, KindInv, RLockInv, HasRLock, RLockCanceled, Kinds
  <2>3. CountInv'
    <3>1. Counted' = Counted
        BY Zenon, <1>0, <1>5 DEF Inv, KindInv, Counted, RLockCanceled, Kinds
    <3>2. readers' = readers
        BY Zenon, <1>5 DEF RLockCanceled
    <3>3. \A d \in Calls : Reading(d)' /\ pc'[d] \in {"load", "cas", "reg", "park"} => readers = 0
        BY Zenon, <1>0, <1>5 DEF Inv, KindInv, CountInv, RLockCanceled, Kinds
    <3>. QED BY Zenon, <3>1, <3>2, <3>3, CountSame DEF Inv
  <2>4. LockInv'
      BY <1>0, <1>5 DEF Inv, KindInv, LockInv, CountInv, RLockInv, HasRLock, HasLock,
         ReadersHaveLock, RLockCanceled, Kinds
  <2>. QED BY Zenon, <2>1, <2>2, <2>3, <2>4 DEF Inv
<1>6. CASE RLockUnlock(c)
  <2>1. KindInv'
      BY Zenon, <1>0, <1>6 DEF Inv, KindInv, RLockUnlock, Ended
  <2>2. RLockInv'
      BY <1>0, <1>6, RLockOps DEF Inv, KindInv, RLockInv, HasRLock, RLockUnlock, Ended
  <2>3. CountInv'
    <3>1. Counted' = Counted
        BY Zenon, <1>0, <1>6 DEF Inv, KindInv, Counted, RLockUnlock, Ended
    <3>2. readers' = readers
        BY Zenon, <1>6 DEF RLockUnlock
    <3>3. \A d \in Calls : Reading(d)' /\ pc'[d] \in {"load", "cas", "reg", "park"} => readers = 0
        BY Zenon, <1>0, <1>6 DEF Inv, KindInv, CountInv, RLockUnlock, Ended
    <3>. QED BY Zenon, <3>1, <3>2, <3>3, CountSame DEF Inv
  <2>4. LockInv'
      BY <1>0, <1>6 DEF Inv, KindInv, LockInv, CountInv, RLockInv, HasRLock, HasLock,
         ReadersHaveLock, RLockUnlock, Ended
  <2>. QED BY Zenon, <2>1, <2>2, <2>3, <2>4 DEF Inv
<1>7. CASE HaveRLock(c)
  <2>1. KindInv'
      BY Zenon, <1>0, <1>7 DEF Inv, KindInv, HaveRLock, Kinds
  <2>2. RLockInv'
      BY <1>0, <1>7 DEF Inv, KindInv, RLockInv, HasRLock, HaveRLock, Kinds
  <2>3. CountInv'
    <3>1. Counted' = Counted
        BY Zenon, <1>0, <1>7 DEF Inv, KindInv, Counted, HaveRLock, Kinds
    <3>2. readers' = readers
        BY Zenon, <1>7 DEF HaveRLock
    <3>3. \A d \in Calls : Reading(d)' /\ pc'[d] \in {"load", "cas", "reg", "park"} => readers = 0
        BY Zenon, <1>0, <1>7 DEF Inv, KindInv, CountInv, HaveRLock, Kinds
    <3>. QED BY Zenon, <3>1, <3>2, <3>3, CountSame DEF Inv
  <2>4. LockInv'
      BY <1>0, <1>7 DEF Inv, KindInv, LockInv, CountInv, RLockInv, HasRLock, HasLock,
         ReadersHaveLock, HaveRLock, Kinds
  <2>. QED BY Zenon, <2>1, <2>2, <2>3, <2>4 DEF Inv
<1>8. CASE LockLoad(c)
  <2>1. KindInv'
      BY <1>0, <1>8 DEF Inv, KindInv, LockLoad, WouldBlock, ReleaseThen, Kinds
  <2>2. RLockInv'
      BY <1>0, <1>8 DEF Inv, KindInv, RLockInv, HasRLock, LockLoad, WouldBlock, ReleaseThen, Kinds
  <2>3. CountInv'
    <3>1. Counted' = Counted
        BY <1>0, <1>8 DEF Inv, KindInv, Counted, LockLoad, WouldBlock, ReleaseThen, Kinds
    <3>2. readers' = readers
        BY Zenon, <1>8 DEF LockLoad, WouldBlock, ReleaseThen
    <3>3. \A d \in Calls : Reading(d)' /\ pc'[d] \in {"load", "cas", "reg", "park"} => readers = 0
        BY Zenon, <1>0, <1>8 DEF Inv, KindInv, CountInv, LockLoad, WouldBlock, ReleaseThen, Kinds
    <3>. QED BY Zenon, <3>1, <3>2, <3>3, CountSame DEF Inv
  <2>4. LockInv'
      BY <1>0, <1>8 DEF Inv, KindInv, LockInv, CountInv, RLockInv, HasRLock, HasLock,
         ReadersHaveLock, LockLoad, WouldBlock, ReleaseThen, Kinds
  <2>. QED BY Zenon, <2>1, <2>2, <2>3, <2>4 DEF Inv
<1>9. CASE LockCas(c)
  <2>1. KindInv'
      BY <1>0, <1>9 DEF Inv, KindInv, LockCas, WouldBlock, ReleaseThen, Granted, Kinds
  <2>2. RLockInv'
      BY <1>0, <1>9 DEF Inv, KindInv, RLockInv, HasRLock, LockCas, WouldBlock, ReleaseThen,
         Granted, Kinds
  <2>3. CountInv'
    <3>1. Counted' = Counted
        BY <1>0, <1>9 DEF Inv, KindInv, Counted, LockCas, WouldBlock, ReleaseThen, Granted, Kinds
    <3>2. readers' = readers
        BY Zenon, <1>9 DEF LockCas, WouldBlock, ReleaseThen, Granted
    <3>3. \A d \in Calls : Reading(d)' /\ pc'[d] \in {"load", "cas", "reg", "park"} => readers = 0
        BY Zenon, <1>0, <1>9 DEF Inv, KindInv, CountInv, LockCas, WouldBlock, ReleaseThen,
           Granted, Kinds
    <3>. QED BY Zenon, <3>1, <3>2, <3>3, CountSame DEF Inv
  <2>4. LockInv'
      BY <1>0, <1>9, LockOps DEF Inv, KindInv, LockInv, CountInv, RLockInv, HasRLock, HasLock,
         ReadersHaveLock, LockCas, WouldBlock, ReleaseThen, Granted, Kinds
  <2>. QED BY Zenon, <2>1, <2>2, <2>3, <2>4 DEF Inv
<1>10. CASE LockRegister(c)
  <2>1. KindInv'
      BY Zenon, <1>0, <1>10 DEF Inv, KindInv, LockRegister, Kinds
  <2>2. RLockInv'
      BY <1>0, <1>10 DEF Inv, KindInv, RLockInv, HasRLock, LockRegister, Kinds
  <2>3. CountInv'
    <3>1. Counted' = Counted
        BY Zenon, <1>0, <1>10 DEF Inv, KindInv, Counted, LockRegister, Kinds
    <3>2. readers' = readers
        BY Zenon, <1>10 DEF LockRegister
    <3>3. \A d \in Calls : Reading(d)' /\ pc'[d] \in {"load", "cas", "reg", "park"} => readers = 0
        BY Zenon, <1>0, <1>10 DEF Inv, KindInv, CountInv, LockRegister, Kinds
    <3>. QED BY Zenon, <3>1, <3>2, <3>3, CountSame DEF Inv
  <2>4. LockInv'
      BY <1>0, <1>10, LockOps DEF Inv, KindInv, LockInv, CountInv, RLockInv, HasRLock, HasLock,
         ReadersHaveLock, LockRegister, Kinds
  <2>. QED BY Zenon, <2>1, <2>2, <2>3, <2>4 DEF Inv
<1>11. CASE LockReturn(c)
  <2>1. KindInv'
      BY Zenon, <1>0, <1>11 DEF Inv, KindInv, LockReturn, Granted, Kinds
  <2>2. RLockInv'
      BY <1>0, <1>11 DEF Inv, KindInv, RLockInv, HasRLock, LockReturn, Granted, Kinds
  <2>3. CountInv'
    <3>1. Counted' = Counted
        BY Zenon, <1>0, <1>11 DEF Inv, KindInv, Counted, LockReturn, Granted, Kinds
    <3>2. readers' = readers
        BY Zenon, <1>11 DEF LockReturn, Granted
    <3>3. \A d \in Calls : Reading(d)' /\ pc'[d] \in {"load", "cas", "reg", "park"} => readers = 0
        BY Zenon, <1>0, <1>11 DEF Inv, KindInv, CountInv, LockReturn, Granted, Kinds
    <3>. QED BY Zenon, <3>1, <3>2, <3>3, CountSame DEF Inv
  <2>4. LockInv'
      BY <1>0, <1>11, LockOps DEF Inv, KindInv, LockInv, CountInv, RLockInv, HasRLock, HasLock,
         ReadersHaveLock, LockReturn, Granted, Kinds
  <2>. QED BY Zenon, <2>1, <2>2, <2>3, <2>4 DEF Inv
<1>12. CASE LockCanceled(c)
  <2>1. KindInv'
      BY <1>0, <1>12 DEF Inv, KindInv, LockCanceled, ReleaseThen, Kinds
  <2>2. RLockInv'
      BY <1>0, <1>12 DEF Inv, KindInv, RLockInv, HasRLock, LockCanceled, ReleaseThen, Kinds
  <2>3. CountInv'
    <3>1. Counted' = Counted
        BY <1>0, <1>12 DEF Inv, KindInv, Counted, LockCanceled, ReleaseThen, Kinds
    <3>2. readers' = readers
        BY Zenon, <1>12 DEF LockCanceled, ReleaseThen
    <3>3. \A d \in Calls : Reading(d)' /\ pc'[d] \in {"load", "cas", "reg", "park"} => readers = 0
        BY Zenon, <1>0, <1>12 DEF Inv, KindInv, CountInv, LockCanceled, ReleaseThen, Kinds
    <3>. QED BY Zenon, <3>1, <3>2, <3>3, CountSame DEF Inv
  <2>4. LockInv'
      BY <1>0, <1>12, LockOps DEF Inv, KindInv, LockInv, CountInv, RLockInv, HasRLock, HasLock,
         ReadersHaveLock, LockCanceled, ReleaseThen, Kinds
  <2>. QED BY Zenon, <2>1, <2>2, <2>3, <2>4 DEF Inv
<1>13. CASE Count(c)
  <2>1. KindInv'
      BY Zenon, <1>0, <1>13 DEF Inv, KindInv, Count, ReleaseThen, Kinds
  <2>2. RLockInv'
      BY <1>0, <1>13 DEF Inv, KindInv, RLockInv, HasRLock, Count, ReleaseThen, Kinds
  <2>3. CountInv'
    <3>1. /\ \A y : y # c => (y \in Counted' <=> y \in Counted)
          /\ c \notin Counted /\ c \in Counted'
        BY Zenon, <1>0, <1>13 DEF Inv, KindInv, Counted, Count, ReleaseThen
    <3>2. Cardinality(Counted)' = Cardinality(Counted) + 1
        BY <3>1, CountedFinite, CountOne DEF One
    <3>3. readers' = readers + 1
        BY Zenon, <1>13 DEF Count
    <3>4. \A d \in Calls : ~(Reading(d)' /\ pc'[d] \in {"load", "cas", "reg", "park"})
        BY Zenon, <1>0, <1>13 DEF Inv, RLockInv, HasRLock, Count, ReleaseThen
    <3>. QED BY Zenon, <3>2, <3>3, <3>4 DEF Inv, CountInv
  <2>4. LockInv'
      BY <1>0, <1>13 DEF Inv, KindInv, LockInv, CountInv, RLockInv, HasRLock, HasLock,
         ReadersHaveLock, Count, ReleaseThen, Kinds
  <2>. QED BY Zenon, <2>1, <2>2, <2>3, <2>4 DEF Inv
<1>14. CASE Drop(c)
  <2>1. KindInv'
      BY <1>0, <1>14 DEF Inv, KindInv, Drop, Kinds
  <2>2. RLockInv'
      BY <1>0, <1>14 DEF Inv, KindInv, RLockInv, HasRLock, Drop, Kinds
  <2>3. CountInv'
    <3>1. Counted' = Counted
        BY <1>0, <1>14 DEF Inv, KindInv, Counted, Drop, Kinds
    <3>2. readers' = readers
        BY Zenon, <1>14 DEF Drop
    <3>3. \A d \in Calls : Reading(d)' /\ pc'[d] \in {"load", "cas", "reg", "park"} => readers = 0
        BY Zenon, <1>0, <1>14 DEF Inv, KindInv, CountInv, Drop, Kinds
    <3>. QED BY Zenon, <3>1, <3>2, <3>3, CountSame DEF Inv
  <2>4. LockInv'
      BY <1>0, <1>14 DEF Inv, KindInv, LockInv, CountInv, RLockInv, HasRLock, HasLock,
         ReadersHaveLock, Drop, Kinds
  <2>. QED BY Zenon, <2>1, <2>2, <2>3, <2>4 DEF Inv
<1>15. CASE Uncount(c)
  <2>5. /\ readers \in Nat /\ readers # 0
        /\ Cardinality(Counted)' = Cardinality(Counted) - 1
    <3>1. /\ \A y : y # c => (y \in Counted' <=> y \in Counted)
          /\ c \in Counted /\ c \notin Counted'
        BY Zenon, <1>0, <1>15 DEF Inv, KindInv, Counted, Uncount, ReleaseThen
    <3>2. Cardinality(Counted)' = Cardinality(Counted) - 1 /\ Cardinality(Counted)' \in Nat
        BY <3>1, CountedFinite, CountOne DEF One
    <3>. QED BY <1>0, <3>2 DEF Inv, CountInv
  <2>6. readers' = readers - 1
      BY Zenon, <1>15, <2>5 DEF Uncount, CountDown
  <2>7. \A d \in Calls : ~(Reading(d)' /\ pc'[d] \in {"load", "cas", "reg", "park"})
      BY Zenon, <1>0, <1>15 DEF Inv, RLockInv, HasRLock, Uncount, ReleaseThen
  <2>1. KindInv'
      BY Zenon, <1>0, <1>15 DEF Inv, KindInv, Uncount, ReleaseThen, Kinds
  <2>2. RLockInv'
      BY <1>0, <1>15 DEF Inv, KindInv, RLockInv, HasRLock, Uncount, ReleaseThen, Kinds
  <2>3. CountInv'
    <3>. QED BY Zenon, <2>5, <2>6, <2>7 DEF Inv, CountInv
  <2>4. LockInv'
    <3>1. \A d \in Calls : pc[d] # "count" /\ pc'[d] # "count"
        BY Zenon, <1>0, <1>15 DEF Inv, RLockInv, HasRLock, Uncount, ReleaseThen
    <3>2. ReadersHaveLock /\ (ReadersHaveLock' <=> readers # 1)
        BY <2>5, <2>6, <3>1 DEF ReadersHaveLock
    <3>3. \A d \in Calls : ~HasLock(d) /\ ~HasLock(d)'
        BY Zenon, <1>0, <1>15, <3>2 DEF Inv, KindInv, LockInv, HasLock, Uncount, ReleaseThen
    <3>4. Units(lock) = 0 /\ Units(lock') = IF readers = 1 THEN 1 ELSE 0
        BY <1>0, <1>15, <3>2, LockOps DEF Inv, LockInv, Uncount
    <3>. QED BY Zenon, <3>2, <3>3, <3>4 DEF LockInv
  <2>. QED BY Zenon, <2>1, <2>2, <2>3, <2>4 DEF Inv
<1>16. CASE WriteUnlock(c)
  <2>1. KindInv'
      BY Zenon, <1>0, <1>16 DEF Inv, KindInv, WriteUnlock, Kinds
  <2>2. RLockInv'
      BY <1>0, <1>16 DEF Inv, KindInv, RLockInv, HasRLock, WriteUnlock, Kinds
  <2>3. CountInv'
    <3>1. Counted' = Counted
        BY Zenon, <1>0, <1>16 DEF Inv, KindInv, Counted, WriteUnlock, Kinds
    <3>2. readers' = readers
        BY Zenon, <1>16 DEF WriteUnlock
    <3>3. \A d \in Calls : Reading(d)' /\ pc'[d] \in {"load", "cas", "reg", "park"} => readers = 0
        BY Zenon, <1>0, <1>16 DEF Inv, KindInv, CountInv, WriteUnlock, Kinds
    <3>. QED BY Zenon, <3>1, <3>2, <3>3, CountSame DEF Inv
  <2>4. LockInv'
      BY <1>0, <1>16, LockOps DEF Inv, KindInv, LockInv, CountInv, RLockInv, HasRLock, HasLock,
         ReadersHaveLock, WriteUnlock, Kinds
  <2>. QED BY Zenon, <2>1, <2>2, <2>3, <2>4 DEF Inv
<1>. QED
    BY Zenon, <1>1, <1>2, <1>3, <1>4, <1>5, <1>6, <1>7, <1>8, <1>9, <1>10, <1>11, <1>12, <1>13,
       <1>14,
       <1>15, <1>16 DEF Step, Cancel

\* A wait that gave up gives its unit back through its waker.
LEMMA RepostInv ==
    ASSUME TypeOK, Inv, Repost
    PROVE  Inv'
<1>1. /\ UNCHANGED <<readers, poison, kind, pc, ret>>
      /\ Units(rlock') = Units(rlock) /\ Units(lock') = Units(lock)
    BY Zenon, SemTypes, RLockOps, LockOps DEF Repost
<1>2. Counted' = Counted
    BY Zenon, <1>1 DEF Counted, Reading
<1>. QED
    BY <1>1, <1>2 DEF Inv, KindInv, RLockInv, CountInv, LockInv, HasRLock, HasLock,
                      ReadersHaveLock, Reading

\* Every step keeps the types.
LEMMA TypeNext ==
    ASSUME TypeOK, [Next]_vars
    PROVE  TypeOK'
<1>1. /\ rlock \in SemType(Calls) /\ lock \in SemType(Calls) /\ LocalTypeOK
    BY Zenon, SemTypes
<1>2. /\ rlock' \in SemType(Calls) /\ lock' \in SemType(Calls) /\ LocalTypeOK'
    BY Zenon, <1>1, SemTypesNext, LocalTypeNext
<1>. QED BY Zenon, <1>2 DEF TypeOK, LocalTypeOK, SemType, RLock!TypeOK, Lock!TypeOK

\* Every step keeps the invariant until a holder panics, and for ever after that
\* the lock is poisoned.
LEMMA NextInv ==
    ASSUME CardinalityFacts, TypeOK, poison \/ Inv, IsFiniteSet(Calls), [Next]_vars
    PROVE  poison' \/ Inv'
<1>1. CASE poison
  <2>1. poison'
      BY Zenon, <1>1 DEF Next, Step, Cancel, vars, Start, RLockTry, RLockRegister, RLockReturn,
              RLockCanceled, RLockUnlock, HaveRLock, LockLoad, LockCas, LockRegister, LockReturn,
              LockCanceled, Count, Drop, Uncount, WriteUnlock, Repost
  <2>. QED BY Zenon, <2>1
<1>2. CASE ~poison /\ \E c \in Calls : Step(c) \/ Cancel(c)
    BY Zenon, <1>2, StepInv
<1>3. CASE ~poison /\ Repost
    BY Zenon, <1>3, RepostInv
<1>4. CASE ~poison /\ UNCHANGED vars
  <2>1. Counted' = Counted
      BY Zenon, <1>4 DEF Counted, Reading, vars
  <2>. QED
    BY Zenon, <1>4, <2>1 DEF Inv, KindInv, RLockInv, CountInv, LockInv, HasRLock, HasLock,
                      ReadersHaveLock, Reading, vars
<1>. QED BY Zenon, <1>1, <1>2, <1>3, <1>4 DEF Next

\* The readers counted exclude the writers.
LEMMA InvExcludes ==
    ASSUME CardinalityFacts, TypeOK, Inv, IsFiniteSet(Calls)
    PROVE  Exclusion
<1>1. ASSUME NEW c \in Holders, NEW d \in Holders, ~Reading(c), c # d
      PROVE  FALSE
  <2>1. HasLock(c) /\ ~HasLock(d)
      BY Zenon, <1>1 DEF Inv, LockInv, HasLock, Holders
  <2>2. d \in Counted
      BY Zenon, <1>1, <2>1 DEF HasLock, Holders, Counted
  <2>3. Cardinality(Counted) # 0
      BY Zenon, <2>2, CountedFinite, CardEmpty
  <2>4. readers > 0
      BY <2>3, CountedFinite DEF Inv, CountInv
  <2>. QED BY Zenon, <1>1, <2>1, <2>4 DEF Inv, LockInv, ReadersHaveLock, Holders
<1>. QED BY Zenon, <1>1 DEF Exclusion

-----------------------------------------------------------------------------
\* TypeOK: every variable keeps to its type.
THEOREM TypeCorrect == Spec => []TypeOK
<1>1. Init => TypeOK
  <2>. SUFFICES ASSUME Init PROVE TypeOK
      BY Zenon
  <2>1. rlock \in SemType(Calls) /\ lock \in SemType(Calls)
      BY DEF Init, RLock!New, Lock!New, SemType
  <2>2. LocalTypeOK
      BY Zenon DEF Init, LocalTypeOK, Labels, Ended, Kinds
  <2>. QED BY Zenon, <2>1, <2>2, SemTypes
<1>2. TypeOK /\ [Next]_vars => TypeOK'
    BY TypeNext
<1>. QED BY <1>1, <1>2, PTL DEF Spec

INSTANCE FiniteSetTheorems

\* The facts on finite sets that the lemmas above assume.
LEMMA CardinalityHolds == CardinalityFacts
<1>1. \A S : IsFiniteSet(S) => Cardinality(S) \in Nat
    BY Zenon, FS_CardinalityType
<1>2. \A n \in Nat : IsFiniteSet(1..n) /\ Cardinality(1..n) = n
    BY FS_Interval
<1>3. \A S, T : \A f \in Surjection(S, T) :
          IsFiniteSet(S) => IsFiniteSet(T) /\ Cardinality(T) <= Cardinality(S)
    BY Zenon, FS_Surjection
<1>4. \A S : \A T \in SUBSET S :
          IsFiniteSet(S) => /\ IsFiniteSet(T) /\ Cardinality(T) <= Cardinality(S)
                            /\ Cardinality(S) = Cardinality(T) => S = T
    BY Zenon, FS_Subset
<1>. QED
    BY Zenon, <1>1, <1>2, <1>3, <1>4, FS_EmptySet, FS_Singleton, FS_AddElement, FS_RemoveElement
    DEF CardinalityFacts

\* rwlock.rs:150-204.  Until a holder panics with a write guard, whoever has a
\* write guard has it alone, for any number of calls and whichever of them are
\* cancelled.
THEOREM ExclusionUnlessPoisoned ==
    ASSUME IsFiniteSet(Calls)
    PROVE  Spec => [](~poison => Exclusion)
<1>. USE CardinalityHolds
<1>1. Init => poison \/ Inv
    BY Zenon, InitInv
<1>2. TypeOK /\ (poison \/ Inv) /\ [Next]_vars => (poison \/ Inv)'
    BY Zenon, NextInv
<1>3. TypeOK /\ (poison \/ Inv) => (~poison => Exclusion)
    BY InvExcludes
<1>. QED BY <1>1, <1>2, <1>3, TypeCorrect, PTL DEF Spec

\* The same where no holder panics.
THEOREM ExclusionAlways ==
    ASSUME IsFiniteSet(Calls), CanPanic = {}
    PROVE  Spec => []Exclusion
<1>1. Init => ~poison
    BY Zenon DEF Init
<1>2. ~poison /\ [Next]_vars => ~poison'
    BY Zenon DEF Next, Step, Cancel, vars, Start, RLockTry, RLockRegister, RLockReturn,
              RLockCanceled, RLockUnlock, HaveRLock, LockLoad, LockCas, LockRegister, LockReturn,
              LockCanceled, Count, Drop, Uncount, WriteUnlock, Repost
<1>. QED BY <1>1, <1>2, ExclusionUnlessPoisoned, PTL DEF Spec
=============================================================================
