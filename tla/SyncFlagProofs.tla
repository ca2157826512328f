--------------------------- MODULE SyncFlagProofs ---------------------------
(***************************************************************************)
(* The flag of SyncFlag is true exactly when fire has been called, for any *)
(* number of calls below isize::MAX.                                       *)
(***************************************************************************)
EXTENDS SyncFlag, CollectionLemmas

-----------------------------------------------------------------------------
(* The inductive invariant.                                                *)

\* Inside wakeup_all.
Waking == {"pop", "unpark", "store_unparked", "take_release"}

\* The calls that may have counted themselves late.
Counted == {c \in Calls : pc[c] \notin {"idle", "push", "sub"}}

\* A call of fire does nothing else, and wakeup_all is on the stack of whoever is
\* inside it.
CallOK(c) ==
    /\ c \in Firers => pc[c] \in Waking \cup {"fire", "fired"} /\ ret[c] = "fired"
    /\ pc[c] \in Waking => depth[c] > 0

\* Before the first fire nobody is woken, so no failed wait has anything to pass on.
Unfired(c) ==
    /\ ~unparked[c]
    /\ pc[c] \notin Waking \cup {"retake"}
    /\ pc[c] = "fire" => c \in Firers

Inv ==
    /\ TypeOK
    /\ \A c \in Calls : CallOK(c)
    /\ ~FireCalled => cnt <= 0 /\ \A c \in Calls : Unfired(c)
    /\ cnt >= (IF FireCalled THEN IsizeMax ELSE 0) - Cardinality(Counted)

-----------------------------------------------------------------------------
\* Before fire the counter is at most zero; after it, the late waits leave it
\* positive, because there are fewer of them than isize::MAX.
LEMMA InvFlag ==
    ASSUME CardinalityFacts, IsFiniteSet(Calls), IsizeMax \in Nat, Cardinality(Calls) < IsizeMax,
           Inv
    PROVE  /\ FlagIsFire
           /\ cnt - 1 \in -IsizeMax .. IsizeMax
           /\ IsFiniteSet(Counted) /\ Cardinality(Counted) \in Nat
<1>1. /\ IsFiniteSet(Counted) /\ Cardinality(Counted) \in Nat /\ Cardinality(Calls) \in Nat
      /\ Cardinality(Counted) <= Cardinality(Calls)
    BY Zenon, CardSubset, CardType DEF Counted
<1>2. cnt \in -IsizeMax .. IsizeMax
    BY Zenon DEF Inv, TypeOK
<1>3. CASE FireCalled
    BY <1>1, <1>2, <1>3 DEF Inv, FlagIsFire, IsFired
<1>4. CASE ~FireCalled
    BY <1>1, <1>2, <1>4 DEF Inv, FlagIsFire, IsFired
<1>. QED BY Zenon, <1>1, <1>3, <1>4

\* A step that leaves the counter alone, or takes one off for a call that now
\* counts, or sets it to isize::MAX, and that does not take the first fire back.
LEMMA CounterStep ==
    ASSUME CardinalityFacts, IsFiniteSet(Calls), IsizeMax \in Nat, Cardinality(Calls) < IsizeMax,
           Inv,
           NEW c \in Calls, NEW l, pc' = [pc EXCEPT ![c] = l],
           l \in {"idle", "push", "sub"} => pc[c] \in {"idle", "push", "sub"},
           FireCalled => FireCalled',
           \/ cnt' = cnt /\ (FireCalled' => FireCalled)
           \/ /\ cnt' = cnt - 1 /\ pc[c] = "sub" /\ l \notin {"idle", "push", "sub"}
              /\ FireCalled' => FireCalled
           \/ cnt' = IsizeMax
    PROVE  /\ cnt' \in -IsizeMax .. IsizeMax
           /\ cnt' >= (IF FireCalled' THEN IsizeMax ELSE 0) - Cardinality(Counted')
<1>1. /\ cnt \in -IsizeMax .. IsizeMax /\ cnt - 1 \in -IsizeMax .. IsizeMax
      /\ IsFiniteSet(Counted) /\ Cardinality(Counted) \in Nat
    BY Zenon, InvFlag DEF Inv, TypeOK
<1>2. pc'[c] = l /\ \A d \in Calls : d # c => pc'[d] = pc[d]
    BY Zenon DEF Inv, TypeOK
<1>3. \A d : d # c => (d \in Counted' <=> d \in Counted)
    BY Zenon, <1>2 DEF Counted
<1>4. /\ Cardinality(Counted') \in Nat
      /\ Cardinality(Counted') = Cardinality(Counted) + One(c \in Counted') - One(c \in Counted)
    BY Zenon, <1>1, <1>3, CountOne
<1>5. /\ c \in Counted => c \in Counted'
      /\ pc[c] = "sub" /\ l \notin {"idle", "push", "sub"} => c \notin Counted /\ c \in Counted'
    BY Zenon, <1>2 DEF Counted
<1>6. Cardinality(Counted') >= Cardinality(Counted)
    BY <1>1, <1>4, <1>5 DEF One
<1>7. CASE cnt' = cnt /\ (FireCalled' => FireCalled)
  <2>1. FireCalled' <=> FireCalled
      BY Zenon, <1>7
  <2>. QED BY <1>1, <1>4, <1>6, <1>7, <2>1 DEF Inv
<1>8. CASE /\ cnt' = cnt - 1 /\ pc[c] = "sub" /\ l \notin {"idle", "push", "sub"}
           /\ FireCalled' => FireCalled
  <2>1. FireCalled' <=> FireCalled
      BY Zenon, <1>8
  <2>2. Cardinality(Counted') = Cardinality(Counted) + 1
      BY <1>1, <1>4, <1>5, <1>8 DEF One
  <2>. QED BY <1>1, <1>8, <2>1, <2>2 DEF Inv
<1>9. CASE cnt' = IsizeMax
    BY <1>4, <1>9
<1>. QED BY Zenon, <1>7, <1>8, <1>9

\* Every step keeps the variables but the counter to their types.
LEMMA TypeNext ==
    ASSUME Inv, NEW c \in Calls, Step(c) \/ WaitParkErr(c)
    PROVE  cnt' \in -IsizeMax .. IsizeMax => TypeOK'
<1>. USE DEF TypeOK, Ended, Goto, Call, BlockerTypeOK, blockerVars
<1>0. TypeOK /\ CallOK(c)
    BY Zenon DEF Inv
<1>1. CASE TryFirst(c)
    BY Zenon, <1>0, <1>1 DEF TryFirst
<1>2. CASE Push(c)
  <2>1. Append(to_wake, c) \in Seq(Calls)
      BY <1>0
  <2>. QED BY Zenon, <1>0, <1>2, <2>1 DEF Push
<1>3. CASE FetchSub(c)
  <2>1. CASE IsFired
    <3>1. /\ depth' = [depth EXCEPT ![c] = 1] /\ ret' = [ret EXCEPT ![c] = "park"]
          /\ pc' = [pc EXCEPT ![c] = "pop"] /\ UNCHANGED <<to_wake, target, blockerVars>>
        BY Zenon, <1>3, <2>1 DEF FetchSub
    <3>2. depth' \in [Calls -> Nat]
        BY Zenon, <1>0, <3>1
    <3>. QED BY Zenon, <1>0, <3>1, <3>2
  <2>2. CASE ~IsFired
      BY Zenon, <1>0, <1>3, <2>2 DEF FetchSub
  <2>. QED BY Zenon, <2>1, <2>2
<1>4. CASE WaitParkOk(c)
    BY Zenon, <1>0, <1>4 DEF WaitParkOk, ParkOk
<1>5. CASE WaitParkErr(c)
    BY Zenon, <1>0, <1>5 DEF WaitParkErr, ParkErr
<1>6. CASE IsUnparked(c)
    BY Zenon, <1>0, <1>6 DEF IsUnparked
<1>7. CASE WaitSetRelease(c)
    BY Zenon, <1>0, <1>7 DEF WaitSetRelease, SetRelease
<1>8. CASE Recheck(c)
    BY Zenon, <1>0, <1>8 DEF Recheck
<1>9. CASE Retake(c)
    BY Zenon, <1>0, <1>9 DEF Retake, TakeRelease
<1>10. CASE Fire(c)
    BY <1>0, <1>10 DEF Fire
<1>11. CASE Pop(c)
  <2>1. CASE to_wake = <<>>
    <3>1. depth[c] - 1 \in Nat
        BY <1>0, <1>11 DEF Pop, CallOK, Waking
    <3>. QED BY Zenon, <1>0, <1>11, <2>1, <3>1 DEF Pop
  <2>2. CASE to_wake # <<>>
    <3>1. Head(to_wake) \in Calls /\ Tail(to_wake) \in Seq(Calls)
        BY <1>0, <2>2
    <3>. QED BY Zenon, <1>0, <1>11, <2>2, <3>1 DEF Pop
  <2>. QED BY Zenon, <2>1, <2>2
<1>12. CASE Unpark(c)
    BY Zenon, <1>0, <1>12 DEF Unpark, BlockerUnpark
<1>13. CASE UnparkStore(c)
    BY Zenon, <1>0, <1>13 DEF UnparkStore, StoreUnparked
<1>14. CASE UnparkTakeRelease(c)
    BY Zenon, <1>0, <1>14 DEF UnparkTakeRelease, TakeRelease
<1>. QED BY Zenon, <1>1, <1>2, <1>3, <1>4, <1>5, <1>6, <1>7, <1>8, <1>9, <1>10, <1>11, <1>12,
            <1>13, <1>14
     DEF Step

\* What a step does to the call that takes it.
LEMMA CallNext ==
    ASSUME Inv, NEW c \in Calls, Step(c) \/ WaitParkErr(c)
    PROVE  \E l : /\ pc' = [pc EXCEPT ![c] = l]
                  /\ l \in {"idle", "push", "sub"} => pc[c] \in {"idle", "push", "sub"}
                  /\ \A d \in Calls : d # c => depth'[d] = depth[d] /\ ret'[d] = ret[d]
                  /\ CallOK(c)'
                  /\ c \in Firers /\ (pc[c] # "fire" \/ depth[c] > 0) => l # "fire" \/ depth'[c] > 0
                  /\ pc[c] # "fire" => cnt' = cnt \/ (cnt' = cnt - 1 /\ pc[c] = "sub" /\
                                                    l \notin {"idle", "push", "sub"})
                  /\ pc[c] = "fire" => cnt' = IsizeMax /\ depth'[c] > 0
<1>. USE DEF Goto, Call
<1>0. TypeOK /\ CallOK(c)
    BY Zenon DEF Inv
<1>. USE <1>0 DEF TypeOK, CallOK, Waking, Ended
<1>1. CASE TryFirst(c)
    BY Zenon, <1>1 DEF TryFirst
<1>2. CASE Push(c)
    BY Zenon, <1>2 DEF Push
<1>3. CASE FetchSub(c)
    BY <1>3 DEF FetchSub
<1>4. CASE WaitParkOk(c) \/ WaitParkErr(c)
    BY <1>4 DEF WaitParkOk, WaitParkErr
<1>6. CASE IsUnparked(c)
    BY <1>6 DEF IsUnparked
<1>7. CASE WaitSetRelease(c) \/ Recheck(c)
    BY Zenon, <1>7 DEF WaitSetRelease, Recheck
<1>9. CASE Retake(c)
    BY <1>9 DEF Retake
<1>10. CASE Fire(c)
  <2>1. /\ pc[c] = "fire" /\ pc' = [pc EXCEPT ![c] = "pop"] /\ cnt' = IsizeMax
        /\ depth' = [depth EXCEPT ![c] = depth[c] + 1] /\ ret' = ret
      BY Zenon, <1>10 DEF Fire
  <2>2. /\ depth'[c] > 0 /\ pc'[c] = "pop"
        /\ \A d \in Calls : d # c => depth'[d] = depth[d] /\ ret'[d] = ret[d]
      BY <2>1
  <2>. QED BY Zenon, <2>1, <2>2
<1>11. CASE Pop(c)
  <2>1. CASE to_wake = <<>>
    <3>1. PICK l : /\ pc[c] = "pop" /\ pc' = [pc EXCEPT ![c] = l]
                   /\ l = IF depth[c] = 1 THEN ret[c] ELSE "pop"
                   /\ depth' = [depth EXCEPT ![c] = depth[c] - 1] /\ ret' = ret /\ cnt' = cnt
        BY Zenon, <1>11, <2>1 DEF Pop
    <3>2. /\ depth'[c] = depth[c] - 1 /\ depth[c] > 0 /\ pc'[c] = l
          /\ \A d \in Calls : d # c => depth'[d] = depth[d] /\ ret'[d] = ret[d]
        BY Zenon, <3>1
    <3>3. CASE depth[c] = 1
        BY Zenon, <3>1, <3>2, <3>3
    <3>4. CASE depth[c] # 1
      <4>1. depth'[c] > 0 /\ l = "pop"
          BY <3>1, <3>2, <3>4
      <4>. QED BY Zenon, <3>1, <3>2, <4>1
    <3>. QED BY Zenon, <3>3, <3>4
  <2>2. CASE to_wake # <<>>
      BY Zenon, <1>11, <2>2 DEF Pop
  <2>. QED BY Zenon, <2>1, <2>2
<1>12. CASE Unpark(c) \/ UnparkStore(c) \/ UnparkTakeRelease(c)
    BY Zenon, <1>12 DEF Unpark, UnparkStore, UnparkTakeRelease
<1>. QED BY Zenon, <1>1, <1>2, <1>3, <1>4, <1>6, <1>7, <1>9, <1>10, <1>11, <1>12 DEF Step

\* Before the first fire a step wakes nobody, unless it is that fire.
LEMMA UnfiredNext ==
    ASSUME IsFiniteSet(Calls), IsizeMax \in Nat, Cardinality(Calls) < IsizeMax, Inv,
           NEW c \in Calls, Step(c) \/ WaitParkErr(c), ~FireCalled
    PROVE  IF c \in Firers THEN FireCalled'
           ELSE cnt' <= 0 /\ \A d \in Calls : Unfired(d)'
<1>0. /\ TypeOK /\ CallOK(c) /\ Unfired(c) /\ cnt \in Int /\ cnt <= 0
      /\ \A d \in Calls : Unfired(d)
    BY DEF Inv, TypeOK
<1>1. CASE c \in Firers
  <2>1. pc[c] = "fire" /\ Fire(c)
      BY Zenon, <1>0, <1>1 DEF FireCalled, Step, TryFirst, Push, FetchSub, WaitParkOk, WaitParkErr,
         IsUnparked, WaitSetRelease, Recheck, Retake, Pop, Unpark, UnparkStore, UnparkTakeRelease
  <2>2. pc'[c] = "pop"
      BY Zenon, <1>0, <2>1 DEF Fire, Goto, TypeOK
  <2>. QED BY Zenon, <1>1, <2>2 DEF FireCalled
<1>2. CASE c \notin Firers
  <2>1. ~Fire(c) /\ ~Pop(c) /\ ~Unpark(c) /\ ~UnparkStore(c) /\ ~UnparkTakeRelease(c) /\ ~Retake(c)
      BY Zenon, <1>0, <1>2 DEF Unfired, Waking, Fire, Pop, Unpark, UnparkStore,
         UnparkTakeRelease, Retake
  <2>2. /\ UNCHANGED unparked /\ (cnt' = cnt \/ cnt' = cnt - 1)
        /\ \E l : pc' = [pc EXCEPT ![c] = l] /\ l \notin Waking \cup {"retake", "fire"}
    <3>1. ~unparked[c] /\ ~IsFired
        BY <1>0 DEF Unfired, IsFired
    <3>. QED BY ZenonT(40), <2>1, <3>1 DEF Step, TryFirst, Push, FetchSub, WaitParkOk, WaitParkErr,
                                      IsUnparked,
             WaitSetRelease, Recheck, ParkOk, ParkErr, SetRelease, Goto, Call, Waking, blockerVars
  <2>3. ASSUME NEW d \in Calls PROVE Unfired(d)'
      BY Zenon, <1>0, <2>2 DEF Unfired, TypeOK
  <2>. QED BY <1>0, <1>2, <2>2, <2>3
<1>. QED BY Zenon, <1>1, <1>2

\* Every step keeps the invariant.
LEMMA NextInv ==
    ASSUME CardinalityFacts, IsFiniteSet(Calls), IsizeMax \in Nat, Cardinality(Calls) < IsizeMax,
           Firers \subseteq Calls,
           Inv, [Next]_vars
    PROVE  Inv'
<1>1. ASSUME NEW c \in Calls, Step(c) \/ WaitParkErr(c) PROVE Inv'
  <2>1. PICK l : /\ pc' = [pc EXCEPT ![c] = l]
                 /\ l \in {"idle", "push", "sub"} => pc[c] \in {"idle", "push", "sub"}
                 /\ \A d \in Calls : d # c => depth'[d] = depth[d] /\ ret'[d] = ret[d]
                 /\ CallOK(c)'
                 /\ c \in Firers /\ (pc[c] # "fire" \/ depth[c] > 0) => l # "fire" \/ depth'[c] > 0
                 /\ pc[c] # "fire" => cnt' = cnt \/ (cnt' = cnt - 1 /\ pc[c] = "sub" /\
                                                   l \notin {"idle", "push", "sub"})
                 /\ pc[c] = "fire" => cnt' = IsizeMax /\ depth'[c] > 0
      BY Zenon, <1>1, CallNext
  <2>2. pc'[c] = l /\ \A d \in Calls : d # c => pc'[d] = pc[d]
      BY Zenon, <2>1 DEF Inv, TypeOK
  <2>3. FireCalled => FireCalled'
      BY Zenon, <2>1, <2>2 DEF FireCalled
  <2>4. FireCalled' /\ ~FireCalled => pc[c] = "fire"
      BY Zenon, <2>1, <2>2 DEF FireCalled
  <2>5. /\ cnt' \in -IsizeMax .. IsizeMax
        /\ cnt' >= (IF FireCalled' THEN IsizeMax ELSE 0) - Cardinality(Counted')
    <3>1. CASE pc[c] = "fire"
        BY Zenon, <2>1, <2>3, <3>1, CounterStep
    <3>2. CASE pc[c] # "fire"
        BY Zenon, <2>1, <2>3, <2>4, <3>2, CounterStep
    <3>. QED BY Zenon, <3>1, <3>2
  <2>6. TypeOK'
      BY Zenon, <1>1, <2>5, TypeNext
  <2>7. ASSUME NEW d \in Calls PROVE CallOK(d)'
      BY Zenon, <2>1, <2>2 DEF Inv, CallOK
  <2>8. ~FireCalled' => cnt' <= 0 /\ \A d \in Calls : Unfired(d)'
      BY Zenon, <1>1, <2>3, UnfiredNext
  <2>. QED BY Zenon, <2>5, <2>6, <2>7, <2>8 DEF Inv
<1>2. CASE UNCHANGED vars
  <2>1. (FireCalled' <=> FireCalled) /\ Counted' = Counted /\ cnt' = cnt
      BY Zenon, <1>2 DEF vars, flagVars, FireCalled, Counted
  <2>2. TypeOK' /\ \A c \in Calls : CallOK(c)' /\ (Unfired(c) => Unfired(c)')
      BY Zenon, <1>2 DEF Inv, TypeOK, BlockerTypeOK, CallOK, Unfired, vars, flagVars, blockerVars
  <2>. QED BY Zenon, <2>1, <2>2 DEF Inv
<1>. QED BY Zenon, <1>1, <1>2 DEF Next

\* The invariant, always.
LEMMA InvAlways ==
    ASSUME CardinalityFacts, IsFiniteSet(Calls), IsizeMax \in Nat, Cardinality(Calls) < IsizeMax,
           Firers \subseteq Calls
    PROVE  Spec => []Inv
<1>1. Init => Inv
  <2>. SUFFICES ASSUME Init PROVE Inv
      BY Zenon
  <2>. USE DEF Init, BlockerInit
  <2>1. TypeOK
      BY DEF TypeOK, Ended, BlockerTypeOK
  <2>2. ~FireCalled
    <3>1. ASSUME NEW c \in Firers PROVE pc[c] = "fire" /\ depth[c] = 0
        BY Zenon
    <3>2. ASSUME NEW c \in Firers PROVE ~(pc[c] # "fire" \/ depth[c] > 0)
        BY ONLY <3>1
    <3>. QED BY ONLY Zenon, <3>2 DEF FireCalled
  <2>3. \A c \in Calls : CallOK(c) /\ Unfired(c)
      BY Zenon DEF CallOK, Unfired, Waking
  <2>4. Cardinality(Counted) \in Nat
      BY Zenon, CardSubset, CardType DEF Counted
  <2>. QED BY <2>1, <2>2, <2>3, <2>4 DEF Inv
<1>2. Inv /\ [Next]_vars => Inv'
    BY NextInv
<1>. QED BY <1>1, <1>2, PTL DEF Spec

INSTANCE FiniteSetTheorems

\* The facts on finite sets that the lemmas above assume.
LEMMA CardinalityHolds == CardinalityFacts
<1>1. \A S : IsFiniteSet(S) => Cardinality(S) \in Nat
    BY Zenon, FS_CardinalityType
<1>2. \A n \in Nat : IsFiniteSet(1..n) /\ Cardinality(1..n) = n
    BY FS_Interval
<1>3. \A S, T : \A f \in Surjection(S, T) :
          IsFiniteSet(S) => IsFiniteSet(T) /\ Cardinality(T) <= Cardinality(S)
    BY Zenon, FS_Surjection
<1>4. \A S : \A T \in SUBSET S :
          IsFiniteSet(S) => /\ IsFiniteSet(T) /\ Cardinality(T) <= Cardinality(S)
                            /\ Cardinality(S) = Cardinality(T) => S = T
    BY Zenon, FS_Subset
<1>. QED
    BY Zenon, <1>1, <1>2, <1>3, <1>4, FS_EmptySet, FS_Singleton, FS_AddElement, FS_RemoveElement
    DEF CardinalityFacts

\* sync_flag.rs:69-104.  The counter and the queue keep to their types: the counter
\* does not leave the isize, as long as there are fewer calls than isize::MAX.
THEOREM TypeCorrect ==
    ASSUME IsFiniteSet(Calls), IsizeMax \in Nat, Cardinality(Calls) < IsizeMax,
           Firers \subseteq Calls
    PROVE  Spec => []TypeOK
<1>. USE CardinalityHolds
<1>1. Inv => TypeOK
    BY Zenon DEF Inv
<1>2. Spec => []Inv
    BY InvAlways
<1>. QED BY <1>1, <1>2, PTL

\* sync_flag.rs:69-104, 133.  However many waits come early, come late, time out or
\* are cancelled, and whatever they pass on: the flag is true exactly when some call
\* of fire has begun.
THEOREM FlagIsFireAlways ==
    ASSUME IsFiniteSet(Calls), IsizeMax \in Nat, Cardinality(Calls) < IsizeMax,
           Firers \subseteq Calls
    PROVE  Spec => []FlagIsFire
<1>. USE CardinalityHolds
<1>1. Inv => FlagIsFire
    BY Zenon, InvFlag
<1>2. Spec => []Inv
    BY InvAlways
<1>. QED BY <1>1, <1>2, PTL
=============================================================================
